------------------------------ MODULE DellConfig ------------------------------
(* delloem (oem_dell.c): the programs that set a Dell server's front panel,     *)
(* management NIC, power cap and drive LEDs.  Most of them read a parameter and *)
(* send it back with a part of it changed, and what a failed read leaves behind *)
(* differs: an error, zeros, or whatever was on the stack.                      *)
EXTENDS BmcConfig

Dell(p)    == <<"dell", p>>
Imc        == Dell("imc")         \* the kind of the management controller
Config     == Dell("config")      \* LCD: mode, qualifiers and error display
Status     == Dell("status")      \* LCD: virtual KVM and front panel access
Lines      == Dell("lines")       \* LCD: lines that can be set
Nic        == Dell("nic")         \* <<shared or dedicated, failover>>
CapStatus  == Dell("capstatus")   \* power cap: can be set, is enabled
Cap        == Dell("cap")         \* power cap: value, unit and limits
Text(i)    == <<"text", i>>       \* LCD: the block i of the user's text
SysInfo(i) == <<"sysinfo", i>>    \* a system info string's block i
Drive(d)   == <<"drive", d>>      \* the bay and slot of a PCI device, or NoSlot
Led(slot)  == <<"led", slot>>     \* the SES flags of a slot

Imcs == {"10g", "11g", "11g blade", "12g", "12g blade"}

NoSlot == 255
(* An LCD text is told by its length and a name; it has up to 62 characters.    *)
LCD_STRING_LENGTH_MAX == 62
Blocks(len, first)    == 1 + (IF len > first THEN (len - first + 15) \div 16 ELSE 0)

(* The read that fails, if any: what is read, and how it fails.  "support" is   *)
(* CheckLCDSupport's and CheckSetLEDSupport's.                                  *)
NoBad     == [key |-> "none", how |-> "none"]
DellReads == {"imc", "support", "config", "status", "lines", "nic", "capstatus", "cap", "drive"}
BadReads  == [key : DellReads, how : {"lost", "refused"}]

Refuses(c, key) == key \notin DOMAIN c
Missed(bad, name, key) == bad.key = name \/ Refuses(conf, key)

(* ipmi_idracvalidator_command: a failed read is only noticed with debugging    *)
(* on; else the kind is taken from the answer that is not there.                *)
ImcType(bad, junk) == IF Missed(bad, "imc", Imc) THEN junk.imc ELSE conf[Imc]
Generation(imc) ==
  CASE imc \in {"11g", "11g blade"} -> "11g"
    [] imc \in {"12g", "12g blade"} -> "12g"
    [] OTHER                        -> "none"

-----------------------------------------------------------------------------
(* lcd.                                                                         *)

(* The static lcd_mode, as long as it has not been read.                        *)
ZeroConfig == [mode |-> "userdefined", btu |-> FALSE, fahrenheit |-> FALSE, errors |-> "none"]

SetConfigureWh(o, bad) ==
  LET old == IF Missed(bad, "config", Config) THEN ZeroConfig ELSE conf[Config]
      new == CASE o.op \in {"mode", "text"} -> [old EXCEPT !.mode = o.arg.mode]
               [] o.op = "watt"             -> [old EXCEPT !.btu = o.arg.on]
               [] o.op = "celsius"          -> [old EXCEPT !.fahrenheit = o.arg.on]
               [] o.op = "errordisplay"     -> [old EXCEPT !.errors = o.arg.mode]
  IN  <<Cmd("ipmi_lcd_set_configure_command_wh", Config, new, "stop")>>

(* What the older servers have of it is the mode.                               *)
SetConfigure(o) ==
  <<Cmd("ipmi_lcd_set_configure_command", Config, [ZeroConfig EXCEPT !.mode = o.arg.mode], "stop")>>

SetSingleLineText(t, then) ==
  [i \in 1..Blocks(t.len, 14) |->
     Cmd("ipmi_lcd_configure", Text(i - 1), IF i = 1 THEN t ELSE t.name, "stop")]
  \o [i \in DOMAIN then |-> [then[i] EXCEPT !.fn = "ipmi_lcd_configure"]]

SetText(o, bad, then) ==
  IF \/ Missed(bad, "lines", Lines)
     \/ conf[Lines] = 0
     \/ o.arg.text.len > LCD_STRING_LENGTH_MAX
  THEN <<Abort>>
  ELSE SetSingleLineText(o.arg.text, then)

(* A refused read leaves the other half of the status unset, which is sent, and *)
(* its completion code is returned in the end.                                  *)
SetStatus(o, bad, junk) ==
  LET refused == bad = [key |-> "status", how |-> "refused"]
      old == IF refused THEN junk.status ELSE conf[Status]
      new == IF o.op = "vkvm" THEN [old EXCEPT !.kvm = o.arg.mode] ELSE [old EXCEPT !.lock = o.arg.mode]
  IN  IF bad = [key |-> "status", how |-> "lost"] THEN <<Abort>>
      ELSE <<Cmd("ipmi_lcd_set_lock", Status, new, "stop")>> \o If(refused, <<Abort>>)

Lcd(o, bad, junk) ==
  LET gen == Generation(ImcType(bad, junk))
  IN  CASE Missed(bad, "support", Status)                          -> <<Abort>>
        [] o.op \in {"vkvm", "frontpanelaccess"}                   -> SetStatus(o, bad, junk)
        [] o.op \in {"mode", "text"} /\ (gen = "none") # o.arg.old -> <<Abort>>
        [] o.op = "mode" /\ gen = "none" /\ o.arg.old              -> SetConfigure(o)
        [] o.op = "text" /\ gen = "none" /\ o.arg.old              -> SetText(o, bad, SetConfigure(o))
        [] o.op = "text" /\ gen # "none" /\ ~o.arg.old             -> SetText(o, bad, SetConfigureWh(o, bad))
        [] o.op \in {"watt", "celsius", "errordisplay"} /\ gen = "none" -> <<Abort>>
        [] OTHER                                                   -> SetConfigureWh(o, bad)

LcdOps == {"mode", "text", "watt", "celsius", "errordisplay", "vkvm", "frontpanelaccess"}

-----------------------------------------------------------------------------
(* lan set.  LOM n is the number n + 1, 0 is no failover, 6 any LOM.            *)

DEDICATED12 == 1
ALL_LOMS    == 6
NotSent     == <<-2, 0>>
Usage       == <<-1, 0>>

(* get_nic_selection_mode_12g: the new selection, from what it is now.  Of its  *)
(* errors only the usage is one to ipmi_delloem_lan_main.                       *)
NicMode12(w, now, imc) ==
  CASE w.mode = "dedicated" -> <<DEDICATED12, 0>>
    [] w.mode = "shared"    -> Usage
    [] imc = "12g blade"    -> NotSent
    [] w.mode = "lom"       -> <<w.lom, IF now[2] = w.lom THEN 0 ELSE now[2]>>
    [] w.mode = "failover" /\ (now[1] = DEDICATED12 \/ (w.lom # 0 /\ now[1] = w.lom)) -> NotSent
    [] OTHER                -> <<now[1], w.lom>>

(* get_nic_selection_mode: 0 is shared, 1 with LOM 2 to fail over to, 2 is      *)
(* dedicated, 3 shared with all LOMs.                                           *)
NicMode11(w) ==
  CASE w.mode = "dedicated"                -> <<2, 0>>
    [] w.mode = "shared"                   -> <<0, 0>>
    [] w.mode = "failover" /\ w.lom = 3    -> <<1, 0>>
    [] w.mode = "failover" /\ w.lom = ALL_LOMS -> <<3, 0>>
    [] OTHER                               -> Usage

(* Where the selection cannot be read, the error number is taken for one of the *)
(* function's own: a completion code, and most error numbers, for none, and     *)
(* zeros are sent; -1 for the usage; -2 to -4 for a message.                    *)
NicSelections(w, imc, bad) ==
  CASE Generation(imc) # "12g" -> {NicMode11(w)}
    [] Missed(bad, "nic", Nic) -> {<<0, 0>>} \cup {x \in {Usage, NotSent} : bad.how = "lost"}
    [] OTHER                   -> {NicMode12(w, conf[Nic], imc)}

LanSet(o, bad, junk, sel) ==
  LET imc == ImcType(bad, junk)
  IN  CASE imc = "11g blade" \/ sel = Usage -> <<Abort>>
        [] sel = NotSent                    -> << >>
        [] OTHER -> <<Cmd("ipmi_lan_set_nic_selection", Nic, sel, "ignore")>>

-----------------------------------------------------------------------------
(* powermonitor, setled, setsysinfo and passwordpolicy.                         *)

SetCapStatus(o, bad) ==
  IF Missed(bad, "capstatus", CapStatus) \/ ~conf[CapStatus].settable THEN <<Abort>>
  ELSE <<Cmd("ipmi_set_power_capstatus_command", CapStatus,
             [conf[CapStatus] EXCEPT !.on = o.arg.on], "stop")>>

BtuToWatt(val) == (val * 1000) \div 3413

(* The value in Watts.                                                          *)
InWatts(val, unit, cap) ==
  CASE unit = "btuphr"  -> BtuToWatt(val)
    [] unit = "percent" -> (val * (cap.max - cap.min)) \div 100 + cap.min
    [] OTHER            -> val

(* The new cap, of 16 bits; the limits that are sent along are the BMC's own.   *)
SetPowerCap(o, bad) ==
  LET cap == conf[Cap]  w == InWatts(o.arg.val, o.arg.unit, cap)
  IN  IF \/ Missed(bad, "capstatus", CapStatus)
         \/ ~conf[CapStatus].settable \/ ~conf[CapStatus].on
         \/ Missed(bad, "cap", Cap)
         \/ o.arg.unit = "percent" /\ o.arg.val \notin 0..100
         \/ o.arg.unit # "percent" /\ w \notin cap.min..cap.max
      THEN <<Abort>>
      ELSE <<Cmd("ipmi_set_power_cap", Cap,
                 [cap EXCEPT !.value = (IF o.arg.unit = "percent" THEN w ELSE o.arg.val) % 65536,
                             !.unit = IF o.arg.unit = "percent" THEN "watt" ELSE o.arg.unit],
                 "stop")>>

Clear(o) == <<Cmd("ipmi_powermgmt_clear", Dell(o.arg.mode), "cleared", "stop")>>

SetLed(o, bad) ==
  IF \/ bad.key = "support" \/ Missed(bad, "drive", Drive(o.arg.drive))
     \/ conf[Drive(o.arg.drive)] = NoSlot
  THEN <<Abort>>
  ELSE <<Cmd("ipmi_setled_state", Led(conf[Drive(o.arg.drive)]), o.arg.flags, "stop")>>

(* set_system_info: blocks of 16, the first of which tells the length.          *)
SetSysInfo(o) ==
  [i \in 1..Blocks(o.arg.text.len, 16) |->
     Cmd("set_system_info", SysInfo(i - 1), IF i = 1 THEN o.arg.text ELSE o.arg.text.name, "stop")]

PasswordPolicy(o) == <<Cmd("ipmi_delloem_password_policy", Dell("policy"), o.arg.on, "stop")>>

-----------------------------------------------------------------------------

Junk == [imc : Imcs, status : [kvm : {"junk"}, lock : {"junk"}]]

DellOps ==
  LcdOps \cup {"lan", "setpowerbudget", "powercap", "clear", "setled", "setsysinfo", "passwordpolicy"}

DellCommands(o, bad, junk, sel) ==
  CASE o.op \in LcdOps         -> Lcd(o, bad, junk)
    [] o.op = "lan"            -> LanSet(o, bad, junk, sel)
    [] o.op = "setpowerbudget" -> SetPowerCap(o, bad)
    [] o.op = "powercap"       -> SetCapStatus(o, bad)
    [] o.op = "clear"          -> Clear(o)
    [] o.op = "setled"         -> SetLed(o, bad)
    [] o.op = "setsysinfo"     -> SetSysInfo(o)
    [] o.op = "passwordpolicy" -> PasswordPolicy(o)

DellStarts(o, bad) ==
  /\ \E junk \in Junk :
       \E sel \in IF o.op = "lan" THEN NicSelections(o.arg, ImcType(bad, junk), bad) ELSE {Usage} :
         Starts(o, DellCommands(o, bad, junk, sel))
  /\ code' = "runs"

DellEnds ==
  /\ running /\ prog.do = "dell"
  /\ todo = << >>
  /\ Return("ok")

DellAborts ==
  /\ running /\ prog.do = "dell"
  /\ todo # << >>
  /\ Next1.key = <<"abort">>
  /\ Return("error")

-----------------------------------------------------------------------------
(* Properties.                                                                  *)

Dell0(op) == ~running /\ prog.do = "dell" /\ prog.op = op /\ code = "ok"

\* The text is in the BMC in its length and with all of its blocks.
Stands(t, first, blocks) ==
  /\ blocks[0] = t
  /\ \A i \in 1..(Blocks(t.len, first) - 1) : blocks[i] = t.name

\* lcd set that returns 0 has set what it was asked to set, a text whole and
\* before the mode that shows it, and the other half of the status is what it
\* was, whatever failed; the other parts of the configuration are what they were
\* if that could be read (ipmi_lcd_set_lock, ipmi_lcd_set_configure_command_wh).
LcdAsAsked ==
  /\ Dell0("vkvm") => conf[Status] = [was[Status] EXCEPT !.kvm = prog.arg.mode]
  /\ Dell0("frontpanelaccess") => conf[Status] = [was[Status] EXCEPT !.lock = prog.arg.mode]
  /\ Dell0("mode") \/ Dell0("text") => conf[Config].mode = prog.arg.mode
  /\ Dell0("text") =>
       Stands(prog.arg.text, 14, [i \in 0..3 |-> conf[Text(i)]])
  /\ (Dell0("mode") \/ Dell0("text")) /\ ~prog.arg.old /\ fails = 0 =>
       conf[Config] = [was[Config] EXCEPT !.mode = prog.arg.mode]
  /\ Dell0("watt") /\ fails = 0 => conf[Config] = [was[Config] EXCEPT !.btu = prog.arg.on]
  /\ Dell0("errordisplay") /\ fails = 0 => conf[Config] = [was[Config] EXCEPT !.errors = prog.arg.mode]
  /\ Dell0("setsysinfo") =>
       Stands(prog.arg.text, 16, [i \in 0..3 |-> conf[SysInfo(i)]])

\* Whatever lan set is asked for, the NIC of a 12G server never fails over to
\* the LOM that it shares, nor from a dedicated NIC, unless the selection could
\* not be read, or set (get_nic_selection_mode_12g).
NicPossible ==
  ~running /\ prog.do = "dell" /\ prog.op = "lan" /\ fails = 0 /\ Generation(conf[Imc]) = "12g" =>
    /\ conf[Nic][1] \in 1..5
    /\ conf[Nic][2] \in {0, 2, 3, 4, 5, 6} \ {conf[Nic][1]}
    /\ conf[Nic][1] = DEDICATED12 => conf[Nic][2] = 0

\* A power cap that setpowerbudget was asked for, in whatever unit, is within the
\* server's limits, and is only set where it is enabled (ipmi_set_power_cap).
CapWithinLimits ==
  ~running /\ prog.do = "dell" /\ prog.op = "setpowerbudget" /\ conf[Cap] # was[Cap] =>
    /\ InWatts(conf[Cap].value, conf[Cap].unit, conf[Cap]) \in conf[Cap].min..conf[Cap].max
    /\ conf[CapStatus].on

DellAsAsked == LcdAsAsked /\ NicPossible /\ CapWithinLimits
=============================================================================
