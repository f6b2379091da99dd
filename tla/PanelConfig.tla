------------------------------ MODULE PanelConfig ------------------------------
(* alarms (ialarms.c, oem_intel.c, oem_fujitsu.c): the LEDs of an alarm panel,  *)
(* of a chassis and of its disks.  A byte is the set of its bits that are 1;    *)
(* most commands set a whole byte, of which the program wants to change a part. *)
EXTENDS BmcConfig

Telco       == <<"telco">>        \* the alarm panel: a LED is on if its bit is 0
PicmgLed(n) == <<"picmgled", n>>
IdLed       == <<"idled">>        \* the time it is on
FujitsuLed  == <<"fujitsuled">>
Enclosure   == <<"enclosure">>    \* [leds, override], by Intel's own commands
Backplane   == <<"backplane">>    \* the disks' LEDs, by an enclosure's controller
NscDisks    == <<"nscdisks">>     \* disk LEDs A, B: on if its bit is 0
TamActive   == <<"tam">>          \* the BMC manages the panel: a choice at power on
Reading(w)  == <<"reading", w>>   \* what can be read but is only shown
RawLeds     == <<"rawleds">>      \* the BMC has Intel's LED commands besides I2C

Bits == 0..7

(* detect_capab_intel and i_alarms: what a product has.                         *)
Has(product) ==
  CASE product = "NSC"                                  -> {"alarms", "nsc"}
    [] product = "TSRLT2"                               -> {"alarms"}
    [] product = "TIGPR2U"                              -> {"alarms", "tam"}
    [] product \in {"TIGI2U", "S5000 with HSC", "S5520UR"} -> {"alarms", "tam", "encl"}
    [] product = "ATCA"                                 -> {"alarms", "picmg"}
    [] product \in {"SJR2", "S5000 without HSC"}        -> {}
    [] product \in {"S2600CO", "CG2300"}                -> {"alarms", "tam", "encl", "romley"}
    [] product = "S1200BT"                              -> {"encl", "romley"}
    [] product \in {"Intel", "Kontron 1590"}            -> {"encl"}
    [] OTHER                                            -> {}

IsIntel(product) == product \notin {"Kontron 1590", "Fujitsu", "other"}

-----------------------------------------------------------------------------

AlarmReads == {"picmg", "fujitsu", "telco", "tam", "enclosure", "override", "nsc"}

NotRead(bad, name, key) == bad = name \/ key \notin DOMAIN conf

LedBit == [pow |-> 0, crit |-> 1, maj |-> 2, min |-> 3]
Leds   == DOMAIN LedBit

With(byte, bit, what) ==
  CASE what = "on"  -> byte \cup {bit}
    [] what = "off" -> byte \ {bit}
    [] OTHER        -> byte

(* The alarm panel's byte: a LED that goes off takes the relays along.          *)
NewAlarms(o, old) ==
  LET to(what) == {l \in Leds : o.led[l] = what}
  IN  IF o.all THEN Bits
      ELSE (old \cup {LedBit[l] : l \in to("off")} \cup (IF to("off") = {} THEN {} ELSE 4..7))
             \ {LedBit[l] : l \in to("on")}

NewDisks(o, old) ==
  IF o.all \/ o.a = "all off" THEN {}
  ELSE With(With(With(old, 1, o.b), 0, o.a), o.ndisk, o.n)

Opposite == [keep |-> "keep", on |-> "off", off |-> "on"]

NewNscDisks(o, old) ==
  IF o.a = "all off" THEN {}
  ELSE With(With(old, 0, Opposite[o.b]), 1, Opposite[o.a])

-----------------------------------------------------------------------------

(* set_enc_leds_intel: by a raw command, twice to put all off, or else by I2C,  *)
(* where the override is a register of its own.                                 *)
SetByI2c(new, override) ==
  LET C(name, val) == Cmd("set_enc_leds_i2c", Part(Enclosure, name), val, "ignore")
  IN  If(new # {} /\ ~override, <<C("override", TRUE)>>)
      \o <<C("leds", new)>>
      \o If(new = {}, <<C("override", FALSE)>>)

SetRaw(new, override) ==
  LET C(over, err) == Cmd("set_enc_leds_rcmd", Enclosure, [leds |-> new, override |-> over], err)
  IN  IF new = {} THEN <<C(override, "stop"), C(FALSE, "orelse")>> ELSE <<C(TRUE, "orelse")>>

(* After a raw command that failed, the variable says that the override is on.  *)
SetEnclosure(o, bad) ==
  LET old == conf[Enclosure]
      new == NewDisks(o, old.leds)
      raw == bad # "enclosure" /\ RawLeds \in DOMAIN conf
  IN  IF raw THEN SetRaw(new, old.override) \o SetByI2c(new, old.override \/ new # {})
      ELSE SetByI2c(new, old.override /\ bad # "override")

(* The result is that of the last of the program's steps, and that of a step    *)
(* before the enclosure is always replaced.                                     *)
Alarms(o, bad, junk) ==
  LET has     == Has(o.product)
      picmg   == "picmg" \in has \/ ~NotRead(bad, "picmg", Reading("picmg"))
      fujitsu == o.product = "Fujitsu" /\ ~NotRead(bad, "fujitsu", FujitsuLed)
      panel   == ("alarms" \in has \/ picmg) /\ ~fujitsu
      vitesse == "encl" \in has /\ o.doencl /\ "romley" \notin has
      seen    == ~NotRead(bad, "enclosure", Backplane)
      later   == IF vitesse THEN "ignore" ELSE "last"
      alarms  == IF NotRead(bad, "telco", Telco) THEN {} ELSE conf[Telco]
      tam     == "tam" \in has /\ ~NotRead(bad, "tam", TamActive)
      Does(fn, key, val) == <<Cmd(fn, key, val, later)>>
      Shows(what)        == Does("get", Reading(what), "")
      Errs(fn)           == Does(fn, <<"none">>, "")
      status == If(IsIntel(o.product) /\ (picmg \/ ~panel \/ alarms = {}), Shows("id state"))
                \o If(fujitsu /\ o.setid, Does("set_alarms_fujitsu", FujitsuLed, o.id))
      led == IF picmg
             THEN Shows("picmg led") \o
                  If(o.setled, <<Cmd("set_alarms_picmg", PicmgLed(o.ledn), o.ledv, "ignore")>>
                               \o Shows("picmg led"))
             ELSE If(o.setled, IF tam THEN Errs("check_bmctam_intel")
                               ELSE Does("set_alarms_intel", Telco, NewAlarms(o, alarms)))
      disks == CASE vitesse /\ ~seen -> <<Cmd("get_enc_leds", <<"none">>, "", "last")>>
                 [] vitesse /\ o.setdisk ->
                      <<Cmd("set_enc_leds", Backplane, NewDisks(o, conf[Backplane]), "ignore"),
                        Cmd("get", Reading("backplane"), "", "last")>>
                 [] /\ "romley" \in has /\ o.doencl /\ o.setdisk
                    /\ Enclosure \in DOMAIN conf /\ (bad # "enclosure" \/ RawLeds \in DOMAIN conf) ->
                      SetEnclosure(o, bad) \o <<Cmd("get", Reading("enclosure"), "", "last")>>
                 [] "nsc" \in has /\ o.doencl /\ o.setdisk ->
                      <<Cmd("set_nsc_diskleds", NscDisks,
                            NewNscDisks(o, IF bad = "nsc" THEN junk ELSE conf[NscDisks]), "ignore")>>
                 [] OTHER -> << >>
  IN  status \o If(panel, led)
      \o If(o.setid, Does("set_chassis_id", IdLed, o.id))
      \o disks

AlarmsStarts(o, bad) ==
  /\ \E junk \in {{}} \cup {Bits : x \in {bad} \cap {"nsc"}} : Starts(o, Alarms(o, bad, junk))
  /\ code' = "runs"

AlarmsEnds ==
  /\ running /\ prog.do = "alarms"
  /\ todo = << >>
  /\ Return("ok")

-----------------------------------------------------------------------------
(* Properties.                                                                  *)

Panel == ~running /\ prog.do = "alarms"
Lit(byte, bit, what) == what = "keep" \/ ((what = "on") <=> (bit \in byte))

\* A LED that was asked for is as asked, and the others, with the relays, are as
\* they were, but that the relays go off with any LED, if no command failed
\* (i_alarms sets the whole byte from what it read).
PanelAsAsked ==
  Panel /\ prog.setled /\ fails = 0 /\ "alarms" \in Has(prog.product)
    /\ Telco \in DOMAIN conf /\ TamActive \notin DOMAIN conf =>
    /\ \A l \in Leds : IF prog.all THEN LedBit[l] \in conf[Telco]
                       ELSE IF prog.led[l] = "keep" THEN (LedBit[l] \in conf[Telco]) <=> (LedBit[l] \in was[Telco])
                       ELSE Lit(conf[Telco], LedBit[l], Opposite[prog.led[l]])
    /\ (\A l \in Leds : prog.led[l] # "off") /\ ~prog.all => conf[Telco] \cap 4..7 = was[Telco] \cap 4..7

\* As long as the BMC manages the panel, and says so, the program leaves it alone
\* (check_bmctam_intel).
TamIsRespected ==
  Panel /\ fails = 0 /\ {Telco, TamActive} \subseteq DOMAIN conf /\ "tam" \in Has(prog.product)
    => conf[Telco] = was[Telco]

\* Disks A, B and N are as asked and the others as they were; and where the
\* override is a register of its own, LEDs are only lit, and only kept dark,
\* with it (set_enc_leds_i2c, set_enc_leds_rcmd), if no command failed.
DisksAsAsked ==
  Panel /\ prog.setdisk /\ prog.doencl /\ fails = 0 =>
    /\ \A key \in {Backplane, Enclosure} \cap DOMAIN conf :
         LET now == IF key = Enclosure THEN conf[key].leds ELSE conf[key]
             old == IF key = Enclosure THEN was[key].leds ELSE was[key]
         IN  "encl" \in Has(prog.product) =>
               /\ prog.all \/ prog.a = "all off" => now = {}
               /\ ~prog.all /\ prog.a # "all off" =>
                    /\ Lit(now, prog.ndisk, prog.n)
                    /\ prog.ndisk # 0 \/ prog.n = "keep" => Lit(now, 0, prog.a)
                    /\ prog.ndisk # 1 \/ prog.n = "keep" => Lit(now, 1, prog.b)
                    /\ \A bit \in Bits \ {0, 1, prog.ndisk} : (bit \in now) <=> (bit \in old)
    /\ Enclosure \in DOMAIN conf /\ "romley" \in Has(prog.product) =>
         (conf[Enclosure].override <=> conf[Enclosure].leds # {})
    /\ "nsc" \in Has(prog.product) /\ prog.a # "all off" =>
         /\ Lit(conf[NscDisks], 1, Opposite[prog.a]) /\ Lit(conf[NscDisks], 0, Opposite[prog.b])
         /\ conf[NscDisks] \ {0, 1} = was[NscDisks] \ {0, 1}

\* alarms -i that returns 0 has set the ID LED, unless the disks' LEDs are looked
\* at afterwards, whose result replaces that of the ID LED (i_alarms).
IdAsAsked ==
  Panel /\ code = "ok" /\ prog.setid /\ "encl" \notin Has(prog.product) => conf[IdLed] = prog.id

AlarmsAsAsked == PanelAsAsked /\ TamIsRespected /\ DisksAsAsked /\ IdAsAsked
=============================================================================
