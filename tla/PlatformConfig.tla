---------------------------- MODULE PlatformConfig ----------------------------
(* dcmi (idcmi.c): the power limit, the asset tag and the controller's name;   *)
(* picmg (ipicmg.c): FRUs, ports, clocks, LEDs and power of a shelf's boards.  *)
(* A number of several bytes is a tuple of them, the lowest first.             *)
EXTENDS BmcConfig
LOCAL INSTANCE Bitwise

DcmiCapab    == <<"dcmi", "capab">>   \* [power |-> it manages power]
PowerLimit   == <<"dcmi", "limit">>   \* [action, limit, correction, sample]
LimitActive  == <<"dcmi", "active">>
Tag(what, k) == <<"dcmi", what, k>>   \* 16 characters of the asset tag, or the name

PicmgCard     == <<"picmg", "card">>
FruActive(f)  == <<"fruactive", f>>
FruPolicy(f)  == <<"frupolicy", f>>   \* 0: activation locked, 1: deactivation locked
FruControl(f) == <<"frucontrol", f>>  \* the last option: reset, reboot, ...
FruLed(f, l)  == <<"fruled", f, l>>
FruPower(f)   == <<"frupower", f>>
Port(i, c)    == <<"port", i, c>>     \* [link |-> bytes, on |-> a bit]
AmcPort(d, c) == <<"amcport", d, c>>  \* d = -1: no device
Clock(id, r)  == <<"clock", id, r>>   \* r = -1: no resource

ATCA == "atca"
Error(fn) == <<Cmd(fn, <<"none">>, "", "count")>>

-----------------------------------------------------------------------------
(* dcmi.                                                                       *)

DcmiReads(o) ==
  {"deviceid", "capab"} \cup IF o.op = "info" THEN {"last capab"} ELSE {"reading", "limit"}

(* The answer to Get Power Limit, and what is in the request of Set Power      *)
(* Limit, where each field is one byte further on.                             *)
LimitAnswer(l) ==
  <<220, 0, 0, l.action>> \o l.limit \o l.correction \o <<0, 0>> \o l.sample

LimitAsked(b) ==
  [action |-> b[5], limit |-> SubSeq(b, 6, 7), correction |-> SubSeq(b, 8, 11),
   sample |-> SubSeq(b, 14, 15)]

FieldAt == [action |-> 5, limit |-> 6, correction |-> 8, sample |-> 14]

(* The request is the answer with one field changed; bytes that were not       *)
(* answered, all of them if the limit is not active, are what was in memory.   *)
SetPowerLimit(o, bad, junk) ==
  LET read == bad \notin {"reading", "limit"} /\ conf[LimitActive]
      pow  == IF read THEN Append(LimitAnswer(conf[PowerLimit]), junk) ELSE [i \in 1..15 |-> junk]
      at   == FieldAt[o.field]
      req  == [i \in 1..15 |-> IF i \in at..(at + Len(o.val) - 1) THEN o.val[i - at + 1] ELSE pow[i]]
      new  == LimitAsked(req)
  IN  Cmd("power", PowerLimit, IF o.field = "action" THEN [new EXCEPT !.action = o.val[1]] ELSE new, "stop")

Activate(yes) == Cmd("power", LimitActive, yes, "count")

(* A tag goes in chunks of 16 characters, 63 at most.  The asset tag's last    *)
(* chunk is filled up with spaces; the name's is shorter, and leaves the rest. *)
SetTag(what, asked) ==
  LET len    == IF asked >= 64 THEN 63 ELSE asked
      chunks == (len + 15) \div 16
      Chunk(k) == LET n == IF k < chunks THEN 16 ELSE len - 16 * (k - 1)
                  IN  [of |-> "new", len |-> n,
                       more |-> IF n = 16 THEN "" ELSE IF what = "asset" THEN "spaces" ELSE "old"]
  IN  If(len >= 2, [k \in 1..chunks |-> Cmd(what, Tag(what, k), Chunk(k), "quit")])

(* The result of a tag is replaced.  Without a word, it is that of the last    *)
(* capability read; with one, the first says whether there is power            *)
(* management, the limit is read before it is set, and a new limit activated.  *)
Dcmi(o, bad, junk) ==
  LET has   == DcmiCapab \in DOMAIN conf
      power == has /\ conf[DcmiCapab].power /\ bad # "capab"
      zero  == o.field \in {"sample", "correction"} /\ \A i \in 1..Len(o.val) : o.val[i] = 0
  IN  IF bad = "deviceid" THEN <<Abort>>
      ELSE SetTag("asset", o.asset) \o SetTag("name", o.name) \o
           CASE o.op = "info" -> If(bad = "last capab" \/ ~has, Error("main"))
             [] o.op = "get" /\ power -> If(bad \in {"reading", "limit"}, Error("main"))
             [] o.op = "set" /\ power /\ ~zero ->
                  <<SetPowerLimit(o, bad, junk)>> \o If(o.field = "limit", <<Activate(TRUE)>>)
             [] o.op \in {"activate", "deactivate"} /\ power -> <<Activate(o.op = "activate")>>
             [] OTHER -> Error("main")

DcmiStarts(o, bad) ==
  /\ \E junk \in {0} \cup {255 : x \in {o.op} \cap {"set"}} : Starts(o, Dcmi(o, bad, junk))
  /\ code' = "runs"

-----------------------------------------------------------------------------
(* picmg.                                                                      *)

PicmgReads == {"properties lost", "properties refused"}

(* The bytes of a link, as they are set, and what they are shown as.  Of an    *)
(* AMC's type the two halves are shown one over the other.                     *)
PortLink(a) ==
  <<(a.chan % 64) + 64 * (a.if % 4), (a.port % 16) + 16 * (a.type % 16),
    ((a.type \div 16) % 16) + 16 * (a.ext % 16), a.group % 256>>

AmcLink(a) == Tail(PortLink(a))

ShownPort(b) ==
  [if |-> b[1] \div 64, chan |-> b[1] % 64, port |-> b[2] % 16,
   type |-> (b[2] \div 16) + 16 * (b[3] % 16), ext |-> b[3] \div 16, group |-> b[4]]

ShownAmc(b) ==
  [port |-> b[1] % 16, type |-> (b[1] \div 16) | (b[2] % 16), ext |-> b[2] \div 16, group |-> b[3]]

Listed(mode, on) ==
  CASE mode = "granted" -> on = 1
    [] mode = "denied"  -> on = 0
    [] OTHER            -> TRUE

(* Where the state of a port and of a clock is asked for, and shown.           *)
AskedAmcPort(o, card) ==
  AmcPort(IF card # ATCA THEN -1 ELSE o.arg.device % 256, o.arg.chan)
AskedClock(o, card) == Clock(o.arg.id, IF card # ATCA THEN -1 ELSE o.arg.res)

(* A clock's setting; its bit 3 says that it is on, and only then is the rest  *)
(* shown.  The frequency is of four bytes.                                     *)
ClockState(a) ==
  [setting |-> a.setting, index |-> a.index, family |-> a.family, acc |-> a.acc, freq |-> a.freq]

ShownClock(s) ==
  IF (s.setting \div 8) % 2 = 1 THEN s
  ELSE [s EXCEPT !.index = 0, !.family = 0, !.acc = 0, !.freq = <<0, 0, 0, 0>>]

(* The activation policy: the bits of the mask are those that the board takes. *)
NewPolicy(f, mask, bits) ==
  IF FruPolicy(f) \in DOMAIN conf THEN (conf[FruPolicy(f)] \ mask) \cup (bits \cap mask) ELSE bits

(* What each word sends.                                                       *)
Sets(fn, key, val) == <<Cmd(fn, key, val, "count")>>
Asks(key)          == Sets("get", key, IF key \in DOMAIN conf THEN conf[key] ELSE "")

PicmgFru(o) ==
  LET a == o.arg
  IN  CASE o.op = "frucontrol" -> Sets("ipmi_picmg_fru_control", FruControl(a.fru), a.option)
        [] o.op = "policy" ->
             Sets("ipmi_picmg_fru_activation_policy_set", FruPolicy(a.fru), NewPolicy(a.fru, a.mask, a.bits))
        [] OTHER -> Sets("ipmi_picmg_fru_activation", FruActive(a.fru), o.op = "activate")

PicmgPorts(o, card) ==
  LET a == o.arg
  IN  CASE o.op = "portstate" ->
             Sets("ipmi_picmg_portstate_set", Port(a.if % 4, a.chan % 64),
                  [link |-> PortLink(a), on |-> a.on % 2])
        [] o.op = "portstate get" -> Asks(Port(a.if % 4, a.chan % 64))
        [] o.op = "amcportstate" ->
             Sets("ipmi_picmg_amc_portstate_set", AmcPort(a.device, a.chan),
                  [link |-> AmcLink(a), on |-> a.on % 2])
        [] OTHER -> Asks(AskedAmcPort(o, card))

PicmgLeds(o) ==
  IF o.op = "led" THEN Sets("ipmi_picmg_set_led_state", FruLed(o.arg.fru, o.arg.led), o.arg.state)
  ELSE Sets("ipmi_picmg_set_power_level", FruPower(o.arg.fru), o.arg.level)

PicmgClocks(o, card) ==
  CASE o.op = "clk get"                -> Asks(AskedClock(o, card))
    [] card = ATCA /\ o.arg.res = -1   -> Error("ipmi_picmg_clk_set")
    [] OTHER -> Sets("ipmi_picmg_clk_set", AskedClock(o, card), ClockState(o.arg))

(* One command, after the properties, which tell the kind of card.  With too   *)
(* few words the result is theirs in some cases.                               *)
Picmg(o, bad) ==
  LET unknown == bad = "properties refused" \/ PicmgCard \notin DOMAIN conf
      card    == IF unknown THEN "reserved" ELSE conf[PicmgCard]
  IN  CASE bad = "properties lost" -> <<Abort>>
        [] ~o.enough -> If(unknown \/ o.op \notin {"policy", "led", "portstate get"}, Error("main"))
        [] o.op \in {"activate", "deactivate", "frucontrol", "policy"} -> PicmgFru(o)
        [] o.op \in {"portstate", "portstate get", "amcportstate", "amcportstate get"} -> PicmgPorts(o, card)
        [] o.op \in {"led", "power"}   -> PicmgLeds(o)
        [] o.op \in {"clk", "clk get"} -> PicmgClocks(o, card)
        [] OTHER -> Error("main")

PicmgStarts(o, bad) ==
  /\ Starts(o, Picmg(o, bad))
  /\ code' = "runs"

Platform == prog.do \in {"dcmi", "picmg"}

PlatformEnds ==
  /\ running /\ Platform
  /\ todo = << >>
  /\ Return("ok")

PlatformAborts ==
  /\ running /\ Platform
  /\ todo # << >> /\ Next1.key = Abort.key
  /\ Return("error")

-----------------------------------------------------------------------------
(* Properties.                                                                 *)

\* dcmi power that returns 0 has set the field it was asked to set, the limit
\* is active once it was set, and a limit that the BMC did not take is not
\* activated, whichever command failed (idcmi.c, main).
LimitAsAsked ==
  ~running /\ prog.do = "dcmi" /\ PowerLimit \in DOMAIN conf =>
    /\ code = "ok" /\ prog.op = "set" =>
         /\ IF prog.field = "action" THEN conf[PowerLimit].action = prog.val[1]
            ELSE conf[PowerLimit][prog.field] = prog.val
         /\ prog.field = "limit" => conf[LimitActive]
    /\ code = "ok" /\ prog.op \in {"activate", "deactivate"} =>
         (conf[LimitActive] <=> prog.op = "activate")
    /\ prog.op = "set" /\ conf[LimitActive] # was[LimitActive] => conf[PowerLimit].limit = prog.val

\* A tag has been written from its beginning to its end, or to its 63rd character,
\* if no command failed, and otherwise up to some chunk, with no gap
\* (dcmi_set_asset_tag, dcmi_set_mc_id).
TagsAsAsked ==
  ~running /\ prog.do = "dcmi" =>
    \A what \in {"asset", "name"} :
      LET asked == IF prog[what] < 2 THEN 0 ELSE IF prog[what] > 63 THEN 63 ELSE prog[what]
          new   == {k \in 1..4 : Tag(what, k) \in DOMAIN conf /\ conf[Tag(what, k)].of = "new"}
      IN  /\ \A k \in new : 1..k \subseteq new /\ (k + 1 \in new => conf[Tag(what, k)].len = 16)
          /\ fails = 0 /\ Tag(what, 1) \in DOMAIN conf =>
               asked = IF new = {} THEN 0
                       ELSE 16 * (Cardinality(new) - 1) + conf[Tag(what, Cardinality(new))].len

\* picmg shows of a port and of a clock what picmg set, in the fields' widths, if
\* the AMC's type fits half a byte and a carrier's device was named; and a port is
\* listed as granted or as denied (ipicmg.c, portstate_set and portstate_get).
ShowsWhatItSet ==
  ~running /\ prog.do = "picmg" /\ code = "ok" /\ fails = 0 /\ prog.enough =>
    LET a   == prog.arg
        amc == AskedAmcPort(prog, conf[PicmgCard])
        Agrees(shown) == \A f \in DOMAIN shown : shown[f] = a[f]
        IsListed(on)  == Listed("granted", on) = (a.on % 2 = 1) /\ Listed("denied", on) = (a.on % 2 = 0)
    IN  /\ prog.op = "portstate" =>
             LET p == conf[Port(a.if, a.chan)]
             IN  Agrees(ShownPort(p.link)) /\ IsListed(p.on)
        /\ prog.op = "amcportstate" /\ a.type < 16 /\ amc = AmcPort(a.device, a.chan) =>
             Agrees(ShownAmc(conf[amc].link)) /\ IsListed(conf[amc].on)
        /\ prog.op = "clk" /\ (a.setting \div 8) % 2 = 1 =>
             Agrees(ShownClock(conf[AskedClock(prog, conf[PicmgCard])]))

\* Of a FRU's policy, what the mask does not name stays (policy_set).
PolicyKept ==
  ~running /\ prog.do = "picmg" /\ prog.op = "policy" /\ code = "ok" /\ prog.enough =>
    LET new == conf[FruPolicy(prog.arg.fru)]
    IN  /\ new \ prog.arg.mask = was[FruPolicy(prog.arg.fru)] \ prog.arg.mask
        /\ new \cap prog.arg.mask = prog.arg.bits \cap prog.arg.mask

PlatformAsAsked == LimitAsAsked /\ TagsAsAsked /\ ShowsWhatItSet /\ PolicyKept
=============================================================================
