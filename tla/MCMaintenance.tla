----------------------------- MODULE MCMaintenance -----------------------------
(* What TLC checks: images, targets and faults; what is asked of a machine.             *)
EXTENDS Maintenance, SequencesExt

(* hpm                                                                     *)

ActionRecord(type, comps, c, n, v) == [type |-> type, comps |-> comps, comp |-> c, len |-> n, version |-> v]

One == <<ActionRecord("prepare", {0}, 0, 0, 0), ActionRecord("upload", {0}, 0, 7, 2)>>
Two == <<ActionRecord("backup", {0, 1}, 0, 0, 0), ActionRecord("prepare", {0, 1}, 0, 0, 0),
         ActionRecord("upload", {0}, 0, 3, 2), ActionRecord("upload", {1}, 1, 2, 2)>>

Local == [verb |-> "upgrade", image |-> One, option |-> "check", component |-> 0, activate |-> TRUE,
          matches |-> TRUE, allowed |-> TRUE, affected |-> FALSE, prepares |-> {0, 1},
          current |-> [c \in 0..1 |-> 1], backup |-> [c \in {} |-> 0],
          selftest |-> FALSE, autoRollback |-> FALSE, remote |-> FALSE, verbose |-> FALSE,
          buffer |-> 2, step |-> 1, max |-> 2, sections |-> <<>>, long |-> {}, faults |-> 3]
Remote == [Local EXCEPT !.remote = TRUE, !.buffer = 3, !.step = 2, !.max = 3]

Background == {"prepare", "initiate", "block", "finish", "activate", "selftest", "rollback", "manualRollback"}

\* Single commands.
Verbs == {[l EXCEPT !.verb = v, !.image = <<>>] :
              v \in {"activate", "manualRollback", "abort", "selftest", "rollback"},
              l \in {Local, [Remote EXCEPT !.long = Background]}}

\* A local target with short blocks; sections; long commands; components that
\* need no upgrade; a self test and a rollback; and all that over a LAN.
MCHpmSetups ==
    {Local, [Local EXCEPT !.max = 1], [Local EXCEPT !.verbose = TRUE, !.long = Background],
     [Local EXCEPT !.sections = <<[off |-> 3, len |-> 2], [off |-> 2, len |-> 1]>>, !.activate = FALSE],
     [Local EXCEPT !.sections = <<[off |-> 1, len |-> 8]>>, !.long = {"block"}],
     [Local EXCEPT !.image = Two, !.current = [c \in 0..1 |-> 2]], [Local EXCEPT !.prepares = {}], [Local EXCEPT !.verb = "check"], [Local EXCEPT !.matches = FALSE, !.allowed = FALSE],
     [Local EXCEPT !.image = Two, !.current = [c \in 0..1 |-> c + 1], !.faults = 2],
     [Local EXCEPT !.image = Two, !.current = [c \in 0..1 |-> 2], !.backup = [c \in {1} |-> 1], !.faults = 2],
     [Local EXCEPT !.image = Two, !.option = "all", !.current = [c \in 0..1 |-> 2], !.affected = TRUE,
                   !.allowed = FALSE, !.matches = FALSE, !.faults = 2],
     [Local EXCEPT !.image = Two, !.option = "component", !.component = 1, !.faults = 2],
     [Local EXCEPT !.image = Two, !.option = "component", !.component = 2, !.faults = 2],
     Remote, [Remote EXCEPT !.max = 1], [Remote EXCEPT !.long = Background],
     [Remote EXCEPT !.selftest = TRUE, !.autoRollback = TRUE, !.backup = [c \in {0} |-> 0],
                    !.long = Background],
     [Remote EXCEPT !.sections = <<[off |-> 3, len |-> 2], [off |-> 1, len |-> 1]>>]} \cup Verbs

(* fwum                                                                    *)

MCOverhead == [p \in {"address", "sequence"} |-> IF p = "address" THEN 3 ELSE 2]

Old == [task |-> "upgrade", file |-> TRUE, matches |-> TRUE, remote |-> FALSE, protocol |-> "address",
        max |-> 3, total |-> 7, banks |-> 2, holds |-> "older", faults |-> 4]

Uploads == {[Old EXCEPT !.protocol = p, !.remote = r, !.max = n] :
                p \in {"address", "sequence"}, r \in BOOLEAN, n \in {1, 3}}

Others == {[Old EXCEPT !.task = t, !.holds = h, !.faults = 1] :
               t \in {"info", "status", "start", "rollback", "trace", "download"}, h \in {"none", "older"}}

MCFwumSetups == Uploads \cup Others \cup {[Old EXCEPT !.matches = FALSE], [Old EXCEPT !.file = FALSE]}

(* wdt and reset                                                           *)

\* The options of the programs, which the plans are made of.
Chosen == INSTANCE Chassis WITH ChassisSetups <- {}

Hand == [Chosen!Wdt EXCEPT !.set = TRUE, !.feed = TRUE]
Off == [Chosen!Wdt EXCEPT !.disable = TRUE]
Verb(v) == [do |-> "reset", verb |-> v, dev |-> "none", persist |-> FALSE, initstr |-> FALSE, lax |-> FALSE, intel |-> TRUE]
Pxe(v) == [Verb(v) EXCEPT !.dev = "pxe", !.initstr = TRUE]

\* The script and by hand; timeouts that are short, long and too long; soft
\* shutdowns under the script's watchdog; boot devices, once and for good.
Plans ==
    {<<Chosen!ScriptStart, Chosen!ScriptStop>>, <<Chosen!ScriptStart, Off>>, <<Hand, Off>>,
     <<[Hand EXCEPT !.act = "cycle", !.q = 250, !.t = 300], Chosen!ScriptStart>>,
     <<[Hand EXCEPT !.t = 6600, !.pre = 2]>>, <<[Hand EXCEPT !.t = 15, !.pre = 1, !.act = "none"]>>,
     <<Chosen!ScriptStart, Verb("shutdown")>>, <<Verb("poweroff")>>,
     <<[Verb("shutdown") EXCEPT !.intel = FALSE]>>, <<Chosen!ScriptStart, Verb("bmc")>>,
     <<Pxe("reset"), Verb("reset")>>, <<[Pxe("cycle") EXCEPT !.persist = TRUE], Verb("down"), Verb("up")>>,
     <<[Pxe("reset") EXCEPT !.lax = TRUE], Verb("nmi")>>}

MCChassisSetups == [plan : Plans, remote : BOOLEAN, service : BOOLEAN]

(* fru                                                                     *)

Layout == INSTANCE Fru WITH FruSetups <- {}

Text(c, n) == [i \in 1..n |-> c]
Filled(b, n) == b \o Text(255, n - Len(b))
Header(areas) == Append(areas \o <<0>>, Layout!Checksum(areas \o <<0>>))

\* An area of so many units: what it begins with, its fields, and zeros.
Field(c, n) == Layout!Field(Text(c, n))
AreaOf(units, head, fields) ==
    LET new == head \o FlattenSeq(fields) \o <<Layout!End>>
        body == new \o Text(0, units * 8 - 1 - Len(new))
    IN  Append(body, Layout!Checksum(body))

\* A product area of eight fields.
ProductArea(asset) ==
    AreaOf(4, <<1, 4, 25>>, [i \in 1..5 |-> Field(64 + i, 2)] \o <<asset, Field(0, 0), Field(71, 2)>>)

\* A device whose product area is followed by a multi-record area, one with room
\* behind it, one that is small, one with areas that are longer than it is, and
\* one whose header does not sum up.
Full == Filled(Header(<<1, 0, 0, 0, 1, 5>>) \o ProductArea(Field(70, 3))
               \o <<1, 130, 3, 0, 0, 72, 72, 72>>, 56)
Alone == Filled(Header(<<1, 0, 0, 0, 1, 0>>) \o ProductArea(<<0>>), 64)
Small == Filled(Header(<<1, 0, 0, 0, 0, 0>>), 24)
Torn == Filled(Header(<<1, 0, 0, 0, 2, 0>>) \o Text(9, 8), 24)
Unsummed == Filled(<<1, 0, 0, 0, 0, 0, 0, 7>>, 24)

Job(do, only, id) == [tool |-> "fru", do |-> do, id |-> id, only |-> only, lax |-> FALSE, asked |-> <<>>]
Write(asked, only, id) == [Job("write", only, id) EXCEPT !.asked = asked]
Tag(n) == Layout!ASSET :> Text(80, n)

Asked == {Tag(n) : n \in {1, 2, 5, 9, 19}}
         \cup {Layout!SERIAL :> Text(81, n) : n \in {4, 30}} \cup {Layout!VERSION :> Text(82, n) : n \in {0, 1}}
         \cup {<<>>, (Layout!VERSION :> Text(82, 3)) @@ (Layout!SERIAL :> Text(81, 2)) @@ Tag(4)}

\* Values that fit, that need another unit and that are refused; a device dumped,
\* written and restored; each device restored from another's dump.
FruPlans ==
    {<<Write(a, only, 0)>> : a \in Asked, only \in BOOLEAN}
    \cup {<<Job("dump", TRUE, 0), Write(Tag(4), FALSE, 0), Job("restore", only, 0)>> : only \in BOOLEAN}
    \cup {<<Job("dump", TRUE, i), Job("restore", TRUE, k)>> : i \in 0..3, k \in 0..3}
    \cup {<<Write(Tag(4), TRUE, 1)>>, <<Job("show", FALSE, 0)>>, <<Job("show", TRUE, 4)>>}

\* ifruset: on a device with eight fields, on one with two, which has room or has not,
\* alone and after another was shown; on one whose records are too long, cut or not.
Set(f, n, only, id) == [Write(f :> Text(83, n), only, id) EXCEPT !.tool = "fruset"]
Few(records) == Filled(Header(<<1, 0, 0, 0, 1, records>>) \o AreaOf(4, <<1, 4, 25>>, <<Field(75, 2), Field(76, 2)>>)
                       \o <<1, 130, 3, 0, 0, 72, 72, 72>>, 64)
Cutoff == Header(<<1, 0, 0, 0, 1, 5>>) \o ProductArea(Field(70, 3)) \o <<1, 130, 11, 0, 0, 72, 72, 72>>

SetPlans ==
    {<<Set(f, n, only, id)>> : f \in {0, 7}, n \in {1, 12}, only \in BOOLEAN, id \in 0..1}
    \cup {<<[Set(0, 2, TRUE, 2) EXCEPT !.lax = lax]>> : lax \in BOOLEAN} \cup {<<Set(5, 30, TRUE, 0)>>}
    \cup {<<[Job("dump", only, 0) EXCEPT !.tool = "fruset"], [Job("restore", TRUE, 1) EXCEPT !.tool = "fruset"]>> :
             only \in BOOLEAN}

\* fru -k: boards whose areas end in a zero or do not, without records behind them,
\* whose serial number has another length, has not been set, or is in hexadecimal.
Kontron(serial, part, records) ==
    LET Before(n) == [i \in 1..n |-> Field(64 + i, 2)]
    IN  Header(<<1, 0, 0, 1, 4, records>>) \o AreaOf(3, <<1, 3, 25, 0, 0, 0>>, Before(2) \o <<serial, part>>)
        \o AreaOf(3, <<1, 3, 25>>, Before(4) \o <<serial>>) \o <<1, 130, 3, 0, 0, 72, 72, 72>>
Boards == {Kontron(Field(78, 3), Field(80, n), records) : n \in {2, 5}, records \in {0, 7}}
          \cup {Kontron(serial, Field(80, 2), 7) : serial \in {Field(78, 2), <<1, 78>>, <<192>>}}
Copy(do, value) == [Job(do, TRUE, 0) EXCEPT !.tool = "kontron", !.asked = value]
KontronPlans == {<<Copy("setsn", Text(83, n))>> : n \in {0, 2, 3}} \cup {<<Copy("setmfgdate", Text(n, 3))>> : n \in {0, 7}}

MCFruSetups ==
    [frus : {(0 :> b) @@ (1 :> Small) @@ (2 :> Torn) @@ (3 :> Unsummed) : b \in {Full, Alone}},
     located : {<<1, 0>>, <<1>>}, plan : FruPlans]
    \cup [frus : {(0 :> a) @@ (1 :> b) @@ (2 :> Cutoff) : a \in {Full, Few(0), Few(5)}, b \in {Alone, Few(5)}},
          located : {<<1, 0>>}, plan : SetPlans]
    \cup [frus : {0 :> b : b \in Boards \cup {Small}}, located : {<<>>}, plan : KontronPlans]

(* ekanalyzer                                                              *)

Lists == INSTANCE Ekeying WITH EkSetups <- {}

Channels1 == <<<<0, 31, 31, 31>>, <<1, 2, 31, 31>>>>
Channels2 == <<<<4, 31, 31, 31>>, <<5, 6, 31, 31>>>>
Link(c, lanes, asym) == [channel |-> c, lanes |-> lanes, type |-> 2, ext |-> 0, group |-> 0, asym |-> asym]
OemLink(c, lanes) == [channel |-> c, lanes |-> lanes, type |-> 241, ext |-> 0, group |-> 1, asym |-> {}]
Device(rsc, guids, channels, links) == [rsc |-> rsc, guids |-> guids, channels |-> channels, links |-> links]

\* Links that fit, whose GUIDs do not, whose first channel is not 0, and none.
Modules ==
    {Device(128, g, Channels1, l) :
        g \in {<<>>, <<"g">>},
        l \in {<<Link(0, {0}, {1}), Link(1, {0, 1}, {})>>, <<OemLink(0, {0}), OemLink(1, {0, 1})>>,
              <<Link(1, {0, 1}, {})>>, <<>>}}
Devices ==
    {Device(d, g, Channels2, l) :
        d \in {0, 2}, g \in {<<>>, <<"h", "g">>},
        l \in {<<Link(0, {0}, {2}), Link(1, {0, 1}, {})>>, <<Link(0, {1}, {1}), OemLink(1, {0, 2})>>}}

Port(remote, rport, local) == [remote |-> remote, rport |-> rport, local |-> local]
Straight == <<Port(129, 0, 4), Port(129, 1, 5), Port(129, 2, 6)>>

\* One resource, with its ports in order and not; a resource for each end; one
\* without ports; a wire between devices.
Carriers ==
    {<<[rsc |-> d, ports |-> p]>> : d \in {0, 2}, p \in {Straight, <<Straight[3], Straight[2], Straight[1]>>}}
    \cup {<<[rsc |-> 0, ports |-> <<Port(130, 0, 4), Straight[2], Straight[3]>>],
            [rsc |-> 129, ports |-> <<Port(2, 5, 1), Port(2, 6, 2)>>]>>,
          <<[rsc |-> 130, ports |-> <<>>], [rsc |-> 2, ports |-> <<Straight[3]>>]>>,
          <<[rsc |-> 1, ports |-> <<Port(2, 0, 4), Port(2, 1, 5)>>]>>}

NoAreas == [a \in {"chassis", "board", "product"} |-> "none"]
File(type, records) == [type |-> type, exists |-> TRUE, records |-> records, areas |-> NoAreas, internal |-> FALSE]
Ended(records) == [records EXCEPT ![Len(records)].last = TRUE]
Carrier(c, d) == File(9, Ended(<<Lists!CarrierRecord(c), Lists!ModuleRecord(d)>>))
Module(t, m) == File(t, Ended(<<Lists!ModuleRecord(m)>>))

Shown ==
    {Lists!Record("backplane", <<<<<<1>>, <<0>>>>>>), Lists!Record("power", <<<<<<2>>>>>>),
     Lists!Record("board", <<<<<<>>>>, <<<<>>, <<>>>>>>), Lists!Record("radial", <<<<<<1>>, <<0>>>>>>),
     Lists!Record("modules", <<<<<<>>, <<>>>>>>), Lists!Record("clocks", <<<<<<1>>, <<0>>>>>>),
     Lists!Record("clockcfg", <<<<<<1, 1>>>>>>), Lists!Record("info", <<<<<<>>>>>>), Lists!Record("current", <<>>),
     Lists!Record("addresses", <<<<<<>>, <<>>>>>>), Lists!Record("activation", <<<<<<>>>>>>),
     Lists!CarrierRecord(<<[rsc |-> 0, ports |-> Straight], [rsc |-> 2, ports |-> <<Straight[1]>>]>>),
     Lists!ModuleRecord(Device(128, <<"g">>, Channels1, <<Link(0, {0}, {1})>>))}
    \cup {[Lists!Record("modules", <<<<<<>>>>>>) EXCEPT !.kind = "address"]}

Call(cmd, opt, files) == [cmd |-> cmd, opt |-> opt, files |-> files]
AnyModule == CHOOSE m \in Modules : m.links # <<>>

MCEkSetups ==
    {Call("summary", "all", <<Carrier(c, d), Module(1, m)>>) : c \in Carriers, d \in Devices, m \in Modules}
    \cup {Call("summary", "none", <<Module(1, m), Carrier(c, d), Module(2, AnyModule), File(10, <<>>)>>) :
             c \in Carriers, d \in Devices, m \in Modules}
    \cup {Call("frushow", "none", <<File(1, s), [File(9, s) EXCEPT !.areas[a] = end, !.internal = TRUE], File(-1, s)>>) :
             s \in {<<r>> : r \in Shown} \cup {Ended(<<r, r>>) : r \in Shown},
             a \in {"chassis", "board", "product"}, end \in {"none", "mark", "eof"}}
    \cup {Call(cmd, opt, files) :
             cmd \in {"print", "summary"}, opt \in {"none", "all", "power", "carrier", "match", "invalid"},
             files \in {<<>>, <<File(1, <<>>), File(10, <<>>)>>, <<File(10, <<>>), File(9, <<>>)>>, <<File(-1, <<>>)>>,
                        <<File(1, <<Lists!Record("current", <<>>)>>), [File(9, <<>>) EXCEPT !.exists = FALSE]>>,
                        [i \in 1..8 |-> File(9, <<>>)]}}
=============================================================================
