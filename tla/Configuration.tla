----------------------------- MODULE Configuration -----------------------------
(* Programs that configure one BMC after another: config saves its parameters  *)
(* and restores them, lan enables and disables its LAN channel, user and       *)
(* serial set up users and the serial port, others its panel, its firewall,    *)
(* its sensors, or what a vendor adds; events shows its log.  Between them the *)
(* BMC may be replaced, or be configured by something else.                    *)
EXTENDS LanConfig, ConfigFile, DellConfig, PanelConfig,
        FirewallConfig, PlatformConfig, SensorConfig, Events, Functions

CONSTANTS
  Configs,  \* parameters that a BMC may have
  Setups    \* bound: what happens: [conf, plan], a sequence of programs' options

VARIABLE plan  \* what is still to happen

vars == <<bmc, run, fileVars, plan>>

Init ==
  \E s \in Setups :
    /\ conf = s.conf
    /\ plan = s.plan
    /\ busy = FALSE
    /\ prog = [do |-> "none"] /\ running = FALSE
    /\ todo = << >> /\ errors = FALSE /\ pefok = TRUE /\ code = "none" /\ fails = 0
    /\ was = conf
    /\ file = << >> /\ rest = << >> /\ enabled = 0 /\ known = 0 /\ lastUser = 0 /\ whole = FALSE

Spend(lost) ==
  /\ fails + Cardinality(lost) <= MaxFails
  /\ fails' = fails + Cardinality(lost)

AtMostOne(S) == {{}} \cup {{k} : k \in S}

Due(do) == ~running /\ plan # << >> /\ Head(plan).do = do /\ plan' = Tail(plan)

RunLan ==
  /\ Due("lan")
  /\ \E lost \in AtMostOne(LanReads) : Spend(lost) /\ LanStarts(Head(plan), lost)
  /\ UNCHANGED fileVars

RunSave ==
  /\ Due("save")
  /\ \/ \E lost \in AtMostOne(Range(SavedKeys({}))) :
          Spend(lost) /\ Save(Head(plan), lost, Len(Records(lost)))
     \/ \E n \in 0..(Len(Records({})) - 1) :  \* killed; counts as a failure
          Spend({n}) /\ Save(Head(plan), {}, n)

RunRestore ==
  /\ Due("restore")
  /\ \E told \in BOOLEAN : Spend(IF told THEN {} ELSE {0}) /\ RestoreStarts(Head(plan), told)

RunUser ==
  /\ Due("user")
  /\ \E lost \in AtMostOne(UserReads(Head(plan).user)) :
       Spend(lost) /\ UserStarts(Head(plan), lost)
  /\ UNCHANGED fileVars

RunSerial ==
  /\ Due("serial")
  /\ SerialStarts(Head(plan))
  /\ UNCHANGED <<fails, fileVars>>

RunDell ==
  /\ Due("dell")
  /\ \E bad \in BadReads \cup {NoBad} :
       Spend({bad} \ {NoBad}) /\ DellStarts(Head(plan), bad)
  /\ UNCHANGED fileVars

RunAlarms ==
  /\ Due("alarms")
  /\ \E bad \in AlarmReads \cup {"none"} :
       Spend({bad} \ {"none"}) /\ AlarmsStarts(Head(plan), bad)
  /\ UNCHANGED fileVars

RunFirewall ==
  /\ Due("firewall")
  /\ \E bad \in FirewallReads(Head(plan)) \cup {Well} :
       Spend({bad} \ {Well}) /\ FirewallStarts(Head(plan), bad)
  /\ UNCHANGED fileVars

RunDcmi ==
  /\ Due("dcmi")
  /\ \E bad \in DcmiReads(Head(plan)) \cup {"none"} :
       Spend({bad} \ {"none"}) /\ DcmiStarts(Head(plan), bad)
  /\ UNCHANGED fileVars

RunPicmg ==
  /\ Due("picmg")
  /\ \E bad \in PicmgReads \cup {"none"} :
       Spend({bad} \ {"none"}) /\ PicmgStarts(Head(plan), bad)
  /\ UNCHANGED fileVars

RunSensor ==
  /\ Due("sensor")
  /\ \E bad \in SensorReads \cup {"none"} :
       Spend({bad} \ {"none"}) /\ SensorStarts(Head(plan), bad)
  /\ UNCHANGED fileVars

RunEvents ==
  /\ Due("events")
  /\ EventsStarts(Head(plan))
  /\ UNCHANGED <<fails, fileVars>>

Replaced ==
  /\ Due("replaced")
  /\ \E c \in Configs : conf' = c
  /\ UNCHANGED <<busy, run, fileVars>>

Works ==
  \/ LanEnds \/ LanAborts \/ UserEnds \/ SerialEnds \/ DellEnds \/ DellAborts \/ AlarmsEnds
  \/ FirewallEnds \/ FirewallAborts \/ PlatformEnds \/ PlatformAborts
  \/ SensorEnds \/ SensorAborts \/ EventsEnds
  \/ Carries \/ Fails

Next ==
  \/ RunLan \/ RunUser \/ RunSerial \/ RunDell \/ RunAlarms \/ RunFirewall
  \/ RunDcmi \/ RunPicmg \/ RunSensor \/ RunEvents \/ RunSave \/ RunRestore \/ Replaced
  \/ Works /\ UNCHANGED <<fileVars, plan>>
  \/ RestoreRecord /\ UNCHANGED plan
  \/ WaitForSetComplete /\ UNCHANGED plan
  \/ DisableOthers /\ UNCHANGED plan
  \/ RestoreEnds /\ UNCHANGED plan
  \/ GetsReady /\ UNCHANGED <<fileVars, plan>>

Spec == Init /\ [][Next]_vars

-----------------------------------------------------------------------------
(* Properties.                                                                 *)

\* The variables have the types of the code's; the last user enabled is a user
\* (last_user_enable), and commands are left only while a program runs.
TypeOK ==
  /\ busy \in BOOLEAN /\ running \in BOOLEAN /\ errors \in BOOLEAN /\ pefok \in BOOLEAN
  /\ whole \in BOOLEAN
  /\ fails \in 0..MaxFails
  /\ \/ prog.do = "none"
     \/ prog.do = "dell" /\ prog.op \in DellOps
     \/ prog.do = "alarms" /\ prog.led \in [Leds -> DOMAIN Opposite]
     \/ prog.do = "firewall" /\ prog.op \in {"enable", "disable", "reset"}
     \/ prog.do = "sensor" /\ prog.mode \in Modes
     \/ prog.do = "events" /\ prog.least \in INF..CRT
     \/ Platform /\ (running \/ code \in {"ok", "error"})
     \/ prog \in LanOptions \cup ConfigOptions \cup UserOptions \cup SerialOptions
  /\ \A i \in 1..Len(todo) : DOMAIN todo[i] = {"fn", "key", "val", "err"}
  /\ \A i \in 1..Len(file) : file[i].key \in DOMAIN conf
  /\ lastUser \in 0..MaxUsers /\ enabled \in 0..MaxUsers /\ known \in 0..(MaxUsers + NUsers)
  /\ ~running => todo = << >>

Did(do, rc) == ~running /\ prog.do = do /\ code = rc

(* What a restore leaves to the BMC by intent: read-only parameters, the BMC's *)
(* own MAC, what the vendor's BMC does not let it set, and the access of users *)
(* that cannot be reached with it; and, by no intent, the alert destinations   *)
(* after an optional policy was answered 0xC1, which ends the use of PEF       *)
(* although it is no error.                                                    *)
LeftAlone(r) ==
  \/ r.key \in {Lan(n) : n \in {0, 1, 17, 20, 21, 22, 23, 24, 25}}
  \/ r.key = Lan(5) /\ ~prog.domac
  \/ r.key = Lan(10) /\ prog.gcm
  \/ r.key[1] = "ser" /\ (r.key[2] \in {0, 1} \/ SerialIsOptional(r.key[2]))
  \/ prog.vendor = SUPERMICRO /\ (r.key[1] = "serchan" \/ r.key \in {Ser(n) : n \in {3, 6, 7, 8, 29}})
  \/ r.key[1] = "policy" /\ r.key[2] > 1
  \/ r.key[1] \in {"dest", "desttype"} /\ ~pefok
  \/ r.key[1] \in {"name", "payload"} /\ r.key[2] <= 2
  \/ r.key[1] = "access" /\ (~r.val.link \/ prog.vendor = KONTRON \/ r.key[3] = 1)
  \/ r.key[1] = "sys"

\* A restore that returns 0 leaves the BMC with every parameter of the file,
\* whatever the BMC had before, whatever else a record's restoring sets on its
\* way (the address source and ARP for the address, enabling for the access),
\* and whichever commands failed (iconfig.c, main), except for what LeftAlone
\* names.  (And the variables have their types.)
Restored ==
  /\ TypeOK
  /\ Did("restore", "ok") =>
       \A i \in 1..Len(file) : LeftAlone(file[i]) \/ conf[file[i].key] = file[i].val

\* lan -e that returns 0 leaves the channel open for good, with the user, the
\* address and the filters that were asked for, whichever commands failed on
\* the way (ilan.c, i_lan).
LanIsUp ==
  Did("lan", "ok") /\ prog.act = "enable" =>
    /\ \A how \in {"active", "nonvol"} : conf[ChanAcc(how)] # "off"
    /\ conf[Lan(4)] = IF prog.dhcp THEN "dhcp" ELSE "static"
    /\ ~prog.dhcp => /\ conf[Lan(3)] # ""
                     /\ prog.ip # "" => conf[Lan(3)] = prog.ip
    /\ prog.named \/ prog.pwd => conf[Access("lan", prog.user)] = Can(TRUE, "admin")
    /\ prog.named => conf[Enabled(prog.user)] = "yes"
    /\ prog.pef => /\ conf[Pef(1)] = "on" /\ conf[Policy(ALERTNUM)] = "on"
                   /\ conf[ChanAcc("nonvol")] = "alerting"

\* lan -d that returns 0 leaves the channel closed for good, the user without
\* access, no address, and no alerts (ilan.c, DisablePef and i_lan).
LanIsDown ==
  Did("lan", "ok") /\ prog.act = "disable" =>
    /\ conf[ChanAcc("nonvol")] = "off"
    /\ conf[Access("lan", prog.user)] = NoAccess
    /\ conf[Lan(3)] = "" /\ conf[Lan(4)] = "static"
    /\ conf[Pef(1)] = "off" /\ conf[Policy(ALERTNUM)] = "off"

\* The rules that stand before those of lan keep what they are about, if lan
\* could read them (ilan.c, pef_array), and the others are only taken where lan
\* puts its own.
RulesKept ==
  ~running /\ prog.do = "lan" /\ was[Pef(1)] = "on" /\ fails = 0 =>
    \A i \in 1..PefMax :
      was[Rule(i)].about = "empty" \/ conf[Rule(i)].about = was[Rule(i)].about
        \/ (prog.pef /\ (prog.adjust \/ i >= PefNum))

\* user sets what it was asked to and keeps the rest of the user, whose name
\* and privilege the commands carry along (iuser.c, GetUserInfo), if it could
\* read them; and it only returns 0 if the user has access then.
UserKept ==
  Did("user", "ok") /\ prog.op # "disable" =>
    LET u == prog.user
    IN  /\ fails = 0 => /\ conf[Access("lan", u)].priv
                              = IF prog.op = "priv" THEN "admin" ELSE was[Access("lan", u)].priv
                        /\ conf[Name(u)] = IF prog.op = "name" /\ u # 1 THEN "new" ELSE was[Name(u)]
        /\ prog.op # "password" => conf[Pass(u)] = was[Pass(u)]
        /\ conf[Access("lan", u)].link

\* A program that returns 0 has done what it was asked, and nothing else: a
\* restore has restored the file (iconfig.c), lan, user and serial have set up
\* theirs and kept the rest (ilan.c, iuser.c), and so have delloem (oem_dell.c),
\* alarms (ialarms.c), firewall (ifirewall.c), dcmi (idcmi.c), picmg
\* (ipicmg.c) and sensor (isensor.c); sel and events have shown what the BMC's
\* events say (ievents.c).
AsAsked ==
  /\ Restored /\ LanIsUp /\ LanIsDown /\ RulesKept /\ UserKept /\ DellAsAsked
  /\ AlarmsAsAsked /\ FirewallAsAsked /\ PlatformAsAsked /\ SensorAsAsked
  /\ EventsAsShown

\* As long as no command failed, the null user is only demoted on the serial
\* channel when another user, with the password that was asked for, administers
\* it (iserial.c, "Set NULL user access up w/ USER privilege").
AdminFirst ==
  [][running /\ prog.do = "serial" /\ fails = 0
       /\ conf'[Access("ser", 1)] = Can(TRUE, "user") /\ conf[Access("ser", 1)] # Can(TRUE, "user") =>
         \E u \in Users \ {1} : /\ conf[Access("ser", u)] = Can(TRUE, "admin")
                                /\ conf[Enabled(u)] = "yes" /\ conf[Name(u)] = "new"]_vars

\* "disable grat arp while setting IP", "set src to static before setting IP"
\* (iconfig.c:2433, 2438; ilan.c:5624): as long as no command failed, the
\* address only changes while the BMC does not announce it and does not ask
\* DHCP for another (on channels and vendors where that can be set).
IpIsSetQuietly ==
  [][running /\ prog.do \in {"lan", "restore"} /\ fails = 0 /\ conf'[Lan(3)] # conf[Lan(3)] =>
       /\ conf[Lan(4)] = "static"
       /\ conf[Lan(10)] = "off" \/ prog.vendor = SUPERMICRO
            \/ (prog.do = "lan" /\ (prog.gcm \/ prog.granular \/ prog.act = "disable"))]_vars

\* What holds while a program is in the middle of its commands, too.
OneAfterTheOther == AdminFirst /\ IpIsSetQuietly
=============================================================================
