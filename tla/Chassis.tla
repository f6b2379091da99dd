-------------------------------- MODULE Chassis --------------------------------
(***************************************************************************)
(* A machine, its watchdog and its power: "ipmiutil wdt" (util/iwdt.c) and    *)
(* "ipmiutil reset" (util/ireset.c), run by hand, by cron and by the init       *)
(* script (scripts/ipmiutil_wdt), which are programs of their own and may be    *)
(* in the middle of their commands at the same time.                            *)
(*                                                                         *)
(* BMC, BIOS and operating system are external.  Time goes in units of 30        *)
(* seconds; a program takes less than a unit, except for MaxSlow times.         *)
(***************************************************************************)
EXTENDS Integers, Sequences

CONSTANTS
    ChassisSetups,   \* [plan, remote, service]: what the administrator does
    MaxTroubles,     \* bound: commands that fail
    MaxSlow,         \* bound: programs that take a unit
    MaxHangs         \* bound: times that the operating system stops

VARIABLES
    tasks,     \* the plan that is left, remote, service: the script is installed
    procs,     \* the programs that run: [opt, todo, ret, masked]
    wd,        \* the BMC's watchdog: [runs, act, pre, count, left]
    flags,     \* the BMC's boot options: [dev, persist]
    os,        \* up, ending, hung, off or boot
    goal,      \* what the operating system ends for: reset, down or none
    cronjob,   \* /etc/cron.d/wdt
    clock,     \* units since cron's last minute
    last,      \* the administrator's last program, as it ended
    troubles, slow, hangs,
    guard,     \* history: what the watchdog is there for: byhand, set, started, fed, shutdown or none
    botched,   \* history: a program has failed half way with the watchdog
    bitten     \* history: the watchdog acted although the system was well

machine == <<os, goal, wd, flags>>
chassis == <<tasks, procs, machine, cronjob, clock, last, troubles, slow, hangs, guard, botched, bitten>>

Who == {"admin", "cron", "init"}
NoOpt == [do |-> "none"]
Idle == [opt |-> NoOpt, todo |-> <<>>, ret |-> "ok", masked |-> FALSE]
Runs(p) == procs[p].opt.do # "none"

-----------------------------------------------------------------------------
(* The commands of a program, in order.  A failure ends the program ("stop"),   *)
(* is what the program returns unless a later command counts ("assign"), or      *)
(* is passed over ("ignore").                                               *)

Cmd(name, arg, err) == [name |-> name, arg |-> arg, err |-> err]
When(cond, cmds) == IF cond THEN cmds ELSE <<>>

\* Mutant: the high byte of the timeout is left out.
TimeoutLow(t) == ((t * 10) % 256) \div 300

\* set_wdt: a timeout of t seconds, in 100 ms and 16 bits.
Timeout(t) == ((t * 10) % 65536) \div 300

\* The pretimeout for a timeout of t seconds, of which some must be left.
Pretime(t, pre, q) ==
    LET first == IF q # 0 THEN q ELSE IF t >= 280 THEN 255 ELSE (t * 10 - t) \div 10
    IN  IF pre = 0 /\ q = 0 THEN 0
        ELSE IF t - first >= 5 THEN first
        ELSE IF t < 20 THEN 0 ELSE t - 5

\* Mutant: set_wdt leaves out the action.
DogNoAction(act, pre, count) == [act |-> "none", pre |-> pre, count |-> count]

\* What set_wdt and clear_wdt send.
Dog(act, pre, count) == [act |-> act, pre |-> pre, count |-> count]

Cleared == Dog("none", 30, Timeout(120))

\* wdt: main.
WdtCommands(o) ==
    <<Cmd("devid", "", "stop"), Cmd("get", "", "stop")>>
    \o (IF o.disable THEN <<Cmd("clear", "", "assign"), Cmd("get", "", "assign")>>
        ELSE When(o.set, <<Cmd("set", Dog(o.act, Pretime(o.t, o.pre, o.q), Timeout(o.t)), "assign"),
                           Cmd("get", "", "ignore")>>))
    \o When(o.feed /\ ~o.disable, <<Cmd("feed", "", "assign"), Cmd("get", "", "ignore")>>)

\* reset: IPMI_Reset, the boot options.  Some vendors' refusals are passed over.
BootOptions(o) ==
    LET err == IF o.lax THEN "ignore" ELSE "stop"
    IN  When(o.dev # "none",
             <<Cmd("bootclear", "", err), Cmd("bootflags", [dev |-> o.dev, persist |-> o.persist], err)>>
             \o When(o.initstr, <<Cmd("bootinit", "", err)>>))

Soft(o) == o.verb \in {"shutdown", "poweroff"}

\* reset: main and IPMI_Reset.
ResetCommands(o) ==
    <<Cmd("devid", "", "stop"), Cmd("get", "", "ignore")>>
    \o (IF o.verb = "bmc" THEN <<Cmd("appreset", "", "assign")>>
        ELSE IF Soft(o) /\ tasks.remote /\ o.intel THEN <<Cmd("agent", "", "assign")>>
        ELSE BootOptions(o)
             \o (IF Soft(o) /\ o.intel
                 THEN <<Cmd("wdset", Dog(IF o.verb = "poweroff" THEN "down" ELSE "reset", 0, Timeout(60)), "stop"),
                        Cmd("feed", "", "stop"), Cmd("init", IF o.verb = "poweroff" THEN "down" ELSE "reset", "assign")>>
                 ELSE <<Cmd("ctl", IF o.verb = "poweroff" THEN "shutdown" ELSE o.verb, "ctl")>>))

Commands(o) == IF o.do = "reset" THEN ResetCommands(o) ELSE WdtCommands(o)

Start(o) == [opt |-> o, todo |-> Commands(o), ret |-> "ok", masked |-> FALSE]

(* The options of the script and of cron.                                  *)
Wdt == [do |-> "wdt", set |-> FALSE, disable |-> FALSE, feed |-> FALSE, act |-> "reset", pre |-> 0, q |-> 0, t |-> 120]
ScriptStart == [Wdt EXCEPT !.do = "start", !.set = TRUE, !.t = 150]
ScriptStop == [Wdt EXCEPT !.do = "stop", !.disable = TRUE]
CronJob == [Wdt EXCEPT !.do = "cron", !.feed = TRUE]

-----------------------------------------------------------------------------
(* The machine (external).                                                  *)

Stopped == [wd EXCEPT !.runs = FALSE]

DogAfter(c) ==
    CASE c.name = "clear" -> [Stopped EXCEPT !.act = Cleared.act, !.pre = Cleared.pre, !.count = Cleared.count, !.left = Cleared.count]
      [] c.name \in {"set", "wdset"} -> [wd EXCEPT !.act = c.arg.act, !.pre = c.arg.pre, !.count = c.arg.count, !.left = c.arg.count]
      [] c.name = "feed" -> [wd EXCEPT !.runs = TRUE, !.left = wd.count]
      [] c.name = "appreset" \/ (c.name = "ctl" /\ c.arg = "down") -> Stopped
      [] OTHER -> wd

OsAfter(c) ==
    CASE c.name = "ctl" /\ c.arg = "down" -> "off"
      [] c.name = "ctl" /\ c.arg \in {"cycle", "reset"} /\ os # "off" -> "boot"
      [] c.name = "ctl" /\ c.arg = "up" /\ os = "off" -> "boot"
      [] os = "up" /\ (c.name \in {"init", "agent"} \/ (c.name = "ctl" /\ c.arg = "shutdown")) -> "ending"
      [] OTHER -> os

GuardAfter(p, c) ==
    CASE c.name = "set" -> IF procs[p].opt.do = "wdt" THEN "byhand" ELSE "set"
      [] c.name = "feed" /\ p = "cron" /\ guard = "started" -> "fed"
      [] c.name = "init" /\ guard = "armed" -> "shutdown"
      [] c.name = "wdset" -> "armed"
      [] c.name \in {"clear", "appreset"} -> "none"
      [] OTHER -> guard

Script(o) == o.do \in {"start", "stop"}
Local(p) == p # "admin" \/ ~tasks.remote \/ Script(procs[p].opt)

\* Programs that run on the machine end with it.
Ended == [p \in Who |-> IF Local(p) THEN Idle ELSE procs[p]]

\* A command is carried out.
Does(p, c) ==
    /\ wd' = DogAfter(c)
    /\ flags' = IF c.name = "bootflags" THEN c.arg ELSE flags
    /\ os' = OsAfter(c)
    /\ goal' = IF os' # "ending" THEN "none" ELSE IF os = "ending" THEN goal ELSE IF c.name = "init" THEN c.arg ELSE "down"
    /\ guard' = IF os' \in {"boot", "off"} THEN "none" ELSE GuardAfter(p, c)

\* The machine runs, and no program does.
AtRest(s) ==
    /\ tasks = s
    /\ procs = [p \in Who |-> Idle]
    /\ wd = [runs |-> FALSE, act |-> "none", pre |-> 0, count |-> 0, left |-> 0]
    /\ flags = [dev |-> "none", persist |-> FALSE]
    /\ os = "up" /\ goal = "none" /\ cronjob = FALSE /\ clock = 0
    /\ last = [opt |-> NoOpt, ret |-> "ok", masked |-> FALSE]
    /\ troubles = 0 /\ slow = 0 /\ hangs = 0
    /\ guard = "none" /\ botched = FALSE /\ bitten = FALSE

Init == \E s \in ChassisSetups : AtRest(s)

-----------------------------------------------------------------------------
(* Programs.                                                               *)

\* The administrator's next program or script.  A local one needs the machine;
\* scripts wait for each other.
Begin ==
    /\ tasks.plan # <<>> /\ ~Runs("admin")
    /\ ~tasks.remote \/ Script(Head(tasks.plan)) => os = "up"
    /\ Script(Head(tasks.plan)) => ~Runs("init")
    /\ procs' = [procs EXCEPT !["admin"] = Start(Head(tasks.plan))]
    /\ tasks' = [tasks EXCEPT !.plan = Tail(tasks.plan)]
    /\ UNCHANGED <<machine, cronjob, clock, last, troubles, slow, hangs, guard, botched, bitten>>

Active(p) == Runs(p) /\ procs[p].todo # <<>>
Command(p) == Head(procs[p].todo)

\* A program that goes on, its result being ret.
GoesOn(p, todo, ret, masked) ==
    LET base == IF os' \in {"boot", "off"} /\ os' # os THEN Ended ELSE procs
    IN  procs' = IF os' \in {"boot", "off"} /\ os' # os /\ Local(p) THEN base
                 ELSE [base EXCEPT ![p] = [@ EXCEPT !.todo = todo, !.ret = ret, !.masked = masked]]

Rest(p) == UNCHANGED <<tasks, cronjob, clock, last, slow, hangs, bitten>>

\* The BMC (or, for init, the operating system) does as it is told.
Carries(p) ==
    /\ Active(p)
    /\ LET c == Command(p)
       IN  /\ Does(p, c)
           /\ IF c.err = "ignore" THEN GoesOn(p, Tail(procs[p].todo), procs[p].ret, procs[p].masked)
              ELSE GoesOn(p, Tail(procs[p].todo), "ok", procs[p].masked \/ procs[p].ret = "error")
    /\ Rest(p) /\ UNCHANGED <<troubles, botched>>

\* CHASSIS_CTL fails: over a LAN that is the end if there was no answer; a soft
\* shutdown that is not supported counts as success; else the BMC is reset.
ChassisFails(p, how) ==
    CASE how # "refused" /\ ~Local(p) -> GoesOn(p, <<>>, "error", procs[p].masked)
      [] how = "unsupported" -> GoesOn(p, <<>>, "ok", TRUE)
      [] OTHER -> GoesOn(p, <<Cmd("appreset", "", "assign")>>, "error", procs[p].masked)

\* A command is refused, or its answer is lost, whether it was carried out or
\* not.
Fails(p) ==
    /\ Active(p) /\ troubles < MaxTroubles /\ troubles' = troubles + 1
    /\ LET c == Command(p)
       IN  \E how \in {"refused", "lost", "answerlost"}
                       \cup {h \in {"unsupported"} : c.name = "ctl" /\ c.arg = "shutdown"} :
              /\ IF how = "answerlost" THEN Does(p, c) ELSE UNCHANGED <<machine, guard>>
              /\ CASE c.err = "ctl" -> ChassisFails(p, how)
                   [] c.err = "stop" -> GoesOn(p, <<>>, "error", procs[p].masked)
                   [] c.err = "ignore" -> GoesOn(p, Tail(procs[p].todo), procs[p].ret, procs[p].masked \/ c.name \notin {"get"})
                   [] c.name = "agent" /\ how = "refused" -> GoesOn(p, <<>>, "ok", TRUE)
                   [] OTHER -> GoesOn(p, Tail(procs[p].todo), "error", procs[p].masked)
              /\ botched' = \/ botched
                            \/ c.name \in {"clear", "wdset", "init"} \/ procs[p].opt.do = "stop"
                            \/ c.name = "feed" /\ procs[p].opt.do = "reset"
                            \/ c.name = "set" /\ how = "answerlost" /\ wd.runs
    /\ Rest(p)

\* A program ends; the script goes on with cron's file, and removes it whatever
\* "wdt -d" returned.
Done(p) ==
    /\ Runs(p) /\ procs[p].todo = <<>>
    /\ LET o == procs[p].opt
       IN  /\ cronjob' = (o.do # "stop" /\ (cronjob \/ (o.do = "start" /\ procs[p].ret = "ok")))
           /\ guard' = IF o.do = "start" /\ procs[p].ret = "ok" /\ guard = "set" THEN "started" ELSE guard
           /\ last' = IF p = "admin" THEN [opt |-> o, ret |-> procs[p].ret, masked |-> procs[p].masked] ELSE last
    /\ procs' = [procs EXCEPT ![p] = Idle]
    /\ UNCHANGED <<tasks, machine, clock, troubles, slow, hangs, botched, bitten>>

-----------------------------------------------------------------------------
(* Time, and what happens to the operating system (external).                 *)

Kept == UNCHANGED <<tasks, flags, cronjob, last, troubles>>

Bites == wd.runs /\ wd.left <= 1

\* A unit passes: cron's minute may be over, and the watchdog's time.
Tick ==
    /\ os \in {"up", "ending", "hung"}
    /\ \/ \A p \in Who : ~Runs(p)
       \/ slow < MaxSlow
    /\ slow' = IF \E p \in Who : Runs(p) THEN slow + 1 ELSE slow
    /\ clock' = (clock + 1) % 2
    /\ IF Bites /\ wd.act # "none"
       THEN /\ wd' = Stopped
            /\ os' = IF wd.act = "down" THEN "off" ELSE "boot"
            /\ goal' = "none" /\ guard' = "none"
            /\ bitten' = (bitten \/ (os = "up" /\ guard # "byhand" /\ ~botched))
            /\ procs' = Ended
       ELSE /\ wd' = IF Bites THEN Stopped ELSE IF wd.runs THEN [wd EXCEPT !.left = @ - 1] ELSE wd
            /\ procs' = IF clock' = 0 /\ cronjob /\ os # "hung" /\ ~Runs("cron")
                        THEN [procs EXCEPT !["cron"] = Start(CronJob)] ELSE procs
            /\ UNCHANGED <<os, goal, guard, bitten>>
    /\ Kept /\ UNCHANGED <<hangs, botched>>

Hang ==
    /\ os \in {"up", "ending"} /\ hangs < MaxHangs
    /\ hangs' = hangs + 1 /\ os' = "hung" /\ goal' = "none"
    /\ procs' = Ended
    /\ Kept /\ UNCHANGED <<wd, clock, slow, guard, botched, bitten>>

\* init stops the services, if the script is one of them.
StopsServices ==
    /\ os = "ending" /\ tasks.service /\ cronjob /\ ~Runs("init") /\ ~Script(procs["admin"].opt)
    /\ procs' = [procs EXCEPT !["init"] = Start(ScriptStop)]
    /\ Kept /\ UNCHANGED <<os, goal, wd, clock, slow, hangs, guard, botched, bitten>>

EndOfOs ==
    /\ os = "ending" /\ ~(tasks.service /\ cronjob) /\ ~Runs("init")
    /\ os' = IF goal = "reset" THEN "boot" ELSE "off"
    /\ wd' = IF goal = "reset" THEN wd ELSE Stopped
    /\ goal' = "none" /\ guard' = "none"
    /\ procs' = Ended
    /\ Kept /\ UNCHANGED <<clock, slow, hangs, botched, bitten>>

\* The BIOS uses the watchdog for itself and stops it, and the boot options are
\* used up; init starts the services.
Boots ==
    /\ os = "boot"
    /\ os' = "up"
    /\ wd' = [Stopped EXCEPT !.act = "none"]
    /\ flags' = IF flags.persist THEN flags ELSE [flags EXCEPT !.dev = "none"]
    /\ guard' = "none" /\ botched' = FALSE
    /\ procs' = IF tasks.service THEN [procs EXCEPT !["init"] = Start(ScriptStart)] ELSE procs
    /\ UNCHANGED <<tasks, goal, cronjob, clock, last, troubles, slow, hangs, bitten>>

Programs == \E p \in Who : Carries(p) \/ Done(p)

Next ==
    \/ Begin \/ Programs \/ (\E p \in Who : Fails(p))
    \/ Tick \/ Hang \/ StopsServices \/ EndOfOs \/ Boots

\* Programs run, time passes, and a system that has not hung ends and starts.
Proceeds == StopsServices \/ EndOfOs \/ Boots

Fairness == WF_chassis(Programs) /\ WF_chassis(Tick) /\ WF_chassis(Proceeds)

Spec == Init /\ [][Next]_chassis /\ Fairness

-----------------------------------------------------------------------------
(* Properties.                                                             *)

TypeOK ==
    /\ os \in {"up", "ending", "hung", "off", "boot"} /\ goal \in {"none", "reset", "down"}
    /\ wd.left \in 0..wd.count /\ wd.count \in 0..218 /\ wd.pre \in 0..255
    /\ cronjob \in BOOLEAN /\ clock \in 0..1 /\ troubles \in 0..MaxTroubles /\ slow \in 0..MaxSlow /\ hangs \in 0..MaxHangs
    /\ guard \in {"none", "byhand", "set", "started", "fed", "armed", "shutdown"} /\ botched \in BOOLEAN

\* "reset every 1 min", "150 seconds for watchdog timeout (2*60 + 30)"
\* (scripts/ipmiutil_wdt): a machine that is well is not reset by the watchdog
\* that the script has started, or stopped, through one failed or slow program,
\* in whatever order the programs' commands come.
WellIsLeft == TypeOK /\ (bitten => troubles + slow >= 2)

\* A wdt that returns 0 has set, or disabled, the watchdog as it was asked to, with
\* a timeout of 16 bits (iwdt.c), unless it hid a failure, or another has
\* changed it since; a pretimeout leaves five seconds.
WdtAsAsked ==
    LET a == procs["admin"]
    IN  a.opt.do = "wdt" /\ a.todo = <<>> /\ a.ret = "ok" /\ ~a.masked =>
          /\ a.opt.disable /\ guard = "none" => wd.act = "none"
          /\ a.opt.set /\ ~a.opt.disable /\ guard = "byhand" =>
               /\ wd.act = a.opt.act
               /\ a.opt.t <= 6553 => wd.count = a.opt.t \div 30
               /\ wd.pre = 0 \/ wd.pre <= a.opt.t - 5
               /\ a.opt.feed => wd.runs \/ slow > 0

\* The boot device that a reset asked for is used by that reset: it is not
\* left for another, unless the program failed, hid a failure, or did not
\* reset (ireset.c, IPMI_Reset).
FlagsAreUsed ==
    os = "up" /\ ~Runs("admin") /\ flags.dev # "none" /\ ~flags.persist /\ last.opt.do = "reset" =>
        last.ret = "error" \/ last.masked \/ last.opt.verb \notin {"reset", "cycle"}

\* What a watchdog is for: a system that hangs is reset, if the script has
\* started the watchdog and cron has fed it since; and a soft shutdown, if the system
\* hangs on its way down ("watchdog/init0 method", ireset.c), unless another program
\* changes the watchdog.
HungIsRestarted ==
    \/ os = "hung" /\ guard = "fed"
    \/ os \in {"ending", "hung"} /\ guard = "shutdown"
    ~> os \in {"boot", "off"} \/ guard = "none"
=============================================================================
