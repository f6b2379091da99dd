------------------------------- MODULE KcsDriver -------------------------------
(***************************************************************************)
(* The driver that does port I/O of its own (util/ipmidir.c) on a KCS         *)
(* interface, one access to a register at a time: opening it, its lock file,   *)
(* the exchange of SendTimedImbpRequest_kcs, and the calls of util/ipmicmd.c    *)
(* that open, use and close it. Programs may be killed at any point and leave   *)
(* the interface and the lock file as they are.                                 *)
(*                                                                         *)
(* The BMC (external) is the KCS state machine of IPMI. A byte is known by the  *)
(* request it is of and its place in it. Answers are shorter than rx_data, so    *)
(* the loop's bounds are not met.                                                *)
(***************************************************************************)
EXTENDS Naturals, Sequences

CONSTANTS
    Programs,
    Commands,       \* the commands a program sends
    Lengths,        \* the bytes of a command, with its NetFn and number
    ReplyLengths,   \* the bytes of an answer, with NetFn, number and completion code
    Concurrent,     \* programs run at the same time
    SlowBytes       \* the BMC may take longer than max_kcs_loop for any byte

ASSUME KcsAssumption ==
    /\ Commands \in Nat /\ Lengths \subseteq Nat \ {0, 1} /\ ReplyLengths \subseteq Nat \ {0, 1}
    /\ Concurrent \in BOOLEAN /\ SlowBytes \in BOOLEAN

VARIABLES
    prog,       \* what each program does and knows
    lock,       \* lock_dir_file exists
    kcs,        \* the interface and the BMC behind it
    asked,      \* history: the requests begun
    ran,        \* history: the bytes the BMC ran
    accepted    \* history: the answers that were taken, with their requests

vars == <<prog, lock, kcs, asked, ran, accepted>>

WrStart == [what |-> "WR_START"]
WrEnd == [what |-> "WR_END"]
ReadByte == [what |-> "READ_BYTE"]
Dummy == [what |-> "dummy"]

MaxExchanges == 3 * Commands
Requests == [by : Programs, n : 1..MaxExchanges, len : {2} \cup Lengths]
NoRequest == [by |-> "none", n |-> 0, len |-> 0]

Bytes(r) == [i \in 1..r.len |-> [what |-> "request", of |-> r, at |-> i]]
Reply(got, n) == [i \in 1..n |-> [what |-> "reply", to |-> got, at |-> i]]

\* The variables of a program: where it is, LOCK_OK, g_bmcType and the driver type it
\* has, and those of SendTimedImbpRequest_kcs.
Fresh == [at |-> "out", looks |-> FALSE, selected |-> FALSE, known |-> FALSE, aim |-> "command", left |-> Commands,
          n |-> 0, req |-> NoRequest, i |-> 0, rx |-> <<>>, rv |-> "ok", late |-> FALSE, rc |-> "ok"]

Init ==
    /\ prog = [p \in Programs |-> Fresh]
    /\ lock = FALSE
    /\ kcs = [state |-> "idle", ibf |-> FALSE, port |-> "data", in |-> Dummy, obf |-> FALSE, outReg |-> Dummy,
              out |-> <<>>, got |-> <<>>, ending |-> FALSE]
    /\ asked = {} /\ ran = <<>> /\ accepted = <<>>

-----------------------------------------------------------------------------
(* The BMC.                                                                *)

\* It may be too slow for the driver: while it runs a request or gives the
\* answer, and with SlowBytes at any byte.
Slow ==
    /\ kcs.ibf
    /\ \/ SlowBytes
       \/ kcs.state = "read"
       \/ kcs.ending /\ kcs.port = "data"

Runs(n) ==
    LET got == Append(kcs.got, kcs.in)
    IN  /\ kcs' = [kcs EXCEPT !.ibf = FALSE, !.state = "read", !.ending = FALSE, !.got = <<>>,
                              !.obf = TRUE, !.outReg = Head(Reply(got, n)), !.out = Tail(Reply(got, n))]
        /\ ran' = Append(ran, got)

Errs == kcs' = [kcs EXCEPT !.ibf = FALSE, !.state = "error", !.obf = TRUE, !.outReg = Dummy,
                           !.out = <<>>, !.got = <<>>, !.ending = FALSE]

TakesCommand ==
    /\ ran' = ran
    /\ CASE kcs.in = WrStart -> kcs' = [kcs EXCEPT !.ibf = FALSE, !.state = "write", !.got = <<>>,
                                                   !.ending = FALSE, !.out = <<>>]
         [] kcs.in = WrEnd /\ kcs.state = "write" -> kcs' = [kcs EXCEPT !.ibf = FALSE, !.ending = TRUE]
         [] OTHER -> Errs

TakesData ==
    CASE kcs.state = "write" /\ kcs.ending -> \E n \in ReplyLengths : Runs(n)
      [] kcs.state = "write" /\ ~kcs.ending ->
             kcs' = [kcs EXCEPT !.ibf = FALSE, !.got = Append(@, kcs.in)] /\ ran' = ran
      [] kcs.state = "read" /\ kcs.in = ReadByte /\ kcs.out # <<>> ->
             /\ kcs' = [kcs EXCEPT !.ibf = FALSE, !.obf = TRUE, !.outReg = Head(kcs.out), !.out = Tail(@)]
             /\ ran' = ran
      [] kcs.state = "read" /\ kcs.in = ReadByte /\ kcs.out = <<>> ->
             kcs' = [kcs EXCEPT !.ibf = FALSE, !.obf = TRUE, !.outReg = Dummy, !.state = "idle"] /\ ran' = ran
      [] OTHER -> Errs /\ ran' = ran

BmcTakes ==
    /\ kcs.ibf
    /\ IF kcs.port = "command" THEN TakesCommand ELSE TakesData
    /\ UNCHANGED <<prog, lock, asked, accepted>>

-----------------------------------------------------------------------------
(* One exchange.                                                           *)

\* The accesses of the write phase.
Ops(r) ==
    <<[port |-> "command", byte |-> WrStart]>>
    \o [i \in 1..(r.len - 1) |-> [port |-> "data", byte |-> Bytes(r)[i]]]
    \o <<[port |-> "command", byte |-> WrEnd], [port |-> "data", byte |-> Bytes(r)[r.len]]>>

Goes(p, q) == prog' = [prog EXCEPT ![p] = q]
Ends(p, rc) == Goes(p, [prog[p] EXCEPT !.at = "done", !.rc = rc])

Inb == kcs' = [kcs EXCEPT !.obf = FALSE]
Outb(port, byte) == kcs' = [kcs EXCEPT !.ibf = TRUE, !.port = port, !.in = byte]

Quiet == UNCHANGED <<lock, asked, ran, accepted>>

\* Mutant: the loop starts over when its limit is reached.
NoLimit(p) ==
    LET next == CASE prog[p].at = "begin" -> "drain"
                  [] prog[p].at = "sent" /\ prog[p].i < Len(Ops(prog[p].req)) -> "check"
                  [] OTHER -> "reading"
    IN  /\ prog[p].at \in {"begin", "sent"}
        /\ \/ ~kcs.ibf /\ Goes(p, [prog[p] EXCEPT !.at = next, !.rv = "ok"])
           \/ Slow /\ Goes(p, [prog[p] EXCEPT !.rv = IF prog[p].rv = "ok" THEN "late" ELSE "ok", !.late = TRUE])
        /\ UNCHANGED kcs /\ Quiet

\* wait_for_IBF_clear gives up after max_kcs_loop looks at the register.
WaitForIbfClear(p) ==
    LET next == CASE prog[p].at = "begin" -> "drain"
                  [] prog[p].at = "sent" /\ prog[p].i < Len(Ops(prog[p].req)) -> "check"
                  [] OTHER -> "reading"
    IN  /\ prog[p].at \in {"begin", "sent"}
        /\ \/ ~kcs.ibf /\ Goes(p, [prog[p] EXCEPT !.at = next, !.rv = "ok"])
           \/ Slow /\ Goes(p, [prog[p] EXCEPT !.at = next, !.rv = "late", !.late = TRUE])
        /\ UNCHANGED kcs /\ Quiet

Drain(p) ==
    /\ prog[p].at = "drain"
    /\ Inb
    /\ IF prog[p].rv # "ok" THEN Ends(p, "send_fail") ELSE Goes(p, [prog[p] EXCEPT !.at = "write", !.i = 1])
    /\ Quiet

Write(p) ==
    /\ prog[p].at = "write"
    /\ LET op == Ops(prog[p].req)[prog[p].i] IN Outb(op.port, op.byte)
    /\ Goes(p, [prog[p] EXCEPT !.at = "sent"])
    /\ Quiet

GetWriteState(p) ==
    /\ prog[p].at = "check"
    /\ IF kcs.state # "write" THEN Ends(p, "send_fail") ELSE Goes(p, [prog[p] EXCEPT !.at = "clear"])
    /\ UNCHANGED kcs /\ Quiet

\* That the wait was given up counts after WR_START only.
ClearObf(p) ==
    /\ prog[p].at = "clear"
    /\ Inb
    /\ IF prog[p].i = 1 /\ prog[p].rv # "ok"
       THEN Ends(p, "send_fail")
       ELSE Goes(p, [prog[p] EXCEPT !.at = "write", !.i = prog[p].i + 1])
    /\ Quiet

\* Two looks at the status register.
GetReadState(p) ==
    /\ prog[p].at = "reading"
    /\ Goes(p, [prog[p] EXCEPT !.at = IF kcs.state = "read" THEN "obf" ELSE "not_read"])
    /\ UNCHANGED kcs /\ Quiet

GetIdleState(p) ==
    /\ prog[p].at = "not_read"
    /\ IF kcs.state # "idle" THEN Ends(p, "recv_fail") ELSE Goes(p, [prog[p] EXCEPT !.at = "last_obf"])
    /\ UNCHANGED kcs /\ Quiet

WaitForObfSet(p) ==
    /\ prog[p].at \in {"obf", "last_obf"}
    /\ \/ kcs.obf /\ Goes(p, [prog[p] EXCEPT !.at = IF prog[p].at = "obf" THEN "take" ELSE "take_last"])
       \/ /\ ~kcs.obf /\ (Slow \/ ~kcs.ibf)
          /\ Goes(p, [prog[p] EXCEPT !.at = "done", !.rc = "recv_fail", !.late = prog[p].late \/ Slow])
    /\ UNCHANGED kcs /\ Quiet

Take(p) ==
    /\ prog[p].at = "take"
    /\ Inb
    /\ Goes(p, [prog[p] EXCEPT !.at = "next", !.rx = Append(prog[p].rx, kcs.outReg)])
    /\ Quiet

\* Mutant: READ_BYTE is not waited for.
NoWait(p) ==
    /\ prog[p].at = "next"
    /\ Outb("data", ReadByte)
    /\ Goes(p, [prog[p] EXCEPT !.at = "reading"])
    /\ Quiet

AskForNext(p) ==
    /\ prog[p].at = "next"
    /\ Outb("data", ReadByte)
    /\ Goes(p, [prog[p] EXCEPT !.at = "sent"])
    /\ Quiet

\* An answer without completion code is no answer.
TakeLast(p) ==
    /\ prog[p].at = "take_last"
    /\ Inb
    /\ Ends(p, IF Len(prog[p].rx) < 3 THEN "timeout" ELSE "ok")
    /\ Quiet

Exchanges(p) ==
    \/ WaitForIbfClear(p) \/ Drain(p) \/ Write(p) \/ GetWriteState(p) \/ ClearObf(p)
    \/ GetReadState(p) \/ GetIdleState(p) \/ WaitForObfSet(p)
    \/ Take(p) \/ AskForNext(p) \/ TakeLast(p)

-----------------------------------------------------------------------------
(* The driver.                                                             *)

\* Mutant: *respDataLen is not set to 0 for a try.
KeepsLength(p, aim, q) ==
    \E len \in IF aim = "command" THEN Lengths ELSE {2} :
        LET r == [by |-> p, n |-> prog[p].n + 1, len |-> len]
        IN  /\ asked' = asked \cup {r}
            /\ Goes(p, [q EXCEPT !.at = "begin", !.aim = aim, !.n = r.n, !.req = r, !.i = 0, !.late = FALSE])

\* ProcessMessage with a request of that length, from the program as q is;
\* GetDeviceId has no data.
Send(p, aim, q) ==
    \E len \in IF aim = "command" THEN Lengths ELSE {2} :
        LET r == [by |-> p, n |-> prog[p].n + 1, len |-> len]
        IN  /\ asked' = asked \cup {r}
            /\ Goes(p, [q EXCEPT !.at = "begin", !.aim = aim, !.n = r.n, !.req = r, !.i = 0,
                              !.rx = <<>>, !.late = FALSE])

\* LOCK_OK is defined, so that the lock file is looked at, or not; -F kcs selects
\* the driver, or nothing does.
Start(p) ==
    /\ prog[p].at = "out"
    /\ Concurrent \/ \A q \in Programs : prog[q].at \in {"out", "gone"}
    /\ \E looks, forced \in BOOLEAN :
           Goes(p, [prog[p] EXCEPT !.at = "ready", !.looks = looks, !.selected = forced])
    /\ UNCHANGED kcs /\ Quiet

\* A command opens the driver if none is selected (ipmi_open), or if the
\* selected one has not heard from the BMC; a selected driver sends the
\* command although the open failed.
Command(p) ==
    LET locked == prog[p].looks /\ lock
        usable == prog[p].selected /\ prog[p].known
    IN  /\ prog[p].at = "ready" /\ prog[p].left > 0
        /\ \/ /\ usable \/ (locked /\ prog[p].selected)
              /\ Send(p, "command", [prog[p] EXCEPT !.left = @ - 1])
              /\ lock' = lock
           \/ /\ ~usable /\ locked /\ ~prog[p].selected
              /\ Goes(p, [prog[p] EXCEPT !.left = @ - 1, !.rc = "no_drv"])
              /\ UNCHANGED <<lock, asked>>
           \/ /\ ~usable /\ ~locked
              /\ Send(p, "device_id", [prog[p] EXCEPT !.left = @ - 1])
              /\ lock' = lock
        /\ UNCHANGED <<kcs, ran, accepted>>

\* The call returns, its variables are gone.
Idle(p) == Goes(p, [prog[p] EXCEPT !.at = "ready", !.req = NoRequest, !.i = 0, !.rx = <<>>,
                                   !.rv = "ok", !.late = FALSE])

\* GetDeviceId tries twice; the lock is set whether or not it got an answer.
Return(p) ==
    LET ok == prog[p].rc = "ok"
    IN  /\ prog[p].at = "done"
        /\ accepted' = IF ok THEN Append(accepted, [req |-> prog[p].req, rx |-> prog[p].rx]) ELSE accepted
        /\ \/ prog[p].aim = "command" /\ Idle(p) /\ UNCHANGED <<lock, asked>>
           \/ /\ prog[p].aim \in {"device_id", "device_id_again"} /\ ok
              /\ Send(p, "command", [prog[p] EXCEPT !.known = TRUE, !.selected = TRUE])
              /\ lock' = TRUE
           \/ prog[p].aim = "device_id" /\ ~ok /\ Send(p, "device_id_again", prog[p]) /\ lock' = lock
           \/ /\ prog[p].aim = "device_id_again" /\ ~ok
              /\ IF prog[p].selected
                 THEN Send(p, "command", prog[p])
                 ELSE Idle(p) /\ UNCHANGED asked
              /\ lock' = TRUE
        /\ UNCHANGED <<kcs, ran>>

Exit(p) == prog' = [prog EXCEPT ![p] = [Fresh EXCEPT !.at = "gone"]]

\* A program closes when it ends: ipmi_close_ removes the lock file, whoever
\* made it, if the driver was selected.
Close(p) ==
    /\ prog[p].at = "ready"
    /\ lock' = (lock /\ ~prog[p].selected)
    /\ Exit(p)
    /\ UNCHANGED <<kcs, asked, ran, accepted>>

Crash(p) ==
    /\ prog[p].at \notin {"out", "gone"}
    /\ Exit(p)
    /\ UNCHANGED kcs /\ Quiet

Program(p) == Command(p) \/ Exchanges(p) \/ Return(p)

Next ==
    \/ BmcTakes
    \/ \E p \in Programs : Start(p) \/ Program(p) \/ Close(p) \/ Crash(p)

\* A program runs on while it is alive, and a BMC that is not slow answers.
Fairness ==
    /\ \A p \in Programs : WF_vars(Exchanges(p) \/ Return(p))
    /\ WF_vars(~Slow /\ BmcTakes)

Spec == Init /\ [][Next]_vars /\ Fairness

-----------------------------------------------------------------------------
(* Properties.                                                             *)

InExchange(p) == prog[p].at \notin {"out", "gone", "ready"}

TypeOK ==
    /\ \A p \in Programs :
         /\ prog[p].at \in {"out", "gone", "ready", "begin", "drain", "write", "sent", "check", "clear",
                            "reading", "not_read", "obf", "last_obf", "take", "take_last", "next", "done"}
         /\ prog[p].aim \in {"command", "device_id", "device_id_again"}
         /\ prog[p].rc \in {"ok", "send_fail", "recv_fail", "timeout", "no_drv"}
         /\ prog[p].rv \in {"ok", "late"} /\ prog[p].left \in 0..Commands
         /\ InExchange(p) => prog[p].req \in asked /\ prog[p].i \in 0..Len(Ops(prog[p].req))
    /\ kcs.state \in {"idle", "read", "write", "error"} /\ kcs.port \in {"command", "data"}
    /\ lock \in BOOLEAN /\ asked \subseteq Requests

\* An exchange that never waited in vain gets the BMC's answer, whatever state
\* the interface was left in by exchanges that failed or programs that were
\* killed: the driver never aborts a transfer, WR_START has to do. (And the
\* variables have their types.)
HealthyAnswers ==
    /\ TypeOK
    /\ \A p \in Programs :
        prog[p].at = "done" /\ prog[p].rc \in {"send_fail", "recv_fail"} => prog[p].late

\* Seen from the BMC and the callers, exchanges are those of Exchange: nothing
\* runs that was not asked for, nothing twice, and what is taken for an answer
\* is the whole answer to that request.
AsRequest(bytes) == IF \E r \in asked : bytes = Bytes(r) THEN CHOOSE r \in asked : bytes = Bytes(r) ELSE NoRequest
IsAnswer(a) == \E n \in ReplyLengths : a.rx = Reply(Bytes(a.req), n)
X == INSTANCE Exchange WITH
         ran <- [i \in DOMAIN ran |-> AsRequest(ran[i])],
         answered <- [i \in DOMAIN accepted |-> IF IsAnswer(accepted[i]) THEN accepted[i].req ELSE NoRequest]
Implements == X!Spec

\* Every command returns, though the BMC stop in the middle of it.
Returns == \A p \in Programs : InExchange(p) ~> ~InExchange(p)

=============================================================================
