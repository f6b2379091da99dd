-------------------------- MODULE IpmiLan15_proofs --------------------------
(***************************************************************************)
(* Proofs about IpmiLan15: its type invariant, that in an undisturbed      *)
(* connection a call gets its own answer and an open the BMC's session,    *)
(* and that a session's numbers are used once, whatever is lost.           *)
(***************************************************************************)
EXTENDS IpmiLan15, TLAPS

-----------------------------------------------------------------------------
(* The inductive invariant.                                                *)

\* The process was interrupted, and ends.
Struck == struck # "no"

\* An interrupt ends the process; else an exchange sends or receives.
ControlInv ==
    /\ Struck <=> op \in {"abort", "over"}
    /\ op \in {"idle", "over"} <=> io = "idle"
    /\ op \in Exchanges => conn.sockfd
    /\ op \in {"auth", "challenge"} => hdr.sess_id = 0
    /\ op \in {"activate", "setpriv", "command"} => hdr.bmc_addr
    /\ conn.sockfd /\ op = "idle" => hdr.bmc_addr
    /\ op \in {"command", "close"} \/ (op = "idle" /\ conn.sockfd) => conn.finsession

-----------------------------------------------------------------------------
(* Numbers.                                                                *)

\* Ids are those that the BMC issued.
Issued == {0, Garbage} \cup 1..bmc.issued

IdsInv ==
    /\ hdr.sess_id \in Issued
    /\ \A u \in used : u[1] \in Issued
    /\ \A p \in toConsole :
          p.cmd = "challenge" /\ p.cc = "ok" => p.sess = Garbage \/ p.sess \in 1..bmc.issued

\* A session is begun with an id that was not used yet.
BegunInv ==
    /\ op \in {"auth", "challenge"} =>
         /\ \A p \in toConsole : p.cmd = "challenge" /\ p.cc = "ok" =>
               p.sess = Garbage \/ \A u \in used : u[1] # p.sess
         /\ \A m \in toBMC : m.cmd # "activate"
         /\ \A p \in toConsole : p.cmd # "activate"
    /\ op = "activate" =>
         /\ hdr.seq_num = 0
         /\ \A m \in toBMC : m.cmd = "activate" => m.sess = hdr.sess_id
         /\ \A p \in toConsole : p.cmd = "activate" /\ p.cc = "ok" => p.sess = hdr.sess_id

\* The session's next number is above all used ones, but that of the request
\* that is not answered yet or was interrupted.
NumbersInv ==
    hdr.sess_id \notin {0, Garbage} =>
        \A u \in used : u[1] = hdr.sess_id =>
            u[2] < hdr.seq_num \/ (u[2] = hdr.seq_num /\ (io = "recv" \/ struck = "recv"))

-----------------------------------------------------------------------------
(* Undisturbed connections.                                                *)

\* Every exchange so far had its response, in order.
Synced == insync /\ disorder = 0 /\ ~ Struck

\* The BMC's acceptance of a bridged request: the target's response follows.
Acceptance(p) == p.ack = "empty" /\ p.cc = "ok"

\* The packet belongs to the request that is waited for.
Current(p) == p.n = tx /\ p.cmd = op

\* The next packet that can be read is the response, or the acceptance that the
\* driver recognises.
WireInv ==
    Synced =>
        /\ io # "recv" => toBMC = {} /\ toConsole = {}
        /\ \A m \in toBMC : /\ Current(m) /\ m.sess = hdr.sess_id
                            /\ m.wrapped /\ op = "command" => Bridged /\ bridgePossible /\ level = 1
                            /\ \A l \in toBMC : l = m
                            /\ toConsole = {}
        /\ \A p \in toConsole :
              /\ Current(p) /\ p.kind = "rsp"
              /\ Acceptance(p) => Bridged /\ bridgePossible /\ level = 1
              /\ \A q \in toConsole : q = p \/ (Acceptance(q) /\ p.ack = "no")
                                            \/ (Acceptance(p) /\ q.ack = "no")

\* The sessions that the BMC activated are those the driver goes on with.
ActiveInv ==
    Synced =>
        /\ op = "activate" =>
             \A p \in toConsole : p.cc = "ok" => p.sess \in bmc.active
        /\ op = "setpriv" => hdr.sess_id \in bmc.active
        /\ op \in {"idle", "command"} /\ conn.sockfd =>
             conn.session_id \in bmc.active /\ hdr.sess_id = conn.session_id

LanInv ==
    /\ ControlInv
    /\ IdsInv
    /\ BegunInv
    /\ NumbersInv
    /\ WireInv
    /\ ActiveInv
    /\ OwnAnswer

-----------------------------------------------------------------------------
(* Type correctness.                                                       *)

\* The types of what the end of an exchange or of a try sets.
DriverOK ==
    /\ conn \in [sockfd : BOOLEAN, session_id : Ids, finsession : BOOLEAN]
    /\ hdr \in [sess_id : Ids, seq_num : Nat, bmc_addr : BOOLEAN]
    /\ bridgePossible \in BOOLEAN
    /\ op \in Exchanges \cup {"idle", "over"}
    /\ io \in {"idle", "send", "recv"}
    /\ itry \in 0..(Tries - 1)
    /\ cut \in BOOLEAN
    /\ attempt \in Nat
    /\ insync \in BOOLEAN
    /\ answer \in Result

\* The types of the rest.
OthersOK ==
    /\ level \in 0..1
    /\ call \in [bridged : BOOLEAN, reopen : BOOLEAN]
    /\ struck \in {"no", "idle", "send", "recv"}
    /\ toBMC \subseteq Request
    /\ toConsole \subseteq Result
    /\ bmc \in [issued : 0..MaxIds, pending : SUBSET (1..MaxIds),
                active : SUBSET (1..MaxIds)]
    /\ tx \in Nat /\ calls \in 0..MaxCalls /\ disorder \in 0..MaxDisorder
    /\ used \subseteq Ids \X Nat

\* The two parts are the type invariant.
LEMMA TypeParts == TypeOK <=> DriverOK /\ OthersOK
  BY DEF TypeOK, DriverOK, OthersOK

\* The results without a response.
LEMMA ResultType == Error \in Result /\ Zeros \in Result
<1>1. 0 \in Ids
  BY LanAssumption DEF LanAssumption, Ids
<1>2. Error \in Result
  BY <1>1 DEF Error, Result, Exchanges
<1>3. Zeros \in Result
  BY <1>1 DEF Zeros, Error, Result, Exchanges
<1> QED
  BY <1>2, <1>3

\* The initial state is well typed.
LEMMA TypeInit == Init => TypeOK
<1> SUFFICES ASSUME Init PROVE DriverOK /\ OthersOK
  BY TypeParts
<1>1. 0 \in Ids /\ 0 \in 0..(Tries - 1)
  BY LanAssumption DEF LanAssumption, Ids
<1>2. DriverOK
  <2>1. /\ conn \in [sockfd : BOOLEAN, session_id : Ids, finsession : BOOLEAN]
        /\ hdr \in [sess_id : Ids, seq_num : Nat, bmc_addr : BOOLEAN]
    BY <1>1 DEF Init
  <2>2. bridgePossible \in BOOLEAN /\ cut \in BOOLEAN /\ insync \in BOOLEAN
    BY DEF Init
  <2> QED
    BY <1>1, <2>1, <2>2, ResultType DEF Init, DriverOK
<1>3. OthersOK
  BY LanAssumption DEF LanAssumption, Init, OthersOK
<1> QED
  BY <1>2, <1>3

\* The header's numbers go on, or not.
LEMMA CountedType ==
    ASSUME DriverOK, NEW r
    PROVE  /\ Counted(r) \in [sess_id : Ids, seq_num : Nat, bmc_addr : BOOLEAN]
           /\ Counted(r).sess_id = hdr.sess_id /\ Counted(r).bmc_addr = hdr.bmc_addr
           /\ Counted(r).seq_num = IF InSession THEN hdr.seq_num + 1 ELSE hdr.seq_num
           /\ InSession \in BOOLEAN
<1>1. InSession \in BOOLEAN
  BY Zenon DEF InSession
<1>2. CASE InSession
  BY <1>1, <1>2 DEF Counted, DriverOK
<1>3. CASE ~ InSession
  BY <1>1, <1>3 DEF Counted, DriverOK
<1> QED
  BY <1>1, <1>2, <1>3

\* What follows an exchange is well typed, whatever it yielded.
LEMMA DoneType ==
    ASSUME DriverOK, NEW r \in Result, Done(r)
    PROVE  DriverOK'
<1> DEFINE Conn == [sockfd : BOOLEAN, session_id : Ids, finsession : BOOLEAN]
           Hdr == [sess_id : Ids, seq_num : Nat, bmc_addr : BOOLEAN]
<1>1. insync' \in BOOLEAN
  BY Zenon DEF Done
<1>2. bridgePossible' \in BOOLEAN
  BY Zenon DEF Done
<1>3. Counted(r) \in Hdr /\ InSession \in BOOLEAN
  BY CountedType
<1>4. 0 \in 0..(Tries - 1) /\ 0 \in Ids /\ Garbage \in Ids
  BY LanAssumption DEF LanAssumption, Ids
<1>5. ASSUME NEW x \in Exchanges, Enter(x), conn' \in Conn, hdr' \in Hdr,
             attempt' \in Nat, UNCHANGED answer
      PROVE  DriverOK'
  <2>1. op' \in Exchanges /\ io' = "send" /\ itry' = 0 /\ cut' \in BOOLEAN
    BY <1>5 DEF Enter
  <2> QED
    BY <1>1, <1>2, <1>4, <1>5, <2>1 DEF DriverOK
<1>6. ASSUME NEW res \in Result, Return(res), conn' \in Conn, hdr' \in Hdr, attempt' \in Nat
      PROVE  DriverOK'
  <2>1. op' = "idle" /\ io' = "idle" /\ itry' = 0 /\ cut' \in BOOLEAN /\ answer' = res
    BY <1>6 DEF Return
  <2> QED
    BY <1>1, <1>2, <1>4, <1>6, <2>1 DEF DriverOK
<1>7. ASSUME NEW id \in Ids, OpenFails(r, id)
      PROVE  DriverOK'
  <2>1. conn' \in Conn /\ hdr' \in Hdr /\ attempt' \in Nat /\ Return(Error)
    BY <1>3, <1>7 DEF OpenFails
  <2> QED
    BY <1>6, <2>1, ResultType
<1>8. ASSUME NEW x \in Exchanges, NEW h \in Hdr, NEW k \in Nat, GoOn(x, h, k)
      PROVE  DriverOK'
  <2>1. conn' \in Conn
    BY <1>3, <1>8 DEF GoOn, DriverOK
  <2> QED
    BY <1>5, <1>8, <2>1 DEF GoOn
<1>9. \A x : SessionOf(r, x) \in Ids
  BY <1>4 DEF SessionOf, Result
<1>10. conn.session_id \in Ids /\ hdr.sess_id \in Ids /\ attempt \in Nat
  BY DEF DriverOK
<1>11. CASE AfterAuth(r)
  BY <1>3, <1>7, <1>8, <1>10, <1>11 DEF AfterAuth, Exchanges, InOpen
<1>12. CASE AfterChallenge(r)
  <2>1. Challenged(r) \in Hdr
    BY <1>9 DEF Challenged
  <2> QED
    BY <1>3, <1>7, <1>8, <1>10, <1>12, <2>1 DEF AfterChallenge, Exchanges, InOpen
<1>13. CASE AfterActivate(r)
  <2>1. [hdr EXCEPT !.sess_id = SessionOf(r, "activate"), !.seq_num = 1] \in Hdr
    BY <1>9 DEF DriverOK
  <2> QED
    BY <1>7, <1>8, <1>10, <1>13, <2>1 DEF AfterActivate, Exchanges, InOpen
<1>14. CASE AfterSetPriv(r)
  <2>1. CASE OpenFails(r, hdr.sess_id)
    BY <1>7, <1>10, <2>1
  <2>2. ASSUME conn' = [conn EXCEPT !.session_id = hdr.sess_id, !.finsession = TRUE],
               hdr' = Counted(r), attempt' = attempt
        PROVE  conn' \in Conn /\ hdr' \in Hdr /\ attempt' \in Nat
    BY <1>3, <1>10, <2>2 DEF DriverOK
  <2>3. ASSUME conn' = [conn EXCEPT !.session_id = hdr.sess_id, !.finsession = TRUE],
               hdr' = Counted(r), attempt' = attempt,
               (Enter("command") /\ UNCHANGED answer) \/ Return(r)
        PROVE  DriverOK'
    <3>1. CASE Enter("command") /\ UNCHANGED answer
      BY <1>5, <2>2, <2>3, <3>1 DEF Exchanges
    <3>2. CASE Return(r)
      BY <1>6, <2>2, <2>3, <3>2
    <3> QED
      BY <2>3, <3>1, <3>2
  <2> QED
    BY <1>14, <2>1, <2>3 DEF AfterSetPriv
<1>15. CASE AfterCommand(r)
  <2>1. conn' \in Conn /\ hdr' \in Hdr /\ attempt' \in Nat
    BY <1>3, <1>10, <1>15 DEF AfterCommand, DriverOK
  <2> QED
    BY <1>6, <1>15, <2>1 DEF AfterCommand
<1>16. CASE AfterClose(r)
  <2>1. conn' \in Conn /\ hdr' \in Hdr /\ attempt' \in Nat
    BY <1>4, <1>16 DEF AfterClose, DriverOK
  <2>2. CASE Return(r)
    BY <1>6, <2>1, <2>2
  <2>3. CASE op' = "over" /\ io' = "idle" /\ UNCHANGED <<itry, cut, answer>>
    BY <1>1, <1>2, <2>1, <2>3 DEF DriverOK
  <2> QED
    BY <1>16, <2>2, <2>3 DEF AfterClose
<1> QED
  BY <1>11, <1>12, <1>13, <1>14, <1>15, <1>16 DEF Done

\* A try that ends with nothing received.
LEMMA AgainType ==
    ASSUME DriverOK, NEW r \in Result, NEW short \in BOOLEAN, Again(r, short),
           io # "idle"
    PROVE  DriverOK'
<1>1. CASE itry + 1 < Tries /\ NextTry(io, short)
  <2>1. conn' \in [sockfd : BOOLEAN, session_id : Ids, finsession : BOOLEAN]
    BY <1>1, CountedType DEF NextTry, DriverOK
  <2>2. itry' \in 0..(Tries - 1) /\ io' = io /\ cut' = short
    BY <1>1, LanAssumption DEF LanAssumption, NextTry, DriverOK
  <2>3. UNCHANGED <<hdr, bridgePossible, op, attempt, insync, answer>>
    BY <1>1 DEF NextTry
  <2> QED
    BY <2>1, <2>2, <2>3 DEF DriverOK
<1> QED
  BY <1>1, DoneType DEF Again

\* Making a call changes the call, the history and no packet.
LEMMA CallType ==
    ASSUME OthersOK, NEW bridged \in BOOLEAN, NEW reopen \in BOOLEAN,
           Call(bridged, reopen), toBMC' \subseteq Request, toConsole' \subseteq Result
    PROVE  OthersOK' /\ answer' = Error
<1>1. calls' \in 0..MaxCalls /\ answer' = Error
  BY LanAssumption DEF LanAssumption, Call, OthersOK
<1>2. call' \in [bridged : BOOLEAN, reopen : BOOLEAN]
  BY DEF Call
<1>3. UNCHANGED <<level, struck, bmc, tx, disorder, used>>
  BY DEF Call
<1> QED
  BY <1>1, <1>2, <1>3 DEF OthersOK

\* Reading a packet.
LEMMA ReadType ==
    ASSUME OthersOK, NEW p \in toConsole, Read(p), level' \in 0..1
    PROVE  OthersOK'
<1>1. toConsole' \subseteq Result /\ disorder' \in 0..MaxDisorder
  BY LanAssumption DEF LanAssumption, Read, OthersOK
<1>2. UNCHANGED <<toBMC, tx, used, call, struck, bmc, calls>>
  BY DEF Read
<1> QED
  BY <1>1, <1>2 DEF OthersOK

\* The BMC's answers.
LEMMA ServeType ==
    ASSUME DriverOK, OthersOK, NEW m \in toBMC, Serve(m)
    PROVE  DriverOK' /\ OthersOK'
<1>1. m \in Request
  BY DEF OthersOK
<1>2. 0 \in Ids /\ \A i \in 0..MaxIds : i \in Ids
  BY LanAssumption DEF LanAssumption, Ids
<1>3. ASSUME NEW ack \in {"no", "empty", "data"}, NEW cc \in {"ok", "busy", "error"}, NEW id \in Ids
      PROVE  Rsp(m, ack, cc, id) \in Result
  BY <1>1 DEF Rsp, Result, Request
<1>4. ASSUME NEW packets, Respond(packets), packets \subseteq Result
      PROVE  toConsole' \subseteq Result
  BY <1>4 DEF Respond, OthersOK
<1>5. m.sess \in Ids
  BY <1>1 DEF Request
<1>6. toConsole' \subseteq Result /\ bmc' \in [issued : 0..MaxIds, pending : SUBSET (1..MaxIds),
                                             active : SUBSET (1..MaxIds)]
  <2>1. CASE /\ UNCHANGED bmc
             /\ \/ Respond({Rsp(m, "no", "ok", 0)})
                \/ Respond({Rsp(m, "empty", "error", 0)})
                \/ Respond({Rsp(m, "no", "error", 0)})
                \/ \E cc \in {"busy", "error"} : Respond({Rsp(m, "no", cc, 0)})
    <3>1. /\ Rsp(m, "no", "ok", 0) \in Result /\ Rsp(m, "empty", "error", 0) \in Result
          /\ Rsp(m, "no", "busy", 0) \in Result /\ Rsp(m, "no", "error", 0) \in Result
      BY <1>2, <1>3
    <3> QED
      BY <1>4, <2>1, <3>1 DEF OthersOK
  <2>2. CASE /\ bmc.issued < MaxIds
             /\ Respond({Rsp(m, "no", "ok", bmc.issued + 1)})
             /\ bmc' = [bmc EXCEPT !.issued = @ + 1, !.pending = @ \cup {bmc.issued + 1}]
    <3>1. bmc.issued + 1 \in 1..MaxIds
      BY <2>2, LanAssumption DEF LanAssumption, OthersOK
    <3>2. Rsp(m, "no", "ok", bmc.issued + 1) \in Result
      BY <1>2, <1>3, <3>1, LanAssumption DEF LanAssumption
    <3>3. toConsole' \subseteq Result
      BY <1>4, <2>2, <3>2
    <3>4. bmc.issued + 1 \in 0..MaxIds /\ bmc.pending \cup {bmc.issued + 1} \in SUBSET (1..MaxIds)
      BY <3>1 DEF OthersOK
    <3>5. bmc' \in [issued : 0..MaxIds, pending : SUBSET (1..MaxIds), active : SUBSET (1..MaxIds)]
      BY <2>2, <3>4 DEF OthersOK
    <3> QED
      BY <3>3, <3>5
  <2>3. CASE /\ m.sess \in bmc.pending
             /\ Respond({Rsp(m, "no", "ok", m.sess)})
             /\ bmc' = [bmc EXCEPT !.pending = @ \ {m.sess}, !.active = @ \cup {m.sess}]
    <3>1. Rsp(m, "no", "ok", m.sess) \in Result
      BY <1>3, <1>5
    <3> QED
      BY <1>4, <2>3, <3>1 DEF OthersOK
  <2>4. CASE ServeInside(m)
    <3>1. Rsp(m, "no", "ok", 0) \in Result /\ Rsp(m, "empty", "error", 0) \in Result
          /\ Rsp(m, "empty", "ok", 0) \in Result /\ Rsp(m, "data", "ok", 0) \in Result
          /\ Rsp(m, "no", "error", 0) \in Result
      BY <1>2, <1>3
    <3>2. bmc' \in [issued : 0..MaxIds, pending : SUBSET (1..MaxIds), active : SUBSET (1..MaxIds)]
      BY <2>4 DEF ServeInside, OthersOK
    <3>3. PICK packets : Respond(packets) /\ packets \subseteq Result
      BY <2>4, <3>1 DEF ServeInside
    <3> QED
      BY <1>4, <3>2, <3>3
  <2> QED
    BY <2>1, <2>2, <2>3, <2>4 DEF Serve, ServeOutside
<1>7. toBMC' \subseteq Request
  BY DEF Serve, OthersOK
<1>8. UNCHANGED <<console, exchange, disorder, history>>
  BY DEF Serve
<1> QED
  BY <1>6, <1>7, <1>8 DEF DriverOK, OthersOK, console, exchange, history

\* Every step keeps the types: one step of the proof per action of Next.
LEMMA TypeStep ==
    ASSUME TypeOK, ControlInv, [Next]_vars
    PROVE  TypeOK'
<1> SUFFICES DriverOK' /\ OthersOK'
  BY DEF TypeOK, DriverOK, OthersOK
<1>0. DriverOK /\ OthersOK
  BY TypeParts
<1> USE <1>0
<1>1. ASSUME NEW bridged \in BOOLEAN, NEW reopen \in BOOLEAN, Open(bridged, reopen)
      PROVE  DriverOK' /\ OthersOK'
  <2>1. OthersOK' /\ answer' = Error
    BY <1>1, CallType DEF Open
  <2>2. /\ conn' \in [sockfd : BOOLEAN, session_id : Ids, finsession : BOOLEAN]
        /\ hdr' \in [sess_id : Ids, seq_num : Nat, bmc_addr : BOOLEAN]
    <3>1. 0 \in Ids
      BY LanAssumption DEF LanAssumption, Ids
    <3> QED
      BY <1>1, <3>1 DEF Open, DriverOK
  <2>3. /\ op' \in Exchanges /\ io' = "send" /\ itry' \in 0..(Tries - 1)
        /\ attempt' \in Nat /\ bridgePossible' = bridgePossible
    BY <1>1, LanAssumption DEF LanAssumption, Open, Enter, Exchanges, InOpen
  <2>4. cut' \in BOOLEAN /\ insync' \in BOOLEAN
    BY <1>1 DEF Open, Enter
  <2> QED
    BY <2>1, <2>2, <2>3, <2>4, ResultType DEF DriverOK
<1>2. ASSUME NEW x \in {"command", "close"}, Call(FALSE, FALSE) \/ Call(TRUE, FALSE),
             Enter(x), bridgePossible' \in BOOLEAN,
             UNCHANGED <<conn, hdr, attempt, toBMC, toConsole, insync>>
      PROVE  DriverOK' /\ OthersOK'
  <2>1. toBMC' \subseteq Request /\ toConsole' \subseteq Result
    BY <1>2 DEF OthersOK
  <2>2. OthersOK' /\ answer' = Error
    BY <1>2, <2>1, CallType
  <2>3. /\ op' \in Exchanges /\ io' = "send" /\ itry' \in 0..(Tries - 1)
    BY <1>2, LanAssumption DEF LanAssumption, Enter, Exchanges
  <2>4. cut' \in BOOLEAN
    BY <1>2 DEF Enter
  <2> QED
    BY <1>2, <2>2, <2>3, <2>4, ResultType DEF DriverOK
<1>3. ASSUME NEW bridged \in BOOLEAN, Command(bridged)
      PROVE  DriverOK' /\ OthersOK'
  <2>1. CASE Open(bridged, TRUE)
    BY <1>1, <2>1
  <2>2. CASE /\ Call(bridged, FALSE) /\ Enter("command")
             /\ UNCHANGED <<console, attempt, toBMC, toConsole, insync>>
    <3>1. UNCHANGED <<conn, hdr, bridgePossible, attempt, toBMC, toConsole, insync>>
      BY <2>2 DEF console
    <3>2. Call(FALSE, FALSE) \/ Call(TRUE, FALSE)
      <4>1. CASE bridged
        <5>1. bridged = TRUE
          BY <4>1
        <5> QED
          BY <2>2, <5>1
      <4>2. CASE ~ bridged
        <5>1. bridged = FALSE
          BY <4>2
        <5> QED
          BY <2>2, <5>1
      <4> QED
        BY <4>1, <4>2
    <3>3. bridgePossible' \in BOOLEAN
      BY <3>1 DEF DriverOK
    <3> QED
      BY <1>2, <2>2, <3>1, <3>2, <3>3
  <2> QED
    BY <1>3, <2>1, <2>2 DEF Command
<1>4. CASE Close
  <2>1. bridgePossible' \in BOOLEAN
    BY <1>4 DEF Close
  <2> QED
    BY <1>2, <1>4, <2>1 DEF Close
<1>5. CASE Flush
  <2>1. toBMC' \subseteq Request /\ toConsole' \subseteq Result
    BY <1>5 DEF Flush, OthersOK
  <2>2. OthersOK' /\ answer' = Error
    BY <1>5, <2>1, CallType DEF Flush
  <2>3. conn' \in [sockfd : BOOLEAN, session_id : Ids, finsession : BOOLEAN]
    <3>1. CASE conn' = [sockfd |-> FALSE, session_id |-> 0, finsession |-> FALSE]
      BY <3>1, LanAssumption DEF LanAssumption, Ids
    <3>2. CASE conn' = [conn EXCEPT !.finsession = FALSE]
      BY <3>2 DEF DriverOK
    <3> QED
      BY <1>5, <3>1, <3>2 DEF Flush
  <2>4. UNCHANGED <<hdr, bridgePossible, op, io, itry, cut, attempt, insync>>
    BY <1>5 DEF Flush
  <2> QED
    BY <2>2, <2>3, <2>4, ResultType DEF DriverOK
<1>6. CASE Interrupt
  <2>1. /\ struck' \in {"no", "idle", "send", "recv"}
        /\ call' \in [bridged : BOOLEAN, reopen : BOOLEAN] /\ attempt' \in Nat
    BY <1>6 DEF Interrupt, DriverOK
  <2>2. UNCHANGED <<conn, hdr, level, network, bmc, history>>
    BY <1>6 DEF Interrupt
  <2>3. op' \in Exchanges \cup {"over"} /\ io' \in {"idle", "send"} /\ itry' \in 0..(Tries - 1)
    BY <1>6, LanAssumption DEF LanAssumption, Interrupt, Enter, Exchanges, DriverOK
  <2>4. cut' \in BOOLEAN /\ bridgePossible' \in BOOLEAN
    <3>1. CASE Enter("abort") /\ bridgePossible' = FALSE
      BY <3>1 DEF Enter
    <3>2. CASE UNCHANGED <<itry, cut, bridgePossible>>
      BY <3>2 DEF DriverOK
    <3> QED
      BY <1>6, <3>1, <3>2 DEF Interrupt
  <2> QED
    BY <2>1, <2>2, <2>3, <2>4 DEF DriverOK, OthersOK, network, history
<1>7. CASE Transmit
  <2>1. [n |-> tx + 1, cmd |-> op, sess |-> hdr.sess_id, seq |-> hdr.seq_num,
         wrapped |-> Wrapped] \in Request
    <3>1. Wrapped \in BOOLEAN
      BY Zenon DEF Wrapped
    <3>2. op \in Exchanges
      BY <1>7 DEF Transmit, ControlInv, DriverOK
    <3> QED
      BY <3>1, <3>2 DEF Request, DriverOK, OthersOK
  <2>2. toBMC' \subseteq Request /\ toConsole' \subseteq Result
    BY <1>7, <2>1 DEF Transmit, Alive, OthersOK
  <2>3. conn' \in [sockfd : BOOLEAN, session_id : Ids, finsession : BOOLEAN]
    BY <1>7, CountedType DEF Transmit, DriverOK
  <2>4. used' \subseteq Ids \X Nat
    BY <1>7 DEF Transmit, DriverOK, OthersOK
  <2>5. level' \in 0..1
    BY <1>7 DEF Transmit
  <2>6. io' = "recv" /\ tx' \in Nat
    BY <1>7 DEF Transmit, OthersOK
  <2>7. UNCHANGED <<hdr, bridgePossible, op, itry, cut, attempt, disorder,
                    insync, answer, call, struck, bmc, calls>>
    BY <1>7 DEF Transmit
  <2> QED
    BY <2>2, <2>3, <2>4, <2>5, <2>6, <2>7 DEF DriverOK, OthersOK
<1>8. CASE SendFails
  <2>1. DriverOK'
    BY <1>8, AgainType, ResultType DEF SendFails, DriverOK
  <2>2. level' \in 0..1
    BY <1>8 DEF SendFails
  <2>3. UNCHANGED <<network, tx, used, call, struck, bmc, calls>>
    BY <1>8 DEF SendFails
  <2> QED
    BY <2>1, <2>2, <2>3 DEF OthersOK, network
<1>9. CASE Timeout
  <2>1. PICK refused \in BOOLEAN : Again(Error, cut \/ refused)
    BY <1>9 DEF Timeout
  <2>2. (cut \/ refused) \in BOOLEAN
    BY Zenon
  <2>3. DriverOK'
    BY <1>9, <2>1, <2>2, AgainType, ResultType DEF Timeout
  <2>4. UNCHANGED <<network, level, tx, used, call, struck, bmc, calls>>
    BY <1>9 DEF Timeout
  <2> QED
    BY <2>3, <2>4 DEF OthersOK, network
<1>10. CASE ReceiveFails
  <2>1. DriverOK'
    BY <1>10, DoneType, ResultType DEF ReceiveFails
  <2>2. UNCHANGED <<network, level, tx, used, call, struck, bmc, calls>>
    BY <1>10 DEF ReceiveFails
  <2> QED
    BY <2>1, <2>2 DEF OthersOK, network
<1>11. ASSUME NEW p \in toConsole, AwaitBridged(p) \/ LeaveBridged(p) \/ Take(p)
       PROVE  DriverOK' /\ OthersOK'
  <2>1. Read(p) /\ io = "recv"
    BY <1>11 DEF AwaitBridged, LeaveBridged, Take, Read
  <2>2. level' \in 0..1
    <3>1. BridgeRsp(p) => level - 1 \in 0..1
      BY DEF BridgeRsp, OthersOK
    <3> QED
      BY <1>11, <3>1 DEF AwaitBridged, LeaveBridged, Take, OthersOK
  <2>3. Copied(Zeros) \in Result /\ Copied(p) \in Result /\ cut \in BOOLEAN
    BY ResultType DEF Copied, OthersOK, DriverOK
  <2>4. DriverOK'
    BY <1>11, <2>1, <2>3, AgainType, DoneType DEF AwaitBridged, LeaveBridged, Take
  <2> QED
    BY <2>1, <2>2, <2>4, ReadType
<1>12. CASE UNCHANGED vars
  BY <1>12 DEF vars, console, exchange, network, history, DriverOK, OthersOK
<1> QED
  BY <1>1, <1>3, <1>4, <1>5, <1>6, <1>7, <1>8, <1>9, <1>10, <1>11, <1>12, ServeType
  DEF Next, Engine

-----------------------------------------------------------------------------
(* What follows an exchange, by what it does.                              *)

\* The initial state is undisturbed and closed.
LEMMA InvInit == Init => LanInv
<1> SUFFICES ASSUME Init PROVE LanInv
  OBVIOUS
<1>1. /\ op = "idle" /\ io = "idle" /\ struck = "no" /\ ~ conn.sockfd
      /\ toBMC = {} /\ toConsole = {} /\ used = {} /\ hdr.sess_id = 0
      /\ answer.kind = "error"
  BY DEF Init, Error
<1>2. ControlInv /\ OwnAnswer
  BY <1>1 DEF ControlInv, OwnAnswer, Struck, Exchanges, InOpen
<1>3. IdsInv /\ BegunInv /\ NumbersInv
  BY <1>1 DEF IdsInv, BegunInv, NumbersInv, Issued
<1>4. WireInv /\ ActiveInv
  BY <1>1 DEF WireInv, ActiveInv
<1> QED
  BY <1>2, <1>3, <1>4 DEF LanInv

\* The open repeats an exchange or goes on to the challenge.
Early ==
    /\ op \in {"auth", "challenge"} /\ op' \in {"auth", "challenge"} /\ io' = "send"
    /\ conn'.sockfd = conn.sockfd
    /\ hdr'.sess_id = hdr.sess_id

\* It goes on to the activation of the session it was given.
ToActivate(r) ==
    /\ op = "challenge" /\ op' = "activate" /\ io' = "send" /\ r.cc = "ok"
    /\ conn'.sockfd = conn.sockfd
    /\ hdr'.sess_id = SessionOf(r, "challenge") /\ hdr'.seq_num = 0 /\ hdr'.bmc_addr

\* It goes on to the privilege.
ToSetPriv(r) ==
    /\ op = "activate" /\ op' = "setpriv" /\ io' = "send" /\ r.cc = "ok"
    /\ conn'.sockfd = conn.sockfd
    /\ hdr'.sess_id = SessionOf(r, "activate") /\ hdr'.seq_num = 1
    /\ hdr'.bmc_addr = hdr.bmc_addr

\* It succeeds, and returns or sends the command that caused it.
Opened(r) ==
    /\ op = "setpriv" /\ r.cc = "ok"
    /\ \/ op' = "command" /\ io' = "send"
       \/ op' = "idle" /\ io' = "idle" /\ answer' = r
    /\ conn'.sockfd = conn.sockfd /\ conn'.session_id = hdr.sess_id /\ conn'.finsession
    /\ hdr'.sess_id = hdr.sess_id /\ hdr'.seq_num = hdr.seq_num + 1
    /\ hdr'.bmc_addr = hdr.bmc_addr

\* The command returns.
Returned(r) ==
    /\ op = "command" /\ op' = "idle" /\ io' = "idle" /\ answer' = r
    /\ conn'.sockfd = conn.sockfd /\ conn'.session_id = conn.session_id
    /\ conn.finsession => conn'.finsession /\ hdr'.seq_num = hdr.seq_num + 1
    /\ hdr'.sess_id = hdr.sess_id /\ hdr'.bmc_addr = hdr.bmc_addr

\* The open fails.
Failed ==
    /\ op \in InOpen /\ op' = "idle" /\ io' = "idle" /\ answer' = Error
    /\ ~ conn'.sockfd
    /\ hdr'.sess_id = hdr.sess_id
    /\ op \in {"activate", "setpriv"} => hdr'.seq_num = hdr.seq_num + 1

\* The session is closed; the interrupted process ends with that.
Closed(r) ==
    /\ \/ op = "close" /\ op' = "idle" /\ answer' = r
       \/ op = "abort" /\ op' = "over"
    /\ io' = "idle"
    /\ ~ conn'.sockfd
    /\ hdr'.sess_id = 0

\* These are all the ways an exchange may go on.
LEMMA DoneEffect ==
    ASSUME DriverOK, NEW r \in Result, Done(r)
    PROVE  \/ Early \/ ToActivate(r) \/ ToSetPriv(r) \/ Opened(r) \/ Returned(r)
           \/ Failed \/ Closed(r)
<1>1. /\ Counted(r).sess_id = hdr.sess_id /\ Counted(r).bmc_addr = hdr.bmc_addr
      /\ Counted(r).seq_num = IF InSession THEN hdr.seq_num + 1 ELSE hdr.seq_num
  BY CountedType
<1>2. ASSUME op \in InOpen, NEW id, OpenFails(r, id)
      PROVE  Failed
  BY <1>1, <1>2 DEF OpenFails, Return, InSession, Failed
<1>3. ASSUME op \in {"auth", "challenge"}, NEW x \in {"auth", "challenge"}, NEW k,
             GoOn(x, Counted(r), k)
      PROVE  Early
  BY <1>1, <1>3 DEF GoOn, Enter, DriverOK, Early
<1>4. CASE op = "auth" /\ AfterAuth(r)
  BY <1>2, <1>3, <1>4 DEF AfterAuth, InOpen
<1>5. CASE op = "challenge" /\ AfterChallenge(r)
  <2>1. CASE r.cc = "ok" /\ GoOn("activate", Challenged(r), 0)
    BY <1>5, <2>1 DEF GoOn, Enter, Challenged, DriverOK, ToActivate
  <2> QED
    BY <1>2, <1>3, <1>5, <2>1 DEF AfterChallenge, InOpen
<1>6. CASE op = "activate" /\ AfterActivate(r)
  <2>1. CASE r.cc = "ok" /\ GoOn("setpriv", [hdr EXCEPT !.sess_id = SessionOf(r, "activate"),
                                                       !.seq_num = 1], 0)
    BY <1>6, <2>1 DEF GoOn, Enter, DriverOK, ToSetPriv
  <2> QED
    BY <1>2, <1>6, <2>1 DEF AfterActivate, InOpen
<1>7. CASE op = "setpriv" /\ AfterSetPriv(r)
  <2>1. CASE OpenFails(r, hdr.sess_id)
    BY <1>2, <1>7, <2>1 DEF InOpen
  <2>2. CASE ~ OpenFails(r, hdr.sess_id)
    <3>1. hdr'.seq_num = hdr.seq_num + 1
      BY <1>1, <1>7, <2>2 DEF AfterSetPriv, InSession
    <3>2. conn'.sockfd = conn.sockfd /\ conn'.session_id = hdr.sess_id /\ conn'.finsession
      BY <1>7, <2>2 DEF AfterSetPriv, DriverOK
    <3> QED
      BY <1>1, <1>7, <2>2, <3>1, <3>2 DEF AfterSetPriv, Enter, Return, Opened
  <2> QED
    BY <2>1, <2>2
<1>8. CASE op = "command" /\ AfterCommand(r)
  <2>1. conn'.sockfd = conn.sockfd /\ conn'.session_id = conn.session_id
    BY <1>8 DEF AfterCommand, DriverOK
  <2>2. ASSUME conn.finsession
        PROVE  conn'.finsession /\ hdr'.seq_num = hdr.seq_num + 1
    <3>1. InSession
      BY <2>2 DEF InSession
    <3> QED
      BY <1>1, <1>8, <3>1 DEF AfterCommand, DriverOK
  <2> QED
    BY <1>1, <1>8, <2>1, <2>2 DEF AfterCommand, Return, Returned
<1>9. CASE op \in {"close", "abort"} /\ AfterClose(r)
  BY <1>9 DEF AfterClose, Return, DriverOK, Closed
<1> QED
  BY <1>4, <1>5, <1>6, <1>7, <1>8, <1>9 DEF Done

\* While the driver goes on, the BMC and the requests on their way stay; packets
\* may be read.
Onward ==
    /\ UNCHANGED <<toBMC, bmc, tx, used, call, struck>>
    /\ toConsole' \subseteq toConsole
    /\ disorder' = 0 => disorder = 0

\* What an exchange can yield: if packets keep their order, a response that is
\* taken is the last packet of its exchange.
Outcome(r) ==
    \/ r = Error
    \/ r = Zeros /\ op = "command"
    \/ /\ r \in toConsole
       /\ Synced /\ disorder' = 0 => toBMC = {} /\ toConsole' = {} /\ ~ Acceptance(r)

\* An undisturbed exchange that leaves the connection undisturbed had a response.
LEMMA InSyncResponse ==
    ASSUME Onward, NEW r, Done(r), Outcome(r), Synced'
    PROVE  /\ Synced /\ r \in toConsole /\ toBMC = {} /\ toConsole' = {}
           /\ ~ Acceptance(r)
<1>1. insync /\ r.kind = "rsp" /\ disorder = 0 /\ disorder' = 0 /\ ~ Struck
  <2>1. insync' => insync /\ r.kind = "rsp"
    BY Zenon DEF Done
  <2> QED
    BY <2>1 DEF Synced, Onward, Struck
<1>2. r # Error /\ r # Zeros
  <2>1. Error.kind = "error"
    BY DEF Error
  <2>2. Zeros.kind = "zeros"
    BY DEF Zeros, Error
  <2> QED
    BY <1>1, <2>1, <2>2
<1> QED
  BY <1>1, <1>2 DEF Outcome, Synced

\* The id that a response names, as a response to x.
LEMMA SessionNamed ==
    ASSUME NEW r, NEW x, Outcome(r), op # "command", r.cc = "ok"
    PROVE  SessionOf(r, x) = Garbage \/ (r \in toConsole /\ r.cmd = x /\ SessionOf(r, x) = r.sess)
<1>1. r \in toConsole
  BY DEF Outcome, Error
<1> QED
  BY <1>1 DEF SessionOf

\* Whatever an exchange yields, the driver goes on within the invariant.
LEMMA DoneKeeps ==
    ASSUME DriverOK, OthersOK, LanInv, Onward, NEW r \in Result, Done(r), Outcome(r)
    PROVE  LanInv'
<1>1. \/ Early \/ ToActivate(r) \/ ToSetPriv(r) \/ Opened(r) \/ Returned(r)
      \/ Failed \/ Closed(r)
  BY DoneEffect
<1>2. ControlInv'
  BY <1>1 DEF LanInv, ControlInv, Struck, Onward, Exchanges, InOpen, Early, ToActivate,
     ToSetPriv, Opened, Returned, Failed, Closed
<1>3. ASSUME ToActivate(r)
      PROVE  /\ hdr'.sess_id \in Issued
             /\ hdr'.sess_id = Garbage \/ \A u \in used : u[1] # hdr'.sess_id
  BY <1>3, SessionNamed DEF ToActivate, LanInv, IdsInv, BegunInv, Issued
<1>4. ASSUME ToSetPriv(r)
      PROVE  hdr'.sess_id = Garbage \/ hdr'.sess_id = hdr.sess_id
  BY <1>4, SessionNamed DEF ToSetPriv, LanInv, BegunInv
<1>5. IdsInv'
  <2>1. hdr'.sess_id \in Issued
    BY <1>1, <1>3, <1>4 DEF Early, ToActivate, ToSetPriv, Opened, Returned, Failed, Closed,
       LanInv, IdsInv, Issued
  <2> QED
    BY <2>1 DEF LanInv, IdsInv, Issued, Onward
<1>6. BegunInv'
  <2>1. CASE op' \in {"auth", "challenge"}
    <3>1. op \in {"auth", "challenge"}
      BY <1>1, <2>1 DEF Early, ToActivate, ToSetPriv, Opened, Returned, Failed, Closed
    <3> QED
      BY <2>1, <3>1 DEF LanInv, BegunInv, Onward
  <2>2. CASE op' = "activate"
    <3>1. ToActivate(r)
      BY <1>1, <2>2 DEF Early, ToActivate, ToSetPriv, Opened, Returned, Failed, Closed
    <3> QED
      BY <2>2, <3>1 DEF LanInv, BegunInv, Onward, ToActivate
  <2> QED
    BY <2>1, <2>2 DEF BegunInv
<1>7. NumbersInv'
  <2>1. SUFFICES ASSUME hdr'.sess_id \notin {0, Garbage}, NEW u \in used, u[1] = hdr'.sess_id
                 PROVE  u[2] < hdr'.seq_num \/ (u[2] = hdr'.seq_num /\ struck' = "recv")
    BY DEF NumbersInv, Onward
  <2>2. u[2] \in Nat /\ hdr.seq_num \in Nat
    BY DEF DriverOK, OthersOK
  <2>3. ~ ToActivate(r) /\ ~ Closed(r)
    BY <1>3, <2>1 DEF Closed
  <2>4. hdr'.sess_id = hdr.sess_id
    BY <1>1, <1>4, <2>1, <2>3 DEF Early, ToSetPriv, Opened, Returned, Failed
  <2>5. u[2] < hdr.seq_num \/ u[2] = hdr.seq_num
    BY <2>1, <2>4 DEF LanInv, NumbersInv
  <2>6. op \notin {"auth", "challenge"}
    BY <2>1, <2>4 DEF LanInv, ControlInv
  <2>7. hdr'.seq_num = hdr.seq_num + 1
    BY <1>1, <2>3, <2>6 DEF Early, ToSetPriv, Opened, Returned, Failed, LanInv, ControlInv,
       BegunInv, InOpen
  <2> QED
    BY <2>2, <2>5, <2>7
<1>8. WireInv'
  <2>1. io' # "recv"
    BY <1>1 DEF Early, ToActivate, ToSetPriv, Opened, Returned, Failed, Closed
  <2> QED
    BY <2>1, InSyncResponse DEF WireInv, Onward
<1>9. ActiveInv'
  <2>1. SUFFICES ASSUME Synced'
                 PROVE  ActiveInv'
    BY DEF ActiveInv
  <2>2. /\ Synced /\ r \in toConsole /\ toConsole' = {} /\ bmc' = bmc
    BY <2>1, InSyncResponse DEF Onward
  <2>3. CASE ToSetPriv(r)
    <3>1. r.cmd = "activate" /\ hdr'.sess_id = r.sess /\ r.sess \in bmc.active
      BY <2>2, <2>3 DEF ToSetPriv, SessionOf, LanInv, WireInv, ActiveInv, Current
    <3> QED
      BY <2>2, <2>3, <3>1 DEF ActiveInv, ToSetPriv
  <2>4. CASE Opened(r)
    BY <2>2, <2>4 DEF LanInv, ActiveInv, Opened
  <2>5. CASE Returned(r)
    <3>1. conn.sockfd
      BY <2>5 DEF LanInv, ControlInv, Returned, Exchanges
    <3> QED
      BY <2>2, <2>5, <3>1 DEF LanInv, ActiveInv, Returned
  <2> QED
    BY <1>1, <2>2, <2>3, <2>4, <2>5 DEF ActiveInv, Early, ToActivate, Failed, Closed
<1>10. OwnAnswer'
  <2>1. SUFFICES ASSUME op' = "idle", insync', disorder' = 0, answer'.kind = "rsp"
                 PROVE  answer'.n = tx /\ ~ (answer'.ack = "empty" /\ answer'.cc = "ok")
    BY DEF OwnAnswer, Onward
  <2>2. answer' = r
    BY <1>1, <2>1 DEF Early, ToActivate, ToSetPriv, Opened, Returned, Failed, Closed, Error
  <2>3. Synced'
    BY <1>2, <2>1 DEF ControlInv, Synced
  <2> QED
    BY <2>2, <2>3, InSyncResponse DEF LanInv, WireInv, Current, Acceptance
<1> QED
  BY <1>2, <1>5, <1>6, <1>7, <1>8, <1>9, <1>10 DEF LanInv

\* The next try differs in nothing that matters, but that the acceptance of a
\* bridged request may have been read.
LEMMA NextTryKeeps ==
    ASSUME DriverOK, OthersOK, LanInv, Onward, NEW short, NextTry(io, short), io # "idle",
           \/ toConsole' = toConsole /\ level' = level
           \/ \E p \in toConsole : /\ Acceptance(p)
                                   /\ disorder' = 0 => toConsole' = toConsole \ {p}
           \/ io = "send"
    PROVE  LanInv'
<1>1. /\ UNCHANGED <<io, hdr, bridgePossible, op, insync, answer>>
      /\ conn'.sockfd = conn.sockfd /\ conn'.session_id = conn.session_id
      /\ conn.finsession => conn'.finsession
  BY DEF NextTry, DriverOK, InSession
<1>2. ControlInv' /\ OwnAnswer'
  BY <1>1 DEF LanInv, ControlInv, OwnAnswer, Onward, Struck
<1>3. IdsInv' /\ BegunInv'
  BY <1>1 DEF LanInv, IdsInv, BegunInv, Issued, Onward
<1>4. NumbersInv'
  BY <1>1 DEF LanInv, NumbersInv, Onward
<1>5. Synced' => Synced /\ disorder' = 0
  BY <1>1 DEF Synced, Onward, Struck
<1>6. WireInv'
  <2>1. CASE toConsole' = toConsole /\ level' = level
    BY <1>1, <1>5, <2>1 DEF LanInv, WireInv, Onward, Current, Bridged, Acceptance
  <2>2. CASE \E p \in toConsole : /\ Acceptance(p)
                                  /\ disorder' = 0 => toConsole' = toConsole \ {p}
    <3>1. PICK p \in toConsole : /\ Acceptance(p)
                                 /\ disorder' = 0 => toConsole' = toConsole \ {p}
      BY <2>2
    <3>2. ASSUME Synced'
          PROVE  io = "recv" /\ toBMC = {} /\ toConsole' = toConsole \ {p}
      BY <1>5, <3>1, <3>2 DEF LanInv, WireInv
    <3>3. ASSUME Synced', NEW q \in toConsole'
          PROVE  ~ Acceptance(q)
      BY <1>5, <3>1, <3>2, <3>3 DEF LanInv, WireInv, Acceptance
    <3> QED
      BY <1>1, <1>5, <3>2, <3>3 DEF LanInv, WireInv, Onward, Current, Acceptance
  <2>3. CASE io = "send"
    BY <1>1, <1>5, <2>3 DEF LanInv, WireInv, Onward
  <2> QED
    BY <2>1, <2>2, <2>3
<1>7. ActiveInv'
  BY <1>1, <1>5 DEF LanInv, ActiveInv, Onward
<1> QED
  BY <1>2, <1>3, <1>4, <1>6, <1>7 DEF LanInv

-----------------------------------------------------------------------------
(* The actions.                                                            *)

\* What is read in an undisturbed exchange, by how the driver sees it.
LEMMA ReadSynced ==
    ASSUME LanInv, NEW p \in toConsole, Read(p), Synced, disorder' = 0
    PROVE  /\ io = "recv" /\ toBMC = {} /\ toConsole' = toConsole \ {p} /\ ~ Overtakes(p)
           /\ Acceptance(p) => BridgeRsp(p)
           /\ ~ Acceptance(p) => toConsole' = {}
<1>1. toConsole' = toConsole \ {p} /\ ~ Overtakes(p) /\ io = "recv"
  BY DEF Read, Synced
<1>2. toBMC = {} /\ (Acceptance(p) => Bridged /\ bridgePossible /\ level = 1)
  BY DEF LanInv, WireInv
<1>3. Acceptance(p) => BridgeRsp(p)
  BY <1>2 DEF BridgeRsp, Acceptance
<1>4. ASSUME ~ Acceptance(p), NEW q \in toConsole, q # p
      PROVE  FALSE
  <2>1. Acceptance(q) /\ p.ack = "no"
    BY <1>4 DEF LanInv, WireInv
  <2>2. q.n = tx /\ p.n = tx
    BY DEF LanInv, WireInv, Current
  <2> QED
    BY <1>1, <2>1, <2>2 DEF Overtakes, Acceptance
<1> QED
  BY <1>1, <1>2, <1>3, <1>4

\* Reading is going on.
LEMMA ReadIsOnward ==
    ASSUME OthersOK, NEW p \in toConsole, Read(p)
    PROVE  Onward
  BY DEF OthersOK, Read, Onward

\* A packet is read: as the acceptance of a bridged request, with or without the
\* target's response, or as the response.
LEMMA ReceiveKeeps ==
    ASSUME DriverOK, OthersOK, LanInv, NEW p \in toConsole,
           AwaitBridged(p) \/ LeaveBridged(p) \/ Take(p)
    PROVE  LanInv'
<1>1. Read(p) /\ io = "recv"
  BY DEF AwaitBridged, LeaveBridged, Take, Read
<1>2. Onward
  BY <1>1, ReadIsOnward
<1>3. Copied(Zeros) \in Result /\ Copied(p) \in Result
  BY ResultType DEF Copied, OthersOK
<1>4. ASSUME op = "command"
      PROVE  Outcome(Copied(Zeros))
  BY <1>4 DEF Copied, Outcome
<1>5. CASE AwaitBridged(p)
  <2>1. op = "command" /\ Acceptance(p)
    BY <1>5 DEF AwaitBridged, BridgeRsp, Bridged, Acceptance
  <2>2. CASE Done(Copied(Zeros))
    BY <1>2, <1>3, <1>4, <2>1, <2>2, DoneKeeps
  <2>3. CASE NextTry(io, cut)
    <3>1. disorder' = 0 => toConsole' = toConsole \ {p}
      BY <1>1 DEF Read, OthersOK
    <3> QED
      BY <1>1, <1>2, <2>1, <2>3, <3>1, NextTryKeeps
  <2> QED
    BY <1>5, <2>2, <2>3 DEF AwaitBridged, Again
<1>6. CASE LeaveBridged(p)
  <2>1. op = "command"
    BY <1>6 DEF LeaveBridged, BridgeRsp, Bridged
  <2> QED
    BY <1>2, <1>3, <1>4, <1>6, <2>1, DoneKeeps DEF LeaveBridged
<1>7. CASE Take(p)
  <2>1. ~ (BridgeRsp(p) /\ Acceptance(p))
    BY <1>7 DEF Take, Acceptance
  <2>2. Outcome(Copied(p))
    BY <1>1, <2>1, ReadSynced DEF Copied, Outcome
  <2> QED
    BY <1>2, <1>3, <1>7, <2>2, DoneKeeps DEF Take
<1> QED
  BY <1>5, <1>6, <1>7

\* A try that ends without a packet.
LEMMA AgainKeeps ==
    ASSUME DriverOK, OthersOK, LanInv, io # "idle", NEW short, Again(Error, short),
           io = "send" \/ level' = level,
           UNCHANGED <<network, tx, used, call, struck, bmc>>
    PROVE  LanInv'
<1>1. Onward
  BY DEF Onward, network
<1>2. CASE NextTry(io, short)
  BY <1>1, <1>2, NextTryKeeps DEF network
<1>3. CASE Done(Error)
  BY <1>1, <1>3, DoneKeeps, ResultType DEF Outcome
<1> QED
  BY <1>2, <1>3 DEF Again

\* A request is sent: under a new number, and in an undisturbed connection alone.
LEMMA TransmitKeeps ==
    ASSUME DriverOK, OthersOK, LanInv, Transmit
    PROVE  LanInv'
<1> DEFINE m == [n |-> tx + 1, cmd |-> op, sess |-> hdr.sess_id, seq |-> hdr.seq_num,
                 wrapped |-> Wrapped]
<1>1. /\ io = "send" /\ io' = "recv" /\ tx' = tx + 1
      /\ toBMC' = Alive(toBMC) \cup {m}
      /\ toConsole' = Alive(toConsole)
      /\ used' = used \cup {<<hdr.sess_id, hdr.seq_num>>}
      /\ level' = IF Wrapped THEN 1 ELSE 0
      /\ UNCHANGED <<hdr, bridgePossible, op, disorder, insync, answer, call, struck, bmc>>
  BY DEF Transmit
<1>2. /\ conn'.sockfd = conn.sockfd /\ conn'.session_id = conn.session_id
      /\ conn.finsession => conn'.finsession
  BY DEF Transmit, DriverOK, InSession
<1>3. Alive(toBMC) \subseteq toBMC /\ Alive(toConsole) \subseteq toConsole
  BY DEF Alive
<1>4. op # "idle"
  BY <1>1 DEF LanInv, ControlInv
<1>5. ControlInv' /\ OwnAnswer'
  BY <1>1, <1>2, <1>4 DEF LanInv, ControlInv, OwnAnswer, Struck
<1>6. IdsInv'
  BY <1>1, <1>3 DEF LanInv, IdsInv, Issued
<1>7. BegunInv'
  <2>1. CASE op \in {"auth", "challenge"}
    <3>1. hdr.sess_id = 0
      BY <2>1 DEF LanInv, ControlInv
    <3>2. ASSUME NEW p \in toConsole, p.cmd = "challenge", p.cc = "ok"
          PROVE  p.sess = Garbage \/ \A u \in used' : u[1] # p.sess
      <4>1. p.sess = Garbage \/ (p.sess # 0 /\ \A u \in used : u[1] # p.sess)
        BY <2>1, <3>2 DEF LanInv, BegunInv, IdsInv, OthersOK
      <4> QED
        BY <1>1, <3>1, <4>1
    <3> QED
      BY <1>1, <1>3, <2>1, <3>2 DEF LanInv, BegunInv
  <2>2. CASE op = "activate"
    BY <1>1, <1>3, <2>2 DEF LanInv, BegunInv
  <2> QED
    BY <1>1, <2>1, <2>2 DEF BegunInv
<1>8. NumbersInv'
  BY <1>1 DEF LanInv, NumbersInv
<1>9. Synced' => Synced /\ toBMC = {} /\ toConsole = {}
  BY <1>1 DEF LanInv, WireInv, Synced, Struck
<1>10. WireInv'
  <2>1. ASSUME Synced'
        PROVE  toBMC' = {m} /\ toConsole' = {}
    BY <1>1, <1>3, <1>9, <2>1
  <2>2. ASSUME Wrapped, op = "command"
        PROVE  Bridged /\ bridgePossible /\ level' = 1
    BY <1>1, <2>2 DEF Wrapped, LanInv, ControlInv
  <2> QED
    BY <1>1, <2>1, <2>2 DEF WireInv, Current, Bridged
<1>11. ActiveInv'
  BY <1>1, <1>2, <1>3, <1>9 DEF LanInv, ActiveInv
<1> QED
  BY <1>5, <1>6, <1>7, <1>8, <1>10, <1>11 DEF LanInv

\* What a packet of the BMC's says, as the reply to m.
Says(m, p) ==
    /\ p.kind = "rsp" /\ p.n = m.n /\ p.cmd = m.cmd
    /\ p.cmd = "challenge" /\ p.cc = "ok" => p.sess \in 1..bmc'.issued /\ p.sess > bmc.issued
    /\ p.cmd = "activate" /\ p.cc = "ok" => p.sess = m.sess /\ p.sess \in bmc'.active
    /\ Acceptance(p) => m.cmd = "command" /\ m.wrapped

\* The replies to a request, and what becomes of the sessions.
LEMMA ServeEffect ==
    ASSUME OthersOK, NEW m \in toBMC, Serve(m)
    PROVE  /\ bmc'.issued >= bmc.issued
           /\ m.cmd \notin {"close", "abort"} => bmc.active \subseteq bmc'.active
           /\ \E packets :
                /\ toConsole' = toConsole \cup packets
                /\ \A p \in packets : Says(m, p)
                /\ \A p, q \in packets : q = p \/ (Acceptance(q) /\ p.ack = "no")
                                               \/ (Acceptance(p) /\ q.ack = "no")
<1>1. /\ bmc.issued \in Nat /\ m \in Request
      /\ bmc \in [issued : 0..MaxIds, pending : SUBSET (1..MaxIds), active : SUBSET (1..MaxIds)]
  BY LanAssumption DEF LanAssumption, OthersOK
<1>2. ASSUME NEW ack, NEW cc, NEW id
      PROVE  LET p == Rsp(m, ack, cc, id) IN
             p.kind = "rsp" /\ p.n = m.n /\ p.cmd = m.cmd /\ p.ack = ack /\ p.cc = cc /\ p.sess = id
  BY DEF Rsp
<1>3. ASSUME NEW ack, NEW cc, NEW id, Respond({Rsp(m, ack, cc, id)}), Says(m, Rsp(m, ack, cc, id))
      PROVE  \E packets :
                /\ toConsole' = toConsole \cup packets
                /\ \A p \in packets : Says(m, p)
                /\ \A p, q \in packets : q = p \/ (Acceptance(q) /\ p.ack = "no")
                                               \/ (Acceptance(p) /\ q.ack = "no")
  <2> DEFINE said == {Rsp(m, ack, cc, id)}
  <2>1. toConsole' = toConsole \cup said
    BY <1>3 DEF Respond
  <2>2. \A p \in said : Says(m, p)
    BY <1>3
  <2>3. \A p, q \in said : q = p \/ (Acceptance(q) /\ p.ack = "no")
                                 \/ (Acceptance(p) /\ q.ack = "no")
    OBVIOUS
  <2> HIDE DEF said
  <2> QED
    BY <2>1, <2>2, <2>3
<1>4. CASE UNCHANGED bmc /\ \E cc \in {"busy", "error"} : Respond({Rsp(m, "no", cc, 0)})
  <2>1. PICK cc \in {"busy", "error"} : Respond({Rsp(m, "no", cc, 0)})
    BY <1>4
  <2>2. Says(m, Rsp(m, "no", cc, 0))
    BY <1>2, <2>1 DEF Says, Acceptance
  <2> QED
    BY <1>1, <1>3, <1>4, <2>1, <2>2
<1>5. CASE UNCHANGED bmc /\ Respond({Rsp(m, "empty", "error", 0)})
  <2>1. Says(m, Rsp(m, "empty", "error", 0))
    BY <1>2 DEF Says, Acceptance
  <2> QED
    BY <1>1, <1>3, <1>5, <2>1
<1>6. CASE UNCHANGED bmc /\ Respond({Rsp(m, "no", "error", 0)})
  BY <1>1, <1>4, <1>6
<1>7. CASE /\ m.cmd \notin {"challenge", "activate"} /\ Respond({Rsp(m, "no", "ok", 0)})
           /\ bmc'.issued = bmc.issued
           /\ m.cmd \notin {"close", "abort"} => bmc' = bmc
  <2>1. Says(m, Rsp(m, "no", "ok", 0))
    BY <1>2, <1>7 DEF Says, Acceptance
  <2> QED
    BY <1>1, <1>3, <1>7, <2>1
<1>8. CASE /\ m.cmd = "challenge" /\ bmc.issued < MaxIds
           /\ Respond({Rsp(m, "no", "ok", bmc.issued + 1)})
           /\ bmc' = [bmc EXCEPT !.issued = @ + 1, !.pending = @ \cup {bmc.issued + 1}]
  <2>1. bmc'.issued = bmc.issued + 1 /\ bmc'.active = bmc.active
    BY <1>1, <1>8
  <2>2. Says(m, Rsp(m, "no", "ok", bmc.issued + 1))
    BY <1>1, <1>2, <1>8, <2>1 DEF Says, Acceptance
  <2> QED
    BY <1>1, <1>3, <1>8, <2>1, <2>2
<1>9. CASE /\ m.cmd = "activate" /\ Respond({Rsp(m, "no", "ok", m.sess)})
           /\ bmc' = [bmc EXCEPT !.pending = @ \ {m.sess}, !.active = @ \cup {m.sess}]
  <2>1. bmc'.issued = bmc.issued /\ bmc'.active = bmc.active \cup {m.sess}
    BY <1>1, <1>9
  <2>2. Says(m, Rsp(m, "no", "ok", m.sess))
    BY <1>2, <1>9, <2>1 DEF Says, Acceptance
  <2> QED
    BY <1>1, <1>3, <2>1, <1>9, <2>2
<1>10. CASE /\ m.cmd = "command" /\ m.wrapped /\ UNCHANGED bmc
            /\ Respond({Rsp(m, "empty", "ok", 0), Rsp(m, "no", "ok", 0)})
  <2> DEFINE packets == {Rsp(m, "empty", "ok", 0), Rsp(m, "no", "ok", 0)}
  <2>1. toConsole' = toConsole \cup packets
    BY <1>10 DEF Respond
  <2>2. Says(m, Rsp(m, "empty", "ok", 0)) /\ Says(m, Rsp(m, "no", "ok", 0))
    BY <1>2, <1>10 DEF Says, Acceptance
  <2>3. Acceptance(Rsp(m, "empty", "ok", 0)) /\ Rsp(m, "no", "ok", 0).ack = "no"
    BY <1>2 DEF Acceptance
  <2>4. \A p, q \in packets : q = p \/ (Acceptance(q) /\ p.ack = "no")
                                    \/ (Acceptance(p) /\ q.ack = "no")
    BY <2>3
  <2>5. \A p \in packets : Says(m, p)
    BY <2>2
  <2> QED
    BY <1>1, <1>10, <2>1, <2>4, <2>5
<1>11. CASE m.cmd = "command" /\ UNCHANGED bmc /\ Respond({Rsp(m, "data", "ok", 0)})
  <2>1. Says(m, Rsp(m, "data", "ok", 0))
    BY <1>2, <1>11 DEF Says, Acceptance
  <2> QED
    BY <1>1, <1>3, <1>11, <2>1
<1>12. CASE ServeOutside(m)
  BY <1>4, <1>5, <1>6, <1>7, <1>8, <1>9, <1>12 DEF ServeOutside
<1>13. CASE ServeInside(m)
  <2>1. CASE m.cmd = "setpriv"
    BY <1>4, <1>7, <1>13, <2>1 DEF ServeInside
  <2>2. CASE m.cmd = "command"
    BY <1>5, <1>7, <1>10, <1>11, <1>13, <2>2 DEF ServeInside
  <2>3. CASE m.cmd \in {"close", "abort"}
    <3>1. bmc'.issued = bmc.issued /\ Respond({Rsp(m, "no", "ok", 0)})
      BY <1>1, <1>13, <2>3 DEF ServeInside
    <3> QED
      BY <1>7, <2>3, <3>1
  <2> QED
    BY <1>13, <2>1, <2>2, <2>3 DEF ServeInside
<1> QED
  BY <1>12, <1>13 DEF Serve

\* The BMC serves a request.
LEMMA ServeKeeps ==
    ASSUME DriverOK, OthersOK, LanInv, NEW m \in toBMC, Serve(m)
    PROVE  LanInv'
<1>1. PICK packets :
        /\ toConsole' = toConsole \cup packets
        /\ \A p \in packets : Says(m, p)
        /\ \A p, q \in packets : q = p \/ (Acceptance(q) /\ p.ack = "no")
                                       \/ (Acceptance(p) /\ q.ack = "no")
  BY ServeEffect
<1>2. /\ bmc'.issued >= bmc.issued /\ bmc.issued \in Nat /\ bmc'.issued \in Nat
      /\ m.cmd \notin {"close", "abort"} => bmc.active \subseteq bmc'.active
  <2>1. bmc'.issued \in 0..MaxIds
    BY ServeType DEF OthersOK
  <2> QED
    BY <2>1, ServeEffect, LanAssumption DEF LanAssumption, OthersOK
<1>3. toBMC' = toBMC \ {m} /\ UNCHANGED <<console, exchange, disorder, history>>
  BY DEF Serve
<1>4. /\ UNCHANGED <<conn, hdr, bridgePossible, op, io, level, call, struck, disorder, tx,
                     insync, used, answer>>
  BY <1>3 DEF console, exchange, history
<1>5. ControlInv' /\ OwnAnswer' /\ NumbersInv'
  BY <1>4 DEF LanInv, ControlInv, OwnAnswer, NumbersInv, Struck
<1>6. IdsInv'
  BY <1>1, <1>2, <1>4 DEF LanInv, IdsInv, Issued, Says
<1>7. BegunInv'
  <2>1. ASSUME NEW p \in packets, p.cmd = "challenge", p.cc = "ok", NEW u \in used
        PROVE  p.sess = Garbage \/ u[1] # p.sess
    <3>1. p.sess > bmc.issued
      BY <1>1, <2>1 DEF Says
    <3>2. u[1] \in {0, Garbage} \cup 1..bmc.issued
      BY DEF LanInv, IdsInv, Issued
    <3> QED
      BY <1>2, <3>1, <3>2
  <2>2. op \in {"auth", "challenge"} => \A p \in packets : p.cmd # "activate"
    BY <1>1 DEF LanInv, BegunInv, Says
  <2>3. op = "activate" => \A p \in packets :
            p.cmd = "activate" /\ p.cc = "ok" => p.sess = hdr.sess_id
    BY <1>1 DEF LanInv, BegunInv, Says
  <2> QED
    BY <1>1, <1>3, <1>4, <2>1, <2>2, <2>3 DEF LanInv, BegunInv
<1>8. Synced' = Synced
  BY <1>4 DEF Synced, Struck
<1>9. ASSUME Synced
      PROVE  /\ Current(m) /\ io = "recv" /\ toBMC' = {} /\ toConsole' = packets
             /\ m.wrapped /\ op = "command" => Bridged /\ bridgePossible /\ level = 1
  BY <1>1, <1>3, <1>9 DEF LanInv, WireInv
<1>10. WireInv'
  BY <1>1, <1>4, <1>8, <1>9 DEF WireInv, Current, Says, Bridged, Acceptance
<1>11. ActiveInv'
  <2>1. ASSUME Synced, op = "activate", NEW p \in packets, p.cc = "ok"
        PROVE  p.sess \in bmc'.active
    BY <1>1, <1>9, <2>1 DEF Says, Current
  <2>2. ASSUME Synced, op \in {"setpriv", "idle", "command"}
        PROVE  bmc.active \subseteq bmc'.active
    BY <1>2, <1>9, <2>2 DEF Current
  <2> QED
    BY <1>4, <1>8, <1>9, <2>1, <2>2 DEF LanInv, ActiveInv
<1> QED
  BY <1>5, <1>6, <1>7, <1>10, <1>11 DEF LanInv

\* Every step keeps the invariant: one step of the proof per action of Next.
LEMMA InvStep ==
    ASSUME TypeOK, LanInv, [Next]_vars
    PROVE  LanInv'
<1>0. DriverOK /\ OthersOK
  BY TypeParts
<1> USE <1>0
<1>1. ASSUME NEW bridged, NEW reopen, Open(bridged, reopen)
      PROVE  LanInv'
  <2>1. /\ op = "idle" /\ op' = "auth" /\ io' = "send" /\ conn'.sockfd
        /\ hdr'.sess_id = 0 /\ toBMC' = {} /\ toConsole' = {}
        /\ UNCHANGED <<bmc, used, struck>>
    BY <1>1 DEF Open, Call, Enter, DriverOK
  <2>2. ControlInv' /\ OwnAnswer'
    BY <2>1 DEF LanInv, ControlInv, OwnAnswer, Struck
  <2>3. IdsInv' /\ BegunInv' /\ NumbersInv'
    BY <2>1 DEF LanInv, IdsInv, BegunInv, NumbersInv, Issued
  <2>4. WireInv' /\ ActiveInv'
    BY <2>1 DEF WireInv, ActiveInv
  <2> QED
    BY <2>2, <2>3, <2>4 DEF LanInv
<1>2. ASSUME NEW bridged, NEW x \in {"command", "close"}, conn.sockfd, Call(bridged, FALSE),
             Enter(x), x = "close" \/ UNCHANGED bridgePossible,
             UNCHANGED <<conn, hdr, toBMC, toConsole, insync>>
      PROVE  LanInv'
  <2>1. /\ op = "idle" /\ op' = x /\ io = "idle" /\ io' = "send" /\ struck = "no"
        /\ UNCHANGED <<bmc, used, struck, disorder>>
    BY <1>2 DEF Call, Enter, LanInv, ControlInv, Struck
  <2>2. ControlInv' /\ OwnAnswer'
    BY <1>2, <2>1 DEF LanInv, ControlInv, OwnAnswer, Struck
  <2>3. IdsInv' /\ BegunInv' /\ NumbersInv'
    BY <1>2, <2>1 DEF LanInv, IdsInv, BegunInv, NumbersInv, Issued
  <2>4. Synced' => Synced
    BY <1>2, <2>1 DEF Synced, Struck
  <2>5. WireInv' /\ ActiveInv'
    BY <1>2, <2>1, <2>4 DEF LanInv, WireInv, ActiveInv
  <2> QED
    BY <2>2, <2>3, <2>5 DEF LanInv
<1>3. ASSUME NEW bridged \in BOOLEAN, Command(bridged)
      PROVE  LanInv'
  BY <1>1, <1>2, <1>3 DEF Command, console
<1>4. CASE Close
  BY <1>2, <1>4 DEF Close
<1>5. CASE Flush
  <2>1. /\ op = "idle" /\ io = "idle" /\ struck = "no" /\ ~ conn'.sockfd /\ answer'.kind = "error"
        /\ UNCHANGED <<hdr, op, io, toBMC, toConsole, insync, bmc, used, struck, disorder, tx>>
    <3>1. ~ conn'.sockfd
      BY <1>5 DEF Flush, DriverOK
    <3> QED
      BY <1>5, <3>1 DEF Flush, Call, Error, LanInv, ControlInv, Struck
  <2>2. ControlInv' /\ OwnAnswer'
    BY <2>1 DEF LanInv, ControlInv, OwnAnswer, Struck, Exchanges, InOpen
  <2>3. IdsInv' /\ BegunInv' /\ NumbersInv'
    BY <2>1 DEF LanInv, IdsInv, BegunInv, NumbersInv, Issued
  <2>4. Synced' => Synced
    BY <2>1 DEF Synced, Struck
  <2>5. WireInv' /\ ActiveInv'
    BY <2>1, <2>4 DEF LanInv, WireInv, ActiveInv
  <2> QED
    BY <2>2, <2>3, <2>5 DEF LanInv
<1>6. CASE Interrupt
  <2>1. /\ struck' = io /\ conn.sockfd /\ UNCHANGED <<conn, hdr, network, bmc, history>>
        /\ \/ op' = "abort" /\ io' = "send"
           \/ op' = "over" /\ io' = "idle"
    BY <1>6 DEF Interrupt, Enter
  <2>2. struck' # "no" /\ struck = "no"
    BY <1>6, <2>1 DEF Interrupt, DriverOK
  <2>3. ControlInv' /\ OwnAnswer'
    BY <2>1, <2>2 DEF LanInv, ControlInv, OwnAnswer, Struck
  <2>4. IdsInv' /\ BegunInv'
    BY <2>1 DEF LanInv, IdsInv, BegunInv, Issued, network, history
  <2>5. NumbersInv'
    BY <2>1, <2>2 DEF LanInv, NumbersInv, history
  <2>6. WireInv' /\ ActiveInv'
    BY <2>2 DEF WireInv, ActiveInv, Synced, Struck
  <2> QED
    BY <2>3, <2>4, <2>5, <2>6 DEF LanInv
<1>7. CASE Transmit
  BY <1>7, TransmitKeeps
<1>8. CASE SendFails
  BY <1>8, AgainKeeps DEF SendFails
<1>9. CASE Timeout
  <2>1. PICK refused \in BOOLEAN : Again(Error, cut \/ refused)
    BY <1>9 DEF Timeout
  <2> QED
    BY <1>9, <2>1, AgainKeeps DEF Timeout
<1>10. CASE ReceiveFails
  <2>1. Onward
    BY <1>10 DEF ReceiveFails, Onward, network
  <2> QED
    BY <1>10, <2>1, DoneKeeps, ResultType DEF ReceiveFails, Outcome
<1>11. CASE UNCHANGED vars
  <2>1. UNCHANGED <<console, exchange, network, bmc, history>>
    BY <1>11 DEF vars
  <2>2. UNCHANGED <<conn, hdr, bridgePossible, op, io, level, call, struck, toBMC, toConsole,
                    disorder, tx, insync, used, answer, bmc>>
    BY <2>1 DEF console, exchange, network, history
  <2>3. ControlInv' /\ OwnAnswer'
    BY <2>2 DEF LanInv, ControlInv, OwnAnswer, Struck
  <2>4. IdsInv' /\ BegunInv' /\ NumbersInv'
    BY <2>2 DEF LanInv, IdsInv, BegunInv, NumbersInv, Issued
  <2>5. WireInv' /\ ActiveInv'
    BY <2>2 DEF LanInv, WireInv, ActiveInv, Synced, Struck, Current, Bridged, Acceptance
  <2> QED
    BY <2>3, <2>4, <2>5 DEF LanInv
<1> QED
  BY <1>1, <1>3, <1>4, <1>5, <1>6, <1>7, <1>8, <1>9, <1>10, <1>11, ReceiveKeeps, ServeKeeps
  DEF Next, Engine

-----------------------------------------------------------------------------
(* The theorems.                                                           *)

\* The invariant holds in every state of every behaviour.
THEOREM Invariant == Spec => [](TypeOK /\ LanInv)
<1>1. Init => TypeOK /\ LanInv
  BY TypeInit, InvInit
<1>2. TypeOK /\ LanInv /\ [Next]_vars => (TypeOK /\ LanInv)'
  BY TypeStep, InvStep DEF LanInv
<1> QED
  BY <1>1, <1>2, PTL DEF Spec

\* In an undisturbed connection _send_lan_cmd, which compares nothing, gives a
\* call the response to its own request and not the acceptance of a bridged one.
THEOREM CallsGetOwnAnswer == Spec => []OwnAnswer
<1>1. LanInv => OwnAnswer
  BY DEF LanInv
<1> QED
  BY <1>1, Invariant, PTL

\* In an undisturbed connection, what ipmilan_open_session opened is a session
\* that the BMC activated, and the one that the header names.
THEOREM OpensAnActiveSession == Spec => []OpenedIsActive
<1>1. TypeOK /\ LanInv => OpenedIsActive
  <2>1. LanInv /\ op \in {"idle", "command"} => ~ Struck
    BY DEF LanInv, ControlInv
  <2> QED
    BY <2>1 DEF LanInv, ActiveInv, Synced, OpenedIsActive
<1> QED
  BY <1>1, Invariant, PTL

\* A number is sent once in a session, by whichever step.
LEMMA NumberStep ==
    ASSUME TypeOK, LanInv, [Next]_vars, tx' # tx, hdr.sess_id \notin {0, Garbage},
           struck # "recv"
    PROVE  <<hdr.sess_id, hdr.seq_num>> \notin used
<1>1. Transmit
  <2>1. tx' = tx \/ Transmit
    BY DEF Next, Engine, Open, Command, Close, Flush, Call, Interrupt, SendFails, Timeout,
       ReceiveFails, AwaitBridged, LeaveBridged, Take, Read, Serve, vars, history
  <2> QED
    BY <2>1
<1>2. io # "recv" /\ hdr.seq_num \in Nat
  BY <1>1 DEF Transmit, TypeOK
<1> QED
  BY <1>2 DEF LanInv, NumbersInv

\* A session's sequence numbers are fresh, whichever exchanges failed before.
THEOREM NumbersAreFresh == Spec => NumbersFresh
<1>1. TypeOK /\ LanInv /\ [Next]_vars =>
        [tx' # tx /\ hdr.sess_id \notin {0, Garbage} /\ struck # "recv"
         => <<hdr.sess_id, hdr.seq_num>> \notin used]_vars
  BY NumberStep
<1> QED
  BY <1>1, Invariant, PTL DEF Spec, NumbersFresh


=============================================================================
