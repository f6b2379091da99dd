------------------------- MODULE LanplusOpen_proofs -------------------------
(***************************************************************************)
(* Proofs about LanplusOpen: its type invariant, that what the console     *)
(* holds for an active session is one in the BMC, with the same random     *)
(* numbers, that what an open returns can be used, and that an active      *)
(* session is given up only by way of the close command.                   *)
(***************************************************************************)
EXTENDS LanplusOpen, TLAPS

-----------------------------------------------------------------------------
(* The inductive invariant.                                                *)

\* The console goes towards a session, or has one: between the beginning of an
\* open and the close command.
Live ==
    \/ pc \in {"authcap", "opensess", "rakp1", "rakp3", "setpriv"}
    \/ pc = "idle" /\ opened

\* The console knows the id of the session at the BMC.
Granted ==
    \/ pc \in {"rakp1", "rakp3", "setpriv", "close"}
    \/ pc = "idle" /\ opened

\* The types of messages that name a session at the BMC.
Named == {"rakp1", "rakp3", "setpriv", "close"}

\* Where the console is and what the session's state is go together.
StateInv ==
    /\ pc = "authcap" => s.state = "PRESESSION"
    /\ pc = "opensess" => s.state \in {"PRESESSION", "OPEN_SESSION_SENT"}
    /\ pc = "rakp1" => s.state \in {"OPEN_SESSION_RECEIVED", "RAKP_1_SENT"}
    /\ pc = "rakp3" => s.state \in {"RAKP_2_RECEIVED", "RAKP_3_SENT"}
    /\ pc \in {"setpriv", "close"} => s.state = "ACTIVE"
    /\ pc = "idle" /\ opened => s.state = "ACTIVE"

\* What the interface holds meanwhile.
IntfInv ==
    /\ Live \/ pc = "close" => session /\ opened /\ fd \in sockets
    /\ pc = "setup" => ~ opened
    /\ session /\ s.state = "ACTIVE" =>
          ~ abort /\ (pc \in {"setpriv", "close"} \/ (pc = "idle" /\ opened))

\* Ids are those of sessions that the BMC granted.
IdsInv ==
    /\ Granted => s.bmc_id \in 1..MaxIds
    /\ \A m \in toBMC : m.type \in Named => m.id \in 1..MaxIds
    /\ \A p \in toConsole :
          p.type = "opensess" /\ p.result # "error" => p.id \in 1..MaxIds
    /\ \A i \in 1..MaxIds : i > ids => bmc[i].st = "none"

\* What is on its way belongs to this session, and nothing there closes it.
WireInv ==
    Live =>
        /\ \A m \in toBMC : m.type # "close"
        /\ \A m \in toBMC \cup toConsole :
              m.type \in {"rakp1", "rakp3", "setpriv"} =>
                  pc \notin {"authcap", "opensess"} /\ m.id = s.bmc_id

\* An accepting RAKP 4 speaks of a session that is active, and of its numbers.
ActiveInv ==
    Live => \A p \in toConsole :
        p.type = "rakp3" /\ p.result = "ok" /\ p.id \in 1..MaxIds =>
            bmc[p.id].st = "active" /\ p.mac = <<bmc[p.id].c, bmc[p.id].b>>

\* An answer that grants the privilege speaks of a session that has it.
AdminInv ==
    \A p \in toConsole :
        p.type = "setpriv" /\ p.result # "error" /\ p.id \in 1..MaxIds =>
            bmc[p.id].admin /\ bmc[p.id].st \in {"active", "closed"}

\* While Set Privilege waits after a clean begin, only its own entries are listed.
CleanInv == clean /\ pc = "setpriv" => \A e \in rqEntries : e.cmd = "setpriv"

\* The types apart, this is the inductive invariant: Agreement and the facts
\* about messages on their way that keep it.
SessionInv ==
    /\ StateInv
    /\ IntfInv
    /\ IdsInv
    /\ WireInv
    /\ ActiveInv
    /\ AdminInv
    /\ CleanInv
    /\ Agreement

-----------------------------------------------------------------------------
(* Type correctness.                                                       *)

Entries == [cmd : Commands, seq : Nat, n : Nat]
SessionData == [state : States, bmc_id : 0..MaxIds, console_rand : Nat, bmc_rand : Nat]
Granting == [st : {"none", "open", "rakp", "active", "closed"},
             c : Nat, b : Nat, admin : BOOLEAN]

\* The types of what a step of the console leaves.
ConsoleOK ==
    /\ session \in BOOLEAN
    /\ host \in Nodes \cup {NoNode}
    /\ opened \in BOOLEAN
    /\ abort \in BOOLEAN
    /\ fd \in Nat
    /\ sockets \subseteq Nat \ {0}
    /\ rqEntries \subseteq Entries
    /\ pc \in {"idle", "setup"} \cup Commands \cup Handshake
    /\ phase \in {"send", "recv"}
    /\ itry \in 0..(Retry - 1)
    /\ attempt \in 0..(Asks - 1)
    /\ pending \in Nodes \cup {NoNode}
    /\ clean \in BOOLEAN

\* The types of the rest.
OthersOK ==
    /\ auth \in {"none", "hmac"}
    /\ samePassword \in BOOLEAN
    /\ admin \in BOOLEAN
    /\ s \in SessionData
    /\ timeout \in Nat
    /\ lan2_timeout \in Nat
    /\ toBMC \subseteq Request
    /\ toConsole \subseteq Reply
    /\ dups \in 0..MaxDups
    /\ bmc \in [1..MaxIds -> Granting]
    /\ ids \in 0..MaxIds
    /\ opens \in Nat
    /\ n \in Nat

\* The two parts are the type invariant.
LEMMA TypeParts == TypeOK <=> ConsoleOK /\ OthersOK
  BY DEF TypeOK, ConsoleOK, OthersOK, Entries, SessionData, Granting

\* The initial state is well typed.
LEMMA TypeInit == Init => TypeOK
<1> SUFFICES ASSUME Init PROVE ConsoleOK /\ OthersOK
  BY TypeParts
<1> USE OpenAssumption DEF OpenAssumption
<1>1. ConsoleOK
  <2>1. attempt \in 0..(Asks - 1) /\ itry \in 0..(Retry - 1)
    BY DEF Init
  <2>2. sockets \subseteq Nat \ {0} /\ rqEntries \subseteq Entries
    BY DEF Init
  <2> QED
    BY <2>1, <2>2 DEF Init, ConsoleOK
<1>2. s \in SessionData
  BY DEF Init, PreSession, SessionData, States
<1>3. bmc \in [1..MaxIds -> Granting]
  BY DEF Init, NoSession, Granting
<1>4. auth \in {"none", "hmac"} /\ samePassword \in BOOLEAN /\ admin \in BOOLEAN
  BY DEF Init
<1> QED
  BY <1>1, <1>2, <1>3, <1>4 DEF Init, OthersOK

\* Shutting down, whoever asks for it.
LEMMA ShutType ==
    ASSUME ConsoleOK, Shut
    PROVE  ConsoleOK'
<1>1. session' \in BOOLEAN /\ opened' \in BOOLEAN
  BY DEF Shut
<1>2. abort' \in BOOLEAN /\ clean' \in BOOLEAN
  BY DEF Shut, ConsoleOK
<1>3. /\ sockets' \subseteq Nat \ {0} /\ fd' \in Nat /\ rqEntries' \subseteq Entries
      /\ host' \in Nodes \cup {NoNode} /\ attempt' \in 0..(Asks - 1)
  BY DEF Shut, ConsoleOK
<1>4. /\ pc' \in {"idle", "setup"} /\ phase' \in {"send", "recv"}
      /\ itry' \in 0..(Retry - 1) /\ pending' \in Nodes \cup {NoNode}
  BY OpenAssumption DEF OpenAssumption, Shut, Continue, ConsoleOK
<1> QED
  BY <1>1, <1>2, <1>3, <1>4 DEF ConsoleOK

\* Giving up before the handshake.
LEMMA GiveUpType ==
    ASSUME ConsoleOK, NEW rest, rest \subseteq Entries, GiveUp(rest)
    PROVE  ConsoleOK'
<1>1. opened' \in BOOLEAN /\ pc' = "idle" /\ phase' = "send" /\ itry' = 0
  BY DEF GiveUp, Continue
<1>2. UNCHANGED <<session, host, abort, fd, sockets, attempt, pending, clean>>
  BY DEF GiveUp, Continue
<1>3. rqEntries' = rest
  BY DEF GiveUp
<1> QED
  BY OpenAssumption, <1>1, <1>2, <1>3 DEF OpenAssumption, ConsoleOK

\* Closing, with the close command or without.
LEMMA CloseType ==
    ASSUME ConsoleOK, NEW rest, rest \subseteq Entries, Close(rest)
    PROVE  ConsoleOK'
<1>1. CASE Continue("close") /\ rqEntries' = rest /\ UNCHANGED <<intf, attempt, clean>>
  BY <1>1, OpenAssumption
  DEF OpenAssumption, ConsoleOK, Continue, intf, Commands, Handshake
<1> QED
  BY <1>1, ShutType DEF Close

\* A payload that is not answered leaves the console well typed.
LEMMA FailType ==
    ASSUME ConsoleOK, NEW rest, rest \subseteq Entries, Fail(rest)
    PROVE  ConsoleOK'
<1> USE OpenAssumption DEF OpenAssumption
<1>1. CASE pc = "authcap" /\ attempt + 1 < Asks /\ AskAgain(rest)
  BY <1>1 DEF ConsoleOK, AskAgain, Continue, intf, Commands, Handshake
<1>2. CASE GiveUp(rest)
  BY <1>2, GiveUpType
<1>3. CASE Close(rest)
  BY <1>3, CloseType
<1>4. CASE Shut
  BY <1>4, ShutType
<1> QED
  BY <1>1, <1>2, <1>3, <1>4 DEF Fail

\* So does an expired wait.
LEMMA NoAnswerType ==
    ASSUME ConsoleOK, timeout \in Nat, lan2_timeout \in Nat,
           NEW again \in BOOLEAN, NoAnswer(again)
    PROVE  ConsoleOK' /\ timeout' \in Nat
<1>1. CASE itry + 1 < Retry /\ itry' = itry + 1
  <2>1. /\ itry' \in 0..(Retry - 1)
        /\ phase' \in {"send", "recv"}
        /\ timeout' \in Nat
        /\ UNCHANGED <<intf, pc, attempt, pending, rqEntries, clean>>
    BY <1>1, OpenAssumption DEF OpenAssumption, ConsoleOK, NoAnswer
  <2> QED
    BY <2>1 DEF ConsoleOK, intf
<1>2. CASE timeout' = lan2_timeout /\ Fail(rqEntries)
  BY <1>2, FailType DEF ConsoleOK
<1> QED
  BY <1>1, <1>2 DEF NoAnswer

\* Reading a packet leaves the rest well typed.
LEMMA ReadType ==
    ASSUME OthersOK, NEW p \in toConsole, Read(p),
           s' \in SessionData, timeout' \in Nat
    PROVE  OthersOK'
<1>1. toConsole' \subseteq Reply /\ dups' \in 0..MaxDups
  BY OpenAssumption DEF OpenAssumption, Read, OthersOK
<1>2. UNCHANGED <<config, lan2_timeout, toBMC, server, opens, n>>
  BY DEF Read
<1> QED
  BY <1>1, <1>2 DEF OthersOK, config, server

\* What is left of the list is of its type.
LEMMA RestType ==
    ASSUME ConsoleOK, NEW p
    PROVE  Rest(p) \subseteq rqEntries /\ Rest(p) \subseteq Entries
  BY DEF ConsoleOK, Rest, RestAfter

\* Sending: the message, the entry and the session's next state.
LEMMA TransmitType ==
    ASSUME ConsoleOK, OthersOK, Sending
    PROVE  /\ Message \in Request
           /\ Listed \subseteq Entries
           /\ Transmit => s' \in SessionData
<1>1. pc \in Commands \cup Handshake
  BY DEF Sending
<1>2. Message \in Request
  <2>1. (pc = "authcap" /\ attempt % 2 = 0) \in BOOLEAN
    BY Zenon
  <2>2. s.bmc_id \in 0..MaxIds /\ s.console_rand \in Nat /\ s.bmc_rand \in Nat
    BY DEF OthersOK, SessionData
  <2>3. (IF pc = "rakp3" THEN <<s.console_rand, s.bmc_rand>> ELSE NoMac) \in Nat \X Nat
    BY <2>2 DEF NoMac
  <2>4. n + 1 \in Nat
    BY DEF OthersOK
  <2> QED
    BY <1>1, <2>1, <2>2, <2>3, <2>4, Zenon DEF Message, Request
<1>3. Listed \subseteq Entries
  BY DEF Listed, SeqOf, ConsoleOK, OthersOK, Entries
<1>4. ASSUME Transmit
      PROVE  s' \in SessionData
  <2>1. (IF pc \in Handshake THEN Sent[pc] ELSE s.state) \in States
    BY DEF Handshake, Sent, States, OthersOK, SessionData
  <2>2. (IF pc = "rakp1" THEN n + 1 ELSE s.console_rand) \in Nat
    BY DEF OthersOK, SessionData
  <2> QED
    BY <1>4, <2>1, <2>2 DEF Transmit, OthersOK, SessionData
<1> QED
  BY <1>2, <1>3, <1>4

\* Taking an answer: what it leaves of the session's data.
LEMMA AnswerType ==
    ASSUME ConsoleOK, OthersOK, NEW p \in toConsole, Answer(p)
    PROVE  ConsoleOK' /\ OthersOK'
<1>1. p \in Reply
  BY DEF OthersOK
<1>2. Rest(p) \subseteq Entries
  BY RestType
<1>3. ASSUME NEW step \in {"idle", "opensess", "rakp1", "rakp3"}, Continue(step),
             rqEntries' \subseteq Entries, UNCHANGED <<intf, attempt, clean>>
      PROVE  ConsoleOK'
  <2>1. /\ pc' \in {"idle", "setup"} \cup Commands \cup Handshake
        /\ phase' = "send" /\ itry' \in 0..(Retry - 1) /\ pending' = pending
    BY <1>3, OpenAssumption DEF OpenAssumption, Continue, Commands, Handshake
  <2> QED
    BY <1>3, <2>1 DEF ConsoleOK, intf
<1>4. Take(p) => timeout' \in Nat /\ Read(p)
  BY DEF Take, OthersOK
<1>5. ASSUME NEW q, s' = [s EXCEPT !.state = q], q \in States
      PROVE  s' \in SessionData
  BY <1>5 DEF OthersOK, SessionData
<1>6. CASE TakeAuthCap(p)
  <2>1. ASSUME Continue("opensess") /\ rqEntries' = Rest(p) /\ UNCHANGED <<intf, attempt, clean>>
        PROVE  ConsoleOK'
    BY <1>2, <1>3, <2>1
  <2>2. ASSUME GiveUp(Rest(p)) \/ Fail(Rest(p))
        PROVE  ConsoleOK'
    BY <1>2, <2>2, FailType, GiveUpType
  <2>3. ConsoleOK'
    BY <1>6, <2>1, <2>2 DEF TakeAuthCap
  <2> QED
    BY <1>4, <1>6, <2>3, ReadType DEF TakeAuthCap, OthersOK
<1>7. CASE TakeOpenSession(p)
  <2>1. ASSUME Continue("rakp1") /\ UNCHANGED <<intf, attempt, rqEntries, clean>>
        PROVE  ConsoleOK'
    BY <1>3, <2>1 DEF ConsoleOK
  <2>2. ConsoleOK'
    BY <1>2, <1>7, <2>1, FailType DEF TakeOpenSession
  <2>3. s' \in SessionData
    BY <1>1, <1>7 DEF TakeOpenSession, OthersOK, SessionData, Reply, States
  <2> QED
    BY <1>4, <1>7, <2>2, <2>3, ReadType DEF TakeOpenSession
<1>8. CASE TakeRakp2(p)
  <2>1. ASSUME Continue("rakp3") /\ UNCHANGED <<intf, attempt, rqEntries, clean>>
        PROVE  ConsoleOK'
    BY <1>3, <2>1 DEF ConsoleOK
  <2>2. ConsoleOK'
    BY <1>2, <1>8, <2>1, FailType DEF TakeRakp2
  <2>3. s' \in SessionData
    BY <1>1, <1>8 DEF TakeRakp2, OthersOK, SessionData, Reply, States
  <2> QED
    BY <1>4, <1>8, <2>2, <2>3, ReadType DEF TakeRakp2
<1>9. CASE TakeRakp4(p)
  <2>1. CASE Activate
    <3>1. clean' \in BOOLEAN
      BY <2>1, Zenon DEF Activate
    <3>2. /\ pc' \in {"idle", "setpriv"} /\ phase' = "send"
          /\ itry' \in 0..(Retry - 1) /\ pending' = pending
      BY <2>1, OpenAssumption DEF OpenAssumption, Activate, Continue
    <3>3. ConsoleOK'
      <4>1. abort' \in BOOLEAN /\ UNCHANGED <<session, host, opened, fd, sockets, attempt, rqEntries>>
        BY <2>1 DEF Activate
      <4> QED
        BY <3>1, <3>2, <4>1 DEF ConsoleOK, Commands
    <3>4. s' \in SessionData
      BY <1>5, <2>1 DEF Activate, States
    <3> QED
      BY <1>4, <1>9, <3>3, <3>4, ReadType DEF TakeRakp4
  <2>2. CASE Fail(Rest(p)) /\ UNCHANGED s
    <3>1. s' \in SessionData
      BY <2>2 DEF OthersOK
    <3> QED
      BY <1>2, <1>4, <1>9, <2>2, <3>1, FailType, ReadType DEF TakeRakp4
  <2> QED
    BY <1>9, <2>1, <2>2 DEF TakeRakp4
<1>10. CASE TakePrivilege(p)
  <2>1. ASSUME Continue("idle") /\ rqEntries' = Rest(p) /\ UNCHANGED <<intf, attempt, clean>>
        PROVE  ConsoleOK'
    BY <1>2, <1>3, <2>1
  <2>2. ConsoleOK'
    BY <1>2, <1>10, <2>1, FailType DEF TakePrivilege
  <2> QED
    BY <1>4, <1>10, <2>2, ReadType DEF TakePrivilege, OthersOK
<1>11. CASE TakeClose(p)
  BY <1>4, <1>11, ShutType, ReadType DEF TakeClose, OthersOK
<1> QED
  BY <1>6, <1>7, <1>8, <1>9, <1>10, <1>11 DEF Answer

\* The BMC's answers, and what it keeps of a session.
LEMMA ServeType ==
    ASSUME ConsoleOK, OthersOK, IdsInv, NEW m \in toBMC, Serve(m)
    PROVE  ConsoleOK' /\ OthersOK'
<1> USE OpenAssumption DEF OpenAssumption
<1>1. m \in Request
  BY DEF OthersOK
<1>2. ASSUME NEW id \in 0..MaxIds, NEW rand \in Nat, NEW mac \in Nat \X Nat,
             NEW r \in {"ok", "error", "other"}, Respond(m, id, rand, mac, r)
      PROVE  toConsole' \subseteq Reply
  <2>1. [type |-> m.type, n |-> m.n, id |-> id, rand |-> rand, mac |-> mac, result |-> r] \in Reply
    BY <1>1 DEF Request, Reply
  <2> QED
    BY <1>2, <2>1 DEF Respond, OthersOK
<1>3. 0 \in 0..MaxIds /\ m.id \in 0..MaxIds /\ NoMac \in Nat \X Nat /\ m.n \in Nat
  BY <1>1 DEF Request, NoMac
<1>4. ASSUME m.type \in Named
      PROVE  m.id \in 1..MaxIds /\ bmc[m.id] \in Granting
  BY <1>4 DEF IdsInv, OthersOK
<1>5. ASSUME NEW i \in 1..MaxIds, NEW g \in Granting, bmc' = [bmc EXCEPT ![i] = g]
      PROVE  bmc' \in [1..MaxIds -> Granting]
  BY <1>5 DEF OthersOK
<1>6. toConsole' \subseteq Reply /\ bmc' \in [1..MaxIds -> Granting] /\ ids' \in 0..MaxIds
  <2>1. CASE ServeAuthCap(m)
    BY <1>2, <1>3, <2>1 DEF ServeAuthCap, OthersOK, server
  <2>2. CASE ServeOpenSession(m)
    <3>1. ids + 1 \in 1..MaxIds /\ ids' \in 0..MaxIds
      BY <2>2 DEF ServeOpenSession, OthersOK
    <3>2. bmc' \in [1..MaxIds -> Granting]
      BY <2>2, <3>1 DEF ServeOpenSession, OthersOK, Granting
    <3> QED
      BY <1>2, <1>3, <2>2, <3>1, <3>2 DEF ServeOpenSession
  <2>3. CASE ServeRakp1(m)
    <3>1. m.id \in 1..MaxIds /\ bmc[m.id].b + 1 \in Nat
      BY <1>4, <2>3 DEF ServeRakp1, Named, Granting
    <3>2. [st |-> "rakp", c |-> m.n, b |-> bmc[m.id].b + 1, admin |-> FALSE] \in Granting
      BY <1>3, <3>1 DEF Granting
    <3>3. bmc' \in [1..MaxIds -> Granting]
      BY <1>5, <2>3, <3>1, <3>2 DEF ServeRakp1
    <3>4. <<m.n, bmc[m.id].b + 1>> \in Nat \X Nat
      BY <1>3, <3>1
    <3> QED
      BY <1>2, <1>3, <2>3, <3>1, <3>3, <3>4 DEF ServeRakp1, OthersOK
  <2>4. CASE ServeRakp3(m)
    <3>1. m.id \in 1..MaxIds /\ <<bmc[m.id].c, bmc[m.id].b>> \in Nat \X Nat
      BY <1>4, <2>4 DEF ServeRakp3, Named, Granting
    <3>2. bmc' \in [1..MaxIds -> Granting]
      <4>1. ASSUME NEW q \in {"active", "closed"}, bmc' = [bmc EXCEPT ![m.id].st = q]
            PROVE  bmc' \in [1..MaxIds -> Granting]
        BY <4>1 DEF OthersOK, Granting
      <4> QED
        BY <2>4, <4>1 DEF ServeRakp3
    <3> QED
      BY <1>2, <1>3, <2>4, <3>1, <3>2 DEF ServeRakp3, OthersOK
  <2>5. CASE ServeSetPriv(m)
    <3>1. bmc' \in [1..MaxIds -> Granting]
      BY <2>5 DEF ServeSetPriv, OthersOK, Granting
    <3> QED
      BY <1>2, <1>3, <2>5, <3>1 DEF ServeSetPriv, OthersOK
  <2>6. CASE ServeClose(m)
    <3>1. bmc' \in [1..MaxIds -> Granting]
      BY <2>6 DEF ServeClose, OthersOK, Granting
    <3> QED
      BY <1>2, <1>3, <2>6, <3>1 DEF ServeClose, OthersOK
  <2>7. CASE Refuse(m)
    BY <1>2, <1>3, <2>7 DEF Refuse, OthersOK, server
  <2> QED
    BY <2>1, <2>2, <2>3, <2>4, <2>5, <2>6, <2>7 DEF Serve
<1>7. toBMC' \subseteq Request /\ dups' \in 0..MaxDups
  BY DEF Serve, OthersOK
<1>8. UNCHANGED <<config, intf, s, timeout, lan2_timeout, rqEntries, control, opens, n, clean>>
  BY DEF Serve
<1> QED
  BY <1>6, <1>7, <1>8 DEF ConsoleOK, OthersOK, config, intf, control

\* Every step keeps the types: one step of the proof per action of Next.
LEMMA TypeStep ==
    ASSUME TypeOK, IdsInv, [Next]_vars
    PROVE  TypeOK'
<1> SUFFICES ConsoleOK' /\ OthersOK'
  BY DEF TypeOK, ConsoleOK, OthersOK, Entries, SessionData, Granting
<1>0. ConsoleOK /\ OthersOK
  BY TypeParts
<1> USE OpenAssumption, <1>0 DEF OpenAssumption
<1>1. ASSUME NEW node \in Nodes, OpenLan2(node)
      PROVE  ConsoleOK' /\ OthersOK'
  <2>1. /\ pc' \in {"idle", "setup"} \cup Commands \cup Handshake
        /\ pending' \in Nodes \cup {NoNode}
    BY <1>1 DEF OpenLan2, Commands, Handshake
  <2>2. UNCHANGED <<config, intf, s, timeout, lan2_timeout, rqEntries, phase,
                    itry, attempt, network, server, opens, n, clean>>
    BY <1>1 DEF OpenLan2
  <2> QED
    BY <2>1, <2>2 DEF ConsoleOK, OthersOK, config, intf, network, server
<1>2. CASE CloseLan2
  <2>1. ConsoleOK'
    BY <1>2, CloseType DEF CloseLan2, ConsoleOK
  <2> QED
    BY <1>2, <2>1 DEF CloseLan2, OthersOK, config, network, server
<1>3. ASSUME Prepare
      PROVE  /\ OthersOK' \/ ~ (toBMC' \subseteq Request /\ toConsole' \subseteq Reply)
             /\ host' \in Nodes \cup {NoNode} /\ abort' \in BOOLEAN
             /\ phase' \in {"send", "recv"} /\ itry' \in 0..(Retry - 1)
             /\ pending' \in Nodes \cup {NoNode} /\ clean' \in BOOLEAN
  <2>1. /\ PreSession \in SessionData
        /\ timeout' \in Nat /\ lan2_timeout' \in Nat /\ opens' \in Nat
    BY <1>3 DEF Prepare, PreSession, SessionData, States, OthersOK
  <2>2. UNCHANGED <<config, phase, itry, dups, server, n, clean>> /\ s' = PreSession
    BY <1>3 DEF Prepare
  <2>3. host' = pending /\ pending' = NoNode /\ abort' \in BOOLEAN
    BY <1>3 DEF Prepare
  <2> QED
    BY <2>1, <2>2, <2>3 DEF ConsoleOK, OthersOK, config, server
<1>4. CASE Setup
  <2>1. /\ session' \in BOOLEAN /\ opened' \in BOOLEAN /\ rqEntries' \subseteq Entries
        /\ toBMC' \subseteq Request /\ toConsole' \subseteq Reply
    BY <1>4 DEF Setup, ConsoleOK
  <2>2. /\ fd' \in Nat /\ sockets' \subseteq Nat \ {0}
        /\ pc' = "authcap" /\ attempt' \in 0..(Asks - 1)
    BY <1>4 DEF Setup, ConsoleOK, OthersOK
  <2>3. Prepare
    BY <1>4 DEF Setup
  <2> QED
    BY <1>3, <2>1, <2>2, <2>3 DEF ConsoleOK, Commands
<1>5. CASE SetupFails
  <2>1. session' \in BOOLEAN /\ fd' \in Nat /\ rqEntries' \subseteq Entries
    <3>1. CASE session' = TRUE /\ UNCHANGED <<fd, rqEntries>>
      BY <3>1 DEF ConsoleOK
    <3>2. CASE session' = FALSE /\ fd' = 0 /\ rqEntries' = {}
      BY <3>2
    <3> QED
      BY <1>5, <3>1, <3>2 DEF SetupFails
  <2>2. pc' = "idle" /\ UNCHANGED <<opened, sockets, attempt, toBMC, toConsole>>
    BY <1>5 DEF SetupFails
  <2>3. Prepare
    BY <1>5 DEF SetupFails
  <2>4. OthersOK'
    BY <1>3, <2>2, <2>3 DEF OthersOK
  <2> QED
    BY <1>3, <2>1, <2>2, <2>3, <2>4 DEF ConsoleOK
<1>6. CASE Transmit
  <2>1. Sending
    BY <1>6 DEF Transmit
  <2>2. s' \in SessionData /\ toBMC' \subseteq Request /\ rqEntries' \subseteq Entries
    BY <1>6, <2>1, TransmitType DEF Transmit, OthersOK
  <2>3. /\ UNCHANGED <<config, intf, timeout, lan2_timeout, pc, itry, attempt,
                       pending, toConsole, dups, server, opens, clean>>
        /\ phase' = "recv" /\ n' \in Nat
    BY <1>6 DEF Transmit, OthersOK
  <2> QED
    BY <2>2, <2>3 DEF ConsoleOK, OthersOK, config, intf, server
<1>7. CASE SendFails
  <2>1. ConsoleOK'
    <3>1. rqEntries \subseteq Entries /\ Listed \subseteq Entries
      BY <1>7, TransmitType DEF ConsoleOK, SendFails
    <3> QED
      BY <1>7, <3>1, FailType DEF SendFails
  <2>2. UNCHANGED <<config, s, timeout, lan2_timeout, network, server, opens>> /\ n' \in Nat
    BY <1>7 DEF SendFails, OthersOK
  <2> QED
    BY <2>1, <2>2 DEF OthersOK, config, network, server
<1>8. CASE Timeout
  <2>1. ConsoleOK' /\ timeout' \in Nat
    BY <1>8, NoAnswerType DEF Timeout, OthersOK
  <2> QED
    BY <1>8, <2>1 DEF Timeout, OthersOK, config, network, server
<1>9. CASE RejectUnreadable
  <2>1. ConsoleOK' /\ timeout' \in Nat
    BY <1>9, NoAnswerType DEF RejectUnreadable, OthersOK
  <2>2. dups' \in 0..MaxDups
    BY <1>9 DEF RejectUnreadable, OthersOK
  <2> QED
    BY <1>9, <2>1, <2>2 DEF RejectUnreadable, OthersOK, config, server
<1>10. ASSUME NEW p \in toConsole, Skip(p)
       PROVE  ConsoleOK' /\ OthersOK'
  <2>1. s' \in SessionData /\ timeout' \in Nat
    BY <1>10 DEF Skip, OthersOK
  <2>2. OthersOK'
    BY <1>10, <2>1, ReadType DEF Skip
  <2> QED
    BY <1>10, <2>2 DEF Skip, ConsoleOK, intf, control
<1>11. ASSUME NEW p \in toConsole, Reject(p)
       PROVE  ConsoleOK' /\ OthersOK'
  <2>1. ConsoleOK' /\ timeout' \in Nat
    BY <1>11, NoAnswerType DEF Reject, OthersOK
  <2>2. s' \in SessionData
    BY <1>11 DEF Reject, OthersOK
  <2> QED
    BY <1>11, <2>1, <2>2, ReadType DEF Reject
<1>12. CASE UNCHANGED vars
  BY <1>12 DEF vars, config, intf, control, network, server, ConsoleOK, OthersOK
<1> QED
  BY <1>1, <1>2, <1>4, <1>5, <1>6, <1>7, <1>8, <1>9, <1>10, <1>11, <1>12,
     AnswerType, ServeType DEF Next, Engine

-----------------------------------------------------------------------------
(* How the console moves, and what each kind of move keeps.                *)

\* The initial state has no session.
LEMMA InvInit == Init => SessionInv
<1> SUFFICES ASSUME Init PROVE SessionInv
  OBVIOUS
<1>1. ~ opened /\ ~ session /\ pc = "idle" /\ toBMC = {} /\ toConsole = {}
  BY DEF Init
<1>2. \A i \in 1..MaxIds : bmc[i].st = "none"
  BY DEF Init, NoSession
<1> QED
  BY <1>1, <1>2 DEF SessionInv, StateInv, IntfInv, IdsInv, WireInv, ActiveInv,
     AdminInv, CleanInv, Agreement, Live, Granted

\* The BMC and its clients are as they were, but for replies that were read.
Quiet ==
    /\ UNCHANGED <<config, server, toBMC>>
    /\ toConsole' \subseteq toConsole

\* What remains to be shown of the BMC's part when only replies were read.
LEMMA QuietKeeps ==
    ASSUME SessionInv, Quiet
    PROVE  /\ AdminInv'
           /\ \A m \in toBMC' : m.type \in Named => m.id \in 1..MaxIds
           /\ \A p \in toConsole' :
                p.type = "opensess" /\ p.result # "error" => p.id \in 1..MaxIds
           /\ \A i \in 1..MaxIds : i > ids' => bmc'[i].st = "none"
  BY DEF SessionInv, AdminInv, IdsInv, Quiet, server

\* An end: the console is idle or about to begin, and nothing is open.
LEMMA EndKeeps ==
    ASSUME SessionInv, Quiet, pc' \in {"idle", "setup"}, ~ opened',
           ~ session' \/ s'.state # "ACTIVE"
    PROVE  SessionInv'
<1>1. StateInv' /\ IntfInv' /\ CleanInv' /\ Agreement'
  BY DEF StateInv, IntfInv, CleanInv, Agreement, Live
<1>2. IdsInv' /\ AdminInv'
  BY QuietKeeps DEF IdsInv, Granted
<1>3. WireInv' /\ ActiveInv'
  BY DEF WireInv, ActiveInv, Live
<1> QED
  BY <1>1, <1>2, <1>3 DEF SessionInv

\* The console stays where it is.
LEMMA HoldKeeps ==
    ASSUME SessionInv, Quiet, UNCHANGED <<intf, s, pc, clean>>,
           pc = "setpriv" => rqEntries' \subseteq rqEntries
    PROVE  SessionInv'
<1>1. StateInv' /\ IntfInv' /\ Agreement'
  BY DEF SessionInv, StateInv, IntfInv, Agreement, Live, Quiet, intf, config, server
<1>2. IdsInv' /\ AdminInv'
  BY QuietKeeps DEF SessionInv, IdsInv, Granted, intf
<1>3. WireInv' /\ ActiveInv'
  BY DEF SessionInv, WireInv, ActiveInv, Live, Quiet, intf, server
<1>4. CleanInv'
  BY DEF SessionInv, CleanInv
<1> QED
  BY <1>1, <1>2, <1>3, <1>4 DEF SessionInv

\* An open session goes on to the close command.
LEMMA ClosingKeeps ==
    ASSUME SessionInv, Quiet, UNCHANGED <<intf, s>>, pc' = "close",
           pc = "setpriv" \/ (pc = "idle" /\ opened)
    PROVE  SessionInv'
<1>1. StateInv' /\ IntfInv' /\ Agreement' /\ CleanInv'
  BY DEF SessionInv, StateInv, IntfInv, Agreement, CleanInv, Live, intf
<1>2. IdsInv' /\ AdminInv'
  BY QuietKeeps DEF SessionInv, IdsInv, Granted
<1>3. WireInv' /\ ActiveInv'
  BY DEF WireInv, ActiveInv, Live
<1> QED
  BY <1>1, <1>2, <1>3 DEF SessionInv

\* Shutting down is an end.
LEMMA ShutKeeps ==
    ASSUME SessionInv, Quiet, Shut
    PROVE  SessionInv'
  BY EndKeeps DEF Shut, Continue

\* Whatever becomes of a payload that is not answered.
LEMMA FailKeeps ==
    ASSUME SessionInv, Quiet, NEW rest, Fail(rest), s' = s \/ pc \in Handshake
    PROVE  SessionInv'
<1>1. CASE pc = "authcap" /\ AskAgain(rest)
  <2>1. UNCHANGED <<intf, pc, clean, s>>
    BY <1>1 DEF AskAgain, Continue, Handshake
  <2> QED
    BY <1>1, <2>1, HoldKeeps
<1>2. CASE pc = "authcap" /\ GiveUp(rest)
  <2>1. s' = s /\ s.state = "PRESESSION"
    BY <1>2 DEF SessionInv, StateInv, Handshake
  <2> QED
    BY <1>2, <2>1, EndKeeps DEF GiveUp, Continue
<1>3. CASE pc \in Handshake \cup {"setpriv"} /\ Close(rest)
  <2>1. CASE s.state = "ACTIVE" /\ Continue("close") /\ UNCHANGED intf
    <3>1. pc = "setpriv" /\ s' = s
      BY <1>3, <2>1 DEF SessionInv, StateInv, Handshake
    <3> QED
      BY <2>1, <3>1, ClosingKeeps DEF Continue
  <2> QED
    BY <1>3, <2>1, ShutKeeps DEF Close
<1>4. CASE Shut
  BY <1>4, ShutKeeps
<1> QED
  BY <1>1, <1>2, <1>3, <1>4 DEF Fail

\* An expired wait, or a packet that is no answer.
LEMMA NoAnswerKeeps ==
    ASSUME SessionInv, Quiet, NEW again, NoAnswer(again), s' = s
    PROVE  SessionInv'
<1>1. CASE UNCHANGED <<intf, pc, rqEntries, clean>>
  BY <1>1, HoldKeeps
<1>2. CASE Fail(rqEntries)
  BY <1>2, FailKeeps
<1> QED
  BY <1>1, <1>2 DEF NoAnswer

-----------------------------------------------------------------------------
(* The answers, the transmissions and the BMC.                             *)

\* A reply of the handshake that is taken is the one that is waited for.
LEMMA TakenReply ==
    ASSUME SessionInv, NEW p \in toConsole, Expected(p), p.type \in Handshake
    PROVE  pc \in Handshake => p.type = pc
  BY DEF SessionInv, StateInv, Expected, Handshake, Sent

\* Reading leaves the BMC as it was.
LEMMA ReadIsQuiet ==
    ASSUME NEW p \in toConsole, Read(p)
    PROVE  Quiet
  BY DEF Read, Quiet

\* An answer that moves the handshake on, or that ends it.
LEMMA AnswerKeeps ==
    ASSUME SessionInv, TypeOK, NEW p \in toConsole, Answer(p)
    PROVE  SessionInv'
<1>1. Take(p)
  BY DEF Answer, TakeAuthCap, TakeOpenSession, TakeRakp2, TakeRakp4, TakePrivilege, TakeClose
<1>2. Quiet /\ Expected(p)
  BY <1>1, ReadIsQuiet DEF Take
<1>3. s \in SessionData /\ p \in Reply
  BY TypeParts DEF OthersOK
<1>4. CASE TakeAuthCap(p)
  <2>1. CASE Continue("opensess") /\ UNCHANGED <<intf, attempt, clean>>
    <3>1. pc = "authcap" /\ pc' = "opensess" /\ s' = s
      BY <1>4, <2>1 DEF TakeAuthCap, Continue
    <3>2. StateInv' /\ IntfInv' /\ CleanInv' /\ Agreement'
      BY <2>1, <3>1 DEF SessionInv, StateInv, IntfInv, CleanInv, Agreement, Live, intf
    <3>3. IdsInv' /\ AdminInv'
      BY <1>2, <3>1, QuietKeeps DEF IdsInv, Granted
    <3>4. WireInv' /\ ActiveInv'
      BY <1>2, <3>1 DEF SessionInv, WireInv, ActiveInv, Live, Quiet, server
    <3> QED
      BY <3>2, <3>3, <3>4 DEF SessionInv
  <2>2. CASE GiveUp(Rest(p))
    <3>1. s' = s /\ s.state = "PRESESSION"
      BY <1>4 DEF TakeAuthCap, SessionInv, StateInv
    <3> QED
      BY <1>2, <2>2, <3>1, EndKeeps DEF GiveUp, Continue
  <2>3. CASE Fail(Rest(p))
    BY <1>2, <1>4, <2>3, FailKeeps DEF TakeAuthCap
  <2> QED
    BY <1>4, <2>1, <2>2, <2>3 DEF TakeAuthCap
<1>5. CASE TakeOpenSession(p)
  <2>1. CASE Good(p) /\ Continue("rakp1") /\ UNCHANGED <<intf, attempt, rqEntries, clean>>
    <3>1. p.type = "opensess" /\ p.result = "ok"
      BY <1>2, <1>5, <2>1, TakenReply DEF TakeOpenSession, Good, Handshake
    <3>2. pc = "opensess" /\ pc' = "rakp1"
      BY <1>5, <2>1 DEF TakeOpenSession, Continue
    <3>3. s'.state = "OPEN_SESSION_RECEIVED" /\ s'.bmc_id = p.id
      BY <1>3, <1>5, <3>1 DEF TakeOpenSession, Handshake, SessionData
    <3>4. StateInv' /\ IntfInv' /\ CleanInv' /\ Agreement'
      BY <2>1, <3>2, <3>3 DEF SessionInv, StateInv, IntfInv, CleanInv, Agreement, Live, intf
    <3>5. IdsInv' /\ AdminInv'
      <4>1. p.id \in 1..MaxIds
        BY <3>1 DEF SessionInv, IdsInv
      <4> QED
        BY <1>2, <3>3, <4>1, QuietKeeps DEF IdsInv
    <3>6. WireInv' /\ ActiveInv'
      BY <1>2, <3>2 DEF SessionInv, WireInv, ActiveInv, Live, Quiet, server
    <3> QED
      BY <3>4, <3>5, <3>6 DEF SessionInv
  <2>2. CASE Fail(Rest(p))
    BY <1>2, <1>5, <2>2, FailKeeps DEF TakeOpenSession, Handshake
  <2> QED
    BY <1>5, <2>1, <2>2 DEF TakeOpenSession
<1>6. CASE TakeRakp2(p)
  <2>1. CASE Continue("rakp3") /\ UNCHANGED <<intf, attempt, rqEntries, clean>>
    <3>1. pc = "rakp1" /\ pc' = "rakp3"
      BY <1>6, <2>1 DEF TakeRakp2, Continue
    <3>2. s'.state = "RAKP_2_RECEIVED" /\ s'.bmc_id = s.bmc_id
      BY <1>3, <1>6 DEF TakeRakp2, SessionData
    <3>3. StateInv' /\ IntfInv' /\ CleanInv' /\ Agreement'
      BY <2>1, <3>1, <3>2 DEF SessionInv, StateInv, IntfInv, CleanInv, Agreement, Live, intf
    <3>4. IdsInv' /\ AdminInv'
      <4>1. s.bmc_id \in 1..MaxIds
        BY <3>1 DEF SessionInv, IdsInv, Granted
      <4> QED
        BY <1>2, <3>2, <4>1, QuietKeeps DEF IdsInv
    <3>5. WireInv' /\ ActiveInv'
      BY <1>2, <3>1, <3>2 DEF SessionInv, WireInv, ActiveInv, Live, Quiet, server
    <3> QED
      BY <3>3, <3>4, <3>5 DEF SessionInv
  <2>2. CASE Fail(Rest(p))
    BY <1>2, <1>6, <2>2, FailKeeps DEF TakeRakp2, Handshake
  <2> QED
    BY <1>6, <2>1, <2>2 DEF TakeRakp2
<1>7. CASE TakeRakp4(p)
  <2>1. CASE Good(p) /\ Authentic(p, s.console_rand, s.bmc_rand) /\ Activate
    <3>1. pc = "rakp3" /\ pc' = IF admin THEN "setpriv" ELSE "idle"
      BY <1>7, <2>1 DEF TakeRakp4, Activate, Continue
    <3>2. p.type = "rakp3" /\ p.result = "ok"
      BY <1>2, <2>1, <3>1, TakenReply DEF Good, Handshake
    <3>3. /\ s'.state = "ACTIVE" /\ s'.bmc_id = s.bmc_id
          /\ s'.console_rand = s.console_rand /\ s'.bmc_rand = s.bmc_rand
      BY <1>3, <2>1 DEF Activate, SessionData
    <3>4. UNCHANGED <<session, opened, fd, sockets, rqEntries>> /\ ~ abort'
      BY <2>1 DEF Activate
    <3>5. session /\ opened /\ fd \in sockets
      BY <3>1 DEF SessionInv, IntfInv, Live
    <3>6. p.id = s.bmc_id /\ s.bmc_id \in 1..MaxIds
      BY <3>1, <3>2 DEF SessionInv, WireInv, IdsInv, Live, Granted
    <3>7. bmc[s.bmc_id].st = "active" /\ p.mac = <<bmc[s.bmc_id].c, bmc[s.bmc_id].b>>
      BY <3>1, <3>2, <3>6 DEF SessionInv, ActiveInv, Live
    <3>8. StateInv' /\ IntfInv'
      BY <3>1, <3>3, <3>4, <3>5 DEF StateInv, IntfInv
    <3>9. IdsInv' /\ AdminInv'
      BY <1>2, <3>3, <3>6, QuietKeeps DEF IdsInv
    <3>10. WireInv' /\ ActiveInv'
      BY <1>2, <3>1, <3>3 DEF SessionInv, WireInv, ActiveInv, Live, Quiet, server
    <3>11. CleanInv'
      <4>1. clean' => rqEntries = {}
        BY <2>1, Zenon DEF Activate
      <4> QED
        BY <3>4, <4>1 DEF CleanInv
    <3>12. Agreement'
      <4>1. UNCHANGED <<bmc, auth, admin>>
        BY <1>2 DEF Quiet, server, config
      <4>2. auth = "hmac" => /\ bmc[s.bmc_id].c = s.console_rand
                             /\ bmc[s.bmc_id].b = s.bmc_rand
        BY <2>1, <3>7 DEF Authentic
      <4> QED
        BY <3>1, <3>3, <3>7, <4>1, <4>2 DEF Agreement
    <3> QED
      BY <3>8, <3>9, <3>10, <3>11, <3>12 DEF SessionInv
  <2>2. CASE Fail(Rest(p))
    BY <1>2, <1>7, <2>2, FailKeeps DEF TakeRakp4, Handshake
  <2> QED
    BY <1>7, <2>1, <2>2 DEF TakeRakp4
<1>8. CASE TakePrivilege(p)
  <2>1. CASE p.result # "error" /\ Continue("idle") /\ UNCHANGED <<intf, attempt, clean>>
    <3>1. pc = "setpriv" /\ pc' = "idle" /\ s' = s
      BY <1>8, <2>1 DEF TakePrivilege, Continue
    <3>2. session /\ opened /\ fd \in sockets /\ s.state = "ACTIVE" /\ ~ abort
      BY <3>1 DEF SessionInv, IntfInv, StateInv, Live
    <3>3. clean => p.type = "setpriv"
      <4>1. p.type \notin Handshake
        BY <1>2, <3>2 DEF Expected, Handshake, Sent
      <4>2. PICK e \in Matches(p) : TRUE
        BY <1>2, <1>3, <4>1 DEF Expected, Reply
      <4> QED
        BY <3>1, <4>2 DEF SessionInv, CleanInv, Matches
    <3>4. s.bmc_id \in 1..MaxIds
      BY <3>1 DEF SessionInv, IdsInv, Granted
    <3>5. clean => bmc[s.bmc_id].admin
      BY <2>1, <3>1, <3>3, <3>4 DEF SessionInv, WireInv, AdminInv, Live
    <3>6. StateInv' /\ IntfInv' /\ CleanInv'
      BY <2>1, <3>1, <3>2 DEF StateInv, IntfInv, CleanInv, intf
    <3>7. IdsInv' /\ AdminInv'
      BY <1>2, <3>1, <3>4, QuietKeeps DEF IdsInv
    <3>8. WireInv' /\ ActiveInv'
      BY <1>2, <3>1 DEF SessionInv, WireInv, ActiveInv, Live, Quiet, server
    <3>9. Agreement'
      <4>1. UNCHANGED <<bmc, auth, admin, clean, session, opened>>
        BY <1>2, <2>1 DEF Quiet, server, config, intf
      <4> QED
        BY <3>1, <3>2, <3>5, <4>1 DEF SessionInv, Agreement
    <3> QED
      BY <3>6, <3>7, <3>8, <3>9 DEF SessionInv
  <2>2. CASE Fail(Rest(p))
    BY <1>2, <1>8, <2>2, FailKeeps DEF TakePrivilege
  <2> QED
    BY <1>8, <2>1, <2>2 DEF TakePrivilege
<1>9. CASE TakeClose(p)
  BY <1>2, <1>9, ShutKeeps DEF TakeClose
<1> QED
  BY <1>4, <1>5, <1>6, <1>7, <1>8, <1>9 DEF Answer

\* A transmission of this session's payload.
LEMMA TransmitKeeps ==
    ASSUME SessionInv, TypeOK, Transmit
    PROVE  SessionInv'
<1>1. s \in SessionData /\ toBMC \subseteq Request
  BY TypeParts DEF OthersOK
<1>2. /\ pc \in Commands \cup Handshake /\ Buildable
      /\ toBMC' = toBMC \cup {Message} /\ rqEntries' = Listed
      /\ UNCHANGED <<config, intf, pc, toConsole, server, clean>>
  BY DEF Transmit, Sending
<1>3. /\ s'.bmc_id = s.bmc_id
      /\ s'.state = IF pc \in Handshake THEN Sent[pc] ELSE s.state
      /\ s'.bmc_rand = s.bmc_rand
      /\ pc # "rakp1" => s'.console_rand = s.console_rand
  BY <1>1 DEF Transmit, SessionData
<1>4. Message.type = pc /\ Message.id = s.bmc_id
  BY DEF Message
<1>5. StateInv'
  BY <1>2, <1>3 DEF SessionInv, StateInv, Handshake, Sent, Commands
<1>6. IntfInv' /\ Agreement'
  <2>1. session /\ s'.state = "ACTIVE" => s.state = "ACTIVE" /\ pc # "rakp1"
    BY <1>2, <1>3 DEF SessionInv, StateInv, Handshake, Sent, Commands
  <2> QED
    BY <1>2, <1>3, <2>1
    DEF SessionInv, IntfInv, Agreement, Live, intf, server, config, Commands, Handshake
<1>7. IdsInv'
  <2>1. pc \in Named => s.bmc_id \in 1..MaxIds
    BY DEF SessionInv, IdsInv, Granted, Named
  <2>2. Granted => s.bmc_id \in 1..MaxIds
    BY DEF SessionInv, IdsInv
  <2> QED
    BY <1>2, <1>3, <1>4, <2>1, <2>2 DEF SessionInv, IdsInv, Granted, server, intf
<1>8. WireInv'
  <2>1. Live' => Live /\ pc # "close"
    BY <1>2 DEF Live, intf
  <2> QED
    BY <1>2, <1>3, <1>4, <2>1 DEF SessionInv, WireInv
<1>9. ActiveInv' /\ AdminInv'
  BY <1>2 DEF SessionInv, ActiveInv, AdminInv, Live, server, intf
<1>10. CleanInv'
  <2>1. ASSUME pc = "setpriv", NEW e \in Listed, e \notin rqEntries
        PROVE  e.cmd = "setpriv"
    BY <2>1 DEF Listed
  <2> QED
    BY <1>2, <2>1 DEF SessionInv, CleanInv
<1> QED
  BY <1>5, <1>6, <1>7, <1>8, <1>9, <1>10 DEF SessionInv

\* A new socket: nothing is on its way, and the BMC has no session for it yet.
LEMMA SetupKeeps ==
    ASSUME SessionInv, TypeOK, Setup
    PROVE  SessionInv'
<1>1. /\ pc' = "authcap" /\ session' /\ opened' /\ fd' \in sockets'
      /\ toBMC' = {} /\ toConsole' = {}
  BY DEF Setup
<1>2. s'.state = "PRESESSION" /\ UNCHANGED server
  BY DEF Setup, Prepare, PreSession
<1>3. StateInv' /\ IntfInv' /\ CleanInv' /\ Agreement'
  BY <1>1, <1>2 DEF StateInv, IntfInv, CleanInv, Agreement, Live
<1>4. IdsInv' /\ WireInv' /\ ActiveInv' /\ AdminInv'
  BY <1>1, <1>2 DEF SessionInv, IdsInv, WireInv, ActiveInv, AdminInv, Granted, server
<1> QED
  BY <1>3, <1>4 DEF SessionInv

\* A session of the BMC that is active stays so unless it is asked to close it,
\* and one that has the privilege keeps it.
LEMMA ServeKeepsSessions ==
    ASSUME SessionInv, TypeOK, NEW m \in toBMC, Serve(m), NEW i \in 1..MaxIds
    PROVE  /\ bmc[i].st = "active" /\ m.type # "close" =>
                bmc'[i].st = "active" /\ bmc'[i].c = bmc[i].c /\ bmc'[i].b = bmc[i].b
           /\ bmc[i].admin /\ bmc[i].st \in {"active", "closed"} =>
                bmc'[i].admin /\ bmc'[i].st \in {"active", "closed"}
           /\ i > ids' => bmc'[i].st = "none"
<1>1. bmc \in [1..MaxIds -> Granting] /\ ids \in 0..MaxIds
  BY TypeParts DEF OthersOK
<1>2. m.type \in Named => m.id \in 1..MaxIds
  BY DEF SessionInv, IdsInv
<1>3. \A j \in 1..MaxIds : j > ids => bmc[j].st = "none"
  BY DEF SessionInv, IdsInv
<1>4. CASE UNCHANGED server
  BY <1>3, <1>4 DEF server
<1>5. CASE ServeOpenSession(m)
  <2>1. /\ ids + 1 \in 1..MaxIds /\ ids' = ids + 1 /\ bmc[ids + 1].st = "none"
        /\ bmc' = [bmc EXCEPT ![ids + 1].st = "open"]
    BY <1>1, <1>3, <1>5, OpenAssumption DEF OpenAssumption, ServeOpenSession
  <2>2. CASE i = ids + 1
    BY <1>1, <2>1, <2>2 DEF Granting
  <2>3. CASE i # ids + 1
    <3>1. bmc'[i] = bmc[i]
      BY <1>1, <2>1, <2>3
    <3> QED
      BY <1>1, <1>3, <2>1, <3>1
  <2> QED
    BY <2>2, <2>3
<1>6. CASE ServeRakp1(m)
  BY <1>1, <1>2, <1>3, <1>6 DEF ServeRakp1, Named, Granting
<1>7. CASE ServeRakp3(m)
  <2>1. /\ m.id \in 1..MaxIds /\ bmc[m.id].st = "rakp" /\ ids' = ids
        /\ \E q \in {"active", "closed"} : bmc' = [bmc EXCEPT ![m.id].st = q]
    BY <1>2, <1>7 DEF ServeRakp3, Named
  <2> QED
    BY <1>1, <1>3, <2>1 DEF Granting
<1>8. CASE ServeSetPriv(m)
  BY <1>1, <1>2, <1>3, <1>8 DEF ServeSetPriv, Named, Granting
<1>9. CASE ServeClose(m)
  BY <1>1, <1>2, <1>3, <1>9 DEF ServeClose, Named, Granting
<1> QED
  BY <1>4, <1>5, <1>6, <1>7, <1>8, <1>9 DEF Serve, ServeAuthCap, Refuse

\* What the reply r to the message m says.
Says(m, r) ==
    /\ toConsole' = toConsole \cup {r}
    /\ r.type = m.type
    /\ m.type \in Named => r.id = m.id
    /\ r.type = "opensess" /\ r.result # "error" => r.id \in 1..MaxIds
    /\ r.type = "rakp3" /\ r.result = "ok" =>
         bmc'[r.id].st = "active" /\ r.mac = <<bmc'[r.id].c, bmc'[r.id].b>>
    /\ r.type = "setpriv" /\ r.result # "error" =>
         bmc'[r.id].admin /\ bmc'[r.id].st \in {"active", "closed"}

\* The BMC's reply speaks of the session that the message named, as it is then.
LEMMA ServeReply ==
    ASSUME SessionInv, TypeOK, NEW m \in toBMC, Serve(m)
    PROVE  \E r : Says(m, r)
<1>1. bmc \in [1..MaxIds -> Granting] /\ ids \in 0..MaxIds
  BY TypeParts DEF OthersOK
<1>2. m.type \in Named => m.id \in 1..MaxIds
  BY DEF SessionInv, IdsInv
<1>3. ASSUME NEW id, NEW rand, NEW mac, NEW result,
             Respond(m, id, rand, mac, result),
             m.type \in Named => id = m.id,
             m.type = "opensess" /\ result # "error" => id \in 1..MaxIds,
             m.type = "rakp3" /\ result = "ok" =>
                 bmc'[id].st = "active" /\ mac = <<bmc'[id].c, bmc'[id].b>>,
             m.type = "setpriv" /\ result # "error" =>
                 bmc'[id].admin /\ bmc'[id].st \in {"active", "closed"}
      PROVE  \E r : Says(m, r)
  <2> DEFINE r == [type |-> m.type, n |-> m.n, id |-> id, rand |-> rand,
                   mac |-> mac, result |-> result]
  <2>1. Says(m, r)
    BY <1>3 DEF Respond, Says
  <2> QED
    BY <2>1
<1>4. CASE ServeAuthCap(m)
  <2>1. PICK q \in {"ok", "other"} : Respond(m, 0, 0, NoMac, q)
    BY <1>4 DEF ServeAuthCap
  <2> QED
    BY <1>3, <1>4, <2>1 DEF ServeAuthCap, Named
<1>5. CASE ServeOpenSession(m)
  <2>1. PICK q \in {"ok", "other"} : Respond(m, ids + 1, 0, NoMac, q)
    BY <1>5 DEF ServeOpenSession
  <2>2. ids + 1 \in 1..MaxIds /\ m.type = "opensess"
    BY <1>1, <1>5, OpenAssumption DEF OpenAssumption, ServeOpenSession
  <2> QED
    BY <1>3, <2>1, <2>2 DEF Named
<1>6. CASE ServeRakp1(m)
  <2>1. m.type = "rakp1"
    BY <1>6 DEF ServeRakp1
  <2>2. PICK b, mac : Respond(m, m.id, b, mac, "ok")
    BY <1>6 DEF ServeRakp1
  <2> QED
    BY <1>3, <2>1, <2>2
<1>7. CASE ServeRakp3(m)
  <2>1. m.type = "rakp3" /\ m.id \in 1..MaxIds
    BY <1>2, <1>7 DEF ServeRakp3, Named
  <2>2. CASE Proven(m)
    <3>1. /\ bmc' = [bmc EXCEPT ![m.id].st = "active"]
          /\ Respond(m, m.id, 0, <<bmc[m.id].c, bmc[m.id].b>>, "ok")
      BY <1>7, <2>2 DEF ServeRakp3
    <3>2. bmc'[m.id].st = "active" /\ bmc'[m.id].c = bmc[m.id].c /\ bmc'[m.id].b = bmc[m.id].b
      BY <1>1, <2>1, <3>1 DEF Granting
    <3> QED
      BY <1>3, <2>1, <3>1, <3>2
  <2>3. CASE ~ Proven(m)
    <3>1. Respond(m, m.id, 0, NoMac, "error")
      BY <1>7, <2>3 DEF ServeRakp3
    <3> QED
      BY <1>3, <2>1, <3>1
  <2> QED
    BY <2>2, <2>3
<1>8. CASE ServeSetPriv(m)
  <2>1. /\ m.type = "setpriv" /\ bmc[m.id].st = "active"
        /\ bmc' = [bmc EXCEPT ![m.id].admin = TRUE]
        /\ Respond(m, m.id, 0, NoMac, "ok")
    BY <1>8 DEF ServeSetPriv
  <2>2. bmc'[m.id].admin /\ bmc'[m.id].st = "active"
    BY <1>1, <1>2, <2>1 DEF Named, Granting
  <2> QED
    BY <1>3, <2>1, <2>2
<1>9. CASE ServeClose(m)
  BY <1>3, <1>9 DEF ServeClose
<1>10. CASE Refuse(m)
  BY <1>3, <1>10 DEF Refuse
<1> QED
  BY <1>4, <1>5, <1>6, <1>7, <1>8, <1>9, <1>10 DEF Serve

\* The BMC serves a message.
LEMMA ServeKeeps ==
    ASSUME SessionInv, TypeOK, NEW m \in toBMC, Serve(m)
    PROVE  SessionInv'
<1>1. PICK r : Says(m, r)
  BY ServeReply
<1>2. /\ toBMC' \subseteq toBMC
      /\ UNCHANGED <<config, intf, s, rqEntries, control, clean>>
  BY DEF Serve
<1>3. StateInv' /\ IntfInv' /\ CleanInv'
  BY <1>2 DEF SessionInv, StateInv, IntfInv, CleanInv, Live, intf, control
<1>4. IdsInv'
  <2>1. \A i \in 1..MaxIds : i > ids' => bmc'[i].st = "none"
    BY ServeKeepsSessions
  <2> QED
    BY <1>1, <1>2, <2>1 DEF SessionInv, IdsInv, Granted, intf, control, Says
<1>5. WireInv'
  BY <1>1, <1>2 DEF SessionInv, WireInv, Live, intf, control, Named, Says
<1>6. ActiveInv'
  <2>1. SUFFICES ASSUME Live, NEW p \in toConsole', p.type = "rakp3", p.result = "ok",
                        p.id \in 1..MaxIds
                 PROVE  bmc'[p.id].st = "active" /\ p.mac = <<bmc'[p.id].c, bmc'[p.id].b>>
    BY <1>2 DEF ActiveInv, Live, intf, control
  <2>2. CASE p \in toConsole
    <3>1. bmc[p.id].st = "active" /\ p.mac = <<bmc[p.id].c, bmc[p.id].b>>
      BY <2>1, <2>2 DEF SessionInv, ActiveInv
    <3>2. m.type # "close"
      BY <2>1 DEF SessionInv, WireInv
    <3> QED
      BY <2>1, <3>1, <3>2, ServeKeepsSessions
  <2> QED
    BY <1>1, <2>1, <2>2 DEF Says
<1>7. AdminInv'
  <2>1. SUFFICES ASSUME NEW p \in toConsole', p.type = "setpriv", p.result # "error",
                        p.id \in 1..MaxIds
                 PROVE  bmc'[p.id].admin /\ bmc'[p.id].st \in {"active", "closed"}
    BY DEF AdminInv
  <2>2. CASE p \in toConsole
    BY <2>1, <2>2, ServeKeepsSessions DEF SessionInv, AdminInv
  <2> QED
    BY <1>1, <2>1, <2>2 DEF Says
<1>8. Agreement'
  <2>1. UNCHANGED <<session, opened, pc, s, auth, admin, clean>>
    BY <1>2 DEF config, intf, control
  <2>2. CASE session /\ s.state = "ACTIVE" /\ pc # "close"
    <3>1. Live /\ s.bmc_id \in 1..MaxIds
      BY <2>2 DEF SessionInv, IntfInv, IdsInv, Live, Granted
    <3>2. m.type # "close"
      BY <3>1 DEF SessionInv, WireInv
    <3>3. bmc[s.bmc_id].st = "active"
      BY <2>2 DEF SessionInv, Agreement
    <3>4. /\ bmc'[s.bmc_id].st = "active" /\ bmc'[s.bmc_id].c = bmc[s.bmc_id].c
          /\ bmc'[s.bmc_id].b = bmc[s.bmc_id].b
          /\ bmc[s.bmc_id].admin => bmc'[s.bmc_id].admin
      BY <3>1, <3>2, <3>3, ServeKeepsSessions
    <3> QED
      BY <2>1, <3>4 DEF SessionInv, Agreement
  <2>3. CASE ~ (session /\ s.state = "ACTIVE" /\ pc # "close")
    <3>1. ~ (pc = "idle" /\ opened)
      BY <2>3 DEF SessionInv, IntfInv, StateInv, Live
    <3> QED
      BY <2>1, <2>3, <3>1 DEF Agreement
  <2> QED
    BY <2>2, <2>3
<1> QED
  BY <1>3, <1>4, <1>5, <1>6, <1>7, <1>8 DEF SessionInv

-----------------------------------------------------------------------------
(* The theorems.                                                           *)

\* Every step keeps the invariant: one step of the proof per action of Next.
LEMMA InvStep ==
    ASSUME SessionInv, TypeOK, [Next]_vars
    PROVE  SessionInv'
<1>1. ASSUME NEW node \in Nodes, OpenLan2(node)
      PROVE  SessionInv'
  <2>1. /\ Quiet /\ UNCHANGED <<intf, s, clean>>
        /\ pc = "idle"
    BY <1>1 DEF OpenLan2, Quiet, network, server
  <2>2. CASE opened /\ pc' = "close"
    BY <2>1, <2>2, ClosingKeeps
  <2>3. CASE ~ opened /\ pc' = "setup"
    <3>1. ~ session \/ s.state # "ACTIVE"
      BY <2>1, <2>3 DEF SessionInv, IntfInv
    <3> QED
      BY <2>1, <2>3, <3>1, EndKeeps DEF intf
  <2> QED
    BY <1>1, <2>2, <2>3 DEF OpenLan2
<1>2. CASE CloseLan2
  <2>1. Quiet /\ pc = "idle" /\ opened /\ s' = s
    BY <1>2 DEF CloseLan2, Quiet, network, server
  <2>2. CASE Continue("close") /\ UNCHANGED intf
    BY <2>1, <2>2, ClosingKeeps DEF Continue
  <2>3. CASE Shut
    BY <2>1, <2>3, ShutKeeps
  <2> QED
    BY <1>2, <2>2, <2>3 DEF CloseLan2, Close
<1>3. CASE Setup
  BY <1>3, SetupKeeps
<1>4. CASE SetupFails
  <2>1. Quiet /\ pc' = "idle" /\ s'.state = "PRESESSION"
    BY <1>4 DEF SetupFails, Prepare, PreSession, Quiet, server
  <2>2. ~ opened'
    BY <1>4 DEF SetupFails, Prepare, SessionInv, IntfInv
  <2> QED
    BY <2>1, <2>2, EndKeeps
<1>5. CASE Transmit
  BY <1>5, TransmitKeeps
<1>6. CASE SendFails
  <2>1. Quiet /\ s' = s
    BY <1>6 DEF SendFails, Quiet, network, server
  <2> QED
    BY <1>6, <2>1, FailKeeps DEF SendFails
<1>7. CASE Timeout
  <2>1. Quiet /\ s' = s
    BY <1>7 DEF Timeout, Quiet, network, server
  <2> QED
    BY <1>7, <2>1, NoAnswerKeeps DEF Timeout
<1>8. CASE RejectUnreadable
  <2>1. Quiet /\ s' = s
    BY <1>8 DEF RejectUnreadable, Quiet
  <2> QED
    BY <1>8, <2>1, NoAnswerKeeps DEF RejectUnreadable
<1>9. ASSUME NEW p \in toConsole, Skip(p)
      PROVE  SessionInv'
  <2>1. Quiet /\ UNCHANGED <<intf, s, control, rqEntries, clean>>
    BY <1>9, ReadIsQuiet DEF Skip
  <2> QED
    BY <2>1, HoldKeeps DEF control
<1>10. ASSUME NEW p \in toConsole, Reject(p)
       PROVE  SessionInv'
  <2>1. Quiet /\ s' = s
    BY <1>10, ReadIsQuiet DEF Reject
  <2> QED
    BY <1>10, <2>1, NoAnswerKeeps DEF Reject
<1>11. CASE UNCHANGED vars
  BY <1>11, HoldKeeps DEF vars, Quiet, network, control, intf, config, server
<1> QED
  BY <1>1, <1>2, <1>3, <1>4, <1>5, <1>6, <1>7, <1>8, <1>9, <1>10, <1>11,
     AnswerKeeps, ServeKeeps DEF Next, Engine

\* The invariant holds in every state of every behaviour.
THEOREM Invariant == Spec => [](TypeOK /\ SessionInv)
<1>1. Init => TypeOK /\ SessionInv
  BY TypeInit, InvInit
<1>2. TypeOK /\ SessionInv /\ [Next]_vars => (TypeOK /\ SessionInv)'
  BY TypeStep, InvStep DEF SessionInv
<1> QED
  BY <1>1, <1>2, PTL DEF Spec

\* The variables have their types: ipmi_lanplus_open, ipmi_lanplus_close and
\* ipmi_lanplus_send_payload never count a try, a call or a session too many.
THEOREM TypeCorrect == Spec => []TypeOK
  BY Invariant, PTL

\* A session that the console holds for active is active in the BMC, with the
\* console's random numbers if it was authenticated; one that the open returned
\* has the privilege asked for if no stale entry could stand for the answer.
THEOREM SessionsAgree == Spec => []Agreement
<1>1. SessionInv => Agreement
  BY DEF SessionInv
<1> QED
  BY <1>1, Invariant, PTL

\* What is marked open when the console is idle is an active session with a
\* socket: ipmi_open_lan2 leaves nothing half open for the commands to use.
THEOREM OpenCanBeUsed == Spec => []OpenIsUsable
<1>1. TypeOK /\ SessionInv => OpenIsUsable
  BY DEF SessionInv, StateInv, IntfInv, Live, OpenIsUsable
<1> QED
  BY <1>1, Invariant, PTL

\* The session is forgotten only at the end of ipmi_lanplus_close, after the
\* close command was tried.
LEMMA ForgetStep ==
    ASSUME SessionInv, [Next]_vars, session, s.state = "ACTIVE", ~ session'
    PROVE  pc = "close"
<1>1. ~ abort /\ (pc \in {"setpriv", "close"} \/ (pc = "idle" /\ opened))
  BY DEF SessionInv, IntfInv
<1>2. ASSUME NEW rest, Fail(rest)
      PROVE  pc = "close"
  BY <1>1, <1>2 DEF Fail, Close, intf, Handshake
<1>3. ASSUME NEW again, NoAnswer(again)
      PROVE  pc = "close"
  BY <1>2, <1>3 DEF NoAnswer, intf
<1>4. ASSUME NEW p \in toConsole, Answer(p)
      PROVE  pc = "close"
  BY <1>1, <1>2, <1>4 DEF Answer, TakeAuthCap, TakeOpenSession, TakeRakp2,
     TakeRakp4, TakePrivilege, TakeClose, intf
<1>5. ~ CloseLan2
  BY <1>1 DEF CloseLan2, Close, intf
<1>6. ~ Setup /\ ~ SetupFails
  BY <1>1 DEF Setup, SetupFails, Prepare
<1> QED
  BY <1>2, <1>3, <1>4, <1>5, <1>6
  DEF Next, Engine, OpenLan2, Transmit, SendFails, Timeout, RejectUnreadable,
      Skip, Reject, Serve, vars, intf

\* An active session is closed at the BMC, or at least tried, before the console
\* forgets it.
THEOREM OpenedIsClosed == Spec => ClosesWhatItOpened
<1>1. SessionInv /\ [Next]_vars =>
        [session /\ s.state = "ACTIVE" /\ ~ session' => pc = "close"]_vars
  BY ForgetStep
<1> QED
  BY <1>1, Invariant, PTL DEF Spec, ClosesWhatItOpened

=============================================================================
