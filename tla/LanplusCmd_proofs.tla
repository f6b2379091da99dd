-------------------------- MODULE LanplusCmd_proofs --------------------------
(***************************************************************************)
(* Proofs about LanplusCmd: its type invariant, that a call which began    *)
(* with an empty list takes no other call's answer, and that a response is *)
(* accepted once.                                                          *)
(***************************************************************************)
EXTENDS LanplusCmd, SequenceTheorems, TLAPS

-----------------------------------------------------------------------------
(* The list operations.                                                    *)

\* ipmi_req_add_entry: adding at most two entries keeps the others in place.
LEMMA AddEntries ==
    ASSUME NEW S, NEW s \in Seq(S), NEW new \in Seq(S), NEW k \in 0..Len(new)
    PROVE  /\ s \o SubSeq(new, 1, k) \in Seq(S)
           /\ Len(s \o SubSeq(new, 1, k)) = Len(s) + k
           /\ \A j \in 1..Len(s) : (s \o SubSeq(new, 1, k))[j] = s[j]
           /\ \A j \in 1..k : (s \o SubSeq(new, 1, k))[Len(s) + j] = new[j]
  BY SMTT(30)

\* ipmi_req_remove_entry: the entries behind the removed one move up.
LEMMA RemoveEntry ==
    ASSUME NEW S, NEW s \in Seq(S), NEW i \in 1..Len(s)
    PROVE  /\ RemoveAt(s, i) \in Seq(S)
           /\ Len(RemoveAt(s, i)) = Len(s) - 1
           /\ \A j \in 1..(Len(s) - 1) :
                RemoveAt(s, i)[j] = IF j < i THEN s[j] ELSE s[j + 1]
<1> DEFINE front == SubSeq(s, 1, i - 1)
           back == SubSeq(s, i + 1, Len(s))
<1>1. /\ front \in Seq(S)
      /\ Len(front) = i - 1
      /\ \A j \in 1..(i - 1) : front[j] = s[j]
  BY SMT
<1>2. /\ back \in Seq(S)
      /\ Len(back) = Len(s) - i
      /\ \A j \in 1..(Len(s) - i) : back[j] = s[i + j]
  BY SMT
<1> HIDE DEF front, back
<1>3. /\ front \o back \in Seq(S)
      /\ Len(front \o back) = Len(s) - 1
      /\ \A j \in 1..(Len(s) - 1) :
           (front \o back)[j] = IF j < i THEN s[j] ELSE s[j + 1]
  <2>1. front \o back \in Seq(S) /\ Len(front \o back) = Len(s) - 1
    BY <1>1, <1>2, SMT
  <2>2. ASSUME NEW j \in 1..(Len(s) - 1), j < i
        PROVE  (front \o back)[j] = s[j]
    BY <1>1, <1>2, <2>2, SMT
  <2>3. ASSUME NEW j \in 1..(Len(s) - 1), j >= i
        PROVE  (front \o back)[j] = s[j + 1]
    <3>1. (front \o back)[j] = back[j - (i - 1)]
      BY <1>1, <1>2, <2>3, SMT
    <3>2. j - (i - 1) \in 1..(Len(s) - i) /\ i + (j - (i - 1)) = j + 1
      BY <2>3, SMT
    <3> QED
      BY <1>2, <3>1, <3>2
  <2> QED
    BY <2>1, <2>2, <2>3, SMT
<1>4. RemoveAt(s, i) = front \o back
  BY DEF RemoveAt, front, back
<1> QED
  BY <1>3, <1>4

-----------------------------------------------------------------------------
(* Type correctness.                                                       *)

\* The initial state is well typed.
LEMMA TypeInit == Init => TypeOK
<1> SUFFICES ASSUME Init PROVE TypeOK
  OBVIOUS
<1>1. rqEntries \in Seq(Entry)
  BY DEF Init
<1>2. answer \in [kind : Kinds, call : Nat]
  BY DEF Init, Kinds
<1>3. itry \in 0..(Retry - 1) /\ curr_seq \in 0..(NumSeqs - 1)
  BY CmdAssumption DEF CmdAssumption, Init
<1>4. /\ toBMC \subseteq Request /\ toConsole \subseteq Response
      /\ taken \subseteq Nat \X (Cmds \cup {SendMessage})
  BY DEF Init
<1>5. /\ bridge \in BOOLEAN /\ clean \in BOOLEAN /\ reused \in BOOLEAN
      /\ stray \in BOOLEAN
  BY DEF Init
<1>6. /\ timeout \in Nat /\ duplicates \in 0..MaxDuplicates
      /\ tx \in Nat
      /\ call \in 0..MaxCalls /\ start \in Nat /\ cmd \in Cmds
      /\ pc = "idle" /\ op = "command"
  BY CmdAssumption DEF CmdAssumption, Init
<1> QED
  BY <1>1, <1>2, <1>3, <1>4, <1>5, <1>6 DEF TypeOK

\* Every step keeps the types: one step of the proof per action of Next.
LEMMA TypeStep == TypeOK /\ [Next]_vars => TypeOK'
<1> SUFFICES ASSUME TypeOK, [Next]_vars
             PROVE  TypeOK'
  OBVIOUS
<1> USE CmdAssumption DEF CmdAssumption
<1>1. ASSUME NEW f \in {"command", "keepalive"}, NEW c \in Cmds, Begin(f, c),
             bridge' \in BOOLEAN
      PROVE  TypeOK'
  BY <1>1 DEF Begin, TypeOK, network
<1>2. ASSUME NEW listed \in 0..Len(NewEntries), Build(listed)
      PROVE  /\ rqEntries' \in Seq(Entry)
             /\ curr_seq' \in 0..(NumSeqs - 1)
             /\ toConsole' \subseteq Response
             /\ tx' \in Nat /\ reused' \in BOOLEAN
  <2>1. NewEntries \in Seq(Entry)
    <3>1. \A c \in Cmds \cup {SendMessage} : NewEntry(c) \in Entry
      BY DEF NewEntry, NextSeq, Entry, TypeOK
    <3> QED
      BY <3>1 DEF NewEntries, TypeOK
  <2>2. rqEntries \o SubSeq(NewEntries, 1, listed) \in Seq(Entry)
    BY <2>1, AddEntries DEF TypeOK
  <2>3. curr_seq' \in 0..(NumSeqs - 1) /\ toConsole' \subseteq Response /\ tx' \in Nat
    BY <1>2 DEF Build, NextSeq, Alive, TypeOK
  <2>4. reused' \in BOOLEAN
    BY <1>2, Zenon DEF Build, TypeOK
  <2> QED
    BY <1>2, <2>2, <2>3, <2>4 DEF Build
<1>3. ASSUME Transmit
      PROVE  TypeOK'
  <2>1. Len(NewEntries) \in 0..Len(NewEntries)
    BY DEF NewEntries
  <2>2. toBMC' \subseteq Request
    BY <1>3 DEF Transmit, Alive, NextSeq, Request, TypeOK
  <2> QED
    BY <1>2, <1>3, <2>1, <2>2 DEF Transmit, Build, TypeOK
<1>4. ASSUME TransmitFails
      PROVE  TypeOK'
  <2>1. PICK listed \in 0..Len(NewEntries) :
          Build(listed) /\ toBMC' = Alive(toBMC) /\ Return(NoRsp)
    BY <1>4 DEF TransmitFails
  <2>2. toBMC' \subseteq Request
    BY <2>1 DEF Alive, TypeOK
  <2>3. /\ pc' = "idle" /\ op' = op /\ cmd' = cmd /\ itry' = itry
        /\ answer' \in [kind : Kinds, call : Nat]
    BY <2>1 DEF Return, NoRsp, Kinds, TypeOK
  <2>4. UNCHANGED <<timeout, bridge, duplicates, stray, call, start, clean, taken>>
    BY <2>1 DEF Build
  <2> QED
    BY <1>2, <2>1, <2>2, <2>3, <2>4 DEF TypeOK
<1>5. ASSUME NEW again \in BOOLEAN, NoAnswer(again), Polling
      PROVE  /\ pc' \in {"idle", "send", "recv"}
             /\ itry' \in 0..(Retry - 1)
             /\ timeout' \in Nat
             /\ op' = op /\ cmd' = cmd
             /\ answer' \in [kind : Kinds, call : Nat]
  BY <1>5 DEF NoAnswer, Polling, Return, NoRsp, Kinds, TypeOK
<1>6. ASSUME Timeout
      PROVE  TypeOK'
  BY <1>5, <1>6 DEF Timeout, network, TypeOK
<1>7. ASSUME NEW p \in Response, Read(p)
      PROVE  toConsole' \subseteq Response /\ duplicates' \in 0..MaxDuplicates
  <2>1. CASE toConsole' = toConsole \ {p} /\ UNCHANGED duplicates
    BY <2>1 DEF TypeOK
  <2>2. CASE /\ duplicates < MaxDuplicates /\ duplicates' = duplicates + 1
             /\ UNCHANGED toConsole
    BY <2>2 DEF TypeOK
  <2> QED
    BY <1>7, <2>1, <2>2 DEF Read
<1>8. ASSUME NEW p \in Response, Accept(p)
      PROVE  /\ rqEntries' \in Seq(Entry)
             /\ taken' \subseteq Nat \X (Cmds \cup {SendMessage})
  BY <1>8, RemoveEntry DEF Accept, Response, TypeOK
<1>9. ASSUME NEW p \in toConsole, DropUnexpected(p)
      PROVE  TypeOK'
  BY <1>7, <1>9 DEF DropUnexpected, Read, control, TypeOK
<1>10. ASSUME NEW p \in toConsole, AwaitBridged(p)
       PROVE  TypeOK'
  BY <1>7, <1>8, <1>10 DEF AwaitBridged, Read, control, TypeOK
<1>11. ASSUME NEW p \in toConsole, Answered(p)
       PROVE  TypeOK'
  <2>1. answer' \in [kind : Kinds, call : Nat] /\ timeout' \in Nat
    BY <1>11 DEF Answered, Return, Response, Kinds, TypeOK
  <2>2. p \in Response /\ Read(p) /\ Accept(p)
    BY <1>11 DEF Answered, TypeOK
  <2>3. pc' = "idle" /\ UNCHANGED <<op, cmd, itry>>
    BY <1>11 DEF Answered, Return
  <2>4. UNCHANGED <<curr_seq, bridge, toBMC, stray, tx, call, start, clean, reused>>
    BY <2>2 DEF Read
  <2> QED
    BY <1>7, <1>8, <2>1, <2>2, <2>3, <2>4 DEF TypeOK
<1>12. ASSUME SkipStray
       PROVE  TypeOK'
  BY <1>12 DEF SkipStray, Stray, control, TypeOK
<1>13. ASSUME RejectStray
       PROVE  TypeOK'
  BY <1>5, <1>13 DEF RejectStray, Stray, TypeOK
<1>14. ASSUME NEW kind \in {"sol", "pong"}, StrayAnswer(kind)
       PROVE  TypeOK'
  <2>1. answer' \in [kind : Kinds, call : Nat]
    BY <1>14 DEF StrayAnswer, Return, Kinds, TypeOK
  <2>2. /\ timeout' = BaseTimeout /\ pc' = "idle" /\ stray' = FALSE
        /\ UNCHANGED <<op, cmd, itry>>
    BY <1>14 DEF StrayAnswer, Stray, Return
  <2>3. UNCHANGED <<rqEntries, curr_seq, bridge, toBMC, toConsole, duplicates,
                    tx, call, start, clean, reused, taken>>
    BY <1>14 DEF StrayAnswer, Stray
  <2> QED
    BY <2>1, <2>2, <2>3 DEF TypeOK
<1>15. ASSUME DrainSol
       PROVE  TypeOK'
  BY <1>15 DEF DrainSol, Stray, TypeOK
<1>16. ASSUME NEW m \in toBMC, Serve(m)
       PROVE  TypeOK'
  <2>1. m \in Request
    BY <1>16 DEF TypeOK
  <2>2. /\ Rsp(m, m.cmd, TRUE) \in Response
        /\ Rsp(m, SendMessage, TRUE) \in Response
        /\ Rsp(m, SendMessage, FALSE) \in Response
    BY <2>1 DEF Rsp, Request, Response
  <2>3. toConsole' \subseteq Response
    BY <1>16, <2>2, Zenon DEF Serve, TypeOK
  <2>4. toBMC' \subseteq Request
    BY <1>16 DEF Serve, TypeOK
  <2> QED
    BY <1>16, <2>3, <2>4 DEF Serve, console, control, history, TypeOK
<1>17. CASE UNCHANGED vars
  BY <1>17 DEF vars, console, control, network, history, TypeOK
<1>18. CASE StrayArrives
  BY <1>18 DEF StrayArrives, console, control, history, TypeOK
<1> QED
  BY <1>1, <1>3, <1>4, <1>6, <1>9, <1>10, <1>11, <1>12, <1>13, <1>14,
     <1>15, <1>16, <1>17, <1>18
  DEF Next, Engine, Receive, Command, Keepalive, TypeOK

\* Every variable keeps its type: in particular the list holds well-formed
\* entries and itry never reaches session->retry (ipmi_lanplus_send_payload).
THEOREM TypeCorrect == Spec => []TypeOK
  BY TypeInit, TypeStep, PTL DEF Spec

-----------------------------------------------------------------------------
(* The inductive invariant.                                                *)

\* The sequence number d transmissions before number c.
SeqBefore(c, d) == IF c >= d THEN c - d ELSE c - d + NumSeqs

\* When number c was the last one taken, by transmission t, a listed entry or
\* a packet x carries the number its own transmission took, unless numbers
\* have come round since.
Numbered(x, c, t) ==
    /\ x.n <= t
    /\ t - x.n < NumSeqs => x.seq = SeqBefore(c, t - x.n)

\* What was built after transmission s belongs to call k.
Owned(x, s, k) == x.n > s => x.call = k

Sound(x) == Numbered(x, curr_seq, tx) /\ Owned(x, start, call)

EntriesInv == \A i \in DOMAIN rqEntries : Sound(rqEntries[i])

PacketsInv == \A p \in toBMC \cup toConsole : Sound(p) /\ p.n > tx - NumSeqs

\* A call builds at most one transmission per try.
TriesInv == start <= tx /\ tx - start <= (IF pc = "send" THEN itry ELSE itry + 1)

CleanInv == clean => \A i \in DOMAIN rqEntries : rqEntries[i].n > start

NumbersInv == EntriesInv /\ PacketsInv

OwnInv == TypeOK /\ NumbersInv /\ TriesInv /\ CleanInv /\ ItsAnswer

\* Entries of one transmission differ in their command.
DistinctInv ==
    \A i, j \in DOMAIN rqEntries :
        i # j => \/ rqEntries[i].n # rqEntries[j].n
                 \/ rqEntries[i].cmd # rqEntries[j].cmd

\* Until a listed number is used again every entry is recent.
RecentInv ==
    ~ reused => \A i \in DOMAIN rqEntries : tx - rqEntries[i].n < NumSeqs

\* What was accepted is listed no more.
TakenInv ==
    /\ \A t \in taken : t[1] <= tx
    /\ ~ reused => \A i \in DOMAIN rqEntries :
                      <<rqEntries[i].n, rqEntries[i].cmd>> \notin taken

OnceInv == TypeOK /\ NumbersInv /\ DistinctInv /\ RecentInv /\ TakenInv

-----------------------------------------------------------------------------
(* What the steps do to the list and to the packets.                       *)

\* ipmi_lanplus_build_v2x_ipmi_cmd keeps the list a list of entries.
LEMMA BuildStep ==
    ASSUME TypeOK, NEW listed \in 0..Len(NewEntries), Build(listed)
    PROVE  /\ DOMAIN rqEntries' = 1..(Len(rqEntries) + listed)
           /\ \A i \in 1..Len(rqEntries) : rqEntries'[i] = rqEntries[i]
           /\ \A i \in 1..listed :
                rqEntries'[Len(rqEntries) + i] =
                    NewEntry(IF i = 1 THEN cmd ELSE SendMessage)
           /\ listed \in 0..2
<1>1. \A c \in Cmds \cup {SendMessage} : NewEntry(c) \in Entry
  BY CmdAssumption DEF CmdAssumption, NewEntry, NextSeq, Entry, TypeOK
<1>2. NewEntries \in Seq(Entry)
  BY <1>1 DEF NewEntries, TypeOK
<1>3. /\ Len(NewEntries) \in 0..2
      /\ \A i \in 1..Len(NewEntries) :
            NewEntries[i] = NewEntry(IF i = 1 THEN cmd ELSE SendMessage)
  BY DEF NewEntries
<1>4. rqEntries \in Seq(Entry) /\ rqEntries' = rqEntries \o SubSeq(NewEntries, 1, listed)
  BY DEF TypeOK, Build
<1>5. rqEntries' \in Seq(Entry) /\ Len(rqEntries') = Len(rqEntries) + listed
  BY <1>2, <1>4, AddEntries
<1>6. \A i \in 1..Len(rqEntries) : rqEntries'[i] = rqEntries[i]
  BY <1>2, <1>4, AddEntries
<1>7. \A i \in 1..listed : rqEntries'[Len(rqEntries) + i] = NewEntries[i]
  BY <1>2, <1>4, AddEntries
<1> QED
  BY <1>3, <1>5, <1>6, <1>7

\* ipmi_req_remove_entry keeps the list a list of entries.
LEMMA AcceptStep ==
    ASSUME TypeOK, NEW p, Accept(p)
    PROVE  \E k \in DOMAIN rqEntries :
             /\ rqEntries[k].seq = p.seq /\ rqEntries[k].cmd = p.cmd
             /\ \A j \in 1..(k - 1) :
                  ~ (rqEntries[j].seq = p.seq /\ rqEntries[j].cmd = p.cmd)
             /\ Len(rqEntries') = Len(rqEntries) - 1
             /\ DOMAIN rqEntries' = 1..(Len(rqEntries) - 1)
             /\ \A i \in DOMAIN rqEntries' :
                  rqEntries'[i] = rqEntries[IF i < k THEN i ELSE i + 1]
<1>1. PICK k \in DOMAIN rqEntries :
        Lookup(k, p) /\ rqEntries' = RemoveAt(rqEntries, k)
  BY DEF Accept
<1>2. rqEntries \in Seq(Entry) /\ k \in 1..Len(rqEntries)
  BY <1>1 DEF TypeOK
<1>3. /\ rqEntries' \in Seq(Entry)
      /\ Len(rqEntries') = Len(rqEntries) - 1
      /\ \A j \in 1..(Len(rqEntries) - 1) :
            rqEntries'[j] = IF j < k THEN rqEntries[j] ELSE rqEntries[j + 1]
  BY <1>1, <1>2, RemoveEntry
<1>4. DOMAIN rqEntries' = 1..(Len(rqEntries) - 1)
  BY <1>2, <1>3
<1> QED
  BY <1>1, <1>3, <1>4 DEF Lookup

\* What is left of the list was in it before.
LEMMA AcceptKeeps ==
    ASSUME TypeOK, NEW p, Accept(p)
    PROVE  \A i \in DOMAIN rqEntries' :
              \E j \in DOMAIN rqEntries : rqEntries'[i] = rqEntries[j]
<1>1. PICK k \in DOMAIN rqEntries :
        /\ DOMAIN rqEntries' = 1..(Len(rqEntries) - 1)
        /\ \A i \in DOMAIN rqEntries' :
              rqEntries'[i] = rqEntries[IF i < k THEN i ELSE i + 1]
  BY AcceptStep
<1>2. DOMAIN rqEntries = 1..Len(rqEntries) /\ Len(rqEntries) \in Nat
  BY DEF TypeOK
<1> SUFFICES ASSUME NEW i \in DOMAIN rqEntries'
             PROVE  \E j \in DOMAIN rqEntries : rqEntries'[i] = rqEntries[j]
  OBVIOUS
<1> DEFINE j == IF i < k THEN i ELSE i + 1
<1>3. j \in DOMAIN rqEntries
  BY <1>1, <1>2
<1>4. rqEntries'[i] = rqEntries[j]
  BY <1>1
<1> QED
  BY <1>3, <1>4

\* Within NumSeqs transmissions, sequence numbers are distinct.
LEMMA SeqInjective ==
    ASSUME TypeOK, NEW x \in Nat, NEW y \in Nat, x <= tx, y <= tx,
           tx - x < NumSeqs, tx - y < NumSeqs,
           SeqBefore(curr_seq, tx - x) = SeqBefore(curr_seq, tx - y)
    PROVE  x = y
  BY CmdAssumption DEF CmdAssumption, SeqBefore, TypeOK

\* One transmission later, the number of d transmissions ago is that of d + 1.
LEMMA SeqAdvance ==
    ASSUME TypeOK, NEW d \in Nat, d + 1 < NumSeqs
    PROVE  SeqBefore(NextSeq, d + 1) = SeqBefore(curr_seq, d)
  BY CmdAssumption DEF CmdAssumption, SeqBefore, NextSeq, TypeOK

\* A transmission leaves the older entries and packets Sound.
LEMMA SoundAdvance ==
    ASSUME TypeOK, NEW x, x.n \in Nat, Sound(x)
    PROVE  Numbered(x, NextSeq, tx + 1) /\ Owned(x, start, call)
<1>1. x.n <= tx + 1
  BY DEF Sound, Numbered, TypeOK
<1>2. ASSUME (tx + 1) - x.n < NumSeqs
      PROVE  x.seq = SeqBefore(NextSeq, (tx + 1) - x.n)
  <2>1. /\ tx - x.n \in Nat /\ (tx - x.n) + 1 < NumSeqs
        /\ (tx + 1) - x.n = (tx - x.n) + 1
    <3>1. tx \in Nat /\ NumSeqs \in Nat /\ x.n <= tx
      BY CmdAssumption DEF CmdAssumption, Sound, Numbered, TypeOK
    <3> QED
      BY <1>2, <3>1
  <2>2. x.seq = SeqBefore(curr_seq, tx - x.n)
    BY <2>1, CmdAssumption DEF CmdAssumption, Sound, Numbered, TypeOK
  <2> QED
    BY <2>1, <2>2, SeqAdvance
<1>3. Owned(x, start, call)
  BY DEF Sound
<1> QED
  BY <1>1, <1>2, <1>3, Zenon DEF Numbered

\* The entries and the request of a new transmission are Sound.
LEMMA SoundNew ==
    ASSUME TypeOK, NEW x, x.n = tx + 1, x.seq = NextSeq, x.call = call
    PROVE  Numbered(x, NextSeq, tx + 1) /\ Owned(x, start, call)
<1>1. (tx + 1) - x.n = 0 /\ x.n <= tx + 1
  BY DEF TypeOK
<1>2. SeqBefore(NextSeq, 0) = NextSeq
  BY CmdAssumption DEF CmdAssumption, SeqBefore, NextSeq, TypeOK
<1> QED
  BY <1>1, <1>2, Zenon DEF Numbered, Owned

-----------------------------------------------------------------------------
(* Sequence numbers and calls stay attached to their transmissions.        *)

\* ipmi_lanplus_build_v2x_ipmi_cmd keeps the numbering of NumbersInv.
LEMMA BuildNumbers ==
    ASSUME TypeOK, NumbersInv, NEW listed \in 0..Len(NewEntries), Build(listed)
    PROVE  /\ EntriesInv'
           /\ \A p \in Alive(toBMC) \cup toConsole' :
                 /\ Numbered(p, curr_seq', tx') /\ Owned(p, start', call')
                 /\ p.n > tx' - NumSeqs
<1>1. /\ curr_seq' = NextSeq /\ tx' = tx + 1 /\ call' = call /\ start' = start
      /\ toConsole' = Alive(toConsole)
  BY DEF Build
<1>2. \A i \in 1..Len(rqEntries) : rqEntries[i].n \in Nat /\ Sound(rqEntries[i])
  <2>1. \A i \in 1..Len(rqEntries) : rqEntries[i] \in Entry
    BY DEF TypeOK
  <2>2. \A i \in 1..Len(rqEntries) : Sound(rqEntries[i])
    BY DEF NumbersInv, EntriesInv, TypeOK
  <2> QED
    BY <2>1, <2>2 DEF Entry
<1>3. EntriesInv'
  <2> SUFFICES ASSUME NEW i \in DOMAIN rqEntries'
               PROVE  /\ Numbered(rqEntries'[i], NextSeq, tx + 1)
                      /\ Owned(rqEntries'[i], start, call)
    BY <1>1 DEF EntriesInv, Sound
  <2>1. CASE i \in 1..Len(rqEntries)
    <3>1. rqEntries'[i] = rqEntries[i]
      BY <2>1, BuildStep
    <3> QED
      BY <1>2, <2>1, <3>1, SoundAdvance
  <2>2. CASE i \notin 1..Len(rqEntries)
    <3>1. PICK c : rqEntries'[i] = NewEntry(c)
      <4>1. i \in 1..(Len(rqEntries) + listed) /\ listed \in 0..2 /\ Len(rqEntries) \in Nat
        BY BuildStep DEF TypeOK
      <4>2. i - Len(rqEntries) \in 1..listed /\ Len(rqEntries) + (i - Len(rqEntries)) = i
        BY <2>2, <4>1
      <4> QED
        BY <4>2, BuildStep
    <3> QED
      BY <3>1, SoundNew DEF NewEntry
  <2> QED
    BY <2>1, <2>2
<1>4. ASSUME NEW p \in Alive(toBMC) \cup toConsole'
      PROVE  /\ Numbered(p, curr_seq', tx') /\ Owned(p, start', call')
             /\ p.n > tx' - NumSeqs
  <2>1. p \in toBMC \cup toConsole /\ p.n > (tx + 1) - NumSeqs
    BY <1>1, <1>4 DEF Alive
  <2>2. p.n \in Nat
    BY <2>1 DEF TypeOK, Request, Response
  <2>3. Sound(p)
    BY <2>1 DEF NumbersInv, PacketsInv
  <2>4. Numbered(p, NextSeq, tx + 1) /\ Owned(p, start, call)
    BY <2>2, <2>3, SoundAdvance
  <2> QED
    BY <1>1, <2>1, <2>4, Zenon
<1> QED
  BY <1>3, <1>4

\* Every step keeps the numbering of entries and packets.
LEMMA NumbersStep == TypeOK /\ NumbersInv /\ [Next]_vars => NumbersInv'
<1> SUFFICES ASSUME TypeOK, NumbersInv, [Next]_vars
             PROVE  NumbersInv'
  OBVIOUS
<1>1. ASSUME NEW f, NEW c, Begin(f, c)
      PROVE  NumbersInv'
  <2>1. /\ \A i \in DOMAIN rqEntries : Sound(rqEntries[i])
        /\ \A p \in toBMC \cup toConsole : Sound(p) /\ p.n > tx - NumSeqs
    BY DEF NumbersInv, EntriesInv, PacketsInv
  <2>2. \A i \in DOMAIN rqEntries : rqEntries[i].n \in Nat
    <3>1. \A i \in DOMAIN rqEntries : rqEntries[i] \in Entry
      BY DEF TypeOK
    <3> QED
      BY <3>1 DEF Entry
  <2>3. \A p \in toBMC \cup toConsole : p.n \in Nat
    BY DEF TypeOK, Request, Response
  <2>4. ASSUME NEW x, x.n \in Nat, Sound(x)
        PROVE  Numbered(x, curr_seq, tx) /\ Owned(x, tx, call + 1)
    BY <2>4 DEF Sound, Numbered, Owned, TypeOK
  <2>5. /\ UNCHANGED <<rqEntries, curr_seq, tx, toBMC, toConsole>>
        /\ start' = tx /\ call' = call + 1
    BY <1>1 DEF Begin, network
  <2> QED
    BY <2>1, <2>2, <2>3, <2>4, <2>5 DEF NumbersInv, EntriesInv, PacketsInv, Sound
<1>2. ASSUME Transmit
      PROVE  NumbersInv'
  <2> DEFINE m == [seq |-> NextSeq, cmd |-> cmd, n |-> tx + 1, call |-> call,
                   bridged |-> bridge]
  <2>1. Build(Len(NewEntries)) /\ Len(NewEntries) \in 0..Len(NewEntries)
    BY <1>2 DEF Transmit, NewEntries
  <2>2. /\ EntriesInv'
        /\ \A p \in Alive(toBMC) \cup toConsole' :
              /\ Numbered(p, curr_seq', tx') /\ Owned(p, start', call')
              /\ p.n > tx' - NumSeqs
    BY <2>1, BuildNumbers
  <2>3. /\ curr_seq' = NextSeq /\ tx' = tx + 1 /\ call' = call /\ start' = start
        /\ toBMC' = Alive(toBMC) \cup {m}
    BY <2>1, <1>2 DEF Build, Transmit
  <2>4. /\ Numbered(m, curr_seq', tx') /\ Owned(m, start', call')
        /\ m.n > tx' - NumSeqs
    BY <2>3, SoundNew, CmdAssumption DEF CmdAssumption, TypeOK
  <2> QED
    BY <2>2, <2>3, <2>4 DEF NumbersInv, PacketsInv, Sound
<1>3. ASSUME TransmitFails
      PROVE  NumbersInv'
  <2>1. PICK listed \in 0..Len(NewEntries) : Build(listed) /\ toBMC' = Alive(toBMC)
    BY <1>3 DEF TransmitFails
  <2> QED
    BY <2>1, BuildNumbers DEF NumbersInv, PacketsInv, Sound
<1>4. ASSUME NEW p, Accept(p),
             UNCHANGED <<curr_seq, toBMC, tx, call, start>>,
             toConsole' \subseteq toConsole
      PROVE  NumbersInv'
  <2>1. \A i \in DOMAIN rqEntries' : \E j \in DOMAIN rqEntries : rqEntries'[i] = rqEntries[j]
    BY <1>4, AcceptKeeps
  <2> QED
    BY <1>4, <2>1 DEF NumbersInv, EntriesInv, PacketsInv, Sound
<1>5. ASSUME UNCHANGED <<rqEntries, curr_seq, toBMC, tx, call, start>>,
             toConsole' \subseteq toConsole
      PROVE  NumbersInv'
  BY <1>5 DEF NumbersInv, EntriesInv, PacketsInv, Sound
<1>6. ASSUME NEW m \in toBMC, Serve(m)
      PROVE  NumbersInv'
  <2>1. Sound(m) /\ m.n > tx - NumSeqs
    BY <1>6 DEF NumbersInv, PacketsInv
  <2>2. \A c, ok : Sound(Rsp(m, c, ok)) /\ Rsp(m, c, ok).n > tx - NumSeqs
    BY <2>1 DEF Rsp, Sound, Numbered, Owned
  <2>3. \A p \in toConsole : Sound(p) /\ p.n > tx - NumSeqs
    BY DEF NumbersInv, PacketsInv
  <2>4. \A p \in toConsole' : Sound(p) /\ p.n > tx - NumSeqs
    <3>1. CASE toConsole' = toConsole \cup {Rsp(m, m.cmd, TRUE)}
      BY <2>2, <2>3, <3>1
    <3>2. CASE toConsole' = toConsole \cup
                 {Rsp(m, SendMessage, TRUE), Rsp(m, m.cmd, TRUE)}
      BY <2>2, <2>3, <3>2
    <3>3. CASE toConsole' = toConsole \cup {Rsp(m, SendMessage, FALSE)}
      BY <2>2, <2>3, <3>3
    <3> QED
      BY <1>6, <3>1, <3>2, <3>3 DEF Serve
  <2>5. \A p \in toBMC' : Sound(p) /\ p.n > tx - NumSeqs
    BY <1>6 DEF Serve, NumbersInv, PacketsInv
  <2>6. UNCHANGED <<rqEntries, curr_seq, tx, call, start>>
    BY <1>6 DEF Serve, console, history
  <2> QED
    BY <2>4, <2>5, <2>6 DEF NumbersInv, EntriesInv, PacketsInv, Sound
<1>7. ASSUME NEW p \in toConsole, DropUnexpected(p) \/ AwaitBridged(p) \/ Answered(p)
      PROVE  NumbersInv'
  <2>1. UNCHANGED <<curr_seq, toBMC, tx, call, start>> /\ toConsole' \subseteq toConsole
    BY <1>7 DEF DropUnexpected, AwaitBridged, Answered, Read
  <2>2. Accept(p) \/ UNCHANGED rqEntries
    BY <1>7 DEF DropUnexpected, AwaitBridged, Answered
  <2> QED
    BY <1>4, <1>5, <2>1, <2>2
<1>8. ASSUME Stray
      PROVE  NumbersInv'
  BY <1>5, <1>8 DEF Stray
<1>9. CASE Timeout
  BY <1>5, <1>9 DEF Timeout, network
<1>10. CASE UNCHANGED vars
  BY <1>5, <1>10 DEF vars, console, network, history
<1>11. CASE StrayArrives
  BY <1>5, <1>11 DEF StrayArrives, console, history
<1> QED
  BY <1>1, <1>2, <1>3, <1>6, <1>7, <1>8, <1>9, <1>10, <1>11
  DEF Next, Engine, Receive, Command, Keepalive, SkipStray, RejectStray,
      StrayAnswer, DrainSol

-----------------------------------------------------------------------------
(* A call that began with an empty list returns its own answer.            *)

\* In such a call a response is accepted only for a transmission of the call.
LEMMA AcceptOwn ==
    ASSUME OwnInv, clean, NEW p \in toConsole, Accept(p), pc # "send"
    PROVE  p.call = call
<1>1. PICK k \in DOMAIN rqEntries : rqEntries[k].seq = p.seq
  BY AcceptStep DEF OwnInv
<1> DEFINE e == rqEntries[k]
<1>2. /\ e \in Entry /\ Sound(e) /\ e.n > start
      /\ p \in Response /\ Sound(p) /\ p.n > tx - NumSeqs
  BY <1>1 DEF OwnInv, CleanInv, NumbersInv, EntriesInv, PacketsInv, TypeOK
<1>3. e.n \in Nat /\ p.n \in Nat /\ e.seq = p.seq
  BY <1>1, <1>2 DEF Entry, Response
<1> HIDE DEF e
<1>4. /\ tx \in Nat /\ start \in Nat /\ NumSeqs \in Nat
      /\ start <= tx /\ tx - start <= NumSeqs
  <2>1. itry + 1 <= NumSeqs /\ itry \in Nat
    BY CmdAssumption DEF CmdAssumption, OwnInv, TypeOK
  <2> QED
    BY <2>1, CmdAssumption DEF CmdAssumption, OwnInv, TriesInv, TypeOK
<1>5. /\ e.n <= tx /\ p.n <= tx /\ tx - e.n < NumSeqs /\ tx - p.n < NumSeqs
  BY <1>2, <1>3, <1>4 DEF Sound, Numbered
<1>6. SeqBefore(curr_seq, tx - e.n) = SeqBefore(curr_seq, tx - p.n)
  BY <1>2, <1>3, <1>5 DEF Sound, Numbered
<1>7. e.n = p.n
  BY <1>3, <1>5, <1>6, SeqInjective DEF OwnInv
<1> QED
  BY <1>2, <1>7 DEF Sound, Owned

\* Whatever it receives, however late, a call that began with no leftover
\* entry returns an answer to itself (ipmi_lan_poll_recv).
THEOREM CleanCallsGetOwnAnswer == Spec => []OwnAnswer
<1>1. Init => OwnInv
  <2> SUFFICES ASSUME Init PROVE OwnInv
    OBVIOUS
  <2>1. TypeOK
    BY TypeInit
  <2> QED
    BY <2>1 DEF Init, OwnInv, NumbersInv, EntriesInv, PacketsInv, TriesInv,
                CleanInv, ItsAnswer
<1>2. OwnInv /\ [Next]_vars => OwnInv'
  <2> SUFFICES ASSUME OwnInv, [Next]_vars
               PROVE  OwnInv'
    OBVIOUS
  <2>1. TypeOK' /\ NumbersInv'
    BY TypeStep, NumbersStep DEF OwnInv
  <2>2. ASSUME NEW f, NEW c, Begin(f, c)
        PROVE  TriesInv' /\ CleanInv' /\ ItsAnswer'
    <3>1. TriesInv' /\ ItsAnswer'
      BY <2>2 DEF Begin, OwnInv, TriesInv, ItsAnswer, TypeOK
    <3>2. clean' => rqEntries' = <<>>
      BY <2>2, Zenon DEF Begin
    <3>3. CleanInv'
      BY <3>2 DEF CleanInv
    <3> QED
      BY <3>1, <3>3
  <2>3. ASSUME NEW listed \in 0..Len(NewEntries), Build(listed), pc' # "send",
               itry' = itry
        PROVE  TriesInv' /\ CleanInv'
    <3>1. TriesInv'
      BY <2>3 DEF Build, OwnInv, TriesInv, TypeOK
    <3>2. \A i \in 1..listed : rqEntries'[Len(rqEntries) + i].n = tx + 1
      <4>1. \A c : NewEntry(c).n = tx + 1
        BY DEF NewEntry
      <4> QED
        BY <2>3, <4>1, BuildStep DEF OwnInv
    <3>3. ASSUME clean', NEW i \in DOMAIN rqEntries'
          PROVE  rqEntries'[i].n > start'
      <4>1. /\ i \in 1..(Len(rqEntries) + listed) /\ listed \in 0..2
            /\ Len(rqEntries) \in Nat /\ DOMAIN rqEntries = 1..Len(rqEntries)
        BY <2>3, BuildStep DEF OwnInv, TypeOK
      <4>2. start' = start /\ clean
        BY <2>3, <3>3 DEF Build
      <4>3. CASE i \in 1..Len(rqEntries)
        BY <2>3, <4>1, <4>2, <4>3, BuildStep DEF OwnInv, CleanInv
      <4>4. CASE i \notin 1..Len(rqEntries)
        <5>1. i - Len(rqEntries) \in 1..listed /\ Len(rqEntries) + (i - Len(rqEntries)) = i
          BY <4>1, <4>4
        <5>2. tx + 1 > start
          BY DEF OwnInv, TriesInv, TypeOK
        <5> QED
          BY <3>2, <4>2, <5>1, <5>2
      <4> QED
        BY <4>3, <4>4
    <3> QED
      BY <3>1, <3>3 DEF CleanInv
  <2>4. CASE Transmit
    <3>1. Build(Len(NewEntries)) /\ Len(NewEntries) \in 0..Len(NewEntries)
      BY <2>4 DEF Transmit, NewEntries
    <3> QED
      BY <2>1, <2>3, <2>4, <3>1 DEF Transmit, OwnInv, ItsAnswer
  <2>5. CASE TransmitFails
    <3>1. PICK listed \in 0..Len(NewEntries) : Build(listed) /\ Return(NoRsp)
      BY <2>5 DEF TransmitFails
    <3>2. ItsAnswer'
      BY <3>1 DEF Build, Return, NoRsp, ItsAnswer
    <3> QED
      BY <2>1, <2>3, <3>1, <3>2 DEF Return, OwnInv
  <2>6. ASSUME NEW again \in BOOLEAN, NoAnswer(again), Polling,
               UNCHANGED <<rqEntries, tx, call, start, clean>>
        PROVE  TriesInv' /\ CleanInv' /\ ItsAnswer'
    <3>1. TriesInv'
      BY <2>6 DEF NoAnswer, Polling, Return, OwnInv, TriesInv, TypeOK
    <3>2. CleanInv'
      BY <2>6 DEF OwnInv, CleanInv
    <3>3. ItsAnswer'
      BY <2>6 DEF NoAnswer, Return, NoRsp, ItsAnswer
    <3> QED
      BY <3>1, <3>2, <3>3
  <2>7. ASSUME NEW p \in toConsole, Accept(p), Read(p)
        PROVE  CleanInv'
    <3>1. \A i \in DOMAIN rqEntries' : \E j \in DOMAIN rqEntries : rqEntries'[i] = rqEntries[j]
      BY <2>7, AcceptKeeps DEF OwnInv
    <3> QED
      BY <2>7, <3>1 DEF Read, OwnInv, CleanInv
  <2>8. ASSUME NEW p \in toConsole, DropUnexpected(p)
        PROVE  OwnInv'
    BY <2>1, <2>8 DEF DropUnexpected, Read, control, OwnInv, TriesInv, CleanInv, ItsAnswer
  <2>9. ASSUME NEW p \in toConsole, AwaitBridged(p)
        PROVE  OwnInv'
    BY <2>1, <2>7, <2>9 DEF AwaitBridged, Read, control, OwnInv, TriesInv, ItsAnswer
  <2>10. ASSUME NEW p \in toConsole, Answered(p)
         PROVE  OwnInv'
    <3>1. pc \in {"recv", "drain"} /\ Accept(p) /\ Read(p)
      BY <2>10 DEF Answered, Read, Polling
    <3>2. clean => p.call = call
      BY <3>1, AcceptOwn
    <3>3. ItsAnswer' /\ TriesInv'
      BY <2>10, <3>1, <3>2 DEF Answered, Read, Return, OwnInv, ItsAnswer, TriesInv
    <3> QED
      BY <2>1, <2>7, <3>1, <3>3 DEF OwnInv
  <2>11. CASE SkipStray
    BY <2>1, <2>11 DEF SkipStray, Stray, control, OwnInv, TriesInv, CleanInv, ItsAnswer
  <2>12. ASSUME NEW kind, StrayAnswer(kind)
         PROVE  OwnInv'
    BY <2>1, <2>12 DEF StrayAnswer, Stray, Polling, Return, OwnInv, TriesInv,
                       CleanInv, ItsAnswer
  <2>13. CASE DrainSol
    BY <2>1, <2>13 DEF DrainSol, Stray, Polling, OwnInv, TriesInv, CleanInv, ItsAnswer
  <2>14. ASSUME NEW m \in toBMC, Serve(m)
         PROVE  OwnInv'
    BY <2>1, <2>14 DEF Serve, console, control, history, OwnInv, TriesInv,
                       CleanInv, ItsAnswer
  <2>15. CASE UNCHANGED vars
    BY <2>1, <2>15 DEF vars, console, control, network, history, OwnInv, TriesInv,
                       CleanInv, ItsAnswer
  <2>16. CASE Timeout
    BY <2>1, <2>6, <2>16 DEF Timeout, network, OwnInv
  <2>17. CASE RejectStray
    BY <2>1, <2>6, <2>17 DEF RejectStray, Stray, OwnInv
  <2>18. CASE StrayArrives
    BY <2>1, <2>18 DEF StrayArrives, console, control, history, OwnInv, TriesInv,
                       CleanInv, ItsAnswer
  <2> QED
    BY <2>1, <2>2, <2>4, <2>5, <2>8, <2>9, <2>10, <2>11, <2>12, <2>13, <2>14,
       <2>15, <2>16, <2>17, <2>18
    DEF Next, Engine, Receive, Command, Keepalive, OwnInv
<1>3. OwnInv => OwnAnswer
  BY DEF OwnInv, OwnAnswer
<1> QED
  BY <1>1, <1>2, <1>3, PTL DEF Spec

-----------------------------------------------------------------------------
(* A response is accepted once.                                            *)

\* While no listed number was used again, a response is accepted for the
\* very transmission it answers.
LEMMA AcceptExact ==
    ASSUME OnceInv, ~ reused, NEW p \in toConsole, NEW k \in DOMAIN rqEntries,
           rqEntries[k].seq = p.seq
    PROVE  rqEntries[k].n = p.n
<1> DEFINE e == rqEntries[k]
<1>1. /\ e \in Entry /\ Sound(e) /\ tx - e.n < NumSeqs
      /\ p \in Response /\ Sound(p) /\ p.n > tx - NumSeqs
  BY DEF OnceInv, RecentInv, NumbersInv, EntriesInv, PacketsInv, TypeOK
<1>2. e.n \in Nat /\ p.n \in Nat /\ e.seq = p.seq
  BY <1>1 DEF Entry, Response
<1> HIDE DEF e
<1>3. tx \in Nat /\ NumSeqs \in Nat
  BY CmdAssumption DEF CmdAssumption, OnceInv, TypeOK
<1>4. e.n <= tx /\ p.n <= tx /\ tx - p.n < NumSeqs
  BY <1>1, <1>2, <1>3 DEF Sound, Numbered
<1>5. SeqBefore(curr_seq, tx - e.n) = SeqBefore(curr_seq, tx - p.n)
  BY <1>1, <1>2, <1>4 DEF Sound, Numbered
<1>6. e.n = p.n
  BY <1>1, <1>2, <1>4, <1>5, SeqInjective DEF OnceInv
<1> QED
  BY <1>6 DEF e

ListInv == DistinctInv /\ RecentInv /\ TakenInv

\* Building keeps the list free of repetitions and of what was accepted.
LEMMA BuildOnce ==
    ASSUME OnceInv, NEW listed \in 0..Len(NewEntries), Build(listed)
    PROVE  ListInv'
<1> DEFINE L == Len(rqEntries)
<1>1. /\ L \in Nat /\ listed \in 0..2 /\ DOMAIN rqEntries = 1..L
      /\ DOMAIN rqEntries' = 1..(L + listed)
      /\ \A i \in 1..L : rqEntries'[i] = rqEntries[i]
      /\ \A i \in 1..listed :
            rqEntries'[L + i] = NewEntry(IF i = 1 THEN cmd ELSE SendMessage)
  BY BuildStep DEF OnceInv, TypeOK
<1>2. \A c : NewEntry(c).n = tx + 1 /\ NewEntry(c).cmd = c
  BY DEF NewEntry
<1> HIDE DEF L
<1>3. ASSUME NEW i \in DOMAIN rqEntries', i \notin 1..L
      PROVE  /\ i - L \in 1..listed
             /\ rqEntries'[i].n = tx + 1
             /\ rqEntries'[i].cmd = IF i = L + 1 THEN cmd ELSE SendMessage
  <2>1. i - L \in 1..listed /\ L + (i - L) = i /\ (i - L = 1 <=> i = L + 1)
    BY <1>1, <1>3
  <2> QED
    BY <1>1, <1>2, <2>1
<1>4. \A i \in 1..L : /\ rqEntries'[i] = rqEntries[i] /\ rqEntries[i] \in Entry
                      /\ rqEntries[i].n \in Nat /\ rqEntries[i].n <= tx
                      /\ Sound(rqEntries[i])
  <2>1. \A i \in 1..L : rqEntries'[i] = rqEntries[i] /\ rqEntries[i] \in Entry
                        /\ Sound(rqEntries[i])
    BY <1>1 DEF OnceInv, NumbersInv, EntriesInv, TypeOK
  <2> QED
    BY <2>1 DEF Entry, Sound, Numbered
<1>5. tx \in Nat /\ NumSeqs \in Nat \ {0} /\ cmd # SendMessage
  BY CmdAssumption DEF CmdAssumption, OnceInv, TypeOK
<1>6. tx' = tx + 1 /\ taken' = taken /\ (~ reused' => ~ reused)
  BY DEF Build
<1>7. DistinctInv'
  <2> SUFFICES ASSUME NEW i \in DOMAIN rqEntries', NEW j \in DOMAIN rqEntries', i # j
               PROVE  \/ rqEntries'[i].n # rqEntries'[j].n
                      \/ rqEntries'[i].cmd # rqEntries'[j].cmd
    BY DEF DistinctInv
  <2>1. CASE i \in 1..L /\ j \in 1..L
    BY <1>1, <1>4, <2>1 DEF OnceInv, DistinctInv
  <2>2. CASE i \in 1..L /\ j \notin 1..L
    BY <1>3, <1>4, <1>5, <2>2
  <2>3. CASE i \notin 1..L /\ j \in 1..L
    BY <1>3, <1>4, <1>5, <2>3
  <2>4. CASE i \notin 1..L /\ j \notin 1..L
    <3>1. (i = L + 1) # (j = L + 1)
      BY <1>1, <1>3, <2>4
    <3> QED
      BY <1>3, <1>5, <2>4, <3>1
  <2> QED
    BY <2>1, <2>2, <2>3, <2>4
<1>8. RecentInv'
  <2> SUFFICES ASSUME ~ reused', NEW i \in DOMAIN rqEntries'
               PROVE  (tx + 1) - rqEntries'[i].n < NumSeqs
    BY <1>6 DEF RecentInv
  <2>1. CASE i \in 1..L
    <3>1. rqEntries[i].seq # NextSeq
      BY <1>1, <2>1 DEF Build
    <3>2. tx - rqEntries[i].n < NumSeqs /\ ~ reused
      BY <1>1, <1>6, <2>1 DEF OnceInv, RecentInv
    <3>3. rqEntries[i].seq = SeqBefore(curr_seq, tx - rqEntries[i].n)
      BY <1>4, <2>1, <3>2 DEF Sound, Numbered
    <3>4. tx - rqEntries[i].n # NumSeqs - 1
      <4>1. SeqBefore(curr_seq, NumSeqs - 1) = NextSeq
        BY <1>5 DEF SeqBefore, NextSeq, OnceInv, TypeOK
      <4> QED
        BY <3>1, <3>3, <4>1
    <3> QED
      BY <1>4, <1>5, <2>1, <3>2, <3>4
  <2>2. CASE i \notin 1..L
    BY <1>3, <1>5, <2>2
  <2> QED
    BY <2>1, <2>2
<1>9. TakenInv'
  <2>1. \A t \in taken : t[1] \in Nat /\ t[1] <= tx
    BY DEF OnceInv, TakenInv, TypeOK
  <2>2. \A t \in taken' : t[1] <= tx'
    BY <1>5, <1>6, <2>1
  <2>3. ASSUME ~ reused', NEW i \in DOMAIN rqEntries'
        PROVE  <<rqEntries'[i].n, rqEntries'[i].cmd>> \notin taken
    <3>1. CASE i \in 1..L
      BY <1>1, <1>6, <2>3, <3>1 DEF OnceInv, TakenInv
    <3>2. CASE i \notin 1..L
      BY <1>3, <1>5, <2>1, <3>2
    <3> QED
      BY <3>1, <3>2
  <2> QED
    BY <1>6, <2>2, <2>3 DEF TakenInv
<1> QED
  BY <1>7, <1>8, <1>9 DEF ListInv

\* Accepting keeps it so, and what it accepts was not accepted before.
LEMMA AcceptOnce ==
    ASSUME OnceInv, NEW p \in toConsole, Accept(p), UNCHANGED <<tx, reused>>
    PROVE  ListInv' /\ (~ reused => taken' # taken)
<1>1. PICK k \in DOMAIN rqEntries :
        /\ rqEntries[k].seq = p.seq /\ rqEntries[k].cmd = p.cmd
        /\ DOMAIN rqEntries' = 1..(Len(rqEntries) - 1)
        /\ \A i \in DOMAIN rqEntries' :
              rqEntries'[i] = rqEntries[IF i < k THEN i ELSE i + 1]
  BY AcceptStep DEF OnceInv
<1>2. Len(rqEntries) \in Nat /\ DOMAIN rqEntries = 1..Len(rqEntries)
  BY DEF OnceInv, TypeOK
<1> DEFINE old(i) == IF i < k THEN i ELSE i + 1
<1>3. \A i \in DOMAIN rqEntries' :
        /\ old(i) \in DOMAIN rqEntries /\ old(i) # k
        /\ rqEntries'[i] = rqEntries[old(i)]
  BY <1>1, <1>2
<1>4. \A i, j \in DOMAIN rqEntries' : i # j => old(i) # old(j)
  BY <1>1, <1>2
<1> HIDE DEF old
<1>5. DistinctInv'
  BY <1>3, <1>4 DEF OnceInv, DistinctInv
<1>6. RecentInv'
  BY <1>3 DEF OnceInv, RecentInv
<1>7. p.n \in Nat /\ p.n <= tx
  <2>1. p \in Response /\ Sound(p)
    BY DEF OnceInv, NumbersInv, PacketsInv, TypeOK
  <2> QED
    BY <2>1 DEF Response, Sound, Numbered
<1>8. taken' = taken \cup {<<p.n, p.cmd>>}
  BY DEF Accept
<1>9. \A t \in taken' : t[1] <= tx'
  BY <1>7, <1>8 DEF OnceInv, TakenInv
<1>10. ASSUME ~ reused
       PROVE  /\ <<p.n, p.cmd>> \notin taken
              /\ \A i \in DOMAIN rqEntries' :
                    <<rqEntries'[i].n, rqEntries'[i].cmd>> \notin taken'
  <2>1. rqEntries[k].n = p.n
    BY <1>1, <1>10, AcceptExact
  <2>2. <<p.n, p.cmd>> \notin taken
    BY <1>1, <1>10, <2>1 DEF OnceInv, TakenInv
  <2>3. ASSUME NEW i \in DOMAIN rqEntries'
        PROVE  <<rqEntries'[i].n, rqEntries'[i].cmd>> \notin taken'
    <3>1. <<rqEntries'[i].n, rqEntries'[i].cmd>> \notin taken
      BY <1>3, <1>10 DEF OnceInv, TakenInv
    <3>2. rqEntries'[i].n # p.n \/ rqEntries'[i].cmd # p.cmd
      BY <1>1, <1>3, <2>1 DEF OnceInv, DistinctInv
    <3> QED
      BY <1>8, <3>1, <3>2
  <2> QED
    BY <2>2, <2>3
<1> QED
  BY <1>5, <1>6, <1>8, <1>9, <1>10 DEF ListInv, TakenInv

\* Every step keeps OnceInv.
LEMMA OnceStep ==
    OnceInv /\ [Next]_vars =>
        /\ OnceInv'
        /\ Len(rqEntries') < Len(rqEntries) /\ ~ reused => taken' # taken
<1> SUFFICES ASSUME OnceInv, [Next]_vars
             PROVE  /\ OnceInv'
                    /\ Len(rqEntries') < Len(rqEntries) /\ ~ reused => taken' # taken
  OBVIOUS
<1>1. TypeOK' /\ NumbersInv'
  BY TypeStep, NumbersStep DEF OnceInv
<1>2. ASSUME UNCHANGED <<rqEntries, tx, reused, taken>>
      PROVE  ListInv' /\ ~ (Len(rqEntries') < Len(rqEntries))
  <2>1. ~ (Len(rqEntries') < Len(rqEntries))
    BY <1>2 DEF OnceInv, TypeOK
  <2> QED
    BY <1>2, <2>1 DEF OnceInv, ListInv, DistinctInv, RecentInv, TakenInv
<1>3. ASSUME NEW listed \in 0..Len(NewEntries), Build(listed)
      PROVE  ListInv' /\ ~ (Len(rqEntries') < Len(rqEntries))
  <2>1. DOMAIN rqEntries' = 1..(Len(rqEntries) + listed) /\ listed \in 0..2
    BY <1>3, BuildStep DEF OnceInv
  <2>2. rqEntries \in Seq(Entry) /\ rqEntries' \in Seq(Entry)
    BY <1>1 DEF OnceInv, TypeOK
  <2> QED
    BY <1>3, <2>1, <2>2, BuildOnce
<1>4. CASE Transmit
  <2>1. Build(Len(NewEntries)) /\ Len(NewEntries) \in 0..Len(NewEntries)
    BY <1>4 DEF Transmit, NewEntries
  <2> QED
    BY <1>1, <1>3, <2>1 DEF OnceInv, ListInv
<1>5. CASE TransmitFails
  BY <1>1, <1>3, <1>5 DEF TransmitFails, OnceInv, ListInv
<1>6. ASSUME NEW p \in toConsole, AwaitBridged(p) \/ Answered(p)
      PROVE  ListInv' /\ (~ reused => taken' # taken)
  BY <1>6, AcceptOnce DEF AwaitBridged, Answered, Read
<1>7. CASE UNCHANGED vars
  BY <1>1, <1>2, <1>7 DEF vars, console, history, OnceInv, ListInv
<1>8. ASSUME NEW m \in toBMC, Serve(m)
      PROVE  UNCHANGED <<rqEntries, tx, reused, taken>>
  BY <1>8 DEF Serve, console, history
<1>9. ASSUME NEW p, DropUnexpected(p)
      PROVE  UNCHANGED <<rqEntries, tx, reused, taken>>
  BY <1>9 DEF DropUnexpected, Read
<1>10. ASSUME Stray \/ StrayArrives
       PROVE  UNCHANGED <<rqEntries, tx, reused, taken>>
  BY <1>10 DEF Stray, StrayArrives, console, history
<1>11. ASSUME Timeout
       PROVE  UNCHANGED <<rqEntries, tx, reused, taken>>
  BY <1>11 DEF Timeout
<1>12. ASSUME NEW f, NEW c, Begin(f, c)
       PROVE  UNCHANGED <<rqEntries, tx, reused, taken>>
  BY <1>12 DEF Begin
<1> QED
  BY <1>1, <1>2, <1>4, <1>5, <1>6, <1>7, <1>8, <1>9, <1>10, <1>11, <1>12
  DEF Next, Engine, Receive, Command, Keepalive, SkipStray, RejectStray,
      StrayAnswer, DrainSol, OnceInv, ListInv

\* Duplicates of a response already taken are recognised as unexpected until
\* a listed sequence number is used again (ipmi_req_lookup_entry).
THEOREM ResponsesAcceptedOnce == Spec => AnsweredOnce
<1>1. Init => OnceInv
  <2> SUFFICES ASSUME Init PROVE OnceInv
    OBVIOUS
  <2>1. TypeOK
    BY TypeInit
  <2> QED
    BY <2>1 DEF Init, OnceInv, NumbersInv, EntriesInv, PacketsInv, DistinctInv,
                RecentInv, TakenInv
<1>2. OnceInv /\ [Next]_vars =>
        [Len(rqEntries') < Len(rqEntries) /\ ~ reused => taken' # taken]_vars
  BY OnceStep
<1>3. OnceInv /\ [Next]_vars => OnceInv'
  BY OnceStep
<1> QED
  BY <1>1, <1>2, <1>3, PTL DEF Spec, AnsweredOnce

-----------------------------------------------------------------------------
(* The awaited answer stays recognisable.                                  *)

\* While the engine polls, the command's own entry is listed: only the answer
\* itself can remove it (ipmi_lan_poll_recv).
THEOREM AwaitedStaysListed == Spec => []AwaitedIsListed
<1>1. Init => TypeOK /\ AwaitedIsListed
  BY TypeInit DEF Init, AwaitedIsListed, Polling
<1>2. TypeOK /\ AwaitedIsListed /\ [Next]_vars => TypeOK' /\ AwaitedIsListed'
  <2> SUFFICES ASSUME TypeOK, AwaitedIsListed, [Next]_vars
               PROVE  AwaitedIsListed'
    BY TypeStep
  <2>1. CASE Transmit
    <3>1. Build(Len(NewEntries)) /\ Len(NewEntries) \in 0..Len(NewEntries)
          /\ 1 \in 1..Len(NewEntries)
      BY <2>1 DEF Transmit, NewEntries
    <3>2. /\ DOMAIN rqEntries' = 1..(Len(rqEntries) + Len(NewEntries))
          /\ rqEntries'[Len(rqEntries) + 1] = NewEntry(cmd)
          /\ Len(NewEntries) \in 0..2
      BY <3>1, BuildStep
    <3>3. Len(rqEntries) + 1 \in DOMAIN rqEntries'
      BY <3>1, <3>2 DEF TypeOK
    <3>4. NewEntry(cmd).n = tx' /\ NewEntry(cmd).cmd = cmd'
      BY <2>1, <3>1 DEF NewEntry, Build, Transmit
    <3> QED
      BY <3>2, <3>3, <3>4 DEF AwaitedIsListed
  <2>2. ASSUME UNCHANGED <<rqEntries, tx, cmd>>, Polling' => Polling
        PROVE  AwaitedIsListed'
    BY <2>2 DEF AwaitedIsListed
  <2>3. ASSUME NEW p \in toConsole, AwaitBridged(p)
        PROVE  AwaitedIsListed'
    <3>1. Polling /\ Accept(p) /\ p.cmd = SendMessage /\ UNCHANGED <<tx, cmd>>
      BY <2>3 DEF AwaitBridged, BridgeAck, Read, control
    <3>2. PICK k \in DOMAIN rqEntries :
            /\ rqEntries[k].cmd = SendMessage
            /\ DOMAIN rqEntries' = 1..(Len(rqEntries) - 1)
            /\ \A i \in DOMAIN rqEntries' :
                  rqEntries'[i] = rqEntries[IF i < k THEN i ELSE i + 1]
      BY <3>1, AcceptStep
    <3>3. PICK i \in DOMAIN rqEntries : rqEntries[i].n = tx /\ rqEntries[i].cmd = cmd
      BY <3>1 DEF AwaitedIsListed
    <3>4. i # k /\ Len(rqEntries) \in Nat /\ DOMAIN rqEntries = 1..Len(rqEntries)
      BY <3>2, <3>3, CmdAssumption DEF CmdAssumption, TypeOK
    <3>5. CASE i < k
      <4>1. i \in DOMAIN rqEntries' /\ rqEntries'[i] = rqEntries[i]
        BY <3>2, <3>4, <3>5
      <4> QED
        BY <3>1, <3>3, <4>1 DEF AwaitedIsListed
    <3>6. CASE i > k
      <4>1. i - 1 \in DOMAIN rqEntries' /\ rqEntries'[i - 1] = rqEntries[i]
        BY <3>2, <3>4, <3>6
      <4> QED
        BY <3>1, <3>3, <4>1 DEF AwaitedIsListed
    <3> QED
      BY <3>4, <3>5, <3>6
  <2>4. ASSUME pc' \in {"idle", "send"}
        PROVE  AwaitedIsListed'
    BY <2>4 DEF AwaitedIsListed, Polling
  <2>5. ASSUME NEW f, NEW c, Begin(f, c)
        PROVE  AwaitedIsListed'
    BY <2>4, <2>5 DEF Begin
  <2>6. CASE TransmitFails
    BY <2>4, <2>6 DEF TransmitFails, Return
  <2>7. CASE Timeout
    BY <2>2, <2>7 DEF Timeout, NoAnswer, Return, Polling
  <2>8. ASSUME NEW p, DropUnexpected(p)
        PROVE  AwaitedIsListed'
    BY <2>2, <2>8 DEF DropUnexpected, Read, control, Polling
  <2>9. ASSUME NEW p, Answered(p)
        PROVE  AwaitedIsListed'
    BY <2>4, <2>9 DEF Answered, Return
  <2>10. CASE SkipStray
    BY <2>2, <2>10 DEF SkipStray, Stray, control, Polling
  <2>11. CASE RejectStray
    BY <2>2, <2>11 DEF RejectStray, Stray, NoAnswer, Return, Polling
  <2>12. ASSUME NEW kind, StrayAnswer(kind)
         PROVE  AwaitedIsListed'
    BY <2>4, <2>12 DEF StrayAnswer, Return
  <2>13. CASE DrainSol
    BY <2>2, <2>13 DEF DrainSol, Stray, Polling
  <2>14. ASSUME NEW m, Serve(m)
         PROVE  AwaitedIsListed'
    BY <2>2, <2>14 DEF Serve, console, control, history, Polling
  <2>15. CASE UNCHANGED vars
    BY <2>2, <2>15 DEF vars, console, control, history, Polling
  <2>16. CASE StrayArrives
    BY <2>2, <2>16 DEF StrayArrives, console, control, history, Polling
  <2> QED
    BY <2>1, <2>3, <2>5, <2>6, <2>7, <2>8, <2>9, <2>10, <2>11, <2>12, <2>13,
       <2>14, <2>15, <2>16 DEF Next, Engine, Receive, Command, Keepalive
<1> QED
  BY <1>1, <1>2, PTL DEF Spec

-----------------------------------------------------------------------------
(* The engine keeps its outstanding requests in a RequestList.             *)

\* What a response is matched with.
Kind(e) == [seq |-> e.seq, cmd |-> e.cmd]

\* The list that the engine's list stands for.
LEMMA ListedEntries ==
    ASSUME NEW q \in Seq(Entry)
    PROVE  /\ [i \in DOMAIN q |-> Kind(q[i])] \in Seq(Requests!Entries)
           /\ Len([i \in DOMAIN q |-> Kind(q[i])]) = Len(q)
           /\ \A i \in 1..Len(q) : [j \in DOMAIN q |-> Kind(q[j])][i] = Kind(q[i])
<1>1. DOMAIN q = 1..Len(q) /\ Len(q) \in Nat
  OBVIOUS
<1>2. \A i \in 1..Len(q) : Kind(q[i]) \in Requests!Entries
  <2>1. \A e \in Entry : Kind(e) \in Requests!Entries
    BY DEF Kind, Entry, Requests!Entries
  <2>2. \A i \in 1..Len(q) : q[i] \in Entry
    OBVIOUS
  <2> QED
    BY <2>1, <2>2
<1> QED
  BY <1>1, <1>2

\* A sequence that prolongs s by new is their concatenation.
LEMMA Prolonged ==
    ASSUME NEW S, NEW s \in Seq(S), NEW t \in Seq(S), NEW new \in Seq(S),
           Len(t) = Len(s) + Len(new),
           \A i \in 1..Len(s) : t[i] = s[i],
           \A i \in 1..Len(new) : t[Len(s) + i] = new[i]
    PROVE  t = s \o new
<1>1. s \o new \in Seq(S) /\ Len(s \o new) = Len(s) + Len(new)
  BY ConcatProperties
<1>2. ASSUME NEW i \in 1..Len(t)
      PROVE  t[i] = (s \o new)[i]
  <2>1. CASE i <= Len(s)
    BY <2>1, ConcatProperties
  <2>2. CASE i > Len(s)
    <3>1. i - Len(s) \in 1..Len(new) /\ Len(s) + (i - Len(s)) = i
      BY <2>2
    <3>2. (s \o new)[i] = new[i - Len(s)]
      BY <2>2, ConcatProperties
    <3> QED
      BY <3>1, <3>2
  <2> QED
    BY <2>1, <2>2
<1> QED
  BY <1>1, <1>2, SeqEqual

\* A sequence that lacks the k-th element of s is RemoveAt(s, k).
LEMMA Shortened ==
    ASSUME NEW S, NEW s \in Seq(S), NEW t \in Seq(S), NEW k \in 1..Len(s),
           Len(t) = Len(s) - 1,
           \A i \in 1..Len(t) : t[i] = s[IF i < k THEN i ELSE i + 1]
    PROVE  t = RemoveAt(s, k)
<1>1. /\ RemoveAt(s, k) \in Seq(S) /\ Len(RemoveAt(s, k)) = Len(t)
      /\ \A i \in 1..Len(t) : RemoveAt(s, k)[i] = t[i]
  BY RemoveEntry
<1> QED
  BY <1>1, SeqEqual

\* A transmission is an Add.
LEMMA BuildAdds ==
    ASSUME TypeOK, TypeOK', NEW listed \in 0..Len(NewEntries), Build(listed)
    PROVE  \E new \in Requests!Additions : Requests!Add(new)
<1> DEFINE e == Kind(NewEntry(cmd))
           f == Kind(NewEntry(SendMessage))
<1>1. e \in Requests!Entries /\ f \in Requests!Entries
  BY CmdAssumption DEF CmdAssumption, Kind, NewEntry, NextSeq, Requests!Entries, TypeOK
<1>2. /\ Len(Listed') = Len(Listed) + listed
      /\ Listed \in Seq(Requests!Entries) /\ Listed' \in Seq(Requests!Entries)
      /\ \A i \in 1..Len(Listed) : Listed'[i] = Listed[i]
      /\ listed \in 0..2
      /\ \A i \in 1..listed :
            Listed'[Len(Listed) + i] = Kind(NewEntry(IF i = 1 THEN cmd ELSE SendMessage))
  <2>1. rqEntries \in Seq(Entry) /\ rqEntries' \in Seq(Entry)
    BY DEF TypeOK
  <2>2. /\ Len(rqEntries) \in Nat /\ listed \in 0..2
        /\ Len(rqEntries') = Len(rqEntries) + listed
        /\ \A i \in 1..Len(rqEntries) : rqEntries'[i] = rqEntries[i]
        /\ \A i \in 1..listed :
              rqEntries'[Len(rqEntries) + i] =
                  NewEntry(IF i = 1 THEN cmd ELSE SendMessage)
    <3>1. /\ DOMAIN rqEntries' = 1..(Len(rqEntries) + listed)
          /\ \A i \in 1..Len(rqEntries) : rqEntries'[i] = rqEntries[i]
          /\ \A i \in 1..listed :
                rqEntries'[Len(rqEntries) + i] =
                    NewEntry(IF i = 1 THEN cmd ELSE SendMessage)
          /\ listed \in 0..2
      BY BuildStep, Zenon
    <3>2. /\ Len(rqEntries) \in Nat /\ Len(rqEntries') \in Nat
          /\ DOMAIN rqEntries' = 1..Len(rqEntries')
      BY <2>1
    <3>3. Len(rqEntries') = Len(rqEntries) + listed
      <4> DEFINE n == Len(rqEntries') m == Len(rqEntries) + listed
      <4>1. n \in Nat /\ m \in Nat /\ 1..n = 1..m
        BY <3>1, <3>2
      <4> HIDE DEF n, m
      <4>2. n = m
        BY <4>1
      <4> QED
        BY <4>2 DEF n, m
    <3> QED
      BY <3>1, <3>2, <3>3, Zenon
  <2>3. /\ Listed \in Seq(Requests!Entries) /\ Len(Listed) = Len(rqEntries)
        /\ \A i \in 1..Len(rqEntries) : Listed[i] = Kind(rqEntries[i])
    BY <2>1, ListedEntries DEF Listed, Kind
  <2>4. /\ Listed' \in Seq(Requests!Entries) /\ Len(Listed') = Len(rqEntries')
        /\ \A i \in 1..Len(rqEntries') : Listed'[i] = Kind(rqEntries'[i])
    BY <2>1, ListedEntries DEF Listed, Kind
  <2>5. \A i \in 1..Len(Listed) : Listed'[i] = Listed[i]
    <3>1. \A i \in 1..Len(rqEntries) : i \in 1..Len(rqEntries')
      BY <2>2
    <3> QED
      BY <2>2, <2>3, <2>4, <3>1
  <2>6. ASSUME NEW i \in 1..listed
        PROVE  Listed'[Len(Listed) + i] = Kind(NewEntry(IF i = 1 THEN cmd ELSE SendMessage))
    <3>1. Len(rqEntries) + i \in 1..Len(rqEntries')
      BY <2>2
    <3> QED
      BY <2>2, <2>3, <2>4, <3>1
  <2> QED
    BY <2>2, <2>3, <2>4, <2>5, <2>6
<1> HIDE DEF e, f
<1>3. CASE listed = 0
  <2>1. Listed' = Listed \o << >>
    BY <1>2, <1>3, Prolonged
  <2>2. << >> \in Requests!Additions
    BY DEF Requests!Additions
  <2> QED
    BY <2>1, <2>2 DEF Requests!Add
<1>4. CASE listed = 1
  <2>1. <<e>> \in Seq(Requests!Entries) /\ Len(<<e>>) = 1 /\ <<e>>[1] = e
    BY <1>1
  <2>2. Listed'[Len(Listed) + 1] = e
    BY <1>2, <1>4 DEF e
  <2>3. Listed' = Listed \o <<e>>
    <3>1. /\ Len(Listed') = Len(Listed) + Len(<<e>>)
          /\ \A i \in 1..Len(<<e>>) : Listed'[Len(Listed) + i] = <<e>>[i]
      BY <1>2, <1>4, <2>1, <2>2
    <3> QED
      BY <1>2, <2>1, <3>1, Prolonged
  <2>4. <<e>> \in Requests!Additions
    BY <1>1 DEF Requests!Additions
  <2> QED
    BY <2>3, <2>4 DEF Requests!Add
<1>5. CASE listed = 2
  <2>1. /\ <<e, f>> \in Seq(Requests!Entries) /\ Len(<<e, f>>) = 2
        /\ <<e, f>>[1] = e /\ <<e, f>>[2] = f
    BY <1>1
  <2>2. Listed'[Len(Listed) + 1] = e /\ Listed'[Len(Listed) + 2] = f
    BY <1>2, <1>5 DEF e, f
  <2>3. Listed' = Listed \o <<e, f>>
    <3>1. /\ Len(Listed') = Len(Listed) + Len(<<e, f>>)
          /\ \A i \in 1..Len(<<e, f>>) : Listed'[Len(Listed) + i] = <<e, f>>[i]
      BY <1>2, <1>5, <2>1, <2>2
    <3> QED
      BY <1>2, <2>1, <3>1, Prolonged
  <2>4. <<e, f>> \in Requests!Additions
    BY <1>1 DEF Requests!Additions
  <2> QED
    BY <2>3, <2>4 DEF Requests!Add
<1> QED
  BY <1>2, <1>3, <1>4, <1>5

\* Accepting a response is a Take.
LEMMA AcceptTakes ==
    ASSUME TypeOK, TypeOK', NEW p, Accept(p)
    PROVE  \E k \in DOMAIN Listed : Requests!Take(k)
<1>1. PICK k \in DOMAIN rqEntries :
        /\ rqEntries[k].seq = p.seq /\ rqEntries[k].cmd = p.cmd
        /\ \A j \in 1..(k - 1) :
             ~ (rqEntries[j].seq = p.seq /\ rqEntries[j].cmd = p.cmd)
        /\ Len(rqEntries') = Len(rqEntries) - 1
        /\ DOMAIN rqEntries' = 1..(Len(rqEntries) - 1)
        /\ \A i \in DOMAIN rqEntries' :
             rqEntries'[i] = rqEntries[IF i < k THEN i ELSE i + 1]
  BY AcceptStep
<1>2. rqEntries \in Seq(Entry) /\ rqEntries' \in Seq(Entry)
  BY DEF TypeOK
<1>3. /\ Listed \in Seq(Requests!Entries) /\ Len(Listed) = Len(rqEntries)
      /\ \A i \in 1..Len(rqEntries) : Listed[i] = Kind(rqEntries[i])
  BY <1>2, ListedEntries DEF Listed, Kind
<1>4. /\ Listed' \in Seq(Requests!Entries) /\ Len(Listed') = Len(rqEntries')
      /\ \A i \in 1..Len(rqEntries') : Listed'[i] = Kind(rqEntries'[i])
  BY <1>2, ListedEntries DEF Listed, Kind
<1>5. k \in 1..Len(rqEntries) /\ Len(rqEntries) \in Nat /\ k \in DOMAIN Listed
  BY <1>1, <1>2, <1>3
<1>6. \A i \in 1..Len(Listed') : Listed'[i] = Listed[IF i < k THEN i ELSE i + 1]
  <2> SUFFICES ASSUME NEW i \in 1..Len(Listed')
               PROVE  Listed'[i] = Listed[IF i < k THEN i ELSE i + 1]
    OBVIOUS
  <2> DEFINE j == IF i < k THEN i ELSE i + 1
  <2>1. i \in DOMAIN rqEntries' /\ i \in 1..Len(rqEntries') /\ j \in 1..Len(rqEntries)
    BY <1>1, <1>4, <1>5
  <2>2. rqEntries'[i] = rqEntries[j]
    BY <1>1, <2>1
  <2> HIDE DEF j
  <2>3. Listed'[i] = Listed[j]
    BY <1>3, <1>4, <2>1, <2>2
  <2> QED
    BY <2>3 DEF j
<1>7. Listed' = RemoveAt(Listed, k)
  BY <1>1, <1>3, <1>4, <1>5, <1>6, Shortened
<1>8. \A j \in 1..(k - 1) : Listed[j] # Listed[k]
  <2>1. \A j \in 1..(k - 1) : Kind(rqEntries[j]) # Kind(rqEntries[k])
    BY <1>1 DEF Kind
  <2> QED
    BY <1>3, <1>5, <2>1
<1> QED
  BY <1>5, <1>7, <1>8 DEF Requests!Take, Requests!RemoveAt, RemoveAt

\* The engine refines RequestList: each transmission appends its entries,
\* each accepted response takes the first entry of its kind, and no other
\* step touches the list (ipmi_req_add_entry, ipmi_req_remove_entry).
THEOREM ImplementsRequestList == Spec => UsesRequestList
<1>1. Init => Requests!Init
  BY DEF Init, Listed, Requests!Init
<1>2. TypeOK /\ TypeOK' /\ [Next]_vars => [Requests!Next]_Listed
  <2> SUFFICES ASSUME TypeOK, TypeOK', [Next]_vars
               PROVE  Requests!Next \/ UNCHANGED Listed
    BY Zenon
  <2>1. ASSUME UNCHANGED rqEntries
        PROVE  UNCHANGED Listed
    BY <2>1 DEF Listed
  <2>2. ASSUME NEW listed \in 0..Len(NewEntries), Build(listed)
        PROVE  Requests!Next
    BY <2>2, BuildAdds DEF Requests!Next
  <2>3. ASSUME NEW p, Accept(p)
        PROVE  Requests!Next
    BY <2>3, AcceptTakes DEF Requests!Next
  <2>4. CASE Transmit
    BY <2>2, <2>4 DEF Transmit, NewEntries
  <2>5. CASE TransmitFails
    BY <2>2, <2>5 DEF TransmitFails
  <2>6. ASSUME NEW p, AwaitBridged(p) \/ Answered(p)
        PROVE  Requests!Next
    BY <2>3, <2>6 DEF AwaitBridged, Answered
  <2>7. ASSUME NEW p, DropUnexpected(p)
        PROVE  UNCHANGED rqEntries
    BY <2>7 DEF DropUnexpected
  <2>8. ASSUME Stray \/ StrayArrives \/ Timeout
        PROVE  UNCHANGED rqEntries
    BY <2>8 DEF Stray, StrayArrives, Timeout, console
  <2>9. ASSUME NEW f, NEW c, Begin(f, c)
        PROVE  UNCHANGED rqEntries
    BY <2>9 DEF Begin
  <2>10. ASSUME NEW m, Serve(m)
         PROVE  UNCHANGED rqEntries
    BY <2>10 DEF Serve, console
  <2>11. CASE UNCHANGED vars
    BY <2>1, <2>11 DEF vars, console
  <2> QED
    BY <2>1, <2>4, <2>5, <2>6, <2>7, <2>8, <2>9, <2>10, <2>11
    DEF Next, Engine, Receive, Command, Keepalive, SkipStray, RejectStray,
        StrayAnswer, DrainSol
<1> QED
  BY <1>1, <1>2, TypeCorrect, PTL DEF Spec, UsesRequestList, Requests!Spec

=============================================================================
