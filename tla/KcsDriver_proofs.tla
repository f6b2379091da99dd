--------------------------- MODULE KcsDriver_proofs ---------------------------
(***************************************************************************)
(* Theorems about KcsDriver, for any programs, commands and lengths: what      *)
(* the program knows is well typed; one exchange at a time that was never       *)
(* waited for in vain gets its answer; and when the BMC is slow only in running *)
(* a request and giving its answer, exchanges are those of Exchange.             *)
(*                                                                         *)
(* The invariant follows the bytes: where the program is says what the           *)
(* interface holds, what the BMC stored of the request, and what is left of the   *)
(* answer.                                                                       *)
(***************************************************************************)
EXTENDS KcsDriver, SequenceTheorems, TLAPS

(* The types.                                                              *)

Words == {WrStart, WrEnd, ReadByte, Dummy} \cup [what : {"request"}, of : Requests, at : Nat]
Data == Words \cup [what : {"reply"}, to : Seq(Words), at : Nat]

Places == {"out", "gone", "ready", "begin", "drain", "write", "sent", "check", "clear",
           "reading", "not_read", "obf", "last_obf", "take", "take_last", "next", "done"}

ProgramState ==
    [at : Places, looks : BOOLEAN, selected : BOOLEAN, known : BOOLEAN,
     aim : {"command", "device_id", "device_id_again"}, left : 0..Commands, n : Nat,
     req : Requests \cup {NoRequest}, i : Nat, rx : Seq(Data), rv : {"ok", "late"}, late : BOOLEAN,
     rc : {"ok", "send_fail", "recv_fail", "timeout", "no_drv"}]

InterfaceState ==
    [state : {"idle", "read", "write", "error"}, ibf : BOOLEAN, port : {"command", "data"}, in : Words,
     obf : BOOLEAN, outReg : Data, out : Seq(Data), got : Seq(Words), ending : BOOLEAN]

Typed ==
    /\ prog \in [Programs -> ProgramState]
    /\ lock \in BOOLEAN
    /\ kcs \in InterfaceState
    /\ asked \subseteq Requests
    /\ ran \in Seq(Seq(Words))
    /\ accepted \in Seq([req : Requests, rx : Seq(Data)])

\* The places of the read phase; "sent" is one of them after the last byte.
Reads == {"reading", "not_read", "obf", "last_obf", "take", "take_last", "next"}
Last(q) == q.req.len + 2

\* How far the request is written.
Progress(p) ==
    LET q == prog[p]
    IN  InExchange(p) =>
            /\ q.req \in asked /\ q.req.by = p /\ q.req.n = q.n
            /\ q.i \in 0..Last(q)
            /\ q.at \in {"begin", "drain"} <=> (q.i = 0 /\ q.at # "done")
            /\ q.at \in {"check", "clear"} => q.i < Last(q)
            /\ q.at \in Reads => q.i = Last(q)

\* The exchanges that a program's commands still cost, at most.
Owed(aim) == CASE aim = "device_id" -> 2
               [] aim = "device_id_again" -> 1
               [] OTHER -> 0
Counts(p) ==
    LET q == prog[p]
    IN  /\ q.at = "out" => q = Fresh
        /\ q.at = "ready" => q.n + 3 * q.left <= MaxExchanges
        /\ InExchange(p) => q.n + 3 * q.left + Owed(q.aim) <= MaxExchanges

\* Numbers are not used twice: a program that is gone does not come back.
Numbered == \A r \in asked : prog[r.by].at = "gone" \/ r.n <= prog[r.by].n

DriverInv ==
    /\ Typed
    /\ \A p \in Programs : Progress(p) /\ Counts(p)
    /\ Numbered

-----------------------------------------------------------------------------
(* One exchange at a time.                                                 *)

OneAtATime ==
    \A p, q \in Programs : p # q => prog[p].at \in {"out", "gone"} \/ prog[q].at \in {"out", "gone"}

\* The BMC has taken k accesses of the write phase, or holds the k-th.
Stored(r, k) == IF k = r.len + 1 THEN r.len - 1 ELSE k - 1
Prefix(r, k) ==
    Len(kcs.got) = k /\ \A j \in 1..k : kcs.got[j] = Bytes(r)[j]
Taken(r, k) ==
    /\ ~kcs.ibf /\ kcs.state = "write" /\ kcs.ending = (k = r.len + 1)
    /\ Prefix(r, Stored(r, k))
Given(r, k) ==
    /\ kcs.ibf /\ kcs.port = Ops(r)[k].port /\ kcs.in = Ops(r)[k].byte
    /\ k > 1 => kcs.state = "write" /\ kcs.ending = (k = r.len + 2) /\ Prefix(r, Stored(r, k - 1))

\* The answer's next byte is there, or asked for, or was the last.
Holds == ~kcs.ibf /\ kcs.state = "read" /\ kcs.obf
Wanted == kcs.ibf /\ kcs.port = "data" /\ kcs.in = ReadByte /\ kcs.state = "read" /\ ~kcs.obf
Over == ~kcs.ibf /\ kcs.state = "idle" /\ kcs.obf

\* A program that never waited in vain knows what the interface holds.
InStep(p) ==
    LET q == prog[p]
        r == q.req
    IN  InExchange(p) /\ ~q.late =>
            /\ q.at # "begin" => q.rv = "ok"
            /\ q.at = "drain" => ~kcs.ibf
            /\ q.at = "write" => /\ ~kcs.ibf /\ ~kcs.obf
                                 /\ q.i > 1 => Taken(r, q.i - 1)
            /\ q.at = "sent" /\ q.i < Last(q) => ~kcs.obf /\ (Given(r, q.i) \/ Taken(r, q.i))
            /\ q.at \in {"check", "clear"} => Taken(r, q.i)
            /\ q.at = "sent" /\ q.i = Last(q) => (Given(r, q.i) /\ ~kcs.obf) \/ Wanted \/ Holds \/ Over
            /\ q.at = "reading" => Holds \/ Over
            /\ q.at \in {"obf", "take"} => Holds
            /\ q.at \in {"not_read", "last_obf", "take_last"} => Over
            /\ q.at = "next" => ~kcs.ibf /\ kcs.state = "read" /\ ~kcs.obf
            /\ q.at = "done" => q.rc \notin {"send_fail", "recv_fail"}

StepInv == ~Concurrent => OneAtATime /\ \A p \in Programs : InStep(p)

-----------------------------------------------------------------------------
(* And a BMC that is slow only in running a request and giving its answer. *)

HasRun(r) == \E k \in 1..Len(ran) : ran[k] = Bytes(r)

\* The last byte of the request is written.
Written(q) == q.i = Last(q) /\ q.at # "write"

\* The BMC holds the last byte of what will be run.
Held == kcs.ibf /\ kcs.port = "data" /\ kcs.state = "write" /\ kcs.ending

\* Requests run that were asked for, once; the one that was written whole was not
\* run yet.
RunInv ==
    /\ \A k \in 1..Len(ran) : \E r \in asked : ran[k] = Bytes(r)
    /\ \A j, k \in 1..Len(ran) : ran[j] = ran[k] => j = k
    /\ Held => \E r \in asked :
                   /\ Append(kcs.got, kcs.in) = Bytes(r) /\ ~HasRun(r)
                   /\ \A p \in Programs : InExchange(p) /\ prog[p].req = r => Written(prog[p])
    /\ \A p \in Programs : InExchange(p) /\ ~Written(prog[p]) => ~HasRun(prog[p].req)

\* Of the answer of n bytes to r, rx holds the first bytes and from the next
\* ones on, out holds the rest.
Answers(r, n, rx, k) ==
    /\ n \in ReplyLengths /\ HasRun(r)
    /\ Len(rx) + k + Len(kcs.out) = n
    /\ \A j \in 1..Len(rx) : rx[j] = Reply(Bytes(r), n)[j]
    /\ \A j \in 1..Len(kcs.out) : kcs.out[j] = Reply(Bytes(r), n)[Len(rx) + k + j]
Shows(r, rx) ==
    /\ Holds /\ ~kcs.ending
    /\ \E n \in ReplyLengths : Answers(r, n, rx, 1) /\ kcs.outReg = Reply(Bytes(r), n)[Len(rx) + 1]
Fetches(r, rx) ==
    /\ Wanted /\ ~kcs.ending
    /\ \E n \in ReplyLengths : Answers(r, n, rx, 0)
Whole(r, rx) == HasRun(r) /\ \E n \in ReplyLengths : rx = Reply(Bytes(r), n)
Ended(r, rx) == Over /\ ~kcs.ending /\ Whole(r, rx)

\* A program that waits in vain after the last byte: the request may yet run,
\* and where it then takes a byte too many the BMC ends in its error state.
Pending(r, rx) == Held /\ ~kcs.obf /\ Append(kcs.got, kcs.in) = Bytes(r) /\ rx = <<>>
TooMany == kcs.ibf /\ kcs.port = "data" /\ kcs.in = ReadByte /\ kcs.state = "idle" /\ ~kcs.ending
Spoilt == ~kcs.ibf /\ kcs.state = "error"

\* Where a program that waited in vain can be.
MayBeLate(q) ==
    \/ q.at = "drain" /\ q.rv = "late"
    \/ q.at \in {"check", "clear"} /\ q.i = 1 /\ q.rv = "late"
    \/ q.at \in Reads \cup {"done"}
    \/ q.at = "sent" /\ q.i = Last(q)

Reading(q) ==
    LET r == q.req
    IN  /\ ~Written(q) => q.rx = <<>>
        /\ q.late => MayBeLate(q)
        /\ q.at = "sent" /\ q.i = Last(q) =>
               \/ Pending(r, q.rx) \/ Shows(r, q.rx) \/ Fetches(r, q.rx) \/ Ended(r, q.rx)
               \/ Spoilt \/ TooMany
        /\ q.at = "reading" =>
               Pending(r, q.rx) \/ Shows(r, q.rx) \/ Fetches(r, q.rx) \/ Ended(r, q.rx) \/ Spoilt
        /\ q.at = "not_read" => Pending(r, q.rx) \/ Shows(r, q.rx) \/ Ended(r, q.rx) \/ Spoilt
        /\ q.at = "obf" => Shows(r, q.rx) \/ Fetches(r, q.rx) \/ Ended(r, q.rx)
        /\ q.at = "take" => Shows(r, q.rx) \/ Ended(r, q.rx)
        /\ q.at \in {"last_obf", "take_last"} => Ended(r, q.rx)
        /\ q.at = "next" =>
               /\ ~kcs.ibf /\ ~kcs.obf /\ ~kcs.ending
               /\ \/ kcs.state = "read" /\ \E n \in ReplyLengths : Answers(r, n, q.rx, 0)
                  \/ kcs.state = "idle"
        /\ q.at = "done" /\ q.rc = "ok" => Whole(r, q.rx)

ReadInv(p) == InExchange(p) => Reading(prog[p])

\* Each answer that was taken is the whole answer to a request that has run.
TakenInv ==
    /\ \A k \in 1..Len(accepted) : accepted[k].req \in asked /\ Whole(accepted[k].req, accepted[k].rx)
    /\ \A j, k \in 1..Len(accepted) : accepted[j].req = accepted[k].req => j = k
    /\ \A p \in Programs, k \in 1..Len(accepted) : InExchange(p) => accepted[k].req # prog[p].req

ExchangeInv ==
    ~Concurrent /\ ~SlowBytes => RunInv /\ (\A p \in Programs : ReadInv(p)) /\ TakenInv

-----------------------------------------------------------------------------
(* Requests, their bytes and their accesses; answers.                      *)

\* The bounds are numbers.
LEMMA Bounds ==
    /\ Commands \in Nat /\ MaxExchanges = 3 * Commands /\ MaxExchanges \in Nat
    /\ \A n \in Lengths : n \in Nat /\ n >= 2
    /\ \A n \in ReplyLengths : n \in Nat /\ n >= 2
<1>1. Commands \in Nat
  BY KcsAssumption DEF KcsAssumption
<1>2. ASSUME NEW n \in Nat \ {0, 1}
      PROVE  n \in Nat /\ n >= 2
  OBVIOUS
<1>3. Lengths \subseteq Nat \ {0, 1} /\ ReplyLengths \subseteq Nat \ {0, 1}
  BY KcsAssumption DEF KcsAssumption
<1> QED
  BY <1>1, <1>2, <1>3 DEF MaxExchanges

\* A request's length counts NetFn and number, and more bytes.
LEMMA RequestType ==
    ASSUME NEW r \in Requests
    PROVE  /\ r.by \in Programs /\ r.n \in Nat /\ r.n >= 1 /\ r.n <= MaxExchanges
           /\ r.len \in Nat /\ r.len >= 2
<1>1. r.by \in Programs /\ r.n \in 1..MaxExchanges /\ r.len \in {2} \cup Lengths
  BY DEF Requests
<1> QED
  BY <1>1, Bounds

\* The bytes of a request are words, and show whose they are.
LEMMA BytesAre ==
    ASSUME NEW r \in Requests
    PROVE  /\ Bytes(r) \in Seq(Words) /\ Len(Bytes(r)) = r.len
           /\ \A j \in 1..r.len : Bytes(r)[j] = [what |-> "request", of |-> r, at |-> j]
           /\ \A s \in Requests : Bytes(s) = Bytes(r) => s = r
<1>1. r.len \in Nat /\ r.len >= 2
  BY RequestType
<1>2. \A j \in 1..r.len : Bytes(r)[j] = [what |-> "request", of |-> r, at |-> j]
  BY <1>1 DEF Bytes
<1>3. ASSUME NEW j \in 1..r.len
      PROVE  [what |-> "request", of |-> r, at |-> j] \in Words
  <2>1. [what |-> "request", of |-> r, at |-> j] \in [what : {"request"}, of : Requests, at : Nat]
    BY <1>1
  <2> QED
    BY <2>1 DEF Words
<1>4. Bytes(r) \in Seq(Words) /\ Len(Bytes(r)) = r.len
  BY <1>1, <1>3 DEF Bytes
<1>5. ASSUME NEW s \in Requests, Bytes(s) = Bytes(r)
      PROVE  s = r
  <2>1. s.len \in Nat /\ s.len >= 2
    BY RequestType
  <2>2. Bytes(s)[1] = [what |-> "request", of |-> s, at |-> 1]
    BY <2>1 DEF Bytes
  <2>3. Bytes(r)[1] = [what |-> "request", of |-> r, at |-> 1]
    BY <1>1, <1>2
  <2>4. Bytes(s)[1].of = s /\ Bytes(r)[1].of = r
    BY <2>2, <2>3
  <2> QED
    BY <1>5, <2>4
<1> QED
  BY <1>2, <1>4, <1>5

\* The accesses of the write phase, one after the other.
LEMMA OpsAre ==
    ASSUME NEW r \in Requests
    PROVE  /\ Len(Ops(r)) = r.len + 2
           /\ Ops(r)[1] = [port |-> "command", byte |-> WrStart]
           /\ \A k \in 2..r.len : Ops(r)[k] = [port |-> "data", byte |-> Bytes(r)[k - 1]]
           /\ Ops(r)[r.len + 1] = [port |-> "command", byte |-> WrEnd]
           /\ Ops(r)[r.len + 2] = [port |-> "data", byte |-> Bytes(r)[r.len]]
           /\ \A k \in 1..(r.len + 2) :
                  Ops(r)[k].port \in {"command", "data"} /\ Ops(r)[k].byte \in Words
<1> DEFINE Access == [port : {"command", "data"}, byte : Words]
           first == <<[port |-> "command", byte |-> WrStart]>>
           middle == [i \in 1..(r.len - 1) |-> [port |-> "data", byte |-> Bytes(r)[i]]]
           end == <<[port |-> "command", byte |-> WrEnd], [port |-> "data", byte |-> Bytes(r)[r.len]]>>
<1>1. r.len \in Nat /\ r.len >= 2 /\ r.len - 1 \in Nat
  BY RequestType
<1>2. \A j \in 1..r.len : Bytes(r)[j] \in Words
  BY <1>1, BytesAre DEF Words
<1>3. first \in Seq(Access) /\ Len(first) = 1 /\ first[1] = [port |-> "command", byte |-> WrStart]
  BY DEF Words
<1>4. ASSUME NEW i \in 1..(r.len - 1)
      PROVE  [port |-> "data", byte |-> Bytes(r)[i]] \in Access
  <2>1. Bytes(r)[i] \in Words
    BY <1>1, <1>2
  <2> QED
    BY <2>1
<1>5. middle \in Seq(Access) /\ Len(middle) = r.len - 1
  <2> HIDE DEF Access
  <2> QED
    BY <1>1, <1>4
<1>6. \A i \in 1..(r.len - 1) : middle[i] = [port |-> "data", byte |-> Bytes(r)[i]]
  OBVIOUS
<1>7. /\ end \in Seq(Access) /\ Len(end) = 2
      /\ end[1] = [port |-> "command", byte |-> WrEnd] /\ end[2] = [port |-> "data", byte |-> Bytes(r)[r.len]]
  BY <1>1, <1>2 DEF Words
<1>8. Ops(r) = (first \o middle) \o end
  BY DEF Ops
<1> HIDE DEF first, middle, end, Access
<1>9. /\ first \o middle \in Seq(Access) /\ Len(first \o middle) = r.len
      /\ \A k \in 1..r.len : (first \o middle)[k] = IF k <= 1 THEN first[k] ELSE middle[k - 1]
  <2>1. /\ first \o middle \in Seq(Access) /\ Len(first \o middle) = Len(first) + Len(middle)
        /\ \A k \in 1..Len(first) + Len(middle) :
               (first \o middle)[k] = IF k <= Len(first) THEN first[k] ELSE middle[k - Len(first)]
    BY <1>3, <1>5, ConcatProperties
  <2> QED
    BY <1>1, <1>3, <1>5, <2>1
<1>10. /\ Ops(r) \in Seq(Access) /\ Len(Ops(r)) = r.len + 2
       /\ \A k \in 1..(r.len + 2) : Ops(r)[k] = IF k <= r.len THEN (first \o middle)[k] ELSE end[k - r.len]
  <2> DEFINE start == first \o middle
  <2>1. start \in Seq(Access) /\ Len(start) = r.len /\ Ops(r) = start \o end
    BY <1>8, <1>9
  <2> HIDE DEF start
  <2>2. /\ start \o end \in Seq(Access) /\ Len(start \o end) = Len(start) + Len(end)
        /\ \A k \in 1..Len(start) + Len(end) :
               (start \o end)[k] = IF k <= Len(start) THEN start[k] ELSE end[k - Len(start)]
    BY <1>7, <2>1, ConcatProperties
  <2>3. \A k \in 1..(r.len + 2) : Ops(r)[k] = IF k <= r.len THEN start[k] ELSE end[k - r.len]
    BY <1>1, <1>7, <2>1, <2>2
  <2> QED
    BY <1>1, <1>7, <2>1, <2>2, <2>3 DEF start
<1>11. \A k \in 1..(r.len + 2) : Ops(r)[k] \in Access
  BY <1>1, <1>10
<1>12. ASSUME NEW k \in 2..r.len
       PROVE  Ops(r)[k] = [port |-> "data", byte |-> Bytes(r)[k - 1]]
  <2>1. k \in 1..(r.len + 2) /\ k - 1 \in 1..(r.len - 1) /\ k \in 1..r.len /\ k <= r.len /\ ~(k <= 1)
    BY <1>1
  <2> QED
    BY <2>1, <1>6, <1>9, <1>10
<1>13. Ops(r)[1] = first[1] /\ Ops(r)[r.len + 1] = end[1] /\ Ops(r)[r.len + 2] = end[2]
  <2>1. Ops(r)[1] = (first \o middle)[1] /\ (first \o middle)[1] = first[1]
    <3>1. 1 \in 1..(r.len + 2) /\ 1 \in 1..r.len /\ 1 <= r.len /\ 1 <= 1
      BY <1>1
    <3>2. Ops(r)[1] = (first \o middle)[1]
      BY <1>10, <3>1
    <3> QED
      BY <1>9, <3>1, <3>2
  <2>2. Ops(r)[r.len + 1] = end[1] /\ Ops(r)[r.len + 2] = end[2]
    <3>1. /\ r.len + 1 \in 1..(r.len + 2) /\ ~(r.len + 1 <= r.len) /\ (r.len + 1) - r.len = 1
          /\ r.len + 2 \in 1..(r.len + 2) /\ ~(r.len + 2 <= r.len) /\ (r.len + 2) - r.len = 2
      BY <1>1
    <3> QED
      BY <1>10, <3>1
  <2> QED
    BY <2>1, <2>2
<1>14. \A k \in 1..(r.len + 2) : Ops(r)[k].port \in {"command", "data"} /\ Ops(r)[k].byte \in Words
  <2>1. \A a \in Access : a.port \in {"command", "data"} /\ a.byte \in Words
    BY DEF Access
  <2> QED
    BY <1>11, <2>1
<1>15. /\ Ops(r)[1] = [port |-> "command", byte |-> WrStart]
       /\ Ops(r)[r.len + 1] = [port |-> "command", byte |-> WrEnd]
       /\ Ops(r)[r.len + 2] = [port |-> "data", byte |-> Bytes(r)[r.len]]
  <2>1. Ops(r)[1] = [port |-> "command", byte |-> WrStart]
    BY <1>3, <1>13
  <2>2. /\ Ops(r)[r.len + 1] = [port |-> "command", byte |-> WrEnd]
        /\ Ops(r)[r.len + 2] = [port |-> "data", byte |-> Bytes(r)[r.len]]
    BY <1>7, <1>13
  <2> QED
    BY <2>1, <2>2
<1> QED
  BY <1>10, <1>12, <1>14, <1>15

\* The same, by port and byte.
LEMMA OpsParts ==
    ASSUME NEW r \in Requests
    PROVE  /\ Ops(r)[1].port = "command" /\ Ops(r)[1].byte = WrStart
           /\ \A k \in 2..r.len : Ops(r)[k].port = "data" /\ Ops(r)[k].byte = Bytes(r)[k - 1]
           /\ Ops(r)[r.len + 1].port = "command" /\ Ops(r)[r.len + 1].byte = WrEnd
           /\ Ops(r)[r.len + 2].port = "data" /\ Ops(r)[r.len + 2].byte = Bytes(r)[r.len]
<1>1. Ops(r)[1].port = "command" /\ Ops(r)[1].byte = WrStart
  <2>1. Ops(r)[1] = [port |-> "command", byte |-> WrStart]
    BY OpsAre
  <2> QED
    BY <2>1
<1>2. ASSUME NEW k \in 2..r.len
      PROVE  Ops(r)[k].port = "data" /\ Ops(r)[k].byte = Bytes(r)[k - 1]
  <2>1. Ops(r)[k] = [port |-> "data", byte |-> Bytes(r)[k - 1]]
    BY OpsAre
  <2> QED
    BY <2>1
<1>3. /\ Ops(r)[r.len + 1].port = "command" /\ Ops(r)[r.len + 1].byte = WrEnd
      /\ Ops(r)[r.len + 2].port = "data" /\ Ops(r)[r.len + 2].byte = Bytes(r)[r.len]
  <2>1. /\ Ops(r)[r.len + 1] = [port |-> "command", byte |-> WrEnd]
        /\ Ops(r)[r.len + 2] = [port |-> "data", byte |-> Bytes(r)[r.len]]
    BY OpsAre
  <2> QED
    BY <2>1
<1> QED
  BY <1>1, <1>2, <1>3

\* An answer of n bytes: its first is shown, the others remain.
LEMMA ReplyIs ==
    ASSUME NEW got \in Seq(Words), NEW n \in ReplyLengths
    PROVE  /\ n \in Nat /\ n >= 2
           /\ Reply(got, n) \in Seq(Data) /\ Len(Reply(got, n)) = n
           /\ Head(Reply(got, n)) = Reply(got, n)[1] /\ Reply(got, n)[1] \in Data
           /\ Tail(Reply(got, n)) \in Seq(Data) /\ Len(Tail(Reply(got, n))) = n - 1
           /\ \A j \in 1..(n - 1) : Tail(Reply(got, n))[j] = Reply(got, n)[j + 1]
<1>1. n \in Nat /\ n >= 2
  BY Bounds
<1>2. \A j \in 1..n : [what |-> "reply", to |-> got, at |-> j] \in Data
  BY <1>1 DEF Data
<1>3. Reply(got, n) \in Seq(Data) /\ Len(Reply(got, n)) = n
  BY <1>1, <1>2 DEF Reply
<1> QED
  BY <1>1, <1>3

-----------------------------------------------------------------------------
(* The types, how far a request is written, and how many there are.        *)

\* What holds at the start.
LEMMA DriverInit == Init => DriverInv
<1> SUFFICES ASSUME Init PROVE DriverInv
  OBVIOUS
<1>1. Fresh \in ProgramState
  BY KcsAssumption DEF Fresh, ProgramState, Places, KcsAssumption
<1>2. kcs \in InterfaceState
  BY DEF Init, InterfaceState, Words, Data
<1>3. Typed
  <2>1. prog \in [Programs -> ProgramState]
    BY <1>1 DEF Init
  <2>2. lock \in BOOLEAN
    BY DEF Init
  <2>3. asked \subseteq Requests /\ ran \in Seq(Seq(Words)) /\ accepted \in Seq([req : Requests, rx : Seq(Data)])
    BY DEF Init
  <2> QED
    BY <1>2, <2>1, <2>2, <2>3 DEF Typed
<1>4. ASSUME NEW p \in Programs
      PROVE  Progress(p) /\ Counts(p)
  BY DEF Init, Progress, Counts, InExchange, Fresh
<1> QED
  BY <1>3, <1>4 DEF DriverInv, Numbered, Init

\* A step of one program, to q: what has to be seen of it.
LEMMA MovesKeep ==
    ASSUME DriverInv, NEW p \in Programs, NEW q \in ProgramState, Goes(p, q),
           asked \subseteq asked', asked' \subseteq Requests,
           \A r \in asked' \ asked : r.by = p /\ r.n <= q.n,
           q.at = "gone" \/ q.n >= prog[p].n,
           q.at \notin {"out", "gone", "ready"} =>
               /\ q.req \in asked' /\ q.req.by = p /\ q.req.n = q.n
               /\ q.i \in 0..Last(q)
               /\ q.at \in {"begin", "drain"} <=> (q.i = 0 /\ q.at # "done")
               /\ q.at \in {"check", "clear"} => q.i < Last(q)
               /\ q.at \in Reads => q.i = Last(q)
               /\ q.n + 3 * q.left + Owed(q.aim) <= MaxExchanges,
           q.at # "out", prog[p].at # "gone",
           q.at = "ready" => q.n + 3 * q.left <= MaxExchanges
    PROVE  /\ prog' \in [Programs -> ProgramState]
           /\ \A o \in Programs : Progress(o)' /\ Counts(o)'
           /\ Numbered'
<1>1. /\ prog \in [Programs -> ProgramState]
      /\ prog' = [prog EXCEPT ![p] = q]
  BY DEF DriverInv, Typed, Goes
<1>2. prog' \in [Programs -> ProgramState] /\ prog'[p] = q
      /\ \A o \in Programs : o # p => prog'[o] = prog[o]
  BY <1>1
<1>3. ASSUME NEW o \in Programs
      PROVE  Progress(o)' /\ Counts(o)'
  <2>1. CASE o = p
    BY <1>2, <2>1 DEF Progress, Counts, InExchange, Last
  <2>2. CASE o # p
    <3>1. prog'[o] = prog[o] /\ Progress(o) /\ Counts(o)
      BY <1>2, <2>2 DEF DriverInv
    <3> QED
      BY <3>1 DEF Progress, Counts, InExchange, Last
  <2> QED
    BY <2>1, <2>2
<1>4. ASSUME NEW r \in asked'
      PROVE  prog'[r.by].at = "gone" \/ r.n <= prog'[r.by].n
  <2>1. r \in Requests /\ r.by \in Programs /\ r.n \in Nat
    BY RequestType
  <2>2. prog[p].n \in Nat /\ q.n \in Nat
    BY <1>1 DEF ProgramState
  <2>3. CASE r.by = p
    BY <1>2, <2>1, <2>2, <2>3 DEF DriverInv, Numbered
  <2>4. CASE r.by # p
    BY <1>2, <2>1, <2>4 DEF DriverInv, Numbered
  <2> QED
    BY <2>3, <2>4
<1> QED
  BY <1>2, <1>3, <1>4 DEF Numbered

\* A step of a program that only changes the places and what it knows: the
\* exchange it is in stays the same.
LEMMA GoesOn ==
    ASSUME DriverInv, NEW p \in Programs, NEW q \in ProgramState, Goes(p, q), asked' = asked,
           InExchange(p),
           q.at \notin {"out", "gone", "ready", "begin", "drain"},
           q.req = prog[p].req, q.n = prog[p].n, q.left = prog[p].left, q.aim = prog[p].aim,
           q.i \in 0..Last(q), q.at = "done" \/ q.i > 0,
           q.at \in {"check", "clear"} => q.i < Last(q),
           q.at \in Reads => q.i = Last(q)
    PROVE  /\ prog' \in [Programs -> ProgramState]
           /\ \A o \in Programs : Progress(o)' /\ Counts(o)'
           /\ Numbered'
<1>1. /\ asked \subseteq Requests /\ Progress(p) /\ Counts(p)
      /\ prog[p] \in ProgramState /\ prog[p].at \notin {"out", "gone", "ready"}
  BY DEF DriverInv, Typed, InExchange
<1>2. /\ q.req \in asked /\ q.req.by = p /\ q.req.n = q.n
      /\ q.n + 3 * q.left + Owed(q.aim) <= MaxExchanges
  BY <1>1 DEF Progress, Counts, InExchange
<1>3. q.n \in Nat
  BY DEF ProgramState
<1> QED
  BY <1>1, <1>2, <1>3, MovesKeep DEF Reads

\* A program that begins an exchange.
Begun(q, aim, r) ==
    [q EXCEPT !.at = "begin", !.aim = aim, !.n = r.n, !.req = r, !.i = 0, !.rx = <<>>, !.late = FALSE]

\* ProcessMessage begins an exchange with a request of its own.
LEMMA SendIs ==
    ASSUME DriverInv, NEW p \in Programs, prog[p].at \notin {"out", "gone"},
           NEW aim \in {"command", "device_id", "device_id_again"}, NEW q \in ProgramState,
           q.n = prog[p].n, q.n + 1 + 3 * q.left + Owed(aim) <= MaxExchanges,
           Send(p, aim, q)
    PROVE  \E r \in Requests \ asked :
               /\ asked' = asked \cup {r}
               /\ r.by = p /\ r.n = q.n + 1
               /\ Begun(q, aim, r) \in ProgramState /\ Goes(p, Begun(q, aim, r))
               /\ prog' \in [Programs -> ProgramState]
               /\ \A o \in Programs : Progress(o)' /\ Counts(o)'
               /\ Numbered'
<1>1. PICK len \in {2} \cup Lengths :
          LET r == [by |-> p, n |-> prog[p].n + 1, len |-> len]
          IN  /\ asked' = asked \cup {r}
              /\ Goes(p, [q EXCEPT !.at = "begin", !.aim = aim, !.n = r.n, !.req = r, !.i = 0,
                                   !.rx = <<>>, !.late = FALSE])
  BY DEF Send
<1> DEFINE r == [by |-> p, n |-> prog[p].n + 1, len |-> len]
           new == [q EXCEPT !.at = "begin", !.aim = aim, !.n = r.n, !.req = r, !.i = 0,
                            !.rx = <<>>, !.late = FALSE]
<1>2. q.n \in Nat /\ q.left \in Nat /\ Owed(aim) \in Nat
  BY Bounds DEF ProgramState, Owed
<1>3. len \in Nat /\ len >= 2
  BY Bounds
<1>4. r.by = p /\ r.n = q.n + 1 /\ r.n \in 1..MaxExchanges /\ r.len = len
  BY <1>2, Bounds
<1>5. r \in Requests
  BY <1>4 DEF Requests
<1>6. r \notin asked
  BY <1>2, <1>4, <1>5 DEF DriverInv, Numbered
<1>7. asked' = asked \cup {r} /\ Goes(p, new)
  BY <1>1
<1> HIDE DEF r
<1>8. new \in ProgramState
  <2>1. r.n \in Nat /\ <<>> \in Seq(Data)
    BY <1>2, <1>4
  <2> QED
    BY <2>1, <1>5 DEF ProgramState, Places
<1>9. /\ new.at = "begin" /\ new.aim = aim /\ new.n = r.n /\ new.req = r /\ new.i = 0 /\ new.left = q.left
  BY DEF ProgramState
<1>10. asked \subseteq Requests
  BY DEF DriverInv, Typed
<1> HIDE DEF new
<1>11. Last(new) \in Nat
  BY <1>3, <1>4, <1>9 DEF Last
<1>12. /\ prog' \in [Programs -> ProgramState]
       /\ \A o \in Programs : Progress(o)' /\ Counts(o)'
       /\ Numbered'
  <2>1. new.n + 3 * new.left + Owed(new.aim) <= MaxExchanges /\ new.n >= prog[p].n
    BY <1>2, <1>4, <1>9, Bounds
  <2>2. \A s \in asked' \ asked : s.by = p /\ s.n <= new.n
    BY <1>2, <1>4, <1>7, <1>9
  <2>3. asked \subseteq asked' /\ asked' \subseteq Requests /\ new.req \in asked'
    BY <1>5, <1>7, <1>9, <1>10
  <2> QED
    BY <1>2, <1>4, <1>7, <1>8, <1>9, <1>11, <2>1, <2>2, <2>3, MovesKeep DEF Reads
<1> QED
  BY <1>4, <1>5, <1>6, <1>7, <1>8, <1>12 DEF new, Begun

\* Each access of the exchange keeps the types and the progress.
LEMMA ExchangesKeepTypes ==
    ASSUME DriverInv, NEW p \in Programs, Exchanges(p)
    PROVE  DriverInv'
<1> DEFINE q == prog[p]
<1>1. /\ prog \in [Programs -> ProgramState] /\ q \in ProgramState /\ kcs \in InterfaceState
      /\ lock \in BOOLEAN /\ asked \subseteq Requests /\ ran \in Seq(Seq(Words))
      /\ accepted \in Seq([req : Requests, rx : Seq(Data)])
      /\ Progress(p) /\ Counts(p)
  BY DEF DriverInv, Typed
<1>2. UNCHANGED <<lock, asked, ran, accepted>>
  BY DEF Exchanges, WaitForIbfClear, Drain, Write, GetWriteState, ClearObf, GetReadState, GetIdleState,
         WaitForObfSet, Take, AskForNext, TakeLast, Quiet
<1>3. InExchange(p)
  BY DEF Exchanges, WaitForIbfClear, Drain, Write, GetWriteState, ClearObf, GetReadState, GetIdleState,
         WaitForObfSet, Take, AskForNext, TakeLast, InExchange
<1>4. /\ q.req \in Requests /\ q.req.len \in Nat /\ q.req.len >= 2
      /\ Len(Ops(q.req)) = Last(q) /\ Last(q) \in Nat /\ Last(q) >= 4
      /\ q.i \in 0..Last(q)
      /\ q.at \in {"begin", "drain"} => q.i = 0
      /\ q.at \notin {"begin", "drain", "done"} => q.i >= 1
      /\ q.at \in {"check", "clear"} => q.i < Last(q)
      /\ q.at \in Reads => q.i = Last(q)
  <2>1. q.req \in Requests
    BY <1>1, <1>3 DEF Progress
  <2>2. q.req.len \in Nat /\ q.req.len >= 2 /\ Len(Ops(q.req)) = Last(q)
    BY <2>1, RequestType, OpsAre DEF Last
  <2> QED
    BY <1>1, <1>3, <2>1, <2>2 DEF Progress, Last
<1>5. kcs' \in InterfaceState
  <2>1. CASE UNCHANGED kcs
    BY <1>1, <2>1
  <2>2. CASE Inb
    BY <1>1, <2>2 DEF Inb, InterfaceState
  <2>3. CASE Write(p)
    <3>1. q.i \in 1..(q.req.len + 2)
      BY <1>4, <2>3 DEF Write, Last
    <3>2. Ops(q.req)[q.i].port \in {"command", "data"} /\ Ops(q.req)[q.i].byte \in Words
      BY <1>4, <3>1, OpsAre
    <3> QED
      BY <1>1, <2>3, <3>2 DEF Write, Outb, InterfaceState
  <2>4. CASE AskForNext(p)
    BY <1>1, <2>4 DEF AskForNext, Outb, InterfaceState, Words
  <2> QED
    BY <2>1, <2>2, <2>3, <2>4 DEF Exchanges, WaitForIbfClear, Drain, GetWriteState, ClearObf, GetReadState,
       GetIdleState, WaitForObfSet, Take, TakeLast
<1>6. ASSUME NEW new \in ProgramState, Goes(p, new), new.at \notin {"out", "gone", "ready", "begin", "drain"},
             new.req = q.req, new.n = q.n, new.left = q.left, new.aim = q.aim,
             new.i \in 0..Last(q), new.at = "done" \/ new.i > 0,
             new.at \in {"check", "clear"} => new.i < Last(q), new.at \in Reads => new.i = Last(q)
      PROVE  DriverInv'
  <2>1. Last(new) = Last(q)
    BY <1>6 DEF Last
  <2> QED
    BY <1>1, <1>2, <1>3, <1>5, <1>6, <2>1, GoesOn DEF DriverInv, Typed
<1>7. CASE WaitForIbfClear(p)
  <2> DEFINE next == CASE q.at = "begin" -> "drain"
                       [] q.at = "sent" /\ q.i < Len(Ops(q.req)) -> "check"
                       [] OTHER -> "reading"
  <2>1. q.at \in {"begin", "sent"} /\ next \in {"drain", "check", "reading"}
    BY <1>7 DEF WaitForIbfClear
  <2>2. PICK new \in ProgramState :
            /\ Goes(p, new)
            /\ new.at = next /\ new.i = q.i /\ new.req = q.req /\ new.n = q.n
            /\ new.left = q.left /\ new.aim = q.aim
    <3>1. CASE Goes(p, [q EXCEPT !.at = next, !.rv = "ok"])
      <4> DEFINE new == [q EXCEPT !.at = next, !.rv = "ok"]
      <4>1. /\ new \in ProgramState /\ new.at = next /\ new.i = q.i /\ new.req = q.req /\ new.n = q.n
            /\ new.left = q.left /\ new.aim = q.aim
        BY <1>1, <2>1 DEF ProgramState, Places
      <4>2. Goes(p, new)
        BY <3>1
      <4> HIDE DEF new, next
      <4> QED
        BY <4>1, <4>2
    <3>2. CASE Goes(p, [q EXCEPT !.at = next, !.rv = "late", !.late = TRUE])
      <4> DEFINE new == [q EXCEPT !.at = next, !.rv = "late", !.late = TRUE]
      <4>1. /\ new \in ProgramState /\ new.at = next /\ new.i = q.i /\ new.req = q.req /\ new.n = q.n
            /\ new.left = q.left /\ new.aim = q.aim
        BY <1>1, <2>1 DEF ProgramState, Places
      <4>2. Goes(p, new)
        BY <3>2
      <4> HIDE DEF new, next
      <4> QED
        BY <4>1, <4>2
    <3> QED
      BY <1>7, <3>1, <3>2 DEF WaitForIbfClear
  <2>3. CASE next = "drain"
    <3>1. /\ prog' \in [Programs -> ProgramState]
          /\ \A o \in Programs : Progress(o)' /\ Counts(o)'
          /\ Numbered'
      <4>1. q.i = 0 /\ new.at = "drain" /\ new.i = 0
        BY <1>4, <2>1, <2>2, <2>3
      <4>2. new.n \in Nat /\ Last(new) = Last(q)
        BY <2>2 DEF ProgramState, Last
      <4>3. q.req \in asked /\ q.req.by = p /\ q.req.n = q.n /\ q.n + 3 * q.left + Owed(q.aim) <= MaxExchanges
        BY <1>1, <1>3 DEF Progress, Counts
      <4>4. q.at # "gone"
        BY <1>3 DEF InExchange
      <4>5. new.at \notin {"gone", "out", "ready", "done", "check", "clear"} \cup Reads /\ new.n >= q.n
        BY <4>1, <4>2, <2>2 DEF Reads
      <4>6. /\ new.req \in asked' /\ new.req.by = p /\ new.req.n = new.n /\ new.i \in 0..Last(new)
            /\ new.n + 3 * new.left + Owed(new.aim) <= MaxExchanges
        BY <1>2, <1>4, <2>2, <4>1, <4>2, <4>3
      <4>7. asked \subseteq asked' /\ asked' \subseteq Requests /\ asked' \ asked = {}
        BY <1>1, <1>2
      <4> QED
        BY <2>2, <4>1, <4>4, <4>5, <4>6, <4>7, MovesKeep
    <3> QED
      BY <1>1, <1>2, <1>5, <3>1 DEF DriverInv, Typed
  <2>4. CASE next # "drain"
    <3>1. q.at = "sent" /\ q.i >= 1 /\ next = IF q.i < Last(q) THEN "check" ELSE "reading"
      BY <1>4, <2>1, <2>4
    <3>2. /\ new.at \notin {"out", "gone", "ready", "begin", "drain"} /\ new.i > 0 /\ new.i \in 0..Last(q)
          /\ new.at \in {"check", "clear"} => new.i < Last(q)
          /\ new.at \in Reads => new.i = Last(q)
      BY <1>4, <2>2, <3>1 DEF Reads
    <3> QED
      BY <1>6, <2>2, <3>2
  <2> QED
    BY <2>3, <2>4
<1>8. ASSUME NEW rc \in {"ok", "send_fail", "recv_fail", "timeout"}, Ends(p, rc)
      PROVE  DriverInv'
  <2> DEFINE new == [q EXCEPT !.at = "done", !.rc = rc]
  <2>1. /\ new \in ProgramState /\ new.at = "done" /\ new.i = q.i /\ new.req = q.req /\ new.n = q.n
        /\ new.left = q.left /\ new.aim = q.aim
    BY <1>1 DEF ProgramState, Places
  <2>2. Goes(p, new)
    BY <1>8 DEF Ends
  <2> HIDE DEF new
  <2> QED
    BY <1>4, <1>6, <2>1, <2>2 DEF Reads
<1>9. ASSUME NEW i \in 1..Last(q), Goes(p, [q EXCEPT !.at = "write", !.i = i])
      PROVE  DriverInv'
  <2> DEFINE new == [q EXCEPT !.at = "write", !.i = i]
  <2>1. /\ new \in ProgramState /\ new.at = "write" /\ new.i = i /\ new.req = q.req /\ new.n = q.n
        /\ new.left = q.left /\ new.aim = q.aim
    <3>1. i \in Nat
      BY <1>4
    <3> QED
      BY <1>1, <3>1 DEF ProgramState, Places
  <2>2. Goes(p, new)
    BY <1>9
  <2>3. new.i > 0 /\ new.i \in 0..Last(q)
    BY <1>4, <2>1
  <2> HIDE DEF new
  <2> QED
    BY <1>6, <2>1, <2>2, <2>3 DEF Reads
<1>10. q.rx \in Seq(Data)
  BY <1>1 DEF ProgramState
<1>11. ASSUME NEW at \in {"write", "sent", "clear", "obf", "not_read", "last_obf", "take", "take_last", "next"},
              Goes(p, [q EXCEPT !.at = at]), q.i > 0,
              at = "clear" => q.i < Last(q), at \in Reads => q.i = Last(q)
      PROVE  DriverInv'
  <2> DEFINE new == [q EXCEPT !.at = at]
  <2>1. /\ new \in ProgramState /\ new.at = at /\ new.i = q.i /\ new.req = q.req /\ new.n = q.n
        /\ new.left = q.left /\ new.aim = q.aim
    BY <1>1 DEF ProgramState, Places
  <2>2. Goes(p, new)
    BY <1>11
  <2> HIDE DEF new
  <2> QED
    BY <1>4, <1>6, <1>11, <2>1, <2>2
<1>12. CASE Drain(p)
  <2>1. CASE Ends(p, "send_fail")
    BY <1>8, <2>1
  <2>2. CASE Goes(p, [q EXCEPT !.at = "write", !.i = 1])
    <3>1. 1 \in 1..Last(q)
      BY <1>4
    <3> QED
      BY <1>9, <2>2, <3>1
  <2> QED
    BY <1>12, <2>1, <2>2 DEF Drain
<1>13. CASE Write(p)
  BY <1>4, <1>11, <1>13 DEF Write, Reads
<1>14. CASE GetWriteState(p)
  BY <1>4, <1>8, <1>11, <1>14 DEF GetWriteState, Reads
<1>15. CASE ClearObf(p)
  <2>1. CASE Ends(p, "send_fail")
    BY <1>8, <2>1
  <2>2. CASE Goes(p, [q EXCEPT !.at = "write", !.i = q.i + 1])
    <3>1. q.i + 1 \in 1..Last(q)
      BY <1>4, <1>15 DEF ClearObf
    <3> QED
      BY <1>9, <2>2, <3>1
  <2> QED
    BY <1>15, <2>1, <2>2 DEF ClearObf
<1>16. CASE GetReadState(p)
  BY <1>4, <1>11, <1>16 DEF GetReadState, Reads
<1>17. CASE GetIdleState(p)
  BY <1>4, <1>8, <1>11, <1>17 DEF GetIdleState, Reads
<1>18. CASE WaitForObfSet(p)
  <2>1. q.i > 0 /\ q.i = Last(q)
    BY <1>4, <1>18 DEF WaitForObfSet, Reads
  <2>2. CASE Goes(p, [q EXCEPT !.at = IF q.at = "obf" THEN "take" ELSE "take_last"])
    BY <1>11, <2>1, <2>2
  <2>3. CASE Goes(p, [q EXCEPT !.at = "done", !.rc = "recv_fail", !.late = q.late \/ Slow])
    <3> DEFINE new == [q EXCEPT !.at = "done", !.rc = "recv_fail", !.late = q.late \/ Slow]
    <3>1. (q.late \/ Slow) \in BOOLEAN
      OBVIOUS
    <3>2. /\ new \in ProgramState /\ new.at = "done" /\ new.i = q.i /\ new.req = q.req /\ new.n = q.n
          /\ new.left = q.left /\ new.aim = q.aim
      BY <1>1, <3>1 DEF ProgramState, Places
    <3>3. Goes(p, new)
      BY <2>3
    <3> HIDE DEF new
    <3> QED
      BY <1>4, <1>6, <3>2, <3>3 DEF Reads
  <2> QED
    BY <1>18, <2>2, <2>3 DEF WaitForObfSet
<1>19. CASE Take(p)
  <2> DEFINE new == [q EXCEPT !.at = "next", !.rx = Append(q.rx, kcs.outReg)]
  <2>1. /\ new \in ProgramState /\ new.at = "next" /\ new.i = q.i /\ new.req = q.req /\ new.n = q.n
        /\ new.left = q.left /\ new.aim = q.aim
    <3>1. Append(q.rx, kcs.outReg) \in Seq(Data)
      BY <1>1, <1>10 DEF InterfaceState
    <3> QED
      BY <1>1, <3>1 DEF ProgramState, Places
  <2>2. q.i \in 1..Last(q) /\ q.i = Last(q)
    BY <1>4, <1>19 DEF Take, Reads
  <2>3. Goes(p, new)
    BY <1>19 DEF Take
  <2> HIDE DEF new
  <2> QED
    BY <1>4, <1>6, <2>1, <2>2, <2>3 DEF Reads
<1>20. CASE AskForNext(p)
  BY <1>4, <1>11, <1>20 DEF AskForNext, Reads
<1>21. CASE TakeLast(p)
  <2>1. (IF Len(q.rx) < 3 THEN "timeout" ELSE "ok") \in {"ok", "send_fail", "recv_fail", "timeout"}
    OBVIOUS
  <2> QED
    BY <1>8, <1>21, <2>1 DEF TakeLast
<1> QED
  BY <1>7, <1>12, <1>13, <1>14, <1>15, <1>16, <1>17, <1>18, <1>19, <1>20, <1>21 DEF Exchanges

\* What the BMC does to the interface keeps its type.
LEMMA BmcKeepsTypes ==
    ASSUME DriverInv, BmcTakes
    PROVE  DriverInv'
<1>1. /\ kcs \in InterfaceState /\ ran \in Seq(Seq(Words))
      /\ kcs.in \in Words /\ kcs.got \in Seq(Words) /\ kcs.out \in Seq(Data)
  BY DEF DriverInv, Typed, InterfaceState
<1>2. Append(kcs.got, kcs.in) \in Seq(Words) /\ Dummy \in Data /\ <<>> \in Seq(Words) /\ <<>> \in Seq(Data)
  BY <1>1 DEF Data, Words
<1>3. ASSUME NEW n \in ReplyLengths, Runs(n)
      PROVE  kcs' \in InterfaceState /\ ran' \in Seq(Seq(Words))
  <2> DEFINE got == Append(kcs.got, kcs.in)
  <2>1. Head(Reply(got, n)) \in Data /\ Tail(Reply(got, n)) \in Seq(Data)
    BY <1>2, ReplyIs
  <2>2. /\ ran' = Append(ran, got)
        /\ kcs' = [kcs EXCEPT !.ibf = FALSE, !.state = "read", !.ending = FALSE, !.got = <<>>,
                              !.obf = TRUE, !.outReg = Head(Reply(got, n)), !.out = Tail(Reply(got, n))]
    BY <1>3 DEF Runs
  <2>3. got \in Seq(Words)
    BY <1>2
  <2> HIDE DEF got
  <2> DEFINE first == Head(Reply(got, n))
             rest == Tail(Reply(got, n))
  <2>4. first \in Data /\ rest \in Seq(Data)
    BY <2>1 DEF got
  <2>5. kcs' = [kcs EXCEPT !.ibf = FALSE, !.state = "read", !.ending = FALSE, !.got = <<>>,
                           !.obf = TRUE, !.outReg = first, !.out = rest]
    BY <2>2
  <2>6. ran' \in Seq(Seq(Words))
    BY <1>1, <2>2, <2>3
  <2> HIDE DEF first, rest
  <2>7. kcs' \in InterfaceState
    BY <1>1, <1>2, <2>4, <2>5 DEF InterfaceState
  <2> QED
    BY <2>6, <2>7
<1>4. ASSUME Errs
      PROVE  kcs' \in InterfaceState
  BY <1>1, <1>2, <1>4 DEF Errs, InterfaceState
<1>5. kcs' \in InterfaceState /\ ran' \in Seq(Seq(Words))
  <2>1. CASE TakesCommand
    <3>1. ran' \in Seq(Seq(Words))
      BY <1>1, <2>1 DEF TakesCommand
    <3>2. CASE kcs.in = WrStart
      BY <1>1, <1>2, <2>1, <3>1, <3>2 DEF TakesCommand, InterfaceState
    <3>3. CASE kcs.in # WrStart /\ kcs.in = WrEnd /\ kcs.state = "write"
      BY <1>1, <2>1, <3>1, <3>3 DEF TakesCommand, InterfaceState
    <3>4. CASE kcs.in # WrStart /\ ~(kcs.in = WrEnd /\ kcs.state = "write")
      BY <1>4, <2>1, <3>1, <3>4 DEF TakesCommand
    <3> QED
      BY <3>2, <3>3, <3>4
  <2>2. CASE TakesData
    <3>1. CASE kcs.state = "write" /\ kcs.ending
      BY <1>3, <2>2, <3>1 DEF TakesData
    <3>2. CASE kcs.state = "write" /\ ~kcs.ending
      <4>1. /\ kcs' = [kcs EXCEPT !.ibf = FALSE, !.got = Append(kcs.got, kcs.in)]
            /\ ran' = ran
        BY <2>2, <3>2 DEF TakesData
      <4> QED
        BY <1>1, <1>2, <4>1 DEF InterfaceState
    <3>3. CASE kcs.state = "read" /\ kcs.in = ReadByte /\ kcs.out # <<>>
      <4>1. /\ kcs' = [kcs EXCEPT !.ibf = FALSE, !.obf = TRUE, !.outReg = Head(kcs.out), !.out = Tail(kcs.out)]
            /\ ran' = ran
        BY <2>2, <3>3 DEF TakesData
      <4>2. Head(kcs.out) \in Data /\ Tail(kcs.out) \in Seq(Data)
        BY <1>1, <3>3
      <4> QED
        BY <1>1, <4>1, <4>2 DEF InterfaceState
    <3>4. CASE kcs.state = "read" /\ kcs.in = ReadByte /\ kcs.out = <<>>
      <4>1. /\ kcs' = [kcs EXCEPT !.ibf = FALSE, !.obf = TRUE, !.outReg = Dummy, !.state = "idle"]
            /\ ran' = ran
        BY <2>2, <3>4 DEF TakesData
      <4> QED
        BY <1>1, <1>2, <4>1 DEF InterfaceState
    <3>5. CASE kcs.state # "write" /\ ~(kcs.state = "read" /\ kcs.in = ReadByte)
      BY <1>1, <1>4, <2>2, <3>5 DEF TakesData
    <3> QED
      BY <3>1, <3>2, <3>3, <3>4, <3>5
  <2> QED
    BY <2>1, <2>2 DEF BmcTakes
<1>6. UNCHANGED <<prog, lock, asked, accepted>>
  BY DEF BmcTakes
<1>7. \A p \in Programs : Progress(p)' /\ Counts(p)'
  BY <1>6 DEF DriverInv, Progress, Counts, InExchange, Last
<1> QED
  BY <1>5, <1>6, <1>7 DEF DriverInv, Typed, Numbered

\* A command begins an exchange, or fails without one.
LEMMA CommandKeepsTypes ==
    ASSUME DriverInv, NEW p \in Programs, Command(p)
    PROVE  DriverInv'
<1> DEFINE q == prog[p]
           less == [q EXCEPT !.left = q.left - 1]
<1>1. /\ prog \in [Programs -> ProgramState] /\ q \in ProgramState /\ kcs \in InterfaceState
      /\ lock \in BOOLEAN /\ asked \subseteq Requests /\ ran \in Seq(Seq(Words))
      /\ accepted \in Seq([req : Requests, rx : Seq(Data)])
      /\ Counts(p)
  BY DEF DriverInv, Typed
<1>2. UNCHANGED <<kcs, ran, accepted>> /\ q.at = "ready" /\ q.left > 0
  BY DEF Command
<1>3. lock' \in BOOLEAN
  BY <1>1 DEF Command
<1>4. q.n \in Nat /\ q.left \in 1..Commands /\ q.n + 3 * q.left <= MaxExchanges
  BY <1>1, <1>2, Bounds DEF ProgramState, Counts
<1>5. /\ less \in ProgramState /\ less.n = q.n /\ less.left = q.left - 1 /\ less.at = "ready"
  <2>1. q.left - 1 \in 0..Commands
    BY <1>4, Bounds
  <2> QED
    BY <1>1, <1>2, <2>1 DEF ProgramState
<1>6. ASSUME NEW aim \in {"command", "device_id"}, Send(p, aim, less)
      PROVE  DriverInv'
  <2>1. Owed(aim) \in {0, 2} /\ less.n + 1 + 3 * less.left + Owed(aim) <= MaxExchanges
    BY <1>4, <1>5, Bounds DEF Owed
  <2>2. prog[p].at \notin {"out", "gone"} /\ aim \in {"command", "device_id", "device_id_again"}
    BY <1>2
  <2> HIDE DEF less
  <2>3. PICK r \in Requests \ asked :
            /\ asked' = asked \cup {r}
            /\ prog' \in [Programs -> ProgramState]
            /\ \A o \in Programs : Progress(o)' /\ Counts(o)'
            /\ Numbered'
    BY <1>5, <1>6, <2>1, <2>2, SendIs
  <2> QED
    BY <1>1, <1>2, <1>3, <2>3 DEF DriverInv, Typed
<1>7. ASSUME Goes(p, [q EXCEPT !.left = q.left - 1, !.rc = "no_drv"]), asked' = asked
      PROVE  DriverInv'
  <2> DEFINE new == [q EXCEPT !.left = q.left - 1, !.rc = "no_drv"]
  <2>1. new \in ProgramState /\ new.at = "ready" /\ new.n = q.n /\ new.left = q.left - 1
    <3>1. q.left - 1 \in 0..Commands
      BY <1>4, Bounds
    <3> QED
      BY <1>1, <1>2, <3>1 DEF ProgramState
  <2>2. Goes(p, new)
    BY <1>7
  <2> HIDE DEF new
  <2>3. new.n + 3 * new.left <= MaxExchanges /\ new.n >= q.n
    BY <1>4, <2>1, Bounds
  <2>4. /\ prog' \in [Programs -> ProgramState]
        /\ \A o \in Programs : Progress(o)' /\ Counts(o)'
        /\ Numbered'
    BY <1>1, <1>2, <1>7, <2>1, <2>2, <2>3, MovesKeep
  <2> QED
    BY <1>1, <1>2, <1>3, <1>7, <2>4 DEF DriverInv, Typed
<1> QED
  BY <1>6, <1>7 DEF Command

\* The answer to a command, or to the question for the device, is returned.
LEMMA ReturnKeepsTypes ==
    ASSUME DriverInv, NEW p \in Programs, Return(p)
    PROVE  DriverInv'
<1> DEFINE q == prog[p]
           known == [q EXCEPT !.known = TRUE, !.selected = TRUE]
<1>1. /\ prog \in [Programs -> ProgramState] /\ q \in ProgramState /\ kcs \in InterfaceState
      /\ lock \in BOOLEAN /\ asked \subseteq Requests /\ ran \in Seq(Seq(Words))
      /\ accepted \in Seq([req : Requests, rx : Seq(Data)])
      /\ Counts(p) /\ Progress(p)
  BY DEF DriverInv, Typed
<1>2. UNCHANGED <<kcs, ran>> /\ q.at = "done"
  BY DEF Return
<1>3. lock' \in BOOLEAN
  BY <1>1 DEF Return
<1>4. /\ q.n \in Nat /\ q.left \in 0..Commands /\ q.n + 3 * q.left + Owed(q.aim) <= MaxExchanges
      /\ q.req \in Requests /\ q.rx \in Seq(Data)
  BY <1>1, <1>2 DEF ProgramState, Counts, Progress, InExchange
<1>5. accepted' \in Seq([req : Requests, rx : Seq(Data)])
  <2>1. CASE accepted' = accepted
    BY <1>1, <2>1
  <2>2. CASE accepted' = Append(accepted, [req |-> q.req, rx |-> q.rx])
    BY <1>1, <1>4, <2>2
  <2> QED
    BY <2>1, <2>2 DEF Return
<1>6. ASSUME NEW aim \in {"command", "device_id_again"}, NEW new \in ProgramState,
             new.n = q.n, new.left = q.left,
             Owed(aim) + 1 <= Owed(q.aim), Send(p, aim, new)
      PROVE  DriverInv'
  <2>1. new.n + 1 + 3 * new.left + Owed(aim) <= MaxExchanges
    <3>1. Owed(aim) \in Nat /\ Owed(q.aim) \in Nat
      BY DEF Owed
    <3>2. Commands \in Nat /\ q.left \in Nat /\ q.n \in Nat /\ MaxExchanges \in Nat
      BY <1>4, Bounds
    <3> DEFINE n == q.n
               left == q.left
               owed == Owed(q.aim)
               owes == Owed(aim)
    <3>3. /\ n \in Nat /\ left \in Nat /\ owed \in Nat /\ owes \in Nat /\ MaxExchanges \in Nat
          /\ n + 3 * left + owed <= MaxExchanges /\ owes + 1 <= owed
      BY <1>4, <1>6, <3>1, <3>2
    <3> HIDE DEF n, left, owed, owes
    <3>4. n + 1 + 3 * left + owes <= MaxExchanges
      BY <3>3
    <3> QED
      BY <1>6, <3>4 DEF n, left, owes
  <2>2. prog[p].at \notin {"out", "gone"} /\ aim \in {"command", "device_id", "device_id_again"}
    BY <1>2
  <2>3. PICK r \in Requests \ asked :
            /\ asked' = asked \cup {r}
            /\ prog' \in [Programs -> ProgramState]
            /\ \A o \in Programs : Progress(o)' /\ Counts(o)'
            /\ Numbered'
    BY <1>6, <2>1, <2>2, SendIs
  <2> QED
    BY <1>1, <1>2, <1>3, <1>5, <2>3 DEF DriverInv, Typed
<1>7. known \in ProgramState /\ known.n = q.n /\ known.left = q.left
  BY <1>1 DEF ProgramState
<1>8. ASSUME Idle(p), asked' = asked
      PROVE  DriverInv'
  <2> DEFINE new == [q EXCEPT !.at = "ready", !.req = NoRequest, !.i = 0, !.rx = <<>>,
                              !.rv = "ok", !.late = FALSE]
  <2>1. new \in ProgramState /\ new.at = "ready" /\ new.n = q.n /\ new.left = q.left
    <3>1. <<>> \in Seq(Data)
      OBVIOUS
    <3> QED
      BY <1>1, <3>1 DEF ProgramState, Places
  <2>2. Goes(p, new)
    BY <1>8 DEF Idle
  <2> HIDE DEF new
  <2>3. new.n + 3 * new.left <= MaxExchanges /\ new.n >= q.n
    BY <1>4, <2>1, Bounds DEF Owed
  <2>4. /\ prog' \in [Programs -> ProgramState]
        /\ \A o \in Programs : Progress(o)' /\ Counts(o)'
        /\ Numbered'
    BY <1>1, <1>2, <1>8, <2>1, <2>2, <2>3, MovesKeep
  <2> QED
    BY <1>1, <1>2, <1>3, <1>5, <1>8, <2>4 DEF DriverInv, Typed
<1>9. CASE q.aim = "command" /\ Idle(p) /\ asked' = asked
  BY <1>8, <1>9
<1>10. CASE q.aim \in {"device_id", "device_id_again"} /\ Send(p, "command", known)
  <2>1. Owed("command") + 1 <= Owed(q.aim)
    BY <1>10 DEF Owed
  <2> HIDE DEF known
  <2> QED
    BY <1>6, <1>7, <1>10, <2>1
<1>11. CASE q.aim = "device_id" /\ Send(p, "device_id_again", q)
  <2>1. Owed("device_id_again") + 1 <= Owed(q.aim)
    BY <1>11 DEF Owed
  <2> QED
    BY <1>1, <1>6, <1>11, <2>1
<1>12. CASE q.aim = "device_id_again" /\ Send(p, "command", q)
  <2>1. Owed("command") + 1 <= Owed(q.aim)
    BY <1>12 DEF Owed
  <2> QED
    BY <1>1, <1>6, <1>12, <2>1
<1>13. CASE Idle(p) /\ asked' = asked
  BY <1>8, <1>13
<1> QED
  BY <1>9, <1>10, <1>11, <1>12, <1>13 DEF Return

\* Every step keeps the types.
LEMMA DriverStep == DriverInv /\ [Next]_vars => DriverInv'
<1> SUFFICES ASSUME DriverInv, [Next]_vars PROVE DriverInv'
  OBVIOUS
<1>1. /\ prog \in [Programs -> ProgramState] /\ kcs \in InterfaceState
      /\ lock \in BOOLEAN /\ asked \subseteq Requests /\ ran \in Seq(Seq(Words))
      /\ accepted \in Seq([req : Requests, rx : Seq(Data)])
  BY DEF DriverInv, Typed
<1>2. CASE BmcTakes
  BY <1>2, BmcKeepsTypes
<1>3. ASSUME NEW p \in Programs, Start(p)
      PROVE  DriverInv'
  <2>1. prog[p].at = "out" /\ prog[p] = Fresh /\ prog[p] \in ProgramState
    BY <1>1, <1>3 DEF Start, DriverInv, Counts
  <2>2. PICK looks \in BOOLEAN, forced \in BOOLEAN :
            Goes(p, [prog[p] EXCEPT !.at = "ready", !.looks = looks, !.selected = forced])
    BY <1>3 DEF Start
  <2> DEFINE new == [prog[p] EXCEPT !.at = "ready", !.looks = looks, !.selected = forced]
  <2>3. new \in ProgramState /\ new.at = "ready" /\ new.n = prog[p].n /\ new.left = prog[p].left
    BY <2>1 DEF ProgramState, Places
  <2>4. prog[p].n = 0 /\ prog[p].left = Commands
    BY <2>1 DEF Fresh
  <2>5. Goes(p, new) /\ asked' = asked /\ UNCHANGED <<kcs, lock, asked, ran, accepted>>
    BY <1>3, <2>2 DEF Start, Quiet
  <2> HIDE DEF new
  <2>6. new.n + 3 * new.left <= MaxExchanges /\ new.n >= prog[p].n
    BY <2>3, <2>4, Bounds
  <2>7. /\ prog' \in [Programs -> ProgramState]
        /\ \A o \in Programs : Progress(o)' /\ Counts(o)'
        /\ Numbered'
    BY <1>1, <2>1, <2>3, <2>5, <2>6, MovesKeep
  <2> QED
    BY <1>1, <2>5, <2>7 DEF DriverInv, Typed
<1>4. ASSUME NEW p \in Programs, Close(p) \/ Crash(p)
      PROVE  DriverInv'
  <2> DEFINE new == [Fresh EXCEPT !.at = "gone"]
  <2>1. new \in ProgramState /\ new.at = "gone"
    <3>1. Fresh \in ProgramState
      BY Bounds DEF Fresh, ProgramState, Places
    <3> QED
      BY <3>1 DEF ProgramState, Places
  <2>2. /\ Goes(p, new) /\ prog[p].at # "gone" /\ lock' \in BOOLEAN
        /\ UNCHANGED <<kcs, asked, ran, accepted>>
    BY <1>1, <1>4 DEF Close, Crash, Exit, Goes, Quiet
  <2> HIDE DEF new
  <2>3. /\ prog' \in [Programs -> ProgramState]
        /\ \A o \in Programs : Progress(o)' /\ Counts(o)'
        /\ Numbered'
    BY <1>1, <2>1, <2>2, MovesKeep DEF Reads
  <2> QED
    BY <1>1, <2>2, <2>3 DEF DriverInv, Typed
<1>5. CASE UNCHANGED vars
  <2>1. UNCHANGED <<prog, lock, kcs, asked, ran, accepted>>
    BY <1>5 DEF vars
  <2>2. \A p \in Programs : Progress(p)' /\ Counts(p)'
    BY <2>1 DEF DriverInv, Progress, Counts, InExchange, Last
  <2> QED
    BY <1>1, <2>1, <2>2 DEF DriverInv, Typed, Numbered
<1> QED
  BY <1>2, <1>3, <1>4, <1>5, CommandKeepsTypes, ExchangesKeepTypes, ReturnKeepsTypes DEF Next, Program

-----------------------------------------------------------------------------
(* In step: what the interface holds of an exchange that was never waited for  *)
(* in vain.                                                                    *)

\* When one program moves, the others are out of the way.
LEMMA OthersAreOut ==
    ASSUME DriverInv, OneAtATime, NEW p \in Programs, NEW q, Goes(p, q),
           \/ prog[p].at \notin {"out", "gone"}
           \/ \A o \in Programs : prog[o].at \in {"out", "gone"}
    PROVE  /\ OneAtATime'
           /\ prog'[p] = q
           /\ \A o \in Programs \ {p} : prog'[o] = prog[o] /\ prog[o].at \in {"out", "gone"}
<1>1. prog' = [prog EXCEPT ![p] = q] /\ prog \in [Programs -> ProgramState]
  BY DEF Goes, DriverInv, Typed
<1>2. prog'[p] = q /\ \A o \in Programs \ {p} : prog'[o] = prog[o]
  BY <1>1
<1>3. \A o \in Programs \ {p} : prog[o].at \in {"out", "gone"}
  BY DEF OneAtATime
<1>4. OneAtATime'
  BY <1>2, <1>3 DEF OneAtATime
<1> QED
  BY <1>2, <1>3, <1>4

\* The BMC takes the access of the write phase that it was given.
LEMMA BmcTakesGiven ==
    ASSUME NEW r \in Requests, NEW k \in 1..(r.len + 1), kcs \in InterfaceState, Given(r, k), BmcTakes
    PROVE  /\ Taken(r, k)' /\ ran' = ran /\ kcs'.obf = kcs.obf
<1>1. r.len \in Nat /\ r.len >= 2
  BY RequestType
<1>2. kcs.ibf /\ kcs.port = Ops(r)[k].port /\ kcs.in = Ops(r)[k].byte
  BY DEF Given
<1>3. CASE k = 1
  <2>1. kcs.port = "command" /\ kcs.in = WrStart
    BY <1>2, <1>3, OpsParts
  <2>2. kcs' = [kcs EXCEPT !.ibf = FALSE, !.state = "write", !.got = <<>>, !.ending = FALSE, !.out = <<>>] /\ ran' = ran
    <3>1. TakesCommand
      BY <2>1 DEF BmcTakes
    <3>2. WrStart # WrEnd
      BY DEF WrStart, WrEnd
    <3> QED
      BY <2>1, <3>1, <3>2 DEF TakesCommand
  <2>3. /\ ~kcs'.ibf /\ kcs'.state = "write" /\ kcs'.got = <<>> /\ kcs'.ending = FALSE /\ kcs'.obf = kcs.obf
    BY <2>2 DEF InterfaceState
  <2>4. Stored(r, k) = 0 /\ k # r.len + 1
    BY <1>1, <1>3 DEF Stored
  <2>5. Len(kcs'.got) = Stored(r, k) /\ \A j \in 1..Stored(r, k) : kcs'.got[j] = Bytes(r)[j]
    BY <2>3, <2>4
  <2>6. kcs'.ending = (k = r.len + 1)
    BY <2>3, <2>4
  <2> QED
    BY <2>2, <2>3, <2>5, <2>6 DEF Taken, Prefix
<1>4. CASE k \in 2..r.len
  <2>1. kcs.port = "data" /\ kcs.in = Bytes(r)[k - 1]
    BY <1>2, <1>4, OpsParts
  <2>2. /\ kcs.state = "write" /\ ~kcs.ending /\ Len(kcs.got) = k - 2
        /\ \A j \in 1..(k - 2) : kcs.got[j] = Bytes(r)[j]
    <3>1. k > 1 /\ k # r.len + 2 /\ Stored(r, k - 1) = k - 2
      BY <1>1, <1>4 DEF Stored
    <3> QED
      BY <3>1 DEF Given, Prefix
  <2>3. kcs' = [kcs EXCEPT !.ibf = FALSE, !.got = Append(kcs.got, kcs.in)] /\ ran' = ran
    BY <2>1, <2>2 DEF BmcTakes, TakesData
  <2>4. /\ ~kcs'.ibf /\ kcs'.state = "write" /\ kcs'.got = Append(kcs.got, kcs.in) /\ kcs'.ending = FALSE
        /\ kcs'.obf = kcs.obf
    BY <2>2, <2>3 DEF InterfaceState
  <2>5. kcs.got \in Seq(Words) /\ kcs.in \in Words
    BY DEF InterfaceState
  <2>6. /\ Len(kcs'.got) = k - 1
        /\ \A j \in 1..(k - 1) : kcs'.got[j] = Bytes(r)[j]
    BY <1>4, <2>1, <2>2, <2>4, <2>5
  <2>7. Stored(r, k) = k - 1 /\ k # r.len + 1
    BY <1>1, <1>4 DEF Stored
  <2>8. Len(kcs'.got) = Stored(r, k) /\ \A j \in 1..Stored(r, k) : kcs'.got[j] = Bytes(r)[j]
    BY <2>6, <2>7
  <2>9. kcs'.ending = (k = r.len + 1)
    BY <2>4, <2>7
  <2> QED
    BY <2>3, <2>4, <2>8, <2>9 DEF Taken, Prefix
<1>5. CASE k = r.len + 1
  <2>1. kcs.port = "command" /\ kcs.in = WrEnd /\ WrEnd # WrStart
    <3>1. kcs.port = "command" /\ kcs.in = WrEnd
      BY <1>2, <1>5, OpsParts
    <3> QED
      BY <3>1 DEF WrStart, WrEnd
  <2>2. /\ kcs.state = "write" /\ Len(kcs.got) = r.len - 1
        /\ \A j \in 1..(r.len - 1) : kcs.got[j] = Bytes(r)[j]
    <3>1. k > 1 /\ Stored(r, k - 1) = r.len - 1
      BY <1>1, <1>5 DEF Stored
    <3> QED
      BY <3>1 DEF Given, Prefix
  <2>3. kcs' = [kcs EXCEPT !.ibf = FALSE, !.ending = TRUE] /\ ran' = ran
    <3>1. TakesCommand
      BY <2>1 DEF BmcTakes
    <3> QED
      BY <2>1, <2>2, <3>1 DEF TakesCommand
  <2>4. /\ ~kcs'.ibf /\ kcs'.state = "write" /\ kcs'.got = kcs.got /\ kcs'.ending /\ kcs'.obf = kcs.obf
    BY <2>2, <2>3 DEF InterfaceState
  <2>5. Stored(r, k) = r.len - 1
    BY <1>5 DEF Stored
  <2> QED
    BY <1>5, <2>2, <2>3, <2>4, <2>5 DEF Taken, Prefix, Stored
<1> QED
  BY <1>1, <1>3, <1>4, <1>5

\* The request is what the BMC stored of it with the last byte.
LEMMA LastByte ==
    ASSUME NEW r \in Requests, NEW got \in Seq(Words), NEW in \in Words,
           Len(got) = r.len - 1, \A j \in 1..(r.len - 1) : got[j] = Bytes(r)[j], in = Bytes(r)[r.len]
    PROVE  Append(got, in) = Bytes(r)
<1>1. r.len \in Nat /\ r.len >= 2
  BY RequestType
<1>2. /\ Append(got, in) \in Seq(Words) /\ Len(Append(got, in)) = r.len
      /\ \A j \in 1..r.len : Append(got, in)[j] = Bytes(r)[j]
  <2>1. /\ Append(got, in) \in Seq(Words) /\ Len(Append(got, in)) = r.len
        /\ \A j \in 1..(r.len - 1) : Append(got, in)[j] = got[j]
        /\ Append(got, in)[r.len] = in
    BY <1>1, AppendProperties
  <2>2. \A j \in 1..r.len : j = r.len \/ j \in 1..(r.len - 1)
    BY <1>1
  <2> QED
    BY <2>1, <2>2
<1>3. Bytes(r) \in Seq(Words) /\ Len(Bytes(r)) = r.len
  BY BytesAre
<1> QED
  BY <1>2, <1>3, SeqEqual

\* The last byte makes the BMC run the request.
LEMMA BmcTakesLast ==
    ASSUME NEW r \in Requests, kcs \in InterfaceState, Given(r, r.len + 2)
    PROVE  /\ kcs.port = "data" /\ kcs.state = "write" /\ kcs.ending /\ kcs.ibf
           /\ Append(kcs.got, kcs.in) = Bytes(r)
<1>1. r.len \in Nat /\ r.len >= 2
  BY RequestType
<1>2. Stored(r, (r.len + 2) - 1) = r.len - 1 /\ r.len + 2 > 1
  BY <1>1 DEF Stored
<1>3. /\ kcs.port = "data" /\ kcs.in = Bytes(r)[r.len]
      /\ kcs.state = "write" /\ kcs.ending /\ kcs.ibf /\ Len(kcs.got) = r.len - 1
      /\ \A j \in 1..(r.len - 1) : kcs.got[j] = Bytes(r)[j]
  <2>1. kcs.port = "data" /\ kcs.in = Bytes(r)[r.len] /\ kcs.ibf
    BY OpsParts DEF Given
  <2>2. kcs.state = "write" /\ kcs.ending /\ Prefix(r, Stored(r, (r.len + 2) - 1))
    BY <1>2 DEF Given
  <2> QED
    BY <1>2, <2>1, <2>2 DEF Prefix
<1>4. kcs.got \in Seq(Words) /\ kcs.in \in Words
  BY DEF InterfaceState
<1>7. Append(kcs.got, kcs.in) = Bytes(r)
  BY <1>3, <1>4, LastByte
<1> QED
  BY <1>3, <1>7

\* A step of the BMC keeps a program in step.
LEMMA BmcKeepsStep ==
    ASSUME DriverInv, OneAtATime, NEW p \in Programs, InStep(p), BmcTakes
    PROVE  InStep(p)'
<1> DEFINE q == prog[p]
           r == q.req
<1> SUFFICES ASSUME InExchange(p), ~q.late
             PROVE  InStep(p)'
  BY DEF InStep, BmcTakes, InExchange
<1>1. prog' = prog /\ kcs.ibf /\ kcs \in InterfaceState
  BY DEF BmcTakes, DriverInv, Typed
<1>2. r \in Requests /\ r.len \in Nat /\ r.len >= 2 /\ Last(q) = r.len + 2 /\ q.i \in 0..Last(q)
  <2>1. r \in Requests /\ q.i \in 0..Last(q)
    BY DEF DriverInv, Typed, Progress
  <2> QED
    BY <2>1, RequestType DEF Last
<1>3. CASE q.at = "sent" /\ q.i < Last(q)
  <2>1. Given(r, q.i) /\ ~kcs.obf
    BY <1>1, <1>3 DEF InStep, Taken
  <2>2. q.i \in 1..(r.len + 1)
    <3>1. q.i # 0
      BY <1>3 DEF DriverInv, Progress
    <3> QED
      BY <1>2, <1>3, <3>1
  <2>3. Taken(r, q.i)' /\ ~kcs'.obf
    BY <1>1, <1>2, <2>1, <2>2, BmcTakesGiven
  <2> QED
    BY <1>1, <1>2, <1>3, <2>3 DEF InStep, Last
<1>4. CASE q.at = "sent" /\ q.i = Last(q)
  <2>1. CASE Given(r, q.i)
    <3>1. kcs.port = "data" /\ kcs.state = "write" /\ kcs.ending
      BY <1>1, <1>2, <1>4, <2>1, BmcTakesLast
    <3>2. PICK n \in ReplyLengths : Runs(n)
      BY <3>1 DEF BmcTakes, TakesData
    <3>3. ~kcs'.ibf /\ kcs'.state = "read" /\ kcs'.obf
      BY <1>1, <3>2 DEF Runs, InterfaceState
    <3> QED
      BY <1>1, <1>2, <1>4, <3>3 DEF InStep, Last, Holds
  <2>2. CASE Wanted
    <3>1. kcs.port = "data" /\ kcs.state = "read" /\ kcs.in = ReadByte
      BY <2>2 DEF Wanted
    <3>2. CASE kcs.out # <<>>
      <4>1. ~kcs'.ibf /\ kcs'.state = "read" /\ kcs'.obf
        BY <1>1, <3>1, <3>2 DEF BmcTakes, TakesData, InterfaceState
      <4> QED
        BY <1>1, <1>2, <1>4, <4>1 DEF InStep, Last, Holds
    <3>3. CASE kcs.out = <<>>
      <4>1. ~kcs'.ibf /\ kcs'.state = "idle" /\ kcs'.obf
        BY <1>1, <3>1, <3>3 DEF BmcTakes, TakesData, InterfaceState
      <4> QED
        BY <1>1, <1>2, <1>4, <4>1 DEF InStep, Last, Over
    <3> QED
      BY <3>2, <3>3
  <2> QED
    BY <1>1, <1>4, <2>1, <2>2 DEF InStep, Holds, Over
<1>5. CASE q.at \notin {"sent", "begin", "done"}
  BY <1>1, <1>5 DEF InStep, InExchange, Taken, Holds, Over, DriverInv, Typed, ProgramState, Places
<1>6. CASE q.at \in {"begin", "done"}
  BY <1>1, <1>6 DEF InStep, InExchange
<1> QED
  BY <1>2, <1>3, <1>4, <1>5, <1>6

\* An access of a program that never waited in vain keeps it in step.
LEMMA ExchangesKeepStep ==
    ASSUME DriverInv, NEW p \in Programs, InStep(p), Exchanges(p),
           NEW r, prog[p].req = r, NEW i, prog[p].i = i
    PROVE  InStep(p)'
<1> DEFINE q == prog[p]
           new == prog'[p]
<1>1. /\ prog \in [Programs -> ProgramState] /\ q \in ProgramState /\ kcs \in InterfaceState
  BY DEF DriverInv, Typed
<1>2. InExchange(p)
  BY DEF Exchanges, WaitForIbfClear, Drain, Write, GetWriteState, ClearObf, GetReadState, GetIdleState,
         WaitForObfSet, Take, AskForNext, TakeLast, InExchange
<1>3. /\ r \in Requests /\ r.len \in Nat /\ r.len >= 2 /\ Last(q) = r.len + 2 /\ i \in 0..Last(q)
      /\ Len(Ops(r)) = Last(q)
      /\ q.at \notin {"begin", "drain", "done"} => i >= 1
      /\ q.at \in {"check", "clear"} => i < Last(q)
      /\ q.at \in Reads => i = Last(q)
  <2>1. r \in Requests /\ i \in 0..Last(q)
    BY <1>2 DEF DriverInv, Typed, Progress
  <2>2. r.len \in Nat /\ r.len >= 2 /\ Last(q) = r.len + 2 /\ Len(Ops(r)) = Last(q)
    BY <2>1, RequestType, OpsAre DEF Last
  <2> QED
    BY <1>2, <2>1, <2>2 DEF DriverInv, Progress
<1>4. ASSUME NEW s \in ProgramState, Goes(p, s)
      PROVE  new = s
  BY <1>1, <1>4 DEF Goes
<1>5. CASE new.late
  BY <1>5 DEF InStep
<1>6. ASSUME ~new.late, WaitForIbfClear(p)
      PROVE  InStep(p)'
  <2> DEFINE next == CASE q.at = "begin" -> "drain"
                       [] q.at = "sent" /\ i < Len(Ops(q.req)) -> "check"
                       [] OTHER -> "reading"
             ok == [q EXCEPT !.at = next, !.rv = "ok"]
             late == [q EXCEPT !.at = next, !.rv = "late", !.late = TRUE]
  <2>1. q.at \in {"begin", "sent"} /\ next \in {"drain", "check", "reading"} /\ UNCHANGED kcs
    BY <1>6 DEF WaitForIbfClear
  <2>2. late \in ProgramState /\ late.late /\ ok \in ProgramState
    BY <1>1, <2>1 DEF ProgramState, Places
  <2>3. ~kcs.ibf /\ Goes(p, ok)
    <3>1. ~Goes(p, late)
      BY <1>4, <1>6, <2>2
    <3> QED
      BY <1>6, <3>1 DEF WaitForIbfClear
  <2>4. new = ok /\ ok.at = next /\ ok.rv = "ok" /\ ok.req = r /\ ok.i = i /\ ok.late = q.late
    BY <1>1, <1>4, <2>2, <2>3 DEF ProgramState
  <2> HIDE DEF ok, late
  <2>5. CASE q.at = "begin"
    <3>1. new.at = "drain"
      BY <2>4, <2>5
    <3> QED
      BY <2>1, <2>3, <2>4, <3>1 DEF InStep
  <2>6. CASE q.at = "sent" /\ i < Last(q)
    <3>1. new.at = "check"
      BY <1>3, <2>4, <2>6
    <3>2. Taken(r, i)
      BY <1>2, <1>6, <2>3, <2>4, <2>6 DEF InStep, Given
    <3> QED
      BY <2>1, <2>4, <3>1, <3>2 DEF InStep, Taken, Prefix, Stored
  <2>7. CASE q.at = "sent" /\ i = Last(q)
    <3>1. new.at = "reading"
      BY <1>3, <2>4, <2>7
    <3>2. Holds \/ Over
      BY <1>2, <1>6, <2>3, <2>4, <2>7 DEF InStep, Given, Wanted
    <3> QED
      BY <2>1, <2>4, <3>1, <3>2 DEF InStep, Holds, Over
  <2> QED
    BY <1>3, <2>1, <2>5, <2>6, <2>7
<1>7. ASSUME ~new.late, q.at # "begin", NEW rc \in {"ok", "timeout"}, Ends(p, rc)
      PROVE  InStep(p)'
  <2>1. [q EXCEPT !.at = "done", !.rc = rc] \in ProgramState
    BY <1>1 DEF ProgramState, Places
  <2>2. new = [q EXCEPT !.at = "done", !.rc = rc]
    BY <1>4, <1>7, <2>1 DEF Ends
  <2>3. new.at = "done" /\ new.rc = rc /\ new.rv = q.rv /\ new.late = q.late
    BY <1>1, <2>2 DEF ProgramState
  <2>4. new.rv = "ok"
    BY <1>2, <1>7, <2>3 DEF InStep
  <2> QED
    BY <2>3, <2>4 DEF InStep
<1>8. ASSUME ~new.late, NEW at \in {"sent", "clear", "obf", "not_read", "last_obf", "take", "take_last"},
             Goes(p, [q EXCEPT !.at = at])
      PROVE  /\ new.at = at /\ new.rv = q.rv /\ ~q.late /\ new.req = r /\ new.i = i
             /\ q.at # "begin" => new.rv = "ok"
  <2>1. [q EXCEPT !.at = at] \in ProgramState
    BY <1>1 DEF ProgramState, Places
  <2>2. new = [q EXCEPT !.at = at]
    BY <1>4, <1>8, <2>1
  <2>3. new.at = at /\ new.rv = q.rv /\ new.late = q.late /\ new.req = r /\ new.i = i
    BY <1>1, <2>2 DEF ProgramState
  <2> QED
    BY <1>2, <1>8, <2>3 DEF InStep
<1>9. ASSUME Inb
      PROVE  /\ kcs'.ibf = kcs.ibf /\ kcs'.state = kcs.state /\ kcs'.ending = kcs.ending
             /\ kcs'.got = kcs.got /\ kcs'.obf = FALSE
  BY <1>1, <1>9 DEF Inb, InterfaceState
<1>10. ASSUME ~new.late, NEW k \in 1..Last(q), Goes(p, [q EXCEPT !.at = "write", !.i = k])
       PROVE  /\ new.at = "write" /\ new.i = k /\ new.rv = q.rv /\ ~q.late /\ new.req = r
              /\ q.at # "begin" => new.rv = "ok"
  <2>1. k \in Nat
    BY <1>3
  <2>2. [q EXCEPT !.at = "write", !.i = k] \in ProgramState
    BY <1>1, <2>1 DEF ProgramState, Places
  <2>3. new = [q EXCEPT !.at = "write", !.i = k]
    BY <1>4, <1>10, <2>2
  <2>4. new.at = "write" /\ new.i = k /\ new.rv = q.rv /\ new.late = q.late /\ new.req = r
    BY <1>1, <2>3 DEF ProgramState
  <2> QED
    BY <1>2, <1>10, <2>4 DEF InStep
<1>11. ASSUME ~new.late, NEW rc \in {"send_fail", "recv_fail"}, Ends(p, rc)
       PROVE  ~q.late
  <2>1. [q EXCEPT !.at = "done", !.rc = rc] \in ProgramState
    BY <1>1 DEF ProgramState, Places
  <2>2. new = [q EXCEPT !.at = "done", !.rc = rc]
    BY <1>4, <1>11, <2>1 DEF Ends
  <2>3. new.late = q.late
    BY <1>1, <2>2 DEF ProgramState
  <2> QED
    BY <1>11, <2>3
<1>12. ASSUME ~new.late, Drain(p)
       PROVE  InStep(p)'
  <2>1. q.at = "drain" /\ Inb
    BY <1>12 DEF Drain
  <2>2. Goes(p, [q EXCEPT !.at = "write", !.i = 1])
    <3>1. CASE q.rv # "ok"
      <4>1. Ends(p, "send_fail")
        BY <1>12, <3>1 DEF Drain
      <4>2. ~q.late
        BY <1>11, <1>12, <4>1
      <4> QED
        BY <1>2, <2>1, <3>1, <4>2 DEF InStep
    <3> QED
      BY <1>12, <3>1 DEF Drain
  <2>3. /\ new.at = "write" /\ new.i = 1 /\ ~q.late /\ new.rv = "ok"
    <3>1. 1 \in 1..Last(q)
      BY <1>3
    <3> QED
      BY <1>10, <1>12, <2>1, <2>2, <3>1
  <2>4. ~kcs.ibf
    BY <1>2, <2>1, <2>3 DEF InStep
  <2>5. kcs'.ibf = kcs.ibf /\ kcs'.obf = FALSE
    BY <1>9, <2>1
  <2>6. ~(new.i > 1)
    BY <2>3
  <2> QED
    BY <2>3, <2>4, <2>5, <2>6 DEF InStep
<1>13. ASSUME ~new.late, Write(p)
       PROVE  InStep(p)'
  <2>1. q.at = "write" /\ Goes(p, [q EXCEPT !.at = "sent"])
    BY <1>13 DEF Write
  <2>2. new.at = "sent" /\ new.rv = "ok" /\ ~q.late /\ new.req = r /\ new.i = i
    BY <1>8, <1>13, <2>1
  <2>3. /\ kcs'.ibf = TRUE /\ kcs'.port = Ops(r)[i].port /\ kcs'.in = Ops(r)[i].byte
        /\ kcs'.state = kcs.state /\ kcs'.ending = kcs.ending /\ kcs'.got = kcs.got /\ kcs'.obf = kcs.obf
    BY <1>1, <1>13 DEF Write, Outb, InterfaceState
  <2>4. ~kcs.obf /\ (i > 1 => Taken(r, i - 1))
    BY <1>2, <2>1, <2>2 DEF InStep
  <2>5. i > 1 => /\ kcs'.state = "write" /\ kcs'.ending = (i = r.len + 2)
                 /\ Len(kcs'.got) = Stored(r, i - 1)
                 /\ \A j \in 1..Stored(r, i - 1) : kcs'.got[j] = Bytes(r)[j]
    <3>1. (i - 1 = r.len + 1) = (i = r.len + 2)
      BY <1>3
    <3> QED
      BY <2>3, <2>4, <3>1 DEF Taken, Prefix
  <2>6. Given(r, i)'
    BY <2>3, <2>5 DEF Given, Prefix
  <2> QED
    BY <2>2, <2>3, <2>4, <2>6 DEF InStep
<1>14. ASSUME ~new.late, GetWriteState(p)
       PROVE  InStep(p)'
  <2>1. q.at = "check" /\ UNCHANGED kcs
    BY <1>14 DEF GetWriteState
  <2>2. ~q.late
    BY <1>8, <1>11, <1>14 DEF GetWriteState
  <2>3. Taken(r, i)
    BY <1>2, <2>1, <2>2 DEF InStep
  <2>4. Goes(p, [q EXCEPT !.at = "clear"])
    BY <1>14, <2>3 DEF GetWriteState, Taken
  <2>5. new.at = "clear" /\ new.rv = "ok" /\ new.req = r /\ new.i = i
    BY <1>8, <1>14, <2>1, <2>4
  <2> QED
    BY <2>1, <2>3, <2>5 DEF InStep, Taken, Prefix, Stored
<1>15. ASSUME ~new.late, ClearObf(p)
       PROVE  InStep(p)'
  <2>1. q.at = "clear" /\ Inb /\ i + 1 \in 1..Last(q) /\ (i + 1) - 1 = i /\ i + 1 > 1
    BY <1>3, <1>15 DEF ClearObf
  <2>2. Goes(p, [q EXCEPT !.at = "write", !.i = i + 1])
    <3>1. CASE i = 1 /\ q.rv # "ok"
      <4>1. Ends(p, "send_fail")
        BY <1>15, <3>1 DEF ClearObf
      <4>2. ~q.late
        BY <1>11, <1>15, <4>1
      <4> QED
        BY <1>2, <2>1, <3>1, <4>2 DEF InStep
    <3> QED
      BY <1>15, <3>1 DEF ClearObf
  <2>3. new.at = "write" /\ new.rv = "ok" /\ ~q.late /\ new.req = r /\ new.i = i + 1
    BY <1>10, <1>15, <2>1, <2>2
  <2>4. Taken(r, i)
    BY <1>2, <2>1, <2>3 DEF InStep
  <2>5. ~kcs'.ibf /\ kcs'.obf = FALSE /\ Taken(r, i)'
    BY <1>9, <2>1, <2>4 DEF Taken, Prefix
  <2> QED
    BY <2>1, <2>3, <2>5 DEF InStep, Taken, Prefix, Stored
<1>16. ASSUME ~new.late, GetReadState(p)
       PROVE  InStep(p)'
  <2>1. /\ q.at = "reading" /\ UNCHANGED kcs
        /\ Goes(p, [q EXCEPT !.at = IF kcs.state = "read" THEN "obf" ELSE "not_read"])
    BY <1>16 DEF GetReadState
  <2>2. /\ new.at = IF kcs.state = "read" THEN "obf" ELSE "not_read"
        /\ new.rv = "ok" /\ ~q.late
    BY <1>8, <1>16, <2>1
  <2>3. Holds \/ Over
    BY <1>2, <2>1, <2>2 DEF InStep
  <2> QED
    BY <2>1, <2>2, <2>3 DEF InStep, Holds, Over
<1>17. ASSUME ~new.late, GetIdleState(p)
       PROVE  InStep(p)'
  <2>1. q.at = "not_read" /\ UNCHANGED kcs
    BY <1>17 DEF GetIdleState
  <2>2. ~q.late
    BY <1>8, <1>11, <1>17 DEF GetIdleState
  <2>3. Over
    BY <1>2, <2>1, <2>2 DEF InStep
  <2>4. Goes(p, [q EXCEPT !.at = "last_obf"])
    BY <1>17, <2>3 DEF GetIdleState, Over
  <2>5. new.at = "last_obf" /\ new.rv = "ok"
    BY <1>8, <1>17, <2>1, <2>4
  <2> QED
    BY <2>1, <2>3, <2>5 DEF InStep, Over
<1>18. ASSUME ~new.late, WaitForObfSet(p)
       PROVE  InStep(p)'
  <2>1. q.at \in {"obf", "last_obf"} /\ UNCHANGED kcs
    BY <1>18 DEF WaitForObfSet
  <2>2. kcs.obf /\ Goes(p, [q EXCEPT !.at = IF q.at = "obf" THEN "take" ELSE "take_last"])
    <3>1. CASE ~kcs.obf /\ Goes(p, [q EXCEPT !.at = "done", !.rc = "recv_fail", !.late = q.late \/ Slow])
      <4> DEFINE late == q.late \/ Slow
      <4>1. late \in BOOLEAN
        OBVIOUS
      <4>2. Goes(p, [q EXCEPT !.at = "done", !.rc = "recv_fail", !.late = late])
        BY <3>1
      <4>3. ~late => ~q.late
        OBVIOUS
      <4> HIDE DEF late
      <4>4. [q EXCEPT !.at = "done", !.rc = "recv_fail", !.late = late] \in ProgramState
        BY <1>1, <4>1 DEF ProgramState, Places
      <4>5. new = [q EXCEPT !.at = "done", !.rc = "recv_fail", !.late = late]
        BY <1>4, <4>2, <4>4
      <4>6. new.late = late
        BY <1>1, <4>5 DEF ProgramState
      <4>7. ~q.late
        BY <1>18, <4>3, <4>6
      <4> QED
        BY <1>2, <2>1, <3>1, <4>7 DEF InStep, Holds, Over
    <3> QED
      BY <1>18, <3>1 DEF WaitForObfSet
  <2>3. /\ new.at = IF q.at = "obf" THEN "take" ELSE "take_last"
        /\ new.rv = "ok" /\ ~q.late
    BY <1>8, <1>18, <2>1, <2>2
  <2>4. IF q.at = "obf" THEN Holds ELSE Over
    BY <1>2, <2>1, <2>3 DEF InStep
  <2> QED
    BY <2>1, <2>3, <2>4 DEF InStep, Holds, Over
<1>19. ASSUME ~new.late, Take(p)
       PROVE  InStep(p)'
  <2> DEFINE taken == [q EXCEPT !.at = "next", !.rx = Append(q.rx, kcs.outReg)]
  <2>1. taken \in ProgramState
    <3>1. q.rx \in Seq(Data) /\ kcs.outReg \in Data
      BY <1>1 DEF ProgramState, InterfaceState
    <3>2. Append(q.rx, kcs.outReg) \in Seq(Data)
      BY <3>1
    <3> QED
      BY <1>1, <3>2 DEF ProgramState, Places
  <2>2. q.at = "take" /\ Inb /\ new = taken
    BY <1>4, <1>19, <2>1 DEF Take
  <2>3. new.at = "next" /\ new.rv = q.rv /\ new.late = q.late
    BY <1>1, <2>2 DEF ProgramState
  <2>4. Holds /\ q.rv = "ok"
    BY <1>2, <1>19, <2>2, <2>3 DEF InStep
  <2> QED
    BY <1>9, <2>2, <2>3, <2>4 DEF InStep, Holds
<1>20. ASSUME ~new.late, AskForNext(p)
       PROVE  InStep(p)'
  <2>1. q.at = "next" /\ Goes(p, [q EXCEPT !.at = "sent"])
    BY <1>20 DEF AskForNext
  <2>2. new.at = "sent" /\ new.rv = "ok" /\ ~q.late /\ new.req = r /\ new.i = i
    BY <1>8, <1>20, <2>1
  <2>3. /\ kcs'.ibf = TRUE /\ kcs'.port = "data" /\ kcs'.in = ReadByte
        /\ kcs'.state = kcs.state /\ kcs'.obf = kcs.obf
    BY <1>1, <1>20 DEF AskForNext, Outb, InterfaceState
  <2>4. kcs.state = "read" /\ ~kcs.obf
    BY <1>2, <2>1, <2>2 DEF InStep
  <2>5. i = r.len + 2 /\ Last(new) = r.len + 2
    BY <1>3, <2>1, <2>2 DEF Reads, Last
  <2> QED
    BY <2>2, <2>3, <2>4, <2>5 DEF InStep, Wanted, Last
<1>21. ASSUME ~new.late, TakeLast(p)
       PROVE  InStep(p)'
  <2>1. (IF Len(q.rx) < 3 THEN "timeout" ELSE "ok") \in {"ok", "timeout"} /\ q.at # "begin"
    BY <1>21 DEF TakeLast
  <2> QED
    BY <1>7, <1>21, <2>1 DEF TakeLast
<1> QED
  BY <1>5, <1>6, <1>12, <1>13, <1>14, <1>15, <1>16, <1>17, <1>18, <1>19, <1>20, <1>21 DEF Exchanges

\* One exchange at a time, each in step.
LEMMA StepKeeps == DriverInv /\ StepInv /\ [Next]_vars => StepInv'
<1> SUFFICES ASSUME DriverInv, StepInv, [Next]_vars, ~Concurrent
             PROVE  OneAtATime' /\ \A p \in Programs : InStep(p)'
  BY DEF StepInv
<1>1. OneAtATime /\ \A p \in Programs : InStep(p)
  BY DEF StepInv
<1>2. CASE BmcTakes
  <2>1. prog' = prog
    BY <1>2 DEF BmcTakes
  <2> QED
    BY <1>1, <1>2, <2>1, BmcKeepsStep DEF OneAtATime
<1>3. ASSUME NEW p \in Programs, NEW q, Goes(p, q),
             \/ prog[p].at \notin {"out", "gone"}
             \/ \A o \in Programs : prog[o].at \in {"out", "gone"},
             InStep(p)'
      PROVE  OneAtATime' /\ \A o \in Programs : InStep(o)'
  <2>1. /\ OneAtATime'
        /\ \A o \in Programs \ {p} : prog'[o] = prog[o] /\ prog[o].at \in {"out", "gone"}
    BY <1>1, <1>3, OthersAreOut
  <2>2. \A o \in Programs \ {p} : InStep(o)'
    BY <2>1 DEF InStep, InExchange
  <2> QED
    BY <1>3, <2>1, <2>2
<1>4. ASSUME NEW p \in Programs, NEW q, Goes(p, q)
      PROVE  prog'[p] = q
  BY <1>4 DEF Goes, DriverInv, Typed
<1>5. ASSUME NEW p \in Programs, NEW q, Goes(p, q), q.at \in {"out", "gone", "ready", "begin"},
             \/ prog[p].at \notin {"out", "gone"}
             \/ \A o \in Programs : prog[o].at \in {"out", "gone"}
      PROVE  OneAtATime' /\ \A o \in Programs : InStep(o)'
  <2>1. prog'[p] = q
    BY <1>4, <1>5
  <2>2. InStep(p)'
    BY <1>5, <2>1 DEF InStep, InExchange
  <2> QED
    BY <1>3, <1>5, <2>2
<1>6. CASE UNCHANGED vars
  BY <1>1, <1>6 DEF vars, OneAtATime, InStep, InExchange, Last, Taken, Given, Prefix, Stored, Holds, Wanted, Over
<1>7. ASSUME NEW p \in Programs, prog[p].at \notin {"out", "gone"}, NEW aim, NEW q \in ProgramState, Send(p, aim, q)
      PROVE  OneAtATime' /\ \A o \in Programs : InStep(o)'
  <2>1. PICK r : Goes(p, [q EXCEPT !.at = "begin", !.aim = aim, !.n = r.n, !.req = r, !.i = 0,
                                   !.rx = <<>>, !.late = FALSE])
    BY <1>7 DEF Send
  <2> DEFINE new == [q EXCEPT !.at = "begin", !.aim = aim, !.n = r.n, !.req = r, !.i = 0,
                              !.rx = <<>>, !.late = FALSE]
  <2>2. new.at = "begin" /\ Goes(p, new)
    BY <1>7, <2>1 DEF ProgramState
  <2> HIDE DEF new
  <2> QED
    BY <1>5, <1>7, <2>2
<1>8. ASSUME NEW p \in Programs
      PROVE  prog[p] \in ProgramState
  BY DEF DriverInv, Typed
<1>9. ASSUME NEW p \in Programs, Start(p)
      PROVE  OneAtATime' /\ \A o \in Programs : InStep(o)'
  <2>1. PICK looks, forced \in BOOLEAN :
            Goes(p, [prog[p] EXCEPT !.at = "ready", !.looks = looks, !.selected = forced])
    BY <1>9 DEF Start
  <2> DEFINE new == [prog[p] EXCEPT !.at = "ready", !.looks = looks, !.selected = forced]
  <2>2. Goes(p, new) /\ new.at = "ready"
    BY <1>8, <2>1 DEF ProgramState
  <2>3. \A o \in Programs : prog[o].at \in {"out", "gone"}
    BY <1>9 DEF Start
  <2> HIDE DEF new
  <2> QED
    BY <1>5, <2>2, <2>3
<1>10. ASSUME NEW p \in Programs, Command(p)
       PROVE  OneAtATime' /\ \A o \in Programs : InStep(o)'
  <2> DEFINE less == [prog[p] EXCEPT !.left = prog[p].left - 1]
             new == [prog[p] EXCEPT !.left = prog[p].left - 1, !.rc = "no_drv"]
  <2>1. prog[p].at = "ready" /\ prog[p].left \in 1..Commands
    BY <1>8, <1>10, Bounds DEF Command, ProgramState
  <2>2. less \in ProgramState /\ new.at = "ready"
    <3>1. prog[p].left - 1 \in 0..Commands
      BY <2>1, Bounds
    <3> QED
      BY <1>8, <2>1, <3>1 DEF ProgramState
  <2>3. Send(p, "command", less) \/ Send(p, "device_id", less) \/ Goes(p, new)
    BY <1>10 DEF Command
  <2> HIDE DEF less, new
  <2> QED
    BY <1>5, <1>7, <2>1, <2>2, <2>3
<1>11. ASSUME NEW p \in Programs, Return(p)
       PROVE  OneAtATime' /\ \A o \in Programs : InStep(o)'
  <2> DEFINE known == [prog[p] EXCEPT !.known = TRUE, !.selected = TRUE]
             new == [prog[p] EXCEPT !.at = "ready", !.req = NoRequest, !.i = 0, !.rx = <<>>,
                                    !.rv = "ok", !.late = FALSE]
  <2>1. prog[p].at = "done" /\ known \in ProgramState /\ new.at = "ready"
    BY <1>8, <1>11 DEF Return, ProgramState
  <2>2. \/ Send(p, "command", known) \/ Send(p, "device_id_again", prog[p]) \/ Send(p, "command", prog[p])
        \/ Goes(p, new)
    BY <1>11 DEF Return, Idle
  <2> HIDE DEF known, new
  <2> QED
    BY <1>5, <1>7, <1>8, <2>1, <2>2
<1>12. ASSUME NEW p \in Programs, Close(p) \/ Crash(p)
       PROVE  OneAtATime' /\ \A o \in Programs : InStep(o)'
  <2>1. prog[p].at \notin {"out", "gone"} /\ Goes(p, [Fresh EXCEPT !.at = "gone"])
    BY <1>12 DEF Close, Crash, Exit, Goes
  <2>2. [Fresh EXCEPT !.at = "gone"].at = "gone"
    BY DEF Fresh
  <2> QED
    BY <1>5, <2>1, <2>2
<1>13. ASSUME NEW p \in Programs, Exchanges(p)
       PROVE  OneAtATime' /\ \A o \in Programs : InStep(o)'
  <2>1. prog[p].at \notin {"out", "gone"}
    BY <1>13 DEF Exchanges, WaitForIbfClear, Drain, Write, GetWriteState, ClearObf, GetReadState,
         GetIdleState, WaitForObfSet, Take, AskForNext, TakeLast
  <2>2. \E q : Goes(p, q)
    BY <1>13 DEF Exchanges, WaitForIbfClear, Drain, Write, GetWriteState, ClearObf, GetReadState,
         GetIdleState, WaitForObfSet, Take, AskForNext, TakeLast, Ends
  <2>3. InStep(p)'
    BY <1>1, <1>13, ExchangesKeepStep
  <2> QED
    BY <1>3, <2>1, <2>2, <2>3
<1> QED
  BY <1>2, <1>6, <1>9, <1>10, <1>11, <1>12, <1>13 DEF Next, Program

-----------------------------------------------------------------------------
(* What the theorems say of the variables' types and of healthy answers.    *)

\* The invariants of programs that run one after the other hold in every state.
LEMMA StepInvariant == Init /\ [][Next]_vars => [](DriverInv /\ StepInv)
<1>1. Init => DriverInv /\ StepInv
  <2> SUFFICES ASSUME Init PROVE StepInv
    BY DriverInit
  <2>1. \A p \in Programs : prog[p].at = "out"
    BY DEF Init, Fresh
  <2> QED
    BY <2>1 DEF StepInv, OneAtATime, InStep, InExchange
<1>2. DriverInv /\ StepInv /\ [Next]_vars => (DriverInv /\ StepInv)'
  BY DriverStep, StepKeeps
<1> QED
  BY <1>1, <1>2, PTL

LEMMA TypesFollow == DriverInv => TypeOK
<1> SUFFICES ASSUME DriverInv PROVE TypeOK
  OBVIOUS
<1>1. prog \in [Programs -> ProgramState] /\ kcs \in InterfaceState /\ lock \in BOOLEAN /\ asked \subseteq Requests
  BY DEF DriverInv, Typed
<1>2. ASSUME NEW p \in Programs
      PROVE  /\ prog[p].at \in Places /\ prog[p].aim \in {"command", "device_id", "device_id_again"}
             /\ prog[p].rc \in {"ok", "send_fail", "recv_fail", "timeout", "no_drv"}
             /\ prog[p].rv \in {"ok", "late"} /\ prog[p].left \in 0..Commands
             /\ InExchange(p) => prog[p].req \in asked /\ prog[p].i \in 0..Len(Ops(prog[p].req))
  <2>1. prog[p] \in ProgramState
    BY <1>1
  <2>2. ASSUME InExchange(p)
        PROVE  prog[p].req \in asked /\ prog[p].i \in 0..Len(Ops(prog[p].req))
    <3>1. prog[p].req \in asked /\ prog[p].i \in 0..(prog[p].req.len + 2)
      BY <2>2 DEF DriverInv, Progress, Last
    <3>2. Len(Ops(prog[p].req)) = prog[p].req.len + 2
      BY <1>1, <3>1, OpsAre
    <3> QED
      BY <3>1, <3>2
  <2> QED
    BY <2>1, <2>2 DEF ProgramState
<1>3. kcs.state \in {"idle", "read", "write", "error"} /\ kcs.port \in {"command", "data"}
  BY <1>1 DEF InterfaceState
<1> QED
  BY <1>1, <1>2, <1>3 DEF TypeOK, Places

\* Whoever runs, and however slow the BMC is, the program's variables have their
\* types, and the request an exchange is about is one that was begun.
THEOREM TypeCorrect == Spec => []TypeOK
<1>1. DriverInv => TypeOK
  BY TypesFollow
<1> QED
  BY <1>1, StepInvariant, PTL DEF Spec

\* One program after the other, also after killed ones: an exchange that never
\* waited in vain gets the BMC's answer (SendTimedImbpRequest_kcs).
THEOREM HealthyGetAnswers == ~Concurrent /\ Spec => []HealthyAnswers
<1>1. ASSUME ~Concurrent, DriverInv, StepInv
      PROVE  HealthyAnswers
  <2>1. ASSUME NEW p \in Programs, prog[p].at = "done", prog[p].rc \in {"send_fail", "recv_fail"}
        PROVE  prog[p].late
    BY <1>1, <2>1 DEF StepInv, InStep, InExchange
  <2> QED
    BY <1>1, <2>1, TypesFollow DEF HealthyAnswers
<1>2. CASE Concurrent
  BY <1>2
<1>3. CASE ~Concurrent
  <2>1. DriverInv /\ StepInv => HealthyAnswers
    BY <1>1, <1>3
  <2> QED
    BY <2>1, StepInvariant, PTL DEF Spec
<1> QED
  BY <1>2, <1>3

-----------------------------------------------------------------------------
(* The answer: what is left of it in the interface, and what the program has.  *)

\* Once run, a request has run.
LEMMA RanGrows ==
    ASSUME ran \in Seq(Seq(Words)), ran' = ran \/ \E got : ran' = Append(ran, got), NEW r
    PROVE  HasRun(r) => HasRun(r)'
<1>1. CASE ran' = ran
  BY <1>1 DEF HasRun
<1>2. ASSUME NEW got, ran' = Append(ran, got)
      PROVE  HasRun(r) => HasRun(r)'
  <2>1. Len(ran') = Len(ran) + 1 /\ \A k \in 1..Len(ran) : ran'[k] = ran[k]
    BY <1>2
  <2>2. \A k \in 1..Len(ran) : k \in 1..Len(ran')
    BY <2>1
  <2> QED
    BY <2>1, <2>2 DEF HasRun
<1> QED
  BY <1>1, <1>2

\* The BMC runs what it holds.
LEMMA RunsIs ==
    ASSUME kcs \in InterfaceState, ran \in Seq(Seq(Words)), NEW r \in Requests, Append(kcs.got, kcs.in) = Bytes(r),
           NEW n \in ReplyLengths, Runs(n)
    PROVE  /\ kcs'.ibf = FALSE /\ kcs'.state = "read" /\ kcs'.ending = FALSE /\ kcs'.obf = TRUE
           /\ kcs'.outReg = Reply(Bytes(r), n)[1]
           /\ kcs'.out \in Seq(Data) /\ Len(kcs'.out) = n - 1
           /\ \A j \in 1..(n - 1) : kcs'.out[j] = Reply(Bytes(r), n)[j + 1]
           /\ ran' = Append(ran, Bytes(r)) /\ HasRun(r)'
<1>1. Bytes(r) \in Seq(Words)
  BY BytesAre
<1>2. /\ kcs'.ibf = FALSE /\ kcs'.state = "read" /\ kcs'.ending = FALSE /\ kcs'.obf = TRUE
      /\ kcs'.outReg = Head(Reply(Bytes(r), n)) /\ kcs'.out = Tail(Reply(Bytes(r), n))
      /\ ran' = Append(ran, Bytes(r))
  BY DEF Runs, InterfaceState
<1>3. HasRun(r)'
  <2>1. Len(ran') = Len(ran) + 1 /\ ran'[Len(ran) + 1] = Bytes(r) /\ Len(ran) + 1 \in 1..Len(ran')
    BY <1>1, <1>2
  <2> QED
    BY <2>1 DEF HasRun
<1> QED
  BY <1>1, <1>2, <1>3, ReplyIs

\* Taking a byte, the BMC runs the request that is pending, puts the next byte of
\* the answer in its register, ends it, or errs.
LEMMA BmcReads ==
    ASSUME kcs \in InterfaceState, ran \in Seq(Seq(Words)), BmcTakes, NEW r \in Requests, NEW rx \in Seq(Data)
    PROVE  /\ Pending(r, rx) => Shows(r, rx)'
           /\ Fetches(r, rx) => Shows(r, rx)' \/ Ended(r, rx)'
           /\ TooMany => Spoilt'
<1>0. Bytes(r) \in Seq(Words)
  BY BytesAre
<1>1. ASSUME Pending(r, rx)
      PROVE  Shows(r, rx)'
  <2>1. PICK n \in ReplyLengths : Runs(n)
    BY <1>1 DEF Pending, Held, BmcTakes, TakesData
  <2>2. rx = <<>> /\ Append(kcs.got, kcs.in) = Bytes(r)
    BY <1>1 DEF Pending
  <2>3. /\ kcs'.ibf = FALSE /\ kcs'.state = "read" /\ kcs'.ending = FALSE /\ kcs'.obf = TRUE
        /\ kcs'.outReg = Reply(Bytes(r), n)[1]
        /\ kcs'.out \in Seq(Data) /\ Len(kcs'.out) = n - 1
        /\ \A j \in 1..(n - 1) : kcs'.out[j] = Reply(Bytes(r), n)[j + 1]
        /\ HasRun(r)'
    BY <2>1, <2>2, RunsIs
  <2>4. n \in Nat /\ n >= 2 /\ Len(rx) = 0
    BY <2>2, Bounds
  <2>5. Answers(r, n, rx, 1)'
    <3>1. Len(rx) + 1 + Len(kcs'.out) = n
      BY <2>3, <2>4
    <3>2. \A j \in 1..Len(kcs'.out) : kcs'.out[j] = Reply(Bytes(r), n)[Len(rx) + 1 + j]
      <4>1. \A j \in 1..(n - 1) : Len(rx) + 1 + j = j + 1
        BY <2>4
      <4> QED
        BY <2>3, <4>1
    <3>3. \A j \in 1..Len(rx) : rx[j] = Reply(Bytes(r), n)[j]
      BY <2>4
    <3> QED
      BY <2>3, <3>1, <3>2, <3>3 DEF Answers
  <2>6. kcs'.outReg = Reply(Bytes(r), n)[Len(rx) + 1]
    BY <2>3, <2>4
  <2>7. Holds' /\ ~kcs'.ending
    BY <2>3 DEF Holds
  <2> QED
    BY <2>5, <2>6, <2>7 DEF Shows
<1>2. ASSUME Fetches(r, rx)
      PROVE  Shows(r, rx)' \/ Ended(r, rx)'
  <2>1. PICK n \in ReplyLengths : Answers(r, n, rx, 0)
    BY <1>2 DEF Fetches
  <2>2. kcs.port = "data" /\ kcs.in = ReadByte /\ kcs.state = "read" /\ ~kcs.ending
    BY <1>2 DEF Fetches, Wanted
  <2>3. kcs.out \in Seq(Data) /\ n \in Nat /\ Len(rx) \in Nat
    BY Bounds DEF InterfaceState
  <2>4. /\ HasRun(r) /\ Len(rx) + 0 + Len(kcs.out) = n
        /\ \A j \in 1..Len(rx) : rx[j] = Reply(Bytes(r), n)[j]
        /\ \A j \in 1..Len(kcs.out) : kcs.out[j] = Reply(Bytes(r), n)[Len(rx) + 0 + j]
    BY <2>1 DEF Answers
  <2>5. CASE kcs.out # <<>>
    <3>1. /\ kcs' = [kcs EXCEPT !.ibf = FALSE, !.obf = TRUE, !.outReg = Head(kcs.out), !.out = Tail(kcs.out)]
          /\ ran' = ran
      BY <2>2, <2>5 DEF BmcTakes, TakesData
    <3>2. /\ kcs'.ibf = FALSE /\ kcs'.obf = TRUE /\ kcs'.state = "read" /\ ~kcs'.ending
          /\ kcs'.outReg = Head(kcs.out) /\ kcs'.out = Tail(kcs.out)
      BY <2>2, <3>1 DEF InterfaceState
    <3>3. /\ Len(kcs.out) >= 1 /\ Head(kcs.out) = kcs.out[1] /\ Len(Tail(kcs.out)) = Len(kcs.out) - 1
          /\ \A j \in 1..(Len(kcs.out) - 1) : Tail(kcs.out)[j] = kcs.out[j + 1]
      BY <2>3, <2>5
    <3>4. Answers(r, n, rx, 1)'
      <4>1. Len(rx) + 1 + Len(kcs'.out) = n
        <5>1. Len(kcs'.out) = Len(kcs.out) - 1
          BY <3>2, <3>3
        <5>2. Len(kcs.out) \in Nat /\ Len(rx) + 0 + Len(kcs.out) = n
          BY <2>3, <2>4
        <5> DEFINE a == Len(rx)
                   b == Len(kcs.out)
                   c == Len(kcs'.out)
        <5>3. a \in Nat /\ b \in Nat /\ n \in Nat /\ c = b - 1 /\ a + 0 + b = n
          BY <2>3, <5>1, <5>2
        <5> HIDE DEF a, b, c
        <5>4. a + 1 + c = n
          BY <5>3
        <5> QED
          BY <5>4 DEF a, c
      <4>2. ASSUME NEW j \in 1..Len(kcs'.out)
            PROVE  kcs'.out[j] = Reply(Bytes(r), n)[Len(rx) + 1 + j]
        <5>1. j \in 1..(Len(kcs.out) - 1) /\ j + 1 \in 1..Len(kcs.out) /\ Len(rx) + 0 + (j + 1) = Len(rx) + 1 + j
          BY <2>3, <3>2, <3>3
        <5>2. kcs'.out[j] = kcs.out[j + 1]
          BY <3>2, <3>3, <5>1
        <5>3. kcs.out[j + 1] = Reply(Bytes(r), n)[Len(rx) + 0 + (j + 1)]
          BY <2>4, <5>1
        <5> QED
          BY <5>1, <5>2, <5>3
      <4>3. HasRun(r)'
        BY <2>4, <3>1 DEF HasRun
      <4> QED
        BY <2>4, <4>1, <4>2, <4>3 DEF Answers
    <3>5. kcs'.outReg = Reply(Bytes(r), n)[Len(rx) + 1]
      <4>1. 1 \in 1..Len(kcs.out) /\ Len(rx) + 0 + 1 = Len(rx) + 1
        BY <2>3, <3>3
      <4> QED
        BY <2>4, <3>2, <3>3, <4>1
    <3> QED
      BY <3>2, <3>4, <3>5 DEF Shows, Holds
  <2>6. CASE kcs.out = <<>>
    <3>1. kcs' = [kcs EXCEPT !.ibf = FALSE, !.obf = TRUE, !.outReg = Dummy, !.state = "idle"] /\ ran' = ran
      BY <2>2, <2>6 DEF BmcTakes, TakesData
    <3>2. kcs'.ibf = FALSE /\ kcs'.obf = TRUE /\ kcs'.state = "idle" /\ ~kcs'.ending
      BY <2>2, <3>1 DEF InterfaceState
    <3>3. rx = Reply(Bytes(r), n)
      <4>1. Len(rx) = n
        BY <2>3, <2>4, <2>6
      <4>2. Reply(Bytes(r), n) \in Seq(Data) /\ Len(Reply(Bytes(r), n)) = n
        BY <1>0, ReplyIs
      <4> QED
        BY <2>4, <4>1, <4>2, SeqEqual
    <3>4. HasRun(r)'
      BY <2>4, <3>1 DEF HasRun
    <3> QED
      BY <3>2, <3>3, <3>4 DEF Ended, Over, Whole
  <2> QED
    BY <2>5, <2>6
<1>3. ASSUME TooMany
      PROVE  Spoilt'
  <2>1. kcs.port = "data" /\ kcs.in = ReadByte /\ kcs.state = "idle"
    BY <1>3 DEF TooMany
  <2>2. Errs
    BY <2>1 DEF BmcTakes, TakesData
  <2>3. kcs'.ibf = FALSE /\ kcs'.state = "error"
    BY <2>2 DEF Errs, InterfaceState
  <2> QED
    BY <2>3 DEF Spoilt
<1> QED
  BY <1>1, <1>2, <1>3

\* A step of the BMC appends to what ran, if it is the last byte that it takes.
LEMMA BmcRuns ==
    ASSUME kcs \in InterfaceState, BmcTakes
    PROVE  \/ ran' = ran
           \/ Held /\ \E n \in ReplyLengths : Runs(n)
<1>1. CASE kcs.port = "command"
  BY <1>1 DEF BmcTakes, TakesCommand
<1>2. CASE kcs.port # "command" /\ kcs.state = "write" /\ kcs.ending
  <2>1. kcs.port = "data" /\ kcs.ibf
    BY <1>2 DEF InterfaceState, BmcTakes
  <2> QED
    BY <1>2, <2>1 DEF BmcTakes, TakesData, Held
<1>3. CASE kcs.port # "command" /\ ~(kcs.state = "write" /\ kcs.ending)
  BY <1>3 DEF BmcTakes, TakesData
<1> QED
  BY <1>1, <1>2, <1>3

\* What is known of an answer stays so while the interface is left alone.
LEMMA Untouched ==
    ASSUME kcs' = kcs, ran' = ran, NEW r, NEW rx
    PROVE  /\ Pending(r, rx) => Pending(r, rx)'
           /\ Shows(r, rx) => Shows(r, rx)'
           /\ Fetches(r, rx) => Fetches(r, rx)'
           /\ Ended(r, rx) => Ended(r, rx)'
           /\ Spoilt => Spoilt'
           /\ Whole(r, rx) => Whole(r, rx)'
<1>1. HasRun(r)' = HasRun(r)
  BY DEF HasRun
<1>2. \A n, k : Answers(r, n, rx, k) => Answers(r, n, rx, k)'
  BY <1>1 DEF Answers
<1>3. Shows(r, rx) => Shows(r, rx)'
  BY <1>2 DEF Shows, Holds
<1>4. Fetches(r, rx) => Fetches(r, rx)'
  BY <1>2 DEF Fetches, Wanted
<1>5. Whole(r, rx) => Whole(r, rx)'
  BY <1>1 DEF Whole
<1>6. Ended(r, rx) => Ended(r, rx)'
  BY <1>5 DEF Ended, Over
<1>7. Pending(r, rx) => Pending(r, rx)'
  BY DEF Pending, Held
<1> QED
  BY <1>3, <1>4, <1>5, <1>6, <1>7 DEF Spoilt

\* A step of the BMC keeps what is known of an answer.
LEMMA BmcKeepsReading ==
    ASSUME DriverInv, NEW p \in Programs, InExchange(p), NEW q, prog[p] = q, Reading(q), BmcTakes
    PROVE  Reading(q)'
<1>1. /\ kcs \in InterfaceState /\ ran \in Seq(Seq(Words)) /\ q \in ProgramState /\ kcs.ibf
  BY DEF DriverInv, Typed, BmcTakes
<1>2. q.req \in Requests /\ q.rx \in Seq(Data)
  <2>1. q.req \in asked /\ asked \subseteq Requests
    BY DEF DriverInv, Typed, Progress
  <2> QED
    BY <1>1, <2>1 DEF ProgramState
<1>3. /\ Pending(q.req, q.rx) => Shows(q.req, q.rx)'
      /\ Fetches(q.req, q.rx) => Shows(q.req, q.rx)' \/ Ended(q.req, q.rx)'
      /\ TooMany => Spoilt'
  BY <1>1, <1>2, BmcReads
<1>4. ~Shows(q.req, q.rx) /\ ~Ended(q.req, q.rx) /\ ~Spoilt
  BY <1>1 DEF Shows, Holds, Ended, Over, Spoilt
<1>5. Whole(q.req, q.rx) => Whole(q.req, q.rx)'
  <2>1. ran' = ran \/ \E got : ran' = Append(ran, got)
    BY <1>1, BmcRuns DEF Runs
  <2>2. HasRun(q.req) => HasRun(q.req)'
    BY <1>1, <2>1, RanGrows
  <2> QED
    BY <2>2 DEF Whole
<1>6. /\ ~Written(q) => q.rx = <<>>
      /\ q.late => MayBeLate(q)
  BY DEF Reading
<1>7. q.at = "sent" /\ q.i = Last(q) => Pending(q.req, q.rx)' \/ Shows(q.req, q.rx)' \/ Ended(q.req, q.rx)' \/ Spoilt'
  BY <1>3, <1>4 DEF Reading
<1>8. q.at = "reading" => Shows(q.req, q.rx)' \/ Ended(q.req, q.rx)'
  BY <1>3, <1>4 DEF Reading
<1>9. q.at = "not_read" => Shows(q.req, q.rx)'
  BY <1>3, <1>4 DEF Reading
<1>10. q.at = "obf" => Shows(q.req, q.rx)' \/ Ended(q.req, q.rx)'
  BY <1>3, <1>4 DEF Reading
<1>11. q.at \notin {"take", "last_obf", "take_last", "next"}
  BY <1>1, <1>4 DEF Reading
<1>12. q.at = "done" /\ q.rc = "ok" => Whole(q.req, q.rx)'
  BY <1>5 DEF Reading
<1> QED
  BY <1>6, <1>7, <1>8, <1>9, <1>10, <1>11, <1>12 DEF Reading, Written, MayBeLate, Last

\* An access of the program keeps what is known of an answer.
LEMMA ExchangesKeepReading ==
    ASSUME DriverInv, ~SlowBytes, NEW p \in Programs, InStep(p), Exchanges(p),
           NEW q, prog[p] = q, NEW s \in ProgramState, prog'[p] = s, Reading(q)
    PROVE  Reading(s)'
<1> DEFINE r == q.req
           rx == q.rx
<1>1. /\ prog \in [Programs -> ProgramState] /\ q \in ProgramState /\ kcs \in InterfaceState
      /\ InExchange(p) /\ r \in Requests /\ rx \in Seq(Data) /\ r.len \in Nat /\ r.len >= 2
      /\ Last(q) = r.len + 2 /\ q.i \in 0..Last(q) /\ ran' = ran
      /\ q.at \in {"begin", "drain"} => q.i = 0
      /\ q.at \notin {"begin", "drain", "done"} => q.i >= 1
      /\ q.at \in {"check", "clear"} => q.i < Last(q)
      /\ q.at \in Reads => q.i = Last(q)
  <2>1. /\ prog \in [Programs -> ProgramState] /\ q \in ProgramState /\ kcs \in InterfaceState /\ asked \subseteq Requests
    BY DEF DriverInv, Typed
  <2>2. InExchange(p) /\ ran' = ran
    BY DEF Exchanges, WaitForIbfClear, Drain, Write, GetWriteState, ClearObf, GetReadState, GetIdleState,
           WaitForObfSet, Take, AskForNext, TakeLast, InExchange, Quiet
  <2>3. r \in Requests /\ q.i \in 0..Last(q) /\ rx \in Seq(Data)
    BY <2>1, <2>2 DEF DriverInv, Progress, ProgramState
  <2>4. r.len \in Nat /\ r.len >= 2 /\ Last(q) = r.len + 2
    BY <2>3, RequestType DEF Last
  <2>5. /\ q.at \in {"begin", "drain"} => q.i = 0
        /\ q.at \notin {"begin", "drain", "done"} => q.i # 0
        /\ q.at \in {"check", "clear"} => q.i < Last(q)
        /\ q.at \in Reads => q.i = Last(q)
    BY <2>2 DEF DriverInv, Progress
  <2> QED
    BY <2>1, <2>2, <2>3, <2>4, <2>5
<1>2. ASSUME NEW new, Goes(p, new)
      PROVE  s = new
  BY <1>1, <1>2 DEF Goes
<1>3. ASSUME NEW at \in Places, Goes(p, [q EXCEPT !.at = at])
      PROVE  /\ s.at = at /\ s.req = r /\ s.rx = rx /\ s.i = q.i /\ s.late = q.late /\ s.rv = q.rv /\ s.rc = q.rc
             /\ Last(s) = Last(q)
  <2>1. s = [q EXCEPT !.at = at]
    BY <1>2, <1>3
  <2> QED
    BY <1>1, <2>1 DEF ProgramState, Last
<1>4. ASSUME NEW rc, Ends(p, rc)
      PROVE  /\ s.at = "done" /\ s.rc = rc /\ s.req = r /\ s.rx = rx /\ s.i = q.i /\ Last(s) = Last(q)
  <2>1. s = [q EXCEPT !.at = "done", !.rc = rc]
    BY <1>2, <1>4 DEF Ends
  <2> QED
    BY <1>1, <2>1 DEF ProgramState, Last
<1>5. ASSUME Inb
      PROVE  /\ kcs'.ibf = kcs.ibf /\ kcs'.state = kcs.state /\ kcs'.ending = kcs.ending
             /\ kcs'.out = kcs.out /\ kcs'.obf = FALSE
  BY <1>1, <1>5 DEF Inb, InterfaceState
\* A failed exchange says nothing more.
<1>6. ASSUME s.at = "done", s.rc # "ok", s.rx = <<>> \/ Written(q), s.i = q.i, Last(s) = Last(q)
      PROVE  Reading(s)'
  BY <1>6 DEF Reading, Written, MayBeLate
<1>7. ASSUME NEW rc \in {"send_fail", "recv_fail", "timeout"}, Ends(p, rc)
      PROVE  Reading(s)'
  <2>1. /\ s.at = "done" /\ s.rc # "ok" /\ s.rx = rx /\ s.i = q.i /\ Last(s) = Last(q)
    BY <1>4, <1>7
  <2>2. rx = <<>> \/ Written(q)
    BY DEF Reading
  <2> QED
    BY <1>6, <2>1, <2>2
<1>8. ASSUME s.rx = rx, s.i = q.i, Last(s) = Last(q), s.at # "write"
      PROVE  ~Written(s) => s.rx = <<>>
  BY <1>8 DEF Reading, Written
<1>9. ASSUME WaitForIbfClear(p)
      PROVE  Reading(s)'
  <2> DEFINE next == CASE q.at = "begin" -> "drain"
                       [] q.at = "sent" /\ q.i < Len(Ops(q.req)) -> "check"
                       [] OTHER -> "reading"
             ok == [q EXCEPT !.at = next, !.rv = "ok"]
             late == [q EXCEPT !.at = next, !.rv = "late", !.late = TRUE]
  <2>1. q.at \in {"begin", "sent"} /\ kcs' = kcs
    BY <1>9 DEF WaitForIbfClear
  <2>2. \/ ~kcs.ibf /\ s = ok
        \/ Slow /\ s = late
    BY <1>2, <1>9 DEF WaitForIbfClear
  <2> HIDE DEF next
  <2>3. /\ s.at = next /\ s.req = r /\ s.rx = rx /\ s.i = q.i /\ Last(s) = Last(q)
        /\ (~kcs.ibf /\ s.rv = "ok" /\ s.late = q.late) \/ (Slow /\ s.rv = "late" /\ s.late = TRUE)
    BY <1>1, <2>2 DEF ProgramState, Last
  <2> HIDE DEF ok, late
  <2>4. Len(Ops(q.req)) = Last(q)
    BY <1>1, OpsAre
  <2>5. CASE q.at = "begin"
    <3>1. s.at = "drain"
      BY <2>3, <2>5 DEF next
    <3>2. ~q.late
      BY <2>5, <1>1 DEF Reading, MayBeLate, Reads
    <3>3. s.late => MayBeLate(s)
      BY <2>3, <3>1, <3>2 DEF MayBeLate
    <3> QED
      BY <1>8, <2>3, <3>1, <3>3 DEF Reading, Written, MayBeLate
  <2>6. CASE q.at = "sent" /\ q.i < Last(q)
    <3>1. s.at = "check"
      BY <2>3, <2>4, <2>6 DEF next
    <3>2. ~q.late
      BY <2>6, <1>1 DEF Reading, MayBeLate, Reads
    <3>3. s.late => s.i = 1 /\ s.rv = "late"
      <4>1. ASSUME Slow
            PROVE  q.i = 1
        <5>1. Given(r, q.i)
          BY <1>1, <2>6, <3>2, <4>1 DEF InStep, Slow, Taken
        <5>2. kcs.state = "read" \/ (kcs.ending /\ kcs.port = "data")
          BY <4>1 DEF Slow
        <5>3. q.i # r.len + 2 /\ (q.i = 1 \/ q.i > 1)
          BY <1>1, <2>6
        <5> QED
          BY <5>1, <5>2, <5>3 DEF Given
      <4> QED
        BY <2>3, <3>2, <4>1
    <3>4. s.late => MayBeLate(s)
      BY <3>1, <3>3 DEF MayBeLate
    <3> QED
      BY <1>8, <2>3, <3>1, <3>4 DEF Reading, Written, MayBeLate
  <2>7. CASE q.at = "sent" /\ q.i = Last(q)
    <3>1. s.at = "reading"
      BY <1>1, <2>3, <2>4, <2>7 DEF next
    <3>2. ~TooMany
      BY <2>3 DEF TooMany, Slow
    <3>3. Pending(r, rx)' \/ Shows(r, rx)' \/ Fetches(r, rx)' \/ Ended(r, rx)' \/ Spoilt'
      BY <1>1, <2>1, <2>7, <3>2, Untouched DEF Reading
    <3> QED
      BY <1>8, <2>3, <3>1, <3>3 DEF Reading, Written, MayBeLate, Reads
  <2> QED
    BY <1>1, <2>1, <2>5, <2>6, <2>7
<1>10. ASSUME Drain(p)
       PROVE  Reading(s)'
  <2>1. CASE q.rv # "ok"
    <3>1. Ends(p, "send_fail")
      BY <1>10, <2>1 DEF Drain
    <3> QED
      BY <1>7, <3>1
  <2>2. CASE q.rv = "ok"
    <3>1. q.at = "drain" /\ s = [q EXCEPT !.at = "write", !.i = 1]
      BY <1>2, <1>10, <2>2 DEF Drain
    <3>2. s.at = "write" /\ s.rx = rx /\ s.late = q.late
      BY <1>1, <3>1 DEF ProgramState
    <3>3. ~q.late /\ rx = <<>>
      BY <1>1, <2>2, <3>1 DEF Reading, MayBeLate, Written, Reads
    <3> QED
      BY <3>2, <3>3 DEF Reading, MayBeLate, Written
  <2> QED
    BY <2>1, <2>2
<1>11. ASSUME Write(p)
       PROVE  Reading(s)'
  <2>1. q.at = "write" /\ Goes(p, [q EXCEPT !.at = "sent"])
    BY <1>11 DEF Write
  <2>2. s.at = "sent" /\ s.req = r /\ s.rx = rx /\ s.i = q.i /\ s.late = q.late /\ Last(s) = Last(q)
    BY <1>3, <2>1 DEF Places
  <2>3. ~q.late /\ rx = <<>>
    BY <1>1, <2>1 DEF Reading, MayBeLate, Written, Reads
  <2>4. /\ kcs'.ibf = TRUE /\ kcs'.port = Ops(r)[q.i].port /\ kcs'.in = Ops(r)[q.i].byte
        /\ kcs'.state = kcs.state /\ kcs'.ending = kcs.ending /\ kcs'.got = kcs.got /\ kcs'.obf = kcs.obf
    BY <1>1, <1>11 DEF Write, Outb, InterfaceState
  <2>5. CASE q.i < Last(q)
    <3>1. s.i # Last(s)
      BY <1>1, <2>2, <2>5
    <3> QED
      BY <2>2, <2>3, <3>1 DEF Reading, MayBeLate, Written
  <2>6. CASE q.i = Last(q)
    <3>1. ~kcs.obf /\ Taken(r, q.i - 1) /\ q.i - 1 = r.len + 1
      <4>1. q.i > 1 /\ q.i - 1 = r.len + 1
        BY <1>1, <2>6
      <4> QED
        BY <1>1, <2>1, <2>3, <4>1 DEF InStep
    <3>2. /\ kcs.state = "write" /\ kcs.ending = TRUE
          /\ Len(kcs.got) = r.len - 1 /\ \A j \in 1..(r.len - 1) : kcs.got[j] = Bytes(r)[j]
      BY <1>1, <3>1 DEF Taken, Prefix, Stored
    <3>3. /\ kcs'.port = "data" /\ kcs'.state = "write" /\ kcs'.ending /\ kcs'.ibf
          /\ Append(kcs'.got, kcs'.in) = Bytes(r)
      <4>1. kcs'.port = "data" /\ kcs'.in = Bytes(r)[r.len]
        BY <1>1, <2>4, <2>6, OpsParts
      <4>2. kcs.got \in Seq(Words) /\ Bytes(r)[r.len] \in Words
        <5>1. Bytes(r) \in Seq(Words) /\ Len(Bytes(r)) = r.len /\ r.len \in 1..r.len
          BY <1>1, BytesAre
        <5> QED
          BY <1>1, <5>1 DEF InterfaceState
      <4>3. Append(kcs.got, Bytes(r)[r.len]) = Bytes(r)
        BY <1>1, <3>2, <4>2, LastByte
      <4> QED
        BY <2>4, <3>2, <4>1, <4>3
    <3>4. Pending(r, rx)'
      BY <2>3, <2>4, <3>1, <3>3 DEF Pending, Held
    <3> QED
      BY <1>8, <2>2, <2>3, <3>4 DEF Reading, MayBeLate, Written
  <2> QED
    BY <1>1, <2>5, <2>6
<1>12. ASSUME GetWriteState(p)
       PROVE  Reading(s)'
  <2>1. CASE kcs.state # "write"
    <3>1. Ends(p, "send_fail")
      BY <1>12, <2>1 DEF GetWriteState
    <3> QED
      BY <1>7, <3>1
  <2>2. CASE kcs.state = "write"
    <3>1. q.at = "check" /\ Goes(p, [q EXCEPT !.at = "clear"])
      BY <1>12, <2>2 DEF GetWriteState
    <3>2. /\ s.at = "clear" /\ s.req = r /\ s.rx = rx /\ s.i = q.i /\ s.late = q.late /\ s.rv = q.rv
          /\ Last(s) = Last(q)
      BY <1>3, <3>1 DEF Places
    <3>3. s.late => MayBeLate(s)
      BY <1>1, <3>1, <3>2 DEF Reading, MayBeLate, Reads
    <3> QED
      BY <1>8, <3>2, <3>3 DEF Reading, MayBeLate, Written
  <2> QED
    BY <2>1, <2>2
<1>13. ASSUME ClearObf(p)
       PROVE  Reading(s)'
  <2>1. CASE q.i = 1 /\ q.rv # "ok"
    <3>1. Ends(p, "send_fail")
      BY <1>13, <2>1 DEF ClearObf
    <3> QED
      BY <1>7, <3>1
  <2>2. CASE ~(q.i = 1 /\ q.rv # "ok")
    <3>1. q.at = "clear" /\ s = [q EXCEPT !.at = "write", !.i = q.i + 1]
      BY <1>2, <1>13, <2>2 DEF ClearObf
    <3>2. s.at = "write" /\ s.rx = rx /\ s.late = q.late
      BY <1>1, <3>1 DEF ProgramState
    <3>3. ~q.late /\ rx = <<>>
      BY <1>1, <2>2, <3>1 DEF Reading, MayBeLate, Written, Reads
    <3> QED
      BY <3>2, <3>3 DEF Reading, MayBeLate, Written
  <2> QED
    BY <2>1, <2>2
\* In the read phase.
<1>14. ASSUME s.at \in Reads, s.req = r, s.i = q.i, Last(s) = Last(q), q.at \in Reads,
              s.at = "reading" => Pending(r, s.rx)' \/ Shows(r, s.rx)' \/ Fetches(r, s.rx)' \/ Ended(r, s.rx)' \/ Spoilt',
              s.at = "not_read" => Pending(r, s.rx)' \/ Shows(r, s.rx)' \/ Ended(r, s.rx)' \/ Spoilt',
              s.at = "obf" => Shows(r, s.rx)' \/ Fetches(r, s.rx)' \/ Ended(r, s.rx)',
              s.at = "take" => Shows(r, s.rx)' \/ Ended(r, s.rx)',
              s.at \in {"last_obf", "take_last"} => Ended(r, s.rx)',
              s.at # "next"
       PROVE  Reading(s)'
  <2>1. Written(s) /\ MayBeLate(s)
    BY <1>1, <1>14 DEF Written, MayBeLate, Reads
  <2>2. s.at \notin {"sent", "done"}
    BY <1>14 DEF Reads
  <2> QED
    BY <1>14, <2>1, <2>2 DEF Reading, Written, MayBeLate
<1>15. ASSUME GetReadState(p)
       PROVE  Reading(s)'
  <2>1. q.at = "reading" /\ kcs' = kcs /\ Goes(p, [q EXCEPT !.at = IF kcs.state = "read" THEN "obf" ELSE "not_read"])
    BY <1>15 DEF GetReadState
  <2>2. /\ s.at = IF kcs.state = "read" THEN "obf" ELSE "not_read"
        /\ s.req = r /\ s.rx = rx /\ s.i = q.i /\ Last(s) = Last(q)
    BY <1>3, <2>1 DEF Places
  <2>3. Pending(r, rx) \/ Shows(r, rx) \/ Fetches(r, rx) \/ Ended(r, rx) \/ Spoilt
    BY <2>1 DEF Reading
  <2>4. kcs.state = "read" => ~Pending(r, rx) /\ ~Spoilt
    BY DEF Pending, Held, Spoilt
  <2>5. kcs.state # "read" => ~Fetches(r, rx)
    BY DEF Fetches, Wanted
  <2>6. /\ s.at = "obf" => Shows(r, s.rx)' \/ Fetches(r, s.rx)' \/ Ended(r, s.rx)'
        /\ s.at = "not_read" => Pending(r, s.rx)' \/ Shows(r, s.rx)' \/ Ended(r, s.rx)' \/ Spoilt'
    BY <1>1, <2>1, <2>2, <2>3, <2>4, <2>5, Untouched
  <2> QED
    BY <1>14, <2>1, <2>2, <2>6 DEF Reads
<1>16. ASSUME GetIdleState(p)
       PROVE  Reading(s)'
  <2>1. CASE kcs.state # "idle"
    <3>1. Ends(p, "recv_fail")
      BY <1>16, <2>1 DEF GetIdleState
    <3> QED
      BY <1>7, <3>1
  <2>2. CASE kcs.state = "idle"
    <3>1. q.at = "not_read" /\ kcs' = kcs /\ Goes(p, [q EXCEPT !.at = "last_obf"])
      BY <1>16, <2>2 DEF GetIdleState
    <3>2. /\ s.at = "last_obf" /\ s.req = r /\ s.rx = rx /\ s.i = q.i /\ Last(s) = Last(q)
      BY <1>3, <3>1 DEF Places
    <3>3. Ended(r, rx)
      BY <2>2, <3>1 DEF Reading, Pending, Held, Shows, Holds, Spoilt
    <3>4. Ended(r, rx)'
      BY <1>1, <3>1, <3>3, Untouched
    <3> QED
      BY <1>14, <3>1, <3>2, <3>4 DEF Reads
  <2> QED
    BY <2>1, <2>2
<1>17. ASSUME WaitForObfSet(p)
       PROVE  Reading(s)'
  <2>1. q.at \in {"obf", "last_obf"} /\ kcs' = kcs
    BY <1>17 DEF WaitForObfSet
  <2>2. CASE kcs.obf /\ Goes(p, [q EXCEPT !.at = IF q.at = "obf" THEN "take" ELSE "take_last"])
    <3>1. /\ s.at = IF q.at = "obf" THEN "take" ELSE "take_last"
          /\ s.req = r /\ s.rx = rx /\ s.i = q.i /\ Last(s) = Last(q)
      BY <1>3, <2>2 DEF Places
    <3>2. ~Fetches(r, rx)
      BY <2>2 DEF Fetches, Wanted
    <3>3. IF q.at = "obf" THEN Shows(r, rx)' \/ Ended(r, rx)' ELSE Ended(r, rx)'
      BY <1>1, <2>1, <3>2, Untouched DEF Reading
    <3> QED
      BY <1>14, <2>1, <3>1, <3>3 DEF Reads
  <2>3. CASE Goes(p, [q EXCEPT !.at = "done", !.rc = "recv_fail", !.late = q.late \/ Slow])
    <3>1. s = [q EXCEPT !.at = "done", !.rc = "recv_fail", !.late = q.late \/ Slow]
      BY <1>2, <2>3
    <3>2. s.at = "done" /\ s.rc = "recv_fail" /\ s.i = q.i /\ Last(s) = Last(q)
      BY <1>1, <3>1 DEF ProgramState, Last
    <3>3. Written(q)
      BY <1>1, <2>1 DEF Written, Reads
    <3> QED
      BY <1>6, <3>2, <3>3
  <2> QED
    BY <1>17, <2>2, <2>3 DEF WaitForObfSet
<1>18. ASSUME Take(p)
       PROVE  Reading(s)'
  <2>1. q.at = "take" /\ Inb /\ s = [q EXCEPT !.at = "next", !.rx = Append(rx, kcs.outReg)]
    BY <1>2, <1>18 DEF Take
  <2>2. s.at = "next" /\ s.req = r /\ s.rx = Append(rx, kcs.outReg) /\ s.i = q.i /\ Last(s) = Last(q)
    BY <1>1, <2>1 DEF ProgramState, Last
  <2>3. Shows(r, rx) \/ Ended(r, rx)
    BY <2>1 DEF Reading
  <2>4. ~kcs'.ibf /\ ~kcs'.ending
    BY <1>5, <2>1, <2>3 DEF Shows, Holds, Ended, Over
  <2>5. kcs'.obf = FALSE /\ kcs'.state = kcs.state /\ kcs'.out = kcs.out
    BY <1>5, <2>1
  <2>6. ASSUME Shows(r, rx)
        PROVE  \E n \in ReplyLengths : Answers(r, n, s.rx, 0)'
    <3>1. PICK n \in ReplyLengths : Answers(r, n, rx, 1) /\ kcs.outReg = Reply(Bytes(r), n)[Len(rx) + 1]
      BY <2>6 DEF Shows
    <3>2. kcs.outReg \in Data /\ kcs.out \in Seq(Data)
      BY <1>1 DEF InterfaceState
    <3>3. /\ Len(s.rx) = Len(rx) + 1 /\ s.rx[Len(rx) + 1] = kcs.outReg
          /\ \A j \in 1..Len(rx) : s.rx[j] = rx[j]
      BY <1>1, <2>2, <3>2, AppendProperties
    <3>4. /\ HasRun(r) /\ Len(rx) + 1 + Len(kcs.out) = n
          /\ \A j \in 1..Len(rx) : rx[j] = Reply(Bytes(r), n)[j]
          /\ \A j \in 1..Len(kcs.out) : kcs.out[j] = Reply(Bytes(r), n)[Len(rx) + 1 + j]
      BY <3>1 DEF Answers
    <3>5. HasRun(r)'
      BY <1>1, <3>4 DEF HasRun
    <3>6. Len(s.rx) + 0 + Len(kcs'.out) = n
      <4>1. Len(kcs.out) \in Nat /\ Len(rx) \in Nat /\ Len(kcs'.out) = Len(kcs.out) /\ n \in Nat
        BY <1>1, <2>5, <3>2, Bounds
      <4> DEFINE a == Len(rx)
                 b == Len(kcs.out)
                 c == Len(s.rx)
      <4>2. a \in Nat /\ b \in Nat /\ n \in Nat /\ c = a + 1 /\ a + 1 + b = n
        BY <3>3, <3>4, <4>1
      <4> HIDE DEF a, b, c
      <4>3. c + 0 + b = n
        BY <4>2
      <4> QED
        BY <4>1, <4>3 DEF b, c
    <3>7. \A j \in 1..Len(s.rx) : s.rx[j] = Reply(Bytes(r), n)[j]
      <4>1. \A j \in 1..Len(s.rx) : j = Len(rx) + 1 \/ j \in 1..Len(rx)
        BY <1>1, <3>3
      <4> QED
        BY <3>1, <3>3, <3>4, <4>1
    <3>8. \A j \in 1..Len(kcs'.out) : kcs'.out[j] = Reply(Bytes(r), n)[Len(s.rx) + 0 + j]
      <4>1. \A j \in 1..Len(kcs.out) : Len(s.rx) + 0 + j = Len(rx) + 1 + j
        BY <1>1, <3>3
      <4> QED
        BY <2>5, <3>4, <4>1
    <3> QED
      BY <3>5, <3>6, <3>7, <3>8 DEF Answers
  <2>7. ASSUME Ended(r, rx)
        PROVE  kcs'.state = "idle"
    BY <2>5, <2>7 DEF Ended, Over
  <2>8. kcs'.state = "read" \/ kcs'.state = "idle"
    BY <2>3, <2>5 DEF Shows, Holds, Ended, Over
  <2>9. Written(s) /\ MayBeLate(s)
    BY <1>1, <2>1, <2>2 DEF Written, MayBeLate, Reads
  <2>10. \/ kcs'.state = "read" /\ \E n \in ReplyLengths : Answers(r, n, s.rx, 0)'
         \/ kcs'.state = "idle"
    BY <2>3, <2>6, <2>7, <2>8
  <2> QED
    BY <2>2, <2>4, <2>5, <2>9, <2>10 DEF Reading, Written, MayBeLate
<1>19. ASSUME AskForNext(p)
       PROVE  Reading(s)'
  <2>1. q.at = "next" /\ Goes(p, [q EXCEPT !.at = "sent"])
    BY <1>19 DEF AskForNext
  <2>2. s.at = "sent" /\ s.req = r /\ s.rx = rx /\ s.i = q.i /\ Last(s) = Last(q) /\ q.i = Last(q)
    BY <1>1, <1>3, <2>1 DEF Places, Reads
  <2>3. /\ kcs'.ibf = TRUE /\ kcs'.port = "data" /\ kcs'.in = ReadByte
        /\ kcs'.state = kcs.state /\ kcs'.ending = kcs.ending /\ kcs'.out = kcs.out /\ kcs'.obf = kcs.obf
    BY <1>1, <1>19 DEF AskForNext, Outb, InterfaceState
  <2>4. Fetches(r, rx)' \/ TooMany'
    <3>1. ~kcs.obf /\ ~kcs.ending
      BY <2>1 DEF Reading
    <3>2. ASSUME NEW n \in ReplyLengths, kcs.state = "read", Answers(r, n, rx, 0)
          PROVE  Fetches(r, rx)'
      <4>1. Answers(r, n, rx, 0)'
        <5>1. HasRun(r)' = HasRun(r)
          BY <1>1 DEF HasRun
        <5>2. kcs'.out = kcs.out
          BY <2>3
        <5> QED
          BY <3>2, <5>1, <5>2 DEF Answers
      <4> QED
        BY <2>3, <3>1, <3>2, <4>1 DEF Fetches, Wanted
    <3>3. ASSUME kcs.state = "idle"
          PROVE  TooMany'
      BY <2>3, <3>1, <3>3 DEF TooMany
    <3> QED
      BY <2>1, <3>2, <3>3 DEF Reading
  <2>5. Written(s) /\ MayBeLate(s)
    BY <2>2 DEF Written, MayBeLate
  <2> QED
    BY <2>2, <2>4, <2>5 DEF Reading, Written, MayBeLate
<1>20. ASSUME TakeLast(p)
       PROVE  Reading(s)'
  <2>1. q.at = "take_last" /\ Ends(p, IF Len(rx) < 3 THEN "timeout" ELSE "ok")
    BY <1>20 DEF TakeLast
  <2>2. /\ s.at = "done" /\ s.req = r /\ s.rx = rx /\ s.i = q.i /\ Last(s) = Last(q)
    BY <1>4, <2>1
  <2>3. Whole(r, rx)
    BY <2>1 DEF Reading, Ended
  <2>4. Whole(r, rx)'
    BY <1>1, <2>3 DEF Whole, HasRun
  <2>5. Written(s) /\ MayBeLate(s)
    BY <1>1, <2>1, <2>2 DEF Written, MayBeLate, Reads
  <2> QED
    BY <2>2, <2>4, <2>5 DEF Reading, Written, MayBeLate
<1> QED
  BY <1>9, <1>10, <1>11, <1>12, <1>13, <1>15, <1>16, <1>17, <1>18, <1>19, <1>20 DEF Exchanges

-----------------------------------------------------------------------------
(* What the steps do to the requests that were begun, run and answered.      *)

\* An access stays with its request, and leaves what the BMC stored.
LEMMA ExchangesEffect ==
    ASSUME DriverInv, NEW p \in Programs, Exchanges(p),
           NEW q, prog[p] = q, NEW s \in ProgramState, prog'[p] = s
    PROVE  /\ Quiet /\ Goes(p, s) /\ InExchange(p) /\ s.req = q.req /\ s.at \notin {"out", "gone", "ready"}
           /\ Written(q) => Written(s)
           /\ \/ /\ kcs'.ibf = kcs.ibf /\ kcs'.port = kcs.port /\ kcs'.state = kcs.state
                 /\ kcs'.ending = kcs.ending /\ kcs'.got = kcs.got /\ kcs'.in = kcs.in
                 /\ Written(s) => Written(q)
              \/ Write(p) \/ AskForNext(p)
<1>1. /\ prog \in [Programs -> ProgramState] /\ q \in ProgramState /\ kcs \in InterfaceState
  BY DEF DriverInv, Typed
<1>2. Quiet /\ InExchange(p)
  BY DEF Exchanges, WaitForIbfClear, Drain, Write, GetWriteState, ClearObf, GetReadState, GetIdleState,
         WaitForObfSet, Take, AskForNext, TakeLast, InExchange
<1>3. /\ q.req.len \in Nat /\ Last(q) = q.req.len + 2 /\ q.i \in 0..Last(q)
      /\ q.at = "drain" => q.i = 0
      /\ q.at \in {"check", "clear"} => q.i < Last(q)
  <2>1. q.req \in Requests /\ q.i \in 0..Last(q) /\ (q.at = "drain" => q.i = 0)
        /\ (q.at \in {"check", "clear"} => q.i < Last(q))
    BY <1>2 DEF DriverInv, Typed, Progress
  <2> QED
    BY <2>1, RequestType DEF Last
<1>4. ASSUME NEW new, Goes(p, new)
      PROVE  s = new /\ Goes(p, s)
  BY <1>1, <1>4 DEF Goes
<1>5. ASSUME s.req = q.req, s.i = q.i, q.at # "write", s.at \notin {"out", "gone", "ready", "write"},
             kcs' = kcs \/ Inb, Goes(p, s)
      PROVE  /\ Goes(p, s) /\ s.req = q.req /\ s.at \notin {"out", "gone", "ready"}
             /\ Written(q) => Written(s)
             /\ kcs'.ibf = kcs.ibf /\ kcs'.port = kcs.port /\ kcs'.state = kcs.state
             /\ kcs'.ending = kcs.ending /\ kcs'.got = kcs.got /\ kcs'.in = kcs.in
             /\ Written(s) => Written(q)
  <2>1. /\ kcs'.ibf = kcs.ibf /\ kcs'.port = kcs.port /\ kcs'.state = kcs.state
        /\ kcs'.ending = kcs.ending /\ kcs'.got = kcs.got /\ kcs'.in = kcs.in
    BY <1>1, <1>5 DEF Inb, InterfaceState
  <2> QED
    BY <1>5, <2>1 DEF Written, Last
<1>6. ASSUME NEW at \in Places \ {"out", "gone", "ready", "write"}, q.at # "write", kcs' = kcs \/ Inb,
             Goes(p, [q EXCEPT !.at = at])
      PROVE  /\ Goes(p, s) /\ s.req = q.req /\ s.at \notin {"out", "gone", "ready"}
             /\ Written(q) => Written(s)
             /\ kcs'.ibf = kcs.ibf /\ kcs'.port = kcs.port /\ kcs'.state = kcs.state
             /\ kcs'.ending = kcs.ending /\ kcs'.got = kcs.got /\ kcs'.in = kcs.in
             /\ Written(s) => Written(q)
  <2>1. s = [q EXCEPT !.at = at] /\ Goes(p, s)
    BY <1>4, <1>6
  <2>2. s.at = at /\ s.req = q.req /\ s.i = q.i
    BY <1>1, <2>1 DEF ProgramState
  <2> QED
    BY <1>5, <1>6, <2>1, <2>2
<1>7. ASSUME NEW rc, Ends(p, rc), q.at # "write", kcs' = kcs \/ Inb
      PROVE  /\ Goes(p, s) /\ s.req = q.req /\ s.at \notin {"out", "gone", "ready"}
             /\ Written(q) => Written(s)
             /\ kcs'.ibf = kcs.ibf /\ kcs'.port = kcs.port /\ kcs'.state = kcs.state
             /\ kcs'.ending = kcs.ending /\ kcs'.got = kcs.got /\ kcs'.in = kcs.in
             /\ Written(s) => Written(q)
  <2>1. s = [q EXCEPT !.at = "done", !.rc = rc] /\ Goes(p, s)
    BY <1>4, <1>7 DEF Ends
  <2>2. s.at = "done" /\ s.req = q.req /\ s.i = q.i
    BY <1>1, <2>1 DEF ProgramState
  <2> QED
    BY <1>5, <1>7, <2>1, <2>2
\* The next access of the write phase.
<1>8. ASSUME NEW k \in Nat, q.i < Last(q), q.at # "write", Inb, Goes(p, [q EXCEPT !.at = "write", !.i = k])
      PROVE  /\ Goes(p, s) /\ s.req = q.req /\ s.at \notin {"out", "gone", "ready"}
             /\ Written(q) => Written(s)
             /\ kcs'.ibf = kcs.ibf /\ kcs'.port = kcs.port /\ kcs'.state = kcs.state
             /\ kcs'.ending = kcs.ending /\ kcs'.got = kcs.got /\ kcs'.in = kcs.in
             /\ Written(s) => Written(q)
  <2>1. s = [q EXCEPT !.at = "write", !.i = k] /\ Goes(p, s)
    BY <1>4, <1>8
  <2>2. s.at = "write" /\ s.req = q.req
    BY <1>1, <2>1 DEF ProgramState
  <2>3. /\ kcs'.ibf = kcs.ibf /\ kcs'.port = kcs.port /\ kcs'.state = kcs.state
        /\ kcs'.ending = kcs.ending /\ kcs'.got = kcs.got /\ kcs'.in = kcs.in
    BY <1>1, <1>8 DEF Inb, InterfaceState
  <2>4. q.i # Last(q)
    BY <1>3, <1>8
  <2> QED
    BY <2>1, <2>2, <2>3, <2>4 DEF Written
<1>9. CASE WaitForIbfClear(p)
  <2> DEFINE next == CASE q.at = "begin" -> "drain"
                       [] q.at = "sent" /\ q.i < Len(Ops(q.req)) -> "check"
                       [] OTHER -> "reading"
  <2>1. q.at \in {"begin", "sent"} /\ kcs' = kcs /\ next \in {"drain", "check", "reading"}
    BY <1>9 DEF WaitForIbfClear
  <2>2. \/ Goes(p, [q EXCEPT !.at = next, !.rv = "ok"])
        \/ Goes(p, [q EXCEPT !.at = next, !.rv = "late", !.late = TRUE])
    BY <1>9 DEF WaitForIbfClear
  <2> HIDE DEF next
  <2>3. \/ s = [q EXCEPT !.at = next, !.rv = "ok"]
        \/ s = [q EXCEPT !.at = next, !.rv = "late", !.late = TRUE]
    BY <1>4, <2>2
  <2>4. s.at = next /\ s.req = q.req /\ s.i = q.i /\ Goes(p, s)
    BY <1>1, <1>4, <2>2, <2>3 DEF ProgramState
  <2> QED
    BY <1>2, <1>5, <2>1, <2>4
<1>10. CASE Drain(p)
  <2>1. q.at = "drain" /\ Inb /\ q.i < Last(q)
    BY <1>3, <1>10 DEF Drain
  <2>2. Ends(p, "send_fail") \/ Goes(p, [q EXCEPT !.at = "write", !.i = 1])
    BY <1>10 DEF Drain
  <2> QED
    BY <1>2, <1>7, <1>8, <2>1, <2>2
<1>11. CASE Write(p)
  <2>1. q.at = "write" /\ s = [q EXCEPT !.at = "sent"] /\ Goes(p, s)
    BY <1>4, <1>11 DEF Write
  <2>2. s.at = "sent" /\ s.req = q.req
    BY <1>1, <2>1 DEF ProgramState
  <2> QED
    BY <1>2, <1>11, <2>1, <2>2 DEF Written
<1>12. CASE GetWriteState(p)
  <2>1. q.at = "check" /\ kcs' = kcs
    BY <1>12 DEF GetWriteState
  <2>2. Ends(p, "send_fail") \/ Goes(p, [q EXCEPT !.at = "clear"])
    BY <1>12 DEF GetWriteState
  <2>3. "clear" \in Places \ {"out", "gone", "ready", "write"}
    BY DEF Places
  <2> QED
    BY <1>2, <1>6, <1>7, <2>1, <2>2, <2>3
<1>13. CASE ClearObf(p)
  <2>1. q.at = "clear" /\ Inb /\ q.i < Last(q) /\ q.i + 1 \in Nat
    BY <1>3, <1>13 DEF ClearObf
  <2>2. Ends(p, "send_fail") \/ Goes(p, [q EXCEPT !.at = "write", !.i = q.i + 1])
    BY <1>13 DEF ClearObf
  <2> QED
    BY <1>2, <1>7, <1>8, <2>1, <2>2
<1>14. CASE GetReadState(p)
  <2> DEFINE at == IF kcs.state = "read" THEN "obf" ELSE "not_read"
  <2>1. q.at = "reading" /\ kcs' = kcs /\ Goes(p, [q EXCEPT !.at = at]) /\ at \in Places \ {"out", "gone", "ready", "write"}
    BY <1>14 DEF GetReadState, Places
  <2> HIDE DEF at
  <2> QED
    BY <1>2, <1>6, <2>1
<1>15. CASE GetIdleState(p)
  <2>1. q.at = "not_read" /\ kcs' = kcs
    BY <1>15 DEF GetIdleState
  <2>2. Ends(p, "recv_fail") \/ Goes(p, [q EXCEPT !.at = "last_obf"])
    BY <1>15 DEF GetIdleState
  <2>3. "last_obf" \in Places \ {"out", "gone", "ready", "write"}
    BY DEF Places
  <2> QED
    BY <1>2, <1>6, <1>7, <2>1, <2>2, <2>3
<1>16. CASE WaitForObfSet(p)
  <2> DEFINE at == IF q.at = "obf" THEN "take" ELSE "take_last"
  <2>1. q.at \in {"obf", "last_obf"} /\ kcs' = kcs /\ at \in Places \ {"out", "gone", "ready", "write"}
    BY <1>16 DEF WaitForObfSet, Places
  <2>2. CASE Goes(p, [q EXCEPT !.at = at])
    <3> HIDE DEF at
    <3> QED
      BY <1>2, <1>6, <2>1, <2>2
  <2>3. CASE Goes(p, [q EXCEPT !.at = "done", !.rc = "recv_fail", !.late = q.late \/ Slow])
    <3>1. s = [q EXCEPT !.at = "done", !.rc = "recv_fail", !.late = q.late \/ Slow] /\ Goes(p, s)
      BY <1>4, <2>3
    <3>2. s.at = "done" /\ s.req = q.req /\ s.i = q.i
      BY <1>1, <3>1 DEF ProgramState
    <3> QED
      BY <1>2, <1>5, <2>1, <3>1, <3>2
  <2> QED
    BY <1>16, <2>2, <2>3 DEF WaitForObfSet
<1>17. CASE Take(p)
  <2>1. q.at = "take" /\ Inb /\ s = [q EXCEPT !.at = "next", !.rx = Append(q.rx, kcs.outReg)] /\ Goes(p, s)
    BY <1>4, <1>17 DEF Take
  <2>2. s.at = "next" /\ s.req = q.req /\ s.i = q.i
    BY <1>1, <2>1 DEF ProgramState
  <2> QED
    BY <1>2, <1>5, <2>1, <2>2
<1>18. CASE AskForNext(p)
  <2>1. q.at = "next" /\ s = [q EXCEPT !.at = "sent"] /\ Goes(p, s)
    BY <1>4, <1>18 DEF AskForNext
  <2>2. s.at = "sent" /\ s.req = q.req /\ s.i = q.i
    BY <1>1, <2>1 DEF ProgramState
  <2> QED
    BY <1>2, <1>18, <2>1, <2>2 DEF Written, Last
<1>19. CASE TakeLast(p)
  <2>1. q.at = "take_last" /\ Inb /\ \E rc : Ends(p, rc)
    BY <1>19 DEF TakeLast
  <2> QED
    BY <1>2, <1>7, <2>1
<1> QED
  BY <1>9, <1>10, <1>11, <1>12, <1>13, <1>14, <1>15, <1>16, <1>17, <1>18, <1>19 DEF Exchanges

\* Between exchanges a program begins one, with a request of its own, or is in
\* none; the answer it got is taken on the way.
Begins(p, s) ==
    \E r \in Requests \ asked :
        /\ asked' = asked \cup {r}
        /\ s.at = "begin" /\ s.req = r /\ s.i = 0 /\ s.rx = <<>> /\ s.late = FALSE
Rests(s) == asked' = asked /\ s.at \in {"gone", "ready"}
Accepts(p) ==
    /\ prog[p].at = "done" /\ prog[p].rc = "ok"
    /\ accepted' = Append(accepted, [req |-> prog[p].req, rx |-> prog[p].rx])

LEMMA OtherSteps ==
    ASSUME DriverInv, ~Concurrent, NEW p \in Programs,
           Start(p) \/ Command(p) \/ Return(p) \/ Close(p) \/ Crash(p)
    PROVE  /\ kcs' = kcs /\ ran' = ran
           /\ \E s : Goes(p, s) /\ (Begins(p, s) \/ Rests(s))
           /\ accepted' = accepted \/ Accepts(p)
           /\ \/ prog[p].at \notin {"out", "gone"}
              \/ \A o \in Programs : prog[o].at \in {"out", "gone"}
<1> DEFINE q == prog[p]
<1>1. prog \in [Programs -> ProgramState] /\ q \in ProgramState /\ Counts(p)
  BY DEF DriverInv, Typed
<1>2. ASSUME NEW aim \in {"command", "device_id", "device_id_again"}, NEW t \in ProgramState,
             t.n = q.n, t.n + 1 + 3 * t.left + Owed(aim) <= MaxExchanges, q.at \notin {"out", "gone"},
             Send(p, aim, t)
      PROVE  \E s : Goes(p, s) /\ (Begins(p, s) \/ Rests(s))
  <2>1. PICK r \in Requests \ asked :
            /\ asked' = asked \cup {r}
            /\ Goes(p, Begun(t, aim, r))
    BY <1>2, SendIs
  <2> DEFINE s == Begun(t, aim, r)
  <2>2. s.at = "begin" /\ s.req = r /\ s.i = 0 /\ s.rx = <<>> /\ s.late = FALSE
    BY <1>2 DEF ProgramState, Begun
  <2>3. Goes(p, s)
    BY <2>1
  <2> HIDE DEF s
  <2> QED
    BY <2>1, <2>2, <2>3 DEF Begins
<1>3. CASE Start(p)
  <2>1. PICK looks \in BOOLEAN, forced \in BOOLEAN :
            Goes(p, [q EXCEPT !.at = "ready", !.looks = looks, !.selected = forced])
    BY <1>3 DEF Start
  <2> DEFINE s == [q EXCEPT !.at = "ready", !.looks = looks, !.selected = forced]
  <2>2. Goes(p, s) /\ s.at = "ready"
    BY <1>1, <2>1 DEF ProgramState
  <2> HIDE DEF s
  <2>3. kcs' = kcs /\ ran' = ran /\ asked' = asked /\ accepted' = accepted
    BY <1>3 DEF Start, Quiet
  <2>4. \A o \in Programs : prog[o].at \in {"out", "gone"}
    BY <1>3 DEF Start
  <2> QED
    BY <2>2, <2>3, <2>4 DEF Rests
<1>4. CASE Command(p)
  <2> DEFINE less == [q EXCEPT !.left = q.left - 1]
             none == [q EXCEPT !.left = q.left - 1, !.rc = "no_drv"]
  <2>1. q.at = "ready" /\ q.left \in 1..Commands /\ q.n \in Nat /\ q.n + 3 * q.left <= MaxExchanges
    BY <1>1, <1>4, Bounds DEF Command, ProgramState, Counts
  <2>2. less \in ProgramState /\ less.n = q.n /\ less.left = q.left - 1 /\ none.at = "ready"
    <3>1. q.left - 1 \in 0..Commands
      BY <2>1, Bounds
    <3> QED
      BY <1>1, <2>1, <3>1 DEF ProgramState
  <2>3. \/ Send(p, "command", less) \/ Send(p, "device_id", less)
        \/ Goes(p, none) /\ asked' = asked
    BY <1>4 DEF Command
  <2>4. kcs' = kcs /\ ran' = ran /\ accepted' = accepted
    BY <1>4 DEF Command
  <2> HIDE DEF less, none
  <2>5. ASSUME NEW aim \in {"command", "device_id"}
        PROVE  less.n + 1 + 3 * less.left + Owed(aim) <= MaxExchanges
    BY <2>1, <2>2, Bounds DEF Owed
  <2>6. \E s : Goes(p, s) /\ (Begins(p, s) \/ Rests(s))
    BY <1>2, <2>1, <2>2, <2>3, <2>5 DEF Rests
  <2> QED
    BY <2>1, <2>4, <2>6
<1>5. CASE Return(p)
  <2> DEFINE known == [q EXCEPT !.known = TRUE, !.selected = TRUE]
             idle == [q EXCEPT !.at = "ready", !.req = NoRequest, !.i = 0, !.rx = <<>>,
                               !.rv = "ok", !.late = FALSE]
  <2>1. /\ q.at = "done" /\ known \in ProgramState /\ known.n = q.n /\ known.left = q.left /\ idle.at = "ready"
    BY <1>1, <1>5 DEF Return, ProgramState
  <2>2. /\ q.n \in Nat /\ q.left \in Nat /\ MaxExchanges \in Nat /\ q.n + 3 * q.left + Owed(q.aim) <= MaxExchanges
    BY <1>1, <2>1, Bounds DEF Counts, InExchange, ProgramState
  <2>3. \/ q.aim \in {"device_id", "device_id_again"} /\ Send(p, "command", known)
        \/ q.aim = "device_id" /\ Send(p, "device_id_again", q)
        \/ q.aim = "device_id_again" /\ Send(p, "command", q)
        \/ Goes(p, idle) /\ asked' = asked
    BY <1>5 DEF Return, Idle
  <2>4. kcs' = kcs /\ ran' = ran /\ (accepted' = accepted \/ Accepts(p))
    BY <1>5 DEF Return, Accepts
  <2> HIDE DEF known, idle
  <2>5. CASE q.aim \in {"device_id", "device_id_again"} /\ Send(p, "command", known)
    <3>1. known.n + 1 + 3 * known.left + Owed("command") <= MaxExchanges
      BY <2>1, <2>2, <2>5 DEF Owed
    <3> QED
      BY <1>2, <2>1, <2>4, <2>5, <3>1
  <2>6. CASE q.aim = "device_id" /\ Send(p, "device_id_again", q)
    <3>1. q.n + 1 + 3 * q.left + Owed("device_id_again") <= MaxExchanges
      BY <2>2, <2>6 DEF Owed
    <3> QED
      BY <1>1, <1>2, <2>1, <2>4, <2>6, <3>1
  <2>7. CASE q.aim = "device_id_again" /\ Send(p, "command", q)
    <3>1. q.n + 1 + 3 * q.left + Owed("command") <= MaxExchanges
      BY <2>2, <2>7 DEF Owed
    <3> QED
      BY <1>1, <1>2, <2>1, <2>4, <2>7, <3>1
  <2>8. CASE Goes(p, idle) /\ asked' = asked
    BY <2>1, <2>4, <2>8 DEF Rests
  <2> QED
    BY <2>3, <2>5, <2>6, <2>7, <2>8
<1>6. CASE Close(p) \/ Crash(p)
  <2>1. /\ q.at \notin {"out", "gone"} /\ Goes(p, [Fresh EXCEPT !.at = "gone"])
        /\ kcs' = kcs /\ ran' = ran /\ asked' = asked /\ accepted' = accepted
    BY <1>6 DEF Close, Crash, Exit, Goes, Quiet
  <2>2. [Fresh EXCEPT !.at = "gone"].at = "gone"
    BY DEF Fresh
  <2> QED
    BY <2>1, <2>2 DEF Rests
<1> QED
  BY <1>3, <1>4, <1>5, <1>6

\* The BMC takes what it holds and is then ready.
LEMMA BmcIsReady == kcs \in InterfaceState /\ BmcTakes => kcs'.ibf = FALSE
  BY DEF BmcTakes, TakesCommand, TakesData, Runs, Errs, InterfaceState

\* A step of the BMC runs at most the request it holds.
LEMMA BmcKeepsExchange ==
    ASSUME DriverInv, RunInv, \A p \in Programs : ReadInv(p), TakenInv, BmcTakes
    PROVE  RunInv' /\ (\A p \in Programs : ReadInv(p)') /\ TakenInv'
<1>1. /\ kcs \in InterfaceState /\ ran \in Seq(Seq(Words)) /\ asked \subseteq Requests
      /\ UNCHANGED <<prog, lock, asked, accepted>>
  BY DEF DriverInv, Typed, BmcTakes
<1>2. ASSUME NEW p \in Programs
      PROVE  ReadInv(p)'
  <2>1. ASSUME NEW q, prog[p] = q, InExchange(p)
        PROVE  Reading(q)'
    BY <1>2, <2>1, BmcKeepsReading DEF ReadInv
  <2>2. \A q : prog'[p] = q /\ InExchange(p)' => Reading(q)'
    BY <1>1, <2>1 DEF InExchange
  <2>3. InExchange(p)' => Reading(prog[p])'
    BY <2>2
  <2> QED
    BY <2>3 DEF ReadInv
<1>3. \A r : HasRun(r) => HasRun(r)'
  <2>1. ran' = ran \/ \E got : ran' = Append(ran, got)
    BY <1>1, BmcRuns DEF Runs
  <2> QED
    BY <1>1, <2>1, RanGrows
<1>4. TakenInv'
  <2>1. \A r, rx : Whole(r, rx) => Whole(r, rx)'
    BY <1>3 DEF Whole
  <2> QED
    BY <1>1, <2>1 DEF TakenInv, InExchange
<1>5. ~Held'
  BY <1>1, BmcIsReady DEF Held
<1>6. CASE ran' = ran
  <2>1. \A r : HasRun(r)' = HasRun(r)
    BY <1>6 DEF HasRun
  <2>2. \A k \in 1..Len(ran') : \E r \in asked' : ran'[k] = Bytes(r)
    BY <1>1, <1>6 DEF RunInv
  <2>3. \A j, k \in 1..Len(ran') : ran'[j] = ran'[k] => j = k
    BY <1>6 DEF RunInv
  <2>4. \A p \in Programs : InExchange(p)' /\ ~Written(prog[p])' => ~HasRun(prog[p].req)'
    BY <1>1, <1>6 DEF RunInv, InExchange, Written, Last, HasRun
  <2>5. RunInv'
    BY <1>5, <2>2, <2>3, <2>4 DEF RunInv
  <2> QED
    BY <1>2, <1>4, <2>5
<1>7. CASE Held /\ \E n \in ReplyLengths : Runs(n)
  <2>1. PICK r \in asked :
            /\ Append(kcs.got, kcs.in) = Bytes(r) /\ ~HasRun(r)
            /\ \A p \in Programs : InExchange(p) /\ prog[p].req = r => Written(prog[p])
    BY <1>7 DEF RunInv
  <2>2. ran' = Append(ran, Bytes(r)) /\ r \in Requests
    BY <1>1, <1>7, <2>1, RunsIs
  <2>3. /\ Len(ran) \in Nat /\ Len(ran') = Len(ran) + 1 /\ ran'[Len(ran) + 1] = Bytes(r)
        /\ \A k \in 1..Len(ran) : ran'[k] = ran[k]
        /\ \A k \in 1..Len(ran') : k = Len(ran) + 1 \/ k \in 1..Len(ran)
    <3>1. Bytes(r) \in Seq(Words)
      BY <2>2, BytesAre
    <3>2. /\ Len(ran) \in Nat /\ Len(ran') = Len(ran) + 1 /\ ran'[Len(ran) + 1] = Bytes(r)
          /\ \A k \in 1..Len(ran) : ran'[k] = ran[k]
      BY <1>1, <2>2, <3>1, AppendProperties
    <3> QED
      BY <3>2
  <2>4. \A k \in 1..Len(ran') : \E t \in asked' : ran'[k] = Bytes(t)
    BY <1>1, <2>3 DEF RunInv
  <2>5. \A k \in 1..Len(ran) : ran[k] # Bytes(r)
    BY <2>1 DEF HasRun
  <2>6. \A j, k \in 1..Len(ran') : ran'[j] = ran'[k] => j = k
    BY <2>3, <2>5 DEF RunInv
  <2>7. ASSUME NEW p \in Programs, InExchange(p), ~Written(prog[p]), NEW t, prog[p].req = t
        PROVE  ~HasRun(t)'
    <3>1. ~HasRun(t) /\ t # r
      BY <2>1, <2>7 DEF RunInv
    <3>2. t \in Requests
      BY <1>1, <2>7 DEF DriverInv, Progress
    <3>3. Bytes(t) # Bytes(r)
      BY <2>2, <3>1, <3>2, BytesAre
    <3> QED
      BY <2>3, <3>1, <3>3 DEF HasRun
  <2>8. ASSUME NEW p \in Programs, InExchange(p)', ~Written(prog[p])'
        PROVE  ~HasRun(prog[p].req)'
    <3>1. InExchange(p) /\ ~Written(prog[p])
      BY <1>1, <2>8 DEF InExchange, Written, Last
    <3>2. ASSUME NEW t, prog[p].req = t
          PROVE  ~HasRun(t)'
      BY <2>7, <3>1, <3>2
    <3>3. \A t : prog[p].req = t => ~HasRun(t)'
      BY <3>2
    <3>4. \A t : prog'[p].req = t => ~HasRun(t)'
      BY <1>1, <3>3
    <3> QED
      BY <3>4
  <2>9. RunInv'
    BY <1>5, <2>4, <2>6, <2>8 DEF RunInv
  <2> QED
    BY <1>2, <1>4, <2>9
<1> QED
  BY <1>1, <1>6, <1>7, BmcRuns

\* An access of a program.
LEMMA AccessKeepsExchange ==
    ASSUME DriverInv, DriverInv', ~Concurrent, ~SlowBytes, StepInv,
           RunInv, \A p \in Programs : ReadInv(p), TakenInv, NEW p \in Programs, Exchanges(p)
    PROVE  RunInv' /\ (\A o \in Programs : ReadInv(o)') /\ TakenInv'
<1>0. PICK q \in ProgramState, s \in ProgramState : prog[p] = q /\ prog'[p] = s
  BY DEF DriverInv, Typed
<1>1. /\ Quiet /\ Goes(p, s) /\ InExchange(p) /\ s.req = q.req /\ s.at \notin {"out", "gone", "ready"}
      /\ Written(q) => Written(s)
      /\ \/ /\ kcs'.ibf = kcs.ibf /\ kcs'.port = kcs.port /\ kcs'.state = kcs.state
            /\ kcs'.ending = kcs.ending /\ kcs'.got = kcs.got /\ kcs'.in = kcs.in
            /\ Written(s) => Written(q)
         \/ Write(p) \/ AskForNext(p)
  BY <1>0, ExchangesEffect
<1>2. UNCHANGED <<lock, asked, ran, accepted>> /\ (\A r : HasRun(r)' = HasRun(r))
  BY <1>1 DEF Quiet, HasRun
<1>3. \A o \in Programs \ {p} : ~InExchange(o)'
  <2>1. \A o \in Programs \ {p} : prog'[o] = prog[o] /\ prog[o].at \in {"out", "gone"}
    BY <1>1, OthersAreOut DEF StepInv, InExchange
  <2> QED
    BY <2>1 DEF InExchange
<1>4. InStep(p) /\ Reading(q)
  BY <1>0, <1>1 DEF StepInv, ReadInv
<1>5. Reading(s)'
  BY <1>0, <1>4, ExchangesKeepReading
<1>6. \A o \in Programs : ReadInv(o)'
  <2>1. \A x : prog'[p] = x => Reading(x)'
    BY <1>0, <1>5
  <2>2. Reading(prog[p])'
    BY <2>1
  <2> QED
    BY <1>3, <2>2 DEF ReadInv
<1>7. TakenInv'
  <2>1. \A r, rx : Whole(r, rx)' = Whole(r, rx)
    BY <1>2 DEF Whole
  <2> QED
    BY <1>0, <1>1, <1>2, <1>3, <2>1 DEF TakenInv
<1>8. ASSUME Held'
      PROVE  \E r \in asked : /\ Append(kcs'.got, kcs'.in) = Bytes(r) /\ ~HasRun(r)
                              /\ q.req = r => Written(s)
  <2>1. CASE /\ kcs'.ibf = kcs.ibf /\ kcs'.port = kcs.port /\ kcs'.state = kcs.state
             /\ kcs'.ending = kcs.ending /\ kcs'.got = kcs.got /\ kcs'.in = kcs.in
    <3>1. Held
      BY <1>8, <2>1 DEF Held
    <3>2. PICK r \in asked :
              /\ Append(kcs.got, kcs.in) = Bytes(r) /\ ~HasRun(r)
              /\ \A o \in Programs : InExchange(o) /\ prog[o].req = r => Written(prog[o])
      BY <3>1 DEF RunInv
    <3> QED
      BY <1>0, <1>1, <2>1, <3>2
  <2>2. CASE Write(p)
    <3>1. q.at = "write" /\ Goes(p, [q EXCEPT !.at = "sent"])
      BY <1>0, <2>2 DEF Write
    <3>2. s = [q EXCEPT !.at = "sent"]
      BY <1>0, <3>1 DEF Goes, DriverInv, Typed
    <3>3. s.at = "sent" /\ s.i = q.i /\ s.req = q.req /\ s.rx = q.rx
      BY <3>2 DEF ProgramState
    <3>4. kcs \in InterfaceState /\ q.req \in Requests /\ q.req \in asked
      BY <1>0, <1>1 DEF DriverInv, Typed, Progress
    <3>5. /\ q.req.len \in Nat /\ q.req.len >= 2 /\ Last(q) = q.req.len + 2 /\ q.i \in 1..Last(q)
      <4>1. q.i \in 0..Last(q) /\ q.i # 0
        BY <1>0, <1>1, <3>1 DEF DriverInv, Progress
      <4>2. q.req.len \in Nat /\ q.req.len >= 2 /\ Last(q) = q.req.len + 2
        BY <3>4, RequestType DEF Last
      <4> QED
        BY <4>1, <4>2
    <3>6. /\ kcs'.port = Ops(q.req)[q.i].port
          /\ kcs'.state = kcs.state /\ kcs'.ending = kcs.ending
      BY <1>0, <2>2, <3>4 DEF Write, Outb, InterfaceState
    <3>7. ~q.late
      BY <1>4, <3>1 DEF Reading, MayBeLate, Reads
    <3>8. q.i = Last(q)
      <4>1. CASE q.i = 1
        BY <1>8, <3>4, <3>6, <4>1, OpsParts DEF Held
      <4>2. CASE q.i > 1 /\ q.i < Last(q)
        <5>1. Taken(q.req, q.i - 1)
          BY <1>0, <1>1, <1>4, <3>1, <3>7, <4>2 DEF InStep
        <5>2. q.i - 1 # q.req.len + 1
          BY <3>5, <4>2
        <5> QED
          BY <1>8, <3>6, <5>1, <5>2 DEF Held, Taken
      <4> QED
        BY <3>5, <4>1, <4>2
    <3>9. Written(s)
      BY <3>3, <3>8 DEF Written, Last
    <3>10. Append(kcs'.got, kcs'.in) = Bytes(q.req)
      <4>1. s.at = "sent" /\ s.i = Last(s)
        BY <3>3, <3>8 DEF Last
      <4>2. \/ Pending(s.req, s.rx)' \/ Shows(s.req, s.rx)' \/ Fetches(s.req, s.rx)' \/ Ended(s.req, s.rx)'
            \/ Spoilt' \/ TooMany'
        BY <1>5, <4>1 DEF Reading
      <4>3. Pending(s.req, s.rx)'
        BY <1>8, <4>2 DEF Held, Shows, Holds, Fetches, Wanted, Ended, Over, Spoilt, TooMany
      <4> QED
        BY <3>3, <4>3 DEF Pending
    <3>11. ~HasRun(q.req)
      BY <1>0, <1>1, <3>1 DEF RunInv, Written
    <3> QED
      BY <3>4, <3>9, <3>10, <3>11
  <2>3. CASE AskForNext(p)
    <3>1. q.at = "next" /\ kcs'.state = kcs.state
      BY <1>0, <2>3 DEF AskForNext, Outb, DriverInv, Typed, InterfaceState
    <3>2. kcs.state \in {"read", "idle"}
      BY <1>4, <3>1 DEF Reading
    <3> QED
      BY <1>8, <3>1, <3>2 DEF Held
  <2> QED
    BY <1>1, <2>1, <2>2, <2>3
<1>9. RunInv'
  <2>1. \A k \in 1..Len(ran') : \E r \in asked' : ran'[k] = Bytes(r)
    BY <1>2 DEF RunInv
  <2>2. \A j, k \in 1..Len(ran') : ran'[j] = ran'[k] => j = k
    BY <1>2 DEF RunInv
  <2>3. Held' => \E r \in asked' :
                   /\ Append(kcs'.got, kcs'.in) = Bytes(r) /\ ~HasRun(r)'
                   /\ \A o \in Programs : InExchange(o)' /\ prog'[o].req = r => Written(prog'[o])
    BY <1>0, <1>1, <1>2, <1>3, <1>8
  <2>4. ~Written(s) => ~HasRun(q.req)
    BY <1>0, <1>1 DEF RunInv
  <2>5. ASSUME NEW o \in Programs, InExchange(o)', ~Written(prog[o])'
        PROVE  ~HasRun(prog[o].req)'
    <3>1. o = p /\ ~Written(s)
      BY <1>0, <1>3, <2>5 DEF Written, Last
    <3>2. ~HasRun(s.req)'
      BY <1>1, <1>2, <2>4, <3>1
    <3>3. \A x : prog'[p].req = x => ~HasRun(x)'
      BY <1>0, <3>2
    <3> QED
      BY <3>1, <3>3
  <2>6. \A o : Written(prog[o])' = Written(prog'[o])
    BY DEF Written, Last
  <2> QED
    BY <2>1, <2>2, <2>3, <2>5, <2>6 DEF RunInv
<1> QED
  BY <1>6, <1>7, <1>9

\* A step between exchanges.
LEMMA OtherKeepsExchange ==
    ASSUME DriverInv, DriverInv', ~Concurrent, StepInv,
           RunInv, \A p \in Programs : ReadInv(p), TakenInv, NEW p \in Programs,
           Start(p) \/ Command(p) \/ Return(p) \/ Close(p) \/ Crash(p)
    PROVE  RunInv' /\ (\A o \in Programs : ReadInv(o)') /\ TakenInv'
<1>1. /\ kcs' = kcs /\ ran' = ran
      /\ accepted' = accepted \/ Accepts(p)
      /\ \/ prog[p].at \notin {"out", "gone"}
         \/ \A o \in Programs : prog[o].at \in {"out", "gone"}
  BY OtherSteps
<1>2. PICK s : Goes(p, s) /\ (Begins(p, s) \/ Rests(s))
  BY OtherSteps
<1>3. /\ prog'[p] = s
      /\ \A o \in Programs \ {p} : prog'[o] = prog[o] /\ prog[o].at \in {"out", "gone"}
  BY <1>1, <1>2, OthersAreOut DEF StepInv
<1>4. /\ asked \subseteq asked' /\ asked' \subseteq Requests
      /\ InExchange(p)' => Begins(p, s)
      /\ Begins(p, s) => s.req \in asked' \ asked
  BY <1>2, <1>3 DEF Begins, Rests, InExchange, DriverInv, Typed
<1>5. \A o \in Programs : InExchange(o)' => o = p /\ Begins(p, s) /\ prog'[o].req = s.req
  BY <1>3, <1>4 DEF InExchange
<1>6. \A r : HasRun(r)' = HasRun(r)
  BY <1>1 DEF HasRun
<1>7. ~HasRun(s.req) \/ ~Begins(p, s)
  <2> SUFFICES ASSUME Begins(p, s), NEW k \in 1..Len(ran), ran[k] = Bytes(s.req)
               PROVE  FALSE
    BY DEF HasRun
  <2>1. PICK r \in asked : ran[k] = Bytes(r)
    BY DEF RunInv
  <2>2. r # s.req /\ r \in Requests /\ s.req \in Requests
    BY <1>4
  <2> QED
    BY <2>1, <2>2, BytesAre
<1>8. RunInv'
  <2>1. \A k \in 1..Len(ran') : \E r \in asked' : ran'[k] = Bytes(r)
    BY <1>1, <1>4 DEF RunInv
  <2>2. \A j, k \in 1..Len(ran') : ran'[j] = ran'[k] => j = k
    BY <1>1 DEF RunInv
  <2>3. ASSUME Held'
        PROVE  \E r \in asked' :
                   /\ Append(kcs'.got, kcs'.in) = Bytes(r) /\ ~HasRun(r)'
                   /\ \A o \in Programs : InExchange(o)' /\ prog'[o].req = r => Written(prog[o])'
    <3>1. Held
      BY <1>1, <2>3 DEF Held
    <3>2. PICK r \in asked : Append(kcs.got, kcs.in) = Bytes(r) /\ ~HasRun(r)
      BY <3>1 DEF RunInv
    <3>3. \A o \in Programs : InExchange(o)' => prog'[o].req # r
      BY <1>4, <1>5
    <3> QED
      BY <1>1, <1>4, <1>6, <3>2, <3>3
  <2>4. ASSUME NEW o \in Programs, InExchange(o)'
        PROVE  ~HasRun(prog[o].req)'
    <3>1. prog'[o].req = s.req /\ ~HasRun(s.req)'
      BY <1>5, <1>6, <1>7, <2>4
    <3>2. \A x : prog'[o].req = x => ~HasRun(x)'
      BY <3>1
    <3> QED
      BY <3>2
  <2> QED
    BY <2>1, <2>2, <2>3, <2>4 DEF RunInv
<1>9. \A o \in Programs : ReadInv(o)'
  <2>1. Begins(p, s) => Reading(s)'
    BY DEF Begins, Reading, Reads, Written
  <2>2. ASSUME NEW o \in Programs
        PROVE  ReadInv(o)'
    <3>1. \A x : prog'[o] = x /\ InExchange(o)' => Reading(x)'
      BY <1>3, <1>5, <2>1
    <3>2. InExchange(o)' => Reading(prog[o])'
      BY <3>1
    <3> QED
      BY <3>2 DEF ReadInv
  <2> QED
    BY <2>2
<1>10. TakenInv'
  <2>1. \A r, rx : Whole(r, rx)' = Whole(r, rx)
    BY <1>6 DEF Whole
  <2>2. CASE accepted' = accepted
    <3>1. \A k \in 1..Len(accepted') : accepted'[k].req \in asked'
      BY <1>4, <2>2 DEF TakenInv
    <3>2. \A j, k \in 1..Len(accepted') : accepted'[j].req = accepted'[k].req => j = k
      BY <2>2 DEF TakenInv
    <3>3. \A o \in Programs, k \in 1..Len(accepted') : InExchange(o)' => accepted'[k].req # prog'[o].req
      BY <1>4, <1>5, <2>2 DEF TakenInv
    <3>4. \A k \in 1..Len(accepted') : Whole(accepted[k].req, accepted[k].rx)'
      <4>1. \A k \in 1..Len(accepted') : \A r, rx : accepted'[k].req = r /\ accepted'[k].rx = rx => Whole(r, rx)'
        BY <2>1, <2>2 DEF TakenInv
      <4> QED
        BY <4>1
    <3> QED
      BY <3>1, <3>2, <3>3, <3>4 DEF TakenInv
  <2>3. CASE Accepts(p)
    <3> DEFINE a == [req |-> prog[p].req, rx |-> prog[p].rx]
               n == Len(accepted) + 1
    <3>1. prog[p].at = "done" /\ prog[p].rc = "ok" /\ accepted' = Append(accepted, a) /\ InExchange(p)
      BY <2>3 DEF Accepts, InExchange
    <3>2. a.req \in asked /\ Whole(a.req, a.rx)
      BY <3>1 DEF DriverInv, Progress, ReadInv, Reading
    <3>3. a.req = prog[p].req
      OBVIOUS
    <3> HIDE DEF a
    <3>4. /\ Len(accepted) \in Nat /\ Len(accepted') = n /\ accepted'[n] = a
          /\ \A k \in 1..Len(accepted) : accepted'[k] = accepted[k]
          /\ \A k \in 1..Len(accepted') : k = n \/ k \in 1..Len(accepted)
      BY <3>1 DEF DriverInv, Typed
    <3> HIDE DEF n
    <3>5. \A k \in 1..Len(accepted') : accepted'[k].req \in asked' /\ Whole(accepted'[k].req, accepted'[k].rx)
      BY <1>4, <3>2, <3>4 DEF TakenInv
    <3>6. \A k \in 1..Len(accepted) : accepted[k].req # a.req
      BY <3>1, <3>3 DEF TakenInv
    <3>7. \A j, k \in 1..Len(accepted') : accepted'[j].req = accepted'[k].req => j = k
      BY <3>4, <3>6 DEF TakenInv
    <3>8. \A o \in Programs, k \in 1..Len(accepted') : InExchange(o)' => accepted'[k].req # prog'[o].req
      <4>1. \A k \in 1..Len(accepted') : accepted'[k].req \in asked
        BY <3>2, <3>4 DEF TakenInv
      <4> QED
        BY <1>4, <1>5, <4>1
    <3>9. \A k \in 1..Len(accepted') : Whole(accepted[k].req, accepted[k].rx)'
      <4>1. \A k \in 1..Len(accepted') : \A r, rx : accepted'[k].req = r /\ accepted'[k].rx = rx => Whole(r, rx)'
        BY <2>1, <3>5
      <4> QED
        BY <4>1
    <3> QED
      BY <3>5, <3>7, <3>8, <3>9 DEF TakenInv
  <2> QED
    BY <1>1, <2>2, <2>3
<1> QED
  BY <1>8, <1>9, <1>10

\* Bytes, requests and answers stay together.
LEMMA ExchangeStep ==
    DriverInv /\ StepInv /\ ExchangeInv /\ [Next]_vars => ExchangeInv'
<1> SUFFICES ASSUME DriverInv, StepInv, ExchangeInv, [Next]_vars, ~Concurrent, ~SlowBytes
             PROVE  RunInv' /\ (\A p \in Programs : ReadInv(p)') /\ TakenInv'
  BY DEF ExchangeInv
<1>1. RunInv /\ (\A p \in Programs : ReadInv(p)) /\ TakenInv
  BY DEF ExchangeInv
<1>2. DriverInv'
  BY DriverStep
<1>3. CASE BmcTakes
  BY <1>1, <1>3, BmcKeepsExchange
<1>4. ASSUME NEW p \in Programs, Exchanges(p)
      PROVE  RunInv' /\ (\A o \in Programs : ReadInv(o)') /\ TakenInv'
  BY <1>1, <1>2, <1>4, AccessKeepsExchange
<1>5. ASSUME NEW p \in Programs, Start(p) \/ Command(p) \/ Return(p) \/ Close(p) \/ Crash(p)
      PROVE  RunInv' /\ (\A o \in Programs : ReadInv(o)') /\ TakenInv'
  BY <1>1, <1>2, <1>5, OtherKeepsExchange
<1>6. CASE UNCHANGED vars
  <2>1. UNCHANGED <<prog, kcs, asked, ran, accepted>>
    BY <1>6 DEF vars
  <2>2. \A r, rx : HasRun(r)' = HasRun(r) /\ Whole(r, rx)' = Whole(r, rx)
    BY <2>1 DEF HasRun, Whole
  <2>3. RunInv'
    BY <1>1, <2>1, <2>2 DEF RunInv, Held, InExchange, Written, Last, HasRun
  <2>4. TakenInv'
    BY <1>1, <2>1, <2>2 DEF TakenInv, InExchange, Whole, HasRun
  <2>5. ASSUME NEW p \in Programs
        PROVE  ReadInv(p)'
    <3>1. ASSUME NEW q, prog[p] = q, InExchange(p)
          PROVE  Reading(q)'
      <4>1. Reading(q)
        BY <1>1, <3>1 DEF ReadInv
      <4>2. \A n, k : Answers(q.req, n, q.rx, k)' = Answers(q.req, n, q.rx, k)
        BY <2>1, <2>2 DEF Answers
      <4>3. TooMany' = TooMany
        BY <2>1 DEF TooMany
      <4> QED
        BY <2>1, <2>2, <4>1, <4>2, <4>3, Untouched DEF Reading, Written, MayBeLate, Last
    <3>2. \A q : prog'[p] = q /\ InExchange(p)' => Reading(q)'
      BY <2>1, <3>1 DEF InExchange
    <3>3. InExchange(p)' => Reading(prog[p])'
      BY <3>2
    <3> QED
      BY <3>3 DEF ReadInv
  <2> QED
    BY <2>3, <2>4, <2>5
<1> QED
  BY <1>3, <1>4, <1>5, <1>6 DEF Next, Program

LEMMA ExchangeInvariant == Init /\ [][Next]_vars => [](DriverInv /\ StepInv /\ ExchangeInv)
<1>1. Init => ExchangeInv
  <2> SUFFICES ASSUME Init PROVE ExchangeInv
    OBVIOUS
  <2>1. (\A p \in Programs : ~InExchange(p)) /\ Len(ran) = 0 /\ Len(accepted) = 0 /\ ~kcs.ibf
    BY DEF Init, Fresh, InExchange
  <2> QED
    BY <2>1 DEF ExchangeInv, RunInv, ReadInv, TakenInv, Held
<1>2. DriverInv /\ StepInv /\ ExchangeInv /\ [Next]_vars => ExchangeInv'
  BY ExchangeStep
<1> QED
  BY <1>1, <1>2, StepInvariant, PTL

-----------------------------------------------------------------------------
(* Exchanges are those of Exchange.                                          *)

\* What ran and what was answered, as Exchange has them.
Mapped(begun, run) ==
    [i \in DOMAIN run |-> IF \E r \in begun : run[i] = Bytes(r) THEN CHOOSE r \in begun : run[i] = Bytes(r)
                                                                ELSE NoRequest]
Named(taken) == [i \in DOMAIN taken |-> IF IsAnswer(taken[i]) THEN taken[i].req ELSE NoRequest]

AllBegun(begun, run) == \A k \in 1..Len(run) : \E r \in begun : run[k] = Bytes(r)

LEMMA MappedIs ==
    ASSUME NEW begun \in SUBSET Requests, NEW run \in Seq(Seq(Words)), AllBegun(begun, run)
    PROVE  /\ Mapped(begun, run) \in Seq(Requests) /\ Len(Mapped(begun, run)) = Len(run)
           /\ \A k \in 1..Len(run) : run[k] = Bytes(Mapped(begun, run)[k])
<1> DEFINE m == Mapped(begun, run)
<1>1. DOMAIN run = 1..Len(run) /\ Len(run) \in Nat
  OBVIOUS
<1>2. DOMAIN m = 1..Len(run)
  BY <1>1 DEF Mapped
<1>3. ASSUME NEW k \in 1..Len(run)
      PROVE  m[k] \in Requests /\ run[k] = Bytes(m[k])
  <2>1. \E r \in begun : run[k] = Bytes(r)
    BY DEF AllBegun
  <2>2. m[k] = CHOOSE r \in begun : run[k] = Bytes(r)
    BY <1>1, <2>1 DEF Mapped
  <2>3. (CHOOSE r \in begun : run[k] = Bytes(r)) \in begun /\ run[k] = Bytes(CHOOSE r \in begun : run[k] = Bytes(r))
    BY <2>1, Zenon
  <2> QED
    BY <2>2, <2>3
<1>4. m = [k \in 1..Len(run) |-> m[k]]
  BY <1>1 DEF Mapped
<1> HIDE DEF m
<1>5. m \in [1..Len(run) -> Requests]
  BY <1>3, <1>4
<1>6. m \in Seq(Requests) /\ Len(m) = Len(run)
  BY <1>1, <1>5
<1> QED
  BY <1>3, <1>6 DEF m

\* A function on 1..n is a sequence of n elements.
LEMMA SequenceOf ==
    ASSUME NEW S, NEW n \in Nat, NEW f \in [1..n -> S]
    PROVE  f \in Seq(S) /\ Len(f) = n
  OBVIOUS

LEMMA NamedIs ==
    ASSUME NEW taken \in Seq([req : Requests, rx : Seq(Data)]), \A k \in 1..Len(taken) : IsAnswer(taken[k])
    PROVE  /\ Named(taken) \in Seq(Requests) /\ Len(Named(taken)) = Len(taken)
           /\ \A k \in 1..Len(taken) : Named(taken)[k] = taken[k].req
<1>1. DOMAIN taken = 1..Len(taken) /\ Len(taken) \in Nat
  OBVIOUS
<1>2. ASSUME NEW k \in 1..Len(taken)
      PROVE  Named(taken)[k] = taken[k].req /\ taken[k].req \in Requests
  <2>1. taken[k] \in [req : Requests, rx : Seq(Data)] /\ k \in DOMAIN taken
    BY <1>1, ElementOfSeq
  <2>2. taken[k].req \in Requests
    BY <2>1
  <2>3. Named(taken)[k] = taken[k].req
    BY <2>1 DEF Named
  <2> QED
    BY <2>2, <2>3
<1>3. Named(taken) = [k \in 1..Len(taken) |-> Named(taken)[k]]
  BY <1>1 DEF Named
<1>4. Named(taken) \in [1..Len(taken) -> Requests]
  <2>1. \A k \in 1..Len(taken) : Named(taken)[k] \in Requests
    BY <1>2
  <2> QED
    BY <1>3, <2>1
<1>5. Named(taken) \in Seq(Requests) /\ Len(Named(taken)) = Len(taken)
  BY <1>1, <1>4, SequenceOf, Zenon
<1> QED
  BY <1>2, <1>5

\* Requests with the same bytes are the same, whatever more was begun since.
LEMMA MappedGrows ==
    ASSUME NEW begun \in SUBSET Requests, NEW more \in SUBSET Requests,
           NEW run \in Seq(Seq(Words)), NEW after \in Seq(Seq(Words)),
           AllBegun(begun, run), AllBegun(more, after)
    PROVE  /\ after = run => Mapped(more, after) = Mapped(begun, run)
           /\ \A r \in Requests : after = Append(run, Bytes(r)) =>
                  Mapped(more, after) = Append(Mapped(begun, run), r)
<1> DEFINE old == Mapped(begun, run)
           new == Mapped(more, after)
<1>1. /\ old \in Seq(Requests) /\ Len(old) = Len(run) /\ \A k \in 1..Len(run) : run[k] = Bytes(old[k])
      /\ new \in Seq(Requests) /\ Len(new) = Len(after) /\ \A k \in 1..Len(after) : after[k] = Bytes(new[k])
  BY MappedIs
<1> HIDE DEF old, new
<1>2. \A r \in Requests, s \in Requests : Bytes(r) = Bytes(s) => r = s
  BY BytesAre
<1>3. ASSUME after = run
      PROVE  new = old
  <2>1. \A k \in 1..Len(old) : new[k] = old[k]
    BY <1>1, <1>2, <1>3
  <2> QED
    BY <1>1, <1>3, <2>1, SeqEqual
<1>4. ASSUME NEW r \in Requests, after = Append(run, Bytes(r))
      PROVE  new = Append(old, r)
  <2>0. Bytes(r) \in Seq(Words)
    BY BytesAre
  <2>1. /\ Len(run) \in Nat /\ Len(after) = Len(run) + 1 /\ after[Len(run) + 1] = Bytes(r)
        /\ \A k \in 1..Len(run) : after[k] = run[k]
    BY <1>4, <2>0, AppendProperties
  <2>2. /\ Append(old, r) \in Seq(Requests) /\ Len(Append(old, r)) = Len(old) + 1
        /\ Append(old, r)[Len(old) + 1] = r /\ \A k \in 1..Len(old) : Append(old, r)[k] = old[k]
    BY <1>1, AppendProperties
  <2>3. ASSUME NEW k \in 1..Len(new)
        PROVE  new[k] = Append(old, r)[k]
    <3>1. new[k] \in Requests /\ k \in 1..Len(after) /\ after[k] = Bytes(new[k])
      BY <1>1
    <3>2. CASE k = Len(run) + 1
      BY <1>1, <1>2, <2>1, <2>2, <3>1, <3>2
    <3>3. CASE k # Len(run) + 1
      <4>1. k \in 1..Len(run)
        BY <2>1, <3>1, <3>3
      <4>2. old[k] \in Requests /\ Bytes(new[k]) = Bytes(old[k])
        BY <1>1, <2>1, <3>1, <4>1
      <4>3. new[k] = old[k]
        BY <1>2, <3>1, <4>2
      <4> QED
        BY <1>1, <2>2, <4>1, <4>3
    <3> QED
      BY <3>2, <3>3
  <2> QED
    BY <1>1, <2>1, <2>2, <2>3, SeqEqual
<1> QED
  BY <1>3, <1>4 DEF old, new

LEMMA NamedGrows ==
    ASSUME NEW taken \in Seq([req : Requests, rx : Seq(Data)]), NEW after \in Seq([req : Requests, rx : Seq(Data)]),
           \A k \in 1..Len(taken) : IsAnswer(taken[k]), \A k \in 1..Len(after) : IsAnswer(after[k]),
           NEW a, after = Append(taken, a)
    PROVE  Named(after) = Append(Named(taken), a.req)
<1> DEFINE old == Named(taken)
           new == Named(after)
<1>1. /\ old \in Seq(Requests) /\ Len(old) = Len(taken) /\ \A k \in 1..Len(taken) : old[k] = taken[k].req
      /\ new \in Seq(Requests) /\ Len(new) = Len(after) /\ \A k \in 1..Len(after) : new[k] = after[k].req
  BY NamedIs
<1> HIDE DEF old, new
<1>2. /\ Len(taken) \in Nat /\ Len(after) = Len(taken) + 1 /\ after[Len(taken) + 1] = a
      /\ \A k \in 1..Len(taken) : after[k] = taken[k]
  OBVIOUS
<1>3. a.req \in Requests
  <2>1. Len(taken) + 1 \in 1..Len(after)
    BY <1>2
  <2>2. a \in [req : Requests, rx : Seq(Data)]
    BY <1>2, <2>1
  <2> QED
    BY <2>2
<1>4. /\ Append(old, a.req) \in Seq(Requests) /\ Len(Append(old, a.req)) = Len(old) + 1
      /\ Append(old, a.req)[Len(old) + 1] = a.req /\ \A k \in 1..Len(old) : Append(old, a.req)[k] = old[k]
  BY <1>1, <1>3, AppendProperties
<1>5. ASSUME NEW k \in 1..Len(new)
      PROVE  new[k] = Append(old, a.req)[k]
  <2>1. k \in 1..Len(after) /\ new[k] = after[k].req
    BY <1>1
  <2>2. CASE k = Len(taken) + 1
    BY <1>1, <1>2, <1>4, <2>1, <2>2
  <2>3. CASE k # Len(taken) + 1
    <3>1. k \in 1..Len(taken)
      BY <1>2, <2>1, <2>3
    <3> QED
      BY <1>1, <1>2, <1>4, <2>1, <3>1
  <2> QED
    BY <2>2, <2>3
<1> QED
  BY <1>1, <1>2, <1>4, <1>5, SeqEqual DEF old, new

\* A step as one of Exchange.
LEMMA IsAsk ==
    ASSUME NEW r \in Requests \ asked, asked' = asked \cup {r},
           Mapped(asked, ran)' = Mapped(asked, ran), Named(accepted)' = Named(accepted)
    PROVE  X!Next
  BY DEF X!Next, X!Ask, Mapped, Named, AsRequest

LEMMA IsRun ==
    ASSUME NEW r \in asked, asked' = asked, r \in Requests,
           r \notin {Mapped(asked, ran)[i] : i \in DOMAIN Mapped(asked, ran)},
           Mapped(asked, ran)' = Append(Mapped(asked, ran), r), Named(accepted)' = Named(accepted)
    PROVE  X!Next
  BY DEF X!Next, X!Run, X!Range, Mapped, Named, AsRequest

LEMMA IsAnswerStep ==
    ASSUME NEW r \in Requests, asked' = asked \/ \E new \in Requests \ asked : asked' = asked \cup {new},
           r \in {Mapped(asked, ran)[i] : i \in DOMAIN Mapped(asked, ran)},
           r \notin {Named(accepted)[i] : i \in DOMAIN Named(accepted)},
           Mapped(asked, ran)' = Mapped(asked, ran), Named(accepted)' = Append(Named(accepted), r)
    PROVE  X!Next
  BY DEF X!Next, X!Answer, X!Range, Mapped, Named, AsRequest

LEMMA IsStutter ==
    ASSUME asked' = asked, ran' = ran, accepted' = accepted
    PROVE  UNCHANGED X!vars
  BY DEF X!vars, AsRequest

\* Each step is one of Exchange, or leaves what it speaks of.
LEMMA ExchangeStepIs ==
    ASSUME DriverInv, DriverInv', ~Concurrent, StepInv,
           RunInv, RunInv', \A p \in Programs : ReadInv(p), TakenInv, TakenInv', [Next]_vars
    PROVE  X!Next \/ UNCHANGED X!vars
<1>1. /\ kcs \in InterfaceState /\ asked \in SUBSET Requests /\ asked' \in SUBSET Requests
      /\ ran \in Seq(Seq(Words)) /\ ran' \in Seq(Seq(Words))
      /\ accepted \in Seq([req : Requests, rx : Seq(Data)]) /\ accepted' \in Seq([req : Requests, rx : Seq(Data)])
  BY DEF DriverInv, Typed
<1>2. AllBegun(asked, ran) /\ AllBegun(asked', ran')
  BY DEF RunInv, AllBegun
<1>3. /\ \A k \in 1..Len(accepted) : IsAnswer(accepted[k])
      /\ \A k \in 1..Len(accepted') : IsAnswer(accepted'[k])
  <2>1. \A k \in 1..Len(accepted) : \E n \in ReplyLengths : accepted[k].rx = Reply(Bytes(accepted[k].req), n)
    BY DEF TakenInv, Whole
  <2>2. \A k \in 1..Len(accepted') : \E n \in ReplyLengths : accepted'[k].rx = Reply(Bytes(accepted'[k].req), n)
    BY DEF TakenInv, Whole
  <2> QED
    BY <2>1, <2>2 DEF IsAnswer
<1> DEFINE m == Mapped(asked, ran)
           a == Named(accepted)
<1>4. /\ m \in Seq(Requests) /\ Len(m) = Len(ran) /\ \A k \in 1..Len(ran) : ran[k] = Bytes(m[k])
  BY <1>1, <1>2, MappedIs
<1>5. /\ a \in Seq(Requests) /\ Len(a) = Len(accepted) /\ \A k \in 1..Len(accepted) : a[k] = accepted[k].req
  BY <1>1, <1>3, NamedIs
<1>6. Mapped(asked, ran)' = Mapped(asked', ran') /\ Named(accepted)' = Named(accepted')
  <2>1. Mapped(asked, ran)' = Mapped(asked', ran')
    BY DEF Mapped
  <2>2. Named(accepted)' = Named(accepted')
    BY DEF Named
  <2> QED
    BY <2>1, <2>2
<1>7. /\ ran' = ran => Mapped(asked, ran)' = m
      /\ \A r \in Requests : ran' = Append(ran, Bytes(r)) => Mapped(asked, ran)' = Append(m, r)
      /\ accepted' = accepted => Named(accepted)' = a
  <2>1. /\ ran' = ran => Mapped(asked', ran') = m
        /\ \A r \in Requests : ran' = Append(ran, Bytes(r)) => Mapped(asked', ran') = Append(m, r)
    BY <1>1, <1>2, MappedGrows
  <2>2. accepted' = accepted => Named(accepted') = a
    OBVIOUS
  <2> HIDE DEF m, a
  <2> QED
    BY <1>6, <2>1, <2>2
<1>8. \A r \in Requests : HasRun(r) <=> r \in {m[i] : i \in DOMAIN m}
  <2>1. \A r \in Requests, s \in Requests : Bytes(r) = Bytes(s) => r = s
    BY BytesAre
  <2>2. DOMAIN m = 1..Len(ran) /\ \A k \in 1..Len(ran) : m[k] \in Requests
    BY <1>4
  <2> HIDE DEF m
  <2> QED
    BY <1>4, <2>1, <2>2 DEF HasRun
<1>9. CASE BmcTakes
  <2>1. asked' = asked /\ accepted' = accepted
    BY <1>9 DEF BmcTakes
  <2>2. CASE ran' = ran
    BY <2>1, <2>2, IsStutter
  <2>3. CASE Held /\ \E n \in ReplyLengths : Runs(n)
    <3>1. PICK r \in asked : Append(kcs.got, kcs.in) = Bytes(r) /\ ~HasRun(r)
      BY <2>3 DEF RunInv
    <3>2. r \in Requests /\ ran' = Append(ran, Bytes(r))
      BY <1>1, <2>3, <3>1, RunsIs
    <3>3. r \notin {m[i] : i \in DOMAIN m}
      BY <1>8, <3>1, <3>2
    <3>4. Mapped(asked, ran)' = Append(m, r) /\ Named(accepted)' = a
      BY <1>7, <2>1, <3>2
    <3> QED
      BY <2>1, <3>2, <3>3, <3>4, IsRun
  <2> QED
    BY <1>1, <1>9, <2>2, <2>3, BmcRuns
<1>10. ASSUME NEW p \in Programs, Exchanges(p)
       PROVE  UNCHANGED X!vars
  <2>1. Quiet
    BY <1>10 DEF Exchanges, WaitForIbfClear, Drain, Write, GetWriteState, ClearObf, GetReadState, GetIdleState,
         WaitForObfSet, Take, AskForNext, TakeLast
  <2> QED
    BY <2>1, IsStutter DEF Quiet
<1>11. ASSUME NEW p \in Programs, Start(p) \/ Command(p) \/ Return(p) \/ Close(p) \/ Crash(p)
       PROVE  X!Next \/ UNCHANGED X!vars
  <2>1. ran' = ran /\ (accepted' = accepted \/ Accepts(p)) /\ \E s : Begins(p, s) \/ Rests(s)
    BY <1>11, OtherSteps
  <2>2. asked' = asked \/ \E new \in Requests \ asked : asked' = asked \cup {new}
    BY <2>1 DEF Begins, Rests
  <2>3. Mapped(asked, ran)' = m
    BY <1>7, <2>1
  <2>4. CASE accepted' = accepted
    <3>1. Named(accepted)' = a
      BY <1>7, <2>4
    <3>2. CASE asked' = asked
      BY <2>1, <2>4, <3>2, IsStutter
    <3>3. ASSUME NEW new \in Requests \ asked, asked' = asked \cup {new}
          PROVE  X!Next
      BY <2>3, <3>1, <3>3, IsAsk
    <3> QED
      BY <2>2, <3>2, <3>3
  <2>5. CASE Accepts(p)
    <3> DEFINE r == prog[p].req
               b == [req |-> prog[p].req, rx |-> prog[p].rx]
    <3>1. accepted' = Append(accepted, b) /\ b.req = r /\ prog[p].at = "done" /\ prog[p].rc = "ok" /\ InExchange(p)
      BY <2>5 DEF Accepts, InExchange
    <3> HIDE DEF b
    <3>2. r \in Requests /\ HasRun(r)
      <4>1. r \in asked
        BY <3>1 DEF DriverInv, Progress
      <4>2. Whole(r, prog[p].rx)
        BY <3>1 DEF ReadInv, Reading
      <4> QED
        BY <1>1, <4>1, <4>2 DEF Whole
    <3>3. Named(accepted)' = Append(a, r)
      <4>1. Named(accepted') = Append(a, b.req)
        BY <1>1, <1>3, <3>1, NamedGrows
      <4> QED
        BY <1>6, <3>1, <4>1
    <3>4. r \notin {a[i] : i \in DOMAIN a}
      <4>1. \A k \in 1..Len(accepted) : accepted[k].req # r
        BY <3>1 DEF TakenInv
      <4>2. DOMAIN a = 1..Len(accepted)
        BY <1>5
      <4> HIDE DEF a
      <4> QED
        BY <1>5, <4>1, <4>2
    <3>5. r \in {m[i] : i \in DOMAIN m}
      BY <1>8, <3>2
    <3> HIDE DEF r
    <3> QED
      BY <2>2, <2>3, <3>2, <3>3, <3>4, <3>5, IsAnswerStep
  <2> QED
    BY <2>1, <2>4, <2>5
<1>12. CASE UNCHANGED vars
  BY <1>12, IsStutter DEF vars
<1> QED
  BY <1>9, <1>10, <1>11, <1>12 DEF Next, Program

\* One program after the other, also after killed ones, and a BMC that is slow
\* only in running a request and giving its answer: nothing runs that was not
\* asked for, nothing twice, and what is taken for an answer is the whole answer
\* to that request, which has run.
THEOREM ImplementsExchange == ~Concurrent /\ ~SlowBytes /\ Spec => Implements
<1>1. CASE Concurrent \/ SlowBytes
  BY <1>1
<1>2. CASE ~Concurrent /\ ~SlowBytes
  <2>1. Init => X!Init
    <3> SUFFICES ASSUME Init PROVE X!Init
      OBVIOUS
    <3>1. ran = <<>> /\ accepted = <<>> /\ asked = {}
      BY DEF Init
    <3> QED
      BY <3>1 DEF X!Init
  <2>2. /\ DriverInv /\ StepInv /\ ExchangeInv /\ DriverInv' /\ ExchangeInv' /\ [Next]_vars
        => [X!Next]_(X!vars)
    <3> SUFFICES ASSUME DriverInv, StepInv, ExchangeInv, DriverInv', ExchangeInv', [Next]_vars
                 PROVE  X!Next \/ UNCHANGED X!vars
      BY Zenon
    <3>1. /\ RunInv /\ RunInv' /\ (\A p \in Programs : ReadInv(p)) /\ TakenInv /\ TakenInv'
      BY <1>2 DEF ExchangeInv
    <3> QED
      BY <1>2, <3>1, ExchangeStepIs
  <2> QED
    BY <2>1, <2>2, ExchangeInvariant, PTL DEF Spec, Implements, X!Spec
<1> QED
  BY <1>1, <1>2

=============================================================================
