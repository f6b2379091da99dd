--------------------------- MODULE LanplusSol_proofs ---------------------------
(***************************************************************************)
(* Proofs about LanplusSol: nothing that is typed or shown gets lost, comes    *)
(* twice or out of order, on a network that loses packets but keeps their      *)
(* order, for any number of sequence numbers, tries, characters, packets in    *)
(* flight and partial acknowledgements.                                        *)
(***************************************************************************)
EXTENDS LanplusSol, SequenceTheorems, TLAPS

Inputs == PacketsOver(MaxTyped)
Outputs == PacketsOver(MaxMade)

-----------------------------------------------------------------------------
(* The output: BMC to console.                                             *)

\* p carries characters that wait to be acknowledged: tx is what the BMC waits
\* for, a how many characters were acknowledged before.
Waits(tx) == tx.len > 0
IsCurrent(p, tx) == Waits(tx) /\ p.seq = tx.seq
Current(p, tx, a) == p.data = Chars(a + 1, Len(p.data)) /\ Len(p.data) <= tx.len

\* p repeats what the console has had, and remembers in l.
Old(p, l) == p.seq = l.seq /\ Len(p.data) = l.count

\* The packets on their way to the console: repetitions, and then what waits,
\* each at least as long as the one before.
Stream(c, l, tx, a) ==
    /\ \A k \in DOMAIN c : c[k].seq # 0 => IF IsCurrent(c[k], tx) THEN Current(c[k], tx, a) ELSE Old(c[k], l)
    /\ \A k, m \in DOMAIN c :
          k < m /\ IsCurrent(c[k], tx) /\ c[m].seq # 0
          => IsCurrent(c[m], tx) /\ Len(c[k].data) <= Len(c[m].data)

\* The console has had a part of what waits.
Heard(l, tx) == Waits(tx) /\ l.seq = tx.seq

HeardStream(c, l, tx) ==
    Heard(l, tx) =>
        /\ l.count <= tx.len
        /\ \A k \in DOMAIN c : c[k].seq # 0 => c[k].seq = tx.seq /\ l.count <= Len(c[k].data)

\* The acknowledgements on their way to the BMC.
Acknowledgements(d, l, tx) ==
    /\ \A k \in DOMAIN d : d[k].seq = 0 =>
          IF d[k].acked = l.seq THEN Heard(l, tx) => d[k].count <= l.count
          ELSE Heard(l, tx)
    /\ \A k, m \in DOMAIN d :
          k < m /\ d[k].seq = 0 /\ d[m].seq = 0 /\ d[k].acked = l.seq => d[m].acked = l.seq

\* How many characters the console has had.
Had(l, tx, a) == a + IF Heard(l, tx) THEN l.count ELSE 0

OutputInv ==
    /\ bmcAcked + bmcTx.len <= MaxMade
    /\ Waits(bmcTx) => bmcTx.seq # 0
    /\ ~ Waits(bmcTx) => last.seq = bmcTx.seq
    /\ Stream(toConsole, last, bmcTx, bmcAcked)
    /\ HeardStream(toConsole, last, bmcTx)
    /\ Acknowledgements(toBMC, last, bmcTx)
    /\ op = "break" => Broken
    /\ ~ Broken => printed = Chars(1, Had(last, bmcTx, bmcAcked))

-----------------------------------------------------------------------------
(* The input: console to BMC.                                              *)

Sending == pc \in {"send", "recv"}

\* What the BMC may still get: the packets on their way to it, and the one that
\* is being sent.
LineOf(c, p, b) == IF b THEN Append(c, p) ELSE c
Line == LineOf(toBMC, pkt, Sending)

\* Its last character.
End(p) == p.data[1] + Len(p.data) - 1

\* A packet of typed characters, of the first t.
IsInput(p, t) == Len(p.data) > 0 /\ p.data = Chars(p.data[1], Len(p.data)) /\ End(p) <= t

\* The packet k of c will be new to the BMC, which now has number s: it, or one
\* before it, has another number.
Live(c, s, k) == \E j \in 1..k : c[j].seq # 0 /\ c[j].seq # s

\* Copies of a packet follow each other, and what is new to the BMC is in order.
Ordered(c, s) ==
    /\ \A j, m, k \in DOMAIN c : j < m /\ m < k /\ c[m].seq # 0 /\ c[j].seq # 0 /\ c[j] = c[k] => c[m] = c[j]
    /\ \A j, k \in DOMAIN c :
          j < k /\ c[j].seq # 0 /\ c[k].seq # 0 /\ Live(c, s, j) => c[j] = c[k] \/ End(c[j]) < c[k].data[1]

\* What is new to the BMC is behind what it has; what is not, it has had, but
\* for the part that it did not accept.
Behind(c, rx, in) ==
    \A k \in DOMAIN c : c[k].seq # 0 =>
        \A i \in DOMAIN in : in[i] < c[k].data[1] + IF Live(c, rx.seq, k) THEN 0 ELSE rx.count

\* The packets c of characters up to t, when the BMC has in, and rx of the last.
InputsOver(c, rx, in, t) ==
    /\ \A k \in DOMAIN c : c[k].seq # 0 => IsInput(c[k], t)
    /\ Ordered(c, rx.seq)
    /\ Behind(c, rx, in)
    /\ \A i, j \in DOMAIN in : i < j => in[i] < in[j]
    /\ \A i \in DOMAIN in : in[i] <= t

InputsInv == InputsOver(Line, bmcRx, bmcIn, typed)

\* The packet being sent is the only one with its number; what acknowledges it
\* says what the BMC made of it, and nothing else is on its way.
GenuineInv ==
    Sending =>
        /\ \A k \in DOMAIN toBMC : toBMC[k].seq = pkt.seq => toBMC[k] = pkt
        /\ \A i \in DOMAIN toConsole : toConsole[i].acked = pkt.seq =>
              /\ bmcRx.seq = pkt.seq /\ toConsole[i].count = bmcRx.count
              /\ \A k \in DOMAIN toBMC : toBMC[k].seq # 0 => toBMC[k].seq = pkt.seq

\* As long as every send was acknowledged, one packet is on its way at a time.
AllAckedInv ==
    allAcked =>
        IF Sending
        THEN /\ End(pkt) = typed
             /\ IF bmcRx.seq = pkt.seq
                THEN /\ bmcRx.count <= Len(pkt.data) /\ bmcIn = Chars(1, pkt.data[1] - 1 + bmcRx.count)
                     /\ \A k \in DOMAIN toBMC : toBMC[k].seq # 0 => toBMC[k].seq = pkt.seq
                ELSE /\ bmcIn = Chars(1, pkt.data[1] - 1)
                     /\ \A k \in DOMAIN toBMC : toBMC[k].seq \in {0, bmcRx.seq} \/ toBMC[k] = pkt
        ELSE /\ bmcRx.seq = pkt.seq /\ bmcIn = Chars(1, typed)
             /\ \A k \in DOMAIN toBMC : toBMC[k].seq \in {0, pkt.seq}

\* Every input took the number that follows, and no other packet took one.
Calm == drift = FALSE /\ extras = <<>>

InputInv == Calm => op = "data" /\ InputsInv /\ GenuineInv /\ AllAckedInv

\* The counter follows the packets, and no packet is longer than what was typed.
NumbersInv ==
    /\ sequence_number = pkt.seq + 1
    /\ Sending => pkt.seq # 0
    /\ Len(pkt.data) <= MaxTyped
    /\ \A k \in DOMAIN toBMC : Len(toBMC[k].data) <= MaxTyped

SolInv == TypeOK /\ NumbersInv /\ OutputInv /\ InputInv

-----------------------------------------------------------------------------
(* Sequences of packets.                                                   *)

\* A channel without its first packet.
LEMMA HeadGone ==
    ASSUME NEW S, NEW c \in Seq(S), 1 \in DOMAIN c
    PROVE  LET d == RemoveAt(c, 1)
           IN /\ d \in Seq(S) /\ Len(d) \in Nat /\ Len(c) = Len(d) + 1
              /\ DOMAIN d = 1..Len(d) /\ DOMAIN c = 1..(Len(d) + 1)
              /\ \A k \in DOMAIN d : k + 1 \in DOMAIN c /\ d[k] = c[k + 1]
<1> DEFINE n == Len(c)
           e == SubSeq(c, 2, n)
           d == RemoveAt(c, 1)
<1>1. n \in Nat /\ DOMAIN c = 1..n /\ n > 0
  BY LenProperties
<1>2. e \in Seq(S) /\ Len(e) = n - 1 /\ \A k \in 1..(n - 1) : e[k] = c[k + 1]
  BY <1>1
<1>3. SubSeq(c, 1, 0) = <<>>
  BY <1>1
<1>4. d = <<>> \o e
  BY <1>3 DEF RemoveAt
<1> HIDE DEF e
<1>5. d = e
  BY <1>2, <1>4
<1> HIDE DEF d, n
<1>6. Len(d) = n - 1 /\ d \in Seq(S) /\ DOMAIN d = 1..Len(d)
  BY <1>2, <1>5
<1>7. n = Len(d) + 1 /\ Len(d) \in Nat
  BY <1>1, <1>2, <1>5
<1>8. \A k \in DOMAIN d : k + 1 \in DOMAIN c /\ d[k] = c[k + 1]
  BY <1>1, <1>2, <1>5, <1>6, <1>7
<1> QED
  BY <1>1, <1>6, <1>7, <1>8 DEF d, n

\* A channel with one packet more.
LEMMA OneMore ==
    ASSUME NEW S, NEW c \in Seq(S), NEW p \in S
    PROVE  /\ Append(c, p) \in Seq(S) /\ Len(c) \in Nat
           /\ DOMAIN c = 1..Len(c) /\ DOMAIN Append(c, p) = 1..(Len(c) + 1)
           /\ \A k \in DOMAIN c : Append(c, p)[k] = c[k]
           /\ Append(c, p)[Len(c) + 1] = p
OBVIOUS

\* What is sent arrives in the channel, or does not.
LEMMA SentIs ==
    ASSUME NEW c, NEW p, NEW d \in Sent(c, p) PROVE d = c \/ d = Append(c, p)
BY DEF Sent

LEMMA SentType ==
    ASSUME NEW S, NEW c \in Seq(S), NEW p \in S, NEW d \in Sent(c, p) PROVE d \in Seq(S)
BY SentIs, OneMore

\* A sequence without its first m elements.
LEMMA TailOf ==
    ASSUME NEW S, NEW s \in Seq(S), NEW m \in Nat PROVE SubSeq(s, m + 1, Len(s)) \in Seq(S)
OBVIOUS

\* And of the first m alone.
LEMMA FrontOf ==
    ASSUME NEW S, NEW s \in Seq(S), NEW m \in Nat, m <= Len(s)
    PROVE  /\ SubSeq(s, 1, m) \in Seq(S) /\ Len(SubSeq(s, 1, m)) = m
           /\ \A k \in 1..m : SubSeq(s, 1, m)[k] = s[k]
OBVIOUS

\* Runs of characters.
LEMMA CharsAre ==
    ASSUME NEW f \in Nat \ {0}, NEW n \in Nat
    PROVE  /\ Chars(f, n) \in Seq(Nat \ {0}) /\ Len(Chars(f, n)) = n /\ DOMAIN Chars(f, n) = 1..n
           /\ \A k \in 1..n : Chars(f, n)[k] = f + k - 1
<1>1. DOMAIN Chars(f, n) = 1..n /\ \A k \in 1..n : Chars(f, n)[k] = f + k - 1
  BY DEF Chars
<1>2. \A k \in 1..n : f + k - 1 \in Nat \ {0}
  OBVIOUS
<1>3. Chars(f, n) \in Seq(Nat \ {0}) /\ Len(Chars(f, n)) = n
  BY <1>2 DEF Chars
<1> QED
  BY <1>1, <1>3

\* Runs that are equal where they have a place.
LEMMA SameChars ==
    ASSUME NEW S, NEW s \in Seq(S), NEW f \in Nat, NEW n \in Nat,
           Len(s) = n, \A k \in 1..n : s[k] = f + k - 1
    PROVE  s = Chars(f, n)
<1>1. s = [k \in 1..n |-> s[k]]
  OBVIOUS
<1> QED
  BY <1>1 DEF Chars

\* A run up to m.
LEMMA CharsUpTo ==
    ASSUME NEW f \in Nat \ {0}, NEW n \in Nat, NEW m \in Nat, f + n - 1 <= m
    PROVE  Chars(f, n) \in Seq(1..m)
<1>1. \A k \in 1..n : f + k - 1 \in 1..m
  OBVIOUS
<1> QED
  BY <1>1 DEF Chars

\* Two runs, one behind the other, are one.
LEMMA JoinChars ==
    ASSUME NEW f \in Nat \ {0}, NEW m \in Nat, NEW n \in Nat
    PROVE  Chars(f, m) \o Chars(f + m, n) = Chars(f, m + n)
<1> DEFINE x == Chars(f, m)
           y == Chars(f + m, n)
           P == Nat \ {0}
<1>1. /\ x \in Seq(P) /\ Len(x) = m /\ \A k \in 1..m : x[k] = f + k - 1
      /\ y \in Seq(P) /\ Len(y) = n /\ \A k \in 1..n : y[k] = f + m + k - 1
  <2>1. f + m \in Nat \ {0}
    OBVIOUS
  <2> QED
    BY <2>1, CharsAre
<1> HIDE DEF x, y, P
<1>2. x \o y \in Seq(P) /\ Len(x \o y) = m + n
  BY <1>1, ConcatProperties
<1>3. \A k \in 1..(m + n) : (x \o y)[k] = f + k - 1
  <2>1. SUFFICES ASSUME NEW k \in 1..(m + n) PROVE (x \o y)[k] = f + k - 1
    OBVIOUS
  <2>2. (x \o y)[k] = IF k <= m THEN x[k] ELSE y[k - m]
    BY <1>1, ConcatProperties
  <2>3. CASE k <= m
    BY <1>1, <2>2, <2>3
  <2>4. CASE ~(k <= m)
    <3>1. k - m \in 1..n
      BY <2>4
    <3> QED
      BY <1>1, <2>2, <2>4, <3>1
  <2> QED
    BY <2>3, <2>4
<1>4. x \o y = Chars(f, m + n)
  <2> DEFINE z == x \o y
             l == m + n
  <2>1. z \in Seq(P) /\ l \in Nat /\ Len(z) = l /\ \A k \in 1..l : z[k] = f + k - 1
    BY <1>2, <1>3
  <2> HIDE DEF z, l
  <2>2. z = Chars(f, l)
    BY <2>1, SameChars
  <2> QED
    BY <2>2 DEF z, l
<1> QED
  BY <1>4 DEF x, y

\* The end of a run, and its beginning.
LEMMA PartOfChars ==
    ASSUME NEW f \in Nat \ {0}, NEW n \in Nat, NEW m \in Nat
    PROVE  /\ m <= n => SubSeq(Chars(f, n), m + 1, n) = Chars(f + m, n - m)
           /\ m <= n => SubSeq(Chars(f, n), 1, m) = Chars(f, m)
           /\ m >= n => SubSeq(Chars(f, n), m + 1, n) = <<>>
<1> DEFINE x == Chars(f, n)
           P == Nat \ {0}
<1>1. x \in Seq(P) /\ Len(x) = n /\ \A k \in 1..n : x[k] = f + k - 1
  BY CharsAre
<1> HIDE DEF x, P
<1>2. ASSUME m <= n PROVE SubSeq(x, m + 1, n) = Chars(f + m, n - m)
  <2> DEFINE y == SubSeq(x, m + 1, n)
  <2>1. y \in Seq(P) /\ Len(y) = n - m /\ \A k \in 1..(n - m) : y[k] = x[m + k]
    BY <1>1, <1>2
  <2>2. \A k \in 1..(n - m) : y[k] = f + m + k - 1
    BY <1>1, <1>2, <2>1
  <2> HIDE DEF y
  <2>3. n - m \in Nat /\ f + m \in Nat
    BY <1>2
  <2>4. y = Chars(f + m, n - m)
    BY <2>1, <2>2, <2>3, SameChars
  <2> QED
    BY <2>4 DEF y
<1>3. ASSUME m <= n PROVE SubSeq(x, 1, m) = Chars(f, m)
  <2> DEFINE y == SubSeq(x, 1, m)
  <2>1. y \in Seq(P) /\ Len(y) = m /\ \A k \in 1..m : y[k] = x[k]
    BY <1>1, <1>3
  <2>2. \A k \in 1..m : y[k] = f + k - 1
    BY <1>1, <1>3, <2>1
  <2> HIDE DEF y
  <2>3. y = Chars(f, m)
    BY <2>1, <2>2, SameChars
  <2> QED
    BY <2>3 DEF y
<1>4. ASSUME m >= n PROVE SubSeq(x, m + 1, n) = <<>>
  BY <1>1, <1>4
<1> QED
  BY <1>2, <1>3, <1>4 DEF x

-----------------------------------------------------------------------------
(* What a step does to the streams of the output.                          *)

Heads == [seq : SeqNums, count : 0..MaxMade]
Waitings == [seq : SeqNums, len : 0..MaxMade]

LEMMA SolTypes == SolSeqs \in Nat /\ SolSeqs > 1 /\ MaxMade \in Nat /\ MaxTyped \in Nat /\ 0 \in SeqNums
BY SolAssumption DEF SeqNums

LEMMA PacketTypes ==
    ASSUME NEW m \in Nat, NEW p \in PacketsOver(m)
    PROVE  /\ p.seq \in SeqNums /\ p.seq \in Nat /\ p.acked \in SeqNums /\ p.count \in Nat /\ p.stop \in BOOLEAN
           /\ p.data \in Seq(1..m) /\ Len(p.data) \in Nat
<1>1. p.seq \in SeqNums /\ p.acked \in SeqNums /\ p.count \in Nat /\ p.stop \in BOOLEAN /\ p.data \in Seq(1..m)
  BY DEF PacketsOver
<1> QED
  BY <1>1, SolTypes DEF SeqNums

LEMMA OutputTypes ==
    ASSUME NEW c \in Seq(Outputs), NEW k \in DOMAIN c
    PROVE  c[k] \in Outputs /\ c[k].seq \in Nat /\ Len(c[k].data) \in Nat
<1>1. c[k] \in Outputs
  OBVIOUS
<1> QED
  BY <1>1, PacketTypes, SolTypes DEF Outputs

\* The first packet leaves.
LEMMA StreamLoses ==
    ASSUME NEW c \in Seq(Outputs), 1 \in DOMAIN c, NEW l, NEW tx, NEW a,
           Stream(c, l, tx, a), HeardStream(c, l, tx)
    PROVE  Stream(RemoveAt(c, 1), l, tx, a) /\ HeardStream(RemoveAt(c, 1), l, tx)
<1> DEFINE d == RemoveAt(c, 1)
<1>1. /\ Len(d) \in Nat /\ DOMAIN d = 1..Len(d) /\ DOMAIN c = 1..(Len(d) + 1)
      /\ \A k \in DOMAIN d : k + 1 \in DOMAIN c /\ d[k] = c[k + 1]
  BY HeadGone
<1> HIDE DEF d
<1>2. \A k, m \in DOMAIN d : k < m => k + 1 < m + 1
  BY <1>1
<1>3. Stream(d, l, tx, a)
  BY <1>1, <1>2 DEF Stream
<1>4. HeardStream(d, l, tx)
  BY <1>1 DEF HeardStream
<1> QED
  BY <1>3, <1>4 DEF d

\* A packet without characters is sent, or all that waits.
LEMMA StreamGains ==
    ASSUME NEW c \in Seq(Outputs), NEW p \in Outputs, NEW l \in Heads, NEW tx \in Waitings, NEW a \in Nat,
           Stream(c, l, tx, a), HeardStream(c, l, tx),
           p.seq = 0 \/ (IsCurrent(p, tx) /\ p.data = Chars(a + 1, tx.len)),
           NEW d \in Sent(c, p), Waits(tx) => tx.seq # 0
    PROVE  Stream(d, l, tx, a) /\ HeardStream(d, l, tx)
<1>1. CASE d = c
  BY <1>1
<1>2. CASE d = Append(c, p)
  <2> DEFINE n == Len(c)
  <2>1. /\ n \in Nat /\ DOMAIN c = 1..n /\ DOMAIN d = 1..(n + 1) /\ d[n + 1] = p
        /\ \A k \in DOMAIN c : d[k] = c[k]
    BY <1>2, OneMore
  <2>2. \A k \in DOMAIN d : k \in DOMAIN c \/ k = n + 1
    BY <2>1
  <2>3. \A k \in DOMAIN c : c[k].seq \in Nat /\ Len(c[k].data) \in Nat
    BY OutputTypes
  <2>4. tx.len \in Nat /\ l.count \in Nat
    BY SolTypes DEF Waitings, Heads
  <2>5. ASSUME p.seq # 0
        PROVE  IsCurrent(p, tx) /\ Len(p.data) = tx.len /\ Current(p, tx, a)
    <3>1. IsCurrent(p, tx) /\ p.data = Chars(a + 1, tx.len)
      BY <2>5
    <3>2. Len(Chars(a + 1, tx.len)) = tx.len
      <4>1. a + 1 \in Nat \ {0}
        OBVIOUS
      <4> QED
        BY <2>4, <4>1, CharsAre
    <3> QED
      BY <2>4, <3>1, <3>2 DEF Current
  <2> HIDE DEF n
  <2>6. \A k \in DOMAIN d : d[k].seq # 0 => IF IsCurrent(d[k], tx) THEN Current(d[k], tx, a) ELSE Old(d[k], l)
    BY <2>1, <2>2, <2>5 DEF Stream
  <2>7. \A k \in DOMAIN c : IsCurrent(c[k], tx) => Len(c[k].data) <= tx.len /\ c[k].seq # 0
    BY DEF Stream, Current, IsCurrent
  <2>8. \A k, m \in DOMAIN d :
           k < m /\ IsCurrent(d[k], tx) /\ d[m].seq # 0
           => IsCurrent(d[m], tx) /\ Len(d[k].data) <= Len(d[m].data)
    <3>1. SUFFICES ASSUME NEW k \in DOMAIN d, NEW m \in DOMAIN d, k < m, IsCurrent(d[k], tx), d[m].seq # 0
                   PROVE  IsCurrent(d[m], tx) /\ Len(d[k].data) <= Len(d[m].data)
      OBVIOUS
    <3>2. k \in DOMAIN c /\ d[k] = c[k]
      BY <2>1, <3>1
    <3>3. CASE m \in DOMAIN c
      BY <2>1, <3>1, <3>2, <3>3 DEF Stream
    <3>4. CASE m = n + 1
      BY <2>1, <2>5, <2>7, <3>1, <3>2, <3>4
    <3> QED
      BY <2>2, <3>3, <3>4
  <2>9. HeardStream(d, l, tx)
    <3>1. SUFFICES ASSUME Heard(l, tx)
                   PROVE  /\ l.count <= tx.len
                          /\ \A k \in DOMAIN d : d[k].seq # 0 => d[k].seq = tx.seq /\ l.count <= Len(d[k].data)
      BY DEF HeardStream
    <3>2. l.count <= tx.len /\ \A k \in DOMAIN c : c[k].seq # 0 => c[k].seq = tx.seq /\ l.count <= Len(c[k].data)
      BY <3>1 DEF HeardStream
    <3>3. p.seq # 0 => p.seq = tx.seq /\ l.count <= Len(p.data)
      BY <2>5, <3>2 DEF IsCurrent
    <3> QED
      BY <2>1, <2>2, <3>2, <3>3
  <2> QED
    BY <2>6, <2>8, <2>9 DEF Stream
<1> QED
  BY <1>1, <1>2, SentIs

\* The console gets the first packet, which has a part of what waits.
LEMMA StreamHears ==
    ASSUME NEW c \in Seq(Outputs), 1 \in DOMAIN c, NEW l \in Heads, NEW tx \in Waitings, NEW a \in Nat,
           Stream(c, l, tx, a), HeardStream(c, l, tx), IsCurrent(c[1], tx), tx.seq # 0
    PROVE  LET r == [seq |-> c[1].seq, count |-> Len(c[1].data)]
           IN /\ Stream(RemoveAt(c, 1), r, tx, a) /\ HeardStream(RemoveAt(c, 1), r, tx)
              /\ Heard(r, tx) /\ r.count <= tx.len /\ c[1].data = Chars(a + 1, r.count)
              /\ Heard(l, tx) => l.count <= r.count
<1> DEFINE d == RemoveAt(c, 1)
           r == [seq |-> c[1].seq, count |-> Len(c[1].data)]
<1>1. /\ Len(d) \in Nat /\ DOMAIN d = 1..Len(d) /\ DOMAIN c = 1..(Len(d) + 1)
      /\ \A k \in DOMAIN d : k + 1 \in DOMAIN c /\ d[k] = c[k + 1]
  BY HeadGone
<1> HIDE DEF d
<1>2. \A k, m \in DOMAIN d : k < m => k + 1 < m + 1
  BY <1>1
<1>3. \A k \in DOMAIN d : 1 < k + 1
  BY <1>1
<1>4. c[1].seq = tx.seq /\ Waits(tx) /\ c[1].seq # 0
  BY DEF IsCurrent
<1>5. Current(c[1], tx, a)
  BY <1>4 DEF Stream
<1>6. \A k \in DOMAIN d : d[k].seq # 0 => IsCurrent(d[k], tx) /\ r.count <= Len(d[k].data)
  BY <1>1, <1>3 DEF Stream
<1>7. Stream(d, r, tx, a)
  BY <1>1, <1>2, <1>6 DEF Stream
<1>8. HeardStream(d, r, tx)
  BY <1>5, <1>6 DEF HeardStream, Current, IsCurrent
<1>9. Heard(l, tx) => l.count <= r.count
  BY <1>4 DEF HeardStream
<1> QED
  BY <1>4, <1>5, <1>7, <1>8, <1>9 DEF d, Heard, Current

\* All that waits is acknowledged.
LEMMA StreamAcked ==
    ASSUME NEW c \in Seq(Outputs), NEW l \in Heads, NEW tx \in Waitings, NEW a \in Nat, NEW b,
           Stream(c, l, tx, a), HeardStream(c, l, tx), Heard(l, tx), l.count = tx.len
    PROVE  LET z == [tx EXCEPT !.len = 0]
           IN Stream(c, l, z, b) /\ HeardStream(c, l, z) /\ ~ Heard(l, z)
<1> DEFINE z == [tx EXCEPT !.len = 0]
<1>1. z.len = 0 /\ z.seq = tx.seq /\ tx.len \in Nat /\ tx.len > 0
  BY SolTypes DEF Waitings, Heard, Waits
<1> HIDE DEF z
<1>2. ~ Waits(z) /\ ~ Heard(l, z) /\ \A p : ~ IsCurrent(p, z)
  BY <1>1 DEF Waits, Heard, IsCurrent
<1>3. \A k \in DOMAIN c : c[k].seq # 0 => Old(c[k], l)
  <2>1. SUFFICES ASSUME NEW k \in DOMAIN c, c[k].seq # 0 PROVE Old(c[k], l)
    OBVIOUS
  <2>2. c[k].seq = tx.seq /\ l.count <= Len(c[k].data) /\ Waits(tx) /\ l.seq = tx.seq
    BY <2>1 DEF HeardStream, Heard
  <2>3. Len(c[k].data) <= tx.len
    BY <2>1, <2>2 DEF Stream, IsCurrent, Current
  <2>4. Len(c[k].data) \in Nat
    BY OutputTypes
  <2> DEFINE m == Len(c[k].data)
  <2>5. m = l.count
    <3>1. m \in Nat /\ m <= tx.len /\ l.count <= m /\ l.count = tx.len
      BY <2>2, <2>3, <2>4
    <3> HIDE DEF m
    <3> QED
      BY <1>1, <3>1
  <2> QED
    BY <2>2, <2>5 DEF Old
<1>4. Stream(c, l, z, b)
  BY <1>2, <1>3 DEF Stream
<1>5. HeardStream(c, l, z)
  BY <1>2 DEF HeardStream
<1> QED
  BY <1>2, <1>4, <1>5 DEF z

\* The BMC has more characters, under the number of those that wait, or under
\* a new one.
LEMMA StreamGrows ==
    ASSUME NEW c \in Seq(Outputs), NEW l \in Heads, NEW tx \in Waitings, NEW a \in Nat,
           Stream(c, l, tx, a), HeardStream(c, l, tx), NEW z \in Waitings, Waits(z), z.seq # 0, z.len >= tx.len,
           Waits(tx) => z.seq = tx.seq, ~ Waits(tx) => z.seq # l.seq
    PROVE  /\ Stream(c, l, z, a) /\ HeardStream(c, l, z)
           /\ Heard(l, z) <=> Heard(l, tx)
<1>1. tx.len \in Nat /\ z.len \in Nat
  BY SolTypes DEF Waitings
<1>2. \A k \in DOMAIN c : Len(c[k].data) \in Nat
  BY OutputTypes
<1>3. CASE Waits(tx)
  <2>1. \A p : IsCurrent(p, z) <=> IsCurrent(p, tx)
    BY <1>3 DEF IsCurrent
  <2>2. \A k \in DOMAIN c : Current(c[k], tx, a) => Current(c[k], z, a)
    BY <1>1, <1>2 DEF Current
  <2>3. Stream(c, l, z, a)
    BY <2>1, <2>2 DEF Stream
  <2>4. Heard(l, z) <=> Heard(l, tx)
    BY <1>3 DEF Heard
  <2>5. l.count \in Nat
    BY SolTypes DEF Heads
  <2>6. HeardStream(c, l, z)
    BY <1>1, <1>3, <2>4, <2>5 DEF HeardStream
  <2> QED
    BY <2>3, <2>4, <2>6
<1>4. CASE ~ Waits(tx)
  <2>1. \A p : ~ IsCurrent(p, tx)
    BY <1>4 DEF IsCurrent
  <2>2. \A k \in DOMAIN c : c[k].seq # 0 => Old(c[k], l)
    BY <2>1 DEF Stream
  <2>3. \A k \in DOMAIN c : c[k].seq # 0 => ~ IsCurrent(c[k], z)
    BY <1>4, <2>2 DEF Old, IsCurrent
  <2>4. ~ Heard(l, z) /\ ~ Heard(l, tx)
    BY <1>4 DEF Heard
  <2>5. \A k \in DOMAIN c : IsCurrent(c[k], z) => c[k].seq = 0
    BY <2>3
  <2>6. \A k, m \in DOMAIN c :
           k < m /\ IsCurrent(c[k], z) /\ c[m].seq # 0 => IsCurrent(c[m], z) /\ Len(c[k].data) <= Len(c[m].data)
    <3>1. z.seq # 0 => \A k \in DOMAIN c : ~ IsCurrent(c[k], z)
      BY <2>3 DEF IsCurrent
    <3> QED
      BY <3>1
  <2> QED
    BY <2>2, <2>3, <2>4, <2>6 DEF Stream, HeardStream
<1> QED
  BY <1>3, <1>4

\* The acknowledgements on their way to the BMC: the first packet leaves.
LEMMA AcksLose ==
    ASSUME NEW d \in Seq(Inputs), 1 \in DOMAIN d, NEW l, NEW tx, Acknowledgements(d, l, tx)
    PROVE  Acknowledgements(RemoveAt(d, 1), l, tx)
<1> DEFINE e == RemoveAt(d, 1)
<1>1. /\ Len(e) \in Nat /\ DOMAIN e = 1..Len(e) /\ DOMAIN d = 1..(Len(e) + 1)
      /\ \A k \in DOMAIN e : k + 1 \in DOMAIN d /\ e[k] = d[k + 1]
  BY HeadGone
<1> HIDE DEF e
<1>2. \A k, m \in DOMAIN e : k < m => k + 1 < m + 1
  BY <1>1
<1>3. Acknowledgements(e, l, tx)
  BY <1>1, <1>2 DEF Acknowledgements
<1> QED
  BY <1>3 DEF e

\* A packet of inputs is sent, or an acknowledgement of the last output.
LEMMA AcksGain ==
    ASSUME NEW d \in Seq(Inputs), NEW p \in Inputs, NEW l \in Heads, NEW tx \in Waitings, Acknowledgements(d, l, tx),
           p.seq # 0 \/ (p.acked = l.seq /\ p.count = l.count),
           NEW e \in Sent(d, p)
    PROVE  Acknowledgements(e, l, tx)
<1>1. CASE e = d
  BY <1>1
<1>2. CASE e = Append(d, p)
  <2> DEFINE n == Len(d)
  <2>1. /\ n \in Nat /\ DOMAIN d = 1..n /\ DOMAIN e = 1..(n + 1) /\ e[n + 1] = p
        /\ \A k \in DOMAIN d : e[k] = d[k]
    BY <1>2, OneMore
  <2>2. \A k \in DOMAIN e : k \in DOMAIN d \/ k = n + 1
    BY <2>1
  <2>3. l.count \in Nat
    BY SolTypes DEF Heads
  <2> HIDE DEF n
  <2>4. \A k \in DOMAIN e : e[k].seq = 0 =>
            IF e[k].acked = l.seq THEN Heard(l, tx) => e[k].count <= l.count ELSE Heard(l, tx)
    BY <2>1, <2>2, <2>3 DEF Acknowledgements
  <2>5. \A k, m \in DOMAIN e :
            k < m /\ e[k].seq = 0 /\ e[m].seq = 0 /\ e[k].acked = l.seq => e[m].acked = l.seq
    <3>1. SUFFICES ASSUME NEW k \in DOMAIN e, NEW m \in DOMAIN e, k < m, e[k].seq = 0, e[m].seq = 0, e[k].acked = l.seq
                   PROVE  e[m].acked = l.seq
      OBVIOUS
    <3>2. k \in DOMAIN d
      BY <2>1, <3>1
    <3>3. CASE m \in DOMAIN d
      BY <2>1, <3>1, <3>2, <3>3 DEF Acknowledgements
    <3>4. CASE m = n + 1
      BY <2>1, <3>1, <3>4
    <3> QED
      BY <2>2, <3>3, <3>4
  <2> QED
    BY <2>4, <2>5 DEF Acknowledgements
<1> QED
  BY <1>1, <1>2, SentIs

\* The console gets a part of what waits.
LEMMA AcksHear ==
    ASSUME NEW d \in Seq(Inputs), NEW l \in Heads, NEW tx \in Waitings, NEW r \in Heads, Acknowledgements(d, l, tx),
           Heard(r, tx), Heard(l, tx) => l.count <= r.count
    PROVE  Acknowledgements(d, r, tx)
<1>1. r.seq = tx.seq /\ Waits(tx) /\ l.count \in Nat /\ r.count \in Nat
  BY SolTypes DEF Heard, Heads
<1>2. CASE Heard(l, tx)
  <2>1. l.seq = r.seq
    BY <1>1, <1>2 DEF Heard
  <2>2. \A k \in DOMAIN d : d[k].count \in Nat
    <3>1. SUFFICES ASSUME NEW k \in DOMAIN d PROVE d[k].count \in Nat
      OBVIOUS
    <3>2. d[k] \in Inputs
      OBVIOUS
    <3> QED
      BY <3>2, PacketTypes, SolTypes DEF Inputs
  <2> QED
    BY <1>1, <1>2, <2>1, <2>2 DEF Acknowledgements
<1>3. CASE ~ Heard(l, tx)
  <2>1. l.seq # r.seq
    BY <1>1, <1>3 DEF Heard
  <2>2. \A k \in DOMAIN d : d[k].seq = 0 => d[k].acked = l.seq
    BY <1>3 DEF Acknowledgements
  <2> QED
    BY <2>1, <2>2 DEF Acknowledgements
<1> QED
  BY <1>2, <1>3

\* The BMC gets the acknowledgement of all that waits.
LEMMA AcksAcked ==
    ASSUME NEW d \in Seq(Inputs), 1 \in DOMAIN d, NEW l \in Heads, NEW tx \in Waitings, Acknowledgements(d, l, tx),
           d[1].seq = 0, d[1].acked = tx.seq, d[1].count = tx.len, Waits(tx),
           Heard(l, tx) => l.count <= tx.len
    PROVE  /\ Heard(l, tx) /\ l.count = tx.len
           /\ Acknowledgements(RemoveAt(d, 1), l, [tx EXCEPT !.len = 0])
<1> DEFINE e == RemoveAt(d, 1)
           z == [tx EXCEPT !.len = 0]
<1>1. /\ Len(e) \in Nat /\ DOMAIN e = 1..Len(e) /\ DOMAIN d = 1..(Len(e) + 1)
      /\ \A k \in DOMAIN e : k + 1 \in DOMAIN d /\ e[k] = d[k + 1]
  BY HeadGone
<1> HIDE DEF e
<1>2. Heard(l, tx)
  BY DEF Acknowledgements, Heard
<1>3. l.seq = tx.seq /\ d[1].count <= l.count /\ l.count <= tx.len /\ l.count \in Nat /\ tx.len \in Nat
  BY <1>2, SolTypes DEF Acknowledgements, Heard, Heads, Waitings
<1>4. l.count = tx.len
  BY <1>3
<1>5. ~ Heard(l, z)
  BY <1>3 DEF Heard, Waits, Waitings
<1>6. \A k \in DOMAIN e : e[k].seq = 0 => e[k].acked = l.seq
  <2>1. \A k \in DOMAIN e : 1 < k + 1
    BY <1>1
  <2> QED
    BY <1>1, <1>3, <2>1 DEF Acknowledgements
<1>7. Acknowledgements(e, l, z)
  BY <1>5, <1>6 DEF Acknowledgements
<1> QED
  BY <1>2, <1>4, <1>7 DEF e

\* What the BMC waits for changes, but not whether the console has had of it.
LEMMA AcksSame ==
    ASSUME NEW d, NEW l, NEW tx, NEW z, Acknowledgements(d, l, tx), Heard(l, z) <=> Heard(l, tx)
    PROVE  Acknowledgements(d, l, z)
BY DEF Acknowledgements

-----------------------------------------------------------------------------
(* The steps that matter to the output.                                    *)

StreamTypes ==
    /\ last \in Heads /\ printed \in Seq(1..MaxMade)
    /\ toBMC \in Seq(Inputs) /\ toConsole \in Seq(Outputs) /\ overtakes \in 0..MaxOvertakes
    /\ bmcTx \in Waitings /\ bmcAcked \in 0..MaxMade

\* What a step may do to the characters shown: nothing, or the next ones.
ShowsNext == printed' = printed \/ \E k \in (Len(printed) + 1)..bmcAcked + bmcTx.len : printed' = Chars(1, k)

\* On a network that keeps the order only the first packet arrives.
LEMMA FirstArrives ==
    ASSUME MaxOvertakes = 0, StreamTypes, NEW i, Arrives(i), Overtaken(i)
    PROVE  i = 1 /\ overtakes' \in 0..MaxOvertakes
BY DEF StreamTypes, Arrives, Overtaken

LEMMA AckIs ==
    ASSUME NEW s \in SeqNums, NEW n \in Nat
    PROVE  Ack(s, n) \in Inputs /\ Ack(s, n).seq = 0 /\ Ack(s, n).acked = s /\ Ack(s, n).count = n
<1>1. <<>> \in Seq(1..MaxTyped)
  OBVIOUS
<1> QED
  BY <1>1, SolTypes DEF Ack, Packet, Inputs, PacketsOver

\* ipmi_lanplus_recv_sol, and what it shows.
LEMMA ConsoleHears ==
    ASSUME MaxOvertakes = 0, StreamTypes, OutputInv, 1 \in DOMAIN toConsole, RecvSol(1),
           printed' = printed \o Fresh(toConsole[1]) \/ (Broken /\ printed' = printed),
           UNCHANGED <<bmcTx, bmcAcked, extras>>, op' = op
    PROVE  StreamTypes' /\ OutputInv' /\ (Broken \/ ShowsNext)
<1> DEFINE c == toConsole
           p == toConsole[1]
           e == RemoveAt(toConsole, 1)
           r == [seq |-> p.seq, count |-> Len(p.data)]
           a == bmcAcked
           tx == bmcTx
           l == last
           ack == Ack(p.seq, Len(p.data))
<1>1. /\ l \in Heads /\ tx \in Waitings /\ a \in Nat /\ a \in 0..MaxMade /\ c \in Seq(Outputs) /\ toBMC \in Seq(Inputs)
      /\ printed \in Seq(1..MaxMade)
  BY SolTypes DEF StreamTypes
<1>2. /\ p \in Outputs /\ p.seq \in SeqNums /\ p.seq \in Nat /\ Len(p.data) \in Nat /\ p.data \in Seq(1..MaxMade)
  BY <1>1, OutputTypes, PacketTypes, SolTypes DEF Outputs
<1>3. /\ Stream(c, l, tx, a) /\ HeardStream(c, l, tx) /\ Acknowledgements(toBMC, l, tx)
      /\ a + tx.len <= MaxMade /\ (Waits(tx) => tx.seq # 0) /\ (~ Waits(tx) => l.seq = tx.seq)
      /\ op = "break" => Broken
      /\ ~ Broken => printed = Chars(1, Had(l, tx, a))
  BY DEF OutputInv
<1>4. overtakes' \in 0..MaxOvertakes /\ toConsole' = e
  BY FirstArrives DEF RecvSol
<1>5. e \in Seq(Outputs) /\ Stream(e, l, tx, a) /\ HeardStream(e, l, tx)
  BY <1>1, <1>3, HeadGone, StreamLoses
<1>6. ack \in Inputs /\ ack.seq = 0 /\ ack.acked = p.seq /\ ack.count = Len(p.data)
  BY <1>2, AckIs
<1>7. l.count \in Nat /\ tx.len \in Nat /\ l.seq \in Nat
  BY <1>1, SolTypes DEF Heads, Waitings, SeqNums
<1>8. printed' \in Seq(1..MaxMade)
  <2>1. Fresh(p) \in Seq(1..MaxMade)
    <3>1. SubSeq(p.data, last.count + 1, Len(p.data)) \in Seq(1..MaxMade)
      BY <1>2, <1>7, TailOf
    <3>2. <<>> \in Seq(1..MaxMade)
      OBVIOUS
    <3> QED
      BY <1>2, <3>1, <3>2 DEF Fresh
  <2> QED
    BY <1>1, <2>1, ConcatProperties
<1>9. Broken' = Broken
  BY DEF Broken
<1>10. ASSUME NEW q \in Heads, last' = q, toBMC' \in Seq(Inputs), Stream(e, q, tx, a), HeardStream(e, q, tx),
              Acknowledgements(toBMC', q, tx), ~ Waits(tx) => q.seq = tx.seq,
              ~ Broken => printed' = Chars(1, Had(q, tx, a))
       PROVE  StreamTypes' /\ OutputInv'
  <2>1. StreamTypes'
    BY <1>1, <1>4, <1>5, <1>8, <1>10 DEF StreamTypes, Heads, Waitings, SeqNums, Inputs, Outputs, PacketsOver
  <2>2. OutputInv'
    BY <1>3, <1>4, <1>9, <1>10 DEF OutputInv
  <2> QED
    BY <2>1, <2>2
<1> HIDE DEF e, r, ack
\* No characters.
<1>11. CASE p.seq = 0
  <2>1. last' = l /\ toBMC' = toBMC
    BY <1>11 DEF RecvSol
  <2>2. printed' = printed
    <3>1. Fresh(p) = <<>>
      BY <1>11 DEF Fresh
    <3> QED
      BY <1>1, <3>1
  <2> QED
    BY <1>1, <1>3, <1>5, <1>10, <2>1, <2>2 DEF ShowsNext
<1>12. ASSUME p.seq # 0
       PROVE  last' = r /\ toBMC' \in Sent(toBMC, ack)
  BY <1>12 DEF RecvSol, r, ack
\* A repetition.
<1>13. CASE p.seq # 0 /\ ~ IsCurrent(p, tx)
  <2>1. Old(p, l)
    BY <1>3, <1>13 DEF Stream
  <2>2. r = l
    BY <1>1, <2>1 DEF r, Old, Heads
  <2>3. printed' = printed
    <3>1. Fresh(p) = <<>>
      BY <1>2, <1>7, <1>13, <2>1 DEF Fresh, Old
    <3> QED
      BY <1>1, <3>1
  <2>4. toBMC' \in Seq(Inputs) /\ Acknowledgements(toBMC', l, tx)
    <3>1. ack.acked = l.seq /\ ack.count = l.count
      BY <1>6, <2>1 DEF Old
    <3>2. Acknowledgements(toBMC', l, tx)
      BY <1>1, <1>3, <1>6, <1>12, <1>13, <3>1, AcksGain
    <3>3. toBMC' \in Seq(Inputs)
      BY <1>1, <1>6, <1>12, <1>13, SentType
    <3> QED
      BY <3>2, <3>3
  <2> QED
    BY <1>1, <1>3, <1>5, <1>10, <1>12, <1>13, <2>2, <2>3, <2>4 DEF ShowsNext
\* More of what waits.
<1>14. CASE p.seq # 0 /\ IsCurrent(p, tx)
  <2>1. tx.seq # 0 /\ Waits(tx)
    BY <1>14 DEF IsCurrent
  <2>2. /\ Stream(e, r, tx, a) /\ HeardStream(e, r, tx) /\ Heard(r, tx) /\ r.count <= tx.len
        /\ p.data = Chars(a + 1, r.count)
        /\ Heard(l, tx) => l.count <= r.count
    BY <1>1, <1>3, <1>14, <2>1, StreamHears DEF e, r
  <2>3. r \in Heads /\ r.count \in Nat /\ r.count = Len(p.data) /\ r.seq = p.seq
    <3>1. r.count \in Nat /\ r.count = Len(p.data) /\ r.seq = p.seq
      BY <1>2 DEF r
    <3>2. r.count \in 0..MaxMade
      BY <1>1, <1>3, <1>7, <2>2, <3>1, SolTypes
    <3> QED
      BY <1>2, <3>1, <3>2 DEF Heads, r
  <2>4. Acknowledgements(toBMC, r, tx)
    BY <1>1, <1>3, <2>2, <2>3, AcksHear
  <2>5. toBMC' \in Seq(Inputs) /\ Acknowledgements(toBMC', r, tx)
    <3>1. ack.acked = r.seq /\ ack.count = r.count
      BY <1>6, <2>3
    <3>2. Acknowledgements(toBMC', r, tx)
      BY <1>1, <1>6, <1>12, <1>14, <2>3, <2>4, <3>1, AcksGain
    <3>3. toBMC' \in Seq(Inputs)
      BY <1>1, <1>6, <1>12, <1>14, SentType
    <3> QED
      BY <3>2, <3>3
  <2>6. ASSUME ~ Broken
        PROVE  /\ printed' = Chars(1, a + r.count)
               /\ Len(printed) <= a + r.count /\ Len(printed) \in Nat
               /\ Len(printed) = a + r.count => printed' = printed
    <3> DEFINE h == IF Heard(l, tx) THEN l.count ELSE 0
    <3>1. h \in Nat /\ h <= r.count /\ a + h \in Nat /\ r.count - h \in Nat
      BY <1>1, <1>7, <2>2, <2>3
    <3>2. printed = Chars(1, a + h)
      BY <1>3, <2>6 DEF Had
    <3>3. Fresh(p) = SubSeq(p.data, h + 1, r.count)
      <4>1. CASE Heard(l, tx)
        <5>1. p.seq = l.seq /\ h = l.count
          BY <1>14, <4>1 DEF Heard, IsCurrent
        <5> QED
          BY <1>14, <2>3, <5>1 DEF Fresh
      <4>2. CASE ~ Heard(l, tx)
        <5>1. p.seq # l.seq /\ h = 0
          BY <1>14, <2>1, <4>2 DEF Heard, IsCurrent
        <5>2. Fresh(p) = p.data
          BY <1>14, <5>1 DEF Fresh
        <5>3. SubSeq(p.data, 1, Len(p.data)) = p.data
          BY <1>2
        <5> QED
          BY <2>3, <5>1, <5>2, <5>3
      <4> QED
        BY <4>1, <4>2
    <3> HIDE DEF h, r
    <3>4. Fresh(p) = Chars(a + 1 + h, r.count - h)
      <4> DEFINE f == a + 1
                 n == r.count
      <4>1. f \in Nat \ {0} /\ n \in Nat /\ h \in Nat /\ h <= n
        BY <1>1, <2>3, <3>1
      <4>2. Fresh(p) = SubSeq(Chars(f, n), h + 1, n)
        BY <2>2, <3>3
      <4> HIDE DEF f, n
      <4>3. Fresh(p) = Chars(f + h, n - h)
        BY <4>1, <4>2, PartOfChars
      <4> QED
        BY <4>3 DEF f, n
    <3>5. printed' = printed \o Fresh(p)
      BY <2>6
    <3>6. Chars(1, a + h) \o Chars(1 + (a + h), r.count - h) = Chars(1, (a + h) + (r.count - h))
      <4> DEFINE m == a + h
                 n == r.count - h
      <4>1. m \in Nat /\ n \in Nat /\ 1 \in Nat \ {0}
        BY <3>1
      <4> HIDE DEF m, n
      <4>2. Chars(1, m) \o Chars(1 + m, n) = Chars(1, m + n)
        BY <4>1, JoinChars
      <4> QED
        BY <4>2 DEF m, n
    <3>7. 1 + (a + h) = a + 1 + h /\ (a + h) + (r.count - h) = a + r.count
      <4> DEFINE b == r.count
      <4>1. a \in Nat /\ h \in Nat /\ b \in Nat
        BY <1>1, <2>3, <3>1
      <4> HIDE DEF a, b
      <4>2. 1 + (a + h) = a + 1 + h /\ (a + h) + (b - h) = a + b
        BY ONLY <4>1
      <4> QED
        BY <4>2 DEF b
    <3>8. printed' = Chars(1, a + r.count)
      BY <3>2, <3>4, <3>5, <3>6, <3>7
    <3>9. Len(printed) = a + h
      BY <3>1, <3>2, CharsAre
    <3> QED
      BY <1>1, <2>3, <3>1, <3>2, <3>8, <3>9
  <2>7. Had(r, tx, a) = a + r.count
    BY <2>2 DEF Had
  <2>8. StreamTypes' /\ OutputInv'
    BY <1>10, <1>12, <1>14, <2>1, <2>2, <2>3, <2>5, <2>6, <2>7
  <2>9. ~ Broken => ShowsNext
    <3>1. SUFFICES ASSUME ~ Broken, printed' # printed PROVE a + r.count \in (Len(printed) + 1)..(a + tx.len)
      BY <2>6 DEF ShowsNext
    <3> DEFINE m == Len(printed)
    <3>2. m \in Nat /\ m <= a + r.count /\ m # a + r.count
      BY <2>6, <3>1
    <3> HIDE DEF m
    <3>3. a + r.count \in (m + 1)..(a + tx.len)
      BY <1>1, <1>7, <2>2, <2>3, <3>2
    <3> QED
      BY <3>3 DEF m
  <2> QED
    BY <2>8, <2>9
<1> QED
  BY <1>11, <1>13, <1>14

\* The console sends a packet of the input, or nothing.
LEMMA ConsoleSends ==
    ASSUME StreamTypes, OutputInv,
           toBMC' = toBMC \/ (pkt \in Inputs /\ pkt.seq # 0 /\ toBMC' \in Sent(toBMC, pkt)),
           UNCHANGED <<last, printed, toConsole, overtakes, bmcTx, bmcAcked>>,
           Broken => Broken', op' = "break" => Broken'
    PROVE  StreamTypes' /\ OutputInv' /\ ShowsNext
<1>1. toBMC \in Seq(Inputs) /\ last \in Heads /\ bmcTx \in Waitings /\ Acknowledgements(toBMC, last, bmcTx)
  BY DEF StreamTypes, OutputInv
<1>2. toBMC' \in Seq(Inputs) /\ Acknowledgements(toBMC', last, bmcTx)
  <2>1. CASE toBMC' = toBMC
    BY <1>1, <2>1
  <2>2. CASE pkt \in Inputs /\ pkt.seq # 0 /\ toBMC' \in Sent(toBMC, pkt)
    BY <1>1, <2>2, SentType, AcksGain
  <2> QED
    BY <2>1, <2>2
<1>3. StreamTypes'
  BY <1>2 DEF StreamTypes, Heads, Waitings, SeqNums, Inputs, Outputs, PacketsOver
<1>4. OutputInv'
  BY <1>2 DEF OutputInv
<1> QED
  BY <1>3, <1>4 DEF ShowsNext

\* What the BMC may answer with.
LEMMA AnswerIs ==
    ASSUME StreamTypes, bmcAcked + bmcTx.len <= MaxMade, Waits(bmcTx) => bmcTx.seq # 0,
           NEW s \in SeqNums, NEW n \in Nat, NEW flag \in BOOLEAN,
           NEW p \in Answers(Packet(0, <<>>, s, n, flag))
    PROVE  /\ p \in Outputs /\ p.acked = s /\ p.count = n
           /\ p.seq = 0 \/ (IsCurrent(p, bmcTx) /\ p.data = Chars(bmcAcked + 1, bmcTx.len))
<1> DEFINE q == Packet(0, <<>>, s, n, flag)
           d == Chars(bmcAcked + 1, bmcTx.len)
<1>1. bmcTx.seq \in SeqNums /\ bmcTx.len \in Nat /\ bmcAcked \in Nat
  BY SolTypes DEF StreamTypes, Waitings
<1>2. <<>> \in Seq(1..MaxMade)
  OBVIOUS
<1>3. q = [seq |-> 0, data |-> <<>>, acked |-> s, count |-> n, stop |-> flag]
  BY DEF Packet
<1>4. q \in Outputs
  <2> HIDE DEF q
  <2> QED
    BY <1>2, <1>3, SolTypes DEF Outputs, PacketsOver
<1>5. CASE p = q
  BY <1>3, <1>4, <1>5
<1>6. CASE bmcTx.len > 0 /\ p = Pending(bmcTx.seq, bmcTx.len, q)
  <2>1. d \in Seq(1..MaxMade)
    <3>1. bmcAcked + 1 \in Nat \ {0}
      BY <1>1
    <3>2. bmcAcked + 1 + bmcTx.len - 1 <= MaxMade
      BY <1>1
    <3> QED
      BY <1>1, <3>1, <3>2, SolTypes, CharsUpTo
  <2>2. p = [seq |-> bmcTx.seq, data |-> d, acked |-> s, count |-> n, stop |-> flag]
    <3>1. p = [q EXCEPT !.seq = bmcTx.seq, !.data = d]
      BY <1>6 DEF Pending
    <3> HIDE DEF d, q
    <3> QED
      BY <1>3, <3>1
  <2> HIDE DEF d, q
  <2>3. p \in Outputs
    BY <1>1, <2>1, <2>2 DEF Outputs, PacketsOver
  <2>4. p.seq = bmcTx.seq /\ p.data = d /\ p.acked = s /\ p.count = n
    BY <2>2
  <2> QED
    BY <1>6, <2>3, <2>4 DEF IsCurrent, Waits, d
<1>7. p = q \/ (bmcTx.len > 0 /\ p = Pending(bmcTx.seq, bmcTx.len, q))
  BY DEF Answers
<1> QED
  BY <1>5, <1>6, <1>7

\* The BMC gets a packet of the input, and acknowledges it.
LEMMA BmcHears ==
    ASSUME MaxOvertakes = 0, StreamTypes, OutputInv, 1 \in DOMAIN toBMC, Overtaken(1), toBMC' = RemoveAt(toBMC, 1),
           NEW p \in Outputs, p.seq = 0 \/ (IsCurrent(p, bmcTx) /\ p.data = Chars(bmcAcked + 1, bmcTx.len)),
           toConsole' \in Sent(toConsole, p),
           UNCHANGED <<last, printed, bmcTx, bmcAcked, extras, op>>
    PROVE  StreamTypes' /\ OutputInv' /\ ShowsNext
<1>1. /\ toBMC \in Seq(Inputs) /\ toConsole \in Seq(Outputs) /\ last \in Heads /\ bmcTx \in Waitings /\ bmcAcked \in Nat
      /\ Acknowledgements(toBMC, last, bmcTx)
      /\ Stream(toConsole, last, bmcTx, bmcAcked) /\ HeardStream(toConsole, last, bmcTx)
      /\ Waits(bmcTx) => bmcTx.seq # 0
  BY SolTypes DEF StreamTypes, OutputInv
<1>2. toBMC' \in Seq(Inputs) /\ Acknowledgements(toBMC', last, bmcTx)
  BY <1>1, HeadGone, AcksLose
<1>3. toConsole' \in Seq(Outputs)
  BY <1>1, SentType
<1>4. Stream(toConsole', last, bmcTx, bmcAcked) /\ HeardStream(toConsole', last, bmcTx)
  BY <1>1, StreamGains
<1>5. overtakes' \in 0..MaxOvertakes
  BY DEF StreamTypes, Overtaken
<1>6. StreamTypes'
  BY <1>2, <1>3, <1>5 DEF StreamTypes, Heads, Waitings, SeqNums, Inputs, Outputs, PacketsOver
<1>7. Broken' = Broken
  BY DEF Broken
<1>8. OutputInv'
  BY <1>2, <1>4, <1>7 DEF OutputInv
<1> QED
  BY <1>6, <1>8 DEF ShowsNext

\* The BMC gets an acknowledgement.
LEMMA BmcIsAcked ==
    ASSUME MaxOvertakes = 0, StreamTypes, OutputInv, 1 \in DOMAIN toBMC, BmcAcked(1)
    PROVE  /\ StreamTypes' /\ OutputInv' /\ ShowsNext
           /\ bmcAcked' + bmcTx'.len = bmcAcked + bmcTx.len
<1> DEFINE p == toBMC[1]
           z == [bmcTx EXCEPT !.len = 0]
<1>1. /\ toBMC \in Seq(Inputs) /\ toConsole \in Seq(Outputs) /\ last \in Heads /\ bmcTx \in Waitings
      /\ bmcAcked \in Nat /\ bmcTx.len \in Nat
      /\ Acknowledgements(toBMC, last, bmcTx)
      /\ Stream(toConsole, last, bmcTx, bmcAcked) /\ HeardStream(toConsole, last, bmcTx)
      /\ Waits(bmcTx) => bmcTx.seq # 0
      /\ bmcAcked + bmcTx.len <= MaxMade
  BY SolTypes DEF StreamTypes, OutputInv, Waitings
<1>2. /\ Overtaken(1) /\ toBMC' = RemoveAt(toBMC, 1) /\ p.seq = 0
      /\ UNCHANGED <<last, printed, toConsole, extras, op>>
  BY DEF BmcAcked, console, control, history
<1>3. toBMC' \in Seq(Inputs) /\ Acknowledgements(toBMC', last, bmcTx)
  BY <1>1, <1>2, HeadGone, AcksLose
<1>4. overtakes' \in 0..MaxOvertakes
  BY <1>2 DEF StreamTypes, Overtaken
<1>5. Broken' = Broken
  BY <1>2 DEF Broken
<1>6. CASE bmcTx' = bmcTx /\ bmcAcked' = bmcAcked
  <2>1. StreamTypes'
    BY <1>2, <1>3, <1>4, <1>6 DEF StreamTypes, Heads, Waitings, SeqNums, Inputs, Outputs, PacketsOver
  <2>2. OutputInv'
    BY <1>2, <1>3, <1>5, <1>6 DEF OutputInv
  <2> QED
    BY <1>2, <1>6, <2>1, <2>2 DEF ShowsNext
<1>7. CASE p.acked = bmcTx.seq /\ p.count = bmcTx.len /\ bmcAcked' = bmcAcked + bmcTx.len /\ bmcTx' = z
  <2>1. CASE ~ Waits(bmcTx)
    <3>1. bmcTx.len = 0
      BY <1>1, <2>1 DEF Waits
    <3>2. z = bmcTx
      BY <1>1, <3>1 DEF Waitings
    <3> QED
      BY <1>1, <1>6, <1>7, <3>1, <3>2
  <2>2. CASE Waits(bmcTx)
    <3>1. Heard(last, bmcTx) => last.count <= bmcTx.len
      BY <1>1 DEF HeardStream
    <3>2. Heard(last, bmcTx) /\ last.count = bmcTx.len /\ Acknowledgements(toBMC', last, z)
      BY <1>1, <1>2, <1>7, <2>2, <3>1, AcksAcked
    <3>3. Stream(toConsole, last, z, bmcAcked') /\ HeardStream(toConsole, last, z) /\ ~ Heard(last, z)
      BY <1>1, <3>2, StreamAcked
    <3>4. z \in Waitings /\ z.len = 0 /\ z.seq = bmcTx.seq /\ ~ Waits(z)
      BY <1>1, SolTypes DEF Waitings, Waits
    <3>5. bmcAcked' \in 0..MaxMade
      BY <1>1, <1>7, SolTypes
    <3> HIDE DEF z
    <3>6. StreamTypes'
      BY <1>2, <1>3, <1>4, <1>7, <3>4, <3>5 DEF StreamTypes, Heads, SeqNums, Inputs, Outputs, PacketsOver
    <3>7. Had(last, z, bmcAcked') = Had(last, bmcTx, bmcAcked)
      <4>1. bmcAcked' + 0 = bmcAcked + last.count
        BY <1>1, <1>7, <3>2
      <4> QED
        BY <3>2, <3>3, <4>1 DEF Had
    <3>8. OutputInv'
      <4>1. bmcAcked' + z.len <= MaxMade
        BY <1>1, <1>7, <3>4
      <4>2. last.seq = z.seq
        BY <3>2, <3>4 DEF Heard
      <4> QED
        BY <1>2, <1>5, <1>7, <3>2, <3>3, <3>4, <3>7, <4>1, <4>2 DEF OutputInv
    <3> QED
      BY <1>1, <1>2, <1>7, <3>4, <3>6, <3>8 DEF ShowsNext
  <2> QED
    BY <2>1, <2>2
<1> QED
  BY <1>6, <1>7 DEF BmcAcked

\* The BMC makes characters, or repeats them.
LEMMA BmcMakes ==
    ASSUME StreamTypes, OutputInv, NEW n \in 1..MaxMade, BmcSend(n)
    PROVE  /\ StreamTypes' /\ OutputInv' /\ ShowsNext
           /\ bmcAcked' = bmcAcked /\ bmcTx'.len = n /\ n >= bmcTx.len
<1> DEFINE s == IF bmcTx.len = 0 THEN (bmcTx.seq % SolSeqs) + 1 ELSE bmcTx.seq
           z == [seq |-> s, len |-> n]
           p == Pending(s, n, Ack(0, 0))
<1>1. /\ toBMC \in Seq(Inputs) /\ toConsole \in Seq(Outputs) /\ last \in Heads /\ bmcTx \in Waitings
      /\ bmcAcked \in Nat /\ bmcTx.len \in Nat /\ n \in Nat /\ n > 0
      /\ Acknowledgements(toBMC, last, bmcTx)
      /\ Stream(toConsole, last, bmcTx, bmcAcked) /\ HeardStream(toConsole, last, bmcTx)
      /\ Waits(bmcTx) => bmcTx.seq # 0
      /\ ~ Waits(bmcTx) => last.seq = bmcTx.seq
  BY SolTypes DEF StreamTypes, OutputInv, Waitings
<1>2. /\ n >= bmcTx.len /\ bmcAcked + n <= MaxMade /\ bmcTx' = z /\ toConsole' \in Sent(toConsole, p)
      /\ UNCHANGED <<last, printed, op, toBMC, overtakes, bmcAcked, extras>>
  BY DEF BmcSend, console, control, history
<1>3. /\ s \in SeqNums /\ s # 0
      /\ Waits(bmcTx) => s = bmcTx.seq
      /\ ~ Waits(bmcTx) => s # last.seq
  <2>1. bmcTx.seq \in 0..SolSeqs
    BY <1>1 DEF Waitings, SeqNums
  <2>2. CASE bmcTx.len = 0
    <3> DEFINE b == bmcTx.seq
               r == b % SolSeqs
    <3>1. r \in 0..(SolSeqs - 1) /\ (b < SolSeqs => r = b) /\ (b = SolSeqs => r = 0)
      BY <2>1, SolTypes
    <3>2. s = r + 1 /\ b \in 0..SolSeqs
      BY <2>1, <2>2
    <3> HIDE DEF b, r, s
    <3>3. s \in 0..SolSeqs /\ s # 0 /\ s # b
      BY <3>1, <3>2, SolTypes
    <3>4. ~ Waits(bmcTx) /\ last.seq = b
      BY <1>1, <2>2 DEF Waits, b
    <3> QED
      BY <3>3, <3>4 DEF SeqNums
  <2>3. CASE bmcTx.len # 0
    <3>1. Waits(bmcTx) /\ s = bmcTx.seq
      BY <1>1, <2>3 DEF Waits
    <3> QED
      BY <1>1, <2>1, <3>1 DEF SeqNums
  <2> QED
    BY <2>2, <2>3
<1> HIDE DEF s
<1>4. z \in Waitings /\ Waits(z) /\ z.seq = s /\ z.len = n
  BY <1>1, <1>3 DEF Waitings, Waits
<1>5. p \in Outputs /\ IsCurrent(p, z) /\ p.data = Chars(bmcAcked + 1, n)
  <2> DEFINE d == Chars(bmcAcked + 1, n)
  <2>1. p = [seq |-> s, data |-> d, acked |-> 0, count |-> 0, stop |-> FALSE]
    <3> DEFINE q == Ack(0, 0)
    <3>1. p = [q EXCEPT !.seq = s, !.data = d]
      BY DEF Pending
    <3>2. q = [seq |-> 0, data |-> <<>>, acked |-> 0, count |-> 0, stop |-> FALSE]
      BY DEF Ack, Packet
    <3> HIDE DEF d, p, q
    <3> QED
      BY <3>1, <3>2
  <2>2. d \in Seq(1..MaxMade)
    <3>1. bmcAcked + 1 \in Nat \ {0}
      BY <1>1
    <3>2. bmcAcked + 1 + n - 1 <= MaxMade
      BY <1>1, <1>2
    <3> QED
      BY <1>1, <3>1, <3>2, SolTypes, CharsUpTo
  <2> HIDE DEF d, p
  <2>3. p \in Outputs
    BY <1>3, <2>1, <2>2, SolTypes DEF Outputs, PacketsOver
  <2>4. p.seq = s /\ p.data = d
    BY <2>1
  <2> QED
    BY <1>4, <2>3, <2>4 DEF IsCurrent, d
<1> HIDE DEF p, z
<1>6. Stream(toConsole, last, z, bmcAcked) /\ HeardStream(toConsole, last, z) /\ (Heard(last, z) <=> Heard(last, bmcTx))
  BY <1>1, <1>2, <1>3, <1>4, StreamGrows
<1>7. Stream(toConsole', last, z, bmcAcked) /\ HeardStream(toConsole', last, z)
  BY <1>1, <1>2, <1>3, <1>4, <1>5, <1>6, StreamGains
<1>8. toConsole' \in Seq(Outputs)
  BY <1>1, <1>2, <1>5, SentType
<1>9. Acknowledgements(toBMC, last, z)
  BY <1>1, <1>6, AcksSame
<1>10. StreamTypes'
  BY <1>1, <1>2, <1>4, <1>8 DEF StreamTypes, Heads, SeqNums, Inputs, Outputs, PacketsOver
<1>11. Had(last, z, bmcAcked) = Had(last, bmcTx, bmcAcked)
  BY <1>6 DEF Had
<1>12. Broken' = Broken
  BY <1>2 DEF Broken
<1>13. OutputInv'
  BY <1>2, <1>3, <1>4, <1>7, <1>9, <1>11, <1>12 DEF OutputInv
<1> QED
  BY <1>2, <1>4, <1>10, <1>13 DEF ShowsNext

-----------------------------------------------------------------------------
(* What a step does to the packets of the input.                            *)

Accepted == [seq : SeqNums, count : 0..MaxTyped, stop : BOOLEAN]

LEMMA InputTypes ==
    ASSUME NEW c \in Seq(Inputs), NEW k \in DOMAIN c
    PROVE  c[k] \in Inputs /\ c[k].seq \in Nat /\ Len(c[k].data) \in Nat /\ k \in Nat /\ k > 0
<1>1. c[k] \in Inputs /\ k \in Nat /\ k > 0
  OBVIOUS
<1> QED
  BY <1>1, PacketTypes, SolTypes DEF Inputs

LEMMA InputIs ==
    ASSUME NEW p \in Inputs, NEW t \in Nat, IsInput(p, t)
    PROVE  /\ p.data[1] \in Nat \ {0} /\ Len(p.data) \in Nat \ {0}
           /\ End(p) \in Nat /\ End(p) >= p.data[1] /\ End(p) <= t /\ End(p) + 1 = p.data[1] + Len(p.data)
           /\ \A i \in 1..Len(p.data) : p.data[i] = p.data[1] + i - 1
<1> DEFINE d == p.data
           f == p.data[1]
           n == Len(p.data)
<1>1. d \in Seq(1..MaxTyped) /\ n \in Nat /\ n > 0 /\ d = Chars(f, n) /\ End(p) = f + n - 1 /\ End(p) <= t
  BY PacketTypes, SolTypes DEF Inputs, IsInput, End
<1>2. f \in Nat \ {0}
  <2>1. d \in Seq(1..MaxTyped) /\ Len(d) \in Nat /\ Len(d) > 0
    BY <1>1
  <2> HIDE DEF d
  <2>2. 1 \in 1..Len(d)
    BY <2>1
  <2>3. d[1] \in 1..MaxTyped
    BY <2>1, <2>2, ElementOfSeq
  <2> QED
    BY <2>3, SolTypes DEF d
<1>3. \A i \in 1..n : d[i] = f + i - 1
  <2> HIDE DEF d, n, f
  <2> QED
    BY <1>1, <1>2, CharsAre
<1> HIDE DEF d, n, f
<1>4. n \in Nat \ {0} /\ End(p) \in Nat /\ End(p) >= f /\ End(p) + 1 = f + n
  BY <1>1, <1>2
<1> QED
  BY <1>1, <1>2, <1>3, <1>4 DEF d, n, f

\* The line m has the packets of characters of the line c, in their order, some
\* of them more than once, and without some of number s; h says which.
Follows(m, c, s, h) ==
    /\ \A k \in DOMAIN m : m[k].seq # 0 => h[k] \in DOMAIN c /\ m[k] = c[h[k]]
    /\ \A j, k \in DOMAIN m : j < k /\ m[j].seq # 0 /\ m[k].seq # 0 => h[j] <= h[k]
    /\ \A k \in DOMAIN m : \A j \in 1..h[k] :
          m[k].seq # 0 /\ c[j].seq # 0 /\ c[j].seq # s => \E i \in DOMAIN m : m[i].seq # 0 /\ h[i] = j

LEMMA SameData ==
    ASSUME NEW c \in Seq(Inputs), NEW m \in Seq(Inputs), NEW rx, NEW in, NEW t,
           InputsOver(c, rx, in, t), NEW h, Follows(m, c, rx.seq, h)
    PROVE  InputsOver(m, rx, in, t)
<1> USE DEF Follows
<1> DEFINE s == rx.seq
<1>1. /\ \A k \in DOMAIN m : k \in Nat /\ k > 0
      /\ \A k \in DOMAIN m : m[k].seq # 0 => h[k] \in DOMAIN c /\ h[k] \in Nat /\ h[k] > 0
      /\ \A k \in DOMAIN m : \A j \in 1..k : j \in DOMAIN m
      /\ \A k \in DOMAIN c : \A j \in 1..k : j \in DOMAIN c
  OBVIOUS
<1>2. ASSUME NEW k \in DOMAIN m, m[k].seq # 0 PROVE Live(m, s, k) <=> Live(c, s, h[k])
  <2>1. ASSUME Live(m, s, k) PROVE Live(c, s, h[k])
    <3>1. PICK j \in 1..k : m[j].seq # 0 /\ m[j].seq # s
      BY <2>1 DEF Live
    <3>2. j \in DOMAIN m /\ m[j] = c[h[j]]
      BY <1>1, <3>1
    <3>3. h[j] <= h[k]
      <4>1. CASE j = k
        BY <1>1, <1>2, <4>1
      <4>2. CASE j # k
        <5>1. j < k
          BY <1>1, <4>2
        <5> QED
          BY <1>2, <3>1, <3>2, <5>1
      <4> QED
        BY <4>1, <4>2
    <3>4. h[j] \in 1..h[k]
      BY <1>1, <1>2, <3>1, <3>2, <3>3
    <3> QED
      BY <3>1, <3>2, <3>4 DEF Live
  <2>2. ASSUME Live(c, s, h[k]) PROVE Live(m, s, k)
    <3>1. PICK j \in 1..h[k] : c[j].seq # 0 /\ c[j].seq # s
      BY <2>2 DEF Live
    <3>2. PICK i \in DOMAIN m : m[i].seq # 0 /\ h[i] = j
      BY <1>2, <3>1
    <3>3. m[i].seq # s
      BY <3>1, <3>2
    <3>4. CASE i <= k
      <4>1. i \in 1..k
        BY <1>1, <3>4
      <4> QED
        BY <3>2, <3>3, <4>1 DEF Live
    <3>5. CASE ~ (i <= k)
      <4>1. k < i
        BY <1>1, <3>5
      <4>2. h[k] <= h[i]
        BY <1>2, <3>2, <4>1
      <4>3. h[k] = h[i]
        <5>1. h[i] <= h[k]
          BY <1>1, <3>1, <3>2
        <5> QED
          BY <1>1, <1>2, <3>2, <4>2, <5>1
      <4>4. m[k].seq # s /\ k \in 1..k
        BY <1>1, <1>2, <3>2, <3>3, <4>3
      <4> QED
        BY <1>2, <4>4 DEF Live
    <3> QED
      BY <3>4, <3>5
  <2> QED
    BY <2>1, <2>2
<1>3. \A k \in DOMAIN m : m[k].seq # 0 => IsInput(m[k], t)
  BY <1>1 DEF InputsOver
<1>4. ASSUME NEW j \in DOMAIN m, NEW i \in DOMAIN m, NEW k \in DOMAIN m, j < i, i < k,
             m[i].seq # 0, m[j].seq # 0, m[j] = m[k]
      PROVE  m[i] = m[j]
  <2>1. m[k].seq # 0 /\ h[j] <= h[i] /\ h[i] <= h[k]
    BY <1>4
  <2>2. m[i] = c[h[i]] /\ m[j] = c[h[j]] /\ m[k] = c[h[k]]
    BY <1>4
  <2>3. CASE h[j] = h[i] \/ h[i] = h[k]
    BY <1>4, <2>2, <2>3
  <2>4. CASE ~ (h[j] = h[i] \/ h[i] = h[k])
    <3>1. h[j] < h[i] /\ h[i] < h[k] /\ h[j] \in DOMAIN c /\ h[i] \in DOMAIN c /\ h[k] \in DOMAIN c
      BY <1>1, <1>4, <2>1, <2>4
    <3>2. Ordered(c, s)
      BY DEF InputsOver
    <3>3. c[h[i]].seq # 0 /\ c[h[j]].seq # 0 /\ c[h[j]] = c[h[k]]
      BY <1>4, <2>2
    <3>4. c[h[i]] = c[h[j]]
      BY <3>1, <3>2, <3>3 DEF Ordered
    <3> QED
      BY <2>2, <3>4
  <2> QED
    BY <2>3, <2>4
<1>5. ASSUME NEW j \in DOMAIN m, NEW k \in DOMAIN m, j < k, m[j].seq # 0, m[k].seq # 0, Live(m, s, j)
      PROVE  m[j] = m[k] \/ End(m[j]) < m[k].data[1]
  <2>1. h[j] <= h[k] /\ m[j] = c[h[j]] /\ m[k] = c[h[k]] /\ Live(c, s, h[j])
    BY <1>2, <1>5
  <2>2. CASE h[j] = h[k]
    BY <2>1, <2>2
  <2>3. CASE h[j] # h[k]
    <3>1. h[j] < h[k] /\ h[j] \in DOMAIN c /\ h[k] \in DOMAIN c
      BY <1>1, <1>5, <2>1, <2>3
    <3>2. Ordered(c, s)
      BY DEF InputsOver
    <3>3. c[h[j]].seq # 0 /\ c[h[k]].seq # 0
      BY <1>5, <2>1
    <3>4. c[h[j]] = c[h[k]] \/ End(c[h[j]]) < c[h[k]].data[1]
      BY <2>1, <3>1, <3>2, <3>3 DEF Ordered
    <3> QED
      BY <2>1, <3>4
  <2> QED
    BY <2>2, <2>3
<1>6. Behind(m, rx, in)
  <2>1. SUFFICES ASSUME NEW k \in DOMAIN m, m[k].seq # 0, NEW i \in DOMAIN in
                 PROVE  in[i] < m[k].data[1] + IF Live(m, s, k) THEN 0 ELSE rx.count
    BY DEF Behind
  <2>2. m[k] = c[h[k]] /\ (Live(m, s, k) <=> Live(c, s, h[k]))
    BY <1>2, <2>1
  <2>3. in[i] < c[h[k]].data[1] + IF Live(c, s, h[k]) THEN 0 ELSE rx.count
    BY <1>1, <2>1, <2>2 DEF InputsOver, Behind
  <2> QED
    BY <2>2, <2>3
<1>7. Ordered(m, s)
  BY <1>4, <1>5 DEF Ordered
<1> QED
  BY <1>3, <1>6, <1>7 DEF InputsOver

\* A packet of the next characters, under a number that is not on its way.
LEMMA NewData ==
    ASSUME NEW c \in Seq(Inputs), NEW p \in Inputs, NEW rx \in Accepted, NEW in \in Seq(1..MaxTyped), NEW t \in Nat, NEW u \in Nat,
           InputsOver(c, rx, in, t), t <= u, IsInput(p, u), p.data[1] = t + 1,
           p.seq # 0, \A k \in DOMAIN c : c[k].seq # p.seq
    PROVE  InputsOver(Append(c, p), rx, in, u)
<1> DEFINE m == Append(c, p)
           n == Len(c)
           s == rx.seq
<1>1. /\ n \in Nat /\ DOMAIN c = 1..n /\ DOMAIN m = 1..(n + 1) /\ m[n + 1] = p
      /\ \A k \in DOMAIN c : m[k] = c[k]
  BY OneMore
<1> HIDE DEF m, n
<1>2. \A k \in DOMAIN m : k \in Nat /\ (k \in DOMAIN c \/ k = n + 1)
  BY <1>1
<1>3. \A k \in DOMAIN c : \A j \in 1..k : j \in DOMAIN c
  BY <1>1
<1>4. \A k \in DOMAIN c : Live(m, s, k) <=> Live(c, s, k)
  BY <1>1, <1>3 DEF Live
<1>5. \A k \in DOMAIN c : c[k].seq # 0 => IsInput(c[k], u) /\ End(c[k]) < p.data[1]
  <2>1. SUFFICES ASSUME NEW k \in DOMAIN c, c[k].seq # 0 PROVE IsInput(c[k], u) /\ End(c[k]) < p.data[1]
    OBVIOUS
  <2>2. IsInput(c[k], t) /\ c[k] \in Inputs
    BY <2>1, InputTypes DEF InputsOver
  <2>3. End(c[k]) <= t /\ End(c[k]) \in Nat
    BY <2>2, InputIs
  <2>4. End(c[k]) <= u /\ End(c[k]) < t + 1
    BY <2>3
  <2> QED
    BY <2>2, <2>4 DEF IsInput
<1>6. \A k \in DOMAIN m : m[k].seq # 0 => IsInput(m[k], u)
  BY <1>1, <1>2, <1>5
<1>7. Ordered(m, s)
  <2>1. ASSUME NEW j \in DOMAIN m, NEW i \in DOMAIN m, NEW k \in DOMAIN m, j < i, i < k,
               m[i].seq # 0, m[j].seq # 0, m[j] = m[k]
        PROVE  m[i] = m[j]
    <3>1. j \in DOMAIN c /\ i \in DOMAIN c
      BY <1>1, <2>1
    <3>2. k \in DOMAIN c
      BY <1>1, <1>2, <2>1, <3>1
    <3> QED
      BY <1>1, <2>1, <3>1, <3>2 DEF InputsOver, Ordered
  <2>2. ASSUME NEW j \in DOMAIN m, NEW k \in DOMAIN m, j < k, m[j].seq # 0, m[k].seq # 0, Live(m, s, j)
        PROVE  m[j] = m[k] \/ End(m[j]) < m[k].data[1]
    <3>1. j \in DOMAIN c /\ Live(c, s, j)
      <4>1. j \in DOMAIN c
        BY <1>1, <2>2
      <4> QED
        BY <1>4, <2>2, <4>1
    <3>2. CASE k \in DOMAIN c
      BY <1>1, <2>2, <3>1, <3>2 DEF InputsOver, Ordered
    <3>3. CASE k = n + 1
      BY <1>1, <1>5, <2>2, <3>1, <3>3
    <3> QED
      BY <1>2, <3>2, <3>3
  <2> QED
    BY <2>1, <2>2 DEF Ordered
<1>8. \A i \in DOMAIN in : in[i] \in Nat /\ in[i] <= t
  <2>1. \A i \in DOMAIN in : in[i] \in 1..MaxTyped
    <3>1. SUFFICES ASSUME NEW i \in DOMAIN in PROVE in[i] \in 1..MaxTyped
      OBVIOUS
    <3>2. i \in 1..Len(in)
      OBVIOUS
    <3> QED
      BY <3>2, ElementOfSeq
  <2> QED
    BY <2>1, SolTypes DEF InputsOver
<1>9. rx.count \in Nat
  BY SolTypes DEF Accepted
<1>10. Behind(m, rx, in)
  <2>1. SUFFICES ASSUME NEW k \in DOMAIN m, m[k].seq # 0, NEW i \in DOMAIN in
                 PROVE  in[i] < m[k].data[1] + IF Live(m, s, k) THEN 0 ELSE rx.count
    BY DEF Behind
  <2>2. CASE k \in DOMAIN c
    BY <1>1, <1>4, <2>1, <2>2 DEF InputsOver, Behind
  <2>3. CASE k = n + 1
    <3>1. in[i] < t + 1 /\ in[i] < t + 1 + rx.count
      BY <1>8, <1>9
    <3> QED
      BY <1>1, <2>3, <3>1
  <2> QED
    BY <1>2, <2>2, <2>3
<1>11. \A i \in DOMAIN in : in[i] <= u
  BY <1>8
<1> QED
  BY <1>6, <1>7, <1>10, <1>11 DEF InputsOver, m

\* The rest of the last packet takes its place, when all are repetitions.
LEMMA RestData ==
    ASSUME NEW c \in Seq(Inputs), NEW p \in Inputs, NEW q \in Inputs,
           NEW rx \in Accepted, NEW in \in Seq(1..MaxTyped), NEW t \in Nat,
           InputsOver(Append(c, p), rx, in, t), p.seq = rx.seq, p.seq # 0,
           \A k \in DOMAIN c : c[k].seq # 0 => c[k].seq = rx.seq,
           q.seq # 0, q.seq # rx.seq, IsInput(q, t), q.data[1] = p.data[1] + rx.count
    PROVE  InputsOver(Append(c, q), rx, in, t)
<1> DEFINE l == Append(c, p)
           m == Append(c, q)
           n == Len(c)
           s == rx.seq
<1>1. /\ n \in Nat /\ DOMAIN c = 1..n /\ DOMAIN m = 1..(n + 1) /\ m[n + 1] = q
      /\ \A k \in DOMAIN c : m[k] = c[k]
      /\ DOMAIN l = 1..(n + 1) /\ l[n + 1] = p
      /\ \A k \in DOMAIN c : l[k] = c[k]
  BY OneMore
<1> HIDE DEF l, m, n
<1>2. \A k \in DOMAIN m : k \in Nat /\ (k \in DOMAIN c \/ k = n + 1)
  BY <1>1
<1>3. \A k \in DOMAIN c : \A j \in 1..k : j \in DOMAIN c
  BY <1>1
<1>4. \A k \in DOMAIN c : ~ Live(m, s, k) /\ ~ Live(l, s, k)
  BY <1>1, <1>3 DEF Live
<1>5. \A k \in DOMAIN m : m[k].seq # 0 => IsInput(m[k], t)
  BY <1>1, <1>2 DEF InputsOver, l
<1>6. Ordered(m, s)
  <2>1. ASSUME NEW j \in DOMAIN m, NEW i \in DOMAIN m, NEW k \in DOMAIN m, j < i, i < k,
               m[i].seq # 0, m[j].seq # 0, m[j] = m[k]
        PROVE  m[i] = m[j]
    <3>1. j \in DOMAIN c /\ i \in DOMAIN c
      BY <1>1, <2>1
    <3>2. k \in DOMAIN c
      BY <1>1, <1>2, <2>1, <3>1
    <3>3. l[i] = l[j]
      <4>1. /\ l[i].seq # 0 /\ l[j].seq # 0 /\ l[j] = l[k]
            /\ i \in DOMAIN l /\ j \in DOMAIN l /\ k \in DOMAIN l
        BY <1>1, <2>1, <3>1, <3>2
      <4> QED
        BY <2>1, <4>1 DEF InputsOver, Ordered, l
    <3> QED
      BY <1>1, <3>1, <3>3
  <2>2. ASSUME NEW j \in DOMAIN m, NEW k \in DOMAIN m, j < k, Live(m, s, j) PROVE FALSE
    <3>1. j \in DOMAIN c
      BY <1>1, <2>2
    <3> QED
      BY <1>4, <2>2, <3>1
  <2> QED
    BY <2>1, <2>2 DEF Ordered
<1>7. ~ Live(l, s, n + 1)
  BY <1>1 DEF Live
<1>8. Behind(m, rx, in)
  <2>1. SUFFICES ASSUME NEW k \in DOMAIN m, m[k].seq # 0, NEW i \in DOMAIN in
                 PROVE  in[i] < m[k].data[1] + IF Live(m, s, k) THEN 0 ELSE rx.count
    BY DEF Behind
  <2>2. CASE k \in DOMAIN c
    <3>1. l[k] = m[k] /\ k \in DOMAIN l /\ ~ Live(m, s, k) /\ ~ Live(l, s, k)
      BY <1>1, <1>4, <2>2
    <3> QED
      BY <2>1, <3>1 DEF InputsOver, Behind, l
  <2>3. CASE k = n + 1
    <3>1. n + 1 \in DOMAIN l /\ l[n + 1].seq # 0
      BY <1>1
    <3>2. in[i] < p.data[1] + rx.count
      BY <1>1, <1>7, <2>1, <3>1 DEF InputsOver, Behind, l
    <3>3. Live(m, s, k)
      BY <1>1, <2>3 DEF Live
    <3>4. p.data[1] \in Nat /\ rx.count \in Nat
      <4>1. IsInput(p, t)
        BY <1>1, <3>1 DEF InputsOver, l
      <4> QED
        BY <4>1, InputIs, SolTypes DEF Accepted
    <3> QED
      BY <1>1, <2>3, <3>2, <3>3, <3>4
  <2> QED
    BY <1>2, <2>2, <2>3
<1> QED
  BY <1>5, <1>6, <1>8 DEF InputsOver, m, l

\* What the BMC has, when it accepts n characters of p.
LEMMA AcceptedIs ==
    ASSUME NEW p \in Inputs, NEW t \in Nat, IsInput(p, t), NEW in \in Seq(1..MaxTyped), NEW n \in 0..Len(p.data)
    PROVE  LET g == in \o SubSeq(p.data, 1, n)
           IN /\ SubSeq(p.data, 1, n) = Chars(p.data[1], n)
              /\ g \in Seq(1..MaxTyped) /\ Len(g) = Len(in) + n /\ Len(in) \in Nat
              /\ DOMAIN g = 1..(Len(in) + n) /\ DOMAIN in = 1..Len(in)
              /\ \A i \in DOMAIN in : g[i] = in[i]
              /\ \A i \in (Len(in) + 1)..(Len(in) + n) : g[i] = p.data[1] + (i - Len(in)) - 1
<1> DEFINE d == p.data
           f == p.data[1]
           l == Len(p.data)
           e == SubSeq(d, 1, n)
           a == Len(in)
           g == in \o e
<1>1. /\ d \in Seq(1..MaxTyped) /\ f \in Nat \ {0} /\ l \in Nat /\ Len(d) = l /\ n \in 0..l /\ d = Chars(f, l)
      /\ \A i \in 1..l : d[i] = f + i - 1
  <2>1. f \in Nat \ {0} /\ l \in Nat /\ \A i \in 1..l : d[i] = f + i - 1
    BY InputIs
  <2> QED
    BY <2>1, PacketTypes, SolTypes DEF Inputs, IsInput
<1>2. in \in Seq(1..MaxTyped) /\ a \in Nat /\ DOMAIN in = 1..a /\ Len(in) = a
  OBVIOUS
<1> HIDE DEF d, f, l, a
<1>3. e \in Seq(1..MaxTyped) /\ Len(e) = n /\ \A i \in 1..n : e[i] = d[i]
  <2>1. d \in Seq(1..MaxTyped) /\ n \in Nat /\ n <= Len(d) /\ Len(d) \in Nat
    BY <1>1
  <2> QED
    BY <2>1, FrontOf
<1>4. e = Chars(f, n)
  <2>1. n \in Nat /\ n <= l
    BY <1>1
  <2>2. SubSeq(Chars(f, l), 1, n) = Chars(f, n)
    BY <1>1, <2>1, PartOfChars
  <2> QED
    BY <1>1, <2>2
<1> HIDE DEF e
<1>5. /\ g \in Seq(1..MaxTyped) /\ Len(g) = a + n
      /\ \A i \in 1..(a + n) : g[i] = IF i <= a THEN in[i] ELSE e[i - a]
  BY <1>2, <1>3, ConcatProperties
<1>6. n \in Nat /\ n <= l
  BY <1>1
<1> HIDE DEF g
<1>7. DOMAIN g = 1..(a + n)
  BY <1>2, <1>5, <1>6
<1>8. \A i \in DOMAIN in : g[i] = in[i]
  BY <1>2, <1>5, <1>6
<1>9. \A i \in (a + 1)..(a + n) : g[i] = f + (i - a) - 1
  <2>1. SUFFICES ASSUME NEW i \in (a + 1)..(a + n) PROVE g[i] = f + (i - a) - 1
    OBVIOUS
  <2>2. i \in 1..(a + n) /\ ~ (i <= a) /\ i - a \in 1..n /\ i - a \in 1..l
    BY <1>1, <1>2, <1>6
  <2> DEFINE b == i - a
  <2>3. g[i] = e[b] /\ e[b] = d[b] /\ d[b] = f + b - 1
    BY <1>1, <1>3, <1>5, <2>2
  <2> QED
    BY <2>3
<1> QED
  BY <1>2, <1>4, <1>5, <1>7, <1>8, <1>9 DEF d, f, l, e, a, g

\* The BMC takes n characters of the first packet, which is new to it.
LEMMA AcceptData ==
    ASSUME NEW c \in Seq(Inputs), NEW m \in Seq(Inputs), NEW rx \in Accepted, NEW in \in Seq(1..MaxTyped), NEW t \in Nat,
           InputsOver(c, rx, in, t), Len(c) = Len(m) + 1, \A k \in DOMAIN m : m[k] = c[k + 1],
           c[1].seq # 0, c[1].seq # rx.seq, NEW n \in 0..Len(c[1].data), NEW z \in Accepted, z.seq = c[1].seq, z.count = n
    PROVE  InputsOver(m, z, in \o SubSeq(c[1].data, 1, n), t)
<1> DEFINE p == c[1]
           g == in \o SubSeq(p.data, 1, n)
           f == p.data[1]
           a == Len(in)
<1>1. /\ Len(m) \in Nat /\ DOMAIN m = 1..Len(m) /\ DOMAIN c = 1..(Len(m) + 1) /\ 1 \in DOMAIN c
      /\ \A k \in DOMAIN m : k + 1 \in DOMAIN c /\ k \in Nat /\ 1 < k + 1 /\ 1 \in 1..(k + 1)
  OBVIOUS
<1>2. p \in Inputs /\ IsInput(p, t)
  BY <1>1, InputTypes DEF InputsOver
<1>3. /\ f \in Nat \ {0} /\ Len(p.data) \in Nat /\ End(p) \in Nat /\ f <= End(p) /\ End(p) <= t /\ End(p) + 1 = f + Len(p.data)
  BY <1>2, InputIs
<1>4. /\ g \in Seq(1..MaxTyped) /\ Len(g) = a + n /\ a \in Nat /\ DOMAIN g = 1..(a + n) /\ DOMAIN in = 1..a
      /\ \A i \in DOMAIN in : g[i] = in[i]
      /\ \A i \in (a + 1)..(a + n) : g[i] = f + (i - a) - 1
  BY <1>2, AcceptedIs
<1>5. n \in Nat /\ n <= Len(p.data)
  BY <1>3
<1>6. \A k \in DOMAIN c : Live(c, rx.seq, k)
  <2>1. \A k \in DOMAIN c : 1 \in 1..k
    BY <1>1
  <2> QED
    BY <2>1 DEF Live
<1>7. \A i \in DOMAIN in : in[i] \in Nat /\ in[i] < f
  <2>1. SUFFICES ASSUME NEW i \in DOMAIN in PROVE in[i] \in Nat /\ in[i] < f
    OBVIOUS
  <2>2. in[i] < f + 0
    BY <1>1, <1>6, <2>1 DEF InputsOver, Behind
  <2>3. in[i] \in 1..MaxTyped
    <3>1. i \in 1..Len(in)
      BY <2>1
    <3> QED
      BY <3>1, ElementOfSeq
  <2> QED
    BY <1>3, <2>2, <2>3, SolTypes
<1> HIDE DEF p, f, a, g
<1>8. \A k \in DOMAIN m : m[k].seq # 0 => m[k] = p \/ End(p) < m[k].data[1]
  <2>1. SUFFICES ASSUME NEW k \in DOMAIN m, m[k].seq # 0 PROVE m[k] = p \/ End(p) < m[k].data[1]
    OBVIOUS
  <2>2. m[k] = c[k + 1] /\ k + 1 \in DOMAIN c /\ 1 < k + 1
    BY <1>1
  <2>3. Ordered(c, rx.seq)
    BY DEF InputsOver
  <2>4. c[1].seq # 0 /\ c[k + 1].seq # 0
    BY <2>1, <2>2
  <2> QED
    BY <1>1, <1>6, <2>2, <2>3, <2>4 DEF Ordered, p
<1>9. ASSUME NEW k \in DOMAIN m, m[k].seq # 0, Live(m, z.seq, k) PROVE m[k] # p
  <2>1. PICK j \in 1..k : m[j].seq # 0 /\ m[j].seq # z.seq
    BY <1>9 DEF Live
  <2>2. j \in DOMAIN m /\ m[j] # p
    <3>1. j \in DOMAIN m
      BY <1>1
    <3> QED
      BY <2>1, <3>1 DEF p
  <2>3. CASE j = k
    BY <2>2, <2>3
  <2>4. CASE j # k
    <3>1. 1 < j + 1 /\ j + 1 < k + 1 /\ m[j] = c[j + 1] /\ m[k] = c[k + 1] /\ j + 1 \in DOMAIN c /\ k + 1 \in DOMAIN c
      <4>1. j \in Nat /\ k \in Nat /\ j < k
        BY <1>1, <2>1, <2>4
      <4>2. 1 < j + 1 /\ j + 1 < k + 1
        BY <2>1, <4>1
      <4>3. m[j] = c[j + 1] /\ j + 1 \in DOMAIN c
        BY <1>1, <2>2
      <4>4. m[k] = c[k + 1] /\ k + 1 \in DOMAIN c
        BY <1>1, <1>9
      <4> QED
        BY <4>2, <4>3, <4>4
    <3>2. Ordered(c, rx.seq)
      BY DEF InputsOver
    <3>3. c[j + 1].seq # 0 /\ c[1].seq # 0
      BY <2>1, <3>1
    <3>4. c[1] = c[k + 1] => c[j + 1] = c[1]
      BY <1>1, <3>1, <3>2, <3>3 DEF Ordered
    <3> QED
      BY <2>2, <3>1, <3>4 DEF p
  <2> QED
    BY <2>3, <2>4
<1>10. \A k \in DOMAIN m : m[k].seq # 0 => IsInput(m[k], t) /\ m[k].data[1] \in Nat
  <2>1. SUFFICES ASSUME NEW k \in DOMAIN m, m[k].seq # 0 PROVE IsInput(m[k], t) /\ m[k].data[1] \in Nat
    OBVIOUS
  <2>2. m[k] = c[k + 1] /\ k + 1 \in DOMAIN c
    BY <1>1
  <2>3. IsInput(m[k], t) /\ m[k] \in Inputs
    BY <2>1, <2>2, InputTypes DEF InputsOver
  <2> QED
    BY <2>3, InputIs
<1>11. Ordered(m, z.seq)
  <2>1. ASSUME NEW j \in DOMAIN m, NEW i \in DOMAIN m, NEW k \in DOMAIN m, j < i, i < k,
               m[i].seq # 0, m[j].seq # 0, m[j] = m[k]
        PROVE  m[i] = m[j]
    <3>1. /\ j + 1 < i + 1 /\ i + 1 < k + 1 /\ m[j] = c[j + 1] /\ m[k] = c[k + 1] /\ m[i] = c[i + 1]
          /\ j + 1 \in DOMAIN c /\ k + 1 \in DOMAIN c /\ i + 1 \in DOMAIN c
      BY <1>1, <2>1
    <3>2. Ordered(c, rx.seq)
      BY DEF InputsOver
    <3>3. c[i + 1].seq # 0 /\ c[j + 1].seq # 0 /\ c[j + 1] = c[k + 1]
      BY <2>1, <3>1
    <3>4. c[i + 1] = c[j + 1]
      BY <3>1, <3>2, <3>3 DEF Ordered
    <3> QED
      BY <3>1, <3>4
  <2>2. ASSUME NEW j \in DOMAIN m, NEW k \in DOMAIN m, j < k, m[j].seq # 0, m[k].seq # 0
        PROVE  m[j] = m[k] \/ End(m[j]) < m[k].data[1]
    <3>1. /\ j + 1 < k + 1 /\ m[j] = c[j + 1] /\ m[k] = c[k + 1]
          /\ j + 1 \in DOMAIN c /\ k + 1 \in DOMAIN c /\ Live(c, rx.seq, j + 1)
      BY <1>1, <1>6, <2>2
    <3>2. Ordered(c, rx.seq)
      BY DEF InputsOver
    <3>3. c[k + 1].seq # 0 /\ c[j + 1].seq # 0
      BY <2>2, <3>1
    <3>4. c[j + 1] = c[k + 1] \/ End(c[j + 1]) < c[k + 1].data[1]
      BY <3>1, <3>2, <3>3 DEF Ordered
    <3> QED
      BY <3>1, <3>4
  <2> QED
    BY <2>1, <2>2 DEF Ordered
\* Where a character that the BMC now has comes from.
<1>12. \A i \in DOMAIN g : g[i] \in Nat /\ ((i <= a /\ g[i] < f) \/ (i > a /\ g[i] = f + (i - a) - 1 /\ g[i] < f + n))
  <2>1. SUFFICES ASSUME NEW i \in DOMAIN g
                 PROVE  g[i] \in Nat /\ ((i <= a /\ g[i] < f) \/ (i > a /\ g[i] = f + (i - a) - 1 /\ g[i] < f + n))
    OBVIOUS
  <2>2. i \in 1..(a + n)
    BY <1>4
  <2>3. CASE i <= a
    <3>1. i \in DOMAIN in
      BY <1>4, <2>2, <2>3
    <3> QED
      BY <1>4, <1>7, <2>3, <3>1
  <2>4. CASE ~ (i <= a)
    <3>1. i \in (a + 1)..(a + n) /\ i > a /\ i - a \in Nat /\ i - a > 0 /\ i - a <= n
      BY <1>4, <1>5, <2>2, <2>4
    <3> QED
      <4> DEFINE b == i - a
      <4>1. g[i] = f + b - 1 /\ b \in Nat /\ b > 0 /\ b <= n
        BY <1>4, <3>1
      <4> HIDE DEF b
      <4>2. f + b - 1 \in Nat /\ f + b - 1 < f + n
        BY <1>3, <1>5, <4>1
      <4> QED
        BY <3>1, <4>1, <4>2 DEF b
  <2> QED
    BY <2>3, <2>4
<1>13. Behind(m, z, g)
  <2>1. SUFFICES ASSUME NEW k \in DOMAIN m, m[k].seq # 0, NEW i \in DOMAIN g
                 PROVE  g[i] < m[k].data[1] + IF Live(m, z.seq, k) THEN 0 ELSE z.count
    BY DEF Behind
  <2>2. m[k].data[1] \in Nat /\ (m[k] = p \/ End(p) < m[k].data[1]) /\ g[i] \in Nat /\ g[i] < f + n
    BY <1>3, <1>5, <1>8, <1>10, <1>12, <2>1
  <2> DEFINE b == m[k].data[1]
             v == g[i]
  <2>3. m[k] = p => b = f
    BY DEF p, f
  <2>4. CASE Live(m, z.seq, k)
    <3>1. End(p) < b /\ b \in Nat /\ v \in Nat /\ v < f + n
      BY <1>9, <2>1, <2>2, <2>4
    <3> HIDE DEF b, v
    <3>2. v < b + 0
      BY <1>3, <1>5, <3>1
    <3> QED
      BY <2>4, <3>2 DEF b, v
  <2>5. CASE ~ Live(m, z.seq, k)
    <3>1. (b = f \/ End(p) < b) /\ b \in Nat /\ v \in Nat /\ v < f + n
      BY <2>2, <2>3
    <3> HIDE DEF b, v
    <3>2. v < b + z.count
      BY <1>3, <1>5, <3>1
    <3> QED
      BY <2>5, <3>2 DEF b, v
  <2> QED
    BY <2>4, <2>5
<1>14. \A i, j \in DOMAIN g : i < j => g[i] < g[j]
  <2>1. SUFFICES ASSUME NEW i \in DOMAIN g, NEW j \in DOMAIN g, i < j PROVE g[i] < g[j]
    OBVIOUS
  <2>2. i \in Nat /\ j \in Nat /\ g[i] \in Nat /\ g[j] \in Nat
    BY <1>4, <1>5, <1>12
  <2>3. CASE j <= a
    <3>1. i \in DOMAIN in /\ j \in DOMAIN in
      BY <1>4, <1>5, <2>1, <2>3
    <3> QED
      BY <1>4, <2>1, <3>1 DEF InputsOver
  <2>4. CASE i <= a /\ ~ (j <= a)
    <3>1. g[i] < f
      BY <1>4, <1>12, <2>2, <2>4
    <3>2. g[j] = f + (j - a) - 1 /\ j - a > 0 /\ j - a \in Nat
      BY <1>4, <1>12, <2>2, <2>4
    <3> QED
      BY <1>3, <2>2, <3>1, <3>2
  <2>5. CASE ~ (i <= a)
    <3>1. g[i] = f + (i - a) - 1 /\ g[j] = f + (j - a) - 1
      BY <1>4, <1>12, <2>1, <2>2, <2>5
    <3> QED
      BY <1>3, <1>4, <2>1, <2>2, <3>1
  <2> QED
    BY <2>3, <2>4, <2>5
<1>15. \A i \in DOMAIN g : g[i] <= t
  <2>1. SUFFICES ASSUME NEW i \in DOMAIN g PROVE g[i] <= t
    OBVIOUS
  <2>2. g[i] \in Nat /\ g[i] < f + n
    BY <1>3, <1>5, <1>12
  <2> QED
    BY <1>3, <1>5, <2>2
<1>16. \A k \in DOMAIN m : m[k].seq # 0 => IsInput(m[k], t)
  BY <1>10
<1> QED
  BY <1>11, <1>13, <1>14, <1>15, <1>16 DEF InputsOver, g, p

\* An acknowledgement joins the line, or another copy of the last packet.
LEMMA LineGains ==
    ASSUME NEW c \in Seq(Inputs), NEW p \in Inputs, NEW q \in Inputs, NEW b \in BOOLEAN, NEW rx, NEW in, NEW t,
           InputsOver(LineOf(c, p, b), rx, in, t), q.seq = 0 \/ (b /\ q = p)
    PROVE  InputsOver(LineOf(Append(c, q), p, b), rx, in, t)
<1> DEFINE n == Len(c)
           d == Append(c, q)
           l == Append(c, p)
           m == Append(d, p)
<1>1. /\ n \in Nat /\ DOMAIN c = 1..n /\ d \in Seq(Inputs) /\ DOMAIN d = 1..(n + 1) /\ d[n + 1] = q
      /\ \A k \in DOMAIN c : d[k] = c[k]
      /\ l \in Seq(Inputs) /\ DOMAIN l = 1..(n + 1) /\ l[n + 1] = p
      /\ \A k \in DOMAIN c : l[k] = c[k]
  BY OneMore
<1>2. /\ m \in Seq(Inputs) /\ DOMAIN m = 1..(n + 2) /\ m[n + 2] = p
      /\ \A k \in DOMAIN d : m[k] = d[k]
  <2>1. Len(d) = n + 1 /\ d \in Seq(Inputs)
    BY <1>1
  <2> HIDE DEF d
  <2>2. /\ m \in Seq(Inputs) /\ DOMAIN m = 1..(Len(d) + 1) /\ m[Len(d) + 1] = p
        /\ \A k \in DOMAIN d : m[k] = d[k]
    BY <2>1, OneMore
  <2>3. (n + 1) + 1 = n + 2
    BY <1>1
  <2> QED
    BY <2>1, <2>2, <2>3
<1> HIDE DEF n, d, l, m
<1>3. CASE b
  <2> DEFINE h == [k \in 1..(n + 2) |-> IF k <= n + 1 THEN k ELSE n + 1]
  <2>1. \A k \in 1..(n + 2) : h[k] = IF k <= n + 1 THEN k ELSE n + 1
    OBVIOUS
  <2> HIDE DEF h
  <2>2. \A k \in DOMAIN m : k \in DOMAIN c \/ k = n + 1 \/ k = n + 2
    BY <1>1, <1>2
  <2>3. \A k \in DOMAIN c : k \in DOMAIN l /\ m[k] = c[k] /\ h[k] = k /\ k \in DOMAIN m /\ k <= n
    <3>1. SUFFICES ASSUME NEW k \in DOMAIN c PROVE k \in DOMAIN l /\ m[k] = c[k] /\ h[k] = k /\ k \in DOMAIN m /\ k <= n
      OBVIOUS
    <3>2. k \in DOMAIN d /\ k \in DOMAIN l /\ k \in 1..(n + 2) /\ k <= n + 1 /\ k <= n
      BY <1>1
    <3> QED
      BY <1>1, <1>2, <2>1, <3>2
  <2>4. h[n + 1] = n + 1 /\ h[n + 2] = n + 1 /\ m[n + 1] = q /\ n + 1 \in DOMAIN l /\ n + 2 \in DOMAIN m
    <3>1. n + 1 \in 1..(n + 2) /\ n + 2 \in 1..(n + 2) /\ ~ (n + 2 <= n + 1) /\ n + 1 \in DOMAIN d /\ n + 1 <= n + 1
      BY <1>1
    <3> QED
      BY <1>1, <1>2, <2>1, <3>1
  <2>5. \A k \in DOMAIN m : m[k].seq # 0 => h[k] \in DOMAIN l /\ m[k] = l[h[k]]
    BY <1>1, <1>2, <2>2, <2>3, <2>4
  <2>6. \A j, k \in DOMAIN m : j < k => h[j] <= h[k]
    BY <1>1, <1>2, <2>1
  <2>7. ASSUME NEW k \in DOMAIN m, NEW j \in 1..h[k], l[j].seq # 0
        PROVE  \E i \in DOMAIN m : m[i].seq # 0 /\ h[i] = j
    <3>1. h[k] \in Nat /\ h[k] <= n + 1
      BY <1>1, <1>2, <2>1
    <3>2. j \in DOMAIN c \/ j = n + 1
      BY <1>1, <3>1
    <3>3. CASE j \in DOMAIN c
      BY <1>1, <2>3, <2>7, <3>3
    <3>4. CASE j = n + 1
      BY <1>1, <1>2, <2>4, <2>7, <3>4
    <3> QED
      BY <3>2, <3>3, <3>4
  <2>8. InputsOver(l, rx, in, t)
    BY <1>3 DEF LineOf, l
  <2>9. InputsOver(m, rx, in, t)
    <3>1. Follows(m, l, rx.seq, h)
      BY <2>5, <2>6, <2>7 DEF Follows
    <3> QED
      BY <1>1, <1>2, <2>8, <3>1, SameData
  <2> QED
    BY <1>3, <2>9 DEF LineOf, m, d
<1>4. CASE ~ b
  <2> DEFINE h == [k \in 1..(n + 1) |-> k]
  <2>1. \A k \in 1..(n + 1) : h[k] = k
    OBVIOUS
  <2> HIDE DEF h
  <2>2. \A k \in DOMAIN d : d[k].seq # 0 => k \in DOMAIN c /\ h[k] = k /\ d[k] = c[k]
    <3>1. \A k \in DOMAIN d : k \in DOMAIN c \/ k = n + 1
      BY <1>1
    <3> QED
      BY <1>1, <1>4, <2>1, <3>1
  <2>3. \A k \in DOMAIN d : d[k].seq # 0 => h[k] \in DOMAIN c /\ d[k] = c[h[k]]
    BY <2>2
  <2>4. \A j, k \in DOMAIN d : j < k => h[j] <= h[k]
    BY <1>1, <2>1
  <2>5. ASSUME NEW k \in DOMAIN d, NEW j \in 1..h[k], d[k].seq # 0, c[j].seq # 0
        PROVE  \E i \in DOMAIN d : d[i].seq # 0 /\ h[i] = j
    <3>1. k \in DOMAIN c /\ h[k] = k
      BY <2>2, <2>5
    <3>2. j \in DOMAIN c /\ j \in DOMAIN d /\ h[j] = j
      BY <1>1, <2>1, <3>1
    <3> QED
      BY <1>1, <2>5, <3>2
  <2>6. InputsOver(c, rx, in, t)
    BY <1>4 DEF LineOf
  <2>7. InputsOver(d, rx, in, t)
    <3>1. Follows(d, c, rx.seq, h)
      BY <2>3, <2>4, <2>5 DEF Follows
    <3> QED
      BY <1>1, <2>6, <3>1, SameData
  <2> QED
    BY <1>4, <2>7 DEF LineOf, d
<1> QED
  BY <1>3, <1>4

\* The line behind its first packet.
LEMMA LineHead ==
    ASSUME NEW c \in Seq(Inputs), NEW p \in Inputs, NEW b \in BOOLEAN, 1 \in DOMAIN c
    PROVE  LET l == LineOf(c, p, b)
               m == LineOf(RemoveAt(c, 1), p, b)
           IN /\ l \in Seq(Inputs) /\ m \in Seq(Inputs) /\ Len(l) = Len(m) + 1 /\ Len(m) \in Nat /\ l[1] = c[1]
              /\ \A k \in DOMAIN m : m[k] = l[k + 1]
<1> DEFINE d == RemoveAt(c, 1)
           n == Len(d)
           l == Append(c, p)
           m == Append(d, p)
<1>1. /\ d \in Seq(Inputs) /\ n \in Nat /\ Len(c) = n + 1 /\ DOMAIN d = 1..n /\ DOMAIN c = 1..(n + 1) /\ Len(d) = n
      /\ \A k \in DOMAIN d : k + 1 \in DOMAIN c /\ d[k] = c[k + 1]
  BY HeadGone
<1>2. CASE ~ b
  BY <1>1, <1>2 DEF LineOf
<1>3. CASE b
  <2> HIDE DEF d, n
  <2>1. l \in Seq(Inputs) /\ Len(l) = n + 2 /\ l[n + 2] = p /\ \A k \in DOMAIN c : l[k] = c[k]
    <3>1. /\ l \in Seq(Inputs) /\ DOMAIN l = 1..(Len(c) + 1) /\ l[Len(c) + 1] = p
          /\ \A k \in DOMAIN c : l[k] = c[k]
      BY OneMore
    <3>2. (n + 1) + 1 = n + 2 /\ Len(l) = Len(c) + 1
      BY <1>1
    <3> HIDE DEF l
    <3> QED
      BY <1>1, <3>1, <3>2
  <2>2. m \in Seq(Inputs) /\ Len(m) = n + 1 /\ DOMAIN m = 1..(n + 1) /\ m[n + 1] = p /\ \A k \in DOMAIN d : m[k] = d[k]
    <3>1. /\ m \in Seq(Inputs) /\ DOMAIN m = 1..(Len(d) + 1) /\ m[Len(d) + 1] = p /\ Len(m) = Len(d) + 1
          /\ \A k \in DOMAIN d : m[k] = d[k]
      BY <1>1, OneMore
    <3> HIDE DEF m
    <3> QED
      BY <1>1, <3>1
  <2> HIDE DEF l, m
  <2>3. \A k \in DOMAIN m : m[k] = l[k + 1]
    <3>1. SUFFICES ASSUME NEW k \in DOMAIN m PROVE m[k] = l[k + 1]
      OBVIOUS
    <3>2. k \in DOMAIN d \/ k = n + 1
      BY <1>1, <2>2
    <3>3. CASE k \in DOMAIN d
      BY <1>1, <2>1, <2>2, <3>3
    <3>4. CASE k = n + 1
      <4>1. (n + 1) + 1 = n + 2
        BY <1>1
      <4> QED
        BY <2>1, <2>2, <3>4, <4>1
    <3> QED
      BY <3>2, <3>3, <3>4
  <2>4. l[1] = c[1] /\ n + 2 = (n + 1) + 1 /\ n + 1 \in Nat
    BY <1>1, <2>1
  <2>5. l \in Seq(Inputs) /\ m \in Seq(Inputs) /\ Len(l) = Len(m) + 1 /\ Len(m) \in Nat
    BY <2>1, <2>2, <2>4
  <2> QED
    BY <1>3, <2>3, <2>4, <2>5 DEF LineOf, l, m, d
<1> QED
  BY <1>2, <1>3

\* The first packet leaves: an acknowledgement, or what the BMC has had.
LEMMA LineLoses ==
    ASSUME NEW c \in Seq(Inputs), NEW p \in Inputs, NEW b \in BOOLEAN, NEW rx, NEW in, NEW t,
           InputsOver(LineOf(c, p, b), rx, in, t), 1 \in DOMAIN c, c[1].seq \in {0, rx.seq}
    PROVE  InputsOver(LineOf(RemoveAt(c, 1), p, b), rx, in, t)
<1> DEFINE l == LineOf(c, p, b)
           m == LineOf(RemoveAt(c, 1), p, b)
           n == Len(m)
           h == [k \in 1..n |-> k + 1]
<1>1. /\ l \in Seq(Inputs) /\ m \in Seq(Inputs) /\ Len(l) = n + 1 /\ n \in Nat /\ l[1] = c[1]
      /\ \A k \in DOMAIN m : m[k] = l[k + 1]
  BY LineHead
<1>2. InputsOver(l, rx, in, t)
  OBVIOUS
<1> HIDE DEF l, m
<1>3. DOMAIN m = 1..n /\ DOMAIN l = 1..(n + 1)
  BY <1>1
<1> HIDE DEF n
<1>4. \A k \in 1..n : h[k] = k + 1
  OBVIOUS
<1> HIDE DEF h
<1>5. \A k \in DOMAIN m : h[k] \in DOMAIN l /\ m[k] = l[h[k]]
  BY <1>1, <1>3, <1>4
<1>6. \A j, k \in DOMAIN m : j < k => h[j] <= h[k]
  BY <1>3, <1>4
<1>7. ASSUME NEW k \in DOMAIN m, NEW j \in 1..h[k], l[j].seq # 0, l[j].seq # rx.seq
      PROVE  \E i \in DOMAIN m : m[i].seq # 0 /\ h[i] = j
  <2>1. j # 1
    BY <1>1, <1>7
  <2>2. j - 1 \in DOMAIN m /\ (j - 1) + 1 = j
    BY <1>1, <1>3, <1>4, <2>1
  <2>3. m[j - 1] = l[j] /\ h[j - 1] = j
    BY <1>1, <1>3, <1>4, <2>2
  <2> QED
    BY <1>7, <2>2, <2>3
<1>8. InputsOver(m, rx, in, t)
  <2>1. Follows(m, l, rx.seq, h)
    BY <1>5, <1>6, <1>7 DEF Follows
  <2> QED
    BY <1>1, <1>2, <2>1, SameData
<1> QED
  BY <1>8 DEF m

\* The last packet is given up.
LEMMA LineEnds ==
    ASSUME NEW c \in Seq(Inputs), NEW p \in Inputs, NEW b \in BOOLEAN, NEW v \in BOOLEAN, NEW rx, NEW in, NEW t,
           InputsOver(LineOf(c, p, b), rx, in, t), v => b
    PROVE  InputsOver(LineOf(c, p, v), rx, in, t)
<1>1. CASE v = b
  BY <1>1
<1>2. CASE b /\ ~ v
  <2> DEFINE n == Len(c)
             l == Append(c, p)
             h == [k \in 1..n |-> k]
  <2>1. /\ n \in Nat /\ DOMAIN c = 1..n /\ l \in Seq(Inputs) /\ DOMAIN l = 1..(n + 1)
        /\ \A k \in DOMAIN c : l[k] = c[k]
    BY OneMore
  <2>2. InputsOver(l, rx, in, t)
    BY <1>2 DEF LineOf
  <2> HIDE DEF n, l
  <2>3. \A k \in 1..n : h[k] = k
    OBVIOUS
  <2> HIDE DEF h
  <2>4. \A k \in DOMAIN c : h[k] \in DOMAIN l /\ c[k] = l[h[k]]
    BY <2>1, <2>3
  <2>5. \A j, k \in DOMAIN c : j < k => h[j] <= h[k]
    BY <2>1, <2>3
  <2>6. ASSUME NEW k \in DOMAIN c, NEW j \in 1..h[k], l[j].seq # 0
        PROVE  \E i \in DOMAIN c : c[i].seq # 0 /\ h[i] = j
    <3>1. j \in DOMAIN c /\ h[j] = j
      BY <2>1, <2>3
    <3> QED
      BY <2>1, <2>6, <3>1
  <2>7. InputsOver(c, rx, in, t)
    <3>1. Follows(c, l, rx.seq, h)
      BY <2>4, <2>5, <2>6 DEF Follows
    <3> QED
      BY <2>1, <2>2, <3>1, SameData
  <2> QED
    BY <1>2, <2>7 DEF LineOf
<1> QED
  BY <1>1, <1>2

-----------------------------------------------------------------------------
(* The steps that matter to the input.                                      *)

ControlTypes ==
    /\ sequence_number \in 1..(SolSeqs + 1) /\ sol_seq \in SeqNums /\ slow_link \in BOOLEAN
    /\ pc \in {"idle", "send", "recv", "keepalive", "done"} /\ op \in {"data", "break", "empty"}
    /\ pkt \in Inputs /\ itry \in 0..(Retry - 1)
    /\ partials \in 0..MaxPartials /\ bmcIn \in Seq(1..MaxTyped) /\ bmcRx \in Accepted
    /\ typed \in 0..MaxTyped /\ allAcked \in BOOLEAN
    /\ extras \in BoundedSeq({"break", "empty"}, MaxExtras) /\ drift \in BOOLEAN

LEMMA TypesAre == TypeOK <=> StreamTypes /\ ControlTypes
BY DEF TypeOK, StreamTypes, ControlTypes, Inputs, Outputs, Heads, Waitings, Accepted

LEMMA TypesAreNext == TypeOK' <=> StreamTypes' /\ ControlTypes'
BY DEF TypeOK, StreamTypes, ControlTypes, Inputs, Outputs, Heads, Waitings, Accepted, SeqNums, PacketsOver

\* The packets of a line.
LEMMA LineIs ==
    ASSUME NEW c \in Seq(Inputs), NEW p \in Inputs, NEW b \in BOOLEAN
    PROVE  LET l == LineOf(c, p, b)
           IN /\ l \in Seq(Inputs)
              /\ \A k \in DOMAIN c : k \in DOMAIN l /\ l[k] = c[k] /\ k \in Nat /\ k < Len(c) + 1
              /\ b => Len(c) + 1 \in DOMAIN l /\ l[Len(c) + 1] = p
<1>1. CASE b
  <2> DEFINE n == Len(c)
             l == Append(c, p)
  <2>1. /\ n \in Nat /\ DOMAIN c = 1..n /\ l \in Seq(Inputs) /\ DOMAIN l = 1..(n + 1) /\ l[n + 1] = p
        /\ \A k \in DOMAIN c : l[k] = c[k]
    BY OneMore
  <2> HIDE DEF n, l
  <2>2. \A k \in DOMAIN c : k \in DOMAIN l /\ k \in Nat /\ k < n + 1
    BY <2>1
  <2>3. n + 1 \in DOMAIN l
    BY <2>1
  <2> QED
    BY <1>1, <2>1, <2>2, <2>3 DEF LineOf, n, l
<1>2. CASE ~ b
  BY <1>2 DEF LineOf
<1> QED
  BY <1>1, <1>2

\* What is sent is a packet of typed characters.
LEMMA SentIsInput ==
    ASSUME StreamTypes, ControlTypes, NumbersInv, InputInv, Calm, Sending
    PROVE  /\ IsInput(pkt, typed) /\ pkt.data[1] \in Nat \ {0} /\ Len(pkt.data) \in Nat \ {0}
           /\ pkt.data = Chars(pkt.data[1], Len(pkt.data)) /\ pkt.data \in Seq(1..MaxTyped)
           /\ End(pkt) + 1 = pkt.data[1] + Len(pkt.data) /\ End(pkt) \in Nat
<1>1. toBMC \in Seq(Inputs) /\ pkt \in Inputs /\ Sending \in BOOLEAN /\ typed \in Nat
  BY SolTypes DEF StreamTypes, ControlTypes, Sending
<1>2. Len(toBMC) + 1 \in DOMAIN Line /\ Line[Len(toBMC) + 1] = pkt
  BY <1>1, LineIs DEF Line
<1>3. pkt.seq # 0 => IsInput(pkt, typed)
  BY <1>2 DEF InputInv, InputsInv, InputsOver
<1> QED
  BY <1>1, <1>3, InputIs, PacketTypes, SolTypes DEF IsInput, Inputs, NumbersInv

\* Some steps take nothing from the input, and bring it no packet.
LEMMA InputQuiet ==
    ASSUME StreamTypes, ControlTypes, NumbersInv, InputInv, Calm,
           UNCHANGED <<pkt, bmcIn, bmcRx, typed>>,
           Sending' => Sending,
           \/ toBMC' = toBMC
           \/ \E q \in Inputs : q.seq = 0 /\ toBMC' = Append(toBMC, q)
           \/ 1 \in DOMAIN toBMC /\ toBMC[1].seq = 0 /\ toBMC' = RemoveAt(toBMC, 1),
           \A i \in DOMAIN toConsole' : toConsole'[i].acked # 0 =>
              \E j \in DOMAIN toConsole : toConsole[j].acked = toConsole'[i].acked /\ toConsole[j].count = toConsole'[i].count,
           allAcked' => allAcked /\ (Sending' \/ ~ Sending \/ (bmcRx.seq = pkt.seq /\ bmcRx.count >= Len(pkt.data)))
    PROVE  InputsInv' /\ GenuineInv' /\ AllAckedInv'
<1> DEFINE c == toBMC
           d == toBMC'
           p == pkt
           b == Sending
           v == (Sending)'
<1>1. c \in Seq(Inputs) /\ p \in Inputs /\ b \in BOOLEAN /\ v \in BOOLEAN /\ bmcRx \in Accepted /\ typed \in Nat
  BY SolTypes DEF StreamTypes, ControlTypes, Sending
<1>2. /\ InputsOver(LineOf(c, p, b), bmcRx, bmcIn, typed) /\ GenuineInv /\ AllAckedInv
      /\ b => p.seq # 0
  BY DEF InputInv, InputsInv, Line, NumbersInv
<1>3. \A k \in DOMAIN d : d[k].seq # 0 => \E j \in DOMAIN c : c[j] = d[k]
  <2>1. CASE d = c
    BY <2>1
  <2>2. CASE \E q \in Inputs : q.seq = 0 /\ d = Append(c, q)
    <3>1. PICK q \in Inputs : q.seq = 0 /\ d = Append(c, q)
      BY <2>2
    <3> DEFINE n == Len(c)
    <3>2. n \in Nat /\ DOMAIN c = 1..n /\ DOMAIN d = 1..(n + 1) /\ d[n + 1] = q /\ \A k \in DOMAIN c : d[k] = c[k]
      BY <1>1, <3>1, OneMore
    <3> HIDE DEF n, c, d
    <3>3. \A k \in DOMAIN d : k \in DOMAIN c \/ k = n + 1
      BY <3>2
    <3> QED
      BY <3>1, <3>2, <3>3
  <2>3. CASE 1 \in DOMAIN c /\ d = RemoveAt(c, 1)
    BY <1>1, <2>3, HeadGone
  <2> QED
    BY <2>1, <2>2, <2>3
<1>4. InputsOver(LineOf(d, p, b), bmcRx, bmcIn, typed)
  <2>1. CASE d = c
    BY <1>2, <2>1
  <2>2. CASE \E q \in Inputs : q.seq = 0 /\ d = Append(c, q)
    BY <1>1, <1>2, <2>2, LineGains
  <2>3. CASE 1 \in DOMAIN c /\ c[1].seq = 0 /\ d = RemoveAt(c, 1)
    BY <1>1, <1>2, <2>3, LineLoses
  <2> QED
    BY <2>1, <2>2, <2>3
<1>5. d \in Seq(Inputs)
  <2>1. CASE d = c
    BY <1>1, <2>1
  <2>2. CASE \E q \in Inputs : q.seq = 0 /\ d = Append(c, q)
    BY <1>1, <2>2, OneMore
  <2>3. CASE 1 \in DOMAIN c /\ d = RemoveAt(c, 1)
    BY <1>1, <2>3, HeadGone
  <2> QED
    BY <2>1, <2>2, <2>3
<1>6. InputsOver(LineOf(d, p, v), bmcRx, bmcIn, typed)
  BY <1>1, <1>4, <1>5, LineEnds
<1>7. InputsInv'
  BY <1>6 DEF InputsInv, Line
<1>8. GenuineInv'
  <2>1. SUFFICES ASSUME v
                 PROVE  /\ \A k \in DOMAIN d : d[k].seq = p.seq => d[k] = p
                        /\ \A i \in DOMAIN toConsole' : toConsole'[i].acked = p.seq =>
                              /\ bmcRx.seq = p.seq /\ toConsole'[i].count = bmcRx.count
                              /\ \A k \in DOMAIN d : d[k].seq # 0 => d[k].seq = p.seq
    BY DEF GenuineInv
  <2>2. /\ p.seq # 0
        /\ \A k \in DOMAIN c : c[k].seq = p.seq => c[k] = p
        /\ \A i \in DOMAIN toConsole : toConsole[i].acked = p.seq =>
              /\ bmcRx.seq = p.seq /\ toConsole[i].count = bmcRx.count
              /\ \A k \in DOMAIN c : c[k].seq # 0 => c[k].seq = p.seq
    BY <1>2, <2>1 DEF GenuineInv
  <2>3. \A k \in DOMAIN d : d[k].seq = p.seq => d[k] = p
    <3> HIDE DEF c, d, p
    <3> QED
      BY <1>3, <2>2
  <2>4. ASSUME NEW i \in DOMAIN toConsole', toConsole'[i].acked = p.seq
        PROVE  /\ bmcRx.seq = p.seq /\ toConsole'[i].count = bmcRx.count
               /\ \A k \in DOMAIN d : d[k].seq # 0 => d[k].seq = p.seq
    <3>1. PICK j \in DOMAIN toConsole : toConsole[j].acked = toConsole'[i].acked /\ toConsole[j].count = toConsole'[i].count
      BY <2>2, <2>4
    <3>2. /\ bmcRx.seq = p.seq /\ toConsole[j].count = bmcRx.count
          /\ \A k \in DOMAIN c : c[k].seq # 0 => c[k].seq = p.seq
      BY <2>2, <2>4, <3>1
    <3> HIDE DEF c, d, p
    <3> QED
      BY <1>3, <3>1, <3>2
  <2> QED
    BY <2>3, <2>4
<1>9. AllAckedInv'
  <2>1. SUFFICES ASSUME allAcked' PROVE AllAckedInv'
    BY DEF AllAckedInv
  <2>2. allAcked
    BY <2>1
  <2>3. CASE v
    <3>1. b
      BY <2>3
    <3> USE DEF AllAckedInv
    <3>2. /\ End(p) = typed
          /\ IF bmcRx.seq = p.seq
             THEN /\ bmcRx.count <= Len(p.data) /\ bmcIn = Chars(1, p.data[1] - 1 + bmcRx.count)
                  /\ \A k \in DOMAIN c : c[k].seq # 0 => c[k].seq = p.seq
             ELSE /\ bmcIn = Chars(1, p.data[1] - 1)
                  /\ \A k \in DOMAIN c : c[k].seq \in {0, bmcRx.seq} \/ c[k] = p
      BY <1>2, <2>2, <3>1
    <3>3. /\ End(p) = typed
          /\ IF bmcRx.seq = p.seq
             THEN /\ bmcRx.count <= Len(p.data) /\ bmcIn = Chars(1, p.data[1] - 1 + bmcRx.count)
                  /\ \A k \in DOMAIN d : d[k].seq # 0 => d[k].seq = p.seq
             ELSE /\ bmcIn = Chars(1, p.data[1] - 1)
                  /\ \A k \in DOMAIN d : d[k].seq \in {0, bmcRx.seq} \/ d[k] = p
      <4> HIDE DEF c, d, p
      <4> QED
        BY <1>3, <3>2
    <3> QED
      BY <2>3, <3>3
  <2>4. CASE ~ v
    <3>1. bmcRx.seq = p.seq /\ bmcIn = Chars(1, typed) /\ \A k \in DOMAIN c : c[k].seq \in {0, p.seq}
      <4>1. CASE b
        <5>1. bmcRx.seq = p.seq /\ bmcRx.count >= Len(p.data)
          BY <2>1, <2>4, <4>1
        <5>2. /\ End(p) = typed
              /\ bmcRx.count <= Len(p.data) /\ bmcIn = Chars(1, p.data[1] - 1 + bmcRx.count)
              /\ \A k \in DOMAIN c : c[k].seq # 0 => c[k].seq = p.seq
          BY <1>2, <2>2, <4>1, <5>1 DEF AllAckedInv
        <5>3. p.data[1] - 1 + bmcRx.count = typed
          <6> DEFINE f == p.data[1]
                     l == Len(p.data)
                     e == End(p)
                     r == bmcRx.count
          <6>1. f \in Nat /\ l \in Nat /\ e + 1 = f + l /\ e \in Nat
            BY <4>1, SentIsInput
          <6>2. r >= l /\ r <= l /\ r \in Nat
            BY <1>1, <5>1, <5>2, SolTypes DEF Accepted
          <6> HIDE DEF f, l, e, r
          <6>3. f - 1 + r = e
            BY <6>1, <6>2
          <6> QED
            BY <5>2, <6>3 DEF f, e, r
        <5> QED
          BY <5>1, <5>2, <5>3
      <4>2. CASE ~ b
        BY <1>2, <2>2, <4>2 DEF AllAckedInv
      <4> QED
        BY <4>1, <4>2
    <3>2. \A k \in DOMAIN d : d[k].seq \in {0, p.seq}
      <4> HIDE DEF c, d, p
      <4> QED
        BY <1>3, <3>1
    <3> QED
      BY <2>4, <3>1, <3>2 DEF AllAckedInv
  <2> QED
    BY <2>3, <2>4
<1> QED
  BY <1>7, <1>8, <1>9

\* The number that follows the last packet's is another.
LEMMA NextNumber ==
    ASSUME ControlTypes, NumbersInv
    PROVE  SaneSeq(sequence_number) \in 1..SolSeqs /\ SaneSeq(sequence_number) # pkt.seq
<1>1. pkt.seq \in 0..SolSeqs /\ sequence_number = pkt.seq + 1
  BY PacketTypes, SolTypes DEF ControlTypes, NumbersInv, Inputs, SeqNums
<1> DEFINE a == pkt.seq
<1>2. a \in 0..SolSeqs /\ sequence_number = a + 1
  BY <1>1
<1> HIDE DEF a
<1>3. SaneSeq(sequence_number) \in 1..SolSeqs /\ SaneSeq(sequence_number) # a
  BY <1>2, SolTypes DEF SaneSeq
<1> QED
  BY <1>3 DEF a

\* What ipmi_lanplus_recv_sol does to the packets on their way.
LEMMA RecvIs ==
    ASSUME StreamTypes, 1 \in DOMAIN toConsole, RecvSol(1)
    PROVE  /\ toConsole[1] \in Outputs
           /\ toBMC' = toBMC \/ \E q \in Inputs : q.seq = 0 /\ Len(q.data) = 0 /\ toBMC' = Append(toBMC, q)
           /\ \A i \in DOMAIN toConsole' : \E j \in DOMAIN toConsole : toConsole[j] = toConsole'[i]
<1> DEFINE p == toConsole[1]
           q == Ack(p.seq, Len(p.data))
<1>1. toConsole \in Seq(Outputs) /\ p \in Outputs /\ p.seq \in SeqNums /\ Len(p.data) \in Nat
  BY OutputTypes, PacketTypes, SolTypes DEF StreamTypes, Outputs
<1>2. q \in Inputs /\ q.seq = 0 /\ q.data = <<>>
  BY <1>1, AckIs DEF Ack, Packet
<1>3. toBMC' = toBMC \/ toBMC' \in Sent(toBMC, q)
  BY DEF RecvSol
<1>4. toBMC' = toBMC \/ toBMC' = Append(toBMC, q)
  BY <1>3, SentIs
<1>5. Len(q.data) = 0
  BY <1>2
<1>6. toConsole' = RemoveAt(toConsole, 1)
  BY DEF RecvSol
<1>7. \A i \in DOMAIN toConsole' : \E j \in DOMAIN toConsole : toConsole[j] = toConsole'[i]
  BY <1>1, <1>6, HeadGone
<1> QED
  BY <1>1, <1>2, <1>4, <1>5, <1>7

\* The packet that Number makes.
LEMMA NumberIs ==
    ASSUME NEW s \in 1..SolSeqs, NEW d \in Seq(1..MaxTyped)
    PROVE  LET p == Packet(s, d, 0, 0, FALSE)
           IN p \in Inputs /\ p.seq = s /\ p.seq # 0 /\ p.data = d
<1>1. s \in SeqNums /\ s # 0
  BY SolTypes DEF SeqNums
<1> QED
  BY <1>1, SolTypes DEF Packet, Inputs, PacketsOver

\* lan2_send_sol
LEMMA Typing ==
    ASSUME StreamTypes, ControlTypes, NumbersInv, InputInv, NEW n \in ChunkSizes, Type(n)
    PROVE  InputInv'
<1>1. SUFFICES ASSUME Calm' PROVE op' = "data" /\ InputsInv' /\ GenuineInv' /\ AllAckedInv'
  BY DEF InputInv
<1> DEFINE s == SaneSeq(sequence_number)
           d == Chars(typed + 1, n)
           p == Packet(s, d, 0, 0, FALSE)
           t == typed
<1>2. /\ pc = "idle" /\ typed' = typed + n /\ op' = "data" /\ pc' = "send"
      /\ drift = FALSE /\ extras = <<>> /\ IncSolSeq = s /\ ~ InUse(s)
      /\ UNCHANGED <<network, bmc, allAcked>>
      /\ pkt' = Packet(SaneSeq(s), d, 0, 0, FALSE)
      /\ typed + n + Len(extras) <= MaxTyped
  <2>1. drift' = FALSE /\ extras' = <<>>
    BY <1>1 DEF Calm
  <2>2. drift' = (drift \/ IncSolSeq # s \/ InUse(IncSolSeq)) /\ extras' = extras
    BY DEF Type
  <2>3. drift = FALSE /\ IncSolSeq = s /\ ~ InUse(s)
    BY <2>1, <2>2 DEF ControlTypes
  <2> QED
    BY <2>1, <2>2, <2>3 DEF Type, Number
<1>3. s \in 1..SolSeqs /\ s # pkt.seq
  BY NextNumber
<1>4. pkt' = p
  BY <1>2, <1>3, SolTypes DEF SaneSeq
<1>5. n \in Nat \ {0} /\ t \in Nat /\ t + n <= MaxTyped
  <2>1. Len(extras) = 0
    BY <1>2
  <2> QED
    BY <1>2, <2>1, SolTypes, SolAssumption DEF ControlTypes
<1>6. d \in Seq(1..MaxTyped) /\ Len(d) = n /\ d[1] = t + 1 /\ d = Chars(t + 1, n)
  <2>1. t + 1 \in Nat \ {0} /\ n \in Nat /\ (t + 1) + n - 1 <= MaxTyped
    BY <1>5
  <2>2. d \in Seq(1..MaxTyped)
    BY <2>1, SolTypes, CharsUpTo
  <2>3. Len(d) = n /\ d[1] = (t + 1) + 1 - 1
    <3>1. 1 \in 1..n
      BY <1>5
    <3> QED
      BY <2>1, <3>1, CharsAre
  <2>4. (t + 1) + 1 - 1 = t + 1
    BY <1>5
  <2> QED
    BY <2>2, <2>3, <2>4
<1>7. p \in Inputs /\ p.seq = s /\ p.seq # 0 /\ p.data = d
  BY <1>3, <1>6, NumberIs
<1> HIDE DEF s, d, p, t
<1>8. IsInput(p, t + n) /\ End(p) = t + n /\ p.data[1] = t + 1
  <2>1. End(p) = (t + 1) + n - 1
    BY <1>6, <1>7 DEF End
  <2>2. End(p) = t + n /\ t + n <= t + n /\ n > 0
    BY <1>5, <2>1
  <2> QED
    BY <1>6, <1>7, <2>2 DEF IsInput
<1>9. /\ toBMC \in Seq(Inputs) /\ bmcRx \in Accepted /\ bmcIn \in Seq(1..MaxTyped)
      /\ InputsOver(toBMC, bmcRx, bmcIn, t) /\ AllAckedInv
  BY <1>2 DEF StreamTypes, ControlTypes, InputInv, Calm, InputsInv, Line, LineOf, Sending, t
<1>10. \A k \in DOMAIN toBMC : toBMC[k].seq # s
  BY <1>2 DEF InUse
<1>11. InputsOver(Append(toBMC, p), bmcRx, bmcIn, t + n)
  <2>1. t + n \in Nat /\ t <= t + n
    BY <1>5
  <2> QED
    BY <1>5, <1>7, <1>8, <1>9, <1>10, <2>1, NewData
<1>12. InputsInv'
  BY <1>2, <1>4, <1>11 DEF InputsInv, Line, LineOf, Sending, network, bmc, t
<1>13. GenuineInv'
  <2>1. \A i \in DOMAIN toConsole : toConsole[i].acked # s
    BY <1>2 DEF InUse
  <2> QED
    BY <1>2, <1>4, <1>7, <1>10, <2>1 DEF GenuineInv, network
<1>14. AllAckedInv'
  <2>1. SUFFICES ASSUME allAcked PROVE AllAckedInv'
    BY <1>2 DEF AllAckedInv
  <2>2. bmcRx.seq = pkt.seq /\ bmcIn = Chars(1, t) /\ \A k \in DOMAIN toBMC : toBMC[k].seq \in {0, pkt.seq}
    BY <1>2, <1>9, <2>1 DEF AllAckedInv, Sending, t
  <2>3. bmcRx.seq # p.seq
    BY <1>3, <1>7, <2>2
  <2>4. p.data[1] - 1 = t
    BY <1>5, <1>8
  <2>5. End(p) = typed'
    BY <1>2, <1>8 DEF t
  <2>6. (Sending)'
    BY <1>2 DEF Sending
  <2>7. \A k \in DOMAIN toBMC : toBMC[k].seq \in {0, bmcRx.seq}
    BY <2>2
  <2> QED
    BY <1>2, <1>4, <2>2, <2>3, <2>4, <2>5, <2>6, <2>7 DEF AllAckedInv, network, bmc
<1> QED
  BY <1>2, <1>12, <1>13, <1>14

\* lan2_send_break, and lan2_keepalive of type 2
LEMMA Extra ==
    ASSUME StreamTypes, ControlTypes, NEW x \in {"break", "empty"}, SendExtra(x)
    PROVE  InputInv'
<1>1. extras \in Seq({"break", "empty"}) /\ extras' = Append(extras, x)
  <2>1. extras \in Seq({"break", "empty"})
    BY DEF ControlTypes, BoundedSeq, SeqOf
  <2> QED
    BY <2>1 DEF SendExtra
<1>2. extras' # <<>>
  BY <1>1
<1> QED
  BY <1>2 DEF InputInv, Calm

\* send_lanplus_packet
LEMMA Transmitting ==
    ASSUME StreamTypes, ControlTypes, NumbersInv, InputInv, Transmit
    PROVE  InputInv'
<1>1. SUFFICES ASSUME Calm' PROVE op' = "data" /\ InputsInv' /\ GenuineInv' /\ AllAckedInv'
  BY DEF InputInv
<1> DEFINE c == toBMC
           d == toBMC'
           p == pkt
<1>2. /\ pc = "send" /\ pc' = "recv" /\ d \in Sent(c, p)
      /\ UNCHANGED <<op, pkt, toConsole, bmcIn, bmcRx, typed, allAcked, extras, drift>>
  BY DEF Transmit, bmc, history
<1>3. Calm /\ op = "data" /\ InputsInv /\ GenuineInv /\ AllAckedInv
  BY <1>1, <1>2 DEF Calm, InputInv
<1>4. c \in Seq(Inputs) /\ p \in Inputs /\ p.seq # 0
  BY <1>2 DEF StreamTypes, ControlTypes, NumbersInv, Sending
<1>5. d = c \/ d = Append(c, p)
  BY <1>2, SentIs
<1>6. \A k \in DOMAIN d : d[k] = p \/ \E j \in DOMAIN c : c[j] = d[k]
  <2>1. CASE d = c
    BY <2>1
  <2>2. CASE d = Append(c, p)
    <3> DEFINE n == Len(c)
    <3>1. n \in Nat /\ DOMAIN c = 1..n /\ DOMAIN d = 1..(n + 1) /\ d[n + 1] = p /\ \A k \in DOMAIN c : d[k] = c[k]
      BY <1>4, <2>2, OneMore
    <3> HIDE DEF n, c, d
    <3>2. \A k \in DOMAIN d : k \in DOMAIN c \/ k = n + 1
      BY <3>1
    <3> QED
      BY <3>1, <3>2
  <2> QED
    BY <1>5, <2>1, <2>2
<1>7. InputsInv'
  <2>1. InputsOver(LineOf(c, p, TRUE), bmcRx, bmcIn, typed)
    BY <1>2, <1>3 DEF InputsInv, Line, Sending
  <2>2. InputsOver(LineOf(d, p, TRUE), bmcRx, bmcIn, typed)
    <3>1. CASE d = c
      BY <2>1, <3>1
    <3>2. CASE d = Append(c, p)
      BY <1>4, <2>1, <3>2, LineGains
    <3> QED
      BY <1>5, <3>1, <3>2
  <2> QED
    BY <1>2, <2>2 DEF InputsInv, Line, Sending
<1> DEFINE o == toConsole
           rx == bmcRx
           in == bmcIn
<1>8. /\ \A k \in DOMAIN c : c[k].seq = p.seq => c[k] = p
      /\ \A i \in DOMAIN o : o[i].acked = p.seq =>
            /\ rx.seq = p.seq /\ o[i].count = rx.count
            /\ \A k \in DOMAIN c : c[k].seq # 0 => c[k].seq = p.seq
  BY <1>2, <1>3 DEF GenuineInv, Sending
<1>9. /\ \A k \in DOMAIN d : d[k].seq = p.seq => d[k] = p
      /\ \A i \in DOMAIN o : o[i].acked = p.seq =>
            /\ rx.seq = p.seq /\ o[i].count = rx.count
            /\ \A k \in DOMAIN d : d[k].seq # 0 => d[k].seq = p.seq
  <2> HIDE DEF c, d, p, o, rx
  <2> QED
    BY <1>6, <1>8
<1>10. GenuineInv'
  BY <1>2, <1>9 DEF GenuineInv
<1>11. AllAckedInv'
  <2>1. SUFFICES ASSUME allAcked PROVE AllAckedInv'
    BY <1>2 DEF AllAckedInv
  <2>2. /\ End(p) = typed
        /\ IF rx.seq = p.seq
           THEN /\ rx.count <= Len(p.data) /\ in = Chars(1, p.data[1] - 1 + rx.count)
                /\ \A k \in DOMAIN c : c[k].seq # 0 => c[k].seq = p.seq
           ELSE /\ in = Chars(1, p.data[1] - 1)
                /\ \A k \in DOMAIN c : c[k].seq \in {0, rx.seq} \/ c[k] = p
    BY <1>2, <1>3, <2>1 DEF AllAckedInv, Sending
  <2>3. /\ End(p) = typed
        /\ IF rx.seq = p.seq
           THEN /\ rx.count <= Len(p.data) /\ in = Chars(1, p.data[1] - 1 + rx.count)
                /\ \A k \in DOMAIN d : d[k].seq # 0 => d[k].seq = p.seq
           ELSE /\ in = Chars(1, p.data[1] - 1)
                /\ \A k \in DOMAIN d : d[k].seq \in {0, rx.seq} \/ d[k] = p
    <3> HIDE DEF c, d, p, rx, in
    <3> QED
      BY <1>6, <2>2
  <2>4. (Sending)'
    BY <1>2 DEF Sending
  <2> QED
    BY <1>2, <2>3, <2>4 DEF AllAckedInv
<1> QED
  BY <1>2, <1>3, <1>7, <1>10, <1>11

\* What is left of the packet.
LEMMA RestIs ==
    ASSUME ControlTypes, NEW p \in Outputs
    PROVE  /\ p.count \in Nat /\ Len(pkt.data) \in Nat
           /\ Rest(p) = <<>> <=> p.count >= Len(pkt.data)
           /\ Rest(p) \in Seq(1..MaxTyped)
           /\ p.count < Len(pkt.data) => Len(Rest(p)) = Len(pkt.data) - p.count
<1> DEFINE d == pkt.data
           n == Len(pkt.data)
           m == p.count
           r == SubSeq(d, m + 1, n)
<1>1. d \in Seq(1..MaxTyped) /\ n \in Nat /\ Len(d) = n /\ m \in Nat
  BY PacketTypes, SolTypes DEF ControlTypes, Inputs, Outputs
<1>2. Rest(p) = r
  BY DEF Rest
<1> HIDE DEF d, n, m
<1>3. r \in Seq(1..MaxTyped)
  BY <1>1, TailOf
<1>4. Len(r) = IF m < n THEN n - m ELSE 0
  <2>1. d \in Seq(1..MaxTyped) /\ m \in Nat /\ n \in Nat /\ Len(d) = n
    BY <1>1
  <2> QED
    BY <2>1
<1>5. r = <<>> <=> Len(r) = 0
  BY <1>3, EmptySeq
<1> HIDE DEF r
<1>6. r = <<>> <=> m >= n
  BY <1>1, <1>4, <1>5
<1>7. m < n => Len(r) = n - m
  BY <1>4
<1> QED
  BY <1>1, <1>2, <1>3, <1>6, <1>7 DEF d, n, m

\* A packet from the BMC that does not make the console send a rest.
LEMMA Receiving ==
    ASSUME StreamTypes, ControlTypes, NumbersInv, InputInv, 1 \in DOMAIN toConsole, RecvSol(1),
           UNCHANGED <<pkt, op, bmcIn, bmcRx, typed, extras, drift>>,
           (Sending)' => Sending,
           Calm /\ allAcked' /\ op = "data" => allAcked /\ ((Sending)' \/ ~ Sending \/ (Acks(toConsole[1]) /\ Rest(toConsole[1]) = <<>>))
    PROVE  InputInv'
<1>1. SUFFICES ASSUME Calm PROVE op = "data" /\ InputsInv' /\ GenuineInv' /\ AllAckedInv'
  BY DEF InputInv, Calm
<1>2. op = "data" /\ GenuineInv
  BY <1>1 DEF InputInv
<1> DEFINE p == toConsole[1]
<1>3. /\ p \in Outputs
      /\ toBMC' = toBMC \/ \E q \in Inputs : q.seq = 0 /\ Len(q.data) = 0 /\ toBMC' = Append(toBMC, q)
      /\ \A i \in DOMAIN toConsole' : \E j \in DOMAIN toConsole : toConsole[j] = toConsole'[i]
  BY RecvIs
<1>4. allAcked' => allAcked /\ ((Sending)' \/ ~ Sending \/ (bmcRx.seq = pkt.seq /\ bmcRx.count >= Len(pkt.data)))
  <2>1. SUFFICES ASSUME allAcked', ~ (Sending)', Sending PROVE bmcRx.seq = pkt.seq /\ bmcRx.count >= Len(pkt.data)
    BY <1>1, <1>2
  <2>2. Acks(p) /\ Rest(p) = <<>>
    BY <1>1, <1>2, <2>1
  <2>3. bmcRx.seq = pkt.seq /\ p.count = bmcRx.count
    BY <1>2, <2>1, <2>2 DEF GenuineInv, Acks
  <2>4. p.count >= Len(pkt.data)
    BY <1>3, <2>2, RestIs
  <2> QED
    BY <2>3, <2>4
<1>5. \A i \in DOMAIN toConsole' : toConsole'[i].acked # 0 =>
          \E j \in DOMAIN toConsole : toConsole[j].acked = toConsole'[i].acked /\ toConsole[j].count = toConsole'[i].count
  BY <1>3
<1>6. InputsInv' /\ GenuineInv' /\ AllAckedInv'
  BY <1>1, <1>3, <1>4, <1>5, InputQuiet
<1> QED
  BY <1>2, <1>6

\* ipmi_lanplus_send_sol, when the BMC accepts a part.
LEMMA SendingRest ==
    ASSUME StreamTypes, ControlTypes, NumbersInv, InputInv, 1 \in DOMAIN toConsole, PartlyAcked(1)
    PROVE  InputInv'
<1>1. SUFFICES ASSUME Calm' PROVE op' = "data" /\ InputsInv' /\ GenuineInv' /\ AllAckedInv'
  BY DEF InputInv
<1> DEFINE s == SaneSeq(sequence_number)
           a == toConsole[1]
           e == Rest(a)
           q == Packet(s, e, 0, 0, FALSE)
           p == pkt
           c == toBMC
           d == toBMC'
<1>2. /\ pc = "recv" /\ pc' = "send" /\ RecvSol(1) /\ Acks(a) /\ e # <<>> /\ pkt' = Packet(SaneSeq(sequence_number), e, 0, 0, FALSE)
      /\ UNCHANGED <<op, bmcIn, bmcRx, typed, allAcked, extras>>
      /\ drift' = (drift \/ InUse(s))
  BY DEF PartlyAcked, Number, bmc
<1>3. Calm /\ ~ InUse(s)
  BY <1>1, <1>2 DEF Calm, ControlTypes
<1>4. op = "data" /\ InputsInv /\ GenuineInv /\ AllAckedInv /\ Sending
  BY <1>2, <1>3 DEF InputInv, Sending
<1>5. s \in 1..SolSeqs /\ s # p.seq
  BY NextNumber
<1>6. /\ a \in Outputs
      /\ d = c \/ \E o \in Inputs : o.seq = 0 /\ Len(o.data) = 0 /\ d = Append(c, o)
      /\ \A i \in DOMAIN toConsole' : \E j \in DOMAIN toConsole : toConsole[j] = toConsole'[i]
  BY <1>2, RecvIs
<1>7. /\ bmcRx.seq = p.seq /\ a.count = bmcRx.count /\ p.seq # 0
      /\ \A k \in DOMAIN c : c[k].seq # 0 => c[k].seq = p.seq
  BY <1>2, <1>4 DEF GenuineInv, Acks, NumbersInv
<1>8. /\ c \in Seq(Inputs) /\ p \in Inputs /\ bmcRx \in Accepted /\ bmcIn \in Seq(1..MaxTyped) /\ typed \in Nat
      /\ bmcRx.count \in Nat
  BY SolTypes DEF StreamTypes, ControlTypes, Accepted
<1>9. d \in Seq(Inputs) /\ \A k \in DOMAIN d : d[k].seq # 0 => \E j \in DOMAIN c : c[j] = d[k]
  <2>1. CASE d = c
    BY <1>8, <2>1
  <2>2. CASE \E o \in Inputs : o.seq = 0 /\ Len(o.data) = 0 /\ d = Append(c, o)
    <3>1. PICK o \in Inputs : o.seq = 0 /\ d = Append(c, o)
      BY <2>2
    <3> DEFINE n == Len(c)
    <3>2. d \in Seq(Inputs) /\ n \in Nat /\ DOMAIN c = 1..n /\ DOMAIN d = 1..(n + 1) /\ d[n + 1] = o /\ \A k \in DOMAIN c : d[k] = c[k]
      BY <1>8, <3>1, OneMore
    <3> HIDE DEF n, c, d
    <3>3. \A k \in DOMAIN d : k \in DOMAIN c \/ k = n + 1
      BY <3>2
    <3> QED
      BY <3>1, <3>2, <3>3
  <2> QED
    BY <1>6, <2>1, <2>2
<1> DEFINE f == p.data[1]
           l == Len(p.data)
           m == bmcRx.count
<1>10. /\ f \in Nat \ {0} /\ l \in Nat \ {0} /\ p.data = Chars(f, l) /\ p.data \in Seq(1..MaxTyped)
       /\ End(p) + 1 = f + l /\ End(p) \in Nat /\ End(p) <= typed /\ IsInput(p, typed)
  BY <1>3, <1>4, SentIsInput DEF IsInput
<1>11. /\ m \in Nat /\ m < l /\ e \in Seq(1..MaxTyped) /\ Len(e) = l - m
  <2>1. ~ (a.count >= l) /\ a.count \in Nat /\ e \in Seq(1..MaxTyped)
    BY <1>2, <1>6, RestIs
  <2>2. m = a.count /\ m < l
    BY <1>7, <1>10, <2>1
  <2>3. Len(e) = l - a.count
    BY <1>6, <2>2, RestIs
  <2> QED
    BY <1>8, <2>1, <2>2, <2>3
<1>12. e = Chars(f + m, l - m) /\ e[1] = f + m
  <2>1. e = SubSeq(p.data, m + 1, l)
    BY <1>7 DEF Rest
  <2>2. SubSeq(Chars(f, l), m + 1, l) = Chars(f + m, l - m)
    <3> HIDE DEF f, l, m
    <3>1. f \in Nat \ {0} /\ l \in Nat /\ m \in Nat /\ m <= l
      BY <1>10, <1>11
    <3> QED
      BY <3>1, PartOfChars
  <2>3. e = Chars(f + m, l - m)
    BY <1>10, <2>1, <2>2
  <2> HIDE DEF e, f, l, m
  <2>4. f + m \in Nat \ {0} /\ l - m \in Nat /\ 1 \in 1..(l - m)
    BY <1>10, <1>11
  <2>5. Chars(f + m, l - m)[1] = (f + m) + 1 - 1
    BY <2>4, CharsAre
  <2> QED
    BY <2>3, <2>4, <2>5
<1>13. q \in Inputs /\ q.seq = s /\ q.seq # 0 /\ q.data = e
  BY <1>5, <1>11, NumberIs
<1>14. pkt' = q
  BY <1>2
<1> HIDE DEF q, e, s, f, l, m
<1>15. IsInput(q, typed) /\ End(q) = End(p) /\ q.data[1] = f + m
  <2>1. Len(q.data) = l - m /\ q.data = Chars(f + m, l - m) /\ q.data[1] = f + m
    BY <1>11, <1>12, <1>13
  <2> DEFINE b == End(p)
  <2>2. b + 1 = f + l /\ b \in Nat /\ b <= typed
    BY <1>10
  <2> HIDE DEF b
  <2>3. (f + m) + (l - m) - 1 = b /\ l - m > 0
    BY <1>10, <1>11, <2>2
  <2>4. End(q) = b
    BY <2>1, <2>3 DEF End
  <2> QED
    BY <2>1, <2>2, <2>3, <2>4 DEF IsInput, b
<1>16. InputsOver(Append(d, p), bmcRx, bmcIn, typed)
  <2>1. InputsOver(LineOf(c, p, TRUE), bmcRx, bmcIn, typed)
    BY <1>4 DEF InputsInv, Line
  <2>2. InputsOver(LineOf(d, p, TRUE), bmcRx, bmcIn, typed)
    <3>1. CASE d = c
      BY <2>1, <3>1
    <3>2. CASE \E o \in Inputs : o.seq = 0 /\ Len(o.data) = 0 /\ d = Append(c, o)
      BY <1>8, <2>1, <3>2, LineGains
    <3> QED
      BY <1>6, <3>1, <3>2
  <2> QED
    BY <2>2 DEF LineOf
<1>17. \A k \in DOMAIN d : d[k].seq # 0 => d[k].seq = bmcRx.seq
  <2> HIDE DEF c, d
  <2> QED
    BY <1>7, <1>9
<1>18. InputsOver(Append(d, q), bmcRx, bmcIn, typed)
  <2>1. q.seq # bmcRx.seq /\ p.data[1] = f /\ bmcRx.count = m
    BY <1>5, <1>7, <1>13 DEF f, m
  <2> HIDE DEF d, p
  <2> QED
    BY <1>7, <1>8, <1>9, <1>13, <1>15, <1>16, <1>17, <2>1, RestData
<1>19. InputsInv' /\ (Sending)'
  BY <1>2, <1>14, <1>18 DEF InputsInv, Line, LineOf, Sending
<1>20. GenuineInv'
  <2>1. (\A k \in DOMAIN c : c[k].seq # s) /\ \A i \in DOMAIN toConsole : toConsole[i].acked # s
    BY <1>3 DEF InUse
  <2>2. \A i \in DOMAIN toConsole' : toConsole'[i].acked # s
    BY <1>6, <2>1
  <2>3. \A k \in DOMAIN d : d[k].seq # s
    <3>1. s # 0
      BY <1>13
    <3> HIDE DEF c, d
    <3> QED
      BY <1>9, <2>1, <3>1
  <2> QED
    BY <1>13, <1>14, <2>2, <2>3 DEF GenuineInv
<1>21. AllAckedInv'
  <2>1. SUFFICES ASSUME allAcked PROVE AllAckedInv'
    BY <1>2 DEF AllAckedInv
  <2>2. End(p) = typed /\ bmcIn = Chars(1, p.data[1] - 1 + bmcRx.count)
    BY <1>4, <1>7, <2>1 DEF AllAckedInv
  <2>3. q.data[1] - 1 = p.data[1] - 1 + bmcRx.count
    <3>1. p.data[1] = f /\ bmcRx.count = m
      BY DEF f, m
    <3>2. (f + m) - 1 = f - 1 + m
      BY <1>10, <1>11
    <3> QED
      BY <1>15, <3>1, <3>2
  <2>4. bmcRx.seq # q.seq
    BY <1>5, <1>7, <1>13
  <2>5. \A k \in DOMAIN d : d[k].seq \in {0, bmcRx.seq}
    BY <1>17
  <2> QED
    BY <1>2, <1>14, <1>15, <1>19, <2>2, <2>3, <2>4, <2>5 DEF AllAckedInv
<1> QED
  BY <1>2, <1>4, <1>19, <1>20, <1>21

\* The BMC gets a packet of the input.
LEMMA BmcReceiving ==
    ASSUME MaxOvertakes = 0, StreamTypes, ControlTypes, NumbersInv, OutputInv, InputInv, 1 \in DOMAIN toBMC, BmcReceive(1)
    PROVE  InputInv'
<1>1. SUFFICES ASSUME Calm PROVE op' = "data" /\ InputsInv' /\ GenuineInv' /\ AllAckedInv'
  BY DEF InputInv, Calm, BmcReceive, history
<1> DEFINE c == toBMC
           d == RemoveAt(toBMC, 1)
           h == toBMC[1]
           p == pkt
           o == toConsole
           l == LineOf(c, p, Sending)
           m == LineOf(d, p, Sending)
<1>2. /\ h.seq # 0 /\ toBMC' = d
      /\ UNCHANGED <<pc, op, pkt, typed, allAcked, sequence_number>> /\ (Sending)' = Sending
  BY DEF BmcReceive, console, control, history, Sending
<1>3. /\ op = "data" /\ InputsOver(l, bmcRx, bmcIn, typed) /\ GenuineInv /\ AllAckedInv
      /\ Sending => p.seq # 0
  BY <1>1 DEF InputInv, InputsInv, Line, NumbersInv
<1>4. /\ c \in Seq(Inputs) /\ p \in Inputs /\ bmcRx \in Accepted /\ bmcIn \in Seq(1..MaxTyped) /\ typed \in Nat
      /\ Sending \in BOOLEAN /\ bmcRx.seq \in SeqNums /\ bmcRx.count \in Nat /\ bmcRx.stop \in BOOLEAN
  BY SolTypes DEF StreamTypes, ControlTypes, Accepted, Sending
<1>5. /\ h \in Inputs /\ h.seq \in SeqNums /\ Len(h.data) \in Nat
      /\ d \in Seq(Inputs) /\ \A k \in DOMAIN d : k + 1 \in DOMAIN c /\ d[k] = c[k + 1]
  <2>1. h \in Inputs
    BY <1>4, InputTypes
  <2>2. d \in Seq(Inputs) /\ \A k \in DOMAIN d : k + 1 \in DOMAIN c /\ d[k] = c[k + 1]
    BY <1>4, HeadGone
  <2>3. h.seq \in SeqNums /\ Len(h.data) \in Nat
    BY <2>1, PacketTypes, SolTypes DEF Inputs
  <2> QED
    BY <2>1, <2>2, <2>3
<1>6. /\ l \in Seq(Inputs) /\ m \in Seq(Inputs) /\ Len(l) = Len(m) + 1 /\ l[1] = h
      /\ \A k \in DOMAIN m : m[k] = l[k + 1]
  BY <1>4, LineHead
\* What the BMC answers with.
<1>7. ASSUME NEW s \in SeqNums, NEW n \in Nat, NEW flag \in BOOLEAN,
             NEW a \in Answers(Packet(0, <<>>, s, n, flag)), toConsole' \in Sent(o, a)
      PROVE  \A i \in DOMAIN toConsole' : (toConsole'[i].acked = s /\ toConsole'[i].count = n) \/ \E j \in DOMAIN o : o[j] = toConsole'[i]
  <2>1. a \in Outputs /\ a.acked = s /\ a.count = n
    BY <1>7, AnswerIs DEF OutputInv
  <2>2. CASE toConsole' = o
    BY <2>2
  <2>3. CASE toConsole' = Append(o, a)
    <3> DEFINE e == toConsole'
               r == Len(o)
    <3>1. r \in Nat /\ DOMAIN o = 1..r /\ DOMAIN e = 1..(r + 1) /\ e[r + 1] = a /\ \A k \in DOMAIN o : e[k] = o[k]
      BY <2>1, <2>3, OneMore DEF StreamTypes
    <3> HIDE DEF e, r, o
    <3>2. \A k \in DOMAIN e : k \in DOMAIN o \/ k = r + 1
      BY <3>1
    <3>3. \A i \in DOMAIN e : (e[i].acked = s /\ e[i].count = n) \/ \E j \in DOMAIN o : o[j] = e[i]
      BY <2>1, <3>1, <3>2
    <3> QED
      BY <3>3 DEF e
  <2> QED
    BY <1>7, <2>2, <2>3, SentIs
\* Copies of what is being sent follow each other.
<1>8. ASSUME Sending, h = p
      PROVE  \A k \in DOMAIN c : c[k].seq # 0 => c[k].seq = p.seq
  <2>1. SUFFICES ASSUME NEW k \in DOMAIN c, c[k].seq # 0, k # 1 PROVE c[k] = p
    BY <1>8
  <2> DEFINE z == Len(c) + 1
  <2>2. k \in DOMAIN l /\ l[k] = c[k] /\ k \in Nat /\ k < z /\ z \in DOMAIN l /\ l[z] = p
    <3>1. \A x \in DOMAIN c : x \in DOMAIN l /\ l[x] = c[x] /\ x \in Nat /\ x < z
      BY <1>4, LineIs
    <3>2. Sending => z \in DOMAIN l /\ l[z] = p
      BY <1>4, LineIs
    <3> QED
      BY <1>8, <3>1, <3>2
  <2>3. 1 < k /\ 1 \in DOMAIN l
    <3>1. 1 \in DOMAIN l
      BY <1>4, LineIs
    <3> QED
      BY <2>1, <3>1, <1>4, InputTypes
  <2>4. Ordered(l, bmcRx.seq)
    BY <1>3 DEF InputsOver
  <2> HIDE DEF l, z
  <2>5. l[1].seq # 0 /\ l[1] = l[z] /\ l[k].seq # 0
    BY <1>2, <1>6, <1>8, <2>1, <2>2
  <2>6. l[k] = l[1]
    BY <2>2, <2>3, <2>4, <2>5 DEF Ordered
  <2> QED
    BY <1>6, <1>8, <2>2, <2>6
\* A packet that the BMC has had.
<1>9. CASE h.seq = bmcRx.seq
  <2>1. /\ UNCHANGED <<bmcIn, bmcRx>>
        /\ \E a \in Answers(Packet(0, <<>>, h.seq, bmcRx.count, bmcRx.stop)) : toConsole' \in Sent(o, a)
    BY <1>9 DEF BmcReceive
  <2>2. \A i \in DOMAIN toConsole' : (toConsole'[i].acked = h.seq /\ toConsole'[i].count = bmcRx.count) \/ \E j \in DOMAIN o : o[j] = toConsole'[i]
    BY <1>4, <1>5, <1>7, <2>1
  <2>3. InputsOver(m, bmcRx, bmcIn, typed)
    BY <1>3, <1>4, <1>9, LineLoses
  <2>4. InputsInv'
    BY <1>2, <2>1, <2>3 DEF InputsInv, Line
  <2>5. GenuineInv'
    <3>1. SUFFICES ASSUME Sending
                   PROVE  /\ \A k \in DOMAIN d : d[k].seq = p.seq => d[k] = p
                          /\ \A i \in DOMAIN toConsole' : toConsole'[i].acked = p.seq =>
                                /\ bmcRx.seq = p.seq /\ toConsole'[i].count = bmcRx.count
                                /\ \A k \in DOMAIN d : d[k].seq # 0 => d[k].seq = p.seq
      BY <1>2, <2>1 DEF GenuineInv
    <3>2. /\ \A k \in DOMAIN c : c[k].seq = p.seq => c[k] = p
          /\ \A i \in DOMAIN o : o[i].acked = p.seq =>
                /\ bmcRx.seq = p.seq /\ o[i].count = bmcRx.count
                /\ \A k \in DOMAIN c : c[k].seq # 0 => c[k].seq = p.seq
      BY <1>3, <3>1 DEF GenuineInv
    <3>3. h.seq = p.seq => \A k \in DOMAIN c : c[k].seq # 0 => c[k].seq = p.seq
      <4>1. h.seq = p.seq => h = p
        BY <3>2
      <4> QED
        BY <1>8, <3>1, <4>1
    <3>4. ASSUME NEW i \in DOMAIN toConsole', toConsole'[i].acked = p.seq
          PROVE  /\ bmcRx.seq = p.seq /\ toConsole'[i].count = bmcRx.count
                 /\ \A k \in DOMAIN c : c[k].seq # 0 => c[k].seq = p.seq
      <4>1. CASE toConsole'[i].acked = h.seq /\ toConsole'[i].count = bmcRx.count
        BY <1>9, <3>3, <3>4, <4>1
      <4>2. CASE \E j \in DOMAIN o : o[j] = toConsole'[i]
        <5>1. PICK j \in DOMAIN o : o[j] = toConsole'[i]
          BY <4>2
        <5>2. o[j].acked = p.seq
          BY <3>4, <5>1
        <5> QED
          BY <3>2, <5>1, <5>2
      <4> QED
        BY <2>2, <4>1, <4>2
    <3> DEFINE e == toConsole'
    <3> HIDE DEF d, c, p, e
    <3> QED
      BY <1>5, <3>2, <3>4
  <2>6. AllAckedInv'
    <3>1. SUFFICES ASSUME allAcked PROVE AllAckedInv'
      BY <1>2 DEF AllAckedInv
    <3> DEFINE r == bmcRx
               in == bmcIn
    <3>2. CASE Sending
      <4>1. /\ End(p) = typed
            /\ IF r.seq = p.seq
               THEN /\ r.count <= Len(p.data) /\ in = Chars(1, p.data[1] - 1 + r.count)
                    /\ \A k \in DOMAIN c : c[k].seq # 0 => c[k].seq = p.seq
               ELSE /\ in = Chars(1, p.data[1] - 1)
                    /\ \A k \in DOMAIN c : c[k].seq \in {0, r.seq} \/ c[k] = p
        BY <1>3, <3>1, <3>2 DEF AllAckedInv
      <4>2. /\ End(p) = typed
            /\ IF r.seq = p.seq
               THEN /\ r.count <= Len(p.data) /\ in = Chars(1, p.data[1] - 1 + r.count)
                    /\ \A k \in DOMAIN d : d[k].seq # 0 => d[k].seq = p.seq
               ELSE /\ in = Chars(1, p.data[1] - 1)
                    /\ \A k \in DOMAIN d : d[k].seq \in {0, r.seq} \/ d[k] = p
        <5> HIDE DEF c, d, p, r, in
        <5> QED
          BY <1>5, <4>1
      <4> QED
        BY <1>2, <2>1, <3>2, <4>2 DEF AllAckedInv
    <3>3. CASE ~ Sending
      <4>1. bmcRx.seq = p.seq /\ bmcIn = Chars(1, typed) /\ \A k \in DOMAIN c : c[k].seq \in {0, p.seq}
        BY <1>3, <3>1, <3>3 DEF AllAckedInv
      <4>2. \A k \in DOMAIN d : d[k].seq \in {0, p.seq}
        <5> HIDE DEF c, d, p
        <5> QED
          BY <1>5, <4>1
      <4> QED
        BY <1>2, <2>1, <3>3, <4>1, <4>2 DEF AllAckedInv
    <3> QED
      BY <3>2, <3>3
  <2> QED
    BY <1>2, <1>3, <2>4, <2>5, <2>6
\* A packet that it takes n characters of.
<1>10. CASE h.seq # bmcRx.seq
  <2>1. \E n \in 0..Len(h.data), flag \in BOOLEAN : BmcAccept(h, n, flag)
    <3>1. \/ BmcAccept(h, Len(h.data), FALSE)
          \/ \E n \in 0..(Len(h.data) - 1), flag \in BOOLEAN : BmcAccept(h, n, flag)
      BY <1>10 DEF BmcReceive
    <3>2. Len(h.data) \in 0..Len(h.data) /\ \A n \in 0..(Len(h.data) - 1) : n \in 0..Len(h.data)
      <4> DEFINE g == Len(h.data)
      <4>1. g \in Nat
        BY <1>5
      <4> HIDE DEF g
      <4>2. g \in 0..g /\ \A n \in 0..(g - 1) : n \in 0..g
        BY <4>1
      <4> QED
        BY <4>2 DEF g
    <3> HIDE DEF h
    <3> QED
      BY <3>1, <3>2
  <2>2. PICK n \in 0..Len(h.data), flag \in BOOLEAN : BmcAccept(h, n, flag)
    BY <2>1
  <2> DEFINE z == [seq |-> h.seq, count |-> n, stop |-> flag]
             g == bmcIn \o SubSeq(h.data, 1, n)
  <2>3. /\ bmcIn' = g /\ bmcRx' = z
        /\ \E a \in Answers(Packet(0, <<>>, h.seq, n, flag)) : toConsole' \in Sent(o, a)
    BY <2>2 DEF BmcAccept
  <2>4. n \in Nat /\ n <= Len(h.data)
    BY <1>5
  <2>5. \A i \in DOMAIN toConsole' : (toConsole'[i].acked = h.seq /\ toConsole'[i].count = n) \/ \E j \in DOMAIN o : o[j] = toConsole'[i]
    BY <1>5, <1>7, <2>3, <2>4
  <2>6. z.seq = h.seq /\ z.count = n
    OBVIOUS
  <2>7. z \in Accepted
    <3>1. 1 \in DOMAIN c /\ Len(c[1].data) <= MaxTyped
      BY DEF NumbersInv
    <3>2. n <= MaxTyped
      <4> DEFINE y == Len(h.data)
      <4>1. y <= MaxTyped /\ y \in Nat /\ n <= y
        BY <1>5, <2>4, <3>1
      <4> HIDE DEF y
      <4> QED
        BY <2>4, <4>1, SolTypes
    <3>3. n \in 0..MaxTyped
      BY <2>4, <3>2, SolTypes
    <3> QED
      BY <1>5, <3>3 DEF Accepted
  <2>8. InputsOver(m, z, g, typed)
    <3> HIDE DEF l, m, z, h
    <3>1. l[1].seq # 0 /\ l[1].seq # bmcRx.seq /\ n \in 0..Len(l[1].data) /\ z.seq = l[1].seq /\ z.count = n
      BY <1>2, <1>6, <1>10, <2>6
    <3>2. InputsOver(m, z, bmcIn \o SubSeq(l[1].data, 1, n), typed)
      BY <1>3, <1>4, <1>6, <2>7, <3>1, AcceptData
    <3> QED
      BY <1>6, <3>2
  <2> HIDE DEF z, g
  <2>9. InputsInv'
    BY <1>2, <2>3, <2>8 DEF InputsInv, Line
  <2>10. GenuineInv'
    <3>1. SUFFICES ASSUME Sending
                   PROVE  /\ \A k \in DOMAIN d : d[k].seq = p.seq => d[k] = p
                          /\ \A i \in DOMAIN toConsole' : toConsole'[i].acked = p.seq =>
                                /\ z.seq = p.seq /\ toConsole'[i].count = z.count
                                /\ \A k \in DOMAIN d : d[k].seq # 0 => d[k].seq = p.seq
      BY <1>2, <2>3 DEF GenuineInv
    <3>2. /\ \A k \in DOMAIN c : c[k].seq = p.seq => c[k] = p
          /\ \A i \in DOMAIN o : o[i].acked = p.seq =>
                /\ bmcRx.seq = p.seq
                /\ \A k \in DOMAIN c : c[k].seq # 0 => c[k].seq = p.seq
      BY <1>3, <3>1 DEF GenuineInv
    <3>3. h.seq = p.seq => \A k \in DOMAIN c : c[k].seq # 0 => c[k].seq = p.seq
      <4>1. h.seq = p.seq => h = p
        BY <3>2
      <4> QED
        BY <1>8, <3>1, <4>1
    <3>4. \A j \in DOMAIN o : o[j].acked # p.seq
      <4>1. SUFFICES ASSUME NEW j \in DOMAIN o, o[j].acked = p.seq PROVE FALSE
        OBVIOUS
      <4>2. h.seq = p.seq /\ bmcRx.seq = p.seq
        BY <1>2, <3>2, <4>1
      <4> QED
        BY <1>10, <4>2
    <3>5. ASSUME NEW i \in DOMAIN toConsole', toConsole'[i].acked = p.seq
          PROVE  /\ z.seq = p.seq /\ toConsole'[i].count = z.count
                 /\ \A k \in DOMAIN c : c[k].seq # 0 => c[k].seq = p.seq
      <4>1. toConsole'[i].acked = h.seq /\ toConsole'[i].count = n
        <5>1. ~ \E j \in DOMAIN o : o[j] = toConsole'[i]
          BY <3>4, <3>5
        <5> QED
          BY <2>5, <5>1
      <4>2. h.seq = p.seq
        BY <3>5, <4>1
      <4> QED
        BY <2>6, <3>3, <4>1, <4>2
    <3> DEFINE e == toConsole'
    <3> HIDE DEF d, c, p, e
    <3> QED
      BY <1>5, <3>2, <3>5
  <2>11. AllAckedInv'
    <3>1. SUFFICES ASSUME allAcked PROVE AllAckedInv'
      BY <1>2 DEF AllAckedInv
    <3>2. CASE ~ Sending
      <4>1. bmcRx.seq = p.seq /\ \A k \in DOMAIN c : c[k].seq \in {0, p.seq}
        BY <1>3, <3>1, <3>2 DEF AllAckedInv
      <4>2. h.seq \in {0, p.seq}
        BY <4>1
      <4> QED
        BY <1>2, <1>10, <4>1, <4>2
    <3>3. CASE Sending
      <4>1. /\ End(p) = typed
            /\ bmcRx.seq = p.seq => \A k \in DOMAIN c : c[k].seq # 0 => c[k].seq = p.seq
            /\ bmcRx.seq # p.seq =>
                  bmcIn = Chars(1, p.data[1] - 1) /\ \A k \in DOMAIN c : c[k].seq \in {0, bmcRx.seq} \/ c[k] = p
        BY <1>3, <3>1, <3>3 DEF AllAckedInv
      <4>2. bmcRx.seq # p.seq
        BY <1>2, <1>10, <4>1
      <4>3. h = p /\ bmcIn = Chars(1, p.data[1] - 1)
        BY <1>2, <1>10, <4>1, <4>2
      <4>4. \A k \in DOMAIN d : d[k].seq # 0 => d[k].seq = p.seq
        <5>1. \A k \in DOMAIN c : c[k].seq # 0 => c[k].seq = p.seq
          BY <1>8, <3>3, <4>3
        <5> HIDE DEF c, d, p
        <5> QED
          BY <1>5, <5>1
      <4>5. g = Chars(1, p.data[1] - 1 + n)
        <5> DEFINE f == p.data[1]
        <5>1. f \in Nat \ {0} /\ IsInput(p, typed)
          BY <1>1, <3>3, SentIsInput
        <5>2. SubSeq(p.data, 1, n) = Chars(f, n)
          BY <1>4, <4>3, <5>1, AcceptedIs
        <5>3. g = Chars(1, f - 1) \o Chars(f, n)
          BY <4>3, <5>2 DEF g
        <5> HIDE DEF f
        <5>4. 1 \in Nat \ {0} /\ f - 1 \in Nat /\ 1 + (f - 1) = f
          BY <5>1
        <5>5. Chars(1, f - 1) \o Chars(1 + (f - 1), n) = Chars(1, (f - 1) + n)
          BY <2>4, <5>4, JoinChars
        <5>6. g = Chars(1, f - 1 + n)
          BY <5>3, <5>4, <5>5
        <5> QED
          BY <5>6 DEF f
      <4>6. z.seq = p.seq /\ z.count = n /\ n <= Len(p.data)
        BY <2>4, <2>6, <4>3
      <4> QED
        BY <1>2, <2>3, <3>3, <4>1, <4>4, <4>5, <4>6 DEF AllAckedInv
    <3> QED
      BY <3>2, <3>3
  <2> QED
    BY <1>2, <1>3, <2>9, <2>10, <2>11
<1> QED
  BY <1>9, <1>10

-----------------------------------------------------------------------------
(* Every step keeps the invariant, and shows the next characters or none.   *)

\* The abstract step, as long as there was no break.
StepShows == [Shown!Next \/ Broken]_(Shown!stream)

LEMMA ShowsOrNot ==
    ASSUME StreamTypes, UNCHANGED <<bmcTx, bmcAcked>>, Broken \/ ShowsNext PROVE StepShows
<1>1. CASE Broken
  BY <1>1 DEF StepShows
<1>2. CASE printed' = printed
  BY <1>2 DEF StepShows, Shown!stream
<1>3. CASE \E k \in (Len(printed) + 1)..(bmcAcked + bmcTx.len) : printed' = Chars(1, k)
  <2>1. PICK k \in (Len(printed) + 1)..(bmcAcked + bmcTx.len) : printed' = Chars(1, k)
    BY <1>3
  <2>2. Len(printed) \in Nat
    BY DEF StreamTypes
  <2> DEFINE n == Len(printed)
             m == bmcAcked + bmcTx.len
  <2>3. k \in (n + 1)..m /\ n \in Nat
    BY <2>1, <2>2
  <2> HIDE DEF n, m
  <2>4. k \in Nat
    BY <2>3
  <2>5. \A i \in 1..k : 1 + i - 1 = i
    BY <2>4
  <2>6. Chars(1, k) = [i \in 1..k |-> i]
    BY <2>5 DEF Chars
  <2>7. Shown!Show
    BY <2>1, <2>6 DEF Shown!Show
  <2> QED
    BY <2>7 DEF StepShows, Shown!Next
<1> QED
  BY <1>1, <1>2, <1>3 DEF ShowsNext

\* The packets stay short.
LEMMA Short ==
    ASSUME StreamTypes, NumbersInv,
           \/ toBMC' = toBMC
           \/ \E q \in Inputs : Len(q.data) <= MaxTyped /\ toBMC' = Append(toBMC, q)
           \/ 1 \in DOMAIN toBMC /\ toBMC' = RemoveAt(toBMC, 1)
    PROVE  \A k \in DOMAIN toBMC' : Len(toBMC'[k].data) <= MaxTyped
<1> DEFINE c == toBMC
           d == toBMC'
<1>1. c \in Seq(Inputs) /\ \A k \in DOMAIN c : Len(c[k].data) <= MaxTyped
  BY DEF StreamTypes, NumbersInv
<1>2. CASE d = c
  BY <1>1, <1>2
<1>3. CASE \E q \in Inputs : Len(q.data) <= MaxTyped /\ d = Append(c, q)
  <2>1. PICK q \in Inputs : Len(q.data) <= MaxTyped /\ d = Append(c, q)
    BY <1>3
  <2> DEFINE n == Len(c)
  <2>2. n \in Nat /\ DOMAIN c = 1..n /\ DOMAIN d = 1..(n + 1) /\ d[n + 1] = q /\ \A k \in DOMAIN c : d[k] = c[k]
    BY <1>1, <2>1, OneMore
  <2> HIDE DEF n, c, d
  <2>3. \A k \in DOMAIN d : k \in DOMAIN c \/ k = n + 1
    BY <2>2
  <2>4. \A k \in DOMAIN d : Len(d[k].data) <= MaxTyped
    BY <1>1, <2>1, <2>2, <2>3
  <2> QED
    BY <2>4 DEF d
<1>4. CASE 1 \in DOMAIN c /\ d = RemoveAt(c, 1)
  <2>1. \A k \in DOMAIN d : k + 1 \in DOMAIN c /\ d[k] = c[k + 1]
    BY <1>1, <1>4, HeadGone
  <2> HIDE DEF c, d
  <2>2. \A k \in DOMAIN d : Len(d[k].data) <= MaxTyped
    BY <1>1, <2>1
  <2> QED
    BY <2>2 DEF d
<1> QED
  BY <1>2, <1>3, <1>4

\* A packet takes its number.
LEMMA Numbering ==
    ASSUME ControlTypes, NEW m \in 1..(SolSeqs + 1), NEW d \in Seq(1..MaxTyped), Len(d) <= MaxTyped, Number(m, d)
    PROVE  /\ pkt' \in Inputs /\ sequence_number' \in 1..(SolSeqs + 1) /\ itry' \in 0..(Retry - 1) /\ pc' = "send"
           /\ sequence_number' = pkt'.seq + 1 /\ pkt'.seq # 0 /\ Len(pkt'.data) <= MaxTyped
<1>1. SaneSeq(m) \in 1..SolSeqs
  BY SolTypes DEF SaneSeq
<1> DEFINE s == SaneSeq(m)
<1>2. /\ pkt' = Packet(s, d, 0, 0, FALSE) /\ sequence_number' = s + 1 /\ itry' = 0 /\ pc' = "send"
  BY DEF Number
<1> HIDE DEF s
<1>3. s \in 1..SolSeqs
  BY <1>1 DEF s
<1>4. pkt' \in Inputs /\ pkt'.seq = s /\ pkt'.seq # 0 /\ pkt'.data = d
  BY <1>2, <1>3, NumberIs
<1>5. s + 1 \in 1..(SolSeqs + 1) /\ 0 \in 0..(Retry - 1)
  BY <1>3, SolTypes, SolAssumption
<1> QED
  BY <1>2, <1>4, <1>5

Kept == StreamTypes' /\ ControlTypes' /\ NumbersInv' /\ OutputInv' /\ InputInv' /\ StepShows

LEMMA TypingKeeps ==
    ASSUME StreamTypes, ControlTypes, NumbersInv, OutputInv, InputInv, NEW n \in ChunkSizes, Type(n) PROVE Kept
<1> DEFINE d == Chars(typed + 1, n)
           s == IncSolSeq
<1>1. /\ Number(s, d) /\ op' = "data" /\ typed' = typed + n /\ sol_seq' = s
      /\ drift' = (drift \/ IncSolSeq # SaneSeq(sequence_number) \/ InUse(IncSolSeq))
      /\ UNCHANGED <<last, slow_link, printed, network, bmc, allAcked, extras>>
      /\ typed + n + Len(extras) <= MaxTyped
  BY DEF Type
<1>2. s \in 1..SolSeqs
  BY SolTypes DEF IncSolSeq, ControlTypes, SeqNums
<1>3. n \in Nat \ {0} /\ typed \in Nat /\ typed + n <= MaxTyped
  <2>1. Len(extras) \in Nat
    BY DEF ControlTypes, BoundedSeq, SeqOf
  <2>2. n \in Nat \ {0} /\ typed \in Nat
    BY SolTypes, SolAssumption DEF ControlTypes
  <2> DEFINE e == Len(extras)
  <2>3. e \in Nat /\ typed + n + e <= MaxTyped
    BY <1>1, <2>1
  <2> HIDE DEF e
  <2> QED
    BY <2>2, <2>3, SolTypes
<1>4. d \in Seq(1..MaxTyped) /\ Len(d) <= MaxTyped
  <2>1. typed + 1 \in Nat \ {0} /\ n \in Nat /\ (typed + 1) + n - 1 <= MaxTyped /\ n <= MaxTyped
    BY <1>3, SolTypes
  <2>2. d \in Seq(1..MaxTyped)
    BY <2>1, SolTypes, CharsUpTo
  <2>3. Len(d) = n
    BY <2>1, CharsAre
  <2> QED
    BY <2>1, <2>2, <2>3
<1> HIDE DEF d, s
<1>5. s \in 1..(SolSeqs + 1) /\ s \in SeqNums
  BY <1>2, SolTypes DEF SeqNums
<1>6. /\ pkt' \in Inputs /\ sequence_number' \in 1..(SolSeqs + 1) /\ itry' \in 0..(Retry - 1) /\ pc' = "send"
      /\ sequence_number' = pkt'.seq + 1 /\ pkt'.seq # 0 /\ Len(pkt'.data) <= MaxTyped
  BY <1>1, <1>4, <1>5, Numbering
<1>7. StreamTypes' /\ OutputInv' /\ ShowsNext
  <2>1. Broken' = Broken /\ UNCHANGED <<toBMC, toConsole, overtakes, bmcTx, bmcAcked>>
    BY <1>1 DEF Broken, network, bmc
  <2> QED
    BY <1>1, <2>1, ConsoleSends
<1>8. ControlTypes'
  <2>1. typed' \in 0..MaxTyped
    BY <1>1, <1>3, SolTypes
  <2>2. drift' \in BOOLEAN
    BY <1>1 DEF ControlTypes, InUse
  <2> QED
    BY <1>1, <1>5, <1>6, <2>1, <2>2 DEF ControlTypes, SeqNums, Inputs, PacketsOver, Accepted, bmc
<1>9. NumbersInv'
  BY <1>1, <1>6 DEF NumbersInv, network
<1>10. StepShows
  BY <1>1, <1>7, ShowsOrNot DEF bmc
<1> QED
  BY <1>7, <1>8, <1>9, <1>10, Typing DEF Kept

LEMMA ExtraKeeps ==
    ASSUME StreamTypes, ControlTypes, NumbersInv, OutputInv, NEW x \in {"break", "empty"}, SendExtra(x) PROVE Kept
<1>1. /\ Number(sequence_number, <<>>) /\ op' = x /\ extras' = Append(extras, x) /\ Len(extras) < MaxExtras
      /\ UNCHANGED <<sol_seq, last, slow_link, printed, network, bmc, typed, allAcked, drift>>
  BY DEF SendExtra
<1>2. <<>> \in Seq(1..MaxTyped) /\ Len(<<>>) <= MaxTyped
  BY SolTypes
<1>3. sequence_number \in 1..(SolSeqs + 1)
  BY DEF ControlTypes
<1>4. /\ pkt' \in Inputs /\ sequence_number' \in 1..(SolSeqs + 1) /\ itry' \in 0..(Retry - 1) /\ pc' = "send"
      /\ sequence_number' = pkt'.seq + 1 /\ pkt'.seq # 0 /\ Len(pkt'.data) <= MaxTyped
  BY <1>1, <1>2, <1>3, Numbering
<1> DEFINE X == {"break", "empty"}
<1>5. extras \in Seq(X) /\ Len(extras) \in Nat /\ x \in X
  BY DEF ControlTypes, BoundedSeq, SeqOf
<1>6. extras' \in BoundedSeq(X, MaxExtras)
  <2> DEFINE n == Len(extras)
  <2>1. extras' \in Seq(X) /\ Len(extras') = n + 1 /\ DOMAIN extras' = 1..(n + 1)
    BY <1>1, <1>5
  <2>2. n \in Nat /\ n < MaxExtras
    BY <1>1, <1>5
  <2> HIDE DEF n
  <2>3. n + 1 \in 0..MaxExtras
    BY <2>2, SolAssumption
  <2>4. extras' \in [1..(n + 1) -> X]
    BY <2>1
  <2> QED
    BY <2>3, <2>4 DEF BoundedSeq, SeqOf
<1>7. (Broken => Broken') /\ (op' = "break" => Broken')
  <2> DEFINE n == Len(extras)
             e == extras'
  <2>1. n \in Nat /\ DOMAIN extras = 1..n /\ DOMAIN e = 1..(n + 1) /\ e[n + 1] = x /\ \A k \in DOMAIN extras : e[k] = extras[k] /\ k \in DOMAIN e
    BY <1>1, <1>5
  <2>2. ToSet(extras) \subseteq ToSet(e)
    BY <2>1 DEF ToSet
  <2>3. x \in ToSet(e)
    <3>1. n + 1 \in DOMAIN e
      BY <2>1
    <3> QED
      BY <2>1, <3>1 DEF ToSet
  <2> QED
    BY <1>1, <2>2, <2>3 DEF Broken
<1>8. StreamTypes' /\ OutputInv' /\ ShowsNext
  BY <1>1, <1>7, ConsoleSends DEF network, bmc
<1>9. ControlTypes'
  <2>1. op' \in {"data", "break", "empty"}
    BY <1>1
  <2> QED
    BY <1>1, <1>4, <1>6, <2>1 DEF ControlTypes, SeqNums, Inputs, PacketsOver, Accepted, bmc
<1>10. NumbersInv'
  BY <1>1, <1>4 DEF NumbersInv, network
<1>11. StepShows
  BY <1>1, <1>8, ShowsOrNot DEF bmc
<1> QED
  BY <1>8, <1>9, <1>10, <1>11, Extra DEF Kept

LEMMA TransmittingKeeps ==
    ASSUME StreamTypes, ControlTypes, NumbersInv, OutputInv, InputInv, Transmit PROVE Kept
<1>1. /\ pc = "send" /\ pc' = "recv" /\ toBMC' \in Sent(toBMC, pkt)
      /\ UNCHANGED <<console, op, pkt, itry, toConsole, overtakes, bmc, history>>
  BY DEF Transmit
<1>2. pkt \in Inputs /\ pkt.seq # 0 /\ Len(pkt.data) <= MaxTyped
  BY <1>1 DEF ControlTypes, NumbersInv, Sending
<1>3. Broken' = Broken /\ (op' = "break" => Broken')
  BY <1>1 DEF Broken, history, OutputInv
<1>4. StreamTypes' /\ OutputInv' /\ ShowsNext
  BY <1>1, <1>2, <1>3, ConsoleSends DEF console, bmc
<1>5. ControlTypes'
  BY <1>1 DEF ControlTypes, SeqNums, Inputs, PacketsOver, Accepted, bmc, console, history
<1>6. NumbersInv'
  <2>1. \A k \in DOMAIN toBMC' : Len(toBMC'[k].data) <= MaxTyped
    BY <1>1, <1>2, SentIs, Short
  <2> QED
    BY <1>1, <1>2, <2>1 DEF NumbersInv, console
<1>7. StepShows
  BY <1>1, <1>4, ShowsOrNot DEF bmc
<1> QED
  BY <1>4, <1>5, <1>6, <1>7, Transmitting DEF Kept

\* Steps that send nothing and receive nothing.
LEMMA QuietKeeps ==
    ASSUME StreamTypes, ControlTypes, NumbersInv, OutputInv, InputInv,
           UNCHANGED <<console, network, bmc, typed, extras, drift, op, pkt>>,
           pc' \in {"idle", "send", "recv", "keepalive", "done"}, itry' \in 0..(Retry - 1), allAcked' \in BOOLEAN,
           (Sending)' => Sending, allAcked' /\ op = "data" => allAcked /\ ((Sending)' \/ ~ Sending)
    PROVE  Kept
<1>1. Broken' = Broken /\ (op' = "break" => Broken')
  BY DEF Broken, OutputInv
<1>2. UNCHANGED <<toBMC, toConsole, overtakes, bmcIn, bmcRx, bmcTx, bmcAcked, partials, last, printed, sol_seq, slow_link, sequence_number>>
  BY DEF network, bmc, console
<1>3. StreamTypes' /\ OutputInv' /\ ShowsNext
  BY <1>1, <1>2, ConsoleSends
<1>4. ControlTypes'
  BY <1>2 DEF ControlTypes, SeqNums, Inputs, PacketsOver, Accepted
<1>5. NumbersInv'
  BY <1>2 DEF NumbersInv
<1>6. InputInv'
  <2>1. SUFFICES ASSUME Calm PROVE op = "data" /\ InputsInv' /\ GenuineInv' /\ AllAckedInv'
    BY DEF InputInv, Calm
  <2>2. op = "data"
    BY <2>1 DEF InputInv
  <2>3. \A i \in DOMAIN toConsole' : toConsole'[i].acked # 0 =>
           \E j \in DOMAIN toConsole : toConsole[j].acked = toConsole'[i].acked /\ toConsole[j].count = toConsole'[i].count
    BY <1>2
  <2>4. InputsInv' /\ GenuineInv' /\ AllAckedInv'
    BY <1>2, <2>1, <2>2, <2>3, InputQuiet
  <2> QED
    BY <2>2, <2>4
<1>7. StepShows
  BY <1>2, <1>3, ShowsOrNot
<1> QED
  BY <1>3, <1>4, <1>5, <1>6, <1>7 DEF Kept

\* A packet from the BMC that does not make the console send a rest.
LEMMA ReceivingKeeps ==
    ASSUME MaxOvertakes = 0, StreamTypes, ControlTypes, NumbersInv, OutputInv, InputInv, 1 \in DOMAIN toConsole, RecvSol(1),
           printed' = printed \o Fresh(toConsole[1]) \/ (Broken /\ printed' = printed),
           UNCHANGED <<sequence_number, sol_seq, slow_link, pkt, op, bmc, typed, extras, drift>>,
           pc' \in {"idle", "send", "recv", "keepalive", "done"}, itry' \in 0..(Retry - 1), allAcked' \in BOOLEAN,
           (Sending)' => Sending,
           Calm /\ allAcked' /\ op = "data" => allAcked /\ ((Sending)' \/ ~ Sending \/ (Acks(toConsole[1]) /\ Rest(toConsole[1]) = <<>>))
    PROVE  Kept
<1>1. UNCHANGED <<bmcIn, bmcRx, bmcTx, bmcAcked, partials>>
  BY DEF bmc
<1>2. StreamTypes' /\ OutputInv' /\ (Broken \/ ShowsNext)
  BY <1>1, ConsoleHears
<1>3. InputInv'
  BY <1>1, Receiving
<1>4. ControlTypes'
  BY <1>1 DEF ControlTypes, SeqNums, Inputs, PacketsOver, Accepted
<1>5. NumbersInv'
  <2>1. toBMC' = toBMC \/ \E q \in Inputs : Len(q.data) <= MaxTyped /\ toBMC' = Append(toBMC, q)
    <3>1. toBMC' = toBMC \/ \E q \in Inputs : q.seq = 0 /\ Len(q.data) = 0 /\ toBMC' = Append(toBMC, q)
      BY RecvIs
    <3> QED
      BY <3>1, SolTypes
  <2>2. \A k \in DOMAIN toBMC' : Len(toBMC'[k].data) <= MaxTyped
    BY <2>1, Short
  <2> QED
    BY <2>2 DEF NumbersInv
<1>6. StepShows
  BY <1>1, <1>2, ShowsOrNot
<1> QED
  BY <1>2, <1>3, <1>4, <1>5, <1>6 DEF Kept

\* Who shows the characters, and whether.
LEMMA ShowIs ==
    ASSUME OutputInv, NEW p, Show(p)
    PROVE  printed' = printed \o Fresh(p) \/ (Broken /\ printed' = printed)
BY DEF Show, Output, OutputInv

\* The rest of a packet is sent.
LEMMA SendingRestKeeps ==
    ASSUME MaxOvertakes = 0, StreamTypes, ControlTypes, NumbersInv, OutputInv, InputInv, 1 \in DOMAIN toConsole, PartlyAcked(1)
    PROVE  Kept
<1> DEFINE p == toConsole[1]
<1>1. /\ RecvSol(1) /\ Show(p) /\ Number(sequence_number, Rest(p))
      /\ drift' = (drift \/ InUse(SaneSeq(sequence_number)))
      /\ UNCHANGED <<sol_seq, slow_link, op, bmcIn, bmcRx, bmcTx, bmcAcked, partials, typed, allAcked, extras>>
  BY DEF PartlyAcked, bmc
<1>2. printed' = printed \o Fresh(p) \/ (Broken /\ printed' = printed)
  BY <1>1, ShowIs
<1>3. StreamTypes' /\ OutputInv' /\ (Broken \/ ShowsNext)
  BY <1>1, <1>2, ConsoleHears
<1>4. InputInv'
  BY SendingRest
<1>5. Rest(p) \in Seq(1..MaxTyped) /\ Len(Rest(p)) <= MaxTyped
  <2>1. p \in Outputs
    BY <1>1, RecvIs
  <2> DEFINE n == Len(pkt.data)
             m == p.count
             r == Rest(p)
  <2>2. /\ m \in Nat /\ n \in Nat /\ (r = <<>> <=> m >= n) /\ r \in Seq(1..MaxTyped) /\ (m < n => Len(r) = n - m) /\ n <= MaxTyped
    BY <2>1, RestIs DEF NumbersInv
  <2> HIDE DEF n, m, r
  <2>3. CASE m < n
    BY <2>2, <2>3, SolTypes DEF r
  <2>4. CASE ~ (m < n)
    <3>1. r = <<>>
      BY <2>2, <2>4
    <3>2. Len(r) = 0
      BY <3>1
    <3> QED
      BY <2>2, <3>2, SolTypes DEF r
  <2> QED
    BY <2>3, <2>4
<1>6. sequence_number \in 1..(SolSeqs + 1)
  BY DEF ControlTypes
<1>7. /\ pkt' \in Inputs /\ sequence_number' \in 1..(SolSeqs + 1) /\ itry' \in 0..(Retry - 1) /\ pc' = "send"
      /\ sequence_number' = pkt'.seq + 1 /\ pkt'.seq # 0 /\ Len(pkt'.data) <= MaxTyped
  BY <1>1, <1>5, <1>6, Numbering
<1>8. ControlTypes'
  <2>1. drift' \in BOOLEAN
    BY <1>1 DEF ControlTypes, InUse
  <2> QED
    BY <1>1, <1>7, <2>1 DEF ControlTypes, SeqNums, Inputs, PacketsOver, Accepted
<1>9. NumbersInv'
  <2>1. toBMC' = toBMC \/ \E q \in Inputs : Len(q.data) <= MaxTyped /\ toBMC' = Append(toBMC, q)
    <3>1. toBMC' = toBMC \/ \E q \in Inputs : q.seq = 0 /\ Len(q.data) = 0 /\ toBMC' = Append(toBMC, q)
      BY <1>1, RecvIs
    <3> QED
      BY <3>1, SolTypes
  <2>2. \A k \in DOMAIN toBMC' : Len(toBMC'[k].data) <= MaxTyped
    BY <2>1, Short
  <2> QED
    BY <1>7, <2>2 DEF NumbersInv
<1>10. StepShows
  BY <1>1, <1>3, ShowsOrNot
<1> QED
  BY <1>3, <1>4, <1>8, <1>9, <1>10 DEF Kept

LEMMA BmcReceivingKeeps ==
    ASSUME MaxOvertakes = 0, StreamTypes, ControlTypes, NumbersInv, OutputInv, InputInv, 1 \in DOMAIN toBMC, BmcReceive(1)
    PROVE  Kept
<1> DEFINE h == toBMC[1]
<1>1. /\ Overtaken(1) /\ toBMC' = RemoveAt(toBMC, 1)
      /\ UNCHANGED <<console, control, bmcTx, bmcAcked, history>>
  BY DEF BmcReceive
<1>2. h \in Inputs /\ h.seq \in SeqNums /\ Len(h.data) \in Nat /\ h.data \in Seq(1..MaxTyped) /\ Len(h.data) <= MaxTyped
  <2>1. h \in Inputs
    BY InputTypes DEF StreamTypes
  <2> QED
    BY <2>1, PacketTypes, SolTypes DEF Inputs, NumbersInv
<1>3. bmcRx \in Accepted /\ bmcRx.count \in Nat /\ bmcRx.stop \in BOOLEAN /\ bmcIn \in Seq(1..MaxTyped) /\ partials \in 0..MaxPartials
  BY SolTypes DEF ControlTypes, Accepted
<1>4. \E s \in SeqNums, n \in Nat, flag \in BOOLEAN : \E a \in Answers(Packet(0, <<>>, s, n, flag)) :
         toConsole' \in Sent(toConsole, a) /\ bmcIn' \in Seq(1..MaxTyped) /\ bmcRx' \in Accepted /\ partials' \in 0..MaxPartials
  <2>1. ASSUME NEW n \in Nat, n <= Len(h.data), n < Len(h.data) => partials < MaxPartials, NEW flag \in BOOLEAN, BmcAccept(h, n, flag)
        PROVE  /\ bmcIn' \in Seq(1..MaxTyped) /\ bmcRx' \in Accepted /\ partials' \in 0..MaxPartials
               /\ \E a \in Answers(Packet(0, <<>>, h.seq, n, flag)) : toConsole' \in Sent(toConsole, a)
    <3>1. SubSeq(h.data, 1, n) \in Seq(1..MaxTyped)
      BY <1>2, <2>1, FrontOf
    <3>2. bmcIn' \in Seq(1..MaxTyped)
      <4>1. bmcIn' = bmcIn \o SubSeq(h.data, 1, n)
        BY <2>1 DEF BmcAccept
      <4> QED
        BY <1>3, <3>1, <4>1, ConcatProperties
    <3>3. n \in 0..MaxTyped
      <4> DEFINE l == Len(h.data)
      <4>1. l \in Nat /\ l <= MaxTyped /\ n <= l
        BY <1>2, <2>1
      <4> HIDE DEF l
      <4> QED
        BY <4>1, SolTypes
    <3>4. bmcRx' \in Accepted
      BY <1>2, <2>1, <3>3 DEF BmcAccept, Accepted
    <3>5. partials' \in 0..MaxPartials
      <4>1. partials' = IF n < Len(h.data) THEN partials + 1 ELSE partials
        BY <2>1 DEF BmcAccept
      <4>2. MaxPartials \in Nat
        BY SolAssumption
      <4> QED
        BY <1>3, <2>1, <4>1, <4>2
    <3> QED
      BY <2>1, <3>2, <3>4, <3>5 DEF BmcAccept
  <2>2. CASE h.seq # bmcRx.seq
    <3>1. CASE BmcAccept(h, Len(h.data), FALSE)
      <4> DEFINE n == Len(h.data)
      <4>1. n \in Nat /\ n <= n /\ (n < n => partials < MaxPartials) /\ FALSE \in BOOLEAN /\ BmcAccept(h, n, FALSE)
        <5>1. n \in Nat
          BY <1>2
        <5> HIDE DEF n
        <5>2. n <= n /\ ~ (n < n)
          BY <5>1
        <5> QED
          BY <3>1, <5>1, <5>2 DEF n
      <4> HIDE DEF h
      <4> QED
        BY <1>2, <2>1, <4>1
    <3>2. CASE partials < MaxPartials /\ \E n \in 0..(Len(h.data) - 1), flag \in BOOLEAN : BmcAccept(h, n, flag)
      <4>1. PICK n \in 0..(Len(h.data) - 1), flag \in BOOLEAN : BmcAccept(h, n, flag)
        BY <3>2
      <4>2. n \in Nat /\ n <= Len(h.data)
        BY <1>2
      <4> HIDE DEF h
      <4> QED
        BY <1>2, <2>1, <3>2, <4>1, <4>2
    <3> QED
      BY <2>2, <3>1, <3>2 DEF BmcReceive
  <2>3. CASE h.seq = bmcRx.seq
    <3>1. /\ UNCHANGED <<bmcIn, bmcRx, partials>>
          /\ \E a \in Answers(Packet(0, <<>>, h.seq, bmcRx.count, bmcRx.stop)) : toConsole' \in Sent(toConsole, a)
      BY <2>3 DEF BmcReceive
    <3> HIDE DEF h
    <3> QED
      BY <1>2, <1>3, <3>1
  <2> QED
    BY <2>2, <2>3
<1>5. PICK a \in Outputs : (a.seq = 0 \/ (IsCurrent(a, bmcTx) /\ a.data = Chars(bmcAcked + 1, bmcTx.len))) /\ toConsole' \in Sent(toConsole, a)
  <2>1. PICK s \in SeqNums, n \in Nat, flag \in BOOLEAN : \E a \in Answers(Packet(0, <<>>, s, n, flag)) : toConsole' \in Sent(toConsole, a)
    BY <1>4
  <2>2. PICK a \in Answers(Packet(0, <<>>, s, n, flag)) : toConsole' \in Sent(toConsole, a)
    BY <2>1
  <2> QED
    BY <2>2, AnswerIs DEF OutputInv
<1>6. bmcIn' \in Seq(1..MaxTyped) /\ bmcRx' \in Accepted /\ partials' \in 0..MaxPartials
  BY <1>4
<1>7. UNCHANGED <<last, printed, bmcTx, bmcAcked, extras, op>>
  BY <1>1 DEF console, control, history
<1>8. StreamTypes' /\ OutputInv' /\ ShowsNext
  BY <1>1, <1>5, <1>7, BmcHears
<1>9. ControlTypes'
  BY <1>1, <1>6 DEF ControlTypes, SeqNums, Inputs, PacketsOver, Accepted, console, control, history
<1>10. NumbersInv'
  <2>1. \A k \in DOMAIN toBMC' : Len(toBMC'[k].data) <= MaxTyped
    BY <1>1, Short
  <2> QED
    BY <1>1, <2>1 DEF NumbersInv, Sending, console, control
<1>11. StepShows
  BY <1>7, <1>8, ShowsOrNot
<1> QED
  BY <1>8, <1>9, <1>10, <1>11, BmcReceiving DEF Kept

LEMMA BmcAckedKeeps ==
    ASSUME MaxOvertakes = 0, StreamTypes, ControlTypes, NumbersInv, OutputInv, InputInv, 1 \in DOMAIN toBMC, BmcAcked(1)
    PROVE  Kept
<1>1. /\ toBMC[1].seq = 0 /\ toBMC' = RemoveAt(toBMC, 1)
      /\ UNCHANGED <<console, control, toConsole, partials, bmcIn, bmcRx, history>>
  BY DEF BmcAcked
<1>2. StreamTypes' /\ OutputInv' /\ ShowsNext /\ bmcAcked' + bmcTx'.len = bmcAcked + bmcTx.len
  BY BmcIsAcked
<1>3. ControlTypes'
  BY <1>1 DEF ControlTypes, SeqNums, Inputs, PacketsOver, Accepted, console, control, history
<1>4. NumbersInv'
  <2>1. \A k \in DOMAIN toBMC' : Len(toBMC'[k].data) <= MaxTyped
    BY <1>1, Short
  <2> QED
    BY <1>1, <2>1 DEF NumbersInv, Sending, console, control
<1>5. InputInv'
  <2>1. SUFFICES ASSUME Calm PROVE op = "data" /\ InputsInv' /\ GenuineInv' /\ AllAckedInv'
    BY <1>1 DEF InputInv, Calm, history, control
  <2>2. \A i \in DOMAIN toConsole' : toConsole'[i].acked # 0 =>
           \E j \in DOMAIN toConsole : toConsole[j].acked = toConsole'[i].acked /\ toConsole[j].count = toConsole'[i].count
    BY <1>1
  <2>3. (Sending)' = Sending /\ UNCHANGED <<pkt, bmcIn, bmcRx, typed, allAcked>>
    BY <1>1 DEF Sending, control, history
  <2>4. InputsInv' /\ GenuineInv' /\ AllAckedInv'
    BY <1>1, <2>1, <2>2, <2>3, InputQuiet
  <2> QED
    BY <2>1, <2>4 DEF InputInv
<1>6. StepShows
  BY <1>1, <1>2 DEF StepShows, Shown!stream, console
<1> QED
  BY <1>2, <1>3, <1>4, <1>5, <1>6 DEF Kept

LEMMA BmcSendKeeps ==
    ASSUME StreamTypes, ControlTypes, NumbersInv, OutputInv, InputInv, NEW n \in 1..MaxMade, BmcSend(n) PROVE Kept
<1> DEFINE s == IF bmcTx.len = 0 THEN (bmcTx.seq % SolSeqs) + 1 ELSE bmcTx.seq
           p == Pending(s, n, Ack(0, 0))
<1>1. /\ toConsole' \in Sent(toConsole, p)
      /\ UNCHANGED <<console, control, toBMC, overtakes, partials, bmcIn, bmcRx, bmcAcked, history>>
  BY DEF BmcSend
<1>2. StreamTypes' /\ OutputInv' /\ ShowsNext /\ bmcAcked' = bmcAcked /\ bmcTx'.len = n /\ n >= bmcTx.len
  BY BmcMakes
<1>3. ControlTypes'
  BY <1>1 DEF ControlTypes, SeqNums, Inputs, PacketsOver, Accepted, console, control, history
<1>4. NumbersInv'
  BY <1>1 DEF NumbersInv, Sending, console, control
<1>5. InputInv'
  <2>1. SUFFICES ASSUME Calm PROVE op = "data" /\ InputsInv' /\ GenuineInv' /\ AllAckedInv'
    BY <1>1 DEF InputInv, Calm, history, control
  <2>2. p.acked = 0
    <3> DEFINE q == Ack(0, 0)
               d == Chars(bmcAcked + 1, n)
    <3>1. p = [q EXCEPT !.seq = s, !.data = d]
      BY DEF Pending
    <3>2. q = [seq |-> 0, data |-> <<>>, acked |-> 0, count |-> 0, stop |-> FALSE]
      BY DEF Ack, Packet
    <3> HIDE DEF d, p, q, s
    <3> QED
      BY <3>1, <3>2
  <2> HIDE DEF p
  <2>3. \A i \in DOMAIN toConsole' : toConsole'[i].acked # 0 =>
           \E j \in DOMAIN toConsole : toConsole[j].acked = toConsole'[i].acked /\ toConsole[j].count = toConsole'[i].count
    <3>1. CASE toConsole' = toConsole
      BY <3>1
    <3>2. CASE toConsole' = Append(toConsole, p)
      <4> DEFINE o == toConsole
                 e == toConsole'
                 r == Len(o)
      <4>1. r \in Nat /\ DOMAIN o = 1..r /\ DOMAIN e = 1..(r + 1) /\ e[r + 1] = p /\ \A k \in DOMAIN o : e[k] = o[k]
        BY <3>2 DEF StreamTypes
      <4> HIDE DEF e, r, o
      <4>2. \A k \in DOMAIN e : k \in DOMAIN o \/ k = r + 1
        BY <4>1
      <4>3. \A i \in DOMAIN e : e[i].acked # 0 => \E j \in DOMAIN o : o[j].acked = e[i].acked /\ o[j].count = e[i].count
        BY <2>2, <4>1, <4>2
      <4> QED
        BY <4>3 DEF e, o
    <3> QED
      BY <1>1, <3>1, <3>2, SentIs
  <2>4. (Sending)' = Sending /\ UNCHANGED <<pkt, bmcIn, bmcRx, typed, allAcked>>
    BY <1>1 DEF Sending, control, history
  <2>5. InputsInv' /\ GenuineInv' /\ AllAckedInv'
    BY <1>1, <2>1, <2>3, <2>4, InputQuiet
  <2> QED
    BY <2>1, <2>5 DEF InputInv
<1>6. StepShows
  <2> DEFINE m == bmcAcked + bmcTx.len
             k == bmcAcked' + bmcTx'.len
  <2>1. bmcAcked \in Nat /\ bmcTx.len \in Nat /\ n \in Nat
    BY SolTypes DEF StreamTypes, Waitings
  <2>2. m \in Nat /\ k \in Nat /\ k >= m
    BY <1>2, <2>1
  <2> HIDE DEF m, k
  <2>3. k = m \/ k > m
    BY <2>2
  <2>4. printed' = printed
    BY <1>1 DEF console
  <2>5. CASE k = m
    BY <2>4, <2>5 DEF StepShows, Shown!stream, m, k
  <2>6. CASE k > m
    BY <2>2, <2>4, <2>6 DEF StepShows, Shown!Next, Shown!Make, m, k
  <2> QED
    BY <2>3, <2>5, <2>6
<1> QED
  BY <1>2, <1>3, <1>4, <1>5, <1>6 DEF Kept

\* A step of the console in lan2_recv_sol, or while it sends.
LEMMA ReceiveKeeps ==
    ASSUME MaxOvertakes = 0, StreamTypes, ControlTypes, NumbersInv, OutputInv, InputInv, NEW i \in DOMAIN toConsole,
           Acked(i) \/ PartlyAcked(i) \/ NotAcked(i) \/ OutputArrives(i)
    PROVE  Kept
<1> DEFINE p == toConsole[1]
<1>1. i = 1
  <2>1. Arrives(i) /\ Overtaken(i)
    BY DEF Acked, PartlyAcked, NotAcked, OutputArrives, RecvSol
  <2> QED
    BY <2>1, FirstArrives
<1>2. 1 \in DOMAIN toConsole
  BY <1>1
<1>3. allAcked \in BOOLEAN /\ itry \in 0..(Retry - 1) /\ op \in {"data", "break", "empty"}
  BY DEF ControlTypes
<1>4. CASE Acked(1)
  <2>1. /\ pc = "recv" /\ RecvSol(1) /\ Acks(p) /\ Show(p) /\ pc' = "idle"
        /\ allAcked' = (allAcked /\ (op = "data" => Rest(p) = <<>>))
        /\ UNCHANGED <<op, pkt, itry, sequence_number, sol_seq, slow_link, bmc, typed, extras, drift>>
    BY <1>4 DEF Acked, Return
  <2>2. printed' = printed \o Fresh(p) \/ (Broken /\ printed' = printed)
    BY <2>1, ShowIs
  <2>3. ~ (Sending)'
    BY <2>1 DEF Sending
  <2>4. Calm /\ allAcked' /\ op = "data" => allAcked /\ ((Sending)' \/ ~ Sending \/ (Acks(p) /\ Rest(p) = <<>>))
    BY <2>1
  <2>5. pc' \in {"idle", "send", "recv", "keepalive", "done"} /\ itry' \in 0..(Retry - 1) /\ allAcked' \in BOOLEAN
    BY <1>3, <2>1
  <2> QED
    BY <1>2, <2>1, <2>2, <2>3, <2>4, <2>5, ReceivingKeeps
<1>5. CASE PartlyAcked(1)
  BY <1>2, <1>5, SendingRestKeeps
<1>6. CASE NotAcked(1)
  <2>1. /\ pc = "recv" /\ RecvSol(1) /\ Show(p)
        /\ (\E again \in BOOLEAN : NextTry(again)) \/ Return(FALSE)
        /\ UNCHANGED <<sequence_number, sol_seq, slow_link, bmc, typed, extras, drift>>
    BY <1>6 DEF NotAcked
  <2>2. printed' = printed \o Fresh(p) \/ (Broken /\ printed' = printed)
    BY <2>1, ShowIs
  <2>3. CASE \E again \in BOOLEAN : NextTry(again)
    <3>1. /\ itry' \in 0..(Retry - 1) /\ pc' \in {"send", "recv"} /\ UNCHANGED <<op, pkt, allAcked>>
      <4>1. itry + 1 < Retry /\ itry' = itry + 1 /\ pc' \in {"send", "recv"} /\ UNCHANGED <<op, pkt, allAcked>>
        BY <2>3 DEF NextTry
      <4> QED
        BY <1>3, <4>1, SolAssumption
    <3>2. Sending /\ (Sending)'
      BY <2>1, <3>1 DEF Sending
    <3>3. pc' \in {"idle", "send", "recv", "keepalive", "done"} /\ allAcked' \in BOOLEAN
      BY <1>3, <3>1
    <3>4. Calm /\ allAcked' /\ op = "data" => allAcked /\ ((Sending)' \/ ~ Sending \/ (Acks(p) /\ Rest(p) = <<>>))
      BY <3>1, <3>2
    <3> QED
      BY <1>2, <2>1, <2>2, <3>1, <3>2, <3>3, <3>4, ReceivingKeeps
  <2>4. CASE Return(FALSE)
    <3>1. pc' = "idle" /\ allAcked' = (allAcked /\ op # "data") /\ UNCHANGED <<op, pkt, itry>>
      BY <2>4 DEF Return
    <3>2. ~ (Sending)'
      BY <3>1 DEF Sending
    <3>3. pc' \in {"idle", "send", "recv", "keepalive", "done"} /\ itry' \in 0..(Retry - 1) /\ allAcked' \in BOOLEAN
      BY <1>3, <3>1
    <3>4. Calm /\ allAcked' /\ op = "data" => allAcked /\ ((Sending)' \/ ~ Sending \/ (Acks(p) /\ Rest(p) = <<>>))
      BY <3>1
    <3> QED
      BY <1>2, <2>1, <2>2, <3>1, <3>2, <3>3, <3>4, ReceivingKeeps
  <2> QED
    BY <2>1, <2>3, <2>4
<1>7. CASE OutputArrives(1)
  <2>1. /\ pc \in {"idle", "keepalive"} /\ RecvSol(1) /\ printed' = printed \o Fresh(p)
        /\ UNCHANGED <<sequence_number, sol_seq, slow_link, control, bmc, history>>
    BY <1>7 DEF OutputArrives, Output
  <2>2. UNCHANGED <<pc, op, pkt, itry, typed, allAcked, extras, drift>>
    BY <2>1 DEF control, history
  <2>3. ~ Sending /\ ~ (Sending)'
    BY <2>1, <2>2 DEF Sending
  <2>4. pc' \in {"idle", "send", "recv", "keepalive", "done"} /\ itry' \in 0..(Retry - 1) /\ allAcked' \in BOOLEAN
    BY <1>3, <2>1, <2>2
  <2>5. Calm /\ allAcked' /\ op = "data" => allAcked /\ ((Sending)' \/ ~ Sending \/ (Acks(p) /\ Rest(p) = <<>>))
    BY <2>2, <2>3
  <2> QED
    BY <1>2, <2>1, <2>2, <2>3, <2>4, <2>5, ReceivingKeeps
<1> QED
  BY <1>1, <1>4, <1>5, <1>6, <1>7

\* A step of the console without a packet.
LEMMA AloneKeeps ==
    ASSUME StreamTypes, ControlTypes, NumbersInv, OutputInv, InputInv,
           TransmitFails \/ OtherAnswer \/ NoAnswer \/ ReadError \/ Keepalive \/ KeepaliveReturns
    PROVE  Kept
<1>1. allAcked \in BOOLEAN /\ itry \in 0..(Retry - 1) /\ op \in {"data", "break", "empty"} /\ pc \in {"idle", "send", "recv", "keepalive", "done"}
  BY DEF ControlTypes
<1> DEFINE Rested == UNCHANGED <<console, network, bmc, typed, extras, drift, op, pkt>>
           PcOK == pc' \in {"idle", "send", "recv", "keepalive", "done"}
           TryOK == itry' \in 0..(Retry - 1) /\ allAcked' \in BOOLEAN
           EndOK == ((Sending)' => Sending) /\ (allAcked' /\ op = "data" => allAcked /\ ((Sending)' \/ ~ Sending))
<1>2. ASSUME Rested, pc \in {"send", "recv"}, \E again \in BOOLEAN : NextTry(again)
      PROVE  Rested /\ PcOK /\ TryOK /\ EndOK
  <2>1. itry + 1 < Retry /\ itry' = itry + 1 /\ pc' \in {"send", "recv"} /\ UNCHANGED allAcked
    BY <1>2 DEF NextTry
  <2>2. itry' \in 0..(Retry - 1)
    BY <1>1, <2>1, SolAssumption
  <2>3. Sending /\ (Sending)'
    BY <1>2, <2>1 DEF Sending
  <2> QED
    BY <1>1, <1>2, <2>1, <2>2, <2>3
<1>3. ASSUME Rested, pc \in {"send", "recv"}, Return(FALSE) \/ Dropped PROVE Rested /\ PcOK /\ TryOK /\ EndOK
  <2>1. pc' \in {"idle", "done"} /\ allAcked' = (allAcked /\ op # "data") /\ UNCHANGED itry
    BY <1>3 DEF Return, Dropped
  <2>2. ~ (Sending)'
    BY <2>1 DEF Sending
  <2> QED
    BY <1>1, <1>3, <2>1, <2>2
<1>4. ASSUME Rested, pc \in {"idle", "keepalive"}, pc' \in {"idle", "keepalive", "done"}, UNCHANGED <<itry, allAcked>>
      PROVE  Rested /\ PcOK /\ TryOK /\ EndOK
  <2>1. ~ Sending /\ ~ (Sending)'
    BY <1>4 DEF Sending
  <2> QED
    BY <1>1, <1>4, <2>1
<1>5. Rested /\ PcOK /\ TryOK /\ EndOK
  <2>1. CASE TransmitFails
    <3>1. Rested /\ pc \in {"send", "recv"} /\ Dropped
      BY <2>1 DEF TransmitFails, Dropped
    <3> HIDE DEF Rested, PcOK, TryOK, EndOK
    <3> QED
      BY <1>3, <3>1
  <2>2. CASE OtherAnswer
    <3>1. Rested /\ pc \in {"send", "recv"} /\ ((\E again \in BOOLEAN : NextTry(again)) \/ Return(FALSE))
      BY <2>2 DEF OtherAnswer, NextTry, Return
    <3> HIDE DEF Rested, PcOK, TryOK, EndOK
    <3> QED
      BY <1>2, <1>3, <3>1
  <2>3. CASE NoAnswer
    <3>1. Rested /\ pc \in {"send", "recv"} /\ ((\E again \in BOOLEAN : NextTry(again)) \/ Dropped)
      BY <2>3 DEF NoAnswer, NextTry, Dropped
    <3> HIDE DEF Rested, PcOK, TryOK, EndOK
    <3> QED
      BY <1>2, <1>3, <3>1
  <2>4. CASE ReadError \/ Keepalive \/ KeepaliveReturns
    <3>1. Rested /\ pc \in {"idle", "keepalive"} /\ pc' \in {"idle", "keepalive", "done"} /\ UNCHANGED <<itry, allAcked>>
      BY <2>4 DEF ReadError, Keepalive, KeepaliveReturns, history
    <3> HIDE DEF Rested, PcOK, TryOK, EndOK
    <3> QED
      BY <1>4, <3>1
  <2> HIDE DEF Rested, PcOK, TryOK, EndOK
  <2> QED
    BY <2>1, <2>2, <2>3, <2>4
<1> QED
  BY <1>5, QuietKeeps

LEMMA StepKeeps ==
    ASSUME MaxOvertakes = 0, SolInv, [Next]_vars PROVE SolInv' /\ StepShows
<1>1. StreamTypes /\ ControlTypes /\ NumbersInv /\ OutputInv /\ InputInv
  BY TypesAre DEF SolInv
<1>2. CASE Next
  <2>1. ASSUME NEW n \in ChunkSizes, Type(n) PROVE Kept
    BY <1>1, <2>1, TypingKeeps
  <2>2. ASSUME NEW x \in {"break", "empty"}, SendExtra(x) PROVE Kept
    BY <1>1, <2>2, ExtraKeeps
  <2>3. ASSUME Transmit PROVE Kept
    BY <1>1, <2>3, TransmittingKeeps
  <2>4. ASSUME NEW i \in DOMAIN toConsole, Acked(i) \/ PartlyAcked(i) \/ NotAcked(i) \/ OutputArrives(i) PROVE Kept
    BY <1>1, <2>4, ReceiveKeeps
  <2>5. ASSUME TransmitFails \/ OtherAnswer \/ NoAnswer \/ ReadError \/ Keepalive \/ KeepaliveReturns PROVE Kept
    BY <1>1, <2>5, AloneKeeps
  <2>6. ASSUME NEW i \in DOMAIN toBMC, BmcReceive(i) \/ BmcAcked(i) PROVE Kept
    <3>1. Arrives(i) /\ Overtaken(i)
      BY <2>6 DEF BmcReceive, BmcAcked
    <3>2. i = 1
      BY <1>1, <3>1, FirstArrives
    <3>3. CASE BmcReceive(i)
      BY <1>1, <3>2, <3>3, BmcReceivingKeeps
    <3>4. CASE BmcAcked(i)
      BY <1>1, <3>2, <3>4, BmcAckedKeeps
    <3> QED
      BY <2>6, <3>3, <3>4
  <2>7. ASSUME NEW n \in 1..MaxMade, BmcSend(n) PROVE Kept
    BY <1>1, <2>7, BmcSendKeeps
  <2>8. Kept
    BY <1>2, <2>1, <2>2, <2>3, <2>4, <2>5, <2>6, <2>7 DEF Next, Engine, Receive, Bmc
  <2> QED
    BY <2>8, TypesAreNext DEF Kept, SolInv
<1>3. CASE UNCHANGED vars
  <2>1. UNCHANGED <<console, control, network, bmc, history>>
    BY <1>3 DEF vars
  <2>2. Kept
    <3>1. UNCHANGED <<op, pkt, pc, itry, typed, allAcked, extras, drift>>
      BY <2>1 DEF control, history
    <3>2. pc' \in {"idle", "send", "recv", "keepalive", "done"} /\ itry' \in 0..(Retry - 1) /\ allAcked' \in BOOLEAN
      BY <1>1, <3>1 DEF ControlTypes
    <3>3. (Sending)' = Sending
      BY <3>1 DEF Sending
    <3> QED
      BY <1>1, <2>1, <3>1, <3>2, <3>3, QuietKeeps
  <2> QED
    BY <2>2, TypesAreNext DEF Kept, SolInv
<1> QED
  BY <1>2, <1>3

LEMMA InitHolds == Init => SolInv
<1> SUFFICES ASSUME Init PROVE SolInv
  OBVIOUS
<1>1. <<>> \in Seq(1..MaxTyped) /\ <<>> \in Seq(1..MaxMade) /\ Len(<<>>) = 0 /\ <<>> \in Seq(Inputs) /\ <<>> \in Seq(Outputs)
  OBVIOUS
<1>2. DOMAIN <<>> = {} /\ \A k \in DOMAIN <<>> : FALSE
  OBVIOUS
<1>3. 0 \in 0..MaxTyped /\ 0 \in 0..MaxMade /\ 0 \in 0..MaxOvertakes /\ 0 \in 0..MaxPartials /\ 0 \in 0..(Retry - 1) /\ 1 \in 1..(SolSeqs + 1)
  BY SolAssumption
<1>4. last = [seq |-> 0, count |-> 0] /\ bmcTx = [seq |-> 0, len |-> 0] /\ bmcRx = [seq |-> 0, count |-> 0, stop |-> FALSE]
  BY DEF Init
<1>5. last \in Heads /\ bmcTx \in Waitings /\ bmcRx \in Accepted
  BY <1>3, <1>4, SolTypes DEF Heads, Waitings, Accepted
<1>6. pkt = [seq |-> 0, data |-> <<>>, acked |-> 0, count |-> 0, stop |-> FALSE]
  BY DEF Init, Packet
<1>7. pkt \in Inputs /\ pkt.seq = 0 /\ pkt.data = <<>>
  BY <1>1, <1>6, SolTypes DEF Inputs, PacketsOver
<1>8. extras = <<>> /\ extras \in BoundedSeq({"break", "empty"}, MaxExtras)
  <2>1. 0 \in 0..MaxExtras
    BY SolAssumption
  <2>2. <<>> \in [1..0 -> {"break", "empty"}]
    OBVIOUS
  <2> QED
    BY <2>1, <2>2 DEF Init, BoundedSeq, SeqOf
<1>9. StreamTypes
  BY <1>1, <1>3, <1>5 DEF Init, StreamTypes
<1>10. ControlTypes
  BY <1>1, <1>3, <1>5, <1>7, <1>8, SolTypes DEF Init, ControlTypes
<1>11. NumbersInv
  <2>1. sequence_number = 0 + 1 /\ toBMC = <<>> /\ pc = "idle"
    BY DEF Init
  <2>2. Len(pkt.data) <= MaxTyped /\ ~ Sending
    BY <1>1, <1>7, <2>1, SolTypes DEF Sending
  <2> QED
    BY <1>2, <1>7, <2>1, <2>2 DEF NumbersInv
<1>12. \A n \in Nat : Chars(n, 0) = <<>>
  BY DEF Chars
<1>13. OutputInv
  <2>1. ~ Waits(bmcTx) /\ last.seq = bmcTx.seq /\ bmcTx.len = 0
    BY <1>4 DEF Waits
  <2>2. Had(last, bmcTx, bmcAcked) = 0
    BY <2>1 DEF Had, Heard, Init
  <2>3. printed = Chars(1, 0)
    BY <1>12 DEF Init
  <2>4. Stream(toConsole, last, bmcTx, bmcAcked) /\ HeardStream(toConsole, last, bmcTx) /\ Acknowledgements(toBMC, last, bmcTx)
    BY <1>2, <2>1 DEF Init, Stream, HeardStream, Acknowledgements
  <2>5. bmcAcked + bmcTx.len <= MaxMade /\ op = "data"
    BY <2>1, SolTypes DEF Init
  <2> QED
    BY <2>1, <2>2, <2>3, <2>4, <2>5 DEF OutputInv
<1>14. InputInv
  <2>1. op = "data" /\ ~ Sending /\ toBMC = <<>> /\ bmcIn = <<>> /\ typed = 0 /\ bmcRx.seq = pkt.seq
    <3>1. pc = "idle" /\ op = "data" /\ toBMC = <<>> /\ bmcIn = <<>> /\ typed = 0
      BY DEF Init
    <3>2. ~ Sending
      BY <3>1 DEF Sending
    <3> QED
      BY <1>4, <1>7, <3>1, <3>2
  <2>2. Line = <<>>
    BY <2>1 DEF Line, LineOf
  <2>3. InputsInv
    BY <1>2, <2>1, <2>2 DEF InputsInv, InputsOver, Ordered, Behind
  <2>4. bmcIn = Chars(1, 0)
    BY <1>12, <2>1
  <2> QED
    BY <1>2, <2>1, <2>3, <2>4 DEF InputInv, GenuineInv, AllAckedInv
<1> QED
  BY <1>9, <1>10, <1>11, <1>13, <1>14, TypesAre DEF SolInv

-----------------------------------------------------------------------------
(* MaxOvertakes = 0 says that the network keeps the order of the packets.   *)
(* On one that does not, a stop-and-wait protocol whose numbers come round  *)
(* can take an old packet for a new one, here as in any.                    *)

\* SolInv is an invariant.
THEOREM Invariant == MaxOvertakes = 0 /\ Spec => []SolInv
<1> SUFFICES ASSUME MaxOvertakes = 0 PROVE Spec => []SolInv
  OBVIOUS
<1>1. SolInv /\ [Next]_vars => SolInv'
  BY StepKeeps
<1> QED
  BY <1>1, InitHolds, PTL DEF Spec

\* What NoneIsLost says follows.
LEMMA NoneIsLostHolds == SolInv => NoneIsLost
<1> SUFFICES ASSUME SolInv PROVE NoneIsLost
  OBVIOUS
<1>1. TypeOK /\ StreamTypes /\ ControlTypes /\ OutputInv /\ InputInv
  BY TypesAre DEF SolInv
<1>2. ASSUME ~ drift, extras = <<>>
      PROVE  /\ \A i \in 1..(Len(bmcIn) - 1) : bmcIn[i] < bmcIn[i + 1]
             /\ pc = "idle" /\ allAcked => bmcIn = Chars(1, typed)
  <2>1. Calm
    BY <1>1, <1>2 DEF Calm, ControlTypes
  <2>2. InputsInv /\ AllAckedInv
    BY <1>1, <2>1 DEF InputInv
  <2>3. \A i, j \in DOMAIN bmcIn : i < j => bmcIn[i] < bmcIn[j]
    BY <2>2 DEF InputsInv, InputsOver
  <2>4. bmcIn \in Seq(1..MaxTyped)
    BY <1>1 DEF ControlTypes
  <2>5. \A i \in 1..(Len(bmcIn) - 1) : i \in DOMAIN bmcIn /\ i + 1 \in DOMAIN bmcIn /\ i < i + 1
    BY <2>4
  <2>6. pc = "idle" => ~ Sending
    BY DEF Sending
  <2> QED
    BY <2>2, <2>3, <2>5, <2>6 DEF AllAckedInv
<1>3. ASSUME ~ Broken PROVE Len(printed) >= bmcAcked
  <2> DEFINE n == Had(last, bmcTx, bmcAcked)
             h == IF Heard(last, bmcTx) THEN last.count ELSE 0
  <2>1. printed = Chars(1, n) /\ bmcAcked \in Nat /\ last.count \in Nat
    BY <1>1, <1>3, SolTypes DEF OutputInv, StreamTypes, Heads
  <2>2. n = bmcAcked + h
    BY DEF Had
  <2>3. h \in Nat
    BY <2>1
  <2> HIDE DEF n, h
  <2>4. n \in Nat /\ n >= bmcAcked
    BY <2>1, <2>2, <2>3
  <2>5. Len(printed) = n
    BY <2>1, <2>4, CharsAre
  <2> QED
    BY <2>4, <2>5
<1> QED
  BY <1>1, <1>2, <1>3 DEF NoneIsLost

\* The BMC gets the typed characters in order and none twice, as long as every
\* input takes the number that follows the last packet's and finds it free, and
\* all of them when every send ended in a full acknowledgement; and the console
\* has shown every character that it acknowledged, until the user sends a break
\* (ipmi_lanplus_send_sol, ipmi_lanplus_recv_sol, is_sol_partial_ack).
THEOREM NothingIsLost == MaxOvertakes = 0 /\ Spec => []NoneIsLost
<1> SUFFICES ASSUME MaxOvertakes = 0 PROVE Spec => []NoneIsLost
  OBVIOUS
<1> QED
  BY Invariant, NoneIsLostHolds, PTL

\* The console implements SolStream until the user sends a break: what it shows
\* is what the BMC made, in order, none twice and none left out
\* (check_sol_packet_for_new_data, sol_output_handler).
THEOREM ShowsWhatIsMade == MaxOvertakes = 0 /\ Spec => ShowsTheStream
<1> SUFFICES ASSUME MaxOvertakes = 0 PROVE Spec => ShowsTheStream
  OBVIOUS
<1>1. Init => Shown!Init
  <2>1. Init => bmcAcked + bmcTx.len = 0 /\ printed = <<>>
    BY DEF Init
  <2> QED
    BY <2>1 DEF Shown!Init
<1>2. SolInv /\ [Next]_vars => [Shown!Next \/ Broken]_(Shown!stream)
  BY StepKeeps DEF StepShows
<1> QED
  BY <1>1, <1>2, Invariant, PTL DEF Spec, ShowsTheStream
=============================================================================
