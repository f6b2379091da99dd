----------------------------- MODULE RqList_proofs -----------------------------
(***************************************************************************)
(* Proofs about RqList: the linked cells are the list that RequestList      *)
(* promises, and nothing that is allocated drops out of it, whatever         *)
(* malloc gives out again.                                                   *)
(***************************************************************************)
EXTENDS RqList, SequenceTheorems, FiniteSetTheorems, WellFoundedInduction, TLAPS

-----------------------------------------------------------------------------
(* Paths.                                                                   *)

\* Every set of natural numbers has a least one.
LEMMA Least ==
    ASSUME NEW T \in SUBSET Nat, T # {}
    PROVE  \E x \in T : \A y \in T : x <= y
<1> DEFINE Less == OpToRel(<, Nat)
<1>1. IsWellFoundedOn(Less, Nat)
  BY NatLessThanWellFounded
<1>2. \A x \in Nat, y \in Nat : <<y, x>> \in Less <=> y < x
  BY DEF OpToRel
<1> HIDE DEF Less
<1>3. PICK x \in T : \A y \in T : ~ (<<y, x>> \in Less)
  BY <1>1, WFMin
<1>4. \A y \in T : x <= y
  <2> TAKE y \in T
  <2>1. x \in Nat /\ y \in Nat
    OBVIOUS
  <2>2. ~ (y < x)
    BY <1>2, <1>3, <2>1
  <2> QED
    BY <2>1, <2>2
<1> QED
  BY <1>4

\* No link leads through two different paths.
LEMMA OnePath ==
    ASSUME NEW h, NEW cs, NEW p \in Seq(Address), NEW q \in Seq(Address),
           Leads(h, cs, p), Leads(h, cs, q)
    PROVE  p = q
<1> DEFINE Differ == {k \in Nat \ {0} : /\ k <= Len(p) \/ k <= Len(q)
                                       /\ ~ (k <= Len(p) /\ k <= Len(q) /\ p[k] = q[k])}
<1>1. /\ Len(p) \in Nat /\ DOMAIN p = 1..Len(p) /\ \A k \in 1..Len(p) : p[k] \in Address
      /\ Len(q) \in Nat /\ DOMAIN q = 1..Len(q) /\ \A k \in 1..Len(q) : q[k] \in Address
      /\ p = <<>> <=> Len(p) = 0
      /\ q = <<>> <=> Len(q) = 0
  BY LenProperties, ElementOfSeq, EmptySeq
<1>2. Null \notin Address
  BY ListAssumption DEF ListAssumption
<1>3. ASSUME Differ # {}
      PROVE  FALSE
  <2>1. PICK k \in Differ : \A j \in Differ : k <= j
    <3>1. Differ \in SUBSET Nat
      OBVIOUS
    <3> HIDE DEF Differ
    <3> QED
      BY <1>3, <3>1, Least
  <2>2. CASE k = 1
    BY <1>1, <1>2, <2>2 DEF Leads
  <2>3. CASE k > 1
    <3>1. k - 1 \in Nat \ {0} /\ k - 1 \notin Differ
      BY <2>1, <2>3
    <3>2. k - 1 <= Len(p) /\ k - 1 <= Len(q) /\ p[k - 1] = q[k - 1]
      BY <1>1, <2>1, <3>1
    <3>3. /\ cs[p[k - 1]].next = IF k - 1 < Len(p) THEN p[k] ELSE Null
          /\ cs[q[k - 1]].next = IF k - 1 < Len(q) THEN q[k] ELSE Null
      BY <1>1, <3>1, <3>2 DEF Leads
    <3>4. CASE k <= Len(p)
      BY <1>1, <1>2, <2>1, <3>2, <3>3, <3>4
    <3>5. CASE k <= Len(q)
      BY <1>1, <1>2, <2>1, <3>2, <3>3, <3>5
    <3> QED
      BY <2>1, <3>4, <3>5
  <2> QED
    BY <2>1, <2>2, <2>3
<1>4. \A k \in Nat \ {0} : k <= Len(p) \/ k <= Len(q) => k <= Len(p) /\ k <= Len(q) /\ p[k] = q[k]
  BY <1>3
<1>5. Len(p) = Len(q)
  <2>1. Len(q) <= Len(p)
    BY <1>1, <1>4, Len(q) \in Nat
  <2>2. Len(p) <= Len(q)
    BY <1>1, <1>4, Len(p) \in Nat
  <2>3. Len(p) \in Nat /\ Len(q) \in Nat
    BY <1>1
  <2> QED
    BY <2>1, <2>2, <2>3
<1> QED
  BY <1>1, <1>4, <1>5, SeqEqual

\* A path that meets no cell twice is short enough to be found.
LEMMA ShortPath ==
    ASSUME NEW p \in Seq(Address), IsInjective(p)
    PROVE  p \in BoundedSeq(Address, Cardinality(Address))
<1>1. Cardinality(Address) \in Nat
  BY ListAssumption, FS_CardinalityType DEF ListAssumption
<1>2. Len(p) \in Nat /\ p \in [1..Len(p) -> Address] /\ DOMAIN p = 1..Len(p)
  BY LenProperties
<1>3. Len(p) <= Cardinality(Address)
  <2>1. p \in Injection(1..Len(p), Address)
    BY <1>2 DEF Injection, IsInjective
  <2>2. IsFiniteSet(1..Len(p)) /\ Cardinality(1..Len(p)) = Len(p)
    BY <1>2, FS_Interval
  <2>3. Cardinality(1..Len(p)) <= Cardinality(Address)
    BY <2>1, FS_Injection, ListAssumption DEF ListAssumption
  <2> QED
    BY <2>2, <2>3
<1> QED
  BY <1>1, <1>2, <1>3 DEF BoundedSeq, SeqOf

\* What is found is a sequence of cells.
LEMMA PathsAreSequences == BoundedSeq(Address, Cardinality(Address)) \subseteq Seq(Address)
<1>1. Cardinality(Address) \in Nat
  BY ListAssumption, FS_CardinalityType DEF ListAssumption
<1> QED
  BY <1>1, SeqDef DEF BoundedSeq, SeqOf

\* So a path that meets no cell twice is the Path of its state ...
LEMMA IsPath ==
    ASSUME NEW p \in Seq(Address), IsInjective(p), Leads(ipmi_req_entries, cell, p)
    PROVE  Path = p
<1>1. \A q \in BoundedSeq(Address, Cardinality(Address)) : Leads(ipmi_req_entries, cell, q) => q = p
  BY PathsAreSequences, OnePath
<1>2. p \in BoundedSeq(Address, Cardinality(Address))
  BY ShortPath
<1> QED
  BY <1>1, <1>2, Zenon DEF Path

\* ... and of the next one.
LEMMA IsNextPath ==
    ASSUME NEW p \in Seq(Address), IsInjective(p), Leads(ipmi_req_entries', cell', p)
    PROVE  Path' = p
<1>1. \A q \in BoundedSeq(Address, Cardinality(Address)) : Leads(ipmi_req_entries', cell', q) => q = p
  BY PathsAreSequences, OnePath
<1>2. p \in BoundedSeq(Address, Cardinality(Address))
  BY ShortPath
<1> QED
  BY <1>1, <1>2, Zenon DEF Path, Leads

-----------------------------------------------------------------------------
(* The invariant.                                                           *)

\* Path is a path, on which no cell comes twice; the tail is its last cell, the
\* only one that may have been freed (by ipmi_lanplus_build_v15_ipmi_cmd, when
\* its message finds no memory), and all that is allocated is on it.
Sound ==
    /\ TypeOK
    /\ Path \in Seq(Address)
    /\ Leads(ipmi_req_entries, cell, Path)
    /\ IsInjective(Path)
    /\ Path # <<>> => ipmi_req_entries_tail = Last(Path)
    /\ \A i \in 1..(Len(Path) - 1) : Path[i] \in cells
    /\ cells \subseteq ToSet(Path)
    /\ bufs \subseteq Messages(ToSet(Path))

\* What a cell holds.
Contents == [seq : Numbers, cmd : Cmds \cup {SendMessage}, next : Address \cup {Null},
             msg_data : Buffer \cup {Null}]

\* What the other proofs use of the sequence of cells.
LEMMA PathFacts ==
    ASSUME Sound
    PROVE  /\ Len(Path) \in Nat
           /\ DOMAIN Path = 1..Len(Path)
           /\ \A i \in 1..Len(Path) : Path[i] \in Address /\ Path[i] # Null
           /\ \A i, j \in 1..Len(Path) : Path[i] = Path[j] => i = j
           /\ ToSet(Path) = {Path[i] : i \in 1..Len(Path)}
           /\ Path = <<>> <=> Len(Path) = 0
           /\ ipmi_req_entries = Null <=> Len(Path) = 0
<1>1. Path \in Seq(Address) /\ Leads(ipmi_req_entries, cell, Path) /\ IsInjective(Path)
  BY DEF Sound
<1> DEFINE p == Path
<1> HIDE DEF p
<1>2. p \in Seq(Address) /\ Leads(ipmi_req_entries, cell, p) /\ IsInjective(p)
  BY <1>1 DEF p
<1>3. /\ Len(p) \in Nat
      /\ DOMAIN p = 1..Len(p)
      /\ \A i \in 1..Len(p) : p[i] \in Address
      /\ p = <<>> <=> Len(p) = 0
  BY <1>2, LenProperties, ElementOfSeq, EmptySeq
<1>4. \A a \in Address : a # Null
  BY ListAssumption DEF ListAssumption
<1>5. ipmi_req_entries = Null <=> Len(p) = 0
  BY <1>2, <1>3, <1>4 DEF Leads
<1> QED
  BY <1>2, <1>3, <1>4, <1>5 DEF p, IsInjective, ToSet

\* The lists of commands for one.
LEMMA ListingsFacts ==
    ASSUME NEW c \in Cmds, NEW cs \in Listings(c)
    PROVE  /\ Len(cs) \in {1, 2}
           /\ \A i \in 1..Len(cs) : cs[i] \in Cmds \cup {SendMessage}
  BY DEF Listings

\* The initial state satisfies the invariant.
LEMMA SoundInit == Init => Sound
<1> SUFFICES ASSUME Init PROVE Sound
  OBVIOUS
<1>1. TypeOK
  BY ListAssumption DEF Init, TypeOK, Blank, ListAssumption
<1>2. <<>> \in Seq(Address) /\ Len(<<>>) = 0 /\ DOMAIN <<>> = {}
  BY EmptySeq
<1>3. Leads(ipmi_req_entries, cell, <<>>) /\ IsInjective(<<>>)
  BY <1>2 DEF Init, Leads, IsInjective
<1>4. Path = <<>>
  BY <1>2, <1>3, IsPath
<1> QED
  BY <1>1, <1>2, <1>3, <1>4 DEF Sound, Init, IsInjective

-----------------------------------------------------------------------------
(* ipmi_req_add_entry.                                                      *)

\* Adding the cells new appends them to the path, and leaves numbers, commands
\* and messages of the others.
LEMMA Adding ==
    ASSUME Sound, NEW c \in Cmds, NEW cs \in Listings(c), NEW n \in 1..Len(cs), NEW new \in FreshCells(n),
           NEW s \in Numbers, NEW b \in Buffer \cup {Null}, AddEntries(new, s, cs, b)
    PROVE  /\ Path' = Path \o new
           /\ Path' \in Seq(Address)
           /\ Len(Path') = Len(Path) + n
           /\ \A i \in 1..Len(Path) : Path'[i] = Path[i]
           /\ \A i \in 1..n : Path'[Len(Path) + i] = new[i]
           /\ Leads(ipmi_req_entries', cell', Path')
           /\ IsInjective(Path')
           /\ ipmi_req_entries_tail' = Last(Path')
           /\ \A i \in 1..Len(Path) : Path[i] \in cells
           /\ \A i \in 1..Len(Path) : /\ cell'[Path[i]].seq = cell[Path[i]].seq
                                      /\ cell'[Path[i]].cmd = cell[Path[i]].cmd
                                      /\ cell'[Path[i]].msg_data = cell[Path[i]].msg_data
           /\ \A i \in 1..n : /\ cell'[new[i]].seq = s
                              /\ cell'[new[i]].cmd = cs[i]
                              /\ cell'[new[i]].msg_data = IF i = Len(cs) THEN b ELSE Null
           /\ ipmi_req_entries' \in Address /\ ipmi_req_entries_tail' \in Address
           /\ cell' \in [Address -> Contents]
<1> DEFINE p == Path
           l == Len(Path)
<1>1. /\ l \in Nat
      /\ p \in Seq(Address)
      /\ DOMAIN p = 1..l
      /\ \A i \in 1..l : p[i] \in Address /\ p[i] # Null
      /\ \A i, j \in 1..l : p[i] = p[j] => i = j
      /\ p = <<>> <=> l = 0
      /\ ipmi_req_entries = Null <=> l = 0
      /\ ipmi_req_entries = IF p = <<>> THEN Null ELSE p[1]
      /\ \A i \in 1..l : cell[p[i]].next = IF i < l THEN p[i + 1] ELSE Null
      /\ l > 0 => ipmi_req_entries_tail = p[l]
      /\ \A i \in 1..(l - 1) : p[i] \in cells
  BY PathFacts DEF Sound, Leads, Last
<1>2. /\ n \in {1, 2} /\ n <= Len(cs) /\ Len(cs) \in {1, 2}
      /\ \A i \in 1..n : cs[i] \in Cmds \cup {SendMessage}
  BY ListingsFacts
<1>3. /\ new \in Seq(Address) /\ Len(new) = n /\ DOMAIN new = 1..n
      /\ \A i \in 1..n : new[i] \in Address /\ new[i] \notin cells /\ new[i] # Null
      /\ \A i, j \in 1..n : new[i] = new[j] => i = j
      /\ new # <<>> /\ Head(new) = new[1] /\ Last(new) = new[n]
  <2>1. /\ new \in [1..n -> Address \ cells]
        /\ \A i, j \in 1..n : new[i] = new[j] => i = j
    BY DEF FreshCells, IsInjective
  <2>2. new \in Seq(Address) /\ Len(new) = n
    BY <1>2, <2>1, SeqDef
  <2> QED
    BY <1>2, <2>1, <2>2, ListAssumption DEF Last, ListAssumption
<1> HIDE DEF p, l
<1>4. \A i \in 1..l : p[i] \in cells
  BY <1>1 DEF AddEntries, TailIsAllocated
<1>5. \A i \in 1..l, j \in 1..n : p[i] # new[j]
  BY <1>3, <1>4
<1>6. /\ cell \in [Address -> Contents]
      /\ cell' = Filled(new, s, cs, b)
  BY DEF Sound, TypeOK, AddEntries, Contents
<1>7. \A i \in 1..n : cell'[new[i]] = [seq |-> s, cmd |-> cs[i],
                                       next |-> IF i < n THEN new[i + 1] ELSE Null,
                                       msg_data |-> IF i = Len(cs) THEN b ELSE Null]
  <2> TAKE i \in 1..n
  <2>1. (CHOOSE j \in DOMAIN new : new[j] = new[i]) = i
    BY <1>3
  <2> QED
    BY <1>3, <1>6, <2>1 DEF Filled
<1>8. \A a \in Address : (\A i \in 1..n : new[i] # a) =>
          cell'[a] = IF l > 0 /\ a = ipmi_req_entries_tail THEN [cell[a] EXCEPT !.next = new[1]] ELSE cell[a]
  BY <1>1, <1>3, <1>6 DEF Filled
<1>9. \A i \in 1..l : cell'[p[i]] = IF i = l THEN [cell[p[i]] EXCEPT !.next = new[1]] ELSE cell[p[i]]
  <2> TAKE i \in 1..l
  <2>1. p[i] \in Address /\ l > 0 /\ \A j \in 1..n : new[j] # p[i]
    BY <1>1, <1>5
  <2>2. p[i] = ipmi_req_entries_tail <=> i = l
    BY <1>1
  <2> QED
    BY <1>8, <2>1, <2>2, Zenon
<1> DEFINE q == p \o new
<1>10. /\ q \in Seq(Address) /\ Len(q) = l + n /\ DOMAIN q = 1..(l + n)
       /\ \A i \in 1..l : q[i] = p[i]
       /\ \A i \in 1..n : q[l + i] = new[i]
  <2>1. /\ q \in Seq(Address) /\ Len(q) = l + n
        /\ \A i \in 1..(l + n) : q[i] = IF i <= l THEN p[i] ELSE new[i - l]
    <3>1. Len(p) = l
      BY DEF p, l
    <3>2. p \in Seq(Address) /\ new \in Seq(Address) /\ Len(new) = n
      BY <1>1, <1>3
    <3> QED
      BY <3>1, <3>2, ConcatProperties
  <2>2. \A i \in 1..n : l + i \in 1..(l + n) /\ ~ (l + i <= l) /\ (l + i) - l = i
    BY <1>1, <1>2
  <2>3. \A i \in 1..l : i \in 1..(l + n) /\ i <= l
    BY <1>1, <1>2
  <2>4. DOMAIN q = 1..(l + n)
    BY <2>1, LenProperties
  <2> QED
    BY <2>1, <2>2, <2>3, <2>4
<1> HIDE DEF q
<1>11. \A k \in 1..(l + n) : k \in 1..l \/ \E i \in 1..n : k = l + i
  <2> TAKE k \in 1..(l + n)
  <2>1. CASE k > l
    BY <1>1, <1>2, <2>1, k - l \in 1..n, k = l + (k - l)
  <2> QED
    BY <1>1, <1>2, <2>1
<1>12. IsInjective(q)
  <2> SUFFICES ASSUME NEW i \in 1..(l + n), NEW j \in 1..(l + n), q[i] = q[j]
               PROVE  i = j
    BY <1>10 DEF IsInjective
  <2>1. CASE i \in 1..l /\ j \in 1..l
    BY <1>1, <1>10, <2>1
  <2>2. ASSUME NEW k \in 1..n, i = l + k, j \in 1..l
        PROVE  FALSE
    BY <1>5, <1>10, <2>2
  <2>3. ASSUME NEW k \in 1..n, j = l + k, i \in 1..l
        PROVE  FALSE
    BY <1>5, <1>10, <2>3
  <2>4. ASSUME NEW k \in 1..n, NEW m \in 1..n, i = l + k, j = l + m
        PROVE  i = j
    BY <1>3, <1>10, <2>4
  <2> QED
    BY <1>11, <2>1, <2>2, <2>3, <2>4, Zenon
<1>13. Leads(ipmi_req_entries', cell', q)
  <2>1. ipmi_req_entries' = q[1] /\ q # <<>>
    <3>1. ipmi_req_entries' = IF l = 0 THEN new[1] ELSE p[1]
      BY <1>1, <1>3 DEF AddEntries, Link
    <3>2. l = 0 => q[l + 1] = new[1]
      BY <1>2, <1>10
    <3> QED
      BY <1>1, <1>2, <1>10, <3>1, <3>2, EmptySeq
  <2>2. ASSUME NEW i \in 1..l
        PROVE  cell'[q[i]].next = IF i < l + n THEN q[i + 1] ELSE Null
    <3>1. CASE i = l
      <4>1. cell'[p[l]].next = new[1]
        <5>1. cell[p[l]] \in Contents /\ cell'[p[l]] = [cell[p[l]] EXCEPT !.next = new[1]]
          BY <1>6, <1>9, <2>2, <3>1, <1>1
        <5> QED
          BY <5>1 DEF Contents
      <4>2. l < l + n /\ 1 \in 1..n
        BY <1>1, <1>2
      <4>3. q[l] = p[l] /\ q[l + 1] = new[1]
        BY <1>10, <3>1, <4>2
      <4> QED
        BY <3>1, <4>1, <4>2, <4>3
    <3>2. CASE i < l
      <4>1. cell'[p[i]].next = p[i + 1]
        <5>1. cell'[p[i]] = cell[p[i]]
          <6>1. i # l
            BY <1>1, <3>2
          <6> QED
            BY <1>9, <6>1, Zenon
        <5>2. cell[p[i]].next = p[i + 1]
          BY <1>1, <3>2
        <5> QED
          BY <5>1, <5>2
      <4>2. i < l + n /\ i + 1 \in 1..l
        BY <1>1, <1>2, <3>2
      <4>3. q[i] = p[i] /\ q[i + 1] = p[i + 1]
        BY <1>10, <4>2
      <4> QED
        BY <4>1, <4>2, <4>3
    <3> QED
      BY <1>1, <3>1, <3>2
  <2>3. ASSUME NEW i \in 1..n
        PROVE  cell'[q[l + i]].next = IF l + i < l + n THEN q[(l + i) + 1] ELSE Null
    <3>1. i < n => i + 1 \in 1..n /\ (l + i) + 1 = l + (i + 1)
      BY <1>1, <1>2
    <3>2. i < n <=> l + i < l + n
      BY <1>1, <1>2
    <3>3. cell'[new[i]].next = IF i < n THEN new[i + 1] ELSE Null
      <4>1. cell'[new[i]] = [seq |-> s, cmd |-> cs[i], next |-> IF i < n THEN new[i + 1] ELSE Null,
                             msg_data |-> IF i = Len(cs) THEN b ELSE Null]
        BY <1>7
      <4> QED
        BY <4>1
    <3>4. q[l + i] = new[i] /\ (i < n => q[(l + i) + 1] = new[i + 1])
      BY <1>10, <3>1
    <3> QED
      BY <3>2, <3>3, <3>4
  <2> QED
    BY <1>10, <1>11, <2>1, <2>2, <2>3 DEF Leads
<1>14. Path' = q
  BY <1>10, <1>12, <1>13, IsNextPath
<1>15. ipmi_req_entries_tail' = Last(q)
  BY <1>2, <1>3, <1>10 DEF AddEntries, Link, Last
<1>16. \A i \in 1..l : /\ cell'[p[i]].seq = cell[p[i]].seq
                       /\ cell'[p[i]].cmd = cell[p[i]].cmd
                       /\ cell'[p[i]].msg_data = cell[p[i]].msg_data
  <2> TAKE i \in 1..l
  <2>1. cell[p[i]] \in Contents
    BY <1>1, <1>6
  <2>2. cell'[p[i]] = [cell[p[i]] EXCEPT !.next = new[1]] \/ cell'[p[i]] = cell[p[i]]
    BY <1>9
  <2> QED
    BY <2>1, <2>2 DEF Contents
<1>17. cell' \in [Address -> Contents]
  <2>1. \A a \in Address : cell'[a] \in Contents
    <3> TAKE a \in Address
    <3>1. CASE \E i \in 1..n : new[i] = a
      <4>1. PICK i \in 1..n : new[i] = a
        BY <3>1
      <4>2. (IF i < n THEN new[i + 1] ELSE Null) \in Address \cup {Null}
        BY <1>2, <1>3
      <4>3. cs[i] \in Cmds \cup {SendMessage}
        BY <1>2
      <4>4. cell'[a] = [seq |-> s, cmd |-> cs[i], next |-> IF i < n THEN new[i + 1] ELSE Null,
                        msg_data |-> IF i = Len(cs) THEN b ELSE Null]
        BY <1>7, <4>1
      <4> QED
        BY <4>2, <4>3, <4>4 DEF Contents
    <3>2. CASE \A i \in 1..n : new[i] # a
      <4>1. cell[a] \in Contents
        BY <1>6
      <4>2. cell'[a] = [cell[a] EXCEPT !.next = new[1]] \/ cell'[a] = cell[a]
        BY <1>8, <3>2
      <4>3. new[1] \in Address
        BY <1>2, <1>3
      <4> QED
        BY <4>1, <4>2, <4>3 DEF Contents
    <3> QED
      BY <3>1, <3>2
  <2>2. cell' = [a \in Address |-> cell'[a]]
    BY <1>6 DEF Filled
  <2> QED
    BY <2>1, <2>2
<1>18. ipmi_req_entries' \in Address /\ ipmi_req_entries_tail' \in Address
  BY <1>1, <1>2, <1>3 DEF AddEntries, Link
<1>19. \A i \in 1..n : /\ cell'[new[i]].seq = s
                       /\ cell'[new[i]].cmd = cs[i]
                       /\ cell'[new[i]].msg_data = IF i = Len(cs) THEN b ELSE Null
  <2> TAKE i \in 1..n
  <2>1. cell'[new[i]] = [seq |-> s, cmd |-> cs[i], next |-> IF i < n THEN new[i + 1] ELSE Null,
                         msg_data |-> IF i = Len(cs) THEN b ELSE Null]
    BY <1>7
  <2> QED
    BY <2>1
<1>20. /\ Path' \in Seq(Address) /\ Len(Path') = l + n
       /\ \A i \in 1..l : Path'[i] = p[i]
       /\ \A i \in 1..n : Path'[l + i] = new[i]
       /\ Leads(ipmi_req_entries', cell', Path')
       /\ IsInjective(Path')
       /\ ipmi_req_entries_tail' = Last(Path')
  BY <1>10, <1>12, <1>13, <1>14, <1>15, Zenon
<1>21. Path' = p \o new
  BY <1>14 DEF q
<1> QED
  BY <1>4, <1>16, <1>17, <1>18, <1>19, <1>20, <1>21, Zenon DEF p, l

-----------------------------------------------------------------------------
(* ipmi_req_remove_entry.                                                   *)

\* What follows the element removed moves up.
LEMMA RemoveAtFacts ==
    ASSUME NEW S, NEW s \in Seq(S), NEW i \in 1..Len(s)
    PROVE  /\ RemoveAt(s, i) \in Seq(S)
           /\ Len(RemoveAt(s, i)) = Len(s) - 1
           /\ \A j \in 1..(Len(s) - 1) : RemoveAt(s, i)[j] = IF j < i THEN s[j] ELSE s[j + 1]
<1> DEFINE front == SubSeq(s, 1, i - 1)
           back == SubSeq(s, i + 1, Len(s))
<1>1. Len(s) \in Nat /\ \A j \in 1..Len(s) : s[j] \in S
  BY LenProperties, ElementOfSeq
<1>2. /\ front \in Seq(S) /\ Len(front) = i - 1
      /\ \A j \in 1..(i - 1) : front[j] = s[j]
  BY <1>1, SMT
<1>3. /\ back \in Seq(S) /\ Len(back) = Len(s) - i
      /\ \A j \in 1..(Len(s) - i) : back[j] = s[i + j]
  BY <1>1, SMT
<1> HIDE DEF front, back
<1>4. /\ front \o back \in Seq(S)
      /\ Len(front \o back) = (i - 1) + (Len(s) - i)
      /\ \A j \in 1..((i - 1) + (Len(s) - i)) :
             (front \o back)[j] = IF j <= i - 1 THEN front[j] ELSE back[j - (i - 1)]
  <2>1. /\ front \o back \in Seq(S)
        /\ Len(front \o back) = Len(front) + Len(back)
        /\ \A j \in 1..(Len(front) + Len(back)) :
               (front \o back)[j] = IF j <= Len(front) THEN front[j] ELSE back[j - Len(front)]
    BY <1>2, <1>3, ConcatProperties
  <2>2. Len(front) = i - 1 /\ Len(back) = Len(s) - i
    BY <1>2, <1>3
  <2> QED
    BY <2>1, <2>2, Zenon
<1>5. (i - 1) + (Len(s) - i) = Len(s) - 1
  BY <1>1
<1>6. ASSUME NEW j \in 1..(Len(s) - 1)
      PROVE  (front \o back)[j] = IF j < i THEN s[j] ELSE s[j + 1]
  <2>1. j < i => j <= i - 1 /\ j \in 1..(i - 1)
    BY <1>1
  <2>2. j >= i => /\ ~ (j <= i - 1) /\ j - (i - 1) \in 1..(Len(s) - i)
                  /\ i + (j - (i - 1)) = j + 1
    BY <1>1
  <2>3. (front \o back)[j] = IF j <= i - 1 THEN front[j] ELSE back[j - (i - 1)]
    BY <1>4, <1>5
  <2>4. CASE j < i
    BY <1>2, <2>1, <2>3, <2>4
  <2>5. CASE j >= i
    <3>1. back[j - (i - 1)] = s[j + 1]
      BY <1>3, <2>2, <2>5
    <3> QED
      BY <1>1, <2>2, <2>3, <2>5, <3>1
  <2>6. j < i \/ j >= i
    BY <1>1
  <2> QED
    BY <2>4, <2>5, <2>6
<1>7. RemoveAt(s, i) = front \o back
  BY DEF RemoveAt, front, back
<1> QED
  BY <1>4, <1>5, <1>6, <1>7

\* The cell before the one in place i; the head has none and stands for itself.
Before(i) == IF i = 1 THEN Path[i] ELSE Path[i - 1]

\* Unlinking takes one cell out of the path, and leaves numbers, commands and
\* messages of the others.
LEMMA Removing ==
    ASSUME Sound, NEW i \in 1..Len(Path), Unlink(Before(i), Path[i])
    PROVE  /\ Path' = RemoveAt(Path, i)
           /\ Path' \in Seq(Address)
           /\ Len(Path') = Len(Path) - 1
           /\ \A j \in 1..(Len(Path) - 1) : Path'[j] = IF j < i THEN Path[j] ELSE Path[j + 1]
           /\ Leads(ipmi_req_entries', cell', Path')
           /\ IsInjective(Path')
           /\ Path' # <<>> => ipmi_req_entries_tail' = Last(Path')
           /\ \A j \in 1..Len(Path) : j # i => /\ cell'[Path[j]].seq = cell[Path[j]].seq
                                              /\ cell'[Path[j]].cmd = cell[Path[j]].cmd
                                              /\ cell'[Path[j]].msg_data = cell[Path[j]].msg_data
           /\ ipmi_req_entries' \in Address \cup {Null}
           /\ ipmi_req_entries_tail' \in Address \cup {Null}
           /\ cell' \in [Address -> Contents]
<1> DEFINE p == Path
           l == Len(Path)
           q == RemoveAt(Path, i)
           e == Path[i]
           b == Before(i)
<1>1. /\ l \in Nat
      /\ \A j \in 1..l : p[j] \in Address /\ p[j] # Null
      /\ \A j, k \in 1..l : p[j] = p[k] => j = k
      /\ p = <<>> <=> l = 0
      /\ ipmi_req_entries = IF p = <<>> THEN Null ELSE p[1]
      /\ \A j \in 1..l : cell[p[j]].next = IF j < l THEN p[j + 1] ELSE Null
      /\ l > 0 => ipmi_req_entries_tail = p[l]
  BY PathFacts DEF Sound, Leads, Last
<1>2. /\ q \in Seq(Address) /\ Len(q) = l - 1 /\ DOMAIN q = 1..(l - 1)
      /\ \A j \in 1..(l - 1) : q[j] = IF j < i THEN p[j] ELSE p[j + 1]
      /\ q = <<>> <=> l - 1 = 0
  <2>1. /\ q \in Seq(Address) /\ Len(q) = l - 1
        /\ \A j \in 1..(l - 1) : q[j] = IF j < i THEN p[j] ELSE p[j + 1]
    BY RemoveAtFacts DEF Sound
  <2> HIDE DEF q
  <2>2. DOMAIN q = 1..(l - 1) /\ (q = <<>> <=> l - 1 = 0)
    BY <2>1, LenProperties, EmptySeq
  <2> QED
    BY <2>1, <2>2
<1>3. i \in 1..l /\ e = p[i] /\ b = IF i = 1 THEN p[i] ELSE p[i - 1]
  BY DEF Before
<1>4. /\ cell \in [Address -> Contents]
      /\ ipmi_req_entries \in Address \cup {Null} /\ ipmi_req_entries_tail \in Address \cup {Null}
  BY DEF Sound, TypeOK, Contents
<1>5. /\ cell' = [cell EXCEPT ![b].next = IF @ = cell[e].next THEN Null ELSE cell[e].next,
                              ![e] = Blank]
      /\ ipmi_req_entries' = IF ipmi_req_entries # e THEN ipmi_req_entries
                             ELSE IF b # e THEN b ELSE cell[e].next
      /\ ipmi_req_entries_tail' = IF ipmi_req_entries_tail # e THEN ipmi_req_entries_tail
                                  ELSE IF b # e THEN b ELSE Null
  BY DEF Unlink
<1>6. Path \in Seq(Address) /\ (q = RemoveAt(Path, i))
  BY DEF Sound
<1> HIDE DEF p, l, q, e, b
<1>7. e \in Address /\ b \in Address /\ (b = e <=> i = 1) /\ cell[e].next \in Address \cup {Null}
  <2>1. i > 1 => i - 1 \in 1..l /\ i - 1 # i
    BY <1>1, <1>3
  <2>2. e \in Address
    BY <1>1, <1>3
  <2>3. b \in Address /\ (b = e <=> i = 1)
    BY <1>1, <1>3, <2>1
  <2> QED
    BY <1>4, <2>2, <2>3 DEF Contents
<1>8. /\ cell' \in [Address -> Contents]
      /\ \A a \in Address : a # e /\ a # b => cell'[a] = cell[a]
      /\ b # e => /\ cell'[b].seq = cell[b].seq
                  /\ cell'[b].cmd = cell[b].cmd
                  /\ cell'[b].msg_data = cell[b].msg_data
                  /\ cell'[b].next = IF cell[b].next = cell[e].next THEN Null ELSE cell[e].next
  <2> DEFINE c1 == [cell EXCEPT ![b].next = IF @ = cell[e].next THEN Null ELSE cell[e].next]
  <2>1. cell' = [c1 EXCEPT ![e] = Blank]
    BY <1>5
  <2>2. /\ c1 \in [Address -> Contents]
        /\ \A a \in Address : a # b => c1[a] = cell[a]
        /\ c1[b] = [cell[b] EXCEPT !.next = IF @ = cell[e].next THEN Null ELSE cell[e].next]
    BY <1>4, <1>7 DEF Contents
  <2>3. cell[b] \in Contents
    BY <1>4, <1>7
  <2>4. Blank \in Contents
    BY ListAssumption DEF Blank, Contents, ListAssumption
  <2> HIDE DEF c1
  <2>5. /\ cell' \in [Address -> Contents]
        /\ \A a \in Address : a # e => cell'[a] = c1[a]
    BY <1>7, <2>1, <2>2, <2>4
  <2>6. /\ c1[b].seq = cell[b].seq
        /\ c1[b].cmd = cell[b].cmd
        /\ c1[b].msg_data = cell[b].msg_data
        /\ c1[b].next = IF cell[b].next = cell[e].next THEN Null ELSE cell[e].next
    BY <2>2, <2>3 DEF Contents
  <2>7. b # e => cell'[b] = c1[b]
    BY <1>7, <2>5
  <2>8. \A a \in Address : a # e /\ a # b => cell'[a] = cell[a]
    BY <2>2, <2>5
  <2> QED
    BY <2>5, <2>6, <2>7, <2>8, Zenon
<1>9. \A j \in 1..l : j # i => /\ cell'[p[j]].seq = cell[p[j]].seq
                              /\ cell'[p[j]].cmd = cell[p[j]].cmd
                              /\ cell'[p[j]].msg_data = cell[p[j]].msg_data
  <2> SUFFICES ASSUME NEW j \in 1..l, j # i
               PROVE  /\ cell'[p[j]].seq = cell[p[j]].seq
                      /\ cell'[p[j]].cmd = cell[p[j]].cmd
                      /\ cell'[p[j]].msg_data = cell[p[j]].msg_data
    OBVIOUS
  <2>1. p[j] # e /\ p[j] \in Address
    BY <1>1, <1>3
  <2>2. CASE p[j] = b
    BY <1>8, <2>1, <2>2
  <2>3. CASE p[j] # b
    BY <1>8, <2>1, <2>3
  <2> QED
    BY <2>2, <2>3
<1>10. \A j \in 1..l : j # i => cell'[p[j]].next = IF j = i - 1 THEN cell[e].next ELSE cell[p[j]].next
  <2> SUFFICES ASSUME NEW j \in 1..l, j # i
               PROVE  cell'[p[j]].next = IF j = i - 1 THEN cell[e].next ELSE cell[p[j]].next
    OBVIOUS
  <2>1. p[j] # e /\ p[j] \in Address
    BY <1>1, <1>3
  <2>2. CASE j = i - 1
    <3>1. i # 1 /\ p[j] = b /\ b # e
      BY <1>1, <1>3, <2>1, <2>2
    <3>2. cell[b].next = e
      <4>1. j < l /\ j + 1 = i
        BY <1>1, <1>3, <2>2
      <4> QED
        BY <1>1, <1>3, <3>1, <4>1
    <3>3. cell[e].next # e
      <4>1. i < l => i + 1 \in 1..l /\ i + 1 # i
        BY <1>1, <1>3
      <4>2. cell[e].next = IF i < l THEN p[i + 1] ELSE Null
        BY <1>1, <1>3
      <4>3. e # Null /\ (i < l => p[i + 1] # e)
        BY <1>1, <1>3, <4>1
      <4> QED
        BY <4>2, <4>3
    <3> QED
      BY <1>8, <2>2, <3>1, <3>2, <3>3
  <2>3. CASE j # i - 1
    <3>1. p[j] # b
      <4>1. i > 1 => i - 1 \in 1..l
        BY <1>1, <1>3
      <4> QED
        BY <1>1, <1>3, <2>1, <2>3, <4>1
    <3> QED
      BY <1>8, <2>1, <2>3, <3>1
  <2> QED
    BY <2>2, <2>3
<1>11. IsInjective(q)
  <2> SUFFICES ASSUME NEW j \in 1..(l - 1), NEW k \in 1..(l - 1), q[j] = q[k]
               PROVE  j = k
    BY <1>2 DEF IsInjective
  <2>1. /\ j \in 1..l /\ j + 1 \in 1..l
        /\ k \in 1..l /\ k + 1 \in 1..l
    BY <1>1
  <2>2. /\ q[j] = IF j < i THEN p[j] ELSE p[j + 1]
        /\ q[k] = IF k < i THEN p[k] ELSE p[k + 1]
    BY <1>2
  <2>3. (IF j < i THEN j ELSE j + 1) = (IF k < i THEN k ELSE k + 1)
    BY <1>1, <2>1, <2>2
  <2> QED
    BY <1>3, <2>1, <2>3
<1>12. Leads(ipmi_req_entries', cell', q)
  <2>1. ipmi_req_entries' = IF q = <<>> THEN Null ELSE q[1]
    <3>1. CASE i = 1
      <4>1. ipmi_req_entries' = cell[e].next
        BY <1>1, <1>3, <1>5, <1>7, <3>1
      <4>2. cell[e].next = IF 1 < l THEN p[2] ELSE Null
        <5>1. 1 + 1 = 2
          OBVIOUS
        <5> QED
          BY <1>1, <1>3, <3>1, <5>1
      <4>3. 1 < l => 1 \in 1..(l - 1) /\ q[1] = p[2]
        BY <1>1, <1>2, <3>1, 1 + 1 = 2
      <4> QED
        BY <1>1, <1>2, <1>3, <4>1, <4>2, <4>3
    <3>2. CASE i # 1
      <4>1. 1 \in 1..l /\ 1 \in 1..(l - 1) /\ 1 < i
        BY <1>1, <1>3, <3>2
      <4>2. ipmi_req_entries = p[1] /\ p[1] # e
        BY <1>1, <1>3, <3>2, <4>1
      <4>3. ipmi_req_entries' = p[1] /\ q[1] = p[1]
        BY <1>2, <1>5, <4>1, <4>2
      <4> QED
        BY <1>1, <1>2, <4>1, <4>3
    <3> QED
      BY <3>1, <3>2
  <2>2. ASSUME NEW j \in 1..(l - 1)
        PROVE  cell'[q[j]].next = IF j < l - 1 THEN q[j + 1] ELSE Null
    <3>1. j \in 1..l /\ j + 1 \in 1..l /\ (j < l - 1 => j + 1 \in 1..(l - 1) /\ (j + 1) + 1 = j + 2 /\ j + 2 \in 1..l)
      BY <1>1
    <3>2. CASE j < i - 1
      <4>1. j < i /\ j + 1 < i /\ j # i /\ j # i - 1 /\ j < l /\ j < l - 1
        BY <1>1, <1>3, <3>1, <3>2
      <4>2. q[j] = p[j] /\ q[j + 1] = p[j + 1]
        BY <1>2, <3>1, <4>1
      <4>3. cell'[p[j]].next = p[j + 1]
        BY <1>1, <1>10, <3>1, <4>1
      <4> QED
        BY <4>1, <4>2, <4>3
    <3>3. CASE j = i - 1
      <4>1. j < i /\ j # i /\ ~ (j + 1 < i) /\ i = j + 1
        BY <1>1, <1>3, <3>1, <3>3
      <4>2. q[j] = p[j] /\ (j < l - 1 => q[j + 1] = p[j + 2])
        BY <1>2, <3>1, <4>1
      <4>3. cell'[p[j]].next = cell[e].next
        BY <1>10, <3>1, <3>3, <4>1
      <4>4. cell[e].next = IF j + 1 < l THEN p[j + 2] ELSE Null
        <5>1. cell[p[i]].next = IF i < l THEN p[i + 1] ELSE Null
          BY <1>1, <1>3
        <5>2. i + 1 = j + 2
          BY <4>1, <3>1
        <5> QED
          BY <1>3, <4>1, <5>1, <5>2
      <4>5. j + 1 < l <=> j < l - 1
        BY <1>1, <3>1
      <4> QED
        BY <4>2, <4>3, <4>4, <4>5
    <3>4. CASE j >= i
      <4>1. ~ (j < i) /\ ~ (j + 1 < i) /\ j + 1 # i /\ j + 1 # i - 1
        BY <1>1, <1>3, <3>1, <3>4
      <4>2. q[j] = p[j + 1] /\ (j < l - 1 => q[j + 1] = p[j + 2])
        BY <1>2, <3>1, <4>1
      <4>3. cell'[p[j + 1]].next = cell[p[j + 1]].next
        BY <1>10, <3>1, <4>1
      <4>4. cell[p[j + 1]].next = IF j + 1 < l THEN p[(j + 1) + 1] ELSE Null
        BY <1>1, <3>1
      <4>5. (j + 1 < l <=> j < l - 1) /\ (j + 1) + 1 = j + 2
        BY <1>1, <3>1
      <4> QED
        BY <4>2, <4>3, <4>4, <4>5
    <3> QED
      BY <1>1, <1>3, <3>1, <3>2, <3>3, <3>4
  <2> QED
    BY <1>2, <2>1, <2>2 DEF Leads
<1>13. q # <<>> => ipmi_req_entries_tail' = Last(q)
  <2> SUFFICES ASSUME q # <<>> PROVE ipmi_req_entries_tail' = q[l - 1]
    BY <1>2 DEF Last
  <2>1. l > 1 /\ l - 1 \in 1..l /\ l - 1 \in 1..(l - 1) /\ l \in 1..l /\ ipmi_req_entries_tail = p[l]
    BY <1>1, <1>2
  <2>2. q[l - 1] = IF l - 1 < i THEN p[l - 1] ELSE p[(l - 1) + 1]
    BY <1>2, <2>1
  <2>3. CASE i = l
    <3>1. ipmi_req_entries_tail = e /\ i # 1 /\ b = p[l - 1] /\ l - 1 < i
      BY <1>1, <1>3, <2>1, <2>3
    <3> QED
      BY <1>5, <1>7, <2>2, <3>1
  <2>4. CASE i # l
    <3>1. p[l] # e /\ ~ (l - 1 < i) /\ (l - 1) + 1 = l
      BY <1>1, <1>3, <2>1, <2>4
    <3> QED
      BY <1>5, <2>1, <2>2, <3>1
  <2> QED
    BY <2>3, <2>4
<1>14. Path' = q
  BY <1>2, <1>11, <1>12, IsNextPath
<1>15. ipmi_req_entries' \in Address \cup {Null} /\ ipmi_req_entries_tail' \in Address \cup {Null}
  BY <1>4, <1>5, <1>7
<1>16. /\ Path' \in Seq(Address) /\ Len(Path') = l - 1
       /\ \A j \in 1..(l - 1) : Path'[j] = IF j < i THEN p[j] ELSE p[j + 1]
       /\ Leads(ipmi_req_entries', cell', Path')
       /\ IsInjective(Path')
       /\ Path' # <<>> => ipmi_req_entries_tail' = Last(Path')
  BY <1>2, <1>11, <1>12, <1>13, <1>14, Zenon
<1>17. Path' = RemoveAt(Path, i)
  BY <1>6, <1>14
<1> QED
  BY <1>8, <1>9, <1>15, <1>16, <1>17, Zenon DEF p, l

-----------------------------------------------------------------------------
(* Every step keeps the invariant.                                          *)

\* A step that changes no memory, and may be undefined.
LEMMA SameMemory ==
    ASSUME Sound, UNCHANGED <<list, cells, bufs>>, undefined' \in BOOLEAN
    PROVE  Sound' /\ Path' = Path /\ ListOf(Path)' = ListOf(Path)
<1>1. /\ ipmi_req_entries' = ipmi_req_entries /\ ipmi_req_entries_tail' = ipmi_req_entries_tail
      /\ cell' = cell /\ cells' = cells /\ bufs' = bufs
  BY DEF list
<1>2. Path' = Path
  BY <1>1, IsNextPath DEF Sound
<1>3. Sound'
  BY <1>1, <1>2 DEF Sound, TypeOK, Messages
<1>4. ListOf(Path)' = ListOf(Path)
  BY <1>1, <1>2 DEF ListOf
<1> QED
  BY <1>2, <1>3, <1>4

\* Entries are added: what is allocated now is on the path.
LEMMA Added ==
    ASSUME Sound, NEW c \in Cmds, NEW cs \in Listings(c), NEW n \in 1..Len(cs), NEW new \in FreshCells(n),
           NEW s \in Numbers, NEW b \in Buffer \cup {Null}, AddEntries(new, s, cs, b),
           cells' = cells \cup ToSet(new) \/ (n = 1 /\ cells' = cells),
           bufs' \subseteq bufs \cup (IF n = Len(cs) THEN {b} \ {Null} ELSE {})
    PROVE  Sound'
<1> DEFINE l == Len(Path)
<1>1. /\ l \in Nat
      /\ ToSet(Path) = {Path[i] : i \in 1..l}
      /\ \A i \in 1..l : Path[i] \in Address
      /\ n \in {1, 2}
  BY PathFacts, ListingsFacts
<1>2. /\ new \in [1..n -> Address \ cells] /\ ToSet(new) = {new[i] : i \in 1..n}
  BY DEF FreshCells, ToSet
<1>3. /\ Path' \in Seq(Address) /\ Len(Path') = l + n
      /\ \A i \in 1..l : Path'[i] = Path[i]
      /\ \A i \in 1..n : Path'[l + i] = new[i]
      /\ Leads(ipmi_req_entries', cell', Path') /\ IsInjective(Path')
      /\ ipmi_req_entries_tail' = Last(Path')
      /\ \A i \in 1..l : Path[i] \in cells
      /\ \A i \in 1..l : cell'[Path[i]].msg_data = cell[Path[i]].msg_data
      /\ \A i \in 1..n : cell'[new[i]].msg_data = IF i = Len(cs) THEN b ELSE Null
      /\ ipmi_req_entries' \in Address /\ ipmi_req_entries_tail' \in Address
      /\ cell' \in [Address -> Contents]
  BY Adding
<1>4. DOMAIN Path' = 1..(l + n)
  BY <1>3, LenProperties
<1>5. \A k \in 1..(l + n) : k \in 1..l \/ \E i \in 1..n : k = l + i
  <2> TAKE k \in 1..(l + n)
  <2>1. CASE k > l
    BY <1>1, <2>1, k - l \in 1..n, k = l + (k - l)
  <2> QED
    BY <1>1, <2>1
<1>6. ToSet(Path)' = ToSet(Path) \cup ToSet(new)
  <2>1. ToSet(Path)' = {Path'[k] : k \in 1..(l + n)}
    BY <1>4 DEF ToSet
  <2>2. ToSet(Path) \cup ToSet(new) \subseteq {Path'[k] : k \in 1..(l + n)}
    <3>1. \A i \in 1..l : i \in 1..(l + n)
      BY <1>1
    <3>2. \A i \in 1..n : l + i \in 1..(l + n)
      BY <1>1
    <3> QED
      BY <1>1, <1>2, <1>3, <3>1, <3>2
  <2>3. {Path'[k] : k \in 1..(l + n)} \subseteq ToSet(Path) \cup ToSet(new)
    BY <1>1, <1>2, <1>3, <1>5
  <2> QED
    BY <2>1, <2>2, <2>3
<1>7. cells \subseteq ToSet(Path) /\ bufs \subseteq Messages(ToSet(Path)) /\ cells \subseteq Address
      /\ bufs \subseteq Buffer /\ undefined \in BOOLEAN
  BY DEF Sound, TypeOK
<1> HIDE DEF l
<1>8. bufs' \subseteq Messages(ToSet(Path))'
  <2> SUFFICES ASSUME NEW x \in bufs'
               PROVE  x # Null /\ \E a \in ToSet(Path)' : x = cell'[a].msg_data
    BY DEF Messages
  <2>1. CASE x \in bufs
    <3>1. x # Null /\ \E i \in 1..l : x = cell[Path[i]].msg_data
      BY <1>1, <1>7, <2>1 DEF Messages
    <3> QED
      BY <1>1, <1>3, <1>6, <3>1
  <2>2. CASE x \notin bufs
    <3>1. n = Len(cs) /\ x = b /\ x # Null
      BY <2>2
    <3>2. n \in 1..n /\ cell'[new[n]].msg_data = b
      BY <1>1, <1>3, <3>1
    <3> QED
      BY <1>2, <1>6, <3>1, <3>2
  <2> QED
    BY <2>1, <2>2
<1>9. cells' \subseteq ToSet(Path)'
  BY <1>6, <1>7
<1>10. \A i \in 1..(Len(Path') - 1) : Path'[i] \in cells'
  <2> TAKE i \in 1..(Len(Path') - 1)
  <2>1. i \in 1..(l + n) /\ i # l + n
    BY <1>1, <1>3
  <2>2. CASE i \in 1..l
    BY <1>3, <2>2
  <2>3. ASSUME NEW k \in 1..n, i = l + k
        PROVE  Path'[i] \in cells'
    <3>1. n # 1
      BY <1>1, <2>1, <2>3
    <3> QED
      BY <1>2, <1>3, <2>3, <3>1
  <2> QED
    BY <1>5, <2>1, <2>2, <2>3
<1>11. TypeOK'
  <2>1. bufs' \subseteq Buffer /\ cells' \subseteq Address
    BY <1>2, <1>7
  <2>2. undefined' \in BOOLEAN
    BY <1>7 DEF AddEntries
  <2> QED
    BY <1>3, <2>1, <2>2 DEF TypeOK, Contents
<1> QED
  BY <1>3, <1>8, <1>9, <1>10, <1>11 DEF Sound

\* An entry is removed: what was freed is no longer on the path.
LEMMA Removed ==
    ASSUME Sound, NEW i \in 1..Len(Path), Unlink(Before(i), Path[i]),
           \A j \in 1..i : Path[j] \in cells,
           cells' = cells \ {Path[i]},
           bufs' = bufs \ Messages({Path[i]}),
           undefined' = undefined
    PROVE  Sound'
<1> DEFINE l == Len(Path)
<1>1. /\ l \in Nat
      /\ ToSet(Path) = {Path[j] : j \in 1..l}
      /\ \A j, k \in 1..l : Path[j] = Path[k] => j = k
  BY PathFacts
<1>2. /\ Path' \in Seq(Address) /\ Len(Path') = l - 1
      /\ \A j \in 1..(l - 1) : Path'[j] = IF j < i THEN Path[j] ELSE Path[j + 1]
      /\ Leads(ipmi_req_entries', cell', Path') /\ IsInjective(Path')
      /\ Path' # <<>> => ipmi_req_entries_tail' = Last(Path')
      /\ \A j \in 1..l : j # i => cell'[Path[j]].msg_data = cell[Path[j]].msg_data
      /\ ipmi_req_entries' \in Address \cup {Null}
      /\ ipmi_req_entries_tail' \in Address \cup {Null}
      /\ cell' \in [Address -> Contents]
  BY Removing, Zenon
<1>3. i \in 1..l
  OBVIOUS
<1>4. /\ cells \subseteq ToSet(Path) /\ bufs \subseteq Messages(ToSet(Path)) /\ cells \subseteq Address
      /\ bufs \subseteq Buffer /\ undefined \in BOOLEAN
      /\ \A j \in 1..(l - 1) : Path[j] \in cells
  BY DEF Sound, TypeOK
<1> HIDE DEF l
<1>5. \A j \in 1..l : j # i => Path[j] \in ToSet(Path)'
  <2> SUFFICES ASSUME NEW j \in 1..l, j # i
               PROVE  \E k \in 1..(l - 1) : Path'[k] = Path[j]
    BY <1>2, LenProperties DEF ToSet
  <2>1. CASE j < i
    BY <1>1, <1>2, <1>3, <2>1, j \in 1..(l - 1)
  <2>2. CASE j > i
    <3>1. j - 1 \in 1..(l - 1) /\ ~ (j - 1 < i) /\ (j - 1) + 1 = j
      BY <1>1, <1>3, <2>2
    <3> QED
      BY <1>2, <3>1
  <2>3. j < i \/ j > i
    BY <1>1, <1>3
  <2> QED
    BY <2>1, <2>2, <2>3
<1>6. cells' \subseteq ToSet(Path)'
  BY <1>1, <1>4, <1>5
<1>7. bufs' \subseteq Messages(ToSet(Path))'
  <2> SUFFICES ASSUME NEW x \in bufs'
               PROVE  x # Null /\ \E a \in ToSet(Path)' : x = cell'[a].msg_data
    BY DEF Messages
  <2>1. PICK j \in 1..l : x # Null /\ x = cell[Path[j]].msg_data
    BY <1>1, <1>4 DEF Messages
  <2>2. j # i
    BY <2>1 DEF Messages
  <2> QED
    BY <1>2, <1>5, <2>1, <2>2
<1>8. \A j \in 1..(Len(Path') - 1) : Path'[j] \in cells'
  <2> TAKE j \in 1..(Len(Path') - 1)
  <2>1. j \in 1..(l - 1) /\ j + 1 \in 1..(l - 1) /\ j \in 1..l /\ j + 1 \in 1..l
    BY <1>1, <1>2
  <2>2. CASE j < i
    BY <1>1, <1>2, <1>3, <1>4, <2>1, <2>2, j # i
  <2>3. CASE ~ (j < i)
    <3>1. j + 1 # i
      BY <1>3, <2>1, <2>3
    <3> QED
      BY <1>1, <1>2, <1>3, <1>4, <2>1, <2>3, <3>1
  <2> QED
    BY <2>2, <2>3
<1>9. TypeOK'
  BY <1>2, <1>4 DEF TypeOK, Contents
<1> QED
  BY <1>2, <1>6, <1>7, <1>8, <1>9 DEF Sound

\* The list is cleared: nothing is left.
LEMMA Cleared ==
    ASSUME Sound, ipmi_req_entries' = Null,
           cells' = cells \ ToSet(Path),
           bufs' = bufs \ Messages(ToSet(Path)),
           cell' = [a \in Address |-> IF a \in ToSet(Path) THEN Blank ELSE cell[a]],
           UNCHANGED <<ipmi_req_entries_tail, undefined>>
    PROVE  Sound' /\ Path' = <<>>
<1>1. <<>> \in Seq(Address) /\ Len(<<>>) = 0 /\ DOMAIN <<>> = {}
  BY EmptySeq
<1>2. Leads(ipmi_req_entries', cell', <<>>) /\ IsInjective(<<>>)
  BY <1>1 DEF Leads, IsInjective
<1>3. Path' = <<>>
  BY <1>1, <1>2, IsNextPath
<1>4. cells' = {} /\ bufs' = {}
  BY DEF Sound
<1>5. TypeOK'
  BY <1>4, ListAssumption DEF Sound, TypeOK, Blank, ListAssumption
<1> QED
  BY <1>1, <1>2, <1>3, <1>4, <1>5 DEF Sound

\* Building, with one case for each way in which it ends.
LEMMA BuildKeeps ==
    ASSUME Sound, NEW s \in Numbers, NEW c \in Cmds,
           BuildAndSend(s, c) \/ BuildFails(s, c)
    PROVE  Sound'
<1>1. CASE BuildAndSend(s, c)
  <2>1. PICK cs \in Listings(c), b \in Buffer \ bufs, sent \in BOOLEAN :
          \E new \in FreshCells(Len(cs)) :
             /\ AddEntries(new, s, cs, b)
             /\ cells' = cells \cup ToSet(new)
             /\ bufs' = IF sent THEN bufs \cup {b} ELSE bufs
    BY <1>1 DEF BuildAndSend
  <2>2. PICK new \in FreshCells(Len(cs)) :
             /\ AddEntries(new, s, cs, b)
             /\ cells' = cells \cup ToSet(new)
             /\ bufs' = IF sent THEN bufs \cup {b} ELSE bufs
    BY <2>1
  <2>3. Len(cs) \in 1..Len(cs)
    BY ListingsFacts
  <2>4. bufs' \subseteq bufs \cup ({b} \ {Null}) /\ b \in Buffer \cup {Null}
    BY <2>2, ListAssumption DEF ListAssumption
  <2> QED
    BY <2>2, <2>3, <2>4, Added
<1>2. CASE BuildFails(s, c)
  <2>1. PICK cs \in Listings(c) :
          \E n \in 1..Len(cs) : \E new \in FreshCells(n) :
             AddEntries(new, s, cs, Null) /\ cells' = cells \cup ToSet(new) /\ UNCHANGED bufs
    BY <1>2 DEF BuildFails
  <2>2. PICK n \in 1..Len(cs) : \E new \in FreshCells(n) :
             AddEntries(new, s, cs, Null) /\ cells' = cells \cup ToSet(new) /\ UNCHANGED bufs
    BY <2>1
  <2>3. PICK new \in FreshCells(n) :
             AddEntries(new, s, cs, Null) /\ cells' = cells \cup ToSet(new) /\ UNCHANGED bufs
    BY <2>2
  <2> QED
    BY <2>3, Added
<1> QED
  BY <1>1, <1>2

\* The entry that ipmi_lanplus_build_v15_ipmi_cmd frees stays in the list.
LEMMA BuildV15Keeps ==
    ASSUME Sound, NEW c \in Cmds, BuildV15Fails(c)
    PROVE  Sound'
<1>1. PICK new \in FreshCells(1) : AddEntries(new, 0, <<c>>, Null) /\ UNCHANGED <<cells, bufs>>
  BY DEF BuildV15Fails
<1>2. <<c>> \in Listings(c) /\ 1 \in 1..Len(<<c>>) /\ 0 \in Numbers
  BY ListAssumption DEF Listings, ListAssumption
<1> QED
  BY <1>1, <1>2, Added

\* A removal either frees an entry that is allocated, with its message, or is
\* undefined.
LEMMA RemoveCases ==
    ASSUME Sound, NEW s, NEW c, RemoveEntry(s, c)
    PROVE  \/ \E i \in 1..Len(Path) :
                 /\ FirstMatch(i, s, c)
                 /\ Unlink(Before(i), Path[i])
                 /\ \A j \in 1..i : Path[j] \in cells
                 /\ cells' = cells \ {Path[i]}
                 /\ bufs' = bufs \ Messages({Path[i]})
                 /\ undefined' = undefined
           \/ UNCHANGED <<list, cells, bufs>> /\ undefined' = TRUE
<1>1. DOMAIN Path = 1..Len(Path)
  BY PathFacts
<1> QED
  BY <1>1 DEF RemoveEntry, Before, Undefined

\* The same of a clear.
LEMMA ClearCases ==
    ASSUME ClearEntries
    PROVE  \/ /\ ipmi_req_entries' = Null
              /\ cells' = cells \ ToSet(Path)
              /\ bufs' = bufs \ Messages(ToSet(Path))
              /\ cell' = [a \in Address |-> IF a \in ToSet(Path) THEN Blank ELSE cell[a]]
              /\ UNCHANGED <<ipmi_req_entries_tail, undefined>>
           \/ UNCHANGED <<list, cells, bufs>> /\ undefined' = TRUE
  BY DEF ClearEntries, Undefined

\* Every step keeps the invariant.
LEMMA SoundStep == Sound /\ [Next]_vars => Sound'
<1> SUFFICES ASSUME Sound, [Next]_vars PROVE Sound'
  OBVIOUS
<1>1. ASSUME NEW s \in Numbers, NEW c \in Cmds, BuildAndSend(s, c) \/ BuildFails(s, c)
      PROVE  Sound'
  BY <1>1, BuildKeeps
<1>2. ASSUME NEW c \in Cmds, BuildV15Fails(c)
      PROVE  Sound'
  BY <1>2, BuildV15Keeps
<1>3. CASE AddToFreedTail
  BY <1>3, SameMemory DEF AddToFreedTail, Undefined
<1>4. ASSUME NEW s \in Numbers, NEW c \in Cmds \cup {SendMessage}, RemoveEntry(s, c)
      PROVE  Sound'
  <2>1. CASE UNCHANGED <<list, cells, bufs>> /\ undefined' = TRUE
    BY <2>1, SameMemory
  <2>2. ASSUME NEW i \in 1..Len(Path), Unlink(Before(i), Path[i]), \A j \in 1..i : Path[j] \in cells,
               cells' = cells \ {Path[i]}, bufs' = bufs \ Messages({Path[i]}), undefined' = undefined
        PROVE  Sound'
    BY <2>2, Removed
  <2> QED
    BY <1>4, <2>1, <2>2, RemoveCases
<1>5. CASE ClearEntries
  <2>1. CASE UNCHANGED <<list, cells, bufs>> /\ undefined' = TRUE
    BY <2>1, SameMemory
  <2> QED
    BY <1>5, <2>1, ClearCases, Cleared
<1>6. CASE UNCHANGED vars
  <2>1. UNCHANGED <<list, cells, bufs>> /\ undefined' \in BOOLEAN
    BY <1>6 DEF vars, Sound, TypeOK
  <2> QED
    BY <2>1, SameMemory
<1> QED
  BY <1>1, <1>2, <1>3, <1>4, <1>5, <1>6 DEF Next

\* ipmi_req_entries and its tail: Sound holds in every state.
THEOREM Invariant == Spec => []Sound
  BY SoundInit, SoundStep, PTL DEF Spec

\* lanplus.c:402-495: whatever is allocated is in the list, and will be freed
\* by a removal or by the close, in every order of adding, removing, clearing
\* and failing, until something undefined happens (and after it).
THEOREM NothingLeaks == Spec => []NoLeak
<1>1. Sound => NoLeak
  BY DEF Sound, NoLeak
<1> QED
  BY <1>1, Invariant, PTL

-----------------------------------------------------------------------------
(* The refinement.                                                          *)

\* What Path says of the abstract list.
ListIsOfPath ==
    /\ ListOf(Path) \in Seq(Requests!Entries)
    /\ Len(ListOf(Path)) = Len(Path)
    /\ \A i \in 1..Len(Path) : ListOf(Path)[i] = [seq |-> cell[Path[i]].seq, cmd |-> cell[Path[i]].cmd]

\* The abstract list has the entries of the path ...
LEMMA ListFacts == Sound => ListIsOfPath
<1> SUFFICES ASSUME Sound PROVE ListIsOfPath
  OBVIOUS
<1> DEFINE entry(i) == [seq |-> cell[Path[i]].seq, cmd |-> cell[Path[i]].cmd]
<1>1. /\ Len(Path) \in Nat /\ DOMAIN Path = 1..Len(Path)
      /\ \A i \in 1..Len(Path) : Path[i] \in Address
  BY PathFacts
<1>2. cell \in [Address -> Contents]
  BY DEF Sound, TypeOK, Contents
<1>3. \A i \in 1..Len(Path) : entry(i) \in Requests!Entries
  BY <1>1, <1>2 DEF Contents, Requests!Entries
<1>4. ListOf(Path) = [i \in 1..Len(Path) |-> entry(i)]
  BY <1>1 DEF ListOf
<1>5. ListOf(Path) \in [1..Len(Path) -> Requests!Entries]
  BY <1>3, <1>4
<1>6. ListOf(Path) \in Seq(Requests!Entries) /\ Len(ListOf(Path)) = Len(Path)
  <2> HIDE DEF entry
  <2> QED
    BY <1>1, <1>4, <1>5, SeqDef
<1>7. \A i \in 1..Len(Path) : ListOf(Path)[i] = entry(i)
  <2> HIDE DEF entry
  <2> QED
    BY <1>4
<1> QED
  BY <1>6, <1>7 DEF ListIsOfPath

\* ... and so it has in the next state.
LEMMA NextListFacts == Sound' => ListIsOfPath'
  BY ListFacts, PTL

\* Adding cells appends their entries.
LEMMA AddIsAdd ==
    ASSUME Sound, Sound', NEW c \in Cmds, NEW cs \in Listings(c), NEW n \in 1..Len(cs),
           NEW new \in FreshCells(n), NEW s \in Numbers, NEW b \in Buffer \cup {Null},
           AddEntries(new, s, cs, b)
    PROVE  Requests!Next
<1> DEFINE l == Len(Path)
           e(i) == [seq |-> s, cmd |-> cs[i]]
           added == IF n = 1 THEN <<e(1)>> ELSE <<e(1), e(2)>>
           old == ListOf(Path)
           now == ListOf(Path)'
<1>1. /\ n \in {1, 2} /\ l \in Nat
      /\ \A i \in 1..n : cs[i] \in Cmds \cup {SendMessage}
  BY ListingsFacts, PathFacts
<1>2. /\ Len(Path') = l + n
      /\ \A i \in 1..l : Path'[i] = Path[i]
      /\ \A i \in 1..n : Path'[l + i] = new[i]
      /\ \A i \in 1..l : cell'[Path[i]].seq = cell[Path[i]].seq /\ cell'[Path[i]].cmd = cell[Path[i]].cmd
      /\ \A i \in 1..n : cell'[new[i]].seq = s /\ cell'[new[i]].cmd = cs[i]
  BY Adding
<1>3. /\ old \in Seq(Requests!Entries) /\ Len(old) = l
      /\ \A i \in 1..l : old[i] = [seq |-> cell[Path[i]].seq, cmd |-> cell[Path[i]].cmd]
  BY ListFacts DEF ListIsOfPath
<1>4. /\ now \in Seq(Requests!Entries) /\ Len(now) = l + n
      /\ \A i \in 1..(l + n) : now[i] = [seq |-> cell'[Path'[i]].seq, cmd |-> cell'[Path'[i]].cmd]
  <2>1. /\ ListOf(Path)' \in Seq(Requests!Entries)
        /\ Len(ListOf(Path)') = Len(Path')
        /\ \A i \in 1..Len(Path') : ListOf(Path)'[i] = [seq |-> cell'[Path'[i]].seq, cmd |-> cell'[Path'[i]].cmd]
    BY NextListFacts DEF ListIsOfPath
  <2> QED
    BY <1>2, <2>1
<1>5. \A i \in 1..n : e(i) \in Requests!Entries
  BY <1>1 DEF Requests!Entries
<1>6. added \in Requests!Additions
  <2>1. CASE n = 1
    BY <1>5, <2>1 DEF Requests!Additions
  <2>2. CASE n = 2
    BY <1>5, <2>2 DEF Requests!Additions
  <2> QED
    BY <1>1, <2>1, <2>2
<1>7. /\ added \in Seq(Requests!Entries) /\ Len(added) = n
      /\ \A i \in 1..n : added[i] = e(i)
  BY <1>1, <1>5
<1> HIDE DEF e, l, old, now, added
<1>8. /\ old \o added \in Seq(Requests!Entries)
      /\ Len(old \o added) = l + n
      /\ \A i \in 1..(l + n) : (old \o added)[i] = IF i <= l THEN old[i] ELSE added[i - l]
  <2>1. old \in Seq(Requests!Entries) /\ Len(old) = l /\ added \in Seq(Requests!Entries) /\ Len(added) = n
    BY <1>3, <1>7
  <2> QED
    BY <2>1, ConcatProperties
<1>9. \A i \in 1..(l + n) : now[i] = (old \o added)[i]
  <2> TAKE i \in 1..(l + n)
  <2>1. CASE i <= l
    <3>1. i \in 1..l
      BY <1>1, <2>1
    <3>2. Path'[i] = Path[i] /\ cell'[Path[i]].seq = cell[Path[i]].seq /\ cell'[Path[i]].cmd = cell[Path[i]].cmd
      BY <1>2, <3>1
    <3>3. now[i] = [seq |-> cell'[Path'[i]].seq, cmd |-> cell'[Path'[i]].cmd]
      BY <1>4
    <3>4. old[i] = [seq |-> cell[Path[i]].seq, cmd |-> cell[Path[i]].cmd]
      BY <1>3, <3>1
    <3>5. (old \o added)[i] = old[i]
      BY <1>8, <2>1
    <3> QED
      BY <3>2, <3>3, <3>4, <3>5
  <2>2. CASE ~ (i <= l)
    <3>1. i - l \in 1..n /\ l + (i - l) = i
      BY <1>1, <2>2
    <3>2. Path'[i] = new[i - l]
      BY <1>2, <3>1
    <3>3. now[i] = [seq |-> cell'[Path'[i]].seq, cmd |-> cell'[Path'[i]].cmd]
      BY <1>4
    <3>4. cell'[new[i - l]].seq = s /\ cell'[new[i - l]].cmd = cs[i - l]
      BY <1>2, <3>1
    <3>5. now[i] = e(i - l)
      BY <3>2, <3>3, <3>4 DEF e
    <3>6. (old \o added)[i] = added[i - l]
      BY <1>8, <2>2
    <3> QED
      BY <1>7, <3>1, <3>5, <3>6
  <2> QED
    BY <2>1, <2>2
<1>10. now = old \o added
  BY <1>4, <1>8, <1>9, SeqEqual
<1> QED
  BY <1>6, <1>10 DEF old, now, Requests!Next, Requests!Add

\* Unlinking the first cell that matches takes the first entry of its kind.
LEMMA RemoveIsTake ==
    ASSUME Sound, Sound', NEW i \in 1..Len(Path), NEW s, NEW c, FirstMatch(i, s, c),
           Unlink(Before(i), Path[i])
    PROVE  Requests!Next
<1> DEFINE l == Len(Path)
           old == ListOf(Path)
           now == ListOf(Path)'
<1>1. l \in Nat /\ i \in 1..l /\ \A j, k \in 1..l : Path[j] = Path[k] => j = k
  BY PathFacts
<1>2. /\ Len(Path') = l - 1
      /\ \A j \in 1..(l - 1) : Path'[j] = IF j < i THEN Path[j] ELSE Path[j + 1]
      /\ \A j \in 1..l : j # i => cell'[Path[j]].seq = cell[Path[j]].seq /\ cell'[Path[j]].cmd = cell[Path[j]].cmd
  BY Removing
<1>3. /\ old \in Seq(Requests!Entries) /\ Len(old) = l
      /\ \A j \in 1..l : old[j] = [seq |-> cell[Path[j]].seq, cmd |-> cell[Path[j]].cmd]
  BY ListFacts DEF ListIsOfPath
<1>4. /\ now \in Seq(Requests!Entries) /\ Len(now) = l - 1
      /\ \A j \in 1..(l - 1) : now[j] = [seq |-> cell'[Path'[j]].seq, cmd |-> cell'[Path'[j]].cmd]
  <2>1. /\ ListOf(Path)' \in Seq(Requests!Entries)
        /\ Len(ListOf(Path)') = Len(Path')
        /\ \A j \in 1..Len(Path') : ListOf(Path)'[j] = [seq |-> cell'[Path'[j]].seq, cmd |-> cell'[Path'[j]].cmd]
    BY NextListFacts DEF ListIsOfPath
  <2> QED
    BY <1>2, <2>1
<1>5. DOMAIN old = 1..l
  BY <1>3, LenProperties
<1> HIDE DEF l, old, now
<1>6. \A j \in 1..(i - 1) : old[j] # old[i]
  <2> TAKE j \in 1..(i - 1)
  <2>1. j \in 1..l
    BY <1>1
  <2>2. Matches(Path[i], s, c) /\ ~ Matches(Path[j], s, c)
    BY DEF FirstMatch
  <2>3. old[j].seq = cell[Path[j]].seq /\ old[j].cmd = cell[Path[j]].cmd
    BY <1>3, <2>1
  <2>4. old[i].seq = cell[Path[i]].seq /\ old[i].cmd = cell[Path[i]].cmd
    BY <1>1, <1>3
  <2> QED
    BY <2>2, <2>3, <2>4 DEF Matches
<1>7. /\ RemoveAt(old, i) \in Seq(Requests!Entries)
      /\ Len(RemoveAt(old, i)) = l - 1
      /\ \A j \in 1..(l - 1) : RemoveAt(old, i)[j] = IF j < i THEN old[j] ELSE old[j + 1]
  <2>1. old \in Seq(Requests!Entries) /\ i \in 1..Len(old)
    BY <1>1, <1>3
  <2>2. /\ RemoveAt(old, i) \in Seq(Requests!Entries)
        /\ Len(RemoveAt(old, i)) = Len(old) - 1
        /\ \A j \in 1..(Len(old) - 1) : RemoveAt(old, i)[j] = IF j < i THEN old[j] ELSE old[j + 1]
    BY <2>1, RemoveAtFacts
  <2>3. Len(old) = l
    BY <1>3
  <2> QED
    BY <2>2, <2>3, Zenon
<1>8. \A j \in 1..(l - 1) : now[j] = RemoveAt(old, i)[j]
  <2> TAKE j \in 1..(l - 1)
  <2>1. j \in 1..l /\ j + 1 \in 1..l
    BY <1>1
  <2>2. now[j] = [seq |-> cell'[Path'[j]].seq, cmd |-> cell'[Path'[j]].cmd]
    BY <1>4
  <2>3. ASSUME NEW k \in 1..l, k # i, Path'[j] = Path[k]
        PROVE  now[j] = old[k]
    <3>1. cell'[Path'[j]].seq = cell[Path[k]].seq /\ cell'[Path'[j]].cmd = cell[Path[k]].cmd
      BY <1>2, <2>3
    <3>2. old[k] = [seq |-> cell[Path[k]].seq, cmd |-> cell[Path[k]].cmd]
      BY <1>3
    <3> QED
      BY <2>2, <3>1, <3>2
  <2>4. CASE j < i
    <3>1. j # i /\ Path'[j] = Path[j]
      BY <1>1, <1>2, <2>4
    <3> QED
      BY <1>7, <2>1, <2>3, <2>4, <3>1
  <2>5. CASE ~ (j < i)
    <3>1. j + 1 # i /\ Path'[j] = Path[j + 1]
      BY <1>1, <1>2, <2>1, <2>5
    <3> QED
      BY <1>7, <2>1, <2>3, <2>5, <3>1
  <2> QED
    BY <2>4, <2>5
<1>9. now = RemoveAt(old, i)
  BY <1>4, <1>7, <1>8, SeqEqual
<1>10. i \in DOMAIN old /\ Requests!Take(i)
  BY <1>1, <1>5, <1>6, <1>9 DEF old, now, Requests!Take, Requests!RemoveAt, RemoveAt
<1> QED
  BY <1>10 DEF old, Requests!Next

\* An empty path is an empty list.
LEMMA EmptyListNext == ASSUME Path' = <<>> PROVE ListOf(Path)' = <<>>
<1>1. DOMAIN <<>> = {}
  OBVIOUS
<1> QED
  BY <1>1 DEF ListOf

\* Every step is one of the abstract list, or leaves it.
LEMMA RefinesStep ==
    ASSUME Sound, Sound', [Next]_vars
    PROVE  Requests!Next \/ ListOf(Path)' = ListOf(Path)
<1>1. ASSUME NEW s \in Numbers, NEW c \in Cmds, BuildAndSend(s, c)
      PROVE  Requests!Next
  <2>1. PICK cs \in Listings(c), b \in Buffer \ bufs, sent \in BOOLEAN :
          \E new \in FreshCells(Len(cs)) : AddEntries(new, s, cs, b)
    BY <1>1 DEF BuildAndSend
  <2>2. Len(cs) \in 1..Len(cs)
    BY ListingsFacts
  <2> QED
    BY <2>1, <2>2, AddIsAdd
<1>2. ASSUME NEW s \in Numbers, NEW c \in Cmds, BuildFails(s, c)
      PROVE  Requests!Next
  <2>1. PICK cs \in Listings(c) : \E n \in 1..Len(cs) : \E new \in FreshCells(n) : AddEntries(new, s, cs, Null)
    BY <1>2 DEF BuildFails
  <2> QED
    BY <2>1, AddIsAdd
<1>3. ASSUME NEW c \in Cmds, BuildV15Fails(c)
      PROVE  Requests!Next
  <2>1. <<c>> \in Listings(c) /\ 1 \in 1..Len(<<c>>) /\ 0 \in Numbers
    BY ListAssumption DEF Listings, ListAssumption
  <2>2. PICK new \in FreshCells(1) : AddEntries(new, 0, <<c>>, Null)
    BY <1>3 DEF BuildV15Fails
  <2> QED
    BY <2>1, <2>2, AddIsAdd
<1>4. CASE AddToFreedTail
  BY <1>4, SameMemory DEF AddToFreedTail, Undefined
<1>5. ASSUME NEW s, NEW c, RemoveEntry(s, c)
      PROVE  Requests!Next \/ ListOf(Path)' = ListOf(Path)
  <2>1. CASE UNCHANGED <<list, cells, bufs>> /\ undefined' = TRUE
    BY <2>1, SameMemory
  <2>2. ASSUME NEW i \in 1..Len(Path), FirstMatch(i, s, c), Unlink(Before(i), Path[i])
        PROVE  Requests!Next
    BY <2>2, RemoveIsTake
  <2> QED
    BY <1>5, <2>1, <2>2, RemoveCases
<1>6. CASE ClearEntries
  <2>1. CASE UNCHANGED <<list, cells, bufs>> /\ undefined' = TRUE
    BY <2>1, SameMemory
  <2>2. CASE ~ (UNCHANGED <<list, cells, bufs>> /\ undefined' = TRUE)
    <3>1. Path' = <<>>
      BY <1>6, <2>2, ClearCases, Cleared
    <3> QED
      BY <3>1, EmptyListNext DEF Requests!Next, Requests!Clear
  <2> QED
    BY <2>1, <2>2
<1>7. CASE UNCHANGED vars
  <2>1. UNCHANGED <<list, cells, bufs>> /\ undefined' \in BOOLEAN
    BY <1>7 DEF vars, Sound, TypeOK
  <2> QED
    BY <2>1, SameMemory
<1> QED
  BY <1>1, <1>2, <1>3, <1>4, <1>5, <1>6, <1>7 DEF Next

\* The empty list is where both begin.
LEMMA RefinesInit == Init => Requests!Init
<1> SUFFICES ASSUME Init PROVE Requests!Init
  OBVIOUS
<1>1. <<>> \in Seq(Address) /\ DOMAIN <<>> = {}
  BY EmptySeq
<1>2. Leads(ipmi_req_entries, cell, <<>>) /\ IsInjective(<<>>)
  BY <1>1 DEF Init, Leads, IsInjective
<1>3. Path = <<>>
  BY <1>1, <1>2, IsPath
<1> QED
  BY <1>1, <1>3 DEF Requests!Init, ListOf

\* The linked cells implement the list of requests that the command engine
\* relies on: additions go to the end, a response takes the first entry of its
\* number and command, the close takes them all, and nothing else changes it.
THEOREM ImplementsRequestList == Spec => IsRequestList
<1>1. Sound /\ Sound' /\ [Next]_vars => [Requests!Next]_(ListOf(Path))
  BY RefinesStep
<1> QED
  BY <1>1, RefinesInit, Invariant, PTL DEF Spec, IsRequestList, Requests!Spec
=============================================================================
