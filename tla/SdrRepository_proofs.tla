-------------------------- MODULE SdrRepository_proofs --------------------------
(***************************************************************************)
(* Proofs about SdrRepository: its type invariant, that no record is put      *)
(* together from two versions, and that success is complete, for any number   *)
(* of programs, records, chunks, changes and faults.                           *)
(***************************************************************************)
EXTENDS SdrRepository, SequenceTheorems, FiniteSetTheorems, TLAPS

(***************************************************************************)
(* The inductive invariant. Its parts are predicates of one program's          *)
(* variables q and of the BMC's records rp.                                    *)
(***************************************************************************)

\* The record that id names.
AtIn(rp, id, i) == i \in DOMAIN rp /\ IF id = First THEN i = 1 ELSE rp[i].id = id
NextIn(rp, i) == IF i < Len(rp) THEN rp[i + 1].id ELSE Last

\* What a program is in the middle of.
InStep(q, verb) ==
    /\ q.pc \in {"begin", "info"} => q.list = <<>> /\ (q.saves => q.index = 0)
    /\ q.pc = "clear" => q.index = 0
    /\ q.pc = "add" => q.index < Len(q.list) /\ Len(q.got) < Len(q.list[q.index + 1])
    /\ q.pc = "begin" => q.index = 0
    /\ q.pc \in {"write", "writing", "reread"} => q.saves = TRUE
    /\ q.pc \in {"clear", "add"} => verb = "restore"
    /\ q.pc = "reread" => verb = "jump"
    /\ q.pc \in {"info", "get", "failed", "write", "writing", "reread"} => verb # "restore"

\* What a program has got so far is the beginning of the i-th record.
ReadsAt(q, rp, i) ==
    /\ AtIn(rp, q.recid, i)
    /\ q.want = Len(rp[i].data) /\ Len(q.got) < q.want
    /\ \A k \in 1..Len(q.got) : q.got[k] = rp[i].data[k]
    /\ q.next = NextIn(rp, i)

\* Nothing that a program has is torn; while it holds the reservation (mine),
\* the record that it reads is still as it was at the first chunk.
Untorn(q, rp, mine) ==
    /\ \A i \in DOMAIN q.list : Whole(q.list[i])
    /\ q.pc = "get" => Whole(q.got)
    /\ q.pc = "get" /\ q.got # <<>> /\ mine => \E i \in DOMAIN rp : ReadsAt(q, rp, i)

\* The list is the beginning of the repository, and the next record is read.
Follows(q, rp) ==
    /\ Len(q.list) < Len(rp)
    /\ \A i \in 1..Len(q.list) : q.list[i] = rp[i].data
    /\ AtIn(rp, q.recid, Len(q.list) + 1)
    /\ q.got # <<>> => ReadsAt(q, rp, Len(q.list) + 1)
    /\ q.saves => q.index = Len(q.list) /\ q.count = Len(rp)

\* A program, of a verb, that nothing has disturbed, is on its way to
\* completeness; quiet says that no command has failed so far.
Complete(q, rp, verb, quiet) ==
    /\ q.touched = FALSE /\ q.lossy = FALSE
    /\ q.saves = TRUE \/ verb = "restore" \/ (verb = "show" /\ quiet)
    => /\ q.pc = "get" => Follows(q, rp)
       /\ q.pc \in {"write", "writing", "reread"} => q.list = Data(rp) /\ q.count = Len(rp)
       /\ q.pc = "add" => Len(rp) = q.index /\ \A i \in 1..Len(rp) : rp[i].data = q.list[i]
       /\ q.pc = "done" /\ q.ret = "ok" /\ (verb \in {"dump", "jump"} => q.clobbered = FALSE) => q.list = Data(rp)

\* A program that nobody writes over has in the file what it wants there.
Stored(q, rp, verb, f) ==
    /\ q.pc \in {"writing", "reread"} => f # NoFile
    /\ q.clobbered = FALSE =>
        /\ q.pc = "writing" => f = <<>>
        /\ /\ q.pc = "reread" \/ (q.pc = "done" /\ q.ret = "ok")
           /\ verb \in {"dump", "jump"} /\ q.saves = TRUE /\ q.touched = FALSE /\ q.lossy = FALSE
           => f = Data(rp)

IdsDiffer(rp) == \A i, j \in DOMAIN rp : i # j => rp[i].id # rp[j].id

Quiet == faults = setup.faults

RepoInv ==
    /\ TypeOK
    /\ \A p \in Programs : InStep(prog[p], Verb(p))
    /\ setup.reservations = TRUE =>
          /\ \A i \in DOMAIN repo : Whole(repo[i].data)
          /\ file # NoFile => \A i \in DOMAIN file : Whole(file[i])
          /\ \A p \in Programs : Untorn(prog[p], repo, holder = p)
    /\ \A p \in Programs : Complete(prog[p], repo, Verb(p), Quiet)
    /\ \A p \in Programs : Stored(prog[p], repo, Verb(p), file)

-----------------------------------------------------------------------------
(* A record that has been read, or was given up.                           *)

ReservationsAreBoolean == setup.reservations \in BOOLEAN

\* What the assumption says of an instance.
LEMMA SetupTypes ==
    ASSUME setup \in Setups
    PROVE  /\ setup.verbs \in [Programs -> {"dump", "show", "restore", "jump"}]
           /\ setup.changes \in Nat /\ setup.faults \in Nat
           /\ setup.reservations \in BOOLEAN /\ setup.kills \in BOOLEAN
           /\ setup.repo \in Seq([id : Nat \ {First}, data : Seq(1..Len(setup.repo)) \ {<<>>}])
           /\ Len(setup.repo) \in Nat
<1>1. /\ setup.verbs \in [Programs -> {"dump", "show", "restore", "jump"}]
      /\ setup.changes \in Nat /\ setup.faults \in Nat
      /\ setup.reservations \in BOOLEAN /\ setup.kills \in BOOLEAN
  BY SdrAssumption
<1>2. setup.repo \in Seq([id : Nat \ {First}, data : Seq(1..Len(setup.repo)) \ {<<>>}])
  BY SdrAssumption
<1>3. Len(setup.repo) \in Nat
  BY <1>2, LenProperties
<1> QED
  BY <1>1, <1>2, <1>3

\* A record is appended to a program's list.
LEMMA Listed ==
    ASSUME NEW l \in Seq(Records), NEW data \in Records
    PROVE  /\ Append(l, data) \in Seq(Records)
           /\ Len(Append(l, data)) = Len(l) + 1
           /\ \A i \in 1..Len(l) : Append(l, data)[i] = l[i]
           /\ Append(l, data)[Len(l) + 1] = data
           /\ Len(l) \in Nat
OBVIOUS

\* The reading of a record begins.
LEMMA Getting ==
    ASSUME NEW q \in ProgramTypes, NEW id \in Nat
    PROVE  /\ Get(q, id) \in ProgramTypes
           /\ Get(q, id).pc = "get" /\ Get(q, id).recid = id /\ Get(q, id).got = <<>>
           /\ Get(q, id).list = q.list /\ Get(q, id).index = q.index /\ Get(q, id).count = q.count
           /\ Get(q, id).saves = q.saves /\ Get(q, id).touched = q.touched /\ Get(q, id).lossy = q.lossy
<1>1. "get" \in Places
  BY DEF Places
<1>2. <<>> \in Seq(Versions)
  OBVIOUS
<1> QED
  BY <1>1, <1>2 DEF Get, ProgramTypes

\* A program is over.
LEMMA BeingOver ==
    ASSUME NEW q \in ProgramTypes, NEW ret \in {"ok", "error"}
    PROVE  /\ Over(q, ret) \in ProgramTypes
           /\ Over(q, ret).pc = "done" /\ Over(q, ret).ret = ret /\ Over(q, ret).list = q.list
           /\ Over(q, ret).saves = q.saves /\ Over(q, ret).touched = q.touched /\ Over(q, ret).lossy = q.lossy
           /\ Over(q, ret).clobbered = q.clobbered
<1>1. "done" \in Places /\ First \in Nat /\ 0 \in 0..(MaxTries - 1)
  BY SdrAssumption DEF Places, First
<1>2. <<>> \in Seq(Versions)
  OBVIOUS
<1> QED
  BY <1>1, <1>2 DEF Over, ProgramTypes

\* The list is the beginning of the repository, and recid its next record.
UpTo(q, rp) ==
    /\ Len(q.list) < Len(rp)
    /\ \A i \in 1..Len(q.list) : q.list[i] = rp[i].data
    /\ AtIn(rp, q.recid, Len(q.list) + 1)
    /\ q.saves = TRUE => q.index = Len(q.list) /\ q.count = Len(rp)

\* Where a record that was read as a whole leads to: the list grows by it, and
\* the next one is read, or it was the last.
LEMMA NextRecord ==
    ASSUME NEW q \in ProgramTypes, NEW rp \in Seq([id : Nat \ {First}, data : Records]), IdsDiffer(rp),
           q.got \in Records, UpTo(q, rp), q.got = rp[Len(q.list) + 1].data, q.next = NextIn(rp, Len(q.list) + 1)
    PROVE  LET l == Append(q.list, q.got)
           IN /\ q.next # q.recid
              /\ q.next = Last => l = Data(rp)
              /\ q.next # Last =>
                    /\ q.next \in Nat /\ Len(l) < Len(rp)
                    /\ \A i \in 1..Len(l) : l[i] = rp[i].data
                    /\ AtIn(rp, q.next, Len(l) + 1)
<1> DEFINE n == Len(q.list)
           l == Append(q.list, q.got)
<1>1. q.list \in Seq(Records) /\ n \in Nat
  BY DEF ProgramTypes
<1>2. /\ l \in Seq(Records) /\ Len(l) = n + 1 /\ l[n + 1] = q.got
      /\ \A i \in 1..n : l[i] = q.list[i]
  BY <1>1, Listed
<1> DEFINE T == [id : Nat \ {First}, data : Records]
<1>a. Len(rp) \in Nat /\ DOMAIN rp = 1..Len(rp)
  BY LenProperties
<1>b. \A i \in DOMAIN rp : rp[i] \in T
  BY <1>a, ElementOfSeq
<1>c. n < Len(rp) /\ AtIn(rp, q.recid, n + 1) /\ \A i \in 1..n : q.list[i] = rp[i].data
  BY DEF UpTo
<1>3. /\ Len(rp) \in Nat /\ DOMAIN rp = 1..Len(rp) /\ n < Len(rp)
      /\ \A i \in DOMAIN rp : rp[i].id \in Nat /\ rp[i].id # First /\ rp[i].data \in Records
      /\ AtIn(rp, q.recid, n + 1) /\ \A i \in 1..n : q.list[i] = rp[i].data
  BY <1>a, <1>b, <1>c
<1>4. \A i \in 1..(n + 1) : l[i] = rp[i].data
  BY <1>1, <1>2, <1>3
<1>5. q.next = IF n + 1 < Len(rp) THEN rp[n + 2].id ELSE Last
  BY <1>1 DEF NextIn
<1> HIDE DEF n
<1>6. q.next # q.recid
  <2>1. CASE n + 1 < Len(rp)
    <3>1. n + 2 \in DOMAIN rp /\ n + 1 \in DOMAIN rp /\ n + 2 # n + 1
      BY <1>1, <1>3, <2>1
    <3>2. rp[n + 2].id # rp[n + 1].id
      BY <3>1 DEF IdsDiffer
    <3>3. q.recid = First \/ q.recid = rp[n + 1].id
      BY <1>3 DEF AtIn
    <3> QED
      BY <1>3, <1>5, <2>1, <3>1, <3>2, <3>3
  <2>2. CASE ~(n + 1 < Len(rp))
    <3>1. q.recid \in Nat
      BY DEF ProgramTypes
    <3> QED
      BY <1>5, <2>2, <3>1 DEF Last
  <2> QED
    BY <2>1, <2>2
<1>7. ASSUME q.next = Last PROVE l = Data(rp)
  <2>1. Len(rp) = n + 1
    <3>1. ASSUME n + 1 < Len(rp) PROVE FALSE
      <4>1. n + 2 \in DOMAIN rp
        BY <1>1, <1>3, <3>1
      <4> QED
        BY <1>3, <1>5, <1>7, <3>1, <4>1 DEF Last
    <3> DEFINE m == Len(rp)
    <3>2. n < m /\ n \in Nat /\ m \in Nat /\ ~(n + 1 < m)
      BY <1>1, <1>a, <1>c, <3>1
    <3> HIDE DEF m
    <3>3. m = n + 1
      BY <3>2
    <3> QED
      BY <3>3 DEF m
  <2>2. Data(rp) = [i \in 1..(n + 1) |-> rp[i].data]
    BY <1>3, <2>1 DEF Data
  <2>3. l = [i \in 1..(n + 1) |-> l[i]]
    BY <1>2
  <2> QED
    BY <1>4, <2>2, <2>3
<1>8. ASSUME q.next # Last PROVE n + 1 < Len(rp) /\ q.next \in Nat /\ AtIn(rp, q.next, n + 2)
  <2>1. n + 1 < Len(rp)
    BY <1>5, <1>8
  <2>2. n + 2 \in DOMAIN rp
    BY <1>1, <1>3, <2>1
  <2> QED
    BY <1>3, <1>5, <2>1, <2>2 DEF AtIn
<1>9. q.next # Last => Len(l) < Len(rp) /\ AtIn(rp, q.next, Len(l) + 1)
  <2>1. Len(l) + 1 = n + 2
    BY <1>1, <1>2
  <2> QED
    BY <1>2, <1>8, <2>1
<1>10. \A i \in 1..Len(l) : l[i] = rp[i].data
  BY <1>2, <1>4
<1> QED
  BY <1>6, <1>7, <1>8, <1>9, <1>10

\* What becomes of a program whose GetSDR returned ret.
AfterGet(p, q, ret) == IF q.saves THEN Cached(p, q, ret) ELSE Shown(p, q, ret)

\* A record that was not read as a whole counts for nothing, unless a command failed.
Returned(q, rp, verb, quiet, ret) ==
    /\ q.touched = FALSE /\ q.lossy = FALSE
    /\ q.saves = TRUE \/ (verb = "show" /\ quiet)
    => /\ UpTo(q, rp)
       /\ ret = "ok" => q.got = rp[Len(q.list) + 1].data /\ q.next = NextIn(rp, Len(q.list) + 1)
       /\ ret = "error" => q.saves = TRUE

\* Where a program is after GetSDR, in the four cases.
LEMMA AfterGetIs ==
    ASSUME NEW p \in Programs, NEW q \in ProgramTypes, NEW ret \in {"ok", "error", "lost"},
           q.pc = "get", ret = "ok" => q.got \in Records
    PROVE  LET r == AfterGet(p, q, ret)
               l == [q EXCEPT !.list = Append(q.list, q.got)]
           IN \/ \E t \in 0..(MaxTries - 1) :
                    /\ ret = "lost"
                    /\ r = Get([q EXCEPT !.reserve = TRUE, !.try = t], q.recid)
              \/ q.saves = FALSE /\ ret \in {"lost", "error"} /\ r = Over(q, "error")
              \/ q.saves = TRUE /\ ret = "error" /\ r = [q EXCEPT !.pc = "failed", !.ret = "error"]
              \/ q.saves = FALSE /\ ret = "error" /\ r = Onward(q, "error")
              \/ q.saves = FALSE /\ ret = "ok" /\ r = Onward(l, "ok")
              \/ /\ q.saves = TRUE /\ ret = "ok"
                 /\ r = IF q.next \in {Last, q.recid} \/ q.index >= q.count
                         THEN [l EXCEPT !.index = q.index + 1, !.pc = "write"]
                         ELSE Get([l EXCEPT !.index = q.index + 1], q.next)
<1> DEFINE r == AfterGet(p, q, ret)
           l == [q EXCEPT !.list = Append(q.list, q.got)]
<1>1. q.saves \in BOOLEAN /\ q.try \in 0..(MaxTries - 1) /\ MaxTries \in Nat
  BY SdrAssumption DEF ProgramTypes
<1>2. [q EXCEPT !.reserve = TRUE] = [q EXCEPT !.reserve = TRUE, !.try = q.try]
  BY DEF ProgramTypes
<1>3. CASE q.saves = TRUE
  <2>1. r = Cached(p, q, ret)
    BY <1>3 DEF AfterGet
  <2>2. [q EXCEPT !.list = Append(q.list, q.got), !.index = q.index + 1] = [l EXCEPT !.index = q.index + 1]
    BY DEF ProgramTypes
  <2> QED
    BY <1>1, <1>2, <1>3, <2>1, <2>2 DEF Cached, Fails
<1>4. CASE q.saves = FALSE
  <2>1. r = Shown(p, q, ret)
    BY <1>4 DEF AfterGet
  <2>2. ret = "lost" /\ q.try + 1 < MaxTries => q.try + 1 \in 0..(MaxTries - 1)
    BY <1>1
  <2>3. CASE ret = "lost" /\ q.try + 1 < MaxTries
    <3>1. r = Get([q EXCEPT !.reserve = TRUE, !.try = q.try + 1], q.recid)
      <4>1. [q EXCEPT !.reserve = TRUE, !.try = @ + 1] = [q EXCEPT !.reserve = TRUE, !.try = q.try + 1]
        BY DEF ProgramTypes
      <4>2. Shown(p, q, ret) = Get([q EXCEPT !.reserve = TRUE, !.try = @ + 1], q.recid)
        BY <1>1, <2>3 DEF Shown
      <4> QED
        BY <2>1, <4>1, <4>2
    <3> QED
      BY <2>2, <2>3, <3>1
  <2>4. CASE ret = "lost" /\ ~(q.try + 1 < MaxTries)
    <3>1. q.try + 1 >= MaxTries
      BY <1>1, <2>4
    <3> QED
      BY <1>4, <2>1, <2>4, <3>1 DEF Shown
  <2>5. CASE ret = "error"
    BY <1>4, <2>1, <2>5 DEF Shown
  <2>6. CASE ret = "ok"
    BY <1>4, <2>1, <2>6 DEF Shown
  <2> QED
    BY <2>3, <2>4, <2>5, <2>6
<1> QED
  BY <1>1, <1>3, <1>4

\* After GetSDR the program is in step, and has nothing that is torn.
LEMMA AfterGetInStep ==
    ASSUME NEW p \in Programs, NEW q \in ProgramTypes, NEW ret \in {"ok", "error", "lost"},
           q.pc = "get", ret = "ok" => q.got \in Records, NEW verb, verb # "restore"
    PROVE  LET r == AfterGet(p, q, ret)
           IN /\ r \in ProgramTypes /\ InStep(r, verb)
              /\ r.saves = q.saves /\ r.touched = q.touched /\ r.lossy = q.lossy
              /\ r.pc \in {"get", "failed", "write", "done"}
              /\ r.pc = "get" => r.got = <<>>
              /\ r.list = q.list \/ (ret = "ok" /\ r.list = Append(q.list, q.got))
<1> DEFINE r == AfterGet(p, q, ret)
           l == [q EXCEPT !.list = Append(q.list, q.got)]
           m == [l EXCEPT !.index = q.index + 1]
<1>1. /\ q.list \in Seq(Records) /\ q.index \in Nat /\ q.next \in Nat \cup {Last} /\ q.recid \in Nat
      /\ q.saves \in BOOLEAN
  BY DEF ProgramTypes
<1>2. {"get", "failed", "write", "done"} \subseteq Places /\ 0 \in 0..(MaxTries - 1)
  BY SdrAssumption DEF Places
<1>3. ASSUME ret = "ok"
      PROVE  /\ l \in ProgramTypes /\ m \in ProgramTypes
             /\ l.list = Append(q.list, q.got) /\ l.saves = q.saves /\ l.touched = q.touched /\ l.lossy = q.lossy
             /\ m.list = Append(q.list, q.got) /\ m.saves = q.saves /\ m.touched = q.touched /\ m.lossy = q.lossy
             /\ l.next = q.next /\ l.recid = q.recid /\ l.pc = "get"
  <2>1. Append(q.list, q.got) \in Seq(Records) /\ q.index + 1 \in Nat
    BY <1>1, <1>3, Listed
  <2> QED
    BY <2>1 DEF ProgramTypes
<1> DEFINE Good(x) == /\ x \in ProgramTypes /\ InStep(x, verb)
                      /\ x.saves = q.saves /\ x.touched = q.touched /\ x.lossy = q.lossy
                      /\ x.pc \in {"get", "failed", "write", "done"}
                      /\ x.pc = "get" => x.got = <<>>
                      /\ x.list = q.list \/ (ret = "ok" /\ x.list = Append(q.list, q.got))
<1>4. ASSUME NEW o \in ProgramTypes, NEW id \in Nat,
             o.saves = q.saves, o.touched = q.touched, o.lossy = q.lossy,
             o.list = q.list \/ (ret = "ok" /\ o.list = Append(q.list, q.got))
      PROVE  Good(Get(o, id)) /\ Good(Over(o, "ok")) /\ Good(Over(o, "error"))
  BY <1>4, Getting, BeingOver DEF InStep
<1>5. ASSUME NEW o \in ProgramTypes, NEW s \in {"ok", "error"}, o.next = q.next,
             o.saves = q.saves, o.touched = q.touched, o.lossy = q.lossy,
             o.list = q.list \/ (ret = "ok" /\ o.list = Append(q.list, q.got))
      PROVE  Good(Onward(o, s))
  <2>1. CASE o.next \in {Last, o.recid}
    <3> HIDE DEF Good
    <3>1. Onward(o, s) = Over(o, s)
      BY <2>1 DEF Onward
    <3>2. Good(Over(o, "ok")) /\ Good(Over(o, "error"))
      BY <1>4, <1>5, <1>1
    <3> QED
      BY <3>1, <3>2
  <2>2. CASE o.next \notin {Last, o.recid}
    <3> DEFINE u == [o EXCEPT !.try = 0, !.ret = s]
    <3>1. /\ u \in ProgramTypes /\ u.saves = o.saves /\ u.touched = o.touched /\ u.lossy = o.lossy /\ u.list = o.list
      BY <1>2 DEF ProgramTypes
    <3>2. Onward(o, s) = Get(u, o.next) /\ o.next \in Nat
      BY <1>1, <1>5, <2>2 DEF Onward
    <3> HIDE DEF u, Good
    <3> QED
      BY <1>4, <1>5, <3>1, <3>2
  <2> QED
    BY <2>1, <2>2
<1>6. CASE \E t \in 0..(MaxTries - 1) : r = Get([q EXCEPT !.reserve = TRUE, !.try = t], q.recid)
  <2> PICK t \in 0..(MaxTries - 1) : r = Get([q EXCEPT !.reserve = TRUE, !.try = t], q.recid)
    BY <1>6
  <2> DEFINE u == [q EXCEPT !.reserve = TRUE, !.try = t]
  <2>1. u \in ProgramTypes /\ u.saves = q.saves /\ u.touched = q.touched /\ u.lossy = q.lossy /\ u.list = q.list
    BY DEF ProgramTypes
  <2> HIDE DEF u, Good
  <2>2. Good(Get(u, q.recid))
    BY <1>1, <1>4, <2>1
  <2> QED
    BY <2>2 DEF u, Good
<1>7. CASE q.saves = FALSE /\ ret \in {"lost", "error"} /\ r = Over(q, "error")
  BY <1>4, <1>7
<1>8. CASE q.saves = TRUE /\ ret = "error" /\ r = [q EXCEPT !.pc = "failed", !.ret = "error"]
  <2> DEFINE u == [q EXCEPT !.pc = "failed", !.ret = "error"]
  <2>1. /\ u \in ProgramTypes /\ u.pc = "failed" /\ u.list = q.list
        /\ u.saves = q.saves /\ u.touched = q.touched /\ u.lossy = q.lossy
    BY <1>2 DEF ProgramTypes
  <2>2. r = u
    BY <1>8
  <2> HIDE DEF u, r
  <2>3. Good(r)
    BY <2>1, <2>2 DEF InStep
  <2> QED
    BY <2>3 DEF Good, r
<1>9. CASE q.saves = FALSE /\ ret = "error" /\ r = Onward(q, "error")
  BY <1>5, <1>9
<1>10. CASE q.saves = FALSE /\ ret = "ok" /\ r = Onward(l, "ok")
  <2> HIDE DEF l, Good
  <2>1. Good(Onward(l, "ok"))
    BY <1>3, <1>5, <1>10
  <2> QED
    BY <2>1, <1>10 DEF Good
<1>11. CASE /\ q.saves = TRUE /\ ret = "ok"
            /\ r = IF q.next \in {Last, q.recid} \/ q.index >= q.count
                    THEN [m EXCEPT !.pc = "write"] ELSE Get(m, q.next)
  <2>1. CASE r = [m EXCEPT !.pc = "write"]
    <3> HIDE DEF m
    <3>1. r \in ProgramTypes /\ r.pc = "write" /\ r.saves = m.saves /\ r.touched = m.touched /\ r.lossy = m.lossy
          /\ r.list = m.list
      BY <1>2, <1>3, <1>11, <2>1 DEF ProgramTypes
    <3> QED
      BY <1>3, <1>11, <3>1 DEF InStep
  <2>2. CASE r = Get(m, q.next) /\ q.next # Last
    <3> HIDE DEF m, Good
    <3>1. Good(Get(m, q.next))
      BY <1>1, <1>3, <1>4, <1>11, <2>2
    <3> QED
      BY <3>1, <2>2 DEF Good
  <2> QED
    BY <1>11, <2>1, <2>2
<1>12. [l EXCEPT !.index = q.index + 1, !.pc = "write"] = [m EXCEPT !.pc = "write"]
  BY DEF ProgramTypes
<1> HIDE DEF Good
<1>13. Good(r)
  <2> HIDE DEF r, l, m
  <2> QED
    BY <1>6, <1>7, <1>8, <1>9, <1>10, <1>11, <1>12, AfterGetIs DEF Good, r, l, m
<1> QED
  BY <1>13 DEF Good

\* A program that saves is not over after GetSDR.
LEMMA AfterGetStored ==
    ASSUME NEW p \in Programs, NEW q \in ProgramTypes, NEW ret \in {"ok", "error", "lost"},
           q.pc = "get", ret = "ok" => q.got \in Records, NEW verb, verb # "restore", NEW rp, NEW f
    PROVE  Stored(AfterGet(p, q, ret), rp, verb, f)
<1> DEFINE r == AfterGet(p, q, ret)
<1>1. r \in ProgramTypes /\ r.pc \in {"get", "failed", "write", "done"} /\ r.saves = q.saves
  BY AfterGetInStep
<1>2. ASSUME q.saves = TRUE PROVE r.pc # "done"
  <2> DEFINE l == [q EXCEPT !.list = Append(@, q.got), !.index = @ + 1]
             g == [q EXCEPT !.reserve = TRUE]
  <2>1. r = Cached(p, q, ret)
    BY <1>2 DEF AfterGet
  <2>2. Get(g, q.recid).pc = "get" /\ Fails(q).pc = "failed"
    BY DEF Get, Fails, ProgramTypes
  <2>3. [l EXCEPT !.pc = "write"].pc = "write" /\ Get(l, q.next).pc = "get"
    BY DEF Get, ProgramTypes
  <2> HIDE DEF l, g, r
  <2>4. r \in {Get(g, q.recid), Fails(q), [l EXCEPT !.pc = "write"], Get(l, q.next)}
    BY <2>1 DEF Cached, l, g
  <2> QED
    BY <2>2, <2>3, <2>4
<1> HIDE DEF r
<1>3. Stored(r, rp, verb, f)
  BY <1>1, <1>2 DEF Stored
<1> QED
  BY <1>3 DEF r

LEMMA AfterGetUntorn ==
    ASSUME NEW p \in Programs, NEW q \in ProgramTypes, NEW ret \in {"ok", "error", "lost"},
           q.pc = "get", ret = "ok" => q.got \in Records, NEW rp, NEW mine,
           \A i \in DOMAIN q.list : Whole(q.list[i]), Whole(q.got)
    PROVE  Untorn(AfterGet(p, q, ret), rp, mine)
<1> DEFINE r == AfterGet(p, q, ret)
<1>1. /\ r.pc = "get" => r.got = <<>>
      /\ r.list = q.list \/ (ret = "ok" /\ r.list = Append(q.list, q.got))
  BY AfterGetInStep
<1>2. q.list \in Seq(Records)
  BY DEF ProgramTypes
<1>3. ASSUME ret = "ok", NEW i \in DOMAIN Append(q.list, q.got)
      PROVE  Whole(Append(q.list, q.got)[i])
  BY <1>2, <1>3, Listed
<1> HIDE DEF r
<1>4. \A i \in DOMAIN r.list : Whole(r.list[i])
  BY <1>1, <1>3
<1>5. r.pc = "get" => Whole(r.got)
  BY <1>1 DEF Whole
<1>6. Untorn(r, rp, mine)
  BY <1>1, <1>4, <1>5 DEF Untorn
<1> QED
  BY <1>6 DEF r

LEMMA AfterGetComplete ==
    ASSUME NEW p \in Programs, NEW q \in ProgramTypes, NEW ret \in {"ok", "error", "lost"},
           q.pc = "get", ret = "ok" => q.got \in Records,
           NEW rp \in Seq([id : Nat \ {First}, data : Records]), IdsDiffer(rp),
           NEW verb \in {"dump", "show", "jump"}, NEW quiet \in BOOLEAN,
           Returned(q, rp, verb, quiet, ret)
    PROVE  Complete(AfterGet(p, q, ret), rp, verb, quiet)
<1> DEFINE r == AfterGet(p, q, ret)
           l == [q EXCEPT !.list = Append(q.list, q.got)]
           m == [l EXCEPT !.index = q.index + 1]
           a == Append(q.list, q.got)
<1>1. /\ r \in ProgramTypes
      /\ r.saves = q.saves /\ r.touched = q.touched /\ r.lossy = q.lossy
      /\ r.pc \in {"get", "failed", "write", "done"}
      /\ r.pc = "get" => r.got = <<>>
  BY AfterGetInStep
<1>2. CASE ~(q.touched = FALSE /\ q.lossy = FALSE /\ (q.saves = TRUE \/ (verb = "show" /\ quiet)))
  <2> HIDE DEF r
  <2>1. Complete(r, rp, verb, quiet)
    BY <1>1, <1>2 DEF Complete
  <2> QED
    BY <2>1 DEF r
<1>3. CASE q.touched = FALSE /\ q.lossy = FALSE /\ (q.saves = TRUE \/ (verb = "show" /\ quiet))
  <2>1. /\ UpTo(q, rp)
        /\ ret = "ok" => q.got = rp[Len(q.list) + 1].data /\ q.next = NextIn(rp, Len(q.list) + 1)
        /\ ret = "error" => q.saves = TRUE
    BY <1>3 DEF Returned
  <2>2. /\ q.list \in Seq(Records) /\ q.index \in Nat /\ q.count \in Nat /\ q.recid \in Nat /\ q.saves \in BOOLEAN
        /\ Len(q.list) \in Nat /\ Len(rp) \in Nat
    BY DEF ProgramTypes
  <2>g. \A o \in ProgramTypes, id \in Nat :
           LET x == Get(o, id)
           IN /\ x.pc = "get" /\ x.recid = id /\ x.got = <<>> /\ x.list = o.list /\ x.index = o.index
              /\ x.count = o.count /\ x.saves = o.saves
    BY Getting
  \* What r must be for the next record to be read, or for the end.
  <2> DEFINE Ready == /\ r.pc = "get" => UpTo(r, rp)
                      /\ r.pc = "write" => r.list = Data(rp) /\ r.count = Len(rp)
                      /\ r.pc = "done" /\ r.ret = "ok" => r.list = Data(rp)
  <2>3. SUFFICES Ready
    <3> HIDE DEF r
    <3>1. ASSUME Ready PROVE Complete(r, rp, verb, quiet)
      BY <1>1, <3>1 DEF Complete, UpTo, Follows
    <3> QED
      BY <3>1 DEF r
  <2>4. CASE \E t \in 0..(MaxTries - 1) : r = Get([q EXCEPT !.reserve = TRUE, !.try = t], q.recid)
    <3> PICK t \in 0..(MaxTries - 1) : r = Get([q EXCEPT !.reserve = TRUE, !.try = t], q.recid)
      BY <2>4
    <3> DEFINE u == [q EXCEPT !.reserve = TRUE, !.try = t]
    <3>1. u \in ProgramTypes /\ u.saves = q.saves /\ u.list = q.list /\ u.index = q.index /\ u.count = q.count
      BY DEF ProgramTypes
    <3>2. r = Get(u, q.recid)
      OBVIOUS
    <3> HIDE DEF u, r
    <3>3. r.pc = "get" /\ r.recid = q.recid /\ r.list = q.list /\ r.index = q.index /\ r.count = q.count
          /\ r.saves = q.saves
      BY <2>2, <2>g, <3>1, <3>2
    <3> QED
      BY <2>1, <3>3 DEF UpTo
  <2>5. CASE q.saves = FALSE /\ ret \in {"lost", "error"} /\ r = Over(q, "error")
    <3> HIDE DEF r
    <3> QED
      BY <2>5, BeingOver
  <2>6. CASE q.saves = TRUE /\ ret = "error" /\ r = [q EXCEPT !.pc = "failed", !.ret = "error"]
    <3>1. [q EXCEPT !.pc = "failed", !.ret = "error"].pc = "failed"
      BY DEF ProgramTypes
    <3> HIDE DEF r
    <3> QED
      BY <2>6, <3>1
  <2>7. CASE q.saves = FALSE /\ ret = "error" /\ r = Onward(q, "error")
    BY <2>1, <2>7
  <2>8. ASSUME ret = "ok"
        PROVE  /\ q.next # q.recid
               /\ q.next = Last => a = Data(rp)
               /\ q.next # Last => /\ q.next \in Nat /\ Len(a) < Len(rp)
                                   /\ \A i \in 1..Len(a) : a[i] = rp[i].data
                                   /\ AtIn(rp, q.next, Len(a) + 1)
               /\ a \in Seq(Records) /\ Len(a) = Len(q.list) + 1
    BY <2>1, <2>2, <2>8, NextRecord, Listed
  <2>9. ASSUME ret = "ok"
        PROVE  /\ l \in ProgramTypes /\ m \in ProgramTypes /\ [m EXCEPT !.pc = "write"].pc = "write"
               /\ [m EXCEPT !.pc = "write"].list = a /\ [m EXCEPT !.pc = "write"].count = q.count
               /\ l.list = a /\ l.saves = q.saves /\ l.next = q.next /\ l.recid = q.recid
               /\ m.list = a /\ m.saves = q.saves /\ m.index = q.index + 1 /\ m.count = q.count
    <3>1. a \in Seq(Records) /\ q.index + 1 \in Nat
      BY <2>2, <2>8, <2>9
    <3> HIDE DEF a
    <3> QED
      BY <3>1 DEF ProgramTypes, a
  <2>10. CASE q.saves = FALSE /\ ret = "ok" /\ r = Onward(l, "ok")
    <3> HIDE DEF r, l, a
    <3>1. CASE q.next = Last
      <4>1. r = Over(l, "ok")
        BY <2>9, <2>10, <3>1 DEF Onward
      <4> QED
        BY <2>8, <2>9, <2>10, <3>1, <4>1, BeingOver
    <3>2. CASE q.next # Last
      <4> DEFINE u == [l EXCEPT !.try = 0, !.ret = "ok"]
      <4>1. r = Get(u, q.next)
        BY <2>8, <2>9, <2>10, <3>2 DEF Onward
      <4>2. u \in ProgramTypes /\ u.list = a /\ u.saves = q.saves
        <5>1. 0 \in 0..(MaxTries - 1)
          BY SdrAssumption
        <5> QED
          BY <2>9, <2>10, <5>1 DEF ProgramTypes
      <4> HIDE DEF u
      <4>3. r.pc = "get" /\ r.list = a /\ r.recid = q.next /\ r.saves = FALSE
        BY <2>8, <2>10, <2>g, <3>2, <4>1, <4>2
      <4> QED
        BY <2>8, <2>10, <3>2, <4>3 DEF UpTo
    <3> QED
      BY <3>1, <3>2
  <2>11. CASE /\ q.saves = TRUE /\ ret = "ok"
              /\ r = IF q.next \in {Last, q.recid} \/ q.index >= q.count
                      THEN [m EXCEPT !.pc = "write"] ELSE Get(m, q.next)
    <3>1. q.index = Len(q.list) /\ q.count = Len(rp) /\ Len(q.list) < Len(rp)
      BY <2>1, <2>11 DEF UpTo
    <3>2. ~(q.index >= q.count)
      BY <2>2, <3>1
    <3> HIDE DEF r, m, l, a
    <3>3. CASE q.next = Last
      BY <2>8, <2>9, <2>11, <3>1, <3>3
    <3>4. CASE q.next # Last
      <4>1. r = Get(m, q.next)
        BY <2>8, <2>11, <3>2, <3>4
      <4>2. r.pc = "get" /\ r.list = a /\ r.recid = q.next /\ r.index = q.index + 1 /\ r.count = q.count
        <5>1. q.next \in Nat /\ m \in ProgramTypes /\ m.list = a /\ m.index = q.index + 1 /\ m.count = q.count
          BY <2>8, <2>9, <2>11, <3>4
        <5> QED
          BY <2>g, <4>1, <5>1
      <4> QED
        BY <2>8, <2>11, <3>1, <3>4, <4>2 DEF UpTo
    <3> QED
      BY <3>3, <3>4
  <2>12. [l EXCEPT !.index = q.index + 1, !.pc = "write"] = [m EXCEPT !.pc = "write"]
    BY DEF ProgramTypes
  <2> HIDE DEF Ready
  <2>13. \/ \E t \in 0..(MaxTries - 1) : r = Get([q EXCEPT !.reserve = TRUE, !.try = t], q.recid)
         \/ q.saves = FALSE /\ ret \in {"lost", "error"} /\ r = Over(q, "error")
         \/ q.saves = TRUE /\ ret = "error" /\ r = [q EXCEPT !.pc = "failed", !.ret = "error"]
         \/ q.saves = FALSE /\ ret = "error" /\ r = Onward(q, "error")
         \/ q.saves = FALSE /\ ret = "ok" /\ r = Onward(l, "ok")
         \/ /\ q.saves = TRUE /\ ret = "ok"
            /\ r = IF q.next \in {Last, q.recid} \/ q.index >= q.count
                    THEN [m EXCEPT !.pc = "write"] ELSE Get(m, q.next)
    <3> HIDE DEF r, l, m
    <3> QED
      BY <2>12, AfterGetIs DEF r, l, m
  <2> QED
    BY <2>4, <2>5, <2>6, <2>7, <2>10, <2>11, <2>13
<1> QED
  BY <1>2, <1>3

-----------------------------------------------------------------------------
(* What a step leaves alone stays as it was.                               *)

\* The file, and what a restore may take from it.
FileIsGood(f) ==
    /\ f = NoFile \/ f \in Seq(Records)
    /\ setup.reservations = TRUE /\ f # NoFile => \A i \in DOMAIN f : Whole(f[i])

LEMMA OneMoves ==
    ASSUME RepoInv, NEW p \in Programs, NEW r \in ProgramTypes,
           prog' = [prog EXCEPT ![p] = r], setup' = setup, repo' = repo, versions' = versions, file' = file,
           holder' \in Programs \cup {Nobody},
           \A o \in Programs : o # p /\ holder' = o => holder = o,
           faults' \in 0..faults,
           InStep(r, Verb(p)), setup.reservations = TRUE => Untorn(r, repo, holder' = p),
           Complete(r, repo, Verb(p), faults' = setup.faults), Stored(r, repo, Verb(p), file)
    PROVE  RepoInv'
<1>0. FileIsGood(file')
  BY DEF RepoInv, TypeOK, FileIsGood
<1>1. TypeOK
  BY DEF RepoInv
<1>2. prog \in [Programs -> ProgramTypes] /\ setup \in Setups /\ faults \in 0..setup.faults /\ setup.faults \in Nat
  BY <1>1, SetupTypes DEF TypeOK
<1>3. ProgramTypes' = ProgramTypes /\ Records' = Records
  BY DEF ProgramTypes, Records, Versions
<1>4. prog'[p] = r /\ \A o \in Programs : o # p => prog'[o] = prog[o]
  BY <1>2
<1>5. faults' \in 0..setup.faults
  BY <1>2
<1>6. TypeOK'
  <2>1. prog' \in [Programs -> ProgramTypes]
    BY <1>2
  <2>2. file' = NoFile \/ file' \in Seq(Records)
    BY <1>0 DEF FileIsGood
  <2>3. /\ repo' \in Seq([id : Nat \ {First}, data : Records'])
        /\ \A i, j \in DOMAIN repo' : i # j => repo'[i].id # repo'[j].id
    BY <1>1, <1>3 DEF TypeOK
  <2>4. versions' \in 0..(Len(setup'.repo) + setup'.changes)
    BY <1>1 DEF TypeOK
  <2> QED
    BY <1>2, <1>3, <1>5, <2>1, <2>2, <2>3, <2>4 DEF TypeOK
<1>7. \A o \in Programs : InStep(prog'[o], Verb(o)')
  <2>1. \A o \in Programs : Verb(o)' = Verb(o)
    BY DEF Verb
  <2>2. \A o \in Programs : InStep(prog[o], Verb(o))
    BY DEF RepoInv
  <2> QED
    BY <1>4, <2>1, <2>2
<1>8. ASSUME setup.reservations = TRUE
      PROVE  /\ \A i \in DOMAIN repo' : Whole(repo'[i].data)
             /\ file' # NoFile => \A i \in DOMAIN file' : Whole(file'[i])
             /\ \A o \in Programs : Untorn(prog'[o], repo', holder' = o)
  <2>1. \A o \in Programs : Untorn(prog[o], repo, holder = o)
    BY <1>8 DEF RepoInv
  <2>2. \A i \in DOMAIN repo' : Whole(repo'[i].data)
    BY <1>8 DEF RepoInv
  <2>3. file' # NoFile => \A i \in DOMAIN file' : Whole(file'[i])
    BY <1>0, <1>8 DEF FileIsGood
  <2>4. \A o \in Programs : o # p => Untorn(prog'[o], repo', holder' = o)
    <3>1. SUFFICES ASSUME NEW o \in Programs, o # p PROVE Untorn(prog[o], repo, holder' = o)
      BY <1>4
    <3>2. Untorn(prog[o], repo, holder = o) /\ (holder' = o => holder = o)
      BY <2>1, <3>1
    <3> QED
      BY <3>2 DEF Untorn
  <2>5. Untorn(prog'[p], repo', holder' = p)
    BY <1>4, <1>8
  <2> QED
    BY <2>2, <2>3, <2>4, <2>5
<1>9. \A o \in Programs : Complete(prog'[o], repo', Verb(o)', Quiet')
  <2>1. \A o \in Programs : Complete(prog[o], repo, Verb(o), Quiet) /\ Verb(o)' = Verb(o)
    BY DEF RepoInv, Verb
  <2>2. Quiet' => Quiet
    BY <1>2 DEF Quiet
  <2>3. \A o \in Programs : o # p => Complete(prog'[o], repo', Verb(o)', Quiet')
    <3>1. SUFFICES ASSUME NEW o \in Programs, o # p PROVE Complete(prog[o], repo, Verb(o), Quiet')
      BY <1>4, <2>1
    <3>2. Complete(prog[o], repo, Verb(o), Quiet)
      BY <2>1
    <3> QED
      BY <2>2, <3>2 DEF Complete
  <2>4. Complete(prog'[p], repo', Verb(p)', Quiet')
    BY <1>4, <2>1 DEF Quiet
  <2> QED
    BY <2>3, <2>4
<1>10. \A o \in Programs : Stored(prog'[o], repo', Verb(o)', file')
  <2>1. \A o \in Programs : Stored(prog[o], repo, Verb(o), file) /\ Verb(o)' = Verb(o)
    BY DEF RepoInv, Verb
  <2> QED
    BY <1>4, <2>1
<1> QED
  BY <1>6, <1>7, <1>8, <1>9, <1>10 DEF RepoInv

-----------------------------------------------------------------------------
(* Reading.                                                                *)

\* A record that the BMC has is at one position.
LEMMA PositionIs ==
    ASSUME RepoInv, NEW id
    PROVE  /\ Has(id) => Position(id) \in DOMAIN repo /\ AtIn(repo, id, Position(id))
           /\ \A i \in DOMAIN repo : AtIn(repo, id, i) => Has(id) /\ Position(id) = i
<1>1. \A i, j \in DOMAIN repo : i # j => repo[i].id # repo[j].id
  BY DEF RepoInv, TypeOK
<1>2. ASSUME Has(id) PROVE Position(id) \in DOMAIN repo /\ IsAt(id, Position(id))
  BY <1>2 DEF Has, Position
<1>3. ASSUME NEW i \in DOMAIN repo, NEW j \in DOMAIN repo, IsAt(id, i), IsAt(id, j) PROVE i = j
  BY <1>1, <1>3 DEF IsAt
<1>4. \A i \in DOMAIN repo : AtIn(repo, id, i) <=> IsAt(id, i)
  BY DEF AtIn, IsAt
<1>5. \A i \in DOMAIN repo : IsAt(id, i) => Has(id)
  BY DEF Has
<1> QED
  BY <1>2, <1>3, <1>4, <1>5

LEMMA NextIdIs == ASSUME NEW id PROVE NextId(id) = NextIn(repo, Position(id))
BY DEF NextId, NextIn

\* What a program in GetSDR is sure of.
LEMMA InGet ==
    ASSUME RepoInv, NEW p \in Programs, At(p, "get")
    PROVE  /\ prog[p] \in ProgramTypes /\ prog[p].pc = "get" /\ prog[p].got \in Seq(Versions)
           /\ Verb(p) \in {"dump", "show", "jump"}
           /\ Complete(prog[p], repo, Verb(p), Quiet)
           /\ setup.reservations = TRUE => Untorn(prog[p], repo, holder = p)
           /\ IdsDiffer(repo) /\ repo \in Seq([id : Nat \ {First}, data : Records])
<1>1. TypeOK
  BY DEF RepoInv
<1>2. setup.verbs \in [Programs -> {"dump", "show", "restore", "jump"}]
  BY <1>1, SetupTypes DEF TypeOK
<1>3. prog[p] \in ProgramTypes /\ InStep(prog[p], Verb(p)) /\ prog[p].pc = "get"
  BY <1>1 DEF RepoInv, TypeOK, At
<1>4. Verb(p) \in {"dump", "show", "jump"}
  BY <1>2, <1>3 DEF InStep, Verb
<1>5. prog[p].got \in Seq(Versions)
  BY <1>3 DEF ProgramTypes
<1> QED
  BY <1>1, <1>3, <1>4, <1>5 DEF RepoInv, TypeOK, IdsDiffer

\* A program whose GetSDR has returned ret, with what it has got in q.
LEMMA GetReturns ==
    ASSUME RepoInv, NEW p \in Programs, At(p, "get"),
           NEW q \in ProgramTypes, q.pc = "get", NEW ret \in {"ok", "error", "lost"},
           ret = "ok" => q.got \in Records,
           q.list = prog[p].list, setup.reservations = TRUE => Whole(q.got),
           Returned(q, repo, Verb(p), faults' = setup.faults, ret),
           Returns(p, q, ret), UNCHANGED <<setup, repo, holder, file, versions>>, faults' \in 0..faults
    PROVE  RepoInv'
<1> DEFINE r == AfterGet(p, q, ret)
<1>1. /\ Verb(p) \in {"dump", "show", "jump"} /\ IdsDiffer(repo)
      /\ repo \in Seq([id : Nat \ {First}, data : Records])
      /\ setup.reservations = TRUE => Untorn(prog[p], repo, holder = p)
  BY InGet
<1>2. prog' = [prog EXCEPT ![p] = r]
  BY DEF Returns, Set, AfterGet
<1>3. r \in ProgramTypes /\ InStep(r, Verb(p))
  BY <1>1, AfterGetInStep
<1>4. setup.reservations = TRUE => Untorn(r, repo, holder' = p)
  <2>1. setup.reservations = TRUE => \A i \in DOMAIN q.list : Whole(q.list[i])
    BY <1>1 DEF Untorn
  <2> QED
    BY <2>1, AfterGetUntorn
<1>5. Complete(r, repo, Verb(p), faults' = setup.faults)
  <2> DEFINE quiet == faults' = setup.faults
  <2>1. quiet \in BOOLEAN /\ Returned(q, repo, Verb(p), quiet, ret)
    OBVIOUS
  <2> HIDE DEF quiet
  <2>2. Complete(r, repo, Verb(p), quiet)
    BY <1>1, <2>1, AfterGetComplete
  <2> QED
    BY <2>2 DEF quiet
<1>6. Stored(r, repo, Verb(p), file) /\ holder' = holder /\ holder \in Programs \cup {Nobody}
  BY <1>1, AfterGetStored DEF RepoInv, TypeOK
<1> HIDE DEF r
<1> QED
  BY <1>2, <1>3, <1>4, <1>5, <1>6, OneMoves

\* The reading ends without a record.
LEMMA GetFails ==
    ASSUME RepoInv, NEW p \in Programs, At(p, "get"), NEW ret \in {"error", "lost"},
           ret = "error" => \/ prog[p].touched = TRUE \/ prog[p].lossy = TRUE \/ prog[p].saves = TRUE
                            \/ Verb(p) # "show" \/ faults' # setup.faults,
           Returns(p, prog[p], ret), UNCHANGED <<setup, repo, holder, file, versions>>, faults' \in 0..faults
    PROVE  RepoInv'
<1> DEFINE q == prog[p]
<1>1. /\ q \in ProgramTypes /\ q.pc = "get"
      /\ setup.reservations = TRUE => Untorn(q, repo, holder = p)
      /\ Complete(q, repo, Verb(p), Quiet)
  BY InGet
<1>2. faults \in 0..setup.faults /\ setup.faults \in Nat
  BY SetupTypes DEF RepoInv, TypeOK
<1>3. setup.reservations = TRUE => Whole(q.got)
  BY <1>1 DEF Untorn
<1>4. faults' = setup.faults => Quiet
  BY <1>2 DEF Quiet
<1>5. Returned(q, repo, Verb(p), faults' = setup.faults, ret)
  <2>1. q.saves \in BOOLEAN
    BY <1>1 DEF ProgramTypes
  <2>2. q.touched = FALSE /\ q.lossy = FALSE /\ (q.saves = TRUE \/ (Verb(p) = "show" /\ faults' = setup.faults))
        => Follows(q, repo)
    BY <1>1, <1>4 DEF Complete
  <2>3. Follows(q, repo) => UpTo(q, repo)
    BY DEF Follows, UpTo
  <2> QED
    BY <2>1, <2>2, <2>3 DEF Returned
<1> HIDE DEF q
<1> QED
  BY <1>1, <1>3, <1>5, GetReturns DEF q

\* The next chunk of the i-th record, of which q has got the beginning.
More(q, i) ==
    [q EXCEPT !.got = Append(@, repo[i].data[Len(q.got) + 1]),
              !.want = IF Len(q.got) + 1 = 1 THEN Len(repo[i].data) ELSE @,
              !.next = IF Len(q.got) + 1 = 1 THEN NextId(q.recid) ELSE @]

LEMMA MoreIs ==
    ASSUME RepoInv, NEW q \in ProgramTypes, NEW i \in DOMAIN repo, AtIn(repo, q.recid, i),
           Len(q.got) + 1 <= Len(repo[i].data), q.pc = "get"
    PROVE  /\ More(q, i) \in ProgramTypes /\ More(q, i).pc = "get" /\ More(q, i).got \in Records
           /\ Len(More(q, i).got) = Len(q.got) + 1
           /\ More(q, i).list = q.list /\ More(q, i).recid = q.recid /\ More(q, i).saves = q.saves
           /\ More(q, i).index = q.index /\ More(q, i).count = q.count
           /\ More(q, i).touched = q.touched /\ More(q, i).lossy = q.lossy
           /\ q.got = <<>> \/ ReadsAt(q, repo, i) =>
                 /\ More(q, i).want = Len(repo[i].data) /\ More(q, i).next = NextIn(repo, i)
                 /\ \A k \in 1..Len(More(q, i).got) : More(q, i).got[k] = repo[i].data[k]
           /\ repo[i].data \in Records
<1> DEFINE data == repo[i].data
           n == Len(q.got)
           a == Append(q.got, data[n + 1])
           w == IF n + 1 = 1 THEN Len(data) ELSE q.want
           x == IF n + 1 = 1 THEN NextId(q.recid) ELSE q.next
           r == [q EXCEPT !.got = a, !.want = w, !.next = x]
<1>1. repo \in Seq([id : Nat \ {First}, data : Records]) /\ Len(repo) \in Nat /\ DOMAIN repo = 1..Len(repo)
  BY DEF RepoInv, TypeOK
<1>2. data \in Records /\ \A j \in DOMAIN repo : repo[j].id \in Nat
  <2> DEFINE T == [id : Nat \ {First}, data : Records]
  <2>1. \A j \in DOMAIN repo : repo[j] \in T
    BY <1>1, ElementOfSeq
  <2> QED
    BY <2>1
<1>3. data \in Seq(Versions) /\ Len(data) \in Nat /\ q.got \in Seq(Versions) /\ n \in Nat /\ q.want \in Nat
      /\ q.next \in Nat \cup {Last}
  BY <1>2 DEF Records, ProgramTypes
<1>4. n + 1 \in 1..Len(data) /\ data[n + 1] \in Versions
  BY <1>3
<1>5. /\ a \in Seq(Versions) /\ Len(a) = n + 1 /\ a[n + 1] = data[n + 1] /\ \A k \in 1..n : a[k] = q.got[k]
      /\ a \in Records
  BY <1>3, <1>4 DEF Records
<1>6. Position(q.recid) = i
  BY PositionIs
<1>7. NextId(q.recid) = NextIn(repo, i) /\ NextIn(repo, i) \in Nat \cup {Last}
  <2>1. NextId(q.recid) = NextIn(repo, i)
    BY <1>6, NextIdIs
  <2>2. i < Len(repo) => i + 1 \in DOMAIN repo
    BY <1>1
  <2> QED
    BY <1>2, <2>1, <2>2 DEF NextIn
<1>8. w \in Nat /\ x \in Nat \cup {Last}
  BY <1>3, <1>7
<1>9. More(q, i) = r
  BY DEF More
<1> HIDE DEF a, w, x
<1>10. /\ r \in ProgramTypes /\ r.got = a /\ r.want = w /\ r.next = x /\ r.pc = "get"
       /\ r.list = q.list /\ r.recid = q.recid /\ r.saves = q.saves /\ r.index = q.index /\ r.count = q.count
       /\ r.touched = q.touched /\ r.lossy = q.lossy
  BY <1>5, <1>8 DEF ProgramTypes
<1>11. ASSUME q.got = <<>> PROVE n = 0 /\ w = Len(data) /\ x = NextIn(repo, i)
  BY <1>7, <1>11 DEF w, x
<1>12. ASSUME ReadsAt(q, repo, i)
       PROVE w = Len(data) /\ x = NextIn(repo, i) /\ \A k \in 1..n : q.got[k] = data[k]
  BY <1>7, <1>12 DEF w, x, ReadsAt
<1>13. ASSUME q.got = <<>> \/ ReadsAt(q, repo, i)
       PROVE w = Len(data) /\ x = NextIn(repo, i) /\ \A k \in 1..(n + 1) : a[k] = data[k]
  <2>1. \A k \in 1..n : q.got[k] = data[k]
    BY <1>11, <1>12, <1>13
  <2> HIDE DEF n
  <2>2. \A k \in 1..(n + 1) : a[k] = data[k]
    BY <1>3, <1>5, <2>1
  <2> QED
    BY <1>11, <1>12, <1>13, <2>2
<1> HIDE DEF r
<1>14. q.got = <<>> \/ ReadsAt(q, repo, i) =>
          r.want = Len(data) /\ r.next = NextIn(repo, i) /\ \A k \in 1..Len(r.got) : r.got[k] = data[k]
  BY <1>5, <1>10, <1>13
<1>15. Len(r.got) = n + 1 /\ r.got \in Records
  BY <1>5, <1>10
<1> QED
  BY <1>2, <1>9, <1>10, <1>14, <1>15

\* An error in the middle of a record, which is cut or given up.
LEMMA BadLengthKeeps ==
    ASSUME RepoInv, NEW p \in Programs, At(p, "get"), BadLength(p),
           \/ prog[p].touched = TRUE \/ prog[p].lossy = TRUE \/ prog[p].saves = TRUE
           \/ Verb(p) # "show" \/ faults' # setup.faults,
           UNCHANGED <<setup, repo, holder, file, versions>>, faults' \in 0..faults
    PROVE  RepoInv'
<1> DEFINE q == prog[p]
           r == [q EXCEPT !.lossy = TRUE]
<1>1. /\ q \in ProgramTypes /\ q.pc = "get" /\ q.got \in Seq(Versions)
      /\ setup.reservations = TRUE => Untorn(q, repo, holder = p)
  BY InGet
<1>2. CASE Truncates(p)
  <2>1. Returns(p, r, "ok")
    BY <1>2 DEF BadLength
  <2>2. q.got \in Records
    BY <1>1, <1>2 DEF Truncates, Records
  <2>3. r \in ProgramTypes /\ r.pc = "get" /\ r.got = q.got /\ r.list = q.list /\ r.lossy = TRUE
    BY <1>1 DEF ProgramTypes
  <2>4. setup.reservations = TRUE => Whole(q.got)
    BY <1>1 DEF Untorn
  <2>5. Returned(r, repo, Verb(p), faults' = setup.faults, "ok")
    BY <2>3 DEF Returned
  <2> HIDE DEF r
  <2> QED
    BY <2>1, <2>2, <2>3, <2>4, <2>5, GetReturns
<1>3. CASE ~Truncates(p)
  <2>1. Returns(p, q, "error")
    BY <1>3 DEF BadLength
  <2> QED
    BY <2>1, GetFails
<1> QED
  BY <1>2, <1>3

\* An answer that ends the record too early.
LEMMA ShortAnswerKeeps ==
    ASSUME RepoInv, NEW p \in Programs, At(p, "get"), ShortAnswer(p),
           UNCHANGED <<setup, repo, holder, file, versions>>, faults' \in 0..faults
    PROVE  RepoInv'
<1> DEFINE q == prog[p]
           r == [q EXCEPT !.lossy = TRUE]
<1>1. /\ q \in ProgramTypes /\ q.pc = "get" /\ q.got \in Seq(Versions)
      /\ setup.reservations = TRUE => Untorn(q, repo, holder = p)
  BY InGet
<1>2. Returns(p, r, "ok") /\ q.got \in Records
  BY <1>1 DEF ShortAnswer, Records
<1>3. r \in ProgramTypes /\ r.pc = "get" /\ r.got = q.got /\ r.list = q.list /\ r.lossy = TRUE
  BY <1>1 DEF ProgramTypes
<1>4. setup.reservations = TRUE => Whole(q.got)
  BY <1>1 DEF Untorn
<1>5. Returned(r, repo, Verb(p), faults' = setup.faults, "ok")
  BY <1>3 DEF Returned
<1> HIDE DEF r
<1> QED
  BY <1>2, <1>3, <1>4, <1>5, GetReturns

LEMMA ChunkKeeps ==
    ASSUME RepoInv, NEW p \in Programs, At(p, "get"), Chunk(p),
           UNCHANGED <<setup, repo, holder, file, versions, faults>>
    PROVE  RepoInv'
<1> DEFINE q == prog[p]
           i == Position(q.recid)
           data == repo[i].data
           n == Len(q.got)
           r == More(q, i)
<1>0. /\ q \in ProgramTypes /\ q.pc = "get" /\ q.got \in Seq(Versions)
      /\ Complete(q, repo, Verb(p), Quiet)
      /\ setup.reservations = TRUE => Untorn(q, repo, holder = p)
  BY InGet
<1>1. /\ q \in ProgramTypes /\ q.pc = "get" /\ q.got \in Seq(Versions) /\ n \in Nat /\ q.saves \in BOOLEAN
      /\ Complete(q, repo, Verb(p), Quiet)
      /\ setup.reservations = TRUE => Untorn(q, repo, holder = p)
  BY <1>0 DEF ProgramTypes
<1>2. i \in DOMAIN repo /\ AtIn(repo, q.recid, i)
  BY PositionIs DEF Chunk
<1>3. data \in Records /\ Len(data) \in Nat /\ Len(data) > 0
  <2>1. repo[i] \in [id : Nat \ {First}, data : Records]
    <3> DEFINE T == [id : Nat \ {First}, data : Records]
    <3>1. repo \in Seq(T) /\ i \in 1..Len(repo)
      BY <1>2 DEF RepoInv, TypeOK
    <3> HIDE DEF T, i
    <3>2. repo[i] \in T
      BY <3>1, ElementOfSeq
    <3> QED
      BY <3>2 DEF T
  <2> QED
    BY <2>1 DEF Records
<1>4. n + 1 > 1 /\ setup.reservations => holder = p
  BY DEF Chunk
<1>5. /\ n + 1 > Len(data) => BadLength(p)
      /\ ~(n + 1 > Len(data)) /\ Len(r.got) = r.want => Returns(p, r, "ok")
      /\ ~(n + 1 > Len(data)) /\ Len(r.got) # r.want => Set(p, r)
  BY DEF Chunk, More
<1>6. faults' \in 0..faults
  BY SetupTypes DEF RepoInv, TypeOK
\* Only one record is called so.
<1>7. \A j \in DOMAIN repo : AtIn(repo, q.recid, j) => j = i
  BY PositionIs
<1>8. ASSUME q.touched = FALSE, q.lossy = FALSE, q.saves = TRUE \/ (Verb(p) = "show" /\ Quiet)
      PROVE  /\ UpTo(q, repo) /\ i = Len(q.list) + 1
             /\ q.got # <<>> => ReadsAt(q, repo, i)
  <2>1. Follows(q, repo)
    BY <1>1, <1>8 DEF Complete
  <2>2. AtIn(repo, q.recid, Len(q.list) + 1) /\ Len(q.list) + 1 \in DOMAIN repo
    BY <2>1 DEF Follows, AtIn
  <2>3. i = Len(q.list) + 1
    BY <1>7, <2>2
  <2> QED
    BY <2>1, <2>3 DEF Follows, UpTo
<1>9. ASSUME setup.reservations = TRUE, q.got # <<>> PROVE ReadsAt(q, repo, i)
  <2>1. n > 0
    BY <1>1, <1>9
  <2>2. \E j \in DOMAIN repo : ReadsAt(q, repo, j)
    BY <1>1, <1>4, <1>9, <2>1 DEF Untorn
  <2> QED
    BY <1>7, <2>2 DEF ReadsAt
<1>10. CASE n + 1 > Len(data)
  <2>1. BadLength(p)
    BY <1>5, <1>10
  <2>2. \/ q.touched = TRUE \/ q.lossy = TRUE \/ q.saves = TRUE
        \/ Verb(p) # "show" \/ faults' # setup.faults
    <3>1. SUFFICES ASSUME q.touched = FALSE, q.lossy = FALSE, Verb(p) = "show", faults' = setup.faults PROVE FALSE
      BY <1>1 DEF ProgramTypes
    <3>2. q.got # <<>> => ReadsAt(q, repo, i)
      BY <1>8, <3>1 DEF Quiet
    <3>3. q.got # <<>>
      BY <1>1, <1>3, <1>10
    <3>4. n < Len(data)
      BY <3>2, <3>3 DEF ReadsAt
    <3> HIDE DEF n, data
    <3> QED
      BY <1>1, <1>3, <1>10, <3>4
  <2> QED
    BY <1>6, <2>1, <2>2, BadLengthKeeps
<1>11. CASE n + 1 <= Len(data)
  <2>1. /\ r \in ProgramTypes /\ r.pc = "get" /\ r.got \in Records /\ Len(r.got) = n + 1
        /\ r.list = q.list /\ r.recid = q.recid /\ r.saves = q.saves /\ r.index = q.index /\ r.count = q.count
        /\ r.touched = q.touched /\ r.lossy = q.lossy
        /\ q.got = <<>> \/ ReadsAt(q, repo, i) =>
              /\ r.want = Len(data) /\ r.next = NextIn(repo, i)
              /\ \A k \in 1..Len(r.got) : r.got[k] = data[k]
    BY <1>1, <1>2, <1>11, MoreIs
  <2> HIDE DEF r
  <2>2. ASSUME setup.reservations = TRUE PROVE Whole(r.got)
    <3>1. Whole(data) /\ \A k \in 1..Len(r.got) : r.got[k] = data[k]
      BY <1>2, <1>9, <2>1, <2>2 DEF RepoInv
    <3>2. DOMAIN r.got = 1..Len(r.got) /\ Len(r.got) \in Nat /\ Len(r.got) <= Len(data) /\ DOMAIN data = 1..Len(data)
      BY <1>3, <1>11, <2>1 DEF Records
    <3> QED
      BY <1>3, <3>1, <3>2 DEF Whole
  <2>3. CASE Len(r.got) = r.want
    <3>1. Returns(p, r, "ok")
      BY <1>1, <1>3, <1>5, <1>11, <2>3
    <3>2. Returned(r, repo, Verb(p), faults' = setup.faults, "ok")
      <4>1. SUFFICES ASSUME r.touched = FALSE, r.lossy = FALSE,
                            r.saves = TRUE \/ (Verb(p) = "show" /\ faults' = setup.faults)
                     PROVE  /\ UpTo(r, repo) /\ r.got = repo[Len(r.list) + 1].data
                            /\ r.next = NextIn(repo, Len(r.list) + 1)
        BY DEF Returned
      <4>2. UpTo(q, repo) /\ i = Len(q.list) + 1 /\ (q.got # <<>> => ReadsAt(q, repo, i))
        BY <1>8, <2>1, <4>1 DEF Quiet
      <4>3. r.want = Len(data) /\ r.next = NextIn(repo, i) /\ \A k \in 1..Len(r.got) : r.got[k] = data[k]
        BY <2>1, <4>2
      <4>4. r.got = data
        <5>1. r.got \in Seq(Versions) /\ data \in Seq(Versions) /\ Len(r.got) = Len(data)
          BY <1>3, <2>1, <2>3, <4>3 DEF Records
        <5> HIDE DEF data
        <5> QED
          BY <4>3, <5>1, SeqEqual
      <4> QED
        BY <2>1, <4>2, <4>3, <4>4 DEF UpTo
    <3> QED
      BY <1>6, <2>1, <2>2, <3>1, <3>2, GetReturns
  <2>4. CASE Len(r.got) # r.want
    <3>1. prog' = [prog EXCEPT ![p] = r]
      BY <1>1, <1>3, <1>5, <1>11, <2>4 DEF Set
    <3>2. ASSUME q.got = <<>> \/ ReadsAt(q, repo, i) PROVE ReadsAt(r, repo, i)
      <4>1. r.want = Len(data) /\ r.next = NextIn(repo, i) /\ \A k \in 1..Len(r.got) : r.got[k] = data[k]
        BY <2>1, <3>2
      <4>2. Len(r.got) < r.want
        <5> DEFINE a == Len(r.got)
                   b == Len(data)
        <5>1. a = n + 1 /\ r.want = b /\ a # b /\ n + 1 <= b /\ n \in Nat /\ b \in Nat
          BY <1>1, <1>3, <1>11, <2>1, <2>4, <4>1
        <5> HIDE DEF a, b, n
        <5>2. a < b
          BY <5>1
        <5> QED
          BY <5>1, <5>2 DEF a
      <4> QED
        BY <1>2, <2>1, <4>1, <4>2 DEF ReadsAt
    <3>3. InStep(r, Verb(p))
      BY <2>1, InGet DEF InStep
    <3>4. ASSUME setup.reservations = TRUE PROVE Untorn(r, repo, holder' = p)
      <4>1. ReadsAt(r, repo, i)
        BY <1>9, <3>2, <3>4
      <4>2. \A j \in DOMAIN q.list : Whole(q.list[j])
        BY <1>1, <3>4 DEF Untorn
      <4> HIDE DEF i
      <4> QED
        BY <1>2, <2>1, <2>2, <3>4, <4>1, <4>2 DEF Untorn
    <3>5. Complete(r, repo, Verb(p), faults' = setup.faults)
      <4>1. SUFFICES ASSUME r.touched = FALSE, r.lossy = FALSE,
                            r.saves = TRUE \/ (Verb(p) = "show" /\ faults' = setup.faults)
                     PROVE  Follows(r, repo)
        BY <2>1, InGet DEF Complete
      <4>2. UpTo(q, repo) /\ i = Len(q.list) + 1 /\ (q.got # <<>> => ReadsAt(q, repo, i))
        BY <1>8, <2>1, <4>1 DEF Quiet
      <4>3. ReadsAt(r, repo, i)
        BY <3>2, <4>2
      <4> QED
        BY <2>1, <4>2, <4>3 DEF UpTo, Follows
    <3>6. Stored(r, repo, Verb(p), file) /\ holder' \in Programs \cup {Nobody}
      BY <2>1 DEF RepoInv, TypeOK, Stored
    <3> QED
      BY <1>6, <2>1, <3>1, <3>3, <3>4, <3>5, <3>6, OneMoves
  <2> QED
    BY <2>3, <2>4
<1> HIDE DEF n, data
<1> QED
  BY <1>1, <1>3, <1>10, <1>11

LEMMA ReadChunkKeeps ==
    ASSUME RepoInv, NEW p \in Programs, ReadChunk(p) PROVE RepoInv'
<1>1. At(p, "get") /\ UNCHANGED <<setup, repo, holder, file, versions>>
  BY DEF ReadChunk
<1>2. faults \in 0..setup.faults /\ setup.faults \in Nat
  BY SetupTypes DEF RepoInv, TypeOK
<1>3. prog[p] \in ProgramTypes /\ Complete(prog[p], repo, Verb(p), Quiet)
  BY <1>1, InGet
<1>4. CASE Chunk(p) /\ UNCHANGED faults
  BY <1>1, <1>4, ChunkKeeps
<1>5. CASE ReservationLost(p) /\ UNCHANGED faults
  <2>1. Returns(p, prog[p], "lost") /\ faults' \in 0..faults
    BY <1>2, <1>5 DEF ReservationLost
  <2> QED
    BY <1>1, <2>1, GetFails
<1>6. CASE ~Has(prog[p].recid) /\ Returns(p, prog[p], "error") /\ UNCHANGED faults
  <2>1. \/ prog[p].touched = TRUE \/ prog[p].lossy = TRUE \/ prog[p].saves = TRUE
        \/ Verb(p) # "show" \/ faults' # setup.faults
    <3>1. SUFFICES ASSUME prog[p].touched = FALSE, prog[p].lossy = FALSE, Verb(p) = "show", Quiet PROVE FALSE
      BY <1>3, <1>6 DEF ProgramTypes, Quiet
    <3>2. AtIn(repo, prog[p].recid, Len(prog[p].list) + 1)
      BY <1>1, <1>3, <3>1 DEF Complete, At, Follows
    <3> QED
      BY <1>6, <3>2, PositionIs DEF AtIn
  <2> QED
    <3>1. faults' \in 0..faults
      BY <1>2, <1>6
    <3> QED
      BY <1>1, <1>6, <2>1, <3>1, GetFails
<1>7. CASE faults > 0 /\ faults' = faults - 1 /\ (BadLength(p) \/ ShortAnswer(p) \/ Returns(p, prog[p], "error"))
  <2>1. faults' \in 0..faults /\ faults' # setup.faults
    BY <1>2, <1>7
  <2> QED
    BY <1>1, <1>7, <2>1, BadLengthKeeps, ShortAnswerKeeps, GetFails
<1> QED
  BY <1>4, <1>5, <1>6, <1>7 DEF ReadChunk

LEMMA ReserveKeeps ==
    ASSUME RepoInv, NEW p \in Programs, Reserve(p) PROVE RepoInv'
<1> DEFINE q == prog[p]
           r == [q EXCEPT !.reserve = FALSE]
<1>1. /\ TypeOK /\ q \in ProgramTypes /\ InStep(q, Verb(p)) /\ Complete(q, repo, Verb(p), Quiet)
      /\ setup.reservations = TRUE => Untorn(q, repo, holder = p)
  BY DEF RepoInv, TypeOK
<1>2. /\ q.got = <<>> /\ prog' = [prog EXCEPT ![p] = r] /\ UNCHANGED <<setup, repo, file, versions>>
      /\ q.pc \in {"get", "clear", "add"}
  BY DEF Reserve, Set
<1>3. holder' \in Programs \cup {Nobody} /\ \A o \in Programs : o # p /\ holder' = o => holder = o
  BY <1>1, SdrAssumption DEF Reserve, TypeOK
<1>4. faults \in 0..setup.faults /\ setup.faults \in Nat
  BY SetupTypes DEF RepoInv, TypeOK
<1>5. faults' \in 0..faults /\ (faults' = setup.faults => Quiet)
  BY <1>4 DEF Reserve, Quiet
<1>6. /\ r \in ProgramTypes /\ r.got = <<>> /\ r.pc = q.pc /\ r.list = q.list /\ r.saves = q.saves /\ r.index = q.index
      /\ r.count = q.count /\ r.touched = q.touched /\ r.lossy = q.lossy /\ r.recid = q.recid /\ r.ret = q.ret
      /\ r.next = q.next /\ r.want = q.want
  BY <1>1, <1>2 DEF ProgramTypes
<1> HIDE DEF r
<1>7. InStep(r, Verb(p))
  BY <1>1, <1>2, <1>6 DEF InStep
<1>8. setup.reservations = TRUE => Untorn(r, repo, holder' = p)
  BY <1>1, <1>2, <1>6 DEF Untorn
<1>9. Complete(r, repo, Verb(p), faults' = setup.faults)
  <2>1. Follows(q, repo) => Follows(r, repo)
    BY <1>6 DEF Follows
  <2> QED
    BY <1>1, <1>2, <1>5, <1>6, <2>1 DEF Complete
<1>10. Stored(r, repo, Verb(p), file)
  BY <1>2, <1>6 DEF Reserve, Stored
<1> QED
  BY <1>2, <1>3, <1>5, <1>6, <1>7, <1>8, <1>9, <1>10, OneMoves

-----------------------------------------------------------------------------
(* The programs.                                                           *)

\* A step of p that leaves the BMC alone.
LEMMA ProgramMoves ==
    ASSUME RepoInv, NEW p \in Programs, NEW r \in ProgramTypes, Set(p, r),
           UNCHANGED <<setup, repo, holder, file, versions>>, faults' \in 0..faults,
           InStep(r, Verb(p)), r.pc # "get" \/ r.got = <<>>,
           setup.reservations = TRUE => \A i \in DOMAIN r.list : Whole(r.list[i]),
           Complete(r, repo, Verb(p), faults' = setup.faults), Stored(r, repo, Verb(p), file)
    PROVE  RepoInv'
<1>1. prog' = [prog EXCEPT ![p] = r] /\ holder' \in Programs \cup {Nobody}
  BY DEF Set, RepoInv, TypeOK
<1>2. setup.reservations = TRUE => Untorn(r, repo, holder' = p)
  BY DEF Untorn, Whole
<1> QED
  BY <1>1, <1>2, OneMoves

\* What every program is sure of.
LEMMA Sure ==
    ASSUME RepoInv, NEW p \in Programs
    PROVE  /\ TypeOK /\ prog[p] \in ProgramTypes /\ InStep(prog[p], Verb(p))
           /\ Complete(prog[p], repo, Verb(p), Quiet)
           /\ setup.reservations = TRUE => \A i \in DOMAIN prog[p].list : Whole(prog[p].list[i])
           /\ FileIsGood(file) /\ Stored(prog[p], repo, Verb(p), file)
           /\ setup.reservations \in BOOLEAN /\ Verb(p) \in {"dump", "show", "restore", "jump"}
           /\ faults \in 0..setup.faults /\ setup.faults \in Nat /\ faults \in 0..faults
           /\ Len(repo) \in Nat
<1>1. TypeOK
  BY DEF RepoInv
<1>2. /\ setup.reservations \in BOOLEAN /\ setup.faults \in Nat
      /\ setup.verbs \in [Programs -> {"dump", "show", "restore", "jump"}]
  BY <1>1, SetupTypes DEF TypeOK
<1>3. faults \in 0..setup.faults /\ prog[p] \in ProgramTypes
  BY <1>1 DEF TypeOK
<1>4. FileIsGood(file)
  BY DEF RepoInv, TypeOK, FileIsGood
<1>5. setup.reservations = TRUE => \A i \in DOMAIN prog[p].list : Whole(prog[p].list[i])
  BY DEF RepoInv, Untorn
<1>6. Len(repo) \in Nat
  BY <1>1 DEF TypeOK
<1> QED
  BY <1>1, <1>2, <1>3, <1>4, <1>5, <1>6 DEF RepoInv, Verb

LEMMA BeginKeeps ==
    ASSUME RepoInv, NEW p \in Programs, Begin(p) PROVE RepoInv'
<1> DEFINE q == prog[p]
<1>1. /\ q \in ProgramTypes /\ q.pc = "begin" /\ q.list = <<>> /\ q.index = 0
      /\ FileIsGood(file) /\ faults \in 0..faults
      /\ UNCHANGED <<setup, repo, holder, file, versions, faults>>
  BY Sure DEF Begin, At, InStep
<1>2. {"info", "clear", "done"} \subseteq Places
  BY DEF Places
<1>3. ASSUME NEW r \in ProgramTypes, Set(p, r), r.pc = "info", r.list = <<>>, r.index = 0, Verb(p) # "restore"
      PROVE  RepoInv'
  <2>1. \A i \in DOMAIN r.list : Whole(r.list[i])
    BY <1>3
  <2>2. InStep(r, Verb(p)) /\ Complete(r, repo, Verb(p), faults' = setup.faults) /\ Stored(r, repo, Verb(p), file)
    BY <1>3 DEF InStep, Complete, Stored
  <2> QED
    BY <1>1, <1>3, <2>1, <2>2, ProgramMoves
<1>4. ASSUME NEW r \in ProgramTypes, Set(p, r), r.pc = "clear", r.index = 0, Verb(p) = "restore",
             r.list = <<>> \/ (file # NoFile /\ r.list = file)
      PROVE  RepoInv'
  <2>1. setup.reservations = TRUE => \A i \in DOMAIN r.list : Whole(r.list[i])
    BY <1>1, <1>4 DEF FileIsGood
  <2> QED
    BY <1>1, <1>4, <2>1, ProgramMoves DEF InStep, Complete, Stored
<1>5. ASSUME NEW r \in ProgramTypes, Set(p, r), r.pc = "done", r.ret = "error" \/ r.lossy = TRUE,
             r.list = <<>> \/ (file # NoFile /\ r.list = file)
      PROVE  RepoInv'
  <2>1. setup.reservations = TRUE => \A i \in DOMAIN r.list : Whole(r.list[i])
    BY <1>1, <1>5 DEF FileIsGood
  <2> QED
    BY <1>1, <1>5, <2>1, ProgramMoves DEF InStep, Complete, Stored
<1>6. file # NoFile => file \in Seq(Records)
  BY <1>1 DEF FileIsGood
<1>7. CASE Verb(p) \in {"dump", "show"} /\ Set(p, [q EXCEPT !.pc = "info", !.saves = Verb(p) = "dump"])
  <2> DEFINE r == [q EXCEPT !.pc = "info", !.saves = Verb(p) = "dump"]
  <2>1. r \in ProgramTypes /\ r.pc = "info" /\ r.list = <<>> /\ r.index = 0
    BY <1>1, <1>2 DEF ProgramTypes
  <2> HIDE DEF r
  <2> QED
    BY <1>3, <1>7, <2>1 DEF r
<1>8. CASE Set(p, Over(q, "error"))
  <2>1. Over(q, "error") \in ProgramTypes /\ Over(q, "error").pc = "done" /\ Over(q, "error").ret = "error"
        /\ Over(q, "error").list = <<>>
    BY <1>1, BeingOver
  <2> QED
    BY <1>5, <1>8, <2>1
<1>9. CASE Verb(p) = "restore" /\ file \notin {NoFile, <<>>} /\ Set(p, [q EXCEPT !.pc = "clear", !.list = file])
  <2> DEFINE r == [q EXCEPT !.pc = "clear", !.list = file]
  <2>1. r \in ProgramTypes /\ r.pc = "clear" /\ r.list = file /\ r.index = 0
    BY <1>1, <1>2, <1>6, <1>9 DEF ProgramTypes
  <2> HIDE DEF r
  <2> QED
    BY <1>4, <1>9, <2>1 DEF r
<1>10. CASE Verb(p) = "restore" /\ Set(p, [q EXCEPT !.pc = "clear"])
  <2> DEFINE r == [q EXCEPT !.pc = "clear"]
  <2>1. r \in ProgramTypes /\ r.pc = "clear" /\ r.list = <<>> /\ r.index = 0
    BY <1>1, <1>2 DEF ProgramTypes
  <2> HIDE DEF r
  <2> QED
    BY <1>4, <1>10, <2>1 DEF r
<1>11. CASE file \notin {NoFile, <<>>} /\ Set(p, Over([q EXCEPT !.list = file, !.lossy = TRUE], "ok"))
  <2> DEFINE u == [q EXCEPT !.list = file, !.lossy = TRUE]
  <2>1. u \in ProgramTypes /\ u.list = file /\ u.lossy = TRUE
    BY <1>1, <1>6, <1>11 DEF ProgramTypes
  <2> HIDE DEF u
  <2>2. Over(u, "ok") \in ProgramTypes /\ Over(u, "ok").pc = "done" /\ Over(u, "ok").list = file /\ Over(u, "ok").lossy = TRUE
    BY <2>1, BeingOver
  <2> QED
    BY <1>5, <1>11, <2>2 DEF u
<1>12. CASE Set(p, Over([q EXCEPT !.lossy = TRUE], "ok"))
  <2> DEFINE u == [q EXCEPT !.lossy = TRUE]
  <2>1. u \in ProgramTypes /\ u.list = <<>> /\ u.lossy = TRUE
    BY <1>1 DEF ProgramTypes
  <2> HIDE DEF u
  <2>2. Over(u, "ok") \in ProgramTypes /\ Over(u, "ok").pc = "done" /\ Over(u, "ok").list = <<>> /\ Over(u, "ok").lossy = TRUE
    BY <2>1, BeingOver
  <2> QED
    BY <1>5, <1>12, <2>2 DEF u
<1>13. CASE Verb(p) = "jump" /\ Set(p, [q EXCEPT !.pc = "info", !.saves = TRUE])
  <2> DEFINE r == [q EXCEPT !.pc = "info", !.saves = TRUE]
  <2>1. r \in ProgramTypes /\ r.pc = "info" /\ r.list = <<>> /\ r.index = 0
    BY <1>1, <1>2 DEF ProgramTypes
  <2> HIDE DEF r
  <2> QED
    BY <1>3, <1>13, <2>1 DEF r
<1> QED
  BY <1>7, <1>8, <1>9, <1>10, <1>11, <1>12, <1>13 DEF Begin

\* x is q, but for somebody else's change of the file.
Clobbered(x, q) ==
    /\ x \in ProgramTypes /\ x.clobbered = TRUE /\ x.pc = q.pc /\ x.recid = q.recid /\ x.next = q.next
    /\ x.want = q.want /\ x.got = q.got /\ x.list = q.list /\ x.count = q.count /\ x.index = q.index
    /\ x.ret = q.ret /\ x.saves = q.saves /\ x.touched = q.touched /\ x.lossy = q.lossy

\* A step of p that changes the file.
LEMMA FileMoves ==
    ASSUME RepoInv, NEW p \in Programs, NEW r \in ProgramTypes, Clobbers(p, r),
           UNCHANGED <<setup, repo, holder, versions>>, FileIsGood(file'), file' # NoFile, faults' \in 0..faults,
           InStep(r, Verb(p)), r.pc # "get",
           setup.reservations = TRUE => \A i \in DOMAIN r.list : Whole(r.list[i]),
           Complete(r, repo, Verb(p), faults' = setup.faults), Stored(r, repo, Verb(p), file')
    PROVE  RepoInv'
<1>1. TypeOK
  BY DEF RepoInv
<1>2. prog \in [Programs -> ProgramTypes] /\ setup \in Setups /\ faults \in 0..setup.faults /\ setup.faults \in Nat
  BY <1>1, SetupTypes DEF TypeOK
<1>3. ProgramTypes' = ProgramTypes /\ Records' = Records
  BY DEF ProgramTypes, Records, Versions
<1>4. prog'[p] = r /\ \A o \in Programs : o # p => prog'[o] = [prog[o] EXCEPT !.clobbered = TRUE]
  BY DEF Clobbers
<1>5. \A o \in Programs : o # p => Clobbered(prog'[o], prog[o])
  <2>1. ASSUME NEW q \in ProgramTypes PROVE Clobbered([q EXCEPT !.clobbered = TRUE], q)
    BY DEF ProgramTypes, Clobbered
  <2> QED
    BY <1>2, <1>4, <2>1
<1>6. TypeOK'
  <2>1. prog' \in [Programs -> ProgramTypes]
    <3>1. \A o \in Programs : prog'[o] \in ProgramTypes
      BY <1>4, <1>5 DEF Clobbered
    <3> QED
      BY <3>1 DEF Clobbers
  <2>2. file' = NoFile \/ file' \in Seq(Records)
    BY DEF FileIsGood
  <2>3. /\ repo' \in Seq([id : Nat \ {First}, data : Records'])
        /\ \A i, j \in DOMAIN repo' : i # j => repo'[i].id # repo'[j].id
    BY <1>1, <1>3 DEF TypeOK
  <2>4. versions' \in 0..(Len(setup'.repo) + setup'.changes) /\ holder' \in Programs \cup {Nobody}
    BY <1>1 DEF TypeOK
  <2>5. faults' \in 0..setup.faults
    BY <1>2
  <2> QED
    BY <1>2, <1>3, <2>1, <2>2, <2>3, <2>4, <2>5 DEF TypeOK
<1>7. \A o \in Programs : Verb(o)' = Verb(o)
  BY DEF Verb
\* To the others, all is as it was.
<1>8. ASSUME NEW o \in Programs, o # p
      PROVE  /\ InStep(prog'[o], Verb(o))
             /\ setup.reservations = TRUE => Untorn(prog'[o], repo, holder = o)
             /\ Complete(prog'[o], repo, Verb(o), Quiet')
             /\ Stored(prog'[o], repo, Verb(o), file')
  <2> DEFINE q == prog[o]
             x == prog'[o]
  <2>1. /\ x.clobbered = TRUE /\ x.pc = q.pc /\ x.recid = q.recid /\ x.next = q.next
        /\ x.want = q.want /\ x.got = q.got /\ x.list = q.list /\ x.count = q.count /\ x.index = q.index
        /\ x.ret = q.ret /\ x.saves = q.saves /\ x.touched = q.touched /\ x.lossy = q.lossy
    BY <1>5, <1>8 DEF Clobbered
  <2>2. /\ InStep(q, Verb(o)) /\ Complete(q, repo, Verb(o), Quiet)
        /\ setup.reservations = TRUE => Untorn(q, repo, holder = o)
    BY DEF RepoInv
  <2>3. Quiet' => Quiet
    BY <1>2 DEF Quiet
  <2> HIDE DEF q, x
  <2>4. InStep(x, Verb(o))
    BY <2>1, <2>2 DEF InStep
  <2>5. setup.reservations = TRUE => Untorn(x, repo, holder = o)
    <3>1. \A i : ReadsAt(q, repo, i) => ReadsAt(x, repo, i)
      BY <2>1 DEF ReadsAt
    <3> QED
      BY <2>1, <2>2, <3>1 DEF Untorn
  <2>6. Complete(x, repo, Verb(o), Quiet')
    <3>1. ReadsAt(q, repo, Len(q.list) + 1) => ReadsAt(x, repo, Len(q.list) + 1)
      BY <2>1 DEF ReadsAt
    <3>2. Follows(q, repo) => Follows(x, repo)
      BY <2>1, <3>1 DEF Follows
    <3> QED
      BY <2>1, <2>2, <2>3, <3>2 DEF Complete
  <2>7. Stored(x, repo, Verb(o), file')
    BY <2>1 DEF Stored
  <2> QED
    BY <2>4, <2>5, <2>6, <2>7 DEF x
<1>9. \A o \in Programs : InStep(prog'[o], Verb(o)')
  BY <1>4, <1>7, <1>8
<1>10. ASSUME setup.reservations = TRUE
       PROVE  /\ \A i \in DOMAIN repo' : Whole(repo'[i].data)
              /\ file' # NoFile => \A i \in DOMAIN file' : Whole(file'[i])
              /\ \A o \in Programs : Untorn(prog'[o], repo', holder' = o)
  <2>1. Untorn(r, repo, holder = p)
    BY <1>10 DEF Untorn
  <2>2. \A i \in DOMAIN repo' : Whole(repo'[i].data)
    BY <1>10 DEF RepoInv
  <2>3. file' # NoFile => \A i \in DOMAIN file' : Whole(file'[i])
    BY <1>10 DEF FileIsGood
  <2> QED
    BY <1>4, <1>8, <1>10, <2>1, <2>2, <2>3
<1>11. \A o \in Programs : Complete(prog'[o], repo', Verb(o)', Quiet')
  <2>1. Complete(prog'[p], repo', Verb(p)', Quiet')
    BY <1>4, <1>7 DEF Quiet
  <2> QED
    BY <1>7, <1>8, <2>1
<1>12. \A o \in Programs : Stored(prog'[o], repo', Verb(o)', file')
  BY <1>4, <1>7, <1>8
<1> QED
  BY <1>6, <1>9, <1>10, <1>11, <1>12 DEF RepoInv

\* The file cannot be opened or written.
LEMMA FailsKeeps ==
    ASSUME RepoInv, NEW p \in Programs, NEW q \in ProgramTypes, Set(p, Fails(q)),
           q.list = prog[p].list, Verb(p) # "restore",
           UNCHANGED <<setup, repo, holder, file, versions>>, faults' \in 0..faults
    PROVE  RepoInv'
<1> DEFINE r == Fails(q)
<1>1. r \in ProgramTypes /\ r.pc = "failed" /\ r.list = q.list
  BY DEF Fails, ProgramTypes, Places
<1>2. setup.reservations = TRUE => \A i \in DOMAIN r.list : Whole(r.list[i])
  BY <1>1, Sure
<1> HIDE DEF r
<1>3. InStep(r, Verb(p)) /\ Complete(r, repo, Verb(p), faults' = setup.faults) /\ Stored(r, repo, Verb(p), file)
  BY <1>1 DEF InStep, Complete, Stored
<1> QED
  BY <1>1, <1>2, <1>3, ProgramMoves DEF r

LEMMA OpenKeeps ==
    ASSUME RepoInv, NEW p \in Programs, Open(p) PROVE RepoInv'
<1> DEFINE q == prog[p]
           r == [q EXCEPT !.pc = "writing", !.clobbered = FALSE]
<1>1. /\ q \in ProgramTypes /\ q.pc = "write" /\ InStep(q, Verb(p)) /\ Complete(q, repo, Verb(p), Quiet)
      /\ setup.reservations = TRUE => \A i \in DOMAIN q.list : Whole(q.list[i])
      /\ faults \in 0..faults /\ faults \in 0..setup.faults /\ setup.faults \in Nat
      /\ UNCHANGED <<setup, repo, holder, versions>>
  BY Sure DEF Open, At
<1>2. CASE file' = <<>> /\ UNCHANGED faults /\ Clobbers(p, r)
  <2>1. "writing" \in Places
    BY DEF Places
  <2>2. /\ r \in ProgramTypes /\ r.pc = "writing" /\ r.list = q.list /\ r.saves = q.saves /\ r.count = q.count
        /\ r.touched = q.touched /\ r.lossy = q.lossy
    BY <1>1, <2>1 DEF ProgramTypes
  <2> HIDE DEF r
  <2>3. file' # NoFile /\ FileIsGood(file')
    <3>1. <<>> \in Seq(Records) /\ <<>> # NoFile
      BY DEF NoFile
    <3> QED
      BY <1>2, <3>1 DEF FileIsGood
  <2>4. InStep(r, Verb(p)) /\ Complete(r, repo, Verb(p), faults' = setup.faults)
    BY <1>1, <1>2, <2>2 DEF InStep, Complete, Quiet
  <2>5. Stored(r, repo, Verb(p), file')
    BY <1>2, <2>2, <2>3 DEF Stored
  <2>6. faults' \in 0..faults
    BY <1>1, <1>2
  <2> QED
    BY <1>1, <1>2, <2>2, <2>3, <2>4, <2>5, <2>6, FileMoves
<1>3. CASE faults > 0 /\ faults' = faults - 1 /\ Set(p, Fails(q)) /\ UNCHANGED file
  <2>1. Verb(p) # "restore" /\ faults' \in 0..faults
    BY <1>1, <1>3 DEF InStep
  <2> QED
    BY <1>1, <1>3, <2>1, FailsKeeps
<1> QED
  BY <1>2, <1>3 DEF Open

LEMMA JunkIsVersion == ASSUME setup \in Setups PROVE Junk \in Versions
<1> DEFINE n == Len(setup.repo)
<1>1. n \in Nat /\ setup.changes \in Nat /\ Versions = 0..(n + setup.changes)
  BY SetupTypes DEF Versions, Junk
<1> HIDE DEF n
<1>2. 0 \in Versions
  BY <1>1
<1> QED
  BY <1>2 DEF Junk

\* The room that records take is a number.
LEMMA RoomIsNat == ASSUME NEW f \in Seq(Records) PROVE Room(f) \in Nat
<1> DEFINE part == [i \in DOMAIN f |-> {i} \X DOMAIN f[i]]
           parts == {{i} \X DOMAIN f[i] : i \in DOMAIN f}
<1>1. DOMAIN f = 1..Len(f) /\ Len(f) \in Nat
  OBVIOUS
<1>2. IsFiniteSet(DOMAIN f)
  BY <1>1, FS_Interval
<1>3. ASSUME NEW i \in DOMAIN f PROVE IsFiniteSet({i} \X DOMAIN f[i])
  <2>1. f[i] \in Seq(Versions)
    BY <1>1, ElementOfSeq DEF Records
  <2>2. DOMAIN f[i] = 1..Len(f[i]) /\ Len(f[i]) \in Nat
    BY <2>1
  <2>3. IsFiniteSet(DOMAIN f[i])
    BY <2>2, FS_Interval
  <2>4. IsFiniteSet({i})
    BY FS_Singleton
  <2> QED
    BY <2>3, <2>4, FS_Product
<1>4. part \in Surjection(DOMAIN f, parts)
  BY DEF Surjection
<1>5. IsFiniteSet(parts)
  BY <1>2, <1>4, FS_Surjection
<1>6. \A t \in parts : IsFiniteSet(t)
  BY <1>3
<1>7. IsFiniteSet(UNION parts)
  BY <1>5, <1>6, FS_UNION
<1> QED
  BY <1>7, FS_CardinalityType DEF Room

\* What is written over a file is records if both are.
LEMMA LaidIsGood ==
    ASSUME setup \in Setups, NEW a \in Seq(Records), NEW old \in Seq(Records)
    PROVE  /\ Laid(a, old) \in Seq(Records)
           /\ old = <<>> => Laid(a, old) = a
           /\ (\A i \in DOMAIN a : Whole(a[i])) /\ (\A i \in DOMAIN old : Whole(old[i]))
              => \A i \in DOMAIN Laid(a, old) : Whole(Laid(a, old)[i])
<1> DEFINE left == {k \in 0..Len(old) : Room(SubSeq(old, 1, k)) = Room(a)}
           k == CHOOSE j \in left : TRUE
           end == CASE Room(a) >= Room(old) -> <<>>
                    [] Room(a) < Room(old) /\ left = {} -> <<<<Junk>>>>
                    [] OTHER -> SubSeq(old, k + 1, Len(old))
<1>1. Laid(a, old) = a \o end
  BY DEF Laid
<1>2. Room(a) \in Nat /\ Room(old) \in Nat /\ Len(old) \in Nat
  BY RoomIsNat
<1>3. /\ Room(a) >= Room(old) => end = <<>>
      /\ end = <<>> \/ end = <<<<Junk>>>> \/ (left # {} /\ end = SubSeq(old, k + 1, Len(old)))
  <2> HIDE DEF left, k
  <2>1. CASE Room(a) >= Room(old)
    <3>1. ~(Room(a) < Room(old))
      BY <1>2, <2>1
    <3> QED
      BY <2>1, <3>1
  <2>2. CASE ~(Room(a) >= Room(old)) /\ left = {}
    <3>1. Room(a) < Room(old)
      BY <1>2, <2>2
    <3> QED
      BY <2>2, <3>1
  <2>3. CASE ~(Room(a) >= Room(old)) /\ left # {}
    BY <2>3
  <2> QED
    BY <2>1, <2>2, <2>3
<1>4. left # {} => k \in 0..Len(old)
  OBVIOUS
<1>5. old = <<>> => end = <<>>
  <2>1. Room(<<>>) = 0
    <3>1. UNION {{i} \X DOMAIN <<>>[i] : i \in DOMAIN <<>>} = {}
      OBVIOUS
    <3> QED
      BY <3>1, FS_EmptySet DEF Room
  <2>2. old = <<>> => Room(a) >= Room(old)
    BY <1>2, <2>1
  <2> QED
    BY <1>3, <2>2
<1>6. /\ <<>> \in Seq(Records) /\ <<<<Junk>>>> \in Seq(Records)
      /\ DOMAIN <<<<Junk>>>> = {1} /\ Whole(<<<<Junk>>>>[1])
  <2>1. Junk \in Versions
    BY JunkIsVersion
  <2>2. <<Junk>> \in Seq(Versions) /\ <<Junk>> # <<>>
    BY <2>1
  <2>3. <<Junk>> \in Records
    BY <2>2 DEF Records
  <2> QED
    BY <2>3 DEF Whole
<1> HIDE DEF end, k, left
<1>7. ASSUME left # {}
      PROVE  /\ SubSeq(old, k + 1, Len(old)) \in Seq(Records)
             /\ \A i \in DOMAIN SubSeq(old, k + 1, Len(old)) :
                    \E j \in DOMAIN old : SubSeq(old, k + 1, Len(old))[i] = old[j]
  <2>1. k \in 0..Len(old)
    BY <1>4, <1>7
  <2> QED
    BY <2>1
<1>8. end \in Seq(Records)
  BY <1>3, <1>6, <1>7
<1>9. (\A i \in DOMAIN old : Whole(old[i])) => \A i \in DOMAIN end : Whole(end[i])
  <2>1. DOMAIN <<>> = {}
    OBVIOUS
  <2> QED
    BY <1>3, <1>6, <1>7, <2>1
<1>10. /\ a \o end \in Seq(Records)
       /\ \A i \in DOMAIN (a \o end) :
             \/ i \in DOMAIN a /\ (a \o end)[i] = a[i]
             \/ \E j \in DOMAIN end : (a \o end)[i] = end[j]
  BY <1>8
<1>11. end = <<>> => a \o end = a
  OBVIOUS
<1> QED
  BY <1>1, <1>5, <1>9, <1>10, <1>11

\* The beginning of a list of records is one.
LEMMA PartIsGood ==
    ASSUME setup \in Setups, NEW list \in Seq(Records), NEW n \in 0..(Len(list) - 1), NEW k \in 0..(Len(list[n + 1]) - 1)
    PROVE  /\ Part(list, n, k) \in Seq(Records)
           /\ (\A i \in DOMAIN list : Whole(list[i]))
              => \A i \in DOMAIN Part(list, n, k) : Whole(Part(list, n, k)[i])
<1> DEFINE first == SubSeq(list, 1, n)
           cut == [i \in DOMAIN list[n + 1] |-> IF i <= k THEN list[n + 1][i] ELSE Junk]
           rest == IF k = 0 THEN <<>> ELSE <<cut>>
<1>1. Part(list, n, k) = first \o rest
  BY DEF Part
<1>2. n + 1 \in DOMAIN list /\ n \in Nat /\ n <= Len(list) /\ Len(list) \in Nat
  OBVIOUS
<1>3. list[n + 1] \in Seq(Versions) /\ list[n + 1] # <<>>
  BY <1>2, ElementOfSeq DEF Records
<1>4. cut \in Records
  <2> DEFINE d == list[n + 1]
  <2>1. d \in Seq(Versions) /\ d # <<>>
    BY <1>3
  <2>2. DOMAIN d = 1..Len(d) /\ Len(d) \in Nat /\ Len(d) # 0 /\ \A i \in 1..Len(d) : d[i] \in Versions
    BY <2>1
  <2>3. Junk \in Versions
    BY JunkIsVersion
  <2> HIDE DEF d
  <2>4. [i \in DOMAIN d |-> IF i <= k THEN d[i] ELSE Junk] \in Seq(Versions)
    BY <2>2, <2>3
  <2>5. [i \in DOMAIN d |-> IF i <= k THEN d[i] ELSE Junk] # <<>>
    BY <2>2
  <2> QED
    BY <2>4, <2>5 DEF Records, d
<1>5. Whole(list[n + 1]) => Whole(cut)
  BY DEF Whole
<1>6. first \in Seq(Records) /\ Len(first) = n /\ \A i \in 1..n : first[i] = list[i]
  BY <1>2
<1> HIDE DEF cut, first
<1>7. rest \in Seq(Records) /\ \A i \in DOMAIN rest : rest[i] = cut
  BY <1>4
<1> HIDE DEF rest
<1>8. /\ first \o rest \in Seq(Records)
      /\ \A i \in DOMAIN (first \o rest) :
            \/ i \in 1..n /\ (first \o rest)[i] = first[i]
            \/ \E j \in DOMAIN rest : (first \o rest)[i] = rest[j]
  BY <1>2, <1>6, <1>7
<1>9. 1..n \subseteq DOMAIN list
  BY <1>2
<1> QED
  BY <1>1, <1>2, <1>5, <1>6, <1>7, <1>8, <1>9

LEMMA WriteKeeps ==
    ASSUME RepoInv, NEW p \in Programs, Write(p) PROVE RepoInv'
<1> DEFINE q == prog[p]
           lost == [q EXCEPT !.lossy = TRUE]
<1>1. /\ q \in ProgramTypes /\ q.pc = "writing" /\ InStep(q, Verb(p)) /\ Complete(q, repo, Verb(p), Quiet)
      /\ setup.reservations = TRUE => \A i \in DOMAIN q.list : Whole(q.list[i])
      /\ faults \in 0..faults /\ faults \in 0..setup.faults /\ setup.faults \in Nat
      /\ Stored(q, repo, Verb(p), file) /\ FileIsGood(file)
      /\ UNCHANGED <<setup, repo, holder, versions>> /\ setup \in Setups
  BY Sure DEF Write, At, TypeOK
<1>2. q.saves = TRUE /\ Verb(p) # "restore" /\ file # NoFile /\ q.list \in Seq(Records)
  BY <1>1 DEF InStep, Stored, ProgramTypes
<1>3. file \in Seq(Records)
  BY <1>1, <1>2 DEF FileIsGood
\* What is stored, of a program that is x then.
<1>4. ASSUME NEW stored \in Seq(Records), NEW x \in ProgramTypes,
             file' = Laid(stored, file), Clobbers(p, Saved(p, x)), faults' \in 0..faults,
             setup.reservations = TRUE => \A i \in DOMAIN stored : Whole(stored[i]),
             x.list = q.list, x.saves = q.saves, x.touched = q.touched, x.clobbered = q.clobbered, x.count = q.count,
             x.lossy = TRUE \/ (x.lossy = q.lossy /\ stored = q.list)
      PROVE  RepoInv'
  <2> DEFINE r == Saved(p, x)
  <2>1. /\ r \in ProgramTypes /\ r.list = x.list /\ r.saves = x.saves /\ r.touched = x.touched /\ r.lossy = x.lossy
        /\ r.clobbered = x.clobbered
        /\ \/ Verb(p) = "jump" /\ r.pc = "reread" /\ r.count = x.count
           \/ Verb(p) # "jump" /\ r.pc = "done"
    <3>1. CASE Verb(p) = "jump"
      <4>1. r = [x EXCEPT !.pc = "reread"]
        BY <3>1 DEF Saved
      <4>2. "reread" \in Places
        BY DEF Places
      <4> HIDE DEF r
      <4> QED
        BY <3>1, <4>1, <4>2 DEF ProgramTypes
    <3>2. CASE Verb(p) # "jump"
      <4>1. r = Over(x, "ok")
        BY <3>2 DEF Saved
      <4> HIDE DEF r
      <4> QED
        BY <3>2, <4>1, BeingOver
    <3> QED
      BY <3>1, <3>2
  <2>2. Clobbers(p, r)
    BY <1>4
  <2> HIDE DEF r
  <2>3. FileIsGood(file') /\ file' # NoFile
    <3>1. /\ file' \in Seq(Records)
          /\ setup.reservations = TRUE => \A i \in DOMAIN file' : Whole(file'[i])
      BY <1>1, <1>2, <1>3, <1>4, LaidIsGood DEF FileIsGood
    <3>2. NoFile \notin Seq(Records)
      BY DEF NoFile, Records
    <3> QED
      BY <3>1, <3>2 DEF FileIsGood
  <2>4. faults' = setup.faults => Quiet
    BY <1>1, <1>4 DEF Quiet
  <2>5. InStep(r, Verb(p))
    BY <1>2, <1>4, <2>1 DEF InStep
  <2>6. r.touched = FALSE /\ r.lossy = FALSE => q.list = Data(repo) /\ q.count = Len(repo)
    BY <1>1, <1>2, <1>4, <2>1 DEF Complete
  <2>7. Complete(r, repo, Verb(p), faults' = setup.faults)
    BY <1>4, <2>1, <2>6 DEF Complete
  <2>8. Stored(r, repo, Verb(p), file')
    <3>1. ASSUME r.clobbered = FALSE, r.touched = FALSE, r.lossy = FALSE PROVE file' = Data(repo)
      <4>1. file = <<>>
        BY <1>1, <1>4, <2>1, <3>1 DEF Stored
      <4>2. stored = q.list
        BY <1>4, <2>1, <3>1
      <4>3. Laid(stored, file) = stored
        BY <1>1, <1>3, <1>4, <4>1, LaidIsGood
      <4> QED
        BY <1>4, <2>6, <3>1, <4>2, <4>3
    <3> QED
      BY <2>1, <2>3, <3>1 DEF Stored
  <2>9. setup.reservations = TRUE => \A i \in DOMAIN r.list : Whole(r.list[i])
    BY <1>1, <1>4, <2>1
  <2>10. r.pc # "get"
    BY <2>1
  <2> QED
    BY <1>1, <1>4, <2>1, <2>2, <2>3, <2>5, <2>7, <2>8, <2>9, <2>10, FileMoves
<1>5. CASE file' = Laid(q.list, file) /\ Clobbers(p, Saved(p, q)) /\ UNCHANGED faults
  BY <1>1, <1>2, <1>4, <1>5
<1>6. faults > 0 /\ faults' = faults - 1 => faults' \in 0..faults
  BY <1>1
<1>7. ASSUME NEW n \in 0..(Len(q.list) - 1), NEW k \in 0..(Len(q.list[n + 1]) - 1), faults' \in 0..faults,
             file' = Laid(Part(q.list, n, k), file), Clobbers(p, Saved(p, lost))
      PROVE  RepoInv'
  <2>1. /\ lost \in ProgramTypes /\ lost.list = q.list /\ lost.saves = q.saves /\ lost.touched = q.touched
        /\ lost.clobbered = q.clobbered /\ lost.count = q.count /\ lost.lossy = TRUE
    BY <1>1 DEF ProgramTypes
  <2> DEFINE part == Part(q.list, n, k)
  <2>2. /\ part \in Seq(Records)
        /\ setup.reservations = TRUE => \A i \in DOMAIN part : Whole(part[i])
    BY <1>1, <1>2, PartIsGood
  <2> HIDE DEF lost, q, part
  <2> QED
    BY <1>4, <1>7, <2>1, <2>2 DEF part
<1>8. CASE Set(p, Fails(q)) /\ UNCHANGED file /\ faults' \in 0..faults
  BY <1>1, <1>2, <1>8, FailsKeeps
<1> HIDE DEF lost, q
<1> QED
  BY <1>5, <1>6, <1>7, <1>8 DEF Write, lost, q

LEMMA RereadKeeps ==
    ASSUME RepoInv, NEW p \in Programs, Reread(p) PROVE RepoInv'
<1> DEFINE q == prog[p]
           c == q.count
           found == IF Len(file) > c THEN SubSeq(file, 1, c) ELSE file
           more(n) == found \o [i \in 1..n |-> <<Junk>>]
<1>1. /\ q \in ProgramTypes /\ q.pc = "reread" /\ InStep(q, Verb(p)) /\ Complete(q, repo, Verb(p), Quiet)
      /\ faults \in 0..faults /\ Stored(q, repo, Verb(p), file) /\ FileIsGood(file)
      /\ UNCHANGED <<setup, repo, holder, file, versions, faults>> /\ setup \in Setups /\ Len(repo) \in Nat
  BY Sure DEF Reread, At, TypeOK
<1>2. q.saves = TRUE /\ Verb(p) # "restore" /\ file # NoFile /\ c \in Nat
  BY <1>1 DEF InStep, Stored, ProgramTypes
<1>3. file \in Seq(Records) /\ Len(file) \in Nat
  BY <1>1, <1>2 DEF FileIsGood
<1>4. /\ found \in Seq(Records) /\ Len(found) <= c /\ Len(found) \in Nat
      /\ \A i \in DOMAIN found : i \in DOMAIN file /\ found[i] = file[i]
  <2>1. CASE Len(file) > c
    <3>1. found = SubSeq(file, 1, c)
      BY <2>1
    <3> HIDE DEF found, c
    <3> QED
      BY <1>2, <1>3, <2>1, <3>1
  <2>2. CASE ~(Len(file) > c)
    <3>1. found = file
      BY <2>2
    <3> HIDE DEF found, c
    <3> QED
      BY <1>2, <1>3, <2>2, <3>1
  <2> QED
    BY <2>1, <2>2
<1>5. ~(Len(file) > c) => found = file
  OBVIOUS
<1> HIDE DEF found
<1>6. ASSUME NEW n \in 0..(c - Len(found)), Set(p, Over([q EXCEPT !.list = more(n)], "ok"))
      PROVE  RepoInv'
  <2> DEFINE tail == [i \in 1..n |-> <<Junk>>]
             l == more(n)
             x == [q EXCEPT !.list = l]
             r == Over(x, "ok")
  <2>1. n \in Nat
    BY <1>2, <1>4
  <2>2. <<Junk>> \in Records /\ Whole(<<Junk>>)
    <3>1. <<Junk>> \in Seq(Versions) /\ <<Junk>> # <<>>
      BY <1>1, JunkIsVersion
    <3> QED
      BY <3>1 DEF Records, Whole
  <2>3. /\ tail \in Seq(Records) /\ Len(tail) = n /\ \A i \in DOMAIN tail : Whole(tail[i])
        /\ n = 0 => tail = <<>>
    BY <2>1, <2>2
  <2>4. l = found \o tail
    OBVIOUS
  <2> HIDE DEF tail, l
  <2>5. /\ l \in Seq(Records) /\ (n = 0 => l = found)
        /\ \A i \in DOMAIN l : \/ i \in DOMAIN found /\ l[i] = found[i]
                              \/ \E j \in DOMAIN tail : l[i] = tail[j]
    BY <1>4, <2>3, <2>4
  <2>6. setup.reservations = TRUE => \A i \in DOMAIN l : Whole(l[i])
    <3>1. setup.reservations = TRUE => \A i \in DOMAIN file : Whole(file[i])
      BY <1>1, <1>2 DEF FileIsGood
    <3> QED
      BY <1>4, <2>3, <2>5, <3>1
  <2>7. /\ x \in ProgramTypes /\ x.list = l /\ x.saves = q.saves /\ x.touched = q.touched /\ x.lossy = q.lossy
        /\ x.clobbered = q.clobbered
    BY <1>1, <2>5 DEF ProgramTypes
  <2> HIDE DEF x
  <2>8. /\ r \in ProgramTypes /\ r.pc = "done" /\ r.list = l /\ r.saves = q.saves /\ r.touched = q.touched
        /\ r.lossy = q.lossy /\ r.clobbered = q.clobbered
    BY <2>7, BeingOver
  <2>9. Set(p, r)
    BY <1>6 DEF l, x
  <2> HIDE DEF r
  <2>10. InStep(r, Verb(p))
    BY <2>8 DEF InStep
  <2>11. ASSUME r.touched = FALSE, r.lossy = FALSE, r.clobbered = FALSE, Verb(p) \in {"dump", "jump"}
         PROVE  file = Data(repo) /\ r.list = Data(repo)
    <3>1. file = Data(repo) /\ c = Len(repo)
      BY <1>1, <1>2, <2>8, <2>11 DEF Stored, Complete
    <3>2. Len(file) = c
      BY <1>1, <1>3, <3>1 DEF Data
    <3>3. found = file /\ n = 0
      BY <1>2, <1>3, <1>5, <2>1, <3>2
    <3> QED
      BY <2>5, <2>8, <3>1, <3>3
  <2>12. Verb(p) = "jump"
    BY <1>1 DEF InStep
  <2>13. Complete(r, repo, Verb(p), faults' = setup.faults) /\ Stored(r, repo, Verb(p), file)
    BY <2>8, <2>11, <2>12 DEF Complete, Stored
  <2> QED
    BY <1>1, <2>6, <2>8, <2>9, <2>10, <2>13, ProgramMoves
<1>7. CASE Set(p, Fails(q))
  BY <1>1, <1>2, <1>7, FailsKeeps
<1> HIDE DEF q
<1> QED
  BY <1>6, <1>7 DEF Reread, q, found

LEMMA FailedKeeps ==
    ASSUME RepoInv, NEW p \in Programs, Failed(p) PROVE RepoInv'
<1> DEFINE q == prog[p]
           r == [q EXCEPT !.pc = "info", !.saves = FALSE, !.list = <<>>, !.try = 0, !.ret = "ok", !.lossy = FALSE]
<1>1. /\ q \in ProgramTypes /\ q.pc = "failed" /\ InStep(q, Verb(p)) /\ FileIsGood(file)
      /\ setup.reservations = TRUE => \A i \in DOMAIN q.list : Whole(q.list[i])
      /\ faults \in 0..faults
      /\ UNCHANGED <<setup, repo, holder, file, versions, faults>>
  BY Sure DEF Failed, At
<1>2. CASE Set(p, r)
  <2>1. "info" \in Places /\ 0 \in 0..(MaxTries - 1) /\ <<>> \in Seq(Records)
    BY SdrAssumption DEF Places
  <2>2. r \in ProgramTypes /\ r.pc = "info" /\ r.list = <<>> /\ r.saves = FALSE
    BY <1>1, <2>1 DEF ProgramTypes
  <2> HIDE DEF r
  <2>3. InStep(r, Verb(p)) /\ Complete(r, repo, Verb(p), faults' = setup.faults) /\ Stored(r, repo, Verb(p), file)
    BY <1>1, <2>2 DEF InStep, Complete, Stored
  <2>4. \A i \in DOMAIN r.list : Whole(r.list[i])
    BY <2>2
  <2>5. Set(p, r)
    BY <1>2 DEF r
  <2> QED
    BY <1>1, <2>2, <2>3, <2>4, <2>5, ProgramMoves
<1>3. CASE Set(p, Over(q, "error"))
  <2> DEFINE o == Over(q, "error")
  <2>1. o \in ProgramTypes /\ o.pc = "done" /\ o.ret = "error" /\ o.list = q.list
    BY <1>1, BeingOver
  <2> HIDE DEF o
  <2>2. InStep(o, Verb(p)) /\ Complete(o, repo, Verb(p), faults' = setup.faults) /\ Stored(o, repo, Verb(p), file)
    BY <2>1 DEF InStep, Complete, Stored
  <2> QED
    BY <1>1, <1>3, <2>1, <2>2, ProgramMoves DEF o
<1> QED
  BY <1>2, <1>3 DEF Failed

LEMMA KillKeeps ==
    ASSUME RepoInv, NEW p \in Programs, Kill(p) PROVE RepoInv'
<1> DEFINE q == Over(prog[p], "error")
           r == [q EXCEPT !.list = <<>>]
<1>1. /\ prog[p] \in ProgramTypes /\ FileIsGood(file) /\ faults \in 0..faults
      /\ UNCHANGED <<setup, repo, holder, file, versions, faults>> /\ Set(p, r)
  BY Sure DEF Kill
<1>2. q \in ProgramTypes /\ q.pc = "done" /\ q.ret = "error"
  BY <1>1, BeingOver
<1> HIDE DEF q
<1>3. r \in ProgramTypes /\ r.pc = "done" /\ r.ret = "error" /\ r.list = <<>>
  <2>1. <<>> \in Seq(Records)
    OBVIOUS
  <2> QED
    BY <1>2, <2>1 DEF ProgramTypes
<1> HIDE DEF r
<1>4. InStep(r, Verb(p)) /\ Complete(r, repo, Verb(p), faults' = setup.faults) /\ Stored(r, repo, Verb(p), file)
  BY <1>3 DEF InStep, Complete, Stored
<1> QED
  <2>1. \A i \in DOMAIN r.list : Whole(r.list[i])
    BY <1>3
  <2>2. Set(p, r)
    BY <1>1 DEF r, q
  <2> QED
    BY <1>1, <1>3, <1>4, <2>1, <2>2, ProgramMoves

LEMMA InfoKeeps ==
    ASSUME RepoInv, NEW p \in Programs, Info(p) PROVE RepoInv'
<1> DEFINE q == prog[p]
           known == [q EXCEPT !.count = Len(repo), !.reserves = setup.reservations, !.touched = FALSE]
           fails == [q EXCEPT !.pc = "failed", !.ret = "error"]
           later == [q EXCEPT !.touched = FALSE]
<1>1. /\ q \in ProgramTypes /\ q.pc = "info" /\ InStep(q, Verb(p)) /\ FileIsGood(file)
      /\ setup.reservations \in BOOLEAN /\ faults \in 0..setup.faults /\ setup.faults \in Nat /\ Len(repo) \in Nat
      /\ UNCHANGED <<setup, repo, holder, file, versions>> /\ TypeOK
  BY Sure DEF Info, At
<1>2. q.list = <<>> /\ Verb(p) # "restore" /\ (q.saves => q.index = 0) /\ q.saves \in BOOLEAN
  BY <1>1 DEF InStep, ProgramTypes
<1>3. /\ known \in ProgramTypes /\ known.list = <<>> /\ known.saves = q.saves /\ known.index = q.index
      /\ known.count = Len(repo)
  BY <1>1, <1>2 DEF ProgramTypes
<1>4. fails \in ProgramTypes /\ fails.pc = "failed" /\ fails.list = <<>>
  BY <1>1, <1>2 DEF ProgramTypes, Places
<1>5. later \in ProgramTypes /\ later.list = <<>> /\ later.saves = q.saves
  BY <1>1, <1>2 DEF ProgramTypes
<1>6. [known EXCEPT !.pc = "failed", !.ret = "error"] \in ProgramTypes
      /\ [known EXCEPT !.pc = "failed", !.ret = "error"].pc = "failed"
      /\ [known EXCEPT !.pc = "failed", !.ret = "error"].list = <<>>
  BY <1>3 DEF ProgramTypes, Places
<1>7. First \in Nat
  BY DEF First
<1> HIDE DEF known, fails, later
<1>8. ASSUME NEW r \in ProgramTypes, Set(p, r), r.list = <<>>, r.pc = "get" => r.got = <<>>,
             r.pc = "done" => r.saves = FALSE,
             r.pc \in {"get", "failed", "done"}, Complete(r, repo, Verb(p), faults' = setup.faults), faults' \in 0..faults
      PROVE  RepoInv'
  <2>1. InStep(r, Verb(p)) /\ Stored(r, repo, Verb(p), file) /\ \A i \in DOMAIN r.list : Whole(r.list[i])
    BY <1>2, <1>8 DEF InStep, Stored
  <2> QED
    BY <1>1, <1>8, <2>1, ProgramMoves
<1>9. CASE repo # <<>> /\ Set(p, Get(known, First)) /\ UNCHANGED faults
  <2> DEFINE r == Get(known, First)
  <2>1. /\ r \in ProgramTypes /\ r.pc = "get" /\ r.recid = First /\ r.got = <<>> /\ r.list = <<>>
        /\ r.index = q.index /\ r.count = Len(repo) /\ r.saves = q.saves
    BY <1>3, <1>7, Getting
  <2> HIDE DEF r
  <2>2. Len(repo) > 0 /\ 1 \in DOMAIN repo
    BY <1>1, <1>9 DEF TypeOK
  <2>3. Follows(r, repo)
    BY <1>1, <1>2, <2>1, <2>2 DEF Follows, AtIn
  <2>4. Complete(r, repo, Verb(p), faults' = setup.faults)
    BY <2>1, <2>3 DEF Complete
  <2>5. faults' \in 0..faults
    BY <1>1, <1>9
  <2> QED
    BY <1>8, <1>9, <2>1, <2>4, <2>5 DEF r
<1>10. CASE /\ repo = <<>> /\ UNCHANGED faults
            /\ Set(p, IF q.saves THEN [known EXCEPT !.pc = "failed", !.ret = "error"] ELSE Over(known, "ok"))
  <2>1. faults' \in 0..faults
    BY <1>1, <1>10
  <2>2. CASE q.saves = TRUE
    <3> DEFINE r == [known EXCEPT !.pc = "failed", !.ret = "error"]
    <3>1. Set(p, r) /\ r \in ProgramTypes /\ r.pc = "failed" /\ r.list = <<>>
      BY <1>6, <1>10, <2>2
    <3> HIDE DEF r
    <3> QED
      BY <1>8, <2>1, <3>1 DEF Complete
  <2>3. CASE q.saves = FALSE
    <3> DEFINE r == Over(known, "ok")
    <3>1. Set(p, r) /\ r \in ProgramTypes /\ r.pc = "done" /\ r.list = <<>> /\ r.saves = FALSE
      BY <1>3, <1>10, <2>3, BeingOver
    <3> HIDE DEF r
    <3>2. Data(repo) = <<>>
      BY <1>10 DEF Data
    <3> QED
      BY <1>8, <2>1, <3>1, <3>2 DEF Complete
  <2> QED
    BY <1>2, <2>2, <2>3
<1>11. CASE /\ faults > 0 /\ faults' = faults - 1
            /\ Set(p, IF q.saves THEN fails ELSE Get(later, First))
  <2>1. faults' \in 0..faults /\ faults' # setup.faults
    BY <1>1, <1>11
  <2>2. CASE q.saves = TRUE
    BY <1>4, <1>8, <1>11, <2>1, <2>2 DEF Complete
  <2>3. CASE q.saves = FALSE
    <3> DEFINE r == Get(later, First)
    <3>1. Set(p, r) /\ r \in ProgramTypes /\ r.pc = "get" /\ r.got = <<>> /\ r.list = <<>> /\ r.saves = FALSE
      BY <1>5, <1>7, <1>11, <2>3, Getting
    <3> HIDE DEF r
    <3>2. Complete(r, repo, Verb(p), faults' = setup.faults)
      BY <1>2, <2>1, <3>1 DEF Complete
    <3> QED
      BY <1>8, <2>1, <3>1, <3>2
  <2> QED
    BY <1>2, <2>2, <2>3
<1> QED
  BY <1>9, <1>10, <1>11 DEF Info, Fails, known, fails, later

-----------------------------------------------------------------------------
(* What changes the repository.                                            *)

RepoTypes == Seq([id : Nat \ {First}, data : Records])

\* The repository changes; the programs are f, but for knowing it.
LEMMA RepoChanges ==
    ASSUME RepoInv, NEW p \in Programs \cup {Nobody}, NEW f \in [Programs -> ProgramTypes], prog' = Changed(f, p),
           \A o \in Programs : o # p => f[o] = prog[o],
           UNCHANGED <<setup, file>>, holder' = Nobody, faults' \in 0..faults,
           versions' \in 0..(Len(setup.repo) + setup.changes),
           repo' \in RepoTypes, IdsDiffer(repo'),
           setup.reservations = TRUE => \A i \in DOMAIN repo' : Whole(repo'[i].data),
           p \in Programs =>
               /\ InStep(f[p], Verb(p)) /\ f[p].pc # "get"
               /\ setup.reservations = TRUE => \A i \in DOMAIN f[p].list : Whole(f[p].list[i])
               /\ Complete(f[p], repo', Verb(p), faults' = setup.faults)
               /\ Stored(f[p], repo', Verb(p), file)
    PROVE  RepoInv'
<1>1. TypeOK
  BY DEF RepoInv
<1>2. prog \in [Programs -> ProgramTypes] /\ setup \in Setups /\ faults \in 0..setup.faults /\ setup.faults \in Nat
  BY <1>1, SetupTypes DEF TypeOK
<1>3. ProgramTypes' = ProgramTypes /\ Records' = Records
  BY DEF ProgramTypes, Records, Versions
<1>4. /\ p \in Programs => prog'[p] = f[p]
      /\ \A o \in Programs : o # p => prog'[o] = [prog[o] EXCEPT !.touched = TRUE]
  BY DEF Changed
<1>5. \A o \in Programs : o # p =>
          /\ prog'[o] \in ProgramTypes /\ prog'[o].touched = TRUE /\ prog'[o].pc = prog[o].pc
          /\ prog'[o].list = prog[o].list /\ prog'[o].got = prog[o].got /\ prog'[o].index = prog[o].index
          /\ prog'[o].saves = prog[o].saves /\ prog'[o].clobbered = prog[o].clobbered
  <2>1. SUFFICES ASSUME NEW o \in Programs, o # p
                 PROVE  LET r == [prog[o] EXCEPT !.touched = TRUE]
                        IN /\ r \in ProgramTypes /\ r.touched = TRUE /\ r.pc = prog[o].pc /\ r.list = prog[o].list
                           /\ r.got = prog[o].got /\ r.index = prog[o].index /\ r.saves = prog[o].saves
                           /\ r.clobbered = prog[o].clobbered
    BY <1>4
  <2>2. prog[o] \in ProgramTypes
    BY <1>2
  <2> QED
    BY <2>2 DEF ProgramTypes
<1>6. prog' \in [Programs -> ProgramTypes]
  <2>1. \A o \in Programs : prog'[o] \in ProgramTypes
    BY <1>4, <1>5
  <2> QED
    BY <2>1 DEF Changed
<1>7. TypeOK'
  <2>1. file' = NoFile \/ file' \in Seq(Records)
    BY <1>1 DEF TypeOK
  <2>2. /\ repo' \in Seq([id : Nat \ {First}, data : Records'])
        /\ \A i, j \in DOMAIN repo' : i # j => repo'[i].id # repo'[j].id
    BY <1>3 DEF RepoTypes, IdsDiffer
  <2>3. faults' \in 0..setup.faults
    BY <1>2
  <2> QED
    BY <1>2, <1>3, <1>6, <2>1, <2>2, <2>3 DEF TypeOK
<1>8. \A o \in Programs : Verb(o)' = Verb(o) /\ InStep(prog[o], Verb(o))
  BY DEF RepoInv, Verb
<1>9. \A o \in Programs : InStep(prog'[o], Verb(o)')
  <2>1. \A o \in Programs : o # p => InStep(prog'[o], Verb(o))
    <3>1. SUFFICES ASSUME NEW o \in Programs, o # p PROVE InStep(prog'[o], Verb(o))
      OBVIOUS
    <3> DEFINE q == prog[o]
               r == prog'[o]
    <3>2. /\ InStep(q, Verb(o)) /\ r.pc = q.pc /\ r.list = q.list /\ r.got = q.got /\ r.index = q.index
          /\ r.saves = q.saves
      BY <1>5, <1>8, <3>1
    <3> HIDE DEF q, r
    <3>3. InStep(r, Verb(o))
      BY ONLY <3>2 DEF InStep
    <3> QED
      BY <3>3 DEF r
  <2> QED
    BY <1>4, <1>8, <2>1
<1>10. ASSUME setup.reservations = TRUE
       PROVE  /\ file' # NoFile => \A i \in DOMAIN file' : Whole(file'[i])
              /\ \A o \in Programs : Untorn(prog'[o], repo', holder' = o)
  <2>1. \A o \in Programs : Untorn(prog[o], repo, holder = o) /\ holder' # o
    BY <1>10, SdrAssumption DEF RepoInv
  <2>2. \A o \in Programs : o # p => Untorn(prog'[o], repo', holder' = o)
    <3>1. SUFFICES ASSUME NEW o \in Programs, o # p PROVE Untorn(prog'[o], repo', holder' = o)
      OBVIOUS
    <3> QED
      BY <1>5, <2>1, <3>1 DEF Untorn
  <2>3. p \in Programs => Untorn(prog'[p], repo', holder' = p)
    BY <1>4, <1>10 DEF Untorn
  <2>4. file' # NoFile => \A i \in DOMAIN file' : Whole(file'[i])
    BY <1>10 DEF RepoInv
  <2> QED
    BY <2>2, <2>3, <2>4
<1>11. \A o \in Programs : Complete(prog'[o], repo', Verb(o)', Quiet')
  <2>1. \A o \in Programs : o # p => Complete(prog'[o], repo', Verb(o)', Quiet')
    BY <1>5 DEF Complete
  <2>2. p \in Programs => Complete(prog'[p], repo', Verb(p)', Quiet')
    BY <1>4, <1>8 DEF Quiet
  <2> QED
    BY <2>1, <2>2
<1>12. \A o \in Programs : Stored(prog'[o], repo', Verb(o)', file')
  <2>1. \A o \in Programs : Stored(prog[o], repo, Verb(o), file)
    BY DEF RepoInv
  <2>2. \A o \in Programs : o # p => Stored(prog'[o], repo', Verb(o), file)
    BY <1>5, <2>1 DEF Stored
  <2> QED
    BY <1>4, <1>8, <2>2
<1> QED
  BY <1>7, <1>9, <1>10, <1>11, <1>12 DEF RepoInv

\* The next record of the file, or the end.
LEMMA AddIs ==
    ASSUME NEW q \in ProgramTypes
    PROVE  /\ Add(q) \in ProgramTypes /\ Add(q).list = q.list
           /\ Add(q).touched = q.touched /\ Add(q).lossy = q.lossy /\ Add(q).saves = q.saves
           /\ \/ Add(q).pc = "done" /\ Add(q).ret = "ok" /\ q.index >= Len(q.list)
              \/ Add(q).pc = "add" /\ Add(q).index = q.index /\ Add(q).got = <<>> /\ q.index < Len(q.list)
<1>1. q.list \in Seq(Records) /\ Len(q.list) \in Nat /\ q.index \in Nat
  BY DEF ProgramTypes
<1>2. CASE q.list = <<>> \/ q.index >= Len(q.list)
  <2>1. Add(q) = Over(q, "ok") /\ q.index >= Len(q.list)
    BY <1>1, <1>2 DEF Add
  <2> QED
    BY <2>1, BeingOver
<1>3. CASE ~(q.list = <<>> \/ q.index >= Len(q.list))
  <2> DEFINE r == [q EXCEPT !.pc = "add", !.reserve = TRUE, !.got = <<>>]
  <2>1. Add(q) = r /\ q.index < Len(q.list)
    BY <1>1, <1>3 DEF Add
  <2>2. "add" \in Places /\ <<>> \in Seq(Versions)
    BY DEF Places
  <2>3. /\ r \in ProgramTypes /\ r.list = q.list /\ r.touched = q.touched /\ r.lossy = q.lossy /\ r.saves = q.saves
        /\ r.pc = "add" /\ r.index = q.index /\ r.got = <<>>
    BY <2>2 DEF ProgramTypes
  <2> QED
    BY <2>1, <2>3
<1> QED
  BY <1>2, <1>3

\* A command to change the repository, or its answer, fails.
LEMMA GivesUp ==
    ASSUME RepoInv, NEW p \in Programs, Set(p, Over(prog[p], "error")),
           UNCHANGED <<setup, repo, holder, file, versions>>, faults' \in 0..faults
    PROVE  RepoInv'
<1> DEFINE r == Over(prog[p], "error")
<1>1. /\ r \in ProgramTypes /\ r.pc = "done" /\ r.ret = "error" /\ r.list = prog[p].list
      /\ setup.reservations = TRUE => \A i \in DOMAIN prog[p].list : Whole(prog[p].list[i])
      /\ FileIsGood(file)
  BY Sure, BeingOver
<1> HIDE DEF r
<1>2. InStep(r, Verb(p)) /\ Complete(r, repo, Verb(p), faults' = setup.faults) /\ Stored(r, repo, Verb(p), file)
  BY <1>1 DEF InStep, Complete, Stored
<1> QED
  BY <1>1, <1>2, ProgramMoves DEF r

LEMMA ClearKeeps ==
    ASSUME RepoInv, NEW p \in Programs, Clear(p) PROVE RepoInv'
<1> DEFINE q == prog[p]
           Cleared(x) == /\ repo' = <<>> /\ holder' = Nobody
                         /\ prog' = Changed([prog EXCEPT ![p] = [x EXCEPT !.touched = FALSE]], p)
<1>1. /\ q \in ProgramTypes /\ q.pc = "clear" /\ q.index = 0 /\ Verb(p) = "restore"
      /\ setup.reservations = TRUE => \A i \in DOMAIN q.list : Whole(q.list[i])
      /\ faults \in 0..faults /\ TypeOK /\ UNCHANGED <<setup, file, versions>>
  BY Sure DEF Clear, At, InStep
<1>2. ASSUME NEW x \in ProgramTypes, Cleared(x), faults' \in 0..faults, x.list = q.list,
             \/ x.pc = "done" /\ (x.ret = "ok" => q.list = <<>>)
             \/ x.pc = "add" /\ x.index = 0 /\ x.got = <<>> /\ 0 < Len(q.list)
      PROVE  RepoInv'
  <2> DEFINE r == [x EXCEPT !.touched = FALSE]
             f == [prog EXCEPT ![p] = r]
  <2>1. /\ r \in ProgramTypes /\ r.pc = x.pc /\ r.list = q.list /\ r.index = x.index /\ r.ret = x.ret /\ r.got = x.got
    BY <1>2 DEF ProgramTypes
  <2>2. prog \in [Programs -> ProgramTypes] /\ versions \in 0..(Len(setup.repo) + setup.changes)
    BY <1>1 DEF TypeOK
  <2>3. prog' = Changed(f, p) /\ repo' = <<>> /\ holder' = Nobody
    BY <1>2
  <2> HIDE DEF r
  <2>4. f \in [Programs -> ProgramTypes] /\ f[p] = r /\ \A o \in Programs : o # p => f[o] = prog[o]
    BY <2>1, <2>2
  <2>5. repo' \in RepoTypes /\ DOMAIN repo' = {} /\ Len(repo') = 0 /\ Data(repo') = <<>>
    BY <2>3 DEF RepoTypes, Data
  <2>6. InStep(r, Verb(p))
    <3>1. CASE x.pc = "done"
      BY <2>1, <3>1 DEF InStep
    <3>2. CASE x.pc = "add" /\ x.index = 0 /\ x.got = <<>> /\ 0 < Len(q.list)
      <4>1. q.list[1] \in Records /\ Len(q.list[1]) > 0
        <5>1. q.list \in Seq(Records) /\ 1 \in 1..Len(q.list)
          BY <1>1, <3>2 DEF ProgramTypes
        <5>2. q.list[1] \in Records
          BY <5>1, ElementOfSeq
        <5> QED
          BY <5>2 DEF Records
      <4> QED
        BY <1>1, <2>1, <3>2, <4>1 DEF InStep
    <3> QED
      BY <1>2, <3>1, <3>2
  <2>7. Complete(r, repo', Verb(p), faults' = setup.faults) /\ Stored(r, repo', Verb(p), file)
    BY <1>1, <1>2, <2>1, <2>5 DEF Complete, Stored
  <2>8. r.pc # "get" /\ (setup.reservations = TRUE => \A i \in DOMAIN r.list : Whole(r.list[i]))
    BY <1>1, <1>2, <2>1
  <2>9. IdsDiffer(repo') /\ \A i \in DOMAIN repo' : Whole(repo'[i].data)
    BY <2>5 DEF IdsDiffer
  <2> HIDE DEF f
  <2> QED
    BY <1>1, <1>2, <2>2, <2>3, <2>4, <2>5, <2>6, <2>7, <2>8, <2>9, RepoChanges
<1>3. ASSUME Cleared(Add(q)), faults' \in 0..faults PROVE RepoInv'
  <2>1. q.list \in Seq(Records)
    BY <1>1 DEF ProgramTypes
  <2>2. 0 >= Len(q.list) => q.list = <<>>
    BY <2>1
  <2>3. /\ Add(q) \in ProgramTypes /\ Add(q).list = q.list
        /\ \/ Add(q).pc = "done" /\ (Add(q).ret = "ok" => q.list = <<>>)
           \/ Add(q).pc = "add" /\ Add(q).index = 0 /\ Add(q).got = <<>> /\ 0 < Len(q.list)
    BY <1>1, <2>2, AddIs
  <2> HIDE DEF Cleared
  <2> QED
    BY <1>2, <1>3, <2>3
<1>4. ASSUME Cleared(Over(q, "error")), faults' \in 0..faults PROVE RepoInv'
  <2>1. /\ Over(q, "error") \in ProgramTypes /\ Over(q, "error").list = q.list
        /\ Over(q, "error").pc = "done" /\ Over(q, "error").ret = "error"
    BY <1>1, BeingOver
  <2> HIDE DEF Cleared
  <2> QED
    BY <1>2, <1>4, <2>1
<1>5. ASSUME Set(p, Over(q, "error")), UNCHANGED <<repo, holder>>, faults' \in 0..faults PROVE RepoInv'
  BY <1>1, <1>5, GivesUp
<1>6. faults > 0 /\ faults' = faults - 1 => faults' \in 0..faults
  BY <1>1
<1>7. UNCHANGED faults => faults' \in 0..faults
  BY <1>1
<1>8. Attempt(p, Cleared(Add(q)), Cleared(Over(q, "error")), Set(p, Over(q, "error")))
  BY DEF Clear
<1> HIDE DEF Cleared
<1> QED
  BY <1>3, <1>4, <1>5, <1>6, <1>7, <1>8 DEF Attempt

LEMMA AddChunkKeeps ==
    ASSUME RepoInv, NEW p \in Programs, AddChunk(p) PROVE RepoInv'
<1> DEFINE q == prog[p]
           data == q.list[q.index + 1]
           sent == [q EXCEPT !.got = Append(q.got, data[Len(q.got) + 1])]
           whole == Len(sent.got) = Len(data)
           next == [q EXCEPT !.index = q.index + 1]
           Grows(id) == IsFree(id) /\ repo' = Append(repo, [id |-> id, data |-> data])
           Done(answered) ==
               /\ IF whole THEN \E id \in Ids : Grows(id) ELSE repo' = repo
               /\ holder' = IF whole THEN Nobody ELSE holder
               /\ LET f == [prog EXCEPT ![p] = IF ~answered THEN AddFails(q) ELSE IF whole THEN Add(next) ELSE sent]
                  IN prog' = IF whole THEN Changed(f, p) ELSE f
<1>1. /\ q \in ProgramTypes /\ q.pc = "add" /\ InStep(q, Verb(p)) /\ Complete(q, repo, Verb(p), Quiet)
      /\ setup.reservations = TRUE => \A i \in DOMAIN q.list : Whole(q.list[i])
      /\ faults \in 0..setup.faults /\ setup.faults \in Nat /\ TypeOK /\ UNCHANGED <<setup, file, versions>>
      /\ FileIsGood(file)
  BY Sure DEF AddChunk, At
<1>2. /\ q.list \in Seq(Records) /\ q.index \in Nat /\ q.got \in Seq(Versions) /\ Len(q.list) \in Nat
      /\ q.index + 1 \in 1..Len(q.list) /\ Len(q.got) \in Nat /\ Len(q.got) < Len(data) /\ Verb(p) = "restore"
  BY <1>1 DEF ProgramTypes, InStep
<1>3. data \in Records
  BY <1>2, ElementOfSeq
<1>4. data \in Seq(Versions) /\ Len(data) \in Nat
  BY <1>3 DEF Records
<1>5. /\ sent \in ProgramTypes /\ sent.pc = "add" /\ sent.list = q.list /\ sent.index = q.index
      /\ Len(sent.got) = Len(q.got) + 1 /\ sent.saves = q.saves /\ sent.touched = q.touched /\ sent.lossy = q.lossy
  <2> DEFINE a == Append(q.got, data[Len(q.got) + 1])
  <2>1. Len(q.got) + 1 \in 1..Len(data)
    <3> DEFINE m == Len(q.got)
               n == Len(data)
    <3>1. m \in Nat /\ n \in Nat /\ m < n
      BY <1>2, <1>4
    <3> HIDE DEF m, n
    <3>2. m + 1 \in 1..n
      BY <3>1
    <3> QED
      BY <3>2 DEF m, n
  <2>2. data[Len(q.got) + 1] \in Versions
    BY <1>4, <2>1, ElementOfSeq
  <2> HIDE DEF data
  <2>3. a \in Seq(Versions) /\ Len(a) = Len(q.got) + 1
    BY <1>2, <2>2
  <2> HIDE DEF a
  <2> QED
    BY <1>1, <2>3 DEF ProgramTypes, a
<1>6. /\ next \in ProgramTypes /\ next.list = q.list /\ next.index = q.index + 1
      /\ next.saves = q.saves /\ next.touched = q.touched /\ next.lossy = q.lossy
  <2>1. q.index + 1 \in Nat
    BY <1>2
  <2> QED
    BY <1>1, <2>1 DEF ProgramTypes
<1>7. /\ Over(q, "error") \in ProgramTypes /\ Over(q, "error").list = q.list
      /\ Over(q, "error").pc = "done" /\ Over(q, "error").ret = "error"
  BY <1>1, BeingOver
<1>8. AddFails(q) = Over(q, "error")
  BY DEF AddFails
<1>9. faults > 0 /\ faults' = faults - 1 => faults' \in 0..faults /\ faults' # setup.faults
  BY <1>1
<1>10. UNCHANGED faults => faults' \in 0..faults
  BY <1>1
<1>11. Attempt(p, Done(TRUE), Done(FALSE), Set(p, AddFails(q)))
  <2>1. [q EXCEPT !.got = Append(@, data[Len(@) + 1])] = sent
    BY <1>1 DEF ProgramTypes
  <2>2. [q EXCEPT !.index = @ + 1] = next
    BY <1>1 DEF ProgramTypes
  <2> QED
    BY <2>1, <2>2 DEF AddChunk
<1> HIDE DEF sent, next, data
<1>12. faults' \in 0..faults
  BY <1>9, <1>10, <1>11 DEF Attempt
\* The record is complete, and the BMC makes it part of the repository.
<1>13. ASSUME NEW x \in ProgramTypes, NEW id \in Ids, Grows(id), holder' = Nobody,
              prog' = Changed([prog EXCEPT ![p] = x], p), x.list = q.list,
              \/ x.pc = "done" /\ x.ret = "error"
              \/ /\ x.touched = q.touched /\ x.lossy = q.lossy /\ x.saves = q.saves /\ faults' = faults
                 /\ \/ x.pc = "done" /\ x.ret = "ok" /\ q.index + 1 >= Len(q.list)
                    \/ x.pc = "add" /\ x.index = q.index + 1 /\ x.got = <<>> /\ q.index + 1 < Len(q.list)
       PROVE  RepoInv'
  <2> DEFINE f == [prog EXCEPT ![p] = x]
             e == [id |-> id, data |-> data]
             T == [id : Nat \ {First}, data : Records]
  <2>1. repo \in Seq(T) /\ Len(repo) \in Nat /\ DOMAIN repo = 1..Len(repo) /\ IdsDiffer(repo)
    BY <1>1 DEF TypeOK, IdsDiffer
  <2>2. e \in T
    BY <1>3, <2>1 DEF Ids, First
  <2> HIDE DEF T
  <2>3. /\ repo' \in Seq(T) /\ Len(repo') = Len(repo) + 1 /\ repo'[Len(repo) + 1] = e
        /\ \A i \in 1..Len(repo) : repo'[i] = repo[i] /\ DOMAIN repo' = 1..(Len(repo) + 1)
    BY <1>13, <2>1, <2>2
  <2>4. IdsDiffer(repo')
    <3>1. \A i \in 1..Len(repo) : repo'[i].id # repo'[Len(repo) + 1].id
      BY <1>13, <2>1, <2>3 DEF IsFree
    <3>2. \A i, j \in 1..Len(repo) : i # j => repo'[i].id # repo'[j].id
      BY <2>1, <2>3 DEF IdsDiffer
    <3>3. \A i \in DOMAIN repo' : i \in 1..Len(repo) \/ i = Len(repo) + 1
      BY <2>1, <2>3
    <3> QED
      BY <3>1, <3>2, <3>3 DEF IdsDiffer
  <2>5. \A i \in DOMAIN repo' : i \in 1..Len(repo) \/ i = Len(repo) + 1
    BY <2>1, <2>3
  <2>6. setup.reservations = TRUE => \A i \in DOMAIN repo' : Whole(repo'[i].data)
    <3>1. setup.reservations = TRUE => Whole(data) /\ \A i \in DOMAIN repo : Whole(repo[i].data)
      BY <1>1, <1>2 DEF RepoInv, data
    <3> QED
      BY <2>1, <2>3, <2>5, <3>1
  <2>7. prog \in [Programs -> ProgramTypes] /\ versions \in 0..(Len(setup.repo) + setup.changes)
    BY <1>1 DEF TypeOK
  <2>8. f \in [Programs -> ProgramTypes] /\ f[p] = x /\ \A o \in Programs : o # p => f[o] = prog[o]
    BY <2>7
  <2>9. InStep(x, Verb(p))
    <3>1. CASE x.pc = "done"
      BY <3>1 DEF InStep
    <3>2. CASE x.pc = "add" /\ x.index = q.index + 1 /\ x.got = <<>> /\ q.index + 1 < Len(q.list)
      <4>1. q.index + 2 \in 1..Len(q.list)
        BY <1>2, <3>2
      <4>2. q.list[q.index + 2] \in Records
        BY <1>2, <4>1, ElementOfSeq
      <4>3. Len(q.list[q.index + 2]) > 0
        BY <4>2 DEF Records
      <4>4. x.index + 1 = q.index + 2
        BY <1>2, <3>2
      <4> QED
        BY <1>2, <1>13, <3>2, <4>3, <4>4 DEF InStep
    <3> QED
      BY <1>13, <3>1, <3>2
  <2>10. Complete(x, repo', Verb(p), faults' = setup.faults)
    <3>1. CASE x.pc = "done" /\ x.ret = "error"
      BY <3>1 DEF Complete
    <3>2. CASE /\ x.touched = q.touched /\ x.lossy = q.lossy /\ x.saves = q.saves
               /\ \/ x.pc = "done" /\ x.ret = "ok" /\ q.index + 1 >= Len(q.list)
                  \/ x.pc = "add" /\ x.index = q.index + 1 /\ x.got = <<>> /\ q.index + 1 < Len(q.list)
      <4>1. SUFFICES ASSUME q.touched = FALSE, q.lossy = FALSE
                     PROVE  /\ x.pc = "add" => Len(repo') = x.index /\ \A i \in 1..Len(repo') : repo'[i].data = x.list[i]
                            /\ x.pc = "done" => x.list = Data(repo')
        BY <3>2 DEF Complete
      <4>2. Len(repo) = q.index /\ \A i \in 1..Len(repo) : repo[i].data = q.list[i]
        BY <1>1, <1>2, <4>1 DEF Complete
      <4>3. repo'[Len(repo) + 1].data = q.list[Len(repo) + 1]
        BY <2>3, <4>2 DEF data
      <4>4. \A i \in DOMAIN repo' : repo'[i].data = q.list[i]
        BY <2>3, <2>5, <4>2, <4>3
      <4>5. x.pc = "done" => Data(repo') = q.list
        <5>1. SUFFICES ASSUME x.pc = "done" PROVE Data(repo') = q.list
          OBVIOUS
        <5> DEFINE n == Len(q.list)
                   i == q.index
        <5>2. n \in Nat /\ i \in Nat /\ i + 1 <= n /\ i + 1 >= n
          BY <1>2, <3>2, <5>1
        <5> HIDE DEF n, i
        <5>3. n = i + 1
          BY <5>2
        <5>4. Len(q.list) = Len(repo) + 1
          BY <4>2, <5>3 DEF n, i
        <5>5. q.list = [j \in 1..(Len(repo) + 1) |-> q.list[j]]
          BY <1>2, <5>4
        <5>6. Data(repo') = [j \in 1..(Len(repo) + 1) |-> repo'[j].data]
          BY <2>3 DEF Data
        <5> QED
          BY <2>3, <4>4, <5>5, <5>6
      <4> QED
        BY <1>13, <2>3, <3>2, <4>2, <4>4, <4>5
    <3> QED
      BY <1>13, <3>1, <3>2
  <2>11. /\ x.pc # "get" /\ Stored(x, repo', Verb(p), file)
         /\ setup.reservations = TRUE => \A i \in DOMAIN x.list : Whole(x.list[i])
    BY <1>1, <1>2, <1>13 DEF Stored
  <2>12. repo' \in RepoTypes
    BY <2>3 DEF RepoTypes, T
  <2>13. prog' = Changed(f, p)
    BY <1>13
  <2> HIDE DEF f
  <2> QED
    BY <1>1, <1>12, <1>13, <2>4, <2>6, <2>7, <2>8, <2>9, <2>10, <2>11, <2>12, <2>13, RepoChanges
<1>14. ASSUME Done(TRUE), UNCHANGED faults PROVE RepoInv'
  <2>1. CASE whole
    <3>1. PICK id \in Ids : Grows(id)
      BY <1>14, <2>1
    <3>2. prog' = Changed([prog EXCEPT ![p] = Add(next)], p) /\ holder' = Nobody
      BY <1>14, <2>1
    <3>3. /\ Add(next) \in ProgramTypes /\ Add(next).list = q.list
          /\ Add(next).touched = q.touched /\ Add(next).lossy = q.lossy /\ Add(next).saves = q.saves
          /\ \/ Add(next).pc = "done" /\ Add(next).ret = "ok" /\ q.index + 1 >= Len(q.list)
             \/ Add(next).pc = "add" /\ Add(next).index = q.index + 1 /\ Add(next).got = <<>> /\ q.index + 1 < Len(q.list)
      BY <1>6, AddIs
    <3> HIDE DEF Grows
    <3> QED
      BY <1>13, <1>14, <3>1, <3>2, <3>3
  <2>2. CASE ~whole
    <3>1. repo' = repo /\ holder' = holder /\ prog' = [prog EXCEPT ![p] = sent]
      BY <1>14, <2>2
    <3>2. Len(sent.got) < Len(data)
      <4> DEFINE a == Len(sent.got)
                 b == Len(data)
      <4>1. a = Len(q.got) + 1 /\ a # b /\ Len(q.got) < b /\ Len(q.got) \in Nat /\ b \in Nat
        BY <1>2, <1>4, <1>5, <2>2
      <4> HIDE DEF a, b
      <4>2. a < b
        BY <4>1
      <4> QED
        BY <4>2 DEF a, b
    <3>3. InStep(sent, Verb(p))
      BY <1>1, <1>2, <1>5, <3>2 DEF InStep, data
    <3>4. Complete(sent, repo, Verb(p), faults' = setup.faults) /\ Stored(sent, repo, Verb(p), file)
      BY <1>1, <1>5, <1>14 DEF Complete, Quiet, Stored
    <3> QED
      BY <1>1, <1>5, <1>12, <3>1, <3>3, <3>4, ProgramMoves DEF Set
  <2> QED
    BY <2>1, <2>2
<1>15. ASSUME Done(FALSE) PROVE RepoInv'
  <2>1. CASE whole
    <3>1. PICK id \in Ids : Grows(id)
      BY <1>15, <2>1
    <3>2. prog' = Changed([prog EXCEPT ![p] = Over(q, "error")], p) /\ holder' = Nobody
      BY <1>8, <1>15, <2>1
    <3> HIDE DEF Grows
    <3> QED
      BY <1>7, <1>13, <3>1, <3>2
  <2>2. CASE ~whole
    <3>1. repo' = repo /\ holder' = holder /\ Set(p, Over(q, "error"))
      BY <1>8, <1>15, <2>2 DEF Set
    <3> QED
      BY <1>1, <1>12, <3>1, GivesUp
  <2> QED
    BY <2>1, <2>2
<1>16. ASSUME Set(p, AddFails(q)), UNCHANGED <<repo, holder>> PROVE RepoInv'
  BY <1>1, <1>8, <1>12, <1>16, GivesUp
<1> HIDE DEF Done
<1> QED
  BY <1>11, <1>14, <1>15, <1>16 DEF Attempt

\* A change of the repository from outside: the records stay whole, and keep
\* ids of their own.
LEMMA ChangeKeeps ==
    ASSUME RepoInv, Change PROVE RepoInv'
<1> DEFINE T == [id : Nat \ {First}, data : Records]
           v == versions'
<1>1. /\ TypeOK /\ prog \in [Programs -> ProgramTypes] /\ faults' = faults /\ faults \in 0..setup.faults
      /\ setup.faults \in Nat /\ UNCHANGED <<setup, file>> /\ holder' = Nobody /\ prog' = Changed(prog, Nobody)
  BY SetupTypes DEF RepoInv, TypeOK, Change
<1>2. Len(setup.repo) \in Nat /\ setup.changes \in Nat
  BY <1>1, SetupTypes DEF TypeOK
<1>3. v \in 0..(Len(setup.repo) + setup.changes) /\ v \in Versions
  <2> DEFINE n == Len(setup.repo)
             c == setup.changes
  <2>1. n \in Nat /\ c \in Nat /\ versions \in 0..(n + c) /\ versions < n + c /\ v = versions + 1
    BY <1>1, <1>2 DEF Change, TypeOK
  <2> HIDE DEF n, c, v
  <2>2. v \in 0..(n + c)
    BY <2>1
  <2> QED
    BY <2>2 DEF n, c, Versions, Junk
<1>4. repo \in Seq(T) /\ Len(repo) \in Nat /\ DOMAIN repo = 1..Len(repo) /\ IdsDiffer(repo)
  BY <1>1 DEF TypeOK, IdsDiffer
<1>5. \A i \in DOMAIN repo : repo[i] \in T
  BY <1>4, ElementOfSeq
<1>6. setup.reservations = TRUE => \A i \in DOMAIN repo : Whole(repo[i].data)
  BY DEF RepoInv
<1> HIDE DEF v
<1>7. ASSUME repo' \in Seq(T), IdsDiffer(repo'),
             setup.reservations = TRUE => \A i \in DOMAIN repo' : Whole(repo'[i].data)
      PROVE  RepoInv'
  <2>1. repo' \in RepoTypes /\ Nobody \notin Programs /\ faults' \in 0..faults
    BY <1>1, <1>7, SdrAssumption DEF RepoTypes
  <2> QED
    BY <1>1, <1>3, <1>7, <2>1, RepoChanges DEF v
\* A record is changed.
<1>8. ASSUME NEW i \in DOMAIN repo, repo' = [repo EXCEPT ![i].data = [j \in DOMAIN repo[i].data |-> v]]
      PROVE  RepoInv'
  <2> DEFINE d == [j \in DOMAIN repo[i].data |-> v]
             e == [repo[i] EXCEPT !.data = d]
  <2>1. repo[i] \in T /\ repo[i].data \in Records
    BY <1>5 DEF T
  <2>2. d \in Records
    <3>1. repo[i].data \in Seq(Versions) /\ repo[i].data # <<>>
      BY <2>1 DEF Records
    <3>2. DOMAIN repo[i].data = 1..Len(repo[i].data) /\ Len(repo[i].data) \in Nat /\ Len(repo[i].data) # 0
      BY <3>1
    <3>3. d \in Seq(Versions) /\ Len(d) = Len(repo[i].data)
      BY <1>3, <3>2
    <3> QED
      BY <3>2, <3>3 DEF Records
  <2>3. Whole(d)
    BY DEF Whole
  <2> HIDE DEF d
  <2>4. e \in T /\ e.id = repo[i].id /\ e.data = d
    BY <2>1, <2>2
  <2>5. repo' = [repo EXCEPT ![i] = e]
    BY <1>8 DEF d
  <2> HIDE DEF e, T
  <2>6. /\ repo' \in Seq(T) /\ DOMAIN repo' = DOMAIN repo /\ repo'[i] = e
        /\ \A k \in DOMAIN repo : k # i => repo'[k] = repo[k]
    BY <1>4, <2>4, <2>5
  <2>7. \A k \in DOMAIN repo : repo'[k].id = repo[k].id
    BY <2>4, <2>6
  <2>8. IdsDiffer(repo')
    BY <1>4, <2>6, <2>7 DEF IdsDiffer
  <2> QED
    BY <1>6, <1>7, <2>3, <2>4, <2>6, <2>8
\* A record is removed.
<1>9. ASSUME NEW i \in DOMAIN repo, repo' = SubSeq(repo, 1, i - 1) \o SubSeq(repo, i + 1, Len(repo))
      PROVE  RepoInv'
  <2> DEFINE a == SubSeq(repo, 1, i - 1)
             b == SubSeq(repo, i + 1, Len(repo))
             n == Len(repo)
             old(k) == IF k < i THEN k ELSE k + 1
  <2> HIDE DEF T
  <2>1. i \in 1..n /\ n \in Nat
    BY <1>4
  <2>2. a \in Seq(T) /\ Len(a) = i - 1 /\ \A k \in 1..(i - 1) : a[k] = repo[k]
    BY <1>4, <2>1
  <2>3. b \in Seq(T) /\ Len(b) = n - i /\ \A k \in 1..(n - i) : b[k] = repo[i + k]
    BY <1>4, <2>1
  <2>4. repo' = a \o b
    BY <1>9
  <2> HIDE DEF a, b
  <2>5. repo' \in Seq(T) /\ Len(repo') = (i - 1) + (n - i)
    <3>1. a \o b \in Seq(T) /\ Len(a \o b) = Len(a) + Len(b)
      BY <2>2, <2>3, ConcatProperties
    <3> HIDE DEF n
    <3> QED
      BY <2>2, <2>3, <2>4, <3>1
  <2> HIDE DEF n
  <2>6. Len(repo') = n - 1 /\ DOMAIN repo' = 1..(n - 1)
    BY <2>1, <2>5
  <2>7. \A k \in 1..(n - 1) : repo'[k] = IF k < i THEN a[k] ELSE b[k - (i - 1)]
    <3>1. \A k \in 1..(Len(a) + Len(b)) : (a \o b)[k] = IF k <= Len(a) THEN a[k] ELSE b[k - Len(a)]
      BY <2>2, <2>3, ConcatProperties
    <3>2. Len(a) + Len(b) = n - 1 /\ Len(a) = i - 1
      BY <2>1, <2>2, <2>3
    <3> QED
      BY <2>1, <2>4, <3>1, <3>2
  <2>8. \A k \in 1..(n - 1) : old(k) \in DOMAIN repo /\ repo'[k] = repo[old(k)]
    <3>1. SUFFICES ASSUME NEW k \in 1..(n - 1) PROVE old(k) \in 1..n /\ repo'[k] = repo[old(k)]
      BY <1>4 DEF n
    <3>2. CASE k < i
      BY <2>1, <2>2, <2>7, <3>2
    <3>3. CASE ~(k < i)
      <4>1. k - (i - 1) \in 1..(n - i) /\ i + (k - (i - 1)) = k + 1
        BY <2>1, <3>3
      <4>2. b[k - (i - 1)] = repo[i + (k - (i - 1))]
        BY <2>3, <4>1
      <4> QED
        BY <2>1, <2>7, <3>3, <4>1, <4>2
    <3> QED
      BY <3>2, <3>3
  <2>9. \A j, k \in 1..(n - 1) : j # k => old(j) # old(k)
    BY <2>1
  <2> HIDE DEF old
  <2>10. IdsDiffer(repo')
    BY <1>4, <2>6, <2>8, <2>9 DEF IdsDiffer
  <2>11. setup.reservations = TRUE => \A k \in DOMAIN repo' : Whole(repo'[k].data)
    BY <1>6, <2>6, <2>8
  <2> QED
    BY <1>7, <2>5, <2>10, <2>11
\* A record is added.
<1>10. ASSUME NEW id \in Ids, IsFree(id), repo' = Append(repo, [id |-> id, data |-> <<v, v>>])
       PROVE  RepoInv'
  <2> DEFINE e == [id |-> id, data |-> <<v, v>>]
  <2>1. <<v, v>> \in Records
    <3>1. <<v, v>> \in Seq(Versions) /\ Len(<<v, v>>) = 2
      BY <1>3
    <3> QED
      BY <3>1 DEF Records
  <2>2. e \in T /\ Whole(e.data)
    BY <1>4, <2>1 DEF Ids, First, Whole
  <2>3. e.id = id
    OBVIOUS
  <2>4. repo' = Append(repo, e)
    BY <1>10
  <2> HIDE DEF e, T
  <2>5. /\ repo' \in Seq(T) /\ DOMAIN repo' = 1..(Len(repo) + 1) /\ repo'[Len(repo) + 1] = e
        /\ \A k \in 1..Len(repo) : repo'[k] = repo[k]
    BY <1>4, <2>2, <2>4
  <2>6. \A k \in DOMAIN repo' : k \in 1..Len(repo) \/ k = Len(repo) + 1
    BY <1>4, <2>5
  <2>7. \A k \in 1..Len(repo) : repo[k].id # id
    BY <1>4, <1>10 DEF IsFree
  <2>8. IdsDiffer(repo')
    <3>1. \A k \in 1..Len(repo) : repo'[k].id # repo'[Len(repo) + 1].id
      BY <2>3, <2>5, <2>7
    <3>2. \A j, k \in 1..Len(repo) : j # k => repo'[j].id # repo'[k].id
      BY <1>4, <2>5 DEF IdsDiffer
    <3> QED
      BY <2>6, <3>1, <3>2 DEF IdsDiffer
  <2>9. setup.reservations = TRUE => \A k \in DOMAIN repo' : Whole(repo'[k].data)
    BY <1>4, <1>6, <2>2, <2>5, <2>6
  <2> QED
    BY <1>7, <2>5, <2>8, <2>9
<1> QED
  BY <1>8, <1>9, <1>10 DEF Change, v

-----------------------------------------------------------------------------
(* The theorems.                                                           *)

\* At first nobody has anything, and what the BMC and the file have is whole.
LEMMA InitHolds == Init => RepoInv
<1> SUFFICES ASSUME Init PROVE RepoInv
  OBVIOUS
<1> DEFINE q == [pc |-> "begin", reserve |-> TRUE, recid |-> First, next |-> Last, want |-> 0, got |-> <<>>,
                 list |-> <<>>, count |-> 0, index |-> 0, try |-> 0, ret |-> "ok",
                 reserves |-> TRUE, saves |-> FALSE, touched |-> FALSE, lossy |-> FALSE,
                 clobbered |-> FALSE]
<1>1. setup \in Setups /\ repo = setup.repo /\ file = setup.file /\ versions = Len(setup.repo) /\ faults = setup.faults
      /\ holder = Nobody
  BY DEF Init
<1>2. /\ setup.changes \in Nat /\ setup.faults \in Nat /\ Len(setup.repo) \in Nat
      /\ setup.repo \in Seq([id : Nat \ {First}, data : Seq(1..Len(setup.repo)) \ {<<>>}])
  BY <1>1, SetupTypes
<1>3. /\ \A i, j \in DOMAIN repo : i # j => repo[i].id # repo[j].id
      /\ \A i \in DOMAIN repo : Whole(repo[i].data)
      /\ file = NoFile \/ file \in Seq(Seq(1..Len(setup.repo)) \ {<<>>})
      /\ file # NoFile => \A i \in DOMAIN file : Whole(file[i])
  BY <1>1, SdrAssumption
<1>4. Seq(1..Len(setup.repo)) \ {<<>>} \subseteq Records
  <2>1. 1..Len(setup.repo) \subseteq Versions
    <3> DEFINE n == Len(setup.repo)
    <3>1. n \in Nat /\ Versions = 0..(n + setup.changes)
      BY <1>2 DEF Versions, Junk
    <3> HIDE DEF n
    <3>2. 1..n \subseteq Versions
      BY <1>2, <3>1
    <3> QED
      BY <3>2 DEF n
  <2> DEFINE S == 1..Len(setup.repo)
  <2> HIDE DEF S
  <2>2. S \subseteq Versions => Seq(S) \subseteq Seq(Versions)
    OBVIOUS
  <2> QED
    BY <2>1, <2>2 DEF Records, S
<1> DEFINE R == Seq(1..Len(setup.repo)) \ {<<>>}
<1> HIDE DEF R
<1>5. R \subseteq Records => Seq(R) \subseteq Seq(Records)
  OBVIOUS
<1>6. R \subseteq Records => [id : Nat \ {First}, data : R] \subseteq [id : Nat \ {First}, data : Records]
  OBVIOUS
<1> DEFINE T == [id : Nat \ {First}, data : R]
           U == [id : Nat \ {First}, data : Records]
<1>7. repo \in Seq(U)
  <2>1. repo \in Seq(T) /\ T \subseteq U
    BY <1>1, <1>2, <1>4, <1>6 DEF R
  <2> HIDE DEF T, U
  <2> QED
    BY <2>1
<1>8. file = NoFile \/ file \in Seq(Records)
  BY <1>3, <1>4, <1>5 DEF R
<1>9. q \in ProgramTypes
  <2>1. First \in Nat /\ "begin" \in Places /\ 0 \in 0..(MaxTries - 1)
    BY SdrAssumption DEF First, Places
  <2>2. <<>> \in Seq(Versions) /\ <<>> \in Seq(Records)
    OBVIOUS
  <2> QED
    BY <2>1, <2>2 DEF ProgramTypes
<1>10. prog = [p \in Programs |-> q]
  BY DEF Init
<1>11. q.pc = "begin" /\ q.list = <<>> /\ q.index = 0 /\ q.saves = FALSE /\ q.got = <<>>
  OBVIOUS
<1> HIDE DEF q
<1>12. TypeOK
  <2>1. versions \in 0..(Len(setup.repo) + setup.changes) /\ faults \in 0..setup.faults
    BY <1>1, <1>2
  <2>2. prog \in [Programs -> ProgramTypes]
    BY <1>9, <1>10
  <2> QED
    BY <1>1, <1>3, <1>7, <1>8, <2>1, <2>2 DEF TypeOK
<1>13. \A p \in Programs : prog[p] = q
  BY <1>10
<1>14. \A p \in Programs : /\ InStep(prog[p], Verb(p)) /\ Complete(prog[p], repo, Verb(p), Quiet)
                           /\ Stored(prog[p], repo, Verb(p), file)
  BY <1>11, <1>13 DEF InStep, Complete, Stored
<1>15. \A p \in Programs : Untorn(prog[p], repo, holder = p)
  <2>1. \A i \in DOMAIN q.list : Whole(q.list[i])
    BY <1>11
  <2> QED
    BY <1>11, <1>13, <2>1 DEF Untorn
<1> QED
  BY <1>3, <1>12, <1>14, <1>15 DEF RepoInv

LEMMA StutterKeeps ==
    ASSUME RepoInv, UNCHANGED vars PROVE RepoInv'
<1>1. TypeOK'
  BY DEF RepoInv, TypeOK, vars, ProgramTypes, Records, Versions
<1> QED
  BY <1>1 DEF RepoInv, vars, Verb, Quiet

LEMMA StepKeeps ==
    ASSUME RepoInv, [Next]_vars PROVE RepoInv'
<1>1. ASSUME NEW p \in Programs, Step(p) PROVE RepoInv'
  BY <1>1, BeginKeeps, InfoKeeps, ReserveKeeps, ReadChunkKeeps, OpenKeeps, WriteKeeps, RereadKeeps, FailedKeeps, ClearKeeps,
     AddChunkKeeps DEF Step
<1>2. ASSUME NEW p \in Programs, Kill(p) PROVE RepoInv'
  BY <1>2, KillKeeps
<1>3. CASE Change
  BY <1>3, ChangeKeeps
<1>4. CASE UNCHANGED vars
  BY <1>4, StutterKeeps
<1> QED
  BY <1>1, <1>2, <1>3, <1>4 DEF Next

\* The inductive invariant holds, whatever the programs do at once and whoever
\* changes the repository.
THEOREM Invariant == Spec => []RepoInv
<1>1. RepoInv /\ [Next]_vars => RepoInv'
  BY StepKeeps
<1> QED
  BY InitHolds, <1>1, PTL DEF Spec

\* GetSDR, under the reservations of sdr_get_reservation, never puts a record
\* together from two versions of it.
THEOREM RecordsAreNotTorn == Spec => []NoneIsTorn
<1>1. RepoInv => NoneIsTorn
  <2> SUFFICES ASSUME RepoInv PROVE NoneIsTorn
    OBVIOUS
  <2>1. TypeOK /\ setup.reservations \in BOOLEAN
    BY SetupTypes DEF RepoInv, TypeOK
  <2> QED
    BY <2>1 DEF RepoInv, NoneIsTorn, Untorn
<1> QED
  BY Invariant, <1>1, PTL

\* What a dump that returns 0 was to save is in the file, and a restore or a
\* show has dealt with every record (get_sdr_cache, write_sdr_binfile, i_sensor,
\* sdr_clear_repo and sdr_add_record), if nobody else changed the repository or
\* the file, no answer was cut short and the disk did not fail.
THEOREM SuccessMeansAll == Spec => []SuccessIsComplete
<1>1. RepoInv => SuccessIsComplete
  <2> SUFFICES ASSUME RepoInv, NEW p \in Programs, Finished(p)
               PROVE  /\ Makes(p) => file = Data(repo) /\ prog[p].list = file
                      /\ Verb(p) = "restore" \/ (Verb(p) = "show" /\ faults = setup.faults) => prog[p].list = Data(repo)
    BY DEF SuccessIsComplete
  <2>1. prog[p] \in ProgramTypes /\ Complete(prog[p], repo, Verb(p), Quiet) /\ Stored(prog[p], repo, Verb(p), file)
    BY DEF RepoInv, TypeOK
  <2>2. /\ prog[p].saves \in BOOLEAN /\ prog[p].touched \in BOOLEAN /\ prog[p].lossy \in BOOLEAN
        /\ prog[p].clobbered \in BOOLEAN
    BY <2>1 DEF ProgramTypes
  <2>3. prog[p].pc = "done" /\ prog[p].ret = "ok" /\ prog[p].touched = FALSE /\ prog[p].lossy = FALSE
    BY <2>2 DEF Finished, At
  <2>4. ASSUME Makes(p) PROVE file = Data(repo) /\ prog[p].list = file
    <3>1. Verb(p) \in {"dump", "jump"} /\ prog[p].saves = TRUE /\ prog[p].clobbered = FALSE
      BY <2>2, <2>4 DEF Makes
    <3> QED
      BY <2>1, <2>3, <3>1 DEF Complete, Stored
  <2>5. ASSUME Verb(p) = "restore" \/ (Verb(p) = "show" /\ faults = setup.faults)
        PROVE  prog[p].list = Data(repo)
    <3>1. Verb(p) = "restore" \/ (Verb(p) = "show" /\ Quiet)
      BY <2>5 DEF Quiet
    <3> QED
      BY <2>1, <2>3, <3>1 DEF Complete
  <2> QED
    BY <2>4, <2>5
<1> QED
  BY Invariant, <1>1, PTL
=============================================================================
