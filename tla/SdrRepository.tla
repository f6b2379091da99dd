---------------------------- MODULE SdrRepository ----------------------------
(***************************************************************************)
(* The sensor data records (SDRs) of a BMC, as programs of this project read, *)
(* save and restore them (util/isensor.c): "sensor" shows them, "sensor -d"     *)
(* dumps them to a file, "sensor -f" clears the repository and writes a file     *)
(* back, "sensor -j" shows those of a file, which it makes if there is none.       *)
(*                                                                         *)
(* A record is read and written in chunks of 16 bytes, under a reservation     *)
(* that the next one to reserve, and every change of the repository, cancels:    *)
(* the BMC (external) then refuses all but a record's first chunk with 0xC5.       *)
(* Programs run side by side and share nothing but the BMC and the file. A       *)
(* record is the sequence of its chunks, and a chunk is the version of the         *)
(* record that it was read from, or Junk.                                            *)
(***************************************************************************)
EXTENDS Integers, Sequences, FiniteSets

CONSTANTS
    Programs,   \* the programs that run
    Setups,     \* what they do, and the BMC, of an instance
    MaxTries    \* i_sensor: how often a record is read that loses its reservation

Nobody == 0
NoFile == <<<<>>>>
First == 0
Last == -1

\* A chunk of the file that no record was written to, or that is behind its end.
Junk == 0

Whole(data) == \A i, j \in DOMAIN data : data[i] = data[j] \/ Junk \in {data[i], data[j]}

\* The BMC's records, and those of the file, are whole at first.
ASSUME SdrAssumption ==
    /\ MaxTries \in Nat \ {0} /\ Nobody \notin Programs
    /\ \A s \in Setups :
           /\ DOMAIN s = {"verbs", "repo", "file", "reservations", "changes", "faults", "kills"}
           /\ s.verbs \in [Programs -> {"dump", "show", "restore", "jump"}]
           /\ s.changes \in Nat /\ s.faults \in Nat /\ s.reservations \in BOOLEAN /\ s.kills \in BOOLEAN
           /\ s.repo \in Seq([id : Nat \ {First}, data : Seq(1..Len(s.repo)) \ {<<>>}])
           /\ \A i, j \in DOMAIN s.repo : i # j => s.repo[i].id # s.repo[j].id
           /\ \A i \in DOMAIN s.repo : Whole(s.repo[i].data)
           /\ s.file = NoFile \/ s.file \in Seq(Seq(1..Len(s.repo)) \ {<<>>})
           /\ s.file # NoFile => \A i \in DOMAIN s.file : Whole(s.file[i])

VARIABLES
    setup,    \* what is fixed at the start: a member of Setups
    repo,     \* the BMC's records, in order
    holder,   \* the program that holds the reservation
    file,     \* the dump: a sequence of records' data, or NoFile
    prog,     \* the variables of each program
    versions, \* versions of records that there were so far
    faults    \* commands that may still be lost or refused, and failures of the disk

vars == <<setup, repo, holder, file, prog, versions, faults>>

Data(r) == [i \in DOMAIN r |-> r[i].data]
IsAt(id, i) == IF id = First THEN i = 1 ELSE repo[i].id = id
Has(id) == \E i \in DOMAIN repo : IsAt(id, i)
Position(id) == CHOOSE i \in DOMAIN repo : IsAt(id, i)

\* The BMC names a record as it likes.
IsFree(id) == \A i \in DOMAIN repo : repo[i].id # id
Ids == 1..(Len(repo) + 1)

Init ==
    /\ setup \in Setups
    /\ repo = setup.repo /\ file = setup.file /\ holder = Nobody
    /\ prog = [p \in Programs |->
                  [pc |-> "begin", reserve |-> TRUE, recid |-> First, next |-> Last, want |-> 0, got |-> <<>>,
                   list |-> <<>>, count |-> 0, index |-> 0, try |-> 0, ret |-> "ok",
                   reserves |-> TRUE, saves |-> FALSE, touched |-> FALSE, lossy |-> FALSE,
                   clobbered |-> FALSE]]
    /\ versions = Len(setup.repo)
    /\ faults = setup.faults

Verb(p) == setup.verbs[p]
At(p, pc) == prog[p].pc = pc

\* A program is over; what no longer matters to it is forgotten.
Over(q, ret) == [q EXCEPT !.pc = "done", !.ret = ret, !.recid = First, !.next = Last, !.want = 0, !.got = <<>>,
                          !.index = 0, !.count = 0, !.try = 0, !.reserve = FALSE]
Fails(q) == [q EXCEPT !.pc = "failed", !.ret = "error"]
Set(p, q) == prog' = [prog EXCEPT ![p] = q]

\* The repository is changed, by program p or from outside (Nobody).
Changed(f, p) == [x \in Programs |-> IF x = p THEN f[x] ELSE [f[x] EXCEPT !.touched = TRUE]]

-----------------------------------------------------------------------------
(* Reading a record: GetSDR.                                               *)

NextId(id) ==
    LET i == Position(id) IN IF i < Len(repo) THEN repo[i + 1].id ELSE Last

\* The reading of the record recid begins.
Get(q, recid) == [q EXCEPT !.pc = "get", !.recid = recid, !.want = 0, !.got = <<>>]

\* get_sdr_cache: one turn for each record there was at first, and one more; a
\* turn that lost its reservation is taken again.
Cached(p, q, ret) ==
    CASE ret = "lost" -> Get([q EXCEPT !.reserve = TRUE], q.recid)
      [] ret = "error" -> Fails(q)
      [] OTHER ->
           LET r == [q EXCEPT !.list = Append(@, q.got), !.index = @ + 1]
           IN IF q.next \in {Last, q.recid} \/ q.index >= q.count THEN [r EXCEPT !.pc = "write"] ELSE Get(r, q.next)

Onward(q, ret) == IF q.next \in {Last, q.recid} THEN Over(q, ret) ELSE Get([q EXCEPT !.try = 0, !.ret = ret], q.next)

\* Mutant: the tries are not counted.
ShownAtLast(p, q, ret) ==
    CASE ret = "lost" -> Get([q EXCEPT !.reserve = TRUE], q.recid)
      [] ret = "error" /\ q.got = <<>> -> Over(q, "error")
      [] ret = "error" /\ q.got # <<>> -> Onward(q, "error")
      [] OTHER -> Onward([q EXCEPT !.list = Append(@, q.got)], "ok")

\* i_sensor: a record that loses its reservation is tried MaxTries times; one of
\* which only the beginning could be read is left out.
Shown(p, q, ret) ==
    CASE ret = "lost" /\ q.try + 1 < MaxTries -> Get([q EXCEPT !.reserve = TRUE, !.try = @ + 1], q.recid)
      [] ret = "lost" /\ q.try + 1 >= MaxTries -> Over(q, "error")
      [] ret = "error" /\ q.got = <<>> -> Over(q, "error")
      [] ret = "error" /\ q.got # <<>> -> Onward(q, "error")
      [] OTHER -> Onward([q EXCEPT !.list = Append(@, q.got)], "ok")

Returns(p, q, ret) == Set(p, IF q.saves THEN Cached(p, q, ret) ELSE Shown(p, q, ret))

Pending(q) == q.reserve /\ q.reserves

\* sdr_get_reservation, whose failure nobody minds: the old number is used.
Reserve(p) ==
    /\ prog[p].pc \in {"get", "clear", "add"} /\ prog[p].got = <<>> /\ Pending(prog[p])
    /\ \/ holder' = p /\ UNCHANGED faults
       \/ faults > 0 /\ faults' = faults - 1 /\ holder' \in {holder, Nobody}
    /\ Set(p, [prog[p] EXCEPT !.reserve = FALSE])
    /\ UNCHANGED <<setup, repo, file, versions>>

\* An error from a record's third chunk on, of which there is no answer or the
\* BMC says that the length is wrong: the record ends here.
Truncates(p) == Len(prog[p].got) >= 2
BadLength(p) ==
    LET q == prog[p]
    IN IF Truncates(p) THEN Returns(p, [q EXCEPT !.lossy = TRUE], "ok") ELSE Returns(p, q, "error")

\* Mutant: the record is read on under the new reservation.
ReservationLostKeeps(p) ==
    LET q == prog[p]
        k == Len(q.got) + 1
    IN IF Has(q.recid) /\ k <= Len(repo[Position(q.recid)].data)
         THEN Set(p, [q EXCEPT !.reserve = FALSE, !.got = Append(@, repo[Position(q.recid)].data[k]), !.want = k])
         ELSE Returns(p, q, "error")

\* Fewer bytes than were asked for: the record ends here, too.
ShortAnswer(p) == prog[p].got # <<>> /\ Returns(p, [prog[p] EXCEPT !.lossy = TRUE], "ok")

\* 0xC5.
ReservationLost(p) == Returns(p, prog[p], "lost")

\* The next chunk of a record, the first of which tells its length and the
\* record that follows.
Chunk(p) ==
    LET q == prog[p]
        k == Len(q.got) + 1
    IN /\ Has(q.recid) /\ ~(k > 1 /\ setup.reservations /\ holder # p)
       /\ LET data == repo[Position(q.recid)].data
              r == [q EXCEPT !.got = Append(@, data[k]), !.want = IF k = 1 THEN Len(data) ELSE @,
                             !.next = IF k = 1 THEN NextId(q.recid) ELSE @]
          IN IF k > Len(data) THEN BadLength(p)
             ELSE IF Len(r.got) = r.want THEN Returns(p, r, "ok")
             ELSE Set(p, r)

ReadChunk(p) ==
    /\ At(p, "get") /\ ~(Pending(prog[p]) /\ prog[p].got = <<>>)
    /\ \/ Chunk(p) /\ UNCHANGED faults
       \/ /\ prog[p].got # <<>> /\ setup.reservations /\ holder # p
          /\ ReservationLost(p) /\ UNCHANGED faults
       \/ ~Has(prog[p].recid) /\ Returns(p, prog[p], "error") /\ UNCHANGED faults
       \/ /\ faults > 0 /\ faults' = faults - 1
          /\ BadLength(p) \/ ShortAnswer(p) \/ Returns(p, prog[p], "error")
    /\ UNCHANGED <<setup, repo, holder, file, versions>>

-----------------------------------------------------------------------------
(* The programs.                                                           *)

\* What a program does first.
Begin(p) ==
    /\ At(p, "begin")
    /\ LET q == prog[p]
       IN \/ Verb(p) \in {"dump", "show"} /\ Set(p, [q EXCEPT !.pc = "info", !.saves = Verb(p) = "dump"])
          \/ Verb(p) = "restore" /\ file = NoFile /\ Set(p, Over(q, "error"))
          \/ Verb(p) = "restore" /\ file \notin {NoFile, <<>>} /\ Set(p, [q EXCEPT !.pc = "clear", !.list = file])
          \* errno, after a read of nothing, may be 0 as well
          \/ Verb(p) = "restore" /\ file = <<>> /\ (Set(p, Over(q, "error")) \/ Set(p, [q EXCEPT !.pc = "clear"]))
          \/ Verb(p) = "jump" /\ file \notin {NoFile, <<>>} /\ Set(p, Over([q EXCEPT !.list = file, !.lossy = TRUE], "ok"))
          \/ Verb(p) = "jump" /\ file = <<>> /\ Set(p, Over([q EXCEPT !.lossy = TRUE], "ok"))
          \/ Verb(p) = "jump" /\ file \in {NoFile, <<>>} /\ Set(p, [q EXCEPT !.pc = "info", !.saves = TRUE])
    /\ UNCHANGED <<setup, repo, holder, file, versions, faults>>

\* GetSDRRepositoryInfo: the number of records, and whether the BMC reserves.
\* A show goes on without it; an empty repository is nothing to show, but an
\* error to get_sdr_cache, which then asks for device SDRs that are not there.
Info(p) ==
    /\ At(p, "info")
    /\ LET q == prog[p]
           known == [q EXCEPT !.count = Len(repo), !.reserves = setup.reservations, !.touched = FALSE]
       IN \/ repo # <<>> /\ Set(p, Get(known, First)) /\ UNCHANGED faults
          \/ repo = <<>> /\ UNCHANGED faults /\ Set(p, IF q.saves THEN Fails(known) ELSE Over(known, "ok"))
          \/ /\ faults > 0 /\ faults' = faults - 1
             /\ Set(p, IF q.saves THEN Fails(q) ELSE Get([q EXCEPT !.touched = FALSE], First))
    /\ UNCHANGED <<setup, repo, holder, file, versions>>

\* The file is changed under the others.
Clobbers(p, q) == prog' = [x \in Programs |-> IF x = p THEN q ELSE [prog[x] EXCEPT !.clobbered = TRUE]]

\* Mutant: the file is opened for update, and is not emptied.
OpenForUpdate(p) ==
    /\ At(p, "write")
    /\ \/ /\ file' = IF file = NoFile THEN <<>> ELSE file
          /\ Clobbers(p, [prog[p] EXCEPT !.pc = "writing", !.clobbered = FALSE]) /\ UNCHANGED faults
       \/ faults > 0 /\ faults' = faults - 1 /\ Set(p, Fails(prog[p])) /\ UNCHANGED file
    /\ UNCHANGED <<setup, repo, holder, versions>>

\* write_sdr_binfile opens the file for its cache, which empties it, or cannot.
Open(p) ==
    /\ At(p, "write")
    /\ \/ /\ file' = <<>> /\ UNCHANGED faults
          /\ Clobbers(p, [prog[p] EXCEPT !.pc = "writing", !.clobbered = FALSE])
       \/ faults > 0 /\ faults' = faults - 1 /\ Set(p, Fails(prog[p])) /\ UNCHANGED file
    /\ UNCHANGED <<setup, repo, holder, versions>>

Room(f) == Cardinality(UNION {{i} \X DOMAIN f[i] : i \in DOMAIN f})

\* What is behind it stays, and is records if one of them begins there.
Laid(stored, old) ==
    LET left == {k \in 0..Len(old) : Room(SubSeq(old, 1, k)) = Room(stored)}
    IN stored \o CASE Room(stored) >= Room(old) -> <<>>
                   [] Room(stored) < Room(old) /\ left = {} -> <<<<Junk>>>>
                   [] OTHER -> SubSeq(old, (CHOOSE k \in left : TRUE) + 1, Len(old))

\* The beginning of a list: n records, and k chunks of the next one.
Part(list, n, k) ==
    SubSeq(list, 1, n) \o
    IF k = 0 THEN <<>> ELSE <<[i \in DOMAIN list[n + 1] |-> IF i <= k THEN list[n + 1][i] ELSE Junk]>>

\* A dump is over, and a jumpstart reads what it has written.
Saved(p, q) == IF Verb(p) = "jump" THEN [q EXCEPT !.pc = "reread"] ELSE Over(q, "ok")

\* fwrite and fclose, of which only the first can fail, when it stores nothing:
\* a part of the cache, or a buffer that is lost at the end, is success.
Write(p) ==
    /\ At(p, "writing")
    /\ LET q == prog[p]
       IN \/ file' = Laid(q.list, file) /\ Clobbers(p, Saved(p, q)) /\ UNCHANGED faults
          \/ /\ faults > 0 /\ faults' = faults - 1
             /\ \/ \E n \in 0..(Len(q.list) - 1) : \E k \in 0..(Len(q.list[n + 1]) - 1) :
                       /\ file' = Laid(Part(q.list, n, k), file)
                       /\ Clobbers(p, Saved(p, [q EXCEPT !.lossy = TRUE]))
                \/ Set(p, Fails(q)) /\ UNCHANGED file
    /\ UNCHANGED <<setup, repo, holder, versions>>

\* A jumpstart shows as many records as the BMC had, of the file and of what is
\* in memory behind it; errno, after a read of nothing, may be 0 or not.
Reread(p) ==
    /\ At(p, "reread")
    /\ LET q == prog[p]
           found == IF Len(file) > q.count THEN SubSeq(file, 1, q.count) ELSE file
       IN \/ \E n \in 0..(q.count - Len(found)) :
                 Set(p, Over([q EXCEPT !.list = found \o [i \in 1..n |-> <<Junk>>]], "ok"))
          \/ file = <<>> /\ Set(p, Fails(q))
    /\ UNCHANGED <<setup, repo, holder, file, versions, faults>>

\* A dump without its records is over; a jumpstart goes on without a file.
Failed(p) ==
    /\ At(p, "failed")
    /\ Set(p, IF Verb(p) = "jump"
              THEN [prog[p] EXCEPT !.pc = "info", !.saves = FALSE, !.list = <<>>, !.try = 0, !.ret = "ok", !.lossy = FALSE]
              ELSE Over(prog[p], "error"))
    /\ UNCHANGED <<setup, repo, holder, file, versions, faults>>

\* A command that changes the repository is done and answered, or refused for
\* want of the reservation or for another reason, or it or its answer is lost.
Attempt(p, done, unheard, fails) ==
    \/ (holder = p \/ ~setup.reservations) /\ done /\ UNCHANGED faults
    \/ holder # p /\ setup.reservations /\ fails /\ UNCHANGED <<repo, holder, faults>>
    \/ /\ faults > 0 /\ faults' = faults - 1
       /\ \/ fails /\ UNCHANGED <<repo, holder>>
          \/ (holder = p \/ ~setup.reservations) /\ unheard

\* The next record of the file: set_reserve(1).
Add(q) == IF q.list = <<>> \/ q.index >= Len(q.list) THEN Over(q, "ok") ELSE [q EXCEPT !.pc = "add", !.reserve = TRUE, !.got = <<>>]

\* sdr_clear_repo; an answer, also that the erasure is still in progress, is
\* taken for its end after a second.
Clear(p) ==
    /\ At(p, "clear") /\ ~Pending(prog[p])
    /\ LET after(q) == prog' = Changed([prog EXCEPT ![p] = [q EXCEPT !.touched = FALSE]], p)
           cleared(q) == repo' = <<>> /\ holder' = Nobody /\ after(q)
       IN Attempt(p, cleared(Add(prog[p])), cleared(Over(prog[p], "error")), Set(p, Over(prog[p], "error")))
    /\ UNCHANGED <<setup, file, versions>>

AddFails(q) == Over(q, "error")

\* sdr_add_record: the next chunk of the record; the last one makes it part of
\* the repository. There are no second tries.
AddChunk(p) ==
    /\ At(p, "add") /\ ~(Pending(prog[p]) /\ prog[p].got = <<>>)
    /\ LET q == prog[p]
           data == q.list[q.index + 1]
           sent == [q EXCEPT !.got = Append(@, data[Len(@) + 1])]
           whole == Len(sent.got) = Len(data)
           done(answered) ==
               /\ IF whole
                  THEN \E id \in Ids : IsFree(id) /\ repo' = Append(repo, [id |-> id, data |-> data])
                  ELSE repo' = repo
               /\ holder' = IF whole THEN Nobody ELSE holder
               /\ LET f == [prog EXCEPT ![p] = IF ~answered THEN AddFails(q)
                                              ELSE IF whole THEN Add([q EXCEPT !.index = @ + 1]) ELSE sent]
                  IN prog' = IF whole THEN Changed(f, p) ELSE f
       IN Attempt(p, done(TRUE), done(FALSE), Set(p, AddFails(q)))
    /\ UNCHANGED <<setup, file, versions>>

\* A program is killed.
Kill(p) ==
    /\ prog[p].pc \in {"writing", "add"} /\ setup.kills
    /\ Set(p, [Over(prog[p], "error") EXCEPT !.list = <<>>])
    /\ UNCHANGED <<setup, repo, holder, file, versions, faults>>

\* The BMC, or somebody else, changes, removes or adds a record.
Change ==
    /\ versions < Len(setup.repo) + setup.changes /\ versions' = versions + 1 /\ holder' = Nobody
    /\ \/ \E i \in DOMAIN repo : repo' = [repo EXCEPT ![i].data = [j \in DOMAIN repo[i].data |-> versions']]
       \/ \E i \in DOMAIN repo : repo' = SubSeq(repo, 1, i - 1) \o SubSeq(repo, i + 1, Len(repo))
       \/ \E id \in Ids : IsFree(id) /\ repo' = Append(repo, [id |-> id, data |-> <<versions', versions'>>])
    /\ prog' = Changed(prog, Nobody)
    /\ UNCHANGED <<setup, file, faults>>

Step(p) ==
    \/ Begin(p) \/ Info(p) \/ Reserve(p) \/ ReadChunk(p) \/ Open(p) \/ Write(p) \/ Reread(p) \/ Failed(p)
    \/ Clear(p) \/ AddChunk(p)

Next ==
    \/ \E p \in Programs : Step(p) \/ Kill(p)
    \/ Change

Spec == Init /\ [][Next]_vars /\ \A p \in Programs : WF_vars(Step(p))

-----------------------------------------------------------------------------
(* Properties.                                                             *)

Versions == Junk..(Len(setup.repo) + setup.changes)
Records == Seq(Versions) \ {<<>>}
Places == {"begin", "info", "get", "write", "writing", "reread", "failed", "clear", "add", "done"}

ProgramTypes ==
    [pc : Places, recid : Nat, next : Nat \cup {Last}, want : Nat, got : Seq(Versions), list : Seq(Records),
     count : Nat, index : Nat, try : 0..(MaxTries - 1), ret : {"ok", "error"},
     reserve : BOOLEAN, reserves : BOOLEAN, saves : BOOLEAN, touched : BOOLEAN, lossy : BOOLEAN,
     clobbered : BOOLEAN]

\* The types of the variables; records have different ids, and none is empty.
TypeOK ==
    /\ setup \in Setups /\ holder \in Programs \cup {Nobody}
    /\ repo \in Seq([id : Nat \ {First}, data : Records])
    /\ \A i, j \in DOMAIN repo : i # j => repo[i].id # repo[j].id
    /\ file = NoFile \/ file \in Seq(Records)
    /\ prog \in [Programs -> ProgramTypes]
    /\ versions \in 0..(Len(setup.repo) + setup.changes) /\ faults \in 0..setup.faults

\* No record that a program shows, saves or writes back is put together from
\* two versions of it, whoever changes and reserves the repository in between
\* (GetSDR under sdr_get_reservation); of BMCs that know reservations. What a
\* record lacks because the file was cut is no version of it. (And the variables
\* have their types.)
NoneIsTorn ==
    /\ TypeOK
    /\ setup.reservations =>
        /\ \A p \in Programs : \A i \in DOMAIN prog[p].list : Whole(prog[p].list[i])
        /\ \A i \in DOMAIN repo : Whole(repo[i].data)
        /\ file # NoFile => \A i \in DOMAIN file : Whole(file[i])

Finished(p) == At(p, "done") /\ prog[p].ret = "ok" /\ ~prog[p].touched /\ ~prog[p].lossy
Makes(p) == Verb(p) \in {"dump", "jump"} /\ prog[p].saves /\ ~prog[p].clobbered

\* A program that returns 0 has dealt with all records, if nobody else changed
\* them meanwhile: what a dump, or the jumpstart that made the file, has saved
\* are in the file, and a jumpstart has shown them, unless an answer was cut
\* short, the disk failed or another program wrote to the file (get_sdr_cache,
\* write_sdr_binfile, read_sdr_binfile); a show has shown them (i_sensor), unless
\* one of its commands failed; and a restore has made the repository what the
\* file was (sdr_clear_repo, sdr_add_record).
SuccessIsComplete ==
    \A p \in Programs : Finished(p) =>
        /\ Makes(p) => file = Data(repo) /\ prog[p].list = file
        /\ Verb(p) = "restore" \/ (Verb(p) = "show" /\ faults = setup.faults) => prog[p].list = Data(repo)

\* Programs that take the reservation from each other all end, also when the
\* repository is changed and cleared under them: all but two that dump, each of
\* which may cancel the other's reservation for ever.
Ends ==
    Cardinality({p \in Programs : Verb(p) \in {"dump", "jump"}}) < 2
        => <>(\A p \in Programs : At(p, "done"))
=============================================================================
