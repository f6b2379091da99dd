---------------------------- MODULE SelFollow_proofs ----------------------------
(***************************************************************************)
(* Proofs about the event log's readers (SelFollow).  The daemon shows       *)
(* events in order and passes none over, the cron job writes each once and   *)
(* clears none that it has not copied, whatever happens to the log, to them  *)
(* and to their commands.                                                   *)
(*                                                                         *)
(* Both remember a record by its id, and ids are used again when the log is  *)
(* cleared.  For the daemon the argument goes by Ahead(id, ev), which says    *)
(* what a reader may rely on that stands at id and has dealt with the event  *)
(* ev: the records after id are newer than ev, and if the log has become too *)
(* short for the id, all of it is.  Every position that the daemon has or     *)
(* saves is ahead of what it showed, or it owes a rewind to a death, to a    *)
(* start that failed or to a wait that ended on a filtered event.  For the   *)
(* cron job, which goes by time as well, Stands and Follows say the same.    *)
(***************************************************************************)
EXTENDS SelFollow, FiniteSetTheorems, TLAPS

-----------------------------------------------------------------------------
(* The inductive invariant.                                                *)

\* The log: ids are places, and later records are newer events.
LogInOrder ==
    /\ setup \in Setups
    /\ made \in 0..setup.events /\ clock \in 0..made
    /\ log \in Seq(Record) /\ Len(log) <= made /\ Len(log) <= Capacity
    /\ \A i \in DOMAIN log : log[i].id = i /\ log[i].ev <= made
    /\ \A i, j \in DOMAIN log : i < j => log[i].ev < log[j].ev
    /\ log # <<>> => log[1].ev \in firsts

\* The records after id, now and later, are newer than ev; all of them are if
\* the log has become too short for id.
Ahead(id, ev) ==
    /\ ev <= made
    /\ \A i \in DOMAIN log : (i > id \/ Len(log) < id) => log[i].ev > ev

Working == at \notin {"off", "cleanup", "final"}
InHand == at \in {"filter", "show"}

\* Where the daemon is and what it has in hand.
Positions ==
    /\ rewound \in Nat /\ stale \in Nat
    /\ sel_recid <= Capacity /\ idxfile <= Capacity
    /\ at = "new" => nextid = (IF sel_recid = 0 THEN 2 ELSE sel_recid + 1) /\ nextid <= Capacity
    /\ Ahead(sel_recid, handled)
    /\ idxfile >= 0 => Ahead(idxfile, saved)
    /\ saved <= made /\ event <= made
    /\ Working => Ahead(sel_recid, event)
    /\ InHand => rdata.ev = handled /\ handled > 0
    /\ InHand => \A i \in DOMAIN log : log[i].ev = handled => log[i].kind = rdata.kind
    /\ at = "show" => event = handled \/ rdata.kind \notin setup.filter

LastShown == IF shown = <<>> THEN 0 ELSE shown[Len(shown)]

\* The next event to be shown will be newer than the last one.
Orderly ==
    /\ at = "off" /\ idxfile # NoFile => Ahead(IF idxfile = Empty THEN 0 ELSE idxfile, LastShown)
    /\ at = "filter" => handled > LastShown
    /\ at = "show" => event > LastShown
    /\ at \notin {"off", "filter", "show"} => Ahead(sel_recid, LastShown)

\* Rewinds are paid for; one that is still to come is, too.
Accounted ==
    /\ LastShown <= made
    /\ Rewinds(shown) <= kills + rewound + stale
    /\ ~Orderly => Rewinds(shown) < kills + rewound + stale

\* What a position leaves behind, if its id still names the event ev, is dealt
\* with, but for the event in hand.
Behind(id, ev, hand) ==
    id \in DOMAIN log /\ log[id].ev = ev =>
        \A i \in 1..id : Dealt(log[i]) \/ log[i].ev = hand

NonePassed ==
    /\ at # "off" => Behind(sel_recid, handled, IF InHand THEN handled ELSE 0)
    /\ Behind(idxfile, saved, 0)

Inv == LogInOrder /\ TypeOK /\ Positions /\ Accounted /\ NonePassed

-----------------------------------------------------------------------------
(* The log.                                                                *)

LogStays == UNCHANGED <<setup, log, made, clock, firsts>>

\* What a step does to the log.
LEMMA StepOnLog ==
    ASSUME Next
    PROVE  \/ Add /\ UNCHANGED <<getevt, isel>>
           \/ ClearSel /\ UNCHANGED getevt
           \/ IselNext /\ LogStays /\ UNCHANGED getevt
           \/ GetEvtNext /\ LogStays /\ UNCHANGED isel
<1>1. CASE Add /\ UNCHANGED <<getevt, isel>>
  BY <1>1
<1>2. CASE GetEvtNext /\ UNCHANGED isel
  <2>1. LogStays
    BY <1>2 DEF LogStays, GetEvtNext, Start, StartFails, Signal, Kill, PollFails, Follow, Wake, NothingNew,
         SeesNext, Absent, ReadNew, Vanished, Matches, FilteredOut, Show, Truncate, Save, sel, CommandFails
  <2> QED BY <1>2, <2>1
<1>3. CASE IselNext /\ UNCHANGED getevt
  <2>1. CASE ClearSel
    BY <1>3, <2>1
  <2>2. CASE ~ClearSel
    <3>1. LogStays
      BY <1>3, <2>2 DEF LogStays, IselNext, Write, Copy, ReadEntry, EndOfLog, ReadFails, Stop, StopWriting,
           UserClears, ReserveSel, ClearFails, Forget, Cut, sel, CommandFails, Reserve
    <3> QED BY <1>3, <3>1
  <2> QED BY <2>1, <2>2
<1> QED BY <1>1, <1>2, <1>3 DEF Next

\* The greatest number of records, and the id behind it that means the last.
LEMMA Ids ==
    /\ Capacity \in Nat /\ LAST_REC \in Nat /\ 0 <= Capacity /\ Capacity < LAST_REC
    /\ LAST_REC \notin 0..Capacity
  BY DEF Capacity, LAST_REC

\* Options have their types.
LEMMA Options ==
    ASSUME LogInOrder
    PROVE  /\ setup.events \in 0..MaxEvents /\ setup.events \in Nat /\ made \in Nat /\ made <= MaxEvents
           /\ setup.kinds \subseteq Kinds /\ setup.filter \subseteq Kinds
           /\ setup.starts \in Nat /\ setup.kills \in Nat /\ setup.timeout \in Nat
           /\ setup.runs \in Nat /\ setup.clears \in Nat /\ setup.breaks \in Nat
           /\ Len(log) \in Nat /\ DOMAIN log = 1..Len(log)
           /\ \A i \in DOMAIN log : log[i] \in Record
  <1>1. setup \in [timeout : Nat, filter : SUBSET Kinds, starts : Nat, kills : Nat,
                   runs : Nat, breaks : Nat, clears : Nat, errors : Nat, events : 0..MaxEvents,
                   kinds : SUBSET Kinds, seconds : Nat]
    BY SelAssumption DEF LogInOrder, SelAssumption
  <1>2. made \in 0..setup.events /\ log \in Seq(Record)
    BY DEF LogInOrder
  <1> QED BY <1>1, <1>2, SelAssumption DEF SelAssumption

LEMMA Fields ==
    ASSUME NEW rec \in Record
    PROVE  rec.id \in 1..MaxEvents /\ rec.ev \in 1..MaxEvents /\ rec.kind \in Kinds /\ rec.timestamp \in 0..MaxEvents
  BY DEF Record

LEMMA LogAtFirst == Init => LogInOrder
<1> SUFFICES ASSUME Init PROVE LogInOrder
  OBVIOUS
<1>1. setup \in Setups /\ setup.events \in 0..MaxEvents /\ "sensor" \in Kinds /\ MaxEvents \in Nat
  BY SelAssumption DEF SelAssumption, Init, SelInit
<1>2. /\ made \in 0..(setup.events - 1) /\ made <= Capacity
      /\ log = [i \in 1..made |-> [id |-> i, ev |-> i, kind |-> "sensor", timestamp |-> 0]]
      /\ clock = 0 /\ firsts = IF made > 0 THEN {1} ELSE {}
  BY DEF Init, SelInit
<1>3. \A i \in 1..made : log[i] \in Record /\ log[i].id = i /\ log[i].ev = i
  BY <1>1, <1>2 DEF Record
<1>4. log \in Seq(Record) /\ Len(log) = made /\ DOMAIN log = 1..made
  BY <1>1, <1>2, <1>3
<1>5. log # <<>> => log[1].ev \in firsts
  BY <1>1, <1>2, <1>3, <1>4
<1> QED BY <1>1, <1>2, <1>3, <1>4, <1>5 DEF LogInOrder

\* The record that an event adds.
LEMMA Added ==
    ASSUME LogInOrder, Add
    PROVE  /\ made' = made + 1 /\ made' \in 0..setup.events /\ setup' = setup
           /\ log' \in Seq(Record) /\ Len(log') = Len(log) + 1
           /\ \A i \in DOMAIN log : log'[i] = log[i]
           /\ log'[Len(log) + 1].ev = made + 1 /\ log'[Len(log) + 1].id = Len(log) + 1
           /\ firsts \subseteq firsts' /\ LogInOrder'
<1>1. PICK k \in setup.kinds :
          log' = Append(log, [id |-> Len(log) + 1, ev |-> made + 1, kind |-> k, timestamp |-> clock'])
  BY DEF Add
<1>2. made' = made + 1 /\ made' \in 0..setup.events /\ setup' = setup /\ clock' \in 0..made'
  BY Options DEF Add, LogInOrder
<1> DEFINE new == [id |-> Len(log) + 1, ev |-> made + 1, kind |-> k, timestamp |-> clock']
<1>3. new \in Record /\ new.ev = made + 1 /\ new.id = Len(log) + 1
  <2>1. made + 1 \in 1..MaxEvents /\ Len(log) + 1 \in 1..MaxEvents /\ clock' \in 0..MaxEvents
    <3>1. Len(log) <= made
      BY DEF LogInOrder
    <3>2. made + 1 <= setup.events /\ clock' \in 0..(made + 1)
      BY <1>2, Options
    <3> QED BY <3>1, <3>2, Options, SelAssumption DEF SelAssumption
  <2>2. k \in Kinds
    BY Options
  <2> QED BY <2>1, <2>2 DEF Record
<1>4. log \in Seq(Record)
  BY DEF LogInOrder
<1> HIDE DEF new
<1>5. /\ log' \in Seq(Record) /\ Len(log') = Len(log) + 1 /\ \A i \in DOMAIN log : log'[i] = log[i]
      /\ log'[Len(log) + 1] = new
  BY <1>1, <1>3, <1>4 DEF new
<1>6. firsts \subseteq firsts' /\ (log = <<>> => made + 1 \in firsts')
  BY DEF Add
<1>7. Len(log') <= Capacity /\ Len(log') <= made'
  BY <1>2, <1>5, Options DEF Add, LogInOrder, Capacity, LAST_REC
<1>8. \A i \in DOMAIN log' : i \in DOMAIN log \/ i = Len(log) + 1
  BY <1>5, Options
<1>9. \A i \in DOMAIN log' : log'[i].id = i /\ log'[i].ev <= made'
  <2> SUFFICES ASSUME NEW i \in DOMAIN log' PROVE log'[i].id = i /\ log'[i].ev <= made'
    OBVIOUS
  <2>1. CASE i \in DOMAIN log
    <3>1. log'[i] = log[i] /\ log[i].id = i /\ log[i].ev <= made /\ log[i].ev \in Nat
      BY <2>1, <1>5, Options, Fields DEF LogInOrder
    <3> QED BY <3>1, <1>2, Options
  <2>2. CASE i = Len(log) + 1
    BY <2>2, <1>2, <1>3, <1>5, Options
  <2> QED BY <1>8, <2>1, <2>2
<1>10. \A i, j \in DOMAIN log' : i < j => log'[i].ev < log'[j].ev
  <2> SUFFICES ASSUME NEW i \in DOMAIN log', NEW j \in DOMAIN log', i < j
               PROVE  log'[i].ev < log'[j].ev
    OBVIOUS
  <2>1. i \in DOMAIN log
    BY <1>5, Options
  <2>2. CASE j \in DOMAIN log
    BY <2>1, <2>2, <1>5 DEF LogInOrder
  <2>3. CASE j = Len(log) + 1
    <3>1. log[i].ev \in Nat /\ log[i].ev <= made /\ log'[i] = log[i] /\ log'[j].ev = made + 1
      BY <2>1, <2>3, <1>3, <1>5, Options, Fields DEF LogInOrder
    <3> QED BY <3>1, Options
  <2> QED BY <1>8, <2>2, <2>3
<1>11. log' # <<>> => log'[1].ev \in firsts'
  <2>1. CASE log = <<>>
    BY <2>1, <1>3, <1>5, <1>6
  <2>2. CASE log # <<>>
    BY <2>2, <1>5, <1>6, Options DEF LogInOrder
  <2> QED BY <2>1, <2>2
<1>12. setup' \in Setups
  BY <1>2 DEF LogInOrder
<1>13. LogInOrder'
  BY <1>2, <1>5, <1>7, <1>9, <1>10, <1>11, <1>12 DEF LogInOrder
<1> QED BY <1>2, <1>3, <1>5, <1>6, <1>13

\* A step keeps the log in order.
LEMMA LogStep ==
    ASSUME LogInOrder, [Next]_vars
    PROVE  LogInOrder'
<1>1. CASE Add
  BY <1>1, Added
<1>2. CASE ClearSel
  <2>1. log' = <<>> /\ UNCHANGED <<setup, made, clock, firsts>>
    BY <1>2 DEF ClearSel, Clear
  <2>2. log' \in Seq(Record) /\ Len(log') = 0 /\ DOMAIN log' = {}
    BY <2>1
  <2>3. 0 <= made' /\ 0 <= Capacity
    BY <2>1, Options, Ids
  <2> QED BY <2>1, <2>2, <2>3 DEF LogInOrder
<1>3. CASE LogStays
  BY <1>3 DEF LogStays, LogInOrder
<1>4. CASE UNCHANGED vars
  BY <1>4 DEF vars, sel, LogInOrder
<1> QED BY <1>1, <1>2, <1>3, <1>4, StepOnLog

-----------------------------------------------------------------------------
(* Types.                                                                  *)

\* A record that is there, and the next.
LEMMA InLog ==
    ASSUME LogInOrder, NEW r, Present(r)
    PROVE  /\ Position(r) \in DOMAIN log /\ Position(r) \in 1..Len(log) /\ Found(r) = log[Position(r)]
           /\ Found(r) \in Record /\ Found(r).ev \in 1..made /\ Found(r).id = Position(r)
           /\ Position(r) \in 1..MaxEvents /\ Position(r) <= Capacity
           /\ Following(r) \in (1..MaxEvents) \cup {LAST_REC}
           /\ ~IsLast(r) => Following(r) = Position(r) + 1 /\ Following(r) <= Len(log)
<1>1. /\ Position(r) \in DOMAIN log /\ Position(r) \in 1..Len(log) /\ Found(r) = log[Position(r)]
      /\ Found(r) \in Record
  BY Options DEF Present, Found
<1>2. Found(r).ev <= made /\ Found(r).id = Position(r)
  BY <1>1 DEF LogInOrder
<1>3. Found(r).ev \in 1..made
  BY <1>1, <1>2, Fields, Options
<1>4. Len(log) <= made /\ Len(log) <= Capacity
  BY DEF LogInOrder
<1>5. Position(r) \in 1..MaxEvents /\ Position(r) <= Capacity
  BY <1>1, <1>4, Options, SelAssumption DEF SelAssumption, Capacity, LAST_REC
<1>6. CASE Position(r) = Len(log)
  BY <1>6, <1>1, <1>2, <1>3, <1>5 DEF Following, NextId, IsLast
<1>7. CASE Position(r) # Len(log)
  <2>1. Following(r) = Position(r) + 1 /\ Following(r) <= Len(log)
    BY <1>7, <1>1, Options DEF Following, NextId
  <2>2. Following(r) \in 1..MaxEvents
    BY <2>1, <1>1, <1>4, Options, SelAssumption DEF SelAssumption
  <2> QED BY <2>1, <2>2, <1>1, <1>2, <1>3, <1>5
<1> QED BY <1>6, <1>7

LEMMA SetupStays ==
    ASSUME [Next]_vars
    PROVE  setup' = setup
<1>1. CASE Add
  BY <1>1 DEF Add
<1>2. CASE ClearSel
  BY <1>2 DEF ClearSel, Clear
<1>3. CASE LogStays
  BY <1>3 DEF LogStays
<1>4. CASE UNCHANGED vars
  BY <1>4 DEF vars, sel
<1> QED BY <1>1, <1>2, <1>3, <1>4, StepOnLog

\* The second command of a poll is for the record after the one handled last.
LEMMA NextIs ==
    ASSUME LogInOrder, GetEvtTypeOK, Positions, at = "new", Present(nextid)
    PROVE  /\ nextid \in DOMAIN log /\ nextid > sel_recid /\ Position(nextid) = nextid
           /\ sel_recid = 0 => nextid = 2
           /\ sel_recid # 0 => nextid = sel_recid + 1 /\ Present(sel_recid) /\ Position(sel_recid) = sel_recid
<1>1. sel_recid \in Nat /\ nextid \in Nat
  BY SelAssumption DEF GetEvtTypeOK, SelAssumption
<1>2. nextid = (IF sel_recid = 0 THEN 2 ELSE sel_recid + 1) /\ nextid <= Capacity /\ sel_recid <= Capacity
  BY DEF Positions
<1>3. Position(nextid) = nextid
  BY <1>1, <1>2 DEF Position, First, LAST_REC, Capacity
<1>4. nextid \in 1..Len(log)
  BY <1>3, InLog
<1>5. sel_recid # 0 => Position(sel_recid) = sel_recid
  BY <1>1, <1>2 DEF Position, First, LAST_REC, Capacity
<1>6. sel_recid # 0 => Present(sel_recid)
  BY <1>1, <1>2, <1>4, <1>5, Options DEF Present
<1> QED BY <1>1, <1>2, <1>3, <1>4, <1>5, <1>6, Options

\* What is passed over when the id has come to name another record.
LEMMA OverrunIs ==
    ASSUME LogInOrder, GetEvtTypeOK, Positions, sel_recid = 0 \/ Present(sel_recid)
    PROVE  /\ Overrun \subseteq 1..MaxEvents
           /\ sel_recid # 0 /\ Found(sel_recid).ev # handled => \A i \in 1..sel_recid : log[i].ev \in Overrun
<1>1. sel_recid \in Nat /\ sel_recid <= Capacity
  BY SelAssumption DEF GetEvtTypeOK, SelAssumption, Positions
<1>2. CASE sel_recid = 0
  BY <1>2 DEF Overrun, First
<1>3. CASE sel_recid # 0 /\ Found(sel_recid).ev = handled
  BY <1>3 DEF Overrun, First
<1>4. CASE sel_recid # 0 /\ Found(sel_recid).ev # handled
  <2>1. sel_recid \in 1..Len(log)
    BY <1>1, <1>4, InLog DEF Position, First, LAST_REC, Capacity
  <2>2. Overrun = Events(SubSeq(log, 1, sel_recid))
    BY <1>4 DEF Overrun, First
  <2>3. log \in Seq(Record)
    BY DEF LogInOrder
  <2>4. Len(SubSeq(log, 1, sel_recid)) = sel_recid /\ \A i \in 1..sel_recid : SubSeq(log, 1, sel_recid)[i] = log[i]
    BY <2>1, <2>3
  <2>5. DOMAIN SubSeq(log, 1, sel_recid) = 1..sel_recid
    BY <2>1, <2>3, <2>4
  <2>6. Overrun = {log[i].ev : i \in 1..sel_recid}
    BY <2>2, <2>4, <2>5 DEF Events
  <2>7. \A i \in 1..sel_recid : log[i].ev \in 1..MaxEvents
    BY <2>1, Options, Fields
  <2> QED BY <2>6, <2>7
<1> QED BY <1>2, <1>3, <1>4

LEMMA DaemonTypes ==
    ASSUME LogInOrder, GetEvtTypeOK, Positions, [Next]_vars
    PROVE  GetEvtTypeOK'
<1>1. setup' = setup
  BY SetupStays
<1> USE <1>1
<1> MaxEvents \in Nat
  BY SelAssumption DEF SelAssumption
<1>2. CASE UNCHANGED getevt
  BY <1>2 DEF getevt, daemon, story, GetEvtTypeOK
<1>3. CASE GetEvtNext
  <2>1. CASE Start
    <3>1. Started \in 0..MaxEvents
      BY InLog DEF Started, GetEvtTypeOK, NoFile, Empty
    <3>2. EventAt(Started) \in 0..MaxEvents
      BY InLog, Options DEF EventAt
    <3>3. waived' \subseteq 1..MaxEvents
      <4>1. Events(log) \subseteq 1..MaxEvents
        BY Options, Fields DEF Events
      <4> QED BY <4>1, <2>1 DEF Start, GetEvtTypeOK
    <3>4. starts' \in 0..setup.starts
      <4>1. starts' = starts + 1 /\ starts < setup.starts
        BY <2>1 DEF Start
      <4>2. starts \in 0..setup.starts /\ setup.starts \in Nat
        BY Options DEF GetEvtTypeOK
      <4> QED BY <4>1, <4>2
    <3> QED BY <2>1, <3>1, <3>2, <3>3, <3>4 DEF Start, Goto, GetEvtTypeOK, Steps
  <2>2. CASE StartFails
    <3>1. starts' \in 0..setup.starts
      <4>1. starts' = starts + 1 /\ starts < setup.starts
        BY <2>2 DEF StartFails
      <4>2. starts \in 0..setup.starts /\ setup.starts \in Nat
        BY Options DEF GetEvtTypeOK
      <4> QED BY <4>1, <4>2
    <3> QED BY <2>2, <3>1 DEF StartFails, GetEvtTypeOK, Goto, Steps
  <2>3. CASE Signal
    <3>1. InHand => rdata.ev \in 1..MaxEvents
      BY DEF GetEvtTypeOK, Positions
    <3>2. waived' \subseteq 1..MaxEvents
      BY <2>3, <3>1 DEF Signal, GetEvtTypeOK, InHand
    <3> QED BY <2>3, <3>2 DEF Signal, GetEvtTypeOK, Goto, Steps
  <2>4. CASE Kill
    <3>1. kills' \in 0..setup.kills
      <4>1. kills' = kills + 1 /\ kills < setup.kills
        BY <2>4 DEF Kill
      <4>2. kills \in 0..setup.kills /\ setup.kills \in Nat
        BY Options DEF GetEvtTypeOK
      <4> QED BY <4>1, <4>2
    <3> QED BY <2>4, <3>1 DEF Kill, GetEvtTypeOK, Goto, Steps
  <2>5. CASE PollFails
    BY <2>5 DEF PollFails, GetEvtTypeOK, Goto, Steps, story
  <2>6. CASE Wake
    BY <2>6 DEF Wake, GetEvtTypeOK, Goto, Steps, story
  <2>7. CASE NothingNew
    <3>1. Overrun \subseteq 1..MaxEvents
      BY <2>7, OverrunIs DEF NothingNew
    <3> QED BY <2>7, <3>1 DEF NothingNew, Wait, GetEvtTypeOK, Goto, Steps
  <2>8. CASE SeesNext
    <3>1. Overrun \subseteq 1..MaxEvents
      BY <2>8, OverrunIs DEF SeesNext
    <3>2. Following(sel_recid) \in 0..MaxEvents
      BY <2>8, InLog, Options DEF SeesNext, LogInOrder
    <3> QED BY <2>8, <3>1, <3>2 DEF SeesNext, GetEvtTypeOK, Goto, Steps
  <2>9. CASE Absent
    BY <2>9 DEF Absent, Wait, GetEvtTypeOK, Goto, Steps
  <2>10. CASE ReadNew
    <3>1. Overrun \subseteq 1..MaxEvents
      BY <2>10, OverrunIs, NextIs DEF ReadNew
    <3>2. Found(nextid).ev \in 0..MaxEvents /\ Found(nextid).kind \in Kinds
      BY <2>10, InLog, Fields DEF ReadNew
    <3>3. rdata' \in [ev : 0..MaxEvents, kind : Kinds \cup {"none"}]
      BY <2>10, <3>2 DEF ReadNew
    <3> QED BY <2>10, <3>1, <3>2, <3>3 DEF ReadNew, GetEvtTypeOK, Goto, Steps
  <2>11. CASE Vanished
    BY <2>11 DEF Vanished, GetEvtTypeOK, Goto, Steps, story
  <2>12. CASE Matches
    BY <2>12 DEF Matches, GetEvtTypeOK, Goto, Steps, story
  <2>13. CASE FilteredOut
    BY <2>13 DEF FilteredOut, GetEvtTypeOK, Goto, Steps
  <2>14. CASE Show
    BY <2>14 DEF Show, GetEvtTypeOK, Goto, Steps, story
  <2>15. CASE Truncate
    BY <2>15 DEF Truncate, GetEvtTypeOK, Goto, Steps, story
  <2>16. CASE Save
    BY <2>16 DEF Save, GetEvtTypeOK, Goto, Steps
  <2> QED BY <1>3, <2>1, <2>2, <2>3, <2>4, <2>5, <2>6, <2>7, <2>8, <2>9, <2>10, <2>11, <2>12, <2>13, <2>14,
             <2>15, <2>16 DEF GetEvtNext, Follow
<1>4. CASE UNCHANGED vars
  BY <1>2, <1>4 DEF vars
<1> QED BY <1>2, <1>3, <1>4, StepOnLog

LEMMA CronTypes ==
    ASSUME LogInOrder, IselTypeOK, [Next]_vars
    PROVE  IselTypeOK'
<1>1. setup' = setup
  BY SetupStays
<1> USE <1>1
<1> MaxEvents \in Nat
  BY SelAssumption DEF SelAssumption
<1>2. CASE UNCHANGED isel
  BY <1>2 DEF isel, IselTypeOK
<1>3. CASE IselNext
  <2>1. CASE Write
    <3>1. savtime' \in 0..MaxEvents /\ savid' \in 0..MaxEvents
      BY <2>1 DEF Write, StartWriting, IselTypeOK
    <3>2. runs' \in 0..setup.runs
      <4>1. runs' = runs + 1 /\ runs < setup.runs
        BY <2>1 DEF Write
      <4>2. runs \in 0..setup.runs /\ setup.runs \in Nat
        BY Options DEF IselTypeOK
      <4> QED BY <4>1, <4>2
    <3>3. RecordID' = savid' /\ writing' = TRUE /\ user' = "no" /\ pc' = "first"
          /\ UNCHANGED <<selidx, syslog, copied, clears, breaks>>
      BY <2>1 DEF Write
    <3> QED BY <3>1, <3>2, <3>3 DEF IselTypeOK
  <2>2. CASE Copy
    <3>1. /\ pc' = "read" /\ writing' = FALSE /\ RecordID' = 0
          /\ UNCHANGED <<savtime, savid, selidx, user, syslog, copied, runs, clears, breaks>>
      BY <2>2 DEF Copy
    <3>2. writing' \in BOOLEAN
      BY <3>1
    <3>3. RecordID' \in (0..MaxEvents) \cup {LAST_REC}
      <4>1. 0 \in 0..MaxEvents
        OBVIOUS
      <4> QED BY <3>1, <4>1
    <3>4. UNCHANGED <<savtime, savid, selidx, user, syslog, copied, runs, clears, breaks>>
      BY <3>1
    <3> QED BY <3>1, <3>2, <3>3, <3>4 DEF IselTypeOK
  <2>3. CASE ReadEntry
    <3> DEFINE rec == Found(RecordID)
    <3>1. /\ rec.ev \in 1..MaxEvents /\ rec.id \in 1..MaxEvents /\ rec.timestamp \in 0..MaxEvents
          /\ Following(RecordID) \in (0..MaxEvents) \cup {LAST_REC}
      BY <2>3, InLog, Fields DEF ReadEntry
    <3> HIDE DEF rec
    <3>2. Take(rec, Following(RecordID))
      BY <2>3 DEF ReadEntry, rec
    <3>3. copied' \subseteq 1..MaxEvents
      BY <3>1, <3>2 DEF Take, IselTypeOK
    <3>4. savid' \in 0..MaxEvents /\ savtime' \in 0..MaxEvents
      <4>1. savid \in 0..MaxEvents /\ savtime \in 0..MaxEvents
        BY DEF IselTypeOK
      <4>2. CASE writing /\ Newer(rec)
        BY <3>1, <3>2, <4>1, <4>2 DEF Take
      <4>3. CASE ~(writing /\ Newer(rec))
        BY <3>2, <4>1, <4>3 DEF Take
      <4> QED BY <4>2, <4>3
    <3>5. syslog' \in Seq(1..MaxEvents)
      <4>1. syslog \in Seq(1..MaxEvents)
        BY DEF IselTypeOK
      <4>2. syslog' = syslog \/ syslog' = Append(syslog, rec.ev)
        BY <3>2 DEF Take
      <4> QED BY <3>1, <4>1, <4>2
    <3>6. RecordID' \in (0..MaxEvents) \cup {LAST_REC} /\ pc' \in {"stop", "read"}
      BY <3>1, <3>2 DEF Take
    <3>7. UNCHANGED <<writing, selidx, user, runs, clears, breaks>>
      BY <2>3 DEF ReadEntry
    <3> QED BY <3>3, <3>4, <3>5, <3>6, <3>7 DEF IselTypeOK
  <2>4. CASE EndOfLog
    BY <2>4 DEF EndOfLog, NoEntry, IselTypeOK
  <2>5. CASE ReadFails
    BY <2>5 DEF ReadFails, NoEntry, IselTypeOK
  <2>6. CASE Stop
    BY <2>6 DEF Stop, EmptyIndex, IselTypeOK
  <2>7. CASE StopWriting
    BY <2>7 DEF StopWriting, IselTypeOK
  <2>8. CASE UserClears
    BY <2>8, Options DEF UserClears, IselTypeOK
  <2>9. CASE ReserveSel
    BY <2>9 DEF ReserveSel, IselTypeOK
  <2>10. CASE ClearSel
    BY <2>10 DEF ClearSel, Cleared, IselTypeOK
  <2>11. CASE ClearFails
    BY <2>11 DEF ClearFails, Cleared, IselTypeOK
  <2>12. CASE Forget
    <3>1. savtime' \in 0..MaxEvents /\ savid' \in 0..MaxEvents
      BY <2>12 DEF Forget, IselTypeOK
    <3>2. selidx' \in {NoIndex} \cup [time : 0..MaxEvents, id : 0..MaxEvents]
      BY <2>12, <3>1 DEF Forget
    <3> QED BY <2>12, <3>1, <3>2 DEF Forget, IselTypeOK
  <2>13. CASE Cut
    BY <2>13, Options DEF Cut, IselTypeOK
  <2> QED BY <1>3, <2>1, <2>2, <2>3, <2>4, <2>5, <2>6, <2>7, <2>8, <2>9, <2>10, <2>11, <2>12, <2>13 DEF IselNext
<1>4. CASE UNCHANGED vars
  BY <1>2, <1>4 DEF vars
<1> QED BY <1>2, <1>3, <1>4, StepOnLog DEF IselNext

\* The types are kept.
LEMMA TypeStep ==
    ASSUME LogInOrder, TypeOK, Positions, [Next]_vars
    PROVE  TypeOK'
  BY DaemonTypes, CronTypes, LogStep DEF TypeOK, LogInOrder

-----------------------------------------------------------------------------
(* Positions.                                                              *)

\* The log grows, or is cleared: what is ahead of a position stays newer.
LEMMA AheadKept ==
    ASSUME LogInOrder, Add \/ (log' = <<>> /\ made' = made), NEW id \in Int, NEW ev \in Int, Ahead(id, ev)
    PROVE  ev <= made' /\ \A i \in DOMAIN log' : (i > id \/ Len(log') < id) => log'[i].ev > ev
<1>1. CASE log' = <<>> /\ made' = made
  BY <1>1 DEF Ahead
<1>2. CASE Add
  <2>1. ev <= made /\ made' = made + 1 /\ made \in Nat
    BY <1>2, Added, Options DEF Ahead
  <2>2. ASSUME NEW i \in DOMAIN log', i > id \/ Len(log') < id
        PROVE  log'[i].ev > ev
    <3>1. Len(log') = Len(log) + 1 /\ Len(log) \in Nat /\ DOMAIN log = 1..Len(log) /\ DOMAIN log' = 1..(Len(log) + 1)
      BY <1>2, Added, Options
    <3>2. CASE i \in DOMAIN log
      BY <1>2, <2>2, <3>1, <3>2, Added DEF Ahead
    <3>3. CASE i = Len(log) + 1
      BY <1>2, <2>1, <3>3, Added
    <3> QED BY <3>1, <3>2, <3>3
  <2> QED BY <2>1, <2>2
<1> QED BY <1>1, <1>2

\* The numbers of the daemon.
LEMMA Numbers ==
    ASSUME GetEvtTypeOK
    PROVE  /\ sel_recid \in Nat /\ handled \in Nat /\ saved \in Nat /\ event \in Nat /\ nextid \in Nat
           /\ idxfile \in Int /\ (idxfile \in Nat \/ idxfile = NoFile \/ idxfile = Empty) /\ rdata.ev \in Nat
           /\ shown \in Seq(Nat) /\ kills \in Nat
<1>1. MaxEvents \in Nat
  BY SelAssumption DEF SelAssumption
<1>2. shown \in Seq(Nat)
  BY <1>1 DEF GetEvtTypeOK
<1>3. rdata.ev \in Nat
  BY <1>1 DEF GetEvtTypeOK
<1> QED BY <1>1, <1>2, <1>3 DEF GetEvtTypeOK, NoFile, Empty

LEMMA PositionsWhenLogChanges ==
    ASSUME LogInOrder, GetEvtTypeOK, Positions, UNCHANGED getevt, setup' = setup,
           Add \/ (log' = <<>> /\ made' = made)
    PROVE  Positions'
<1> USE DEF getevt, daemon, story
<1>1. (Ahead(sel_recid, handled))'
  <2>1. Ahead(sel_recid, handled)
    BY DEF Positions
  <2>2. Ahead(sel_recid, handled) => handled <= made' /\ \A i \in DOMAIN log' : (i > sel_recid \/ Len(log') < sel_recid) => log'[i].ev > handled
    BY AheadKept, Numbers
  <2>3. sel_recid' = sel_recid /\ handled' = handled /\ at' = at
    OBVIOUS
  <2> QED BY <2>1, <2>2, <2>3 DEF Ahead
<1>2. (idxfile >= 0 => Ahead(idxfile, saved))'
  <2>1. idxfile >= 0 => Ahead(idxfile, saved)
    BY DEF Positions
  <2>2. Ahead(idxfile, saved) => saved <= made' /\ \A i \in DOMAIN log' : (i > idxfile \/ Len(log') < idxfile) => log'[i].ev > saved
    BY AheadKept, Numbers
  <2>3. idxfile' = idxfile /\ saved' = saved /\ at' = at
    OBVIOUS
  <2> QED BY <2>1, <2>2, <2>3 DEF Ahead
<1>3. (Working => Ahead(sel_recid, event))'
  <2>1. Working => Ahead(sel_recid, event)
    BY DEF Positions
  <2>2. Ahead(sel_recid, event) => event <= made' /\ \A i \in DOMAIN log' : (i > sel_recid \/ Len(log') < sel_recid) => log'[i].ev > event
    BY AheadKept, Numbers
  <2>3. sel_recid' = sel_recid /\ event' = event /\ at' = at
    OBVIOUS
  <2> QED BY <2>1, <2>2, <2>3 DEF Ahead, Working
<1>4. made \in Nat /\ made' \in Nat /\ made' >= made
  BY Added, Options
<1>5. saved' <= made' /\ event' <= made'
  <2>1. saved <= made /\ event <= made
    BY DEF Positions
  <2> QED BY <1>4, <2>1, Numbers
<1>6. ASSUME InHand, NEW i \in DOMAIN log', log'[i].ev = handled
      PROVE  log'[i].kind = rdata.kind
  <2>1. CASE Add
    <3>1. i \in DOMAIN log \/ i = Len(log) + 1
      BY <2>1, Added, Options
    <3>2. handled <= made
      BY DEF Positions, Ahead
    <3>3. log'[Len(log) + 1].ev = made + 1
      BY <2>1, Added
    <3>4. i # Len(log) + 1
      BY <1>4, <1>6, <3>2, <3>3, Numbers
    <3> QED BY <1>6, <2>1, <3>1, <3>4, Added DEF Positions
  <2>2. CASE log' = <<>>
    BY <2>2
  <2> QED BY <2>1, <2>2
<1> QED BY <1>1, <1>2, <1>3, <1>5, <1>6 DEF Positions, InHand, Working

\* Positions ahead of an event: anything is ahead of none, a record of its own
\* event, the end of the log of every event; and if the record at a position is
\* not there, the beginning is ahead of what the position was.
LEMMA AheadOf ==
    ASSUME LogInOrder
    PROVE  /\ \A id \in Int : Ahead(id, 0)
           /\ \A i \in DOMAIN log : Ahead(i, log[i].ev)
           /\ \A ev \in Nat : ev <= made => Ahead(Len(log), ev)
           /\ \A id \in 0..Capacity, ev \in Nat : Ahead(id, ev) /\ ~Present(id) => Ahead(0, ev)
<1>1. ASSUME NEW id \in Int PROVE Ahead(id, 0)
  BY Options, Fields DEF Ahead
<1>2. ASSUME NEW i \in DOMAIN log PROVE Ahead(i, log[i].ev)
  <2>1. log[i].ev <= made /\ \A j \in DOMAIN log : j > i => log[j].ev > log[i].ev
    BY Options, Fields DEF LogInOrder
  <2>2. ~(Len(log) < i) /\ i \in Nat
    BY Options
  <2> QED BY <2>1, <2>2 DEF Ahead
<1>3. ASSUME NEW ev \in Nat, ev <= made PROVE Ahead(Len(log), ev)
  BY <1>3, Options DEF Ahead
<1>4. ASSUME NEW id \in 0..Capacity, NEW ev \in Nat, Ahead(id, ev), ~Present(id) PROVE Ahead(0, ev)
  <2>1. id < LAST_REC /\ id \in Nat
    BY Ids
  <2>2. log = <<>> \/ Len(log) < id
    BY <1>4, <2>1, Options DEF Present, Position, First
  <2> QED BY <1>4, <2>1, <2>2, Options DEF Ahead
<1> QED BY <1>1, <1>2, <1>3, <1>4

\* Without the file, the daemon starts at the end of the log.
LEMMA StartsAt ==
    ASSUME LogInOrder, GetEvtTypeOK, Positions
    PROVE  /\ Started \in 0..Capacity
           /\ idxfile = NoFile => Started = Len(log) /\ Ahead(Started, EventAt(Started)) /\ EventAt(Started) \in Nat
           /\ idxfile = Empty => Started = 0
           /\ idxfile \in Nat => Started = idxfile
<1>1. idxfile <= Capacity /\ Len(log) <= Capacity
  BY DEF Positions, LogInOrder
<1>2. CASE idxfile = NoFile
  <2>1. Present(LAST_REC) <=> Len(log) # 0
    BY Options DEF Present, Position, First, LAST_REC
  <2>2. Present(LAST_REC) => Found(LAST_REC).id = Len(log)
    BY InLog DEF Position, First, LAST_REC
  <2>3. Started = Len(log)
    BY <1>2, <2>1, <2>2, Options DEF Started
  <2>4. CASE Len(log) = 0
    <3>1. Started = 0 /\ EventAt(Started) = 0
      BY <2>3, <2>4 DEF EventAt, First
    <3>2. Ahead(0, 0)
      BY AheadOf
    <3> QED BY <1>2, <2>3, <3>1, <3>2 DEF NoFile, Empty, Capacity, LAST_REC
  <2>5. CASE Len(log) # 0
    <3>1. Position(Len(log)) = Len(log) /\ Len(log) \in DOMAIN log
      BY <1>1, <2>5, Options DEF Position, First, LAST_REC, Capacity
    <3>2. EventAt(Started) = log[Len(log)].ev
      BY <2>3, <2>5, <3>1 DEF EventAt, Present, Found, First
    <3>3. log[Len(log)].ev \in Nat
      BY <3>1, Options, Fields
    <3> QED BY <1>1, <1>2, <2>3, <3>1, <3>2, <3>3, Options, AheadOf DEF NoFile, Empty
  <2> QED BY <2>4, <2>5
<1>3. CASE idxfile = Empty
  BY <1>3 DEF Started, Empty, NoFile, Capacity, LAST_REC
<1>4. CASE idxfile \in Nat
  BY <1>1, <1>4 DEF Started, Empty, NoFile
<1> QED BY <1>2, <1>3, <1>4, Numbers

LEMMA PositionsWhenDaemonMoves ==
    ASSUME LogInOrder, GetEvtTypeOK, Positions, GetEvtNext, LogStays
    PROVE  Positions'
<1> USE DEF LogStays
<1>0. 0 <= Capacity /\ Ahead(0, 0) /\ 0 <= made /\ made \in Nat
  <2>1. Ahead(0, 0)
    BY AheadOf
  <2>2. 0 <= Capacity
    BY Ids
  <2> QED BY <2>1, <2>2, Options
<1>1. CASE Start
  <2>1. sel_recid' = Started /\ Started \in 0..Capacity /\ at' = "last" /\ event' = 0
    BY <1>1, StartsAt DEF Start, Goto
  <2>2. Ahead(sel_recid, handled)'
    BY <1>0, <1>1, <2>1, StartsAt, Numbers DEF Start, Positions, Ahead, NoFile, Empty
  <2>3. (Working => Ahead(sel_recid, event))'
    BY <2>1, AheadOf DEF Ahead
  <2>4. sel_recid' <= Capacity
    BY <2>1
  <2>5. UNCHANGED <<rewound, stale, idxfile, saved>>
    BY <1>1 DEF Start
  <2> QED BY <1>0, <2>1, <2>2, <2>3, <2>4, <2>5 DEF Positions, InHand, Ahead
<1>2. CASE StartFails
  BY <1>0, <1>2 DEF StartFails, Goto, Positions, Working, InHand, Ahead
<1>3. CASE Signal
  BY <1>3 DEF Signal, Goto, Positions, Working, InHand, Ahead
<1>4. CASE Kill
  BY <1>4 DEF Kill, Goto, Positions, Working, InHand, Ahead
<1>5. CASE PollFails
  BY <1>5 DEF PollFails, story, Goto, Positions, Working, InHand, Ahead
<1>6. CASE Wake
  BY <1>6 DEF Wake, story, Goto, Positions, Working, InHand, Ahead
<1>7. CASE NothingNew
  BY <1>7 DEF NothingNew, Wait, Goto, Positions, Working, InHand, Ahead
<1>8. CASE SeesNext
  <2>1. sel_recid \in 0..Capacity /\ Len(log) <= Capacity
    BY Numbers DEF Positions, LogInOrder
  <2>2. Following(sel_recid) = Position(sel_recid) + 1 /\ Following(sel_recid) <= Len(log)
    BY <1>8, InLog DEF SeesNext
  <2>3. sel_recid # 0 => Position(sel_recid) = sel_recid
    <3>1. sel_recid \in Nat /\ sel_recid # LAST_REC
      BY <2>1, Ids
    <3> QED BY <3>1 DEF Position, First
  <2>4. sel_recid = 0 => Position(sel_recid) = 1
    BY DEF Position, First
  <2>5. nextid' = (IF sel_recid = 0 THEN 2 ELSE sel_recid + 1)
    BY <1>8, <2>2, <2>3, <2>4 DEF SeesNext
  <2>6. nextid' <= Capacity
    <3>1. Following(sel_recid) \in Nat /\ Capacity \in Nat
      <4>1. Capacity \in Nat
        BY Ids
      <4>2. sel_recid \in Nat
        BY <2>1, <4>1
      <4> QED BY <2>2, <2>3, <2>4, <4>1, <4>2
    <3> QED BY <1>8, <2>1, <2>2, <3>1, Options DEF SeesNext
  <2> QED BY <1>8, <2>5, <2>6 DEF SeesNext, Goto, Positions, Working, InHand, Ahead
<1>9. CASE Absent
  <2>1. Ahead(sel_recid, event) /\ ~Present(sel_recid) /\ sel_recid \in 0..Capacity
    BY <1>9, Numbers DEF Absent, Positions, Working
  <2>2. Ahead(0, event)
    BY <2>1, AheadOf, Numbers
  <2>3. /\ sel_recid' = 0 /\ handled' = 0 /\ at' \in {"wait", "cleanup"}
        /\ UNCHANGED <<event, rewound, stale, idxfile, saved>>
    BY <1>9 DEF Absent, Wait, Goto
  <2> QED BY <1>0, <2>2, <2>3 DEF Positions, Working, InHand, Ahead
<1>10. CASE ReadNew
  <2>1. /\ nextid \in DOMAIN log /\ nextid > sel_recid /\ Position(nextid) = nextid /\ Present(nextid)
        /\ sel_recid \in Nat /\ event \in Nat
    BY <1>10, NextIs, Numbers DEF ReadNew
  <2>2. Found(nextid) = log[nextid] /\ Found(nextid).ev \in 1..made /\ nextid \in 1..Len(log) /\ nextid <= Capacity
    BY <2>1, InLog
  <2>3. Ahead(nextid, log[nextid].ev)
    BY <2>1, AheadOf
  <2>4. Ahead(sel_recid, event)
    BY <1>10 DEF ReadNew, Positions, Working
  <2>5. Ahead(nextid, event)
    BY <2>1, <2>2, <2>4, Options DEF Ahead
  <2>6. /\ sel_recid' = nextid /\ handled' = log[nextid].ev /\ at' = "filter"
        /\ rdata' = [ev |-> log[nextid].ev, kind |-> log[nextid].kind]
        /\ UNCHANGED <<event, rewound, stale, idxfile, saved>>
    BY <1>10, <2>2 DEF ReadNew, Goto
  <2>7. rdata'.ev = handled' /\ handled' > 0 /\ rdata'.kind = log[nextid].kind
    BY <2>2, <2>6
  <2>8. \A i \in DOMAIN log : log[i].ev = log[nextid].ev => i = nextid
    <3> SUFFICES ASSUME NEW i \in DOMAIN log, i # nextid PROVE log[i].ev # log[nextid].ev
      OBVIOUS
    <3>1. log[i].ev \in Nat /\ log[nextid].ev \in Nat /\ i \in Nat
      BY <2>1, Options, Fields
    <3>2. log[i].ev < log[nextid].ev \/ log[nextid].ev < log[i].ev
      BY <2>1, <2>2, <3>1 DEF LogInOrder
    <3> QED BY <3>1, <3>2
  <2> QED BY <2>2, <2>3, <2>5, <2>6, <2>7, <2>8 DEF Positions, Working, InHand, Ahead
<1>11. CASE Vanished
  BY <1>11 DEF Vanished, story, Goto, Positions, Working, InHand, Ahead
<1>12. CASE Matches
  BY <1>12 DEF Matches, story, Goto, Positions, Working, InHand, Ahead
<1>13. CASE FilteredOut
  BY <1>13 DEF FilteredOut, Goto, Positions, Working, InHand, Ahead
<1>14. CASE Show
  BY <1>14 DEF Show, story, Goto, Positions, Working, InHand, Ahead
<1>15. CASE Truncate
  BY <1>15 DEF Truncate, story, Goto, Positions, Working, InHand, Ahead, Empty, Capacity, LAST_REC
<1>16. CASE Save
  BY <1>16 DEF Save, Goto, Positions, Working, InHand, Ahead
<1> QED BY <1>1, <1>2, <1>3, <1>4, <1>5, <1>6, <1>7, <1>8, <1>9, <1>10, <1>11, <1>12, <1>13, <1>14,
           <1>15, <1>16 DEF GetEvtNext, Follow

\* The daemon's positions and what it has in hand stay right.
LEMMA PositionsStep ==
    ASSUME LogInOrder, GetEvtTypeOK, Positions, [Next]_vars
    PROVE  Positions'
<1>1. CASE Add /\ UNCHANGED getevt
  BY <1>1, SetupStays, PositionsWhenLogChanges
<1>2. CASE ClearSel /\ UNCHANGED getevt
  <2>1. log' = <<>> /\ made' = made
    BY <1>2 DEF ClearSel, Clear
  <2> QED BY <1>2, <2>1, SetupStays, PositionsWhenLogChanges
<1>3. CASE LogStays /\ UNCHANGED getevt
  BY <1>3 DEF LogStays, getevt, daemon, story, Positions, Ahead, Working, InHand
<1>4. CASE GetEvtNext /\ LogStays
  BY <1>4, PositionsWhenDaemonMoves
<1>5. CASE UNCHANGED vars
  BY <1>5, <1>3 DEF vars, sel, LogStays
<1> QED BY <1>1, <1>2, <1>3, <1>4, <1>5, StepOnLog

-----------------------------------------------------------------------------
(* The order of what is shown.                                             *)

\* An event that is shown is one rewind more at most, and none if it is newer.
LEMMA RewindsOfAppend ==
    ASSUME NEW s \in Seq(Nat), NEW e \in Nat
    PROVE  /\ Rewinds(s) \in Nat /\ Rewinds(Append(s, e)) \in Nat
           /\ Rewinds(Append(s, e)) <= Rewinds(s) + 1
           /\ (s = <<>> \/ e > s[Len(s)]) => Rewinds(Append(s, e)) = Rewinds(s)
<1> DEFINE A == {i \in 1..(Len(s) - 1) : s[i + 1] <= s[i]}
           t == Append(s, e)
           B == {i \in 1..(Len(t) - 1) : t[i + 1] <= t[i]}
<1>1. Len(s) \in Nat /\ Len(t) = Len(s) + 1 /\ t[Len(s) + 1] = e /\ \A i \in 1..Len(s) : t[i] = s[i]
  OBVIOUS
<1>2. IsFiniteSet(1..(Len(s) - 1)) /\ IsFiniteSet(1..(Len(t) - 1))
  BY <1>1, FS_Interval
<1>3. IsFiniteSet(A) /\ IsFiniteSet(B)
  BY <1>2, FS_Subset
<1>4. Rewinds(s) = Cardinality(A) /\ Rewinds(t) = Cardinality(B)
  BY DEF Rewinds
<1>5. Cardinality(A) \in Nat /\ Cardinality(B) \in Nat
  BY <1>3, FS_CardinalityType
<1>6. B \subseteq A \cup {Len(s)} /\ A \subseteq B /\ Len(s) \notin A
  <2>1. ASSUME NEW i \in B PROVE i \in A \cup {Len(s)}
    <3>1. i \in 1..Len(s) /\ t[i + 1] <= t[i]
      BY <1>1
    <3>2. CASE i < Len(s)
      <4>1. i \in 1..(Len(s) - 1) /\ i + 1 \in 1..Len(s)
        BY <1>1, <3>1, <3>2
      <4>2. t[i] = s[i] /\ t[i + 1] = s[i + 1]
        BY <1>1, <3>1, <4>1
      <4> QED BY <3>1, <4>1, <4>2
    <3> QED BY <1>1, <3>1, <3>2
  <2>2. ASSUME NEW i \in A PROVE i \in B
    <3>1. i \in 1..(Len(t) - 1) /\ i \in 1..Len(s) /\ i + 1 \in 1..Len(s)
      BY <1>1
    <3>2. t[i] = s[i] /\ t[i + 1] = s[i + 1]
      BY <1>1, <3>1
    <3> QED BY <3>1, <3>2
  <2>3. Len(s) \notin A
    BY <1>1
  <2> QED BY <2>1, <2>2, <2>3
<1>7. Cardinality(A \cup {Len(s)}) = Cardinality(A) + 1 /\ IsFiniteSet(A \cup {Len(s)})
  BY <1>3, <1>6, FS_AddElement
<1>8. Cardinality(B) <= Cardinality(A) + 1
  <2> HIDE DEF A, B
  <2> QED BY <1>6, <1>7, FS_Subset
<1>9. ASSUME s = <<>> \/ e > s[Len(s)] PROVE B = A
  <2>1. Len(s) \notin B
    <3>1. CASE s = <<>>
      BY <1>1, <3>1
    <3>2. CASE s # <<>> /\ e > s[Len(s)]
      <4>1. Len(s) \in 1..Len(s) /\ s[Len(s)] \in Nat
        BY <3>2
      <4>2. t[Len(s)] = s[Len(s)] /\ t[Len(s) + 1] = e
        BY <1>1, <4>1
      <4> QED BY <3>2, <4>1, <4>2
    <3> QED BY <1>9, <3>1, <3>2
  <2> HIDE DEF A, B
  <2> QED BY <1>6, <2>1
<1> HIDE DEF A, B, t
<1> QED BY <1>4, <1>5, <1>8, <1>9 DEF t

\* A position that is ahead of an event is ahead of older ones.
LEMMA AheadOfOlder ==
    ASSUME LogInOrder, NEW id \in Int, NEW ev \in Nat, NEW older \in Nat, Ahead(id, ev), older <= ev
    PROVE  Ahead(id, older)
  BY Options, Fields DEF Ahead

LEMMA LastShownIs ==
    ASSUME GetEvtTypeOK
    PROVE  LastShown \in Nat /\ (shown # <<>> => LastShown = shown[Len(shown)])
<1>1. shown \in Seq(Nat)
  BY Numbers
<1> QED BY <1>1 DEF LastShown

LEMMA OrderlyWhenLogChanges ==
    ASSUME LogInOrder, GetEvtTypeOK, UNCHANGED getevt, Orderly, Add \/ (log' = <<>> /\ made' = made)
    PROVE  Orderly'
<1> DEFINE resumed == IF idxfile = Empty THEN 0 ELSE idxfile
<1>1. UNCHANGED <<at, idxfile, shown, handled, event, sel_recid>>
  BY DEF getevt, daemon, story
<1>2. resumed \in Int /\ sel_recid \in Int /\ LastShown \in Int
  BY Numbers, LastShownIs
<1> HIDE DEF resumed
<1>3. Ahead(resumed, LastShown) =>
          LastShown <= made' /\ \A i \in DOMAIN log' : (i > resumed \/ Len(log') < resumed) => log'[i].ev > LastShown
  BY <1>2, AheadKept
<1>4. Ahead(sel_recid, LastShown) =>
          LastShown <= made' /\ \A i \in DOMAIN log' : (i > sel_recid \/ Len(log') < sel_recid) => log'[i].ev > LastShown
  BY <1>2, AheadKept
<1>5. LastShown' = LastShown
  BY <1>1 DEF LastShown
<1>6. (at = "off" /\ idxfile # NoFile => Ahead(resumed, LastShown))'
  <2>1. resumed' = resumed
    BY <1>1 DEF resumed
  <2>2. at = "off" /\ idxfile # NoFile => Ahead(resumed, LastShown)
    BY DEF Orderly, resumed
  <2> QED BY <1>1, <1>3, <1>5, <2>1, <2>2 DEF Ahead
<1>7. (at = "filter" => handled > LastShown)' /\ (at = "show" => event > LastShown)'
  BY <1>1, <1>5 DEF Orderly
<1>8. (at \notin {"off", "filter", "show"} => Ahead(sel_recid, LastShown))'
  BY <1>1, <1>4, <1>5 DEF Orderly, Ahead
<1> QED BY <1>6, <1>7, <1>8 DEF Orderly, resumed

\* What the daemon does to the order, when it pays for nothing.
LEMMA OrderlyWhenDaemonMoves ==
    ASSUME LogInOrder, GetEvtTypeOK, Positions, LastShown <= made, Orderly, GetEvtNext, LogStays,
           UNCHANGED <<shown, kills, rewound, stale>>
    PROVE  Orderly'
<1> USE DEF LogStays
<1>0. /\ LastShown' = LastShown /\ LastShown \in Nat /\ sel_recid \in Nat /\ handled \in Nat /\ event \in Nat
      /\ \A ev \in Nat : Ahead(sel_recid, ev) /\ LastShown <= ev => Ahead(sel_recid, LastShown)
  BY LastShownIs, Numbers, AheadOfOlder DEF LastShown
<1>1. CASE Start
  <2>1. at = "off" /\ at' = "last" /\ sel_recid' = Started
    BY <1>1 DEF Start, Goto
  <2>2. Ahead(Started, LastShown)
    <3>1. CASE idxfile = NoFile
      BY <1>0, <3>1, StartsAt, AheadOf
    <3>2. CASE idxfile = Empty
      BY <2>1, <3>2, StartsAt DEF Orderly, NoFile, Empty
    <3>3. CASE idxfile \in Nat
      BY <2>1, <3>3, StartsAt DEF Orderly, NoFile, Empty
    <3> QED BY <3>1, <3>2, <3>3, Numbers
  <2> QED BY <1>0, <2>1, <2>2 DEF Orderly, Ahead
<1>2. CASE StartFails \/ Kill \/ Show
  <2>1. rewound' # rewound \/ kills' # kills \/ shown' # shown
    <3>1. CASE StartFails
      BY <3>1 DEF StartFails, Positions
    <3>2. CASE Kill
      BY <3>2, Numbers DEF Kill
    <3>3. CASE Show
      <4>1. shown \in Seq(Nat) /\ event \in Nat
        BY Numbers
      <4>2. Len(Append(shown, event)) # Len(shown)
        BY <4>1
      <4> QED BY <3>3, <4>2 DEF Show
    <3> QED BY <1>2, <3>1, <3>2, <3>3
  <2> QED BY <2>1
<1>3. CASE Signal
  <2>1. at \notin {"off", "cleanup", "final"} /\ at' = "cleanup" /\ sel_recid' = sel_recid
    BY <1>3 DEF Signal, Goto
  <2>2. Ahead(sel_recid, LastShown)
    <3>1. CASE at = "filter"
      BY <1>0, <3>1 DEF Orderly, Positions
    <3>2. CASE at = "show"
      BY <1>0, <3>2 DEF Orderly, Positions, Working
    <3>3. CASE at \notin {"filter", "show"}
      BY <2>1, <3>3 DEF Orderly
    <3> QED BY <3>1, <3>2, <3>3
  <2> QED BY <1>0, <2>1, <2>2 DEF Orderly, Ahead
<1>4. CASE PollFails
  <2>1. at \notin {"off", "filter", "show"} /\ at' \notin {"off", "filter", "show"} /\ sel_recid' = sel_recid /\ shown' = shown
    BY <1>4 DEF PollFails, Goto
  <2> QED BY <2>1 DEF Orderly, Ahead, LastShown
<1>5. CASE Wake
  <2>1. at \notin {"off", "filter", "show"} /\ at' \notin {"off", "filter", "show"} /\ sel_recid' = sel_recid /\ shown' = shown
    BY <1>5 DEF Wake, Goto
  <2> QED BY <2>1 DEF Orderly, Ahead, LastShown
<1>6. CASE NothingNew
  <2>1. at \notin {"off", "filter", "show"} /\ at' \notin {"off", "filter", "show"} /\ sel_recid' = sel_recid /\ shown' = shown
    BY <1>6 DEF NothingNew, Wait, Goto
  <2> QED BY <2>1 DEF Orderly, Ahead, LastShown
<1>7. CASE SeesNext
  <2>1. at \notin {"off", "filter", "show"} /\ at' \notin {"off", "filter", "show"} /\ sel_recid' = sel_recid /\ shown' = shown
    BY <1>7 DEF SeesNext, Goto
  <2> QED BY <2>1 DEF Orderly, Ahead, LastShown
<1>8. CASE Absent
  <2>1. /\ at = "last" /\ at' \in {"wait", "cleanup"} /\ sel_recid' = 0
        /\ ~Present(sel_recid) /\ sel_recid \in 0..Capacity
    BY <1>8, Numbers DEF Absent, Wait, Goto, Positions
  <2>2. Ahead(0, LastShown)
    BY <1>0, <2>1, AheadOf DEF Orderly
  <2> QED BY <1>0, <2>1, <2>2 DEF Orderly, Ahead
<1>9. CASE ReadNew
  <2>1. at = "new" /\ at' = "filter" /\ handled' = Found(nextid).ev /\ Present(nextid)
    BY <1>9 DEF ReadNew, Goto
  <2>2. nextid \in DOMAIN log /\ nextid > sel_recid /\ Found(nextid) = log[nextid]
    BY <2>1, NextIs, InLog
  <2>3. Ahead(sel_recid, LastShown)
    BY <2>1 DEF Orderly
  <2>4. log[nextid].ev > LastShown
    BY <2>2, <2>3 DEF Ahead
  <2> QED BY <1>0, <2>1, <2>2, <2>4 DEF Orderly
<1>10. CASE Vanished
  <2>1. at \notin {"off", "filter", "show"} /\ at' \notin {"off", "filter", "show"} /\ sel_recid' = sel_recid /\ shown' = shown
    BY <1>10 DEF Vanished, Goto
  <2> QED BY <2>1 DEF Orderly, Ahead, LastShown
<1>11. CASE Matches
  <2>1. at = "filter" /\ at' = "show" /\ event' = rdata.ev
    BY <1>11 DEF Matches, Goto
  <2>2. rdata.ev = handled /\ handled > LastShown
    BY <2>1 DEF Positions, InHand, Orderly
  <2> QED BY <1>0, <2>1, <2>2 DEF Orderly
<1>12. CASE FilteredOut
  <2>1. at = "filter" /\ at' = "wait" /\ sel_recid' = sel_recid
    BY <1>12 DEF FilteredOut, Goto, Positions
  <2>2. Ahead(sel_recid, LastShown)
    BY <1>0, <2>1 DEF Orderly, Positions
  <2> QED BY <1>0, <2>1, <2>2 DEF Orderly, Ahead
<1>13. CASE Truncate
  <2>1. at \notin {"off", "filter", "show"} /\ at' \notin {"off", "filter", "show"} /\ sel_recid' = sel_recid /\ shown' = shown
    BY <1>13 DEF Truncate, Goto
  <2> QED BY <2>1 DEF Orderly, Ahead, LastShown
<1>14. CASE Save
  <2>1. at \in {"save", "final"} /\ sel_recid' = sel_recid /\ idxfile' = sel_recid
    BY <1>14 DEF Save
  <2>2. Ahead(sel_recid, LastShown)
    BY <2>1 DEF Orderly
  <2>3. at' \in {"off", "last", "cleanup"} /\ idxfile' # Empty
    BY <1>0, <1>14, <2>1 DEF Save, Goto, Empty
  <2> QED BY <1>0, <2>1, <2>2, <2>3 DEF Orderly, Ahead
<1> QED BY <1>1, <1>2, <1>3, <1>4, <1>5, <1>6, <1>7, <1>8, <1>9, <1>10, <1>11, <1>12, <1>13, <1>14
        DEF GetEvtNext, Follow

\* What is shown stays accounted for.
LEMMA AccountedStep ==
    ASSUME LogInOrder, GetEvtTypeOK, Positions, Accounted, [Next]_vars
    PROVE  Accounted'
<1> DEFINE paid == kills + rewound + stale
<1>0. /\ rewound \in Nat /\ stale \in Nat /\ kills \in Nat /\ made \in Nat /\ shown \in Seq(Nat) /\ event \in Nat
      /\ LastShown \in Nat /\ LastShown <= made /\ event <= made
  BY Numbers, Options, LastShownIs DEF Positions, Accounted
<1>1. Rewinds(shown) \in Nat
  BY <1>0, RewindsOfAppend
<1>2. made' \in Nat /\ made' >= made
  <2>1. CASE Add
    BY <1>0, <2>1 DEF Add
  <2>2. CASE ClearSel
    BY <1>0, <2>2 DEF ClearSel, Clear
  <2>3. CASE LogStays
    BY <1>0, <2>3 DEF LogStays
  <2>4. CASE UNCHANGED vars
    BY <1>0, <2>4 DEF vars, sel
  <2> QED BY <2>1, <2>2, <2>3, <2>4, StepOnLog
<1>3. ASSUME UNCHANGED <<shown, kills, rewound, stale>>, Orderly => Orderly'
      PROVE  Accounted'
  <2>1. LastShown' = LastShown /\ Rewinds(shown') = Rewinds(shown) /\ paid' = paid
    BY <1>3 DEF LastShown
  <2>2. LastShown' <= made'
    BY <1>0, <1>2, <2>1
  <2> QED BY <1>3, <2>1, <2>2 DEF Accounted
<1>4. ASSUME shown' = shown, paid' = paid + 1
      PROVE  Accounted'
  <2>1. LastShown' = LastShown /\ Rewinds(shown') = Rewinds(shown)
    BY <1>4 DEF LastShown
  <2>2. LastShown' <= made'
    BY <1>0, <1>2, <2>1
  <2>3. Rewinds(shown) <= paid /\ paid \in Nat
    BY <1>0 DEF Accounted
  <2>4. Rewinds(shown) <= paid + 1 /\ Rewinds(shown) < paid + 1
    BY <1>1, <2>3
  <2> HIDE DEF paid
  <2>5. Rewinds(shown') <= paid' /\ Rewinds(shown') < paid'
    BY <1>4, <2>1, <2>4
  <2> QED BY <2>2, <2>5 DEF Accounted, paid
<1>5. CASE Add /\ UNCHANGED getevt
  <2>1. UNCHANGED <<shown, kills, rewound, stale>>
    BY <1>5 DEF getevt, daemon, story
  <2> QED BY <1>3, <1>5, <2>1, OrderlyWhenLogChanges
<1>6. CASE ClearSel /\ UNCHANGED getevt
  <2>1. UNCHANGED <<shown, kills, rewound, stale>>
    BY <1>6 DEF getevt, daemon, story
  <2>2. log' = <<>> /\ made' = made
    BY <1>6 DEF ClearSel, Clear
  <2> QED BY <1>3, <1>6, <2>1, <2>2, OrderlyWhenLogChanges
<1>7. CASE LogStays /\ UNCHANGED getevt
  <2>1. UNCHANGED <<shown, kills, rewound, stale>>
    BY <1>7 DEF getevt, daemon, story
  <2>2. Orderly => Orderly'
    BY <1>7 DEF LogStays, getevt, daemon, story, Orderly, Ahead, LastShown
  <2> QED BY <1>3, <2>1, <2>2
<1>8. CASE GetEvtNext /\ LogStays
  <2> DEFINE pays == StartFails \/ Kill \/ (FilteredOut /\ stale' # stale)
             nothing == UNCHANGED <<shown, kills, rewound, stale>>
  <2>1. CASE nothing
    BY <1>0, <1>3, <1>8, <2>1, OrderlyWhenDaemonMoves
  <2>2. CASE pays
    <3>1. shown' = shown
      BY <2>2 DEF StartFails, Kill, FilteredOut
    <3>2. paid' = paid + 1
      BY <1>0, <2>2 DEF StartFails, Kill, FilteredOut
    <3> QED BY <1>4, <3>1, <3>2
  <2>3. CASE Show
    <3>1. /\ at = "show" /\ at' = "truncate" /\ shown' = Append(shown, event)
          /\ UNCHANGED <<sel_recid, kills, rewound, stale>> /\ made' = made /\ log' = log
      BY <1>8, <2>3 DEF Show, Goto, story, LogStays
    <3>2. LastShown' = event
      BY <1>0, <3>1 DEF LastShown
    <3>3. Ahead(sel_recid, event)
      BY <3>1 DEF Positions, Working
    <3>4. Orderly'
      BY <3>1, <3>2, <3>3 DEF Orderly, Ahead
    <3>5. paid' = paid /\ paid \in Nat
      BY <1>0, <3>1
    <3> HIDE DEF paid
    <3>6. Rewinds(shown') <= paid'
      <4>1. Rewinds(shown) <= paid /\ (~Orderly => Rewinds(shown) < paid)
        BY DEF Accounted, paid
      <4>2. Orderly => event > LastShown
        BY <3>1 DEF Orderly
      <4>3. event > LastShown => shown = <<>> \/ event > shown[Len(shown)]
        BY LastShownIs
      <4>4. /\ Rewinds(shown') \in Nat /\ Rewinds(shown') <= Rewinds(shown) + 1
            /\ (shown = <<>> \/ event > shown[Len(shown)]) => Rewinds(shown') = Rewinds(shown)
        BY <1>0, <3>1, RewindsOfAppend
      <4> QED BY <1>1, <3>5, <4>1, <4>2, <4>3, <4>4
    <3>7. LastShown' <= made'
      BY <1>0, <3>1, <3>2
    <3> QED BY <3>4, <3>6, <3>7 DEF Accounted, paid
  <2>4. nothing \/ pays \/ Show
    BY <1>8 DEF GetEvtNext, Start, Signal, PollFails, Follow, Wake, NothingNew, SeesNext, Absent, ReadNew,
         Vanished, Matches, FilteredOut, Truncate, Save, story
  <2> HIDE DEF pays, nothing
  <2> QED BY <2>1, <2>2, <2>3, <2>4
<1>9. CASE UNCHANGED vars
  <2>1. LogStays /\ UNCHANGED getevt
    BY <1>9 DEF vars, sel, LogStays
  <2> QED BY <1>7, <2>1
<1> QED BY <1>5, <1>6, <1>7, <1>8, <1>9, StepOnLog

-----------------------------------------------------------------------------
(* What is passed over.                                                    *)

\* The events that are dealt with stay so.
Settled == Range(shown) \cup waived \cup firsts

LEMMA DealtIs ==
    \A rec : Dealt(rec) <=> rec.ev \in Settled \/ rec.kind \notin setup.filter
  BY DEF Dealt, Settled

LEMMA SettledGrows ==
    ASSUME LogInOrder, GetEvtTypeOK, [Next]_vars
    PROVE  Settled \subseteq Settled'
<1>1. firsts \subseteq firsts'
  <2>1. CASE Add
    BY <2>1 DEF Add
  <2>2. CASE ClearSel
    BY <2>2 DEF ClearSel, Clear
  <2>3. CASE LogStays
    BY <2>3 DEF LogStays
  <2>4. CASE UNCHANGED vars
    BY <2>4 DEF vars, sel
  <2> QED BY <2>1, <2>2, <2>3, <2>4, StepOnLog
<1>2. waived \subseteq waived' /\ (shown' = shown \/ shown' = Append(shown, event))
  <2>1. CASE UNCHANGED getevt
    BY <2>1 DEF getevt, daemon, story
  <2>2. CASE GetEvtNext
    BY <2>2 DEF GetEvtNext, Start, StartFails, Signal, Kill, PollFails, Follow, Wake, NothingNew, SeesNext, Absent,
         ReadNew, Vanished, Matches, FilteredOut, Show, Truncate, Save, story
  <2>3. CASE UNCHANGED vars
    BY <2>1, <2>3 DEF vars
  <2> QED BY <2>1, <2>2, <2>3, StepOnLog
<1>3. Range(shown) \subseteq Range(shown')
  <2>1. shown \in Seq(Nat) /\ event \in Nat
    BY Numbers
  <2>2. \A i \in DOMAIN shown : i \in DOMAIN Append(shown, event) /\ Append(shown, event)[i] = shown[i]
    BY <2>1
  <2> QED BY <1>2, <2>2 DEF Range
<1> QED BY <1>1, <1>2, <1>3 DEF Settled

LEMMA NonePassedWhenLogChanges ==
    ASSUME LogInOrder, GetEvtTypeOK, Positions, NonePassed, UNCHANGED getevt, Add \/ log' = <<>>,
           setup' = setup, Settled \subseteq Settled'
    PROVE  NonePassed'
<1>1. UNCHANGED <<at, sel_recid, handled, idxfile, saved>>
  BY DEF getevt, daemon, story
<1>2. handled <= made /\ saved <= made /\ handled \in Nat /\ saved \in Nat
  BY Numbers DEF Positions, Ahead
<1>3. ASSUME NEW id, NEW ev \in Nat, NEW hand, ev <= made, Behind(id, ev, hand),
             id \in DOMAIN log', log'[id].ev = ev, NEW i \in 1..id
      PROVE  (log'[i].ev \in Settled' \/ log'[i].kind \notin setup'.filter) \/ log'[i].ev = hand
  <2>1. Add
    BY <1>3
  <2>2. id \in DOMAIN log \/ id = Len(log) + 1
    BY <1>3, <2>1, Added, Options
  <2>3. id # Len(log) + 1
    BY <1>3, <2>1, Added, Options
  <2>4. id \in 1..Len(log) /\ i \in 1..Len(log)
    BY <2>2, <2>3, Options
  <2>5. log'[id] = log[id] /\ log'[i] = log[i]
    BY <2>1, <2>4, Added, Options
  <2>6. Dealt(log[i]) \/ log[i].ev = hand
    BY <1>3, <2>2, <2>3, <2>5 DEF Behind
  <2> QED BY <2>5, <2>6, DealtIs
<1>4. (at # "off" => Behind(sel_recid, handled, IF InHand THEN handled ELSE 0))'
  <2> SUFFICES ASSUME at' # "off", sel_recid' \in DOMAIN log', log'[sel_recid'].ev = handled', NEW i \in 1..sel_recid'
               PROVE  Dealt(log[i])' \/ log'[i].ev = (IF InHand' THEN handled' ELSE 0)
    BY DEF Behind
  <2>1. Behind(sel_recid, handled, IF InHand THEN handled ELSE 0)
    BY <1>1 DEF NonePassed
  <2>2. InHand' = InHand
    BY <1>1 DEF InHand
  <2>3. (log'[i].ev \in Settled' \/ log'[i].kind \notin setup'.filter) \/ log'[i].ev = (IF InHand THEN handled ELSE 0)
    BY <1>1, <1>2, <1>3, <2>1
  <2> QED BY <1>1, <2>2, <2>3 DEF Dealt, Settled
<1>5. Behind(idxfile, saved, 0)'
  <2> SUFFICES ASSUME idxfile' \in DOMAIN log', log'[idxfile'].ev = saved', NEW i \in 1..idxfile'
               PROVE  Dealt(log[i])' \/ log'[i].ev = 0
    BY DEF Behind
  <2>1. Behind(idxfile, saved, 0)
    BY DEF NonePassed
  <2>2. (log'[i].ev \in Settled' \/ log'[i].kind \notin setup'.filter) \/ log'[i].ev = 0
    BY <1>1, <1>2, <1>3, <2>1
  <2> QED BY <2>2 DEF Dealt, Settled
<1> QED BY <1>4, <1>5 DEF NonePassed

\* What the daemon does leaves nothing behind that is not dealt with.
LEMMA NonePassedWhenDaemonMoves ==
    ASSUME LogInOrder, GetEvtTypeOK, Positions, NonePassed, GetEvtNext, LogStays, Settled \subseteq Settled'
    PROVE  NonePassed'
<1> USE DEF LogStays
<1>0. 0 \notin DOMAIN log /\ Empty \notin DOMAIN log /\ sel_recid \in Nat
  BY Options, Numbers DEF Empty
<1>1. \A rec : Dealt(rec) => (rec.ev \in Settled' \/ rec.kind \notin setup'.filter)
  BY DealtIs
<1>2. \A id, ev, hand : Behind(id, ev, hand) =>
          (id \in DOMAIN log' /\ log'[id].ev = ev =>
              \A i \in 1..id : (log'[i].ev \in Settled' \/ log'[i].kind \notin setup'.filter) \/ log'[i].ev = hand)
  BY <1>1 DEF Behind
<1>3. NonePassed' <=>
         /\ at' # "off" => (sel_recid' \in DOMAIN log' /\ log'[sel_recid'].ev = handled' =>
              \A i \in 1..sel_recid' : \/ log'[i].ev \in Settled' \/ log'[i].kind \notin setup'.filter
                                       \/ log'[i].ev = (IF InHand' THEN handled' ELSE 0))
         /\ (idxfile' \in DOMAIN log' /\ log'[idxfile'].ev = saved' =>
              \A i \in 1..idxfile' : \/ log'[i].ev \in Settled' \/ log'[i].kind \notin setup'.filter
                                     \/ log'[i].ev = 0)
  BY DEF NonePassed, Behind, Dealt, Settled
<1>4. Behind(idxfile, saved, 0)
  BY DEF NonePassed
\* What is in hand.
<1>5. InHand => \A i \in DOMAIN log : log[i].ev = handled => log[i].kind = rdata.kind
  BY DEF Positions
<1>6. CASE Start
  <2>1. at' = "last" /\ sel_recid' = Started /\ ~InHand' /\ UNCHANGED <<idxfile, saved>>
    BY <1>6 DEF Start, Goto, InHand
  <2>2. CASE idxfile = NoFile
    <3>1. Events(log) \subseteq Settled'
      BY <1>6, <2>2 DEF Start, Settled
    <3>2. Started = Len(log) /\ \A i \in 1..Len(log) : log[i].ev \in Settled'
      BY <2>2, <3>1, StartsAt, Options DEF Events
    <3> QED BY <1>2, <1>3, <1>4, <2>1, <3>2
  <2>3. CASE idxfile = Empty
    <3>1. Started = 0
      BY <2>3, StartsAt
    <3> QED BY <1>0, <1>2, <1>3, <1>4, <2>1, <3>1
  <2>4. CASE idxfile \in Nat
    <3>1. Started = idxfile /\ handled' = saved
      BY <1>6, <2>4, StartsAt DEF Start, NoFile, Empty
    <3> QED BY <1>2, <1>3, <1>4, <2>1, <3>1
  <2> QED BY <2>2, <2>3, <2>4, Numbers
<1>7. CASE StartFails
  <2>1. sel_recid' = 0 /\ UNCHANGED <<idxfile, saved>>
    BY <1>7 DEF StartFails
  <2> QED BY <1>0, <1>2, <1>3, <1>4, <2>1
<1>8. CASE Signal
  <2>1. at # "off" /\ ~InHand' /\ UNCHANGED <<sel_recid, handled, idxfile, saved>>
    BY <1>8 DEF Signal, Goto, InHand
  <2>2. Behind(sel_recid, handled, IF InHand THEN handled ELSE 0)
    BY <2>1 DEF NonePassed
  <2>3. CASE InHand
    <3>1. handled \in Settled'
      BY <1>8, <2>3 DEF Signal, InHand, Positions, Settled
    <3> QED BY <1>2, <1>3, <1>4, <2>1, <2>2, <2>3, <3>1
  <2>4. CASE ~InHand
    BY <1>2, <1>3, <1>4, <2>1, <2>2, <2>4
  <2> QED BY <2>3, <2>4
<1>9. CASE Kill
  <2>1. at' = "off" /\ UNCHANGED <<idxfile, saved>>
    BY <1>9 DEF Kill, Goto
  <2> QED BY <1>2, <1>3, <1>4, <2>1
<1>10. CASE PollFails
  <2>1. /\ ~InHand /\ ~InHand' /\ at # "off" /\ at' # "off" /\ UNCHANGED <<sel_recid, handled, idxfile, saved>>
    BY <1>10 DEF PollFails, Goto, story, InHand
  <2> QED BY <1>2, <1>3, <2>1 DEF NonePassed
<1>11. CASE Wake
  <2>1. /\ ~InHand /\ ~InHand' /\ at # "off" /\ at' # "off" /\ UNCHANGED <<sel_recid, handled, idxfile, saved>>
    BY <1>11 DEF Wake, Goto, story, InHand
  <2> QED BY <1>2, <1>3, <2>1 DEF NonePassed
<1>12. CASE NothingNew
  <2>1. /\ ~InHand /\ ~InHand' /\ at # "off" /\ at' # "off" /\ UNCHANGED <<sel_recid, handled, idxfile, saved>>
    BY <1>12 DEF NothingNew, Wait, Goto, InHand
  <2> QED BY <1>2, <1>3, <2>1 DEF NonePassed
<1>13. CASE SeesNext
  <2>1. /\ ~InHand /\ ~InHand' /\ at # "off" /\ at' # "off" /\ UNCHANGED <<sel_recid, handled, idxfile, saved>>
    BY <1>13 DEF SeesNext, Goto, InHand
  <2> QED BY <1>2, <1>3, <2>1 DEF NonePassed
<1>14. CASE Absent
  <2>1. sel_recid' = 0 /\ UNCHANGED <<idxfile, saved>>
    BY <1>14 DEF Absent
  <2> QED BY <1>0, <1>2, <1>3, <1>4, <2>1
<1>15. CASE ReadNew
  <2>1. /\ sel_recid' = nextid /\ handled' = Found(nextid).ev /\ InHand' /\ UNCHANGED <<idxfile, saved>>
        /\ at = "new" /\ Present(nextid)
    BY <1>15 DEF ReadNew, Goto, InHand
  <2>2. nextid \in DOMAIN log /\ Found(nextid) = log[nextid]
    BY <2>1, NextIs, InLog
  <2>3. ASSUME NEW i \in 1..nextid, i # nextid
        PROVE  log[i].ev \in Settled' \/ log[i].kind \notin setup'.filter
    <3>1. CASE sel_recid = 0
      <4>1. i = 1 /\ log # <<>>
        BY <2>1, <2>2, <2>3, <3>1, NextIs
      <4>2. log[1].ev \in Settled
        BY <4>1 DEF LogInOrder, Settled
      <4> QED BY <4>1, <4>2
    <3>2. CASE sel_recid # 0
      <4>1. i \in 1..sel_recid /\ Present(sel_recid) /\ Position(sel_recid) = sel_recid
        BY <1>0, <2>1, <2>3, <3>2, NextIs
      <4>2. sel_recid \in DOMAIN log /\ Found(sel_recid) = log[sel_recid]
        BY <4>1, InLog
      <4>3. CASE Found(sel_recid).ev = handled
        <5>1. Behind(sel_recid, handled, 0)
          BY <2>1 DEF NonePassed, InHand
        <5>2. Dealt(log[i]) \/ log[i].ev = 0
          BY <4>1, <4>2, <4>3, <5>1 DEF Behind
        <5>3. log[i].ev # 0
          <6>1. i \in DOMAIN log
            BY <4>1, <4>2, Options
          <6> QED BY <6>1, Options, Fields
        <5> QED BY <1>1, <5>2, <5>3
      <4>4. CASE Found(sel_recid).ev # handled
        <5>1. log[i].ev \in Overrun
          BY <3>2, <4>1, <4>4, OverrunIs
        <5>2. Overrun \subseteq Settled'
          BY <1>15 DEF ReadNew, Settled
        <5> QED BY <5>1, <5>2
      <4> QED BY <4>3, <4>4
    <3> QED BY <3>1, <3>2
  <2> QED BY <1>2, <1>3, <1>4, <2>1, <2>2, <2>3
<1>16. CASE Vanished
  <2>1. /\ ~InHand /\ ~InHand' /\ at # "off" /\ at' # "off" /\ UNCHANGED <<sel_recid, handled, idxfile, saved>>
    BY <1>16 DEF Vanished, Goto, story, InHand
  <2> QED BY <1>2, <1>3, <2>1 DEF NonePassed
<1>17. CASE Matches
  <2>1. InHand /\ InHand' /\ at # "off" /\ UNCHANGED <<sel_recid, handled, idxfile, saved>>
    BY <1>17 DEF Matches, Goto, story, InHand
  <2> QED BY <1>2, <1>3, <2>1 DEF NonePassed
<1>18. CASE FilteredOut
  <2>1. /\ InHand /\ at # "off" /\ UNCHANGED <<sel_recid, handled, idxfile, saved>>
        /\ rdata.kind \notin setup.filter
    BY <1>18 DEF FilteredOut, InHand
  <2>2. Behind(sel_recid, handled, handled)
    BY <2>1 DEF NonePassed
  <2>3. ASSUME sel_recid \in DOMAIN log, log[sel_recid].ev = handled, NEW i \in 1..sel_recid
        PROVE  log[i].ev \in Settled' \/ log[i].kind \notin setup'.filter
    <3>1. Dealt(log[i]) \/ log[i].ev = handled
      BY <2>2, <2>3 DEF Behind
    <3>2. i \in DOMAIN log
      BY <2>3, Options
    <3> QED BY <1>1, <1>5, <2>1, <3>1, <3>2
  <2> QED BY <1>2, <1>3, <1>4, <2>1, <2>3
<1>19. CASE Show
  <2>1. /\ at = "show" /\ InHand /\ ~InHand' /\ UNCHANGED <<sel_recid, handled, idxfile, saved>>
        /\ shown' = Append(shown, event)
    BY <1>19 DEF Show, Goto, story, InHand
  <2>2. Behind(sel_recid, handled, handled)
    BY <2>1 DEF NonePassed
  <2>3. event = handled => handled \in Settled'
    <3>1. shown \in Seq(Nat) /\ event \in Nat
      BY Numbers
    <3>2. event \in Range(shown')
      <4>1. Len(shown) + 1 \in DOMAIN shown' /\ shown'[Len(shown) + 1] = event
        BY <2>1, <3>1
      <4> QED BY <4>1 DEF Range
    <3> QED BY <3>2 DEF Settled
  <2>4. event = handled \/ rdata.kind \notin setup.filter
    BY <2>1 DEF Positions
  <2>5. ASSUME sel_recid \in DOMAIN log, log[sel_recid].ev = handled, NEW i \in 1..sel_recid
        PROVE  log[i].ev \in Settled' \/ log[i].kind \notin setup'.filter
    <3>1. Dealt(log[i]) \/ log[i].ev = handled
      BY <2>2, <2>5 DEF Behind
    <3>2. i \in DOMAIN log
      BY <2>5, Options
    <3> QED BY <1>1, <1>5, <2>1, <2>3, <2>4, <3>1, <3>2
  <2> QED BY <1>2, <1>3, <1>4, <2>1, <2>5
<1>20. CASE Truncate
  <2>1. /\ ~InHand /\ ~InHand' /\ at # "off" /\ UNCHANGED <<sel_recid, handled>> /\ idxfile' = Empty
    BY <1>20 DEF Truncate, Goto, story, InHand
  <2> QED BY <1>0, <1>2, <1>3, <2>1 DEF NonePassed
<1>21. CASE Save
  <2>1. /\ ~InHand /\ ~InHand' /\ at # "off" /\ UNCHANGED <<sel_recid, handled>>
        /\ idxfile' = sel_recid /\ saved' = handled
    BY <1>21 DEF Save, Goto, InHand
  <2>2. Behind(sel_recid, handled, 0)
    BY <2>1 DEF NonePassed
  <2> QED BY <1>2, <1>3, <2>1, <2>2
<1> QED BY <1>6, <1>7, <1>8, <1>9, <1>10, <1>11, <1>12, <1>13, <1>14, <1>15, <1>16, <1>17, <1>18, <1>19,
           <1>20, <1>21 DEF GetEvtNext, Follow

\* Nothing is passed over, in any step.
LEMMA NonePassedStep ==
    ASSUME LogInOrder, GetEvtTypeOK, Positions, NonePassed, [Next]_vars
    PROVE  NonePassed'
<1>1. Settled \subseteq Settled' /\ setup' = setup
  BY SettledGrows, SetupStays
<1>2. CASE Add /\ UNCHANGED getevt
  BY <1>1, <1>2, NonePassedWhenLogChanges
<1>3. CASE ClearSel /\ UNCHANGED getevt
  <2>1. log' = <<>>
    BY <1>3 DEF ClearSel, Clear
  <2> QED BY <1>1, <1>3, <2>1, NonePassedWhenLogChanges
<1>4. CASE LogStays /\ UNCHANGED getevt
  BY <1>4 DEF LogStays, getevt, daemon, story, NonePassed, Behind, Dealt, InHand
<1>5. CASE GetEvtNext /\ LogStays
  BY <1>1, <1>5, NonePassedWhenDaemonMoves
<1>6. CASE UNCHANGED vars
  BY <1>4, <1>6 DEF vars, sel, LogStays
<1> QED BY <1>2, <1>3, <1>4, <1>5, <1>6, StepOnLog

-----------------------------------------------------------------------------
(* The theorems.                                                           *)

LEMMA InvAtFirst == Init => Inv
<1> SUFFICES ASSUME Init PROVE Inv
  OBVIOUS
<1> USE DEF Init
<1>1. LogInOrder
  BY LogAtFirst
<1>2. GetEvtTypeOK
  BY <1>1, Options, SelAssumption DEF GetEvtInit, GetEvtTypeOK, Steps, SelAssumption
<1>3. IselTypeOK
  BY <1>1, Options, SelAssumption DEF IselInit, IselTypeOK, SelAssumption
<1>4. TypeOK
  BY <1>1, <1>2, <1>3 DEF TypeOK, LogInOrder
<1>5. Ahead(0, 0) /\ made \in Nat
  BY <1>1, AheadOf, Options
<1>6. Positions
  BY <1>5 DEF GetEvtInit, Positions, Working, InHand, Capacity, LAST_REC, NoFile
<1>7. Rewinds(shown) = 0
  <2>1. {i \in 1..(Len(shown) - 1) : shown[i + 1] <= shown[i]} = {}
    BY DEF GetEvtInit
  <2> QED BY <2>1, FS_EmptySet DEF Rewinds
<1>8. Accounted
  BY <1>5, <1>7 DEF GetEvtInit, Accounted, Orderly, LastShown
<1>9. NonePassed
  BY <1>1, Options DEF GetEvtInit, NonePassed, Behind, NoFile
<1> QED BY <1>1, <1>4, <1>6, <1>8, <1>9 DEF Inv

LEMMA InvStep == Inv /\ [Next]_vars => Inv'
  BY LogStep, TypeStep, PositionsStep, AccountedStep, NonePassedStep DEF Inv, TypeOK

LEMMA InvMeans == Inv => FollowsTheLog
<1> SUFFICES ASSUME Inv PROVE FollowsTheLog
  OBVIOUS
<1> USE DEF Inv
<1>1. GetEvtTypeOK
  BY DEF TypeOK
<1>2. ASSUME at \in {"off", "last"}, idxfile # NoFile, Present(Standing.id),
             Standing.id = First \/ Found(Standing.id).ev = Standing.ev,
             NEW i \in 1..Position(Standing.id)
      PROVE  Dealt(log[i])
  <2> DEFINE id == Standing.id
             ev == Standing.ev
  <2>1. CASE id = First
    <3>1. Position(id) = 1 /\ 1 \in DOMAIN log
      BY <1>2, <2>1, InLog DEF Position
    <3>2. i = 1 /\ log # <<>>
      BY <1>2, <3>1
    <3> QED BY <3>2 DEF LogInOrder, Dealt
  <2>2. CASE id # First
    <3>1. Found(id).ev = ev
      BY <1>2, <2>2
    <3>2. id \in 0..Capacity /\ Behind(id, ev, 0)
      <4>1. CASE at = "off"
        <5>1. id = Started /\ ev = saved
          BY <4>1 DEF Standing
        <5>2. idxfile \in Nat /\ Started = idxfile
          BY <1>1, <1>2, <2>2, <5>1, Numbers, StartsAt DEF First
        <5> QED BY <1>1, <5>1, <5>2, StartsAt DEF NonePassed
      <4>2. CASE at = "last"
        <5>1. id = sel_recid /\ ev = handled
          BY <4>2 DEF Standing
        <5>2. Behind(sel_recid, handled, 0)
          BY <4>2 DEF NonePassed, InHand
        <5> QED BY <1>1, <5>1, <5>2, Numbers DEF Positions
      <4> QED BY <1>2, <4>1, <4>2
    <3> HIDE DEF id, ev
    <3>3. Position(id) = id
      <4>1. id # LAST_REC
        BY <3>2, Ids
      <4> QED BY <2>2, <4>1 DEF Position
    <3>4. id \in DOMAIN log /\ Found(id) = log[id]
      BY <1>2, <3>3, InLog DEF id
    <3>5. Dealt(log[i]) \/ log[i].ev = 0
      BY <1>2, <3>1, <3>2, <3>3, <3>4 DEF Behind, id
    <3>6. i \in DOMAIN log
      BY <1>2, <3>3, <3>4, Options DEF id
    <3> QED BY <3>5, <3>6, Options, Fields
  <2> QED BY <2>1, <2>2
<1> QED BY <1>2 DEF FollowsTheLog, Accounted

\* The log is in order, and every position that the daemon has, or has saved,
\* is ahead of what it dealt with, whatever happens to the log and to it.
THEOREM Invariant == Spec => []Inv
  BY InvAtFirst, InvStep, PTL DEF Spec

\* The daemon shows the events in order and passes none over: for any number
\* of events, clears, restarts, signals, deaths and failed commands.
THEOREM DaemonFollowsTheLog == Spec => []FollowsTheLog
  BY Invariant, InvMeans, PTL
-----------------------------------------------------------------------------
(* The cron job.  Its position is a time and an id, of what sel -w wrote     *)
(* last, and like the daemon's it goes stale when the log is cleared.        *)

\* The times of the log, as its records, are in order.
TimesInOrder ==
    /\ \A i \in DOMAIN log : log[i].timestamp <= clock
    /\ \A i, j \in DOMAIN log : i < j => log[i].timestamp <= log[j].timestamp

\* What sel.idx says: without the file, and with an empty one, the beginning.
IdxTime == IF selidx = NoIndex THEN 0 ELSE selidx.time
IdxId == IF selidx = NoIndex THEN 0 ELSE selidx.id

Writes == writing /\ pc \in {"first", "read", "again", "stop", "write"}
Reads == pc \in {"read", "again", "stop"} \/ (user = "no" /\ pc \in {"clear", "erase"})

\* Where the cron job is and what it has in hand.
CronPositions ==
    /\ TimesInOrder
    /\ readTo \in Nat /\ readTo <= made /\ refused \in Nat /\ kept \in Nat
    /\ savev \in Nat /\ savev <= made /\ idxev \in Nat /\ idxev <= made
    /\ savtime <= clock /\ IdxTime <= clock
    /\ savid <= Capacity /\ IdxId <= Capacity
    /\ seen \subseteq 0..made
    /\ pc \in {"first", "again", "write"} => writing
    /\ user = "no" /\ pc \in {"clear", "erase"} => ~writing
    /\ pc = "first" => RecordID = savid
    /\ Reads => RecordID = LAST_REC \/ RecordID \in 0..Len(log)
    /\ Writes /\ RecordID = LAST_REC => \A e \in seen : e <= readTo

\* sel -e has copied what it has read.
CopiesAll ==
    user = "no" /\ ~writing /\ pc \in {"read", "stop", "clear", "erase"} =>
        \A i \in DOMAIN log : HasRead(i) => log[i].ev \in copied

\* The record is among those written, or was taken for one of before the clear
\* at the time k - 1 because its index is still there.
Done(rec, written, k) ==
    \/ rec.ev \in written
    \/ k > 0 /\ (rec.kind = "oem" \/ rec.timestamp < k)

\* It is not new by its time.
Old(rec, time) == rec.kind = "oem" \/ rec.timestamp <= time

\* A position, which is a time and an id that stood for the event ev, takes no
\* record for old that is not done with: if the id still stands for ev, none up
\* to there; and if the log has become too short, none that is yet to come.
Stands(records, written, k, time, id, ev) ==
    /\ id \in DOMAIN records /\ records[id].ev = ev =>
           \A i \in 1..id : Done(records[i], written, k) /\ Old(records[i], time)
    /\ Len(records) < id => k > 0 /\ time < k
    /\ \A i \in DOMAIN records : Old(records[i], time) /\ i <= id => Done(records[i], written, k)

\* The records that a position takes for new are newer than the event ev.
Follows(records, time, id, ev) ==
    \A i \in DOMAIN records : ~Old(records[i], time) \/ i > id => records[i].ev > ev

\* What sel -w has read is done with, and not new any more by its time.
WritesAll ==
    writing /\ pc \in {"read", "again", "stop"} =>
        \A i \in DOMAIN log : HasRead(i) => Done(log[i], Range(syslog), kept) /\ Old(log[i], savtime)

LastWritten == IF syslog = <<>> THEN 0 ELSE syslog[Len(syslog)]

\* The next event to be written will be newer than the last one.
InOrder ==
    IF Writes THEN Follows(log, savtime, savid, LastWritten)
    ELSE IF pc = "forget" THEN Follows(log, 0, 0, LastWritten)
    ELSE Follows(log, IdxTime, IdxId, LastWritten)

\* Rewinds are paid for by runs cut off and clears refused; one to come is, too.
Paid ==
    /\ LastWritten <= made
    /\ Rewinds(syslog) <= breaks + refused
    /\ ~InOrder => Rewinds(syslog) < breaks + refused

\* The positions are good, as long as no run went on from one that was not.
GoodPositions ==
    /\ Stands(log, Range(syslog), kept, IdxTime, IdxId, idxev)
    /\ Writes => Stands(log, Range(syslog), kept, savtime, savid, savev)

CronInv == CronPositions /\ CopiesAll /\ (~overgrown => GoodPositions /\ WritesAll /\ Paid)

\* The numbers of the cron job.
LEMMA CronNumbers ==
    ASSUME LogInOrder, TypeOK
    PROVE  /\ savtime \in Nat /\ savid \in Nat /\ IdxTime \in Nat /\ IdxId \in Nat
           /\ clock \in Nat /\ made \in Nat /\ breaks \in Nat /\ syslog \in Seq(Nat) /\ LastWritten \in Nat
           /\ RecordID \in Nat /\ Rewinds(syslog) \in Nat
           /\ syslog # <<>> => LastWritten = syslog[Len(syslog)]
<1>1. MaxEvents \in Nat
  BY SelAssumption DEF SelAssumption
<1>2. savtime \in Nat /\ savid \in Nat /\ RecordID \in Nat /\ breaks \in Nat
  BY <1>1 DEF TypeOK, IselTypeOK, LAST_REC
<1>3. IdxTime \in Nat /\ IdxId \in Nat
  BY <1>1 DEF TypeOK, IselTypeOK, IdxTime, IdxId
<1>4. clock \in Nat /\ made \in Nat
  BY Options DEF LogInOrder
<1>5. syslog \in Seq(Nat)
  BY <1>1 DEF TypeOK, IselTypeOK
<1>6. LastWritten \in Nat /\ (syslog # <<>> => LastWritten = syslog[Len(syslog)])
  BY <1>5 DEF LastWritten
<1>7. Rewinds(syslog) \in Nat
  BY <1>5, RewindsOfAppend
<1> QED BY <1>2, <1>3, <1>4, <1>5, <1>6, <1>7

\* A position stays good when more is written ...
LEMMA StandsMore ==
    ASSUME NEW records, NEW w, NEW w2, w \subseteq w2, NEW k, NEW time, NEW id, NEW ev,
           Stands(records, w, k, time, id, ev)
    PROVE  Stands(records, w2, k, time, id, ev)
  BY DEF Stands, Done

\* ... and when the log grows by an event that it does not stand for,
LEMMA StandsGrows ==
    ASSUME NEW records \in Seq(Record), NEW more \in Seq(Record), Len(more) = Len(records) + 1,
           \A i \in DOMAIN records : more[i] = records[i],
           NEW w, NEW k \in Nat, NEW time \in Nat, NEW id \in Nat, NEW ev, more[Len(records) + 1].ev # ev,
           Stands(records, w, k, time, id, ev)
    PROVE  Stands(more, w, k, time, id, ev)
<1>1. Len(records) \in Nat /\ DOMAIN records = 1..Len(records) /\ DOMAIN more = 1..(Len(records) + 1)
  OBVIOUS
<1>2. ASSUME id \in DOMAIN more, more[id].ev = ev, NEW i \in 1..id
      PROVE  Done(more[i], w, k) /\ Old(more[i], time)
  <2>1. id # Len(records) + 1
    BY <1>2
  <2>2. id \in DOMAIN records /\ i \in DOMAIN records
    BY <1>1, <1>2, <2>1
  <2>3. records[id].ev = ev /\ more[i] = records[i]
    BY <1>2, <2>2
  <2> QED BY <1>2, <2>2, <2>3 DEF Stands
<1>3. Len(more) < id => k > 0 /\ time < k
  BY <1>1 DEF Stands
<1>4. ASSUME NEW i \in DOMAIN more, Old(more[i], time), i <= id
      PROVE  Done(more[i], w, k)
  <2>1. CASE i \in DOMAIN records
    BY <1>4, <2>1 DEF Stands
  <2>2. CASE i \notin DOMAIN records
    <3>1. Len(records) < id
      BY <1>1, <1>4, <2>2
    <3>2. k > 0 /\ time < k
      BY <3>1 DEF Stands
    <3>3. more[i].timestamp \in Nat
      <4>1. more[i] \in Record
        BY <1>4
      <4> QED BY <4>1, Fields
    <3> QED BY <1>4, <3>2, <3>3 DEF Old, Done
  <2> QED BY <2>1, <2>2
<1> QED BY <1>2, <1>3, <1>4 DEF Stands

\* when the log is cleared at a later time,
LEMMA StandsCleared ==
    ASSUME NEW records, Len(records) = 0, DOMAIN records = {}, NEW w, NEW k \in Nat, NEW time \in Nat, time < k,
           NEW id, NEW ev
    PROVE  Stands(records, w, k, time, id, ev)
  BY DEF Stands

\* and when it is the beginning, or all up to it is done with.
LEMMA StandsAtFirst ==
    ASSUME NEW records \in Seq(Record), NEW w, NEW k, NEW time, NEW ev
    PROVE  Stands(records, w, k, time, 0, ev)
  BY DEF Stands

LEMMA StandsAt ==
    ASSUME NEW records \in Seq(Record), NEW w, NEW k, NEW time, NEW id \in DOMAIN records, NEW ev,
           \A i \in 1..id : Done(records[i], w, k) /\ Old(records[i], time)
    PROVE  Stands(records, w, k, time, id, ev)
<1>1. id \in 1..Len(records) /\ Len(records) \in Nat /\ ~(Len(records) < id)
  OBVIOUS
<1> QED BY <1>1 DEF Stands

\* What a position takes for new stays newer when the log grows.
LEMMA FollowsGrows ==
    ASSUME NEW records \in Seq(Record), NEW more \in Seq(Record), Len(more) = Len(records) + 1,
           \A i \in DOMAIN records : more[i] = records[i],
           NEW time, NEW id, NEW ev, more[Len(records) + 1].ev > ev, Follows(records, time, id, ev)
    PROVE  Follows(more, time, id, ev)
<1>1. \A i \in DOMAIN more : i \in DOMAIN records \/ i = Len(records) + 1
  OBVIOUS
<1> QED BY <1>1 DEF Follows

LEMMA FollowsFromFirst ==
    ASSUME NEW records \in Seq(Record), NEW ev, Follows(records, 0, 0, ev), NEW time, NEW id
    PROVE  Follows(records, time, id, ev)
  BY DEF Follows

LEMMA CronAtFirst == Init => CronInv
<1> SUFFICES ASSUME Init PROVE CronInv
  OBVIOUS
<1>1. LogInOrder /\ TypeOK
  BY InvAtFirst DEF Inv
<1>2. /\ pc = "idle" /\ writing = TRUE /\ RecordID = 0 /\ savtime = 0 /\ savid = 0 /\ selidx = NoIndex /\ user = "no"
      /\ syslog = <<>> /\ breaks = 0 /\ refused = 0 /\ seen = {} /\ readTo = 0 /\ savev = 0 /\ idxev = 0
      /\ kept = 0 /\ overgrown = FALSE /\ clock = 0
      /\ log = [i \in 1..made |-> [id |-> i, ev |-> i, kind |-> "sensor", timestamp |-> 0]]
  BY DEF Init, SelInit, IselInit
<1>3. IdxTime = 0 /\ IdxId = 0 /\ LastWritten = 0 /\ made \in Nat /\ ~Writes
  BY <1>1, <1>2, CronNumbers DEF IdxTime, IdxId, LastWritten, Writes
<1>4. DOMAIN log = 1..made /\ \A i \in 1..made : log[i].timestamp = 0
  BY <1>2
<1>5. TimesInOrder
  BY <1>2, <1>3, <1>4 DEF TimesInOrder
<1>6. CronPositions
  BY <1>2, <1>3, <1>5 DEF CronPositions, Reads, Writes, Capacity, LAST_REC
<1>7. CopiesAll /\ WritesAll
  BY <1>2 DEF CopiesAll, WritesAll
<1>8. GoodPositions
  BY <1>1, <1>3, StandsAtFirst DEF GoodPositions, LogInOrder
<1>9. Paid
  <2>1. Rewinds(syslog) = 0
    BY <1>2, FS_EmptySet DEF Rewinds
  <2>2. Follows(log, 0, 0, 0)
    BY <1>1, Options, Fields DEF Follows
  <2>3. InOrder
    BY <1>2, <1>3, <2>2 DEF InOrder
  <2> QED BY <1>2, <1>3, <2>1, <2>3 DEF Paid
<1> QED BY <1>6, <1>7, <1>8, <1>9 DEF CronInv

\* An event is added to the log.
LEMMA CronWhenLogGrows ==
    ASSUME LogInOrder, TypeOK, CronInv, Add, UNCHANGED isel
    PROVE  CronInv'
<1>0. /\ UNCHANGED <<pc, writing, RecordID, savtime, savid, selidx, user, syslog, copied, breaks, refused, seen,
                     readTo, savev, idxev, kept, overgrown>>
  BY DEF isel
<1>1. /\ log' \in Seq(Record) /\ log \in Seq(Record) /\ Len(log') = Len(log) + 1 /\ made' = made + 1
      /\ \A i \in DOMAIN log : log'[i] = log[i]
      /\ log'[Len(log) + 1].ev = made + 1
  BY Added DEF LogInOrder
<1>2. clock' \in Nat /\ clock <= clock' /\ log'[Len(log) + 1].timestamp = clock'
  <2>1. PICK k \in setup.kinds :
            log' = Append(log, [id |-> Len(log) + 1, ev |-> made + 1, kind |-> k, timestamp |-> clock'])
    BY DEF Add
  <2>2. log'[Len(log) + 1] = [id |-> Len(log) + 1, ev |-> made + 1, kind |-> k, timestamp |-> clock']
    BY <1>1, <2>1
  <2>3. clock' \in Nat /\ clock <= clock'
    BY CronNumbers DEF Add
  <2> QED BY <2>2, <2>3
<1>3. CronPositions /\ CopiesAll
  BY DEF CronInv
<1>4. /\ savtime \in Nat /\ savid \in Nat /\ IdxTime \in Nat /\ IdxId \in Nat
      /\ clock \in Nat /\ made \in Nat /\ LastWritten \in Nat /\ RecordID \in Nat
      /\ kept \in Nat /\ savev \in Nat /\ savev <= made /\ idxev \in Nat /\ idxev <= made /\ readTo \in Nat /\ readTo <= made
  BY <1>3, CronNumbers DEF CronPositions
<1>5. /\ DOMAIN log = 1..Len(log) /\ Len(log) \in Nat /\ DOMAIN log' = 1..(Len(log) + 1)
      /\ \A i \in DOMAIN log' : i \in DOMAIN log \/ i = Len(log) + 1
  BY <1>1
<1>6. IdxTime' = IdxTime /\ IdxId' = IdxId /\ Writes' = Writes /\ Reads' = Reads /\ LastWritten' = LastWritten
  BY <1>0 DEF IdxTime, IdxId, Writes, Reads, LastWritten
<1>7. TimesInOrder'
  <2>1. TimesInOrder /\ \A i \in DOMAIN log : log[i].timestamp \in Nat
    BY <1>3, Options, Fields DEF CronPositions
  <2>2. \A i \in DOMAIN log' : log'[i].timestamp <= clock'
    BY <1>1, <1>2, <1>4, <1>5, <2>1 DEF TimesInOrder
  <2>3. ASSUME NEW i \in DOMAIN log', NEW j \in DOMAIN log', i < j
        PROVE  log'[i].timestamp <= log'[j].timestamp
    <3>1. i \in DOMAIN log
      BY <1>5, <2>3
    <3>2. CASE j \in DOMAIN log
      BY <1>1, <2>1, <2>3, <3>1, <3>2 DEF TimesInOrder
    <3>3. CASE j = Len(log) + 1
      BY <1>2, <2>2, <3>3
    <3> QED BY <1>5, <3>2, <3>3
  <2> QED BY <2>2, <2>3 DEF TimesInOrder
<1>8. CronPositions'
  <2>1. Reads => RecordID = LAST_REC \/ RecordID \in 0..Len(log')
    BY <1>1, <1>3, <1>4, <1>5 DEF CronPositions
  <2>2. savtime <= clock' /\ IdxTime <= clock'
    BY <1>2, <1>3, <1>4 DEF CronPositions
  <2>3. readTo <= made' /\ savev <= made' /\ idxev <= made' /\ seen \subseteq 0..made'
    BY <1>1, <1>3, <1>4 DEF CronPositions
  <2>4. /\ refused \in Nat /\ savid <= Capacity /\ IdxId <= Capacity
        /\ pc \in {"first", "again", "write"} => writing
        /\ user = "no" /\ pc \in {"clear", "erase"} => ~writing
        /\ pc = "first" => RecordID = savid
        /\ Writes /\ RecordID = LAST_REC => \A e \in seen : e <= readTo
    BY <1>3 DEF CronPositions
  <2> QED BY <1>0, <1>4, <1>6, <1>7, <2>1, <2>2, <2>3, <2>4 DEF CronPositions
<1>9. ASSUME NEW i \in DOMAIN log', Reads, HasRead(i)'
      PROVE  i \in DOMAIN log /\ log'[i] = log[i] /\ HasRead(i)
  <2>1. i # Len(log) + 1
    <3>1. CASE RecordID = LAST_REC
      BY <1>0, <1>1, <1>4, <1>9, <3>1 DEF HasRead
    <3>2. CASE RecordID # LAST_REC
      <4>1. RecordID <= Len(log) /\ i < RecordID
        BY <1>0, <1>3, <1>5, <1>9, <3>2 DEF HasRead, CronPositions
      <4> QED BY <1>4, <1>5, <4>1
    <3> QED BY <3>1, <3>2
  <2>2. i \in DOMAIN log /\ log'[i] = log[i]
    BY <1>1, <1>5, <2>1
  <2> QED BY <1>0, <1>9, <2>2 DEF HasRead
<1>10. CopiesAll'
  <2> SUFFICES ASSUME user = "no", ~writing, pc \in {"read", "stop", "clear", "erase"},
                      NEW i \in DOMAIN log', HasRead(i)'
               PROVE  log'[i].ev \in copied
    BY <1>0 DEF CopiesAll
  <2>1. i \in DOMAIN log /\ log'[i] = log[i] /\ HasRead(i)
    BY <1>9 DEF Reads
  <2> QED BY <1>3, <2>1 DEF CopiesAll
<1>11. WritesAll => WritesAll'
  <2> SUFFICES ASSUME WritesAll, writing, pc \in {"read", "again", "stop"}, NEW i \in DOMAIN log', HasRead(i)'
               PROVE  Done(log'[i], Range(syslog), kept) /\ Old(log'[i], savtime)
    BY <1>0 DEF WritesAll
  <2>1. i \in DOMAIN log /\ log'[i] = log[i] /\ HasRead(i)
    BY <1>9 DEF Reads
  <2> QED BY <2>1 DEF WritesAll
<1>12. GoodPositions => GoodPositions'
  <2> SUFFICES ASSUME GoodPositions PROVE GoodPositions'
    OBVIOUS
  <2>1. made + 1 # idxev /\ made + 1 # savev
    BY <1>4
  <2>2. Stands(log', Range(syslog), kept, IdxTime, IdxId, idxev)
    BY <1>1, <1>4, <2>1, StandsGrows DEF GoodPositions
  <2>3. Writes => Stands(log', Range(syslog), kept, savtime, savid, savev)
    BY <1>1, <1>4, <2>1, StandsGrows DEF GoodPositions
  <2> QED BY <1>0, <1>6, <2>2, <2>3 DEF GoodPositions
<1>13. Paid => Paid'
  <2> SUFFICES ASSUME Paid PROVE Paid'
    OBVIOUS
  <2>1. LastWritten <= made /\ LastWritten <= made' /\ made + 1 > LastWritten
    BY <1>1, <1>4 DEF Paid
  <2>2. \A time, id : Follows(log, time, id, LastWritten) => Follows(log', time, id, LastWritten)
    BY <1>1, <2>1, FollowsGrows
  <2>3. InOrder => InOrder'
    BY <1>0, <1>6, <2>2 DEF InOrder
  <2> QED BY <1>0, <1>6, <2>1, <2>3 DEF Paid
<1> QED BY <1>0, <1>8, <1>10, <1>11, <1>12, <1>13 DEF CronInv

\* A step that leaves the log and the cron job alone.
LEMMA CronWhenIdle ==
    ASSUME CronInv, LogStays, UNCHANGED isel
    PROVE  CronInv'
<1>0. UNCHANGED <<pc, writing, RecordID, savtime, savid, selidx, user, syslog, copied, breaks, refused, seen,
                  readTo, savev, idxev, kept, overgrown, log, made, clock>>
  BY DEF isel, LogStays
<1>1. IdxTime' = IdxTime /\ IdxId' = IdxId /\ Writes' = Writes /\ Reads' = Reads /\ LastWritten' = LastWritten
  BY <1>0 DEF IdxTime, IdxId, Writes, Reads, LastWritten
<1>2. CronPositions => CronPositions'
  BY <1>0, <1>1 DEF CronPositions, TimesInOrder
<1>3. (CopiesAll => CopiesAll') /\ (WritesAll => WritesAll')
  BY <1>0 DEF CopiesAll, WritesAll, HasRead
<1>4. (GoodPositions => GoodPositions') /\ (InOrder' <=> InOrder)
  BY <1>0, <1>1 DEF GoodPositions, InOrder
<1>5. Paid => Paid'
  BY <1>0, <1>1, <1>4 DEF Paid
<1> QED BY <1>0, <1>2, <1>3, <1>4, <1>5 DEF CronInv

\* A record is read.
LEMMA CronWhenItReads ==
    ASSUME LogInOrder, TypeOK, CronInv, ReadEntry
    PROVE  CronInv'
<1> DEFINE p == Position(RecordID)
           rec == log[p]
<1>0. CronPositions /\ CopiesAll /\ TimesInOrder
  BY DEF CronInv, CronPositions
<1>1. /\ p \in DOMAIN log /\ p \in 1..Len(log) /\ Found(RecordID) = rec /\ rec \in Record /\ rec.ev \in 1..made
      /\ rec.id = p /\ p <= Capacity /\ p \in Nat /\ Len(log) \in Nat /\ DOMAIN log = 1..Len(log)
      /\ rec.timestamp \in Nat
  BY InLog, Options, Fields DEF ReadEntry
<1>2. /\ savtime \in Nat /\ savid \in Nat /\ clock \in Nat /\ made \in Nat /\ syslog \in Seq(Nat) /\ LastWritten \in Nat
      /\ RecordID \in Nat /\ Rewinds(syslog) \in Nat /\ breaks \in Nat /\ refused \in Nat
  BY <1>0, CronNumbers DEF CronPositions
<1>3. /\ RecordID # LAST_REC
      /\ RecordID = 0 => p = 1
      /\ RecordID # 0 => p = RecordID
  BY DEF ReadEntry, Position, First
<1>4. \/ p = Len(log) /\ Following(RecordID) = LAST_REC
      \/ p + 1 <= Len(log) /\ Following(RecordID) = p + 1
  BY <1>1 DEF Following, NextId
<1>5. LAST_REC \notin 0..Len(log)
  BY DEF LogInOrder, Capacity, LAST_REC
<1>6. Following(RecordID) # p
  BY <1>1, <1>4, <1>5
<1> HIDE DEF p, rec
<1>7. /\ pc' = "read" /\ RecordID' = Following(RecordID) /\ readTo' = made
      /\ copied' = (IF ~writing THEN copied \cup {rec.ev} ELSE copied)
      /\ UNCHANGED <<log, made, clock, writing, selidx, user, breaks, refused, seen, idxev, kept>>
      /\ overgrown' = (overgrown \/ (pc = "first" /\ savid # 0 /\ rec.ev # savev))
      /\ pc \in {"first", "read", "again"}
  BY <1>1, <1>6 DEF ReadEntry, Take, Copies, sel
<1>8. \/ /\ writing /\ (~Old(rec, savtime) \/ p > savid)
         /\ syslog' = Append(syslog, rec.ev) /\ savid' = p /\ savev' = rec.ev
         /\ savtime' = IF rec.kind = "oem" THEN savtime ELSE rec.timestamp
      \/ ~writing /\ UNCHANGED <<syslog, savid, savev, savtime>>
      \/ writing /\ Old(rec, savtime) /\ p <= savid /\ UNCHANGED <<syslog, savid, savev, savtime>>
  <2>1. Newer(rec) <=> ~Old(rec, savtime) \/ p > savid
    BY <1>1, <1>2 DEF Newer, Old
  <2>2. Take(rec, Following(RecordID))
    BY <1>1 DEF ReadEntry
  <2> QED BY <1>1, <1>2, <2>1, <2>2 DEF Take
<1>9. /\ IdxTime' = IdxTime /\ IdxId' = IdxId
      /\ Writes <=> writing
      /\ Writes' <=> writing
  BY <1>7 DEF IdxTime, IdxId, Writes
<1>10. \A i \in DOMAIN log : HasRead(i)' <=> i <= p
  <2> SUFFICES ASSUME NEW i \in DOMAIN log PROVE HasRead(i)' <=> i <= p
    OBVIOUS
  <2>1. i \in 1..Len(log) /\ log[i].ev <= made
    BY <1>1 DEF LogInOrder
  <2>2. CASE p = Len(log) /\ Following(RecordID) = LAST_REC
    BY <1>1, <1>7, <2>1, <2>2 DEF HasRead
  <2>3. CASE p + 1 <= Len(log) /\ Following(RecordID) = p + 1
    <3>1. RecordID' = p + 1 /\ p + 1 # LAST_REC
      BY <1>1, <1>5, <1>7, <2>3
    <3> QED BY <1>1, <2>1, <3>1 DEF HasRead
  <2> QED BY <1>4, <2>2, <2>3
<1>11. \A i \in DOMAIN log : i < p => HasRead(i)
  BY <1>1, <1>3 DEF HasRead
<1>12. CronPositions'
  <2>1. TimesInOrder'
    BY <1>0, <1>7 DEF TimesInOrder
  <2>2. savtime' <= clock' /\ savid' <= Capacity /\ savev' \in Nat /\ savev' <= made'
    <3>1. rec.timestamp <= clock
      BY <1>0, <1>1 DEF TimesInOrder, rec
    <3>2. savtime <= clock /\ savid <= Capacity /\ savev \in Nat /\ savev <= made
      BY <1>0 DEF CronPositions
    <3> QED BY <1>1, <1>2, <1>7, <1>8, <3>1, <3>2
  <2>3. RecordID' = LAST_REC \/ RecordID' \in 0..Len(log')
    BY <1>1, <1>4, <1>7
  <2>4. \A e \in seen' : e <= readTo'
    BY <1>0, <1>2, <1>7 DEF CronPositions
  <2>5. readTo' \in Nat /\ readTo' <= made'
    BY <1>2, <1>7
  <2>6. /\ refused' \in Nat /\ kept' \in Nat /\ idxev' \in Nat /\ idxev' <= made' /\ IdxTime' <= clock' /\ IdxId' <= Capacity
        /\ seen' \subseteq 0..made'
    BY <1>0, <1>7, <1>9 DEF CronPositions
  <2> QED BY <1>7, <2>1, <2>2, <2>3, <2>4, <2>5, <2>6 DEF CronPositions
<1>13. CopiesAll'
  <2> SUFFICES ASSUME user = "no", ~writing, NEW i \in DOMAIN log, i <= p
               PROVE  log[i].ev \in copied'
    BY <1>7, <1>10 DEF CopiesAll
  <2>1. pc = "read"
    BY <1>0, <1>7 DEF CronPositions
  <2>2. CASE i = p
    BY <1>7, <2>2 DEF rec
  <2>3. CASE i < p
    BY <1>0, <1>7, <1>11, <2>1, <2>3 DEF CopiesAll
  <2> QED BY <1>1, <2>2, <2>3
<1>14. ASSUME ~overgrown'
       PROVE  GoodPositions' /\ WritesAll' /\ Paid'
  <2>1. GoodPositions /\ WritesAll /\ Paid /\ (pc = "first" /\ savid # 0 => rec.ev = savev)
    BY <1>7, <1>14 DEF CronInv
  <2>2. CASE ~writing
    <3>1. UNCHANGED <<syslog, savid, savev, savtime>> /\ pc # "forget"
      BY <1>7, <1>8, <2>2
    <3>2. LastWritten' = LastWritten
      BY <3>1 DEF LastWritten
    <3>3. GoodPositions' /\ WritesAll'
      BY <1>7, <1>9, <2>1, <2>2, <3>1 DEF GoodPositions, WritesAll
    <3>4. InOrder => InOrder'
      BY <1>7, <1>9, <2>2, <3>1, <3>2 DEF InOrder
    <3> QED BY <1>7, <2>1, <3>1, <3>2, <3>3, <3>4 DEF Paid
  <2>3. CASE writing
    <3>1. \A i \in DOMAIN log : i < p => Done(log[i], Range(syslog), kept) /\ Old(log[i], savtime)
      <4>1. CASE pc = "first"
        <5>1. RecordID = savid
          BY <1>0, <4>1 DEF CronPositions
        <5>2. CASE savid = 0
          BY <1>1, <1>3, <5>1, <5>2
        <5>3. CASE savid # 0
          <6>1. p = savid /\ log[savid].ev = savev /\ savid \in DOMAIN log
            BY <1>1, <1>3, <2>1, <4>1, <5>1, <5>3 DEF rec
          <6>2. Stands(log, Range(syslog), kept, savtime, savid, savev)
            BY <1>9, <2>1, <2>3 DEF GoodPositions
          <6>3. \A i \in 1..savid : Done(log[i], Range(syslog), kept) /\ Old(log[i], savtime)
            BY <6>1, <6>2 DEF Stands
          <6> QED BY <1>1, <6>1, <6>3
        <5> QED BY <5>2, <5>3
      <4>2. CASE pc # "first"
        BY <1>7, <1>11, <2>1, <2>3, <4>2 DEF WritesAll
      <4> QED BY <4>1, <4>2
    <3>2. CASE ~Old(rec, savtime) \/ p > savid
      <4>1. /\ syslog' = Append(syslog, rec.ev) /\ savid' = p /\ savev' = rec.ev
            /\ savtime' = IF rec.kind = "oem" THEN savtime ELSE rec.timestamp
        BY <1>8, <2>3, <3>2, <1>1, <1>2
      <4>2. Range(syslog') = Range(syslog) \cup {rec.ev}
        <5>1. /\ Len(syslog) \in Nat /\ DOMAIN syslog = 1..Len(syslog) /\ DOMAIN syslog' = 1..(Len(syslog) + 1)
              /\ syslog'[Len(syslog) + 1] = rec.ev /\ \A i \in 1..Len(syslog) : syslog'[i] = syslog[i]
          BY <1>1, <1>2, <4>1
        <5>2. \A i \in DOMAIN syslog' : i \in DOMAIN syslog \/ i = Len(syslog) + 1
          BY <5>1
        <5>3. Range(syslog') \subseteq Range(syslog) \cup {rec.ev}
          BY <5>1, <5>2 DEF Range
        <5>4. Range(syslog) \cup {rec.ev} \subseteq Range(syslog')
          BY <5>1 DEF Range
        <5> QED BY <5>3, <5>4
      <4>3. \A i \in DOMAIN log : i <= p => Done(log[i], Range(syslog'), kept) /\ Old(log[i], savtime')
        <5> SUFFICES ASSUME NEW i \in DOMAIN log, i <= p
                     PROVE  Done(log[i], Range(syslog'), kept) /\ Old(log[i], savtime')
          OBVIOUS
        <5>1. CASE i = p
          <6>1. log[i] = rec
            BY <5>1 DEF rec
          <6> QED BY <1>1, <4>1, <4>2, <6>1 DEF Done, Old
        <5>2. CASE i < p
          <6>1. Done(log[i], Range(syslog'), kept) /\ Old(log[i], savtime)
            BY <3>1, <4>2, <5>2 DEF Done
          <6>2. log[i].timestamp <= rec.timestamp
            BY <1>0, <1>1, <5>2 DEF TimesInOrder, rec
          <6> QED BY <4>1, <6>1, <6>2 DEF Old
        <5> QED BY <1>1, <5>1, <5>2
      <4>4. WritesAll'
        BY <1>7, <1>10, <4>3 DEF WritesAll
      <4>5. GoodPositions'
        <5>1. Stands(log, Range(syslog'), kept, IdxTime, IdxId, idxev)
          BY <2>1, <4>2, StandsMore DEF GoodPositions
        <5>2. \A i \in 1..p : Done(log[i], Range(syslog'), kept) /\ Old(log[i], savtime')
          BY <1>1, <4>3
        <5>3. Stands(log, Range(syslog'), kept, savtime', p, rec.ev)
          BY <1>1, <5>2, StandsAt DEF LogInOrder
        <5> QED BY <1>7, <1>9, <4>1, <5>1, <5>3 DEF GoodPositions
      <4>6. LastWritten' = rec.ev /\ rec.ev \in Nat
        BY <1>1, <1>2, <4>1 DEF LastWritten
      <4>7. InOrder'
        <5>1. \A i \in DOMAIN log : i > p => log[i].ev > rec.ev
          <6>1. \A i \in DOMAIN log : i > p => rec.ev < log[i].ev
            BY <1>1 DEF LogInOrder, rec
          <6> QED BY <1>1, <6>1, Options, Fields
        <5>2. Follows(log, savtime', p, rec.ev)
          BY <1>1, <4>3, <5>1 DEF Follows
        <5> QED BY <1>7, <1>9, <2>3, <4>1, <4>6, <5>2 DEF InOrder
      <4>8. Rewinds(syslog') <= breaks + refused
        <5>1. Rewinds(syslog) <= breaks + refused /\ (~InOrder => Rewinds(syslog) < breaks + refused)
          BY <2>1 DEF Paid
        <5>2. InOrder => rec.ev > LastWritten
          BY <1>1, <1>9, <2>3, <3>2 DEF InOrder, Follows, rec
        <5>3. rec.ev > LastWritten => syslog = <<>> \/ rec.ev > syslog[Len(syslog)]
          BY DEF LastWritten
        <5>4. /\ Rewinds(syslog') \in Nat /\ Rewinds(syslog') <= Rewinds(syslog) + 1
              /\ (syslog = <<>> \/ rec.ev > syslog[Len(syslog)]) => Rewinds(syslog') = Rewinds(syslog)
          BY <1>2, <4>1, <4>6, RewindsOfAppend
        <5> QED BY <1>2, <5>1, <5>2, <5>3, <5>4
      <4> QED BY <1>1, <1>7, <4>4, <4>5, <4>6, <4>7, <4>8 DEF Paid
    <3>3. CASE Old(rec, savtime) /\ p <= savid
      <4>1. UNCHANGED <<syslog, savid, savev, savtime>>
        BY <1>1, <1>2, <1>8, <2>3, <3>3
      <4>2. Stands(log, Range(syslog), kept, savtime, savid, savev)
        BY <1>9, <2>1, <2>3 DEF GoodPositions
      <4>3. Done(rec, Range(syslog), kept)
        BY <1>1, <3>3, <4>2 DEF Stands, rec
      <4>4. \A i \in DOMAIN log : i <= p => Done(log[i], Range(syslog), kept) /\ Old(log[i], savtime)
        BY <1>1, <3>1, <3>3, <4>3 DEF rec
      <4>5. WritesAll'
        BY <1>7, <1>10, <4>1, <4>4 DEF WritesAll
      <4>6. GoodPositions'
        BY <1>7, <1>9, <2>1, <4>1 DEF GoodPositions
      <4>7. LastWritten' = LastWritten
        BY <4>1 DEF LastWritten
      <4>8. InOrder => InOrder'
        BY <1>7, <1>9, <2>3, <4>1, <4>7 DEF InOrder
      <4> QED BY <1>7, <2>1, <4>1, <4>5, <4>6, <4>7, <4>8 DEF Paid
    <3> QED BY <1>1, <1>2, <3>2, <3>3
  <2> QED BY <2>2, <2>3
<1> QED BY <1>12, <1>13, <1>14 DEF CronInv

\* A step that pays for a rewind.
LEMMA CronPays ==
    ASSUME TypeOK, LogInOrder, Paid, CronPositions, UNCHANGED <<syslog, made>>,
           \/ breaks' = breaks + 1 /\ refused' = refused
           \/ breaks' = breaks /\ refused' = refused + 1
    PROVE  Paid'
<1>1. LastWritten' = LastWritten /\ Rewinds(syslog') = Rewinds(syslog)
  BY DEF LastWritten
<1>2. breaks \in Nat /\ refused \in Nat /\ Rewinds(syslog) \in Nat
  BY CronNumbers DEF CronPositions
<1>3. Rewinds(syslog') < breaks' + refused' /\ Rewinds(syslog') <= breaks' + refused'
  BY <1>1, <1>2 DEF Paid
<1> QED BY <1>1, <1>3 DEF Paid

\* The reading ends, or begins again at the beginning.
LEMMA CronWhenNoEntry ==
    ASSUME LogInOrder, TypeOK, CronInv, pc \in {"first", "read", "again"}, NoEntry, LogStays,
           UNCHANGED <<writing, savtime, savid, selidx, user, syslog, copied, runs, clears, breaks, refused,
                       seen, readTo, savev, idxev, kept, overgrown>>
    PROVE  CronInv'
<1>0. CronPositions /\ CopiesAll
  BY DEF CronInv
<1>1. UNCHANGED <<log, made, clock>>
  BY DEF LogStays
<1>2. /\ IdxTime' = IdxTime /\ IdxId' = IdxId /\ LastWritten' = LastWritten
      /\ Writes <=> writing
  BY DEF IdxTime, IdxId, LastWritten, Writes
<1>3. TimesInOrder'
  BY <1>0, <1>1 DEF CronPositions, TimesInOrder
<1>4. GoodPositions /\ Writes' = Writes => GoodPositions'
  BY <1>1, <1>2 DEF GoodPositions
<1>5. pc' # "forget" /\ pc # "forget"
  BY DEF NoEntry
<1>6. Paid /\ Writes' = Writes => Paid'
  <2>1. Writes' = Writes => (InOrder' <=> InOrder)
    BY <1>1, <1>2, <1>5 DEF InOrder
  <2> QED BY <1>1, <1>2, <2>1 DEF Paid
<1>7. CASE pc # "again" /\ writing /\ RecordID = savid
  <2>1. RecordID' = 0 /\ pc' = "again"
    BY <1>7 DEF NoEntry
  <2>2. Writes' = Writes
    BY <1>2, <1>7, <2>1 DEF Writes
  <2>3. 0 # LAST_REC /\ 0 \in 0..Len(log)
    BY Options DEF LAST_REC
  <2>4. CronPositions'
    BY <1>0, <1>1, <1>2, <1>3, <1>7, <2>1, <2>3 DEF CronPositions
  <2>5. CopiesAll' /\ WritesAll'
    <3>1. \A i \in DOMAIN log : ~(i < 0)
      BY Options
    <3> QED BY <1>1, <1>7, <2>1, <2>3, <3>1 DEF CopiesAll, WritesAll, HasRead
  <2> QED BY <1>4, <1>6, <2>2, <2>4, <2>5 DEF CronInv
<1>8. CASE ~(pc # "again" /\ writing /\ RecordID = savid)
  <2>1. RecordID' = RecordID /\ pc' = "stop"
    BY <1>8 DEF NoEntry
  <2>2. pc # "first" /\ Reads /\ Writes' = Writes
    BY <1>0, <1>2, <1>8, <2>1 DEF CronPositions, Reads, Writes
  <2>3. \A i : HasRead(i)' <=> HasRead(i)
    BY <1>1, <2>1 DEF HasRead
  <2>4. CronPositions'
    BY <1>0, <1>1, <1>2, <1>3, <2>1, <2>2 DEF CronPositions
  <2>5. CopiesAll'
    <3>1. ~writing => pc = "read"
      BY <1>0, <2>2 DEF CronPositions
    <3> QED BY <1>0, <1>1, <2>1, <2>3, <3>1 DEF CopiesAll
  <2>6. WritesAll => WritesAll'
    BY <1>1, <2>1, <2>2, <2>3 DEF WritesAll
  <2> QED BY <1>4, <1>6, <2>2, <2>4, <2>5, <2>6 DEF CronInv
<1> QED BY <1>7, <1>8

\* sel -w begins where sel.idx says.
LEMMA CronWhenItWrites ==
    ASSUME LogInOrder, TypeOK, CronInv, Write
    PROVE  CronInv'
<1>0. CronPositions
  BY DEF CronInv
<1>1. /\ pc = "idle" /\ pc' = "first" /\ writing' = TRUE /\ RecordID' = savid' /\ seen' = Events(log) /\ savev' = idxev
      /\ user' = "no" /\ savtime' = IdxTime /\ savid' = IdxId
      /\ UNCHANGED <<log, made, clock, selidx, syslog, copied, breaks, refused, readTo, idxev, kept, overgrown>>
  BY DEF Write, StartWriting, IdxTime, IdxId, sel
<1>2. IdxTime' = IdxTime /\ IdxId' = IdxId /\ LastWritten' = LastWritten /\ Writes' /\ ~Writes /\ ~Reads'
  BY <1>1 DEF IdxTime, IdxId, LastWritten, Writes, Reads
<1>3. seen' \subseteq 0..made' /\ RecordID' # LAST_REC
  <2>1. Events(log) \subseteq 0..made
    BY Options, Fields DEF Events, LogInOrder
  <2>2. IdxId <= Capacity /\ IdxId \in Nat
    BY <1>0, CronNumbers DEF CronPositions
  <2>3. IdxId # LAST_REC
    BY <2>2, Ids
  <2> QED BY <1>1, <2>1, <2>3
<1>4. CronPositions'
  BY <1>0, <1>1, <1>2, <1>3 DEF CronPositions, TimesInOrder
<1>5. CopiesAll' /\ WritesAll'
  BY <1>1 DEF CopiesAll, WritesAll
<1>6. GoodPositions => GoodPositions'
  BY <1>1, <1>2 DEF GoodPositions
<1>7. InOrder => InOrder'
  BY <1>1, <1>2 DEF InOrder
<1> QED BY <1>1, <1>2, <1>4, <1>5, <1>6, <1>7 DEF CronInv, Paid

\* sel -e begins at the beginning.
LEMMA CronWhenItCopies ==
    ASSUME LogInOrder, TypeOK, CronInv, Copy
    PROVE  CronInv'
<1>1. /\ pc = "idle" /\ pc' = "read" /\ writing' = FALSE /\ RecordID' = 0
      /\ UNCHANGED <<log, made, clock, savtime, savid, selidx, user, syslog, copied, breaks, refused, seen, readTo, savev,
                     idxev, kept, overgrown>>
  BY DEF Copy, sel
<1>2. IdxTime' = IdxTime /\ IdxId' = IdxId /\ LastWritten' = LastWritten /\ ~Writes' /\ ~Writes
  BY <1>1 DEF IdxTime, IdxId, LastWritten, Writes
<1>3. 0 # LAST_REC /\ 0 \in 0..Len(log) /\ \A i \in DOMAIN log : ~(i < 0)
  BY Options DEF LAST_REC
<1>4. CronPositions => CronPositions'
  BY <1>1, <1>2, <1>3 DEF CronPositions, TimesInOrder
<1>5. CopiesAll' /\ WritesAll'
  BY <1>1, <1>3 DEF CopiesAll, WritesAll, HasRead
<1>6. GoodPositions => GoodPositions'
  BY <1>1, <1>2 DEF GoodPositions
<1>7. InOrder => InOrder'
  BY <1>1, <1>2 DEF InOrder
<1> QED BY <1>1, <1>2, <1>4, <1>5, <1>6, <1>7 DEF CronInv, Paid

\* The index is emptied ...
LEMMA CronWhenItStops ==
    ASSUME LogInOrder, TypeOK, CronInv, Stop
    PROVE  CronInv'
<1>1. /\ pc = "stop"
      /\ UNCHANGED <<log, made, clock, writing, RecordID, savtime, savid, user, syslog, copied, breaks, refused, seen,
                     readTo, savev, kept, overgrown>>
      /\ \/ writing /\ selidx' = EmptyIndex /\ idxev' = 0 /\ pc' = "write"
         \/ ~writing /\ UNCHANGED <<selidx, idxev>> /\ pc' = "clear"
  BY DEF Stop, sel
<1>2. /\ LastWritten' = LastWritten /\ (Writes <=> writing) /\ (Writes' <=> writing) /\ Reads
      /\ log \in Seq(Record) /\ clock \in Nat
  BY <1>1, CronNumbers DEF LastWritten, Writes, Reads, LogInOrder
<1>3. \/ writing /\ IdxTime' = 0 /\ IdxId' = 0
      \/ ~writing /\ IdxTime' = IdxTime /\ IdxId' = IdxId
  BY <1>1 DEF IdxTime, IdxId, EmptyIndex, NoIndex
<1>4. CronPositions => CronPositions'
  <2> SUFFICES ASSUME CronPositions PROVE CronPositions'
    OBVIOUS
  <2>1. TimesInOrder'
    BY <1>1 DEF CronPositions, TimesInOrder
  <2>2. IdxTime' <= clock' /\ IdxId' <= Capacity /\ idxev' \in Nat /\ idxev' <= made'
    <3>1. /\ IdxTime <= clock /\ IdxId <= Capacity /\ idxev \in Nat /\ idxev <= made
          /\ clock \in Nat /\ made \in Nat
      BY CronNumbers DEF CronPositions
    <3>2. clock' = clock /\ made' = made /\ (idxev' = 0 \/ idxev' = idxev)
      BY <1>1
    <3>3. 0 <= Capacity /\ 0 <= clock /\ 0 <= made
      BY <3>1, Ids
    <3> QED BY <1>3, <3>1, <3>2, <3>3
  <2>3. /\ Reads' => RecordID' = LAST_REC \/ RecordID' \in 0..Len(log')
        /\ Writes' /\ RecordID' = LAST_REC => \A e \in seen' : e <= readTo'
        /\ pc' \in {"first", "again", "write"} => writing'
        /\ user' = "no" /\ pc' \in {"clear", "erase"} => ~writing'
        /\ pc' # "first"
    BY <1>1, <1>2 DEF CronPositions
  <2> QED BY <1>1, <2>1, <2>2, <2>3 DEF CronPositions
<1>5. (CopiesAll => CopiesAll') /\ WritesAll'
  BY <1>1 DEF CopiesAll, WritesAll, HasRead
<1>6. GoodPositions => GoodPositions'
  <2>1. Stands(log, Range(syslog), kept, 0, 0, 0)
    BY <1>2, StandsAtFirst
  <2> QED BY <1>1, <1>2, <1>3, <2>1 DEF GoodPositions
<1>7. InOrder => InOrder'
  BY <1>1, <1>2, <1>3 DEF InOrder
<1> QED BY <1>1, <1>2, <1>4, <1>5, <1>6, <1>7 DEF CronInv, Paid

\* ... and written.
LEMMA CronWhenItSaves ==
    ASSUME LogInOrder, TypeOK, CronInv, StopWriting
    PROVE  CronInv'
<1>0. CronPositions
  BY DEF CronInv
<1>1. /\ pc = "write" /\ pc' = "idle" /\ selidx' = [time |-> savtime, id |-> savid] /\ idxev' = savev
      /\ UNCHANGED <<log, made, clock, writing, RecordID, savtime, savid, user, syslog, copied, breaks, refused, seen,
                     readTo, savev, kept, overgrown>>
  BY DEF StopWriting, sel
<1>2. IdxTime' = savtime /\ IdxId' = savid
  <2>1. selidx' # NoIndex
    BY <1>1, CronNumbers DEF NoIndex
  <2> QED BY <1>1, <2>1 DEF IdxTime, IdxId
<1>3. LastWritten' = LastWritten /\ Writes /\ ~Writes' /\ ~Reads'
  BY <1>0, <1>1 DEF LastWritten, Writes, Reads, CronPositions
<1>4. CronPositions'
  BY <1>0, <1>1, <1>2, <1>3 DEF CronPositions, TimesInOrder
<1>5. CopiesAll' /\ WritesAll'
  BY <1>1 DEF CopiesAll, WritesAll
<1>6. GoodPositions => GoodPositions'
  BY <1>1, <1>2, <1>3 DEF GoodPositions
<1>7. InOrder => InOrder'
  BY <1>1, <1>2, <1>3 DEF InOrder
<1> QED BY <1>1, <1>3, <1>4, <1>5, <1>6, <1>7 DEF CronInv, Paid

\* A user clears the log, a reservation is made.
LEMMA CronBeforeItClears ==
    ASSUME LogInOrder, TypeOK, CronInv, UserClears \/ ReserveSel
    PROVE  CronInv'
<1>1. /\ \/ pc = "idle" /\ pc' = "clear" /\ user' # "no"
         \/ pc = "clear" /\ pc' = "erase" /\ user' = user
      /\ UNCHANGED <<log, made, clock, writing, RecordID, savtime, savid, selidx, syslog, copied, breaks, refused, seen,
                     readTo, savev, idxev, kept, overgrown>>
  BY DEF UserClears, ReserveSel, Reserve, sel
<1>2. IdxTime' = IdxTime /\ IdxId' = IdxId /\ LastWritten' = LastWritten /\ ~Writes' /\ ~Writes /\ (Reads' => Reads)
  BY <1>1 DEF IdxTime, IdxId, LastWritten, Writes, Reads
<1>3. CronPositions => CronPositions'
  BY <1>1, <1>2 DEF CronPositions, TimesInOrder
<1>4. (CopiesAll => CopiesAll') /\ WritesAll'
  BY <1>1 DEF CopiesAll, WritesAll, HasRead
<1>5. GoodPositions => GoodPositions'
  BY <1>1, <1>2 DEF GoodPositions
<1>6. InOrder => InOrder'
  BY <1>1, <1>2 DEF InOrder
<1> QED BY <1>1, <1>2, <1>3, <1>4, <1>5, <1>6 DEF CronInv, Paid

\* The log is cleared.
LEMMA CronWhenItClears ==
    ASSUME LogInOrder, TypeOK, CronInv, ClearSel
    PROVE  CronInv'
<1>0. CronPositions
  BY DEF CronInv
<1>1. /\ pc = "erase" /\ pc' \in {"idle", "forget"} /\ log' = <<>> /\ kept' = clock + 1
      /\ UNCHANGED <<made, clock, writing, RecordID, savtime, savid, selidx, user, syslog, copied, breaks, refused, seen,
                     readTo, savev, idxev, overgrown>>
  BY DEF ClearSel, Clear, Cleared
<1>2. IdxTime' = IdxTime /\ IdxId' = IdxId /\ LastWritten' = LastWritten /\ ~Writes' /\ ~Writes /\ ~Reads'
  BY <1>1 DEF IdxTime, IdxId, LastWritten, Writes, Reads
<1>3. Len(log') = 0 /\ DOMAIN log' = {} /\ clock \in Nat /\ IdxTime \in Nat /\ IdxTime <= clock
  BY <1>0, <1>1, CronNumbers DEF CronPositions
<1>4. CronPositions'
  <2>1. TimesInOrder' /\ kept' \in Nat
    BY <1>1, <1>3 DEF TimesInOrder
  <2> QED BY <1>0, <1>1, <1>2, <2>1 DEF CronPositions
<1>5. CopiesAll' /\ WritesAll'
  BY <1>1 DEF CopiesAll, WritesAll
<1>6. GoodPositions'
  <2>1. kept' \in Nat /\ IdxTime < kept'
    BY <1>1, <1>3
  <2>2. Stands(log', Range(syslog), kept', IdxTime, IdxId, idxev)
    BY <1>3, <2>1, StandsCleared
  <2> QED BY <1>1, <1>2, <2>2 DEF GoodPositions
<1>7. InOrder'
  BY <1>2, <1>3 DEF InOrder, Follows
<1> QED BY <1>1, <1>2, <1>4, <1>5, <1>6, <1>7 DEF CronInv, Paid

\* It is not.
LEMMA CronWhenItIsRefused ==
    ASSUME LogInOrder, TypeOK, CronInv, ClearFails
    PROVE  CronInv'
<1>0. CronPositions
  BY DEF CronInv
<1>1. /\ pc \in {"clear", "erase"} /\ pc' \in {"idle", "forget"} /\ refused' = refused + 1
      /\ UNCHANGED <<log, made, clock, writing, RecordID, savtime, savid, selidx, user, syslog, copied, breaks, seen,
                     readTo, savev, idxev, kept, overgrown>>
  BY DEF ClearFails, CommandFails, Cleared, sel
<1>2. IdxTime' = IdxTime /\ IdxId' = IdxId /\ ~Writes' /\ ~Writes /\ ~Reads'
  BY <1>1 DEF IdxTime, IdxId, Writes, Reads
<1>3. CronPositions'
  BY <1>0, <1>1, <1>2 DEF CronPositions, TimesInOrder
<1>4. CopiesAll' /\ WritesAll'
  BY <1>1 DEF CopiesAll, WritesAll
<1>5. GoodPositions => GoodPositions'
  BY <1>1, <1>2 DEF GoodPositions
<1>6. Paid => Paid'
  BY <1>0, <1>1, CronPays
<1> QED BY <1>1, <1>3, <1>4, <1>5, <1>6 DEF CronInv

\* sel.idx is removed, or its id forgotten.
LEMMA CronWhenItForgets ==
    ASSUME LogInOrder, TypeOK, CronInv, Forget
    PROVE  CronInv'
<1>0. CronPositions
  BY DEF CronInv
<1>1. /\ pc = "forget" /\ pc' = "idle" /\ user' = "-d" /\ idxev' = 0 /\ kept' = 0
      /\ \/ selidx' = NoIndex /\ UNCHANGED <<savtime, savid, savev>>
         \/ savtime' = IdxTime /\ savid' = 0 /\ savev' = 0 /\ selidx' = [time |-> IdxTime, id |-> 0]
      /\ UNCHANGED <<log, made, clock, writing, RecordID, syslog, copied, breaks, refused, seen, readTo, overgrown>>
  BY DEF Forget, sel, IdxTime
<1>2. IdxId' = 0 /\ (IdxTime' = 0 \/ IdxTime' = IdxTime)
  BY <1>1 DEF IdxTime, IdxId, NoIndex
<1>3. LastWritten' = LastWritten /\ ~Writes' /\ ~Writes /\ ~Reads' /\ log \in Seq(Record) /\ clock \in Nat /\ made \in Nat
  BY <1>1, CronNumbers DEF LastWritten, Writes, Reads, LogInOrder
<1>4. CronPositions'
  <2>1. IdxTime' <= clock' /\ savtime' <= clock' /\ IdxId' <= Capacity /\ savid' <= Capacity
    BY <1>0, <1>1, <1>2, <1>3, Ids DEF CronPositions
  <2>2. savev' \in Nat /\ savev' <= made' /\ idxev' \in Nat /\ idxev' <= made' /\ kept' \in Nat
    BY <1>0, <1>1, <1>3 DEF CronPositions
  <2>3. TimesInOrder'
    BY <1>0, <1>1 DEF CronPositions, TimesInOrder
  <2> QED BY <1>0, <1>1, <1>3, <2>1, <2>2, <2>3 DEF CronPositions
<1>5. CopiesAll' /\ WritesAll'
  BY <1>1 DEF CopiesAll, WritesAll
<1>6. GoodPositions'
  BY <1>1, <1>2, <1>3, StandsAtFirst DEF GoodPositions
<1>7. InOrder => InOrder'
  <2>1. Follows(log, 0, 0, LastWritten) => Follows(log, IdxTime', IdxId', LastWritten)
    BY <1>3, FollowsFromFirst
  <2> QED BY <1>1, <1>3, <2>1 DEF InOrder
<1> QED BY <1>1, <1>3, <1>4, <1>5, <1>6, <1>7 DEF CronInv, Paid

\* The run is cut off.
LEMMA CronWhenItIsCut ==
    ASSUME LogInOrder, TypeOK, CronInv, Cut
    PROVE  CronInv'
<1>0. CronPositions
  BY DEF CronInv
<1>1. /\ pc' = "idle" /\ user' = "-d" /\ breaks' = breaks + 1
      /\ UNCHANGED <<log, made, clock, writing, RecordID, savtime, savid, selidx, syslog, copied, refused, seen,
                     readTo, savev, idxev, kept, overgrown>>
  BY DEF Cut, sel
<1>2. IdxTime' = IdxTime /\ IdxId' = IdxId /\ ~Writes' /\ ~Reads'
  BY <1>1 DEF IdxTime, IdxId, Writes, Reads
<1>3. CronPositions'
  BY <1>0, <1>1, <1>2 DEF CronPositions, TimesInOrder
<1>4. CopiesAll' /\ WritesAll'
  BY <1>1 DEF CopiesAll, WritesAll
<1>5. GoodPositions => GoodPositions'
  BY <1>1, <1>2 DEF GoodPositions
<1>6. Paid => Paid'
  BY <1>0, <1>1, CronPays
<1> QED BY <1>1, <1>3, <1>4, <1>5, <1>6 DEF CronInv

LEMMA CronStep ==
    ASSUME LogInOrder, TypeOK, CronInv, [Next]_vars
    PROVE  CronInv'
<1>1. CASE Add /\ UNCHANGED <<getevt, isel>>
  BY <1>1, CronWhenLogGrows
<1>2. CASE LogStays /\ UNCHANGED isel
  BY <1>2, CronWhenIdle
<1>3. CASE IselNext
  <2>1. CASE EndOfLog
    <3>1. LogStays
      BY <2>1 DEF EndOfLog, sel, LogStays
    <3> QED BY <2>1, <3>1, CronWhenNoEntry DEF EndOfLog
  <2>2. CASE ReadFails
    <3>1. LogStays
      BY <2>2 DEF ReadFails, CommandFails, LogStays
    <3> QED BY <2>2, <3>1, CronWhenNoEntry DEF ReadFails
  <2> QED BY <1>3, <2>1, <2>2, CronWhenItWrites, CronWhenItCopies, CronWhenItReads, CronWhenItStops, CronWhenItSaves,
             CronBeforeItClears, CronWhenItClears, CronWhenItIsRefused, CronWhenItForgets, CronWhenItIsCut
          DEF IselNext
<1>4. CASE UNCHANGED vars
  BY <1>2, <1>4 DEF vars, sel, LogStays
<1>5. ClearSel => IselNext
  BY DEF IselNext
<1> QED BY <1>1, <1>2, <1>3, <1>4, <1>5, StepOnLog

LEMMA CronMeans == LogInOrder /\ CronInv => WrittenOnce
<1> SUFFICES ASSUME LogInOrder, CronInv, ~overgrown PROVE WrittenOnce
  BY DEF WrittenOnce
<1>1. CronPositions /\ WritesAll /\ Paid
  BY DEF CronInv
<1>2. ASSUME pc = "stop", writing, RecordID = LAST_REC, NEW i \in DOMAIN log, log[i].ev \in seen
      PROVE  Done(log[i], Range(syslog), kept)
  <2>1. log[i].ev <= readTo
    BY <1>1, <1>2 DEF CronPositions, Writes
  <2> QED BY <1>1, <1>2, <2>1 DEF WritesAll, HasRead
<1> QED BY <1>1, <1>2 DEF WrittenOnce, Paid, Done

\* While a clear's reservation is good, no event has come since.
Reserved ==
    /\ made \in Nat /\ reservedTo \in Nat
    /\ pc = "erase" /\ reserved => made = reservedTo

LEMMA ReservedAtFirst == Init => Reserved
<1>1. Init => made \in Nat
  BY LogAtFirst, Options
<1> QED BY <1>1 DEF Init, IselInit, Reserved

LEMMA ReservedStep ==
    ASSUME LogInOrder, LogInOrder', Reserved, [Next]_vars
    PROVE  Reserved'
<1>1. made \in Nat /\ made' \in Nat /\ reservedTo \in Nat
  BY Options DEF LogInOrder, Reserved
<1>2. ASSUME UNCHANGED <<made, reserved, reservedTo>>, pc' = "erase" => pc = "erase"
      PROVE  Reserved'
  BY <1>2 DEF Reserved
<1>3. CASE Add /\ UNCHANGED <<getevt, isel>>
  BY <1>1, <1>3 DEF Add, isel, Reserved
<1>4. CASE GetEvtNext /\ UNCHANGED isel
  <2>1. UNCHANGED <<made, reserved>>
    BY <1>4 DEF GetEvtNext, Start, StartFails, Signal, Kill, PollFails, Follow, Wake, NothingNew,
         SeesNext, Absent, ReadNew, Vanished, Matches, FilteredOut, Show, Truncate, Save, sel, CommandFails
  <2> QED BY <1>2, <1>4, <2>1 DEF isel
<1>5. CASE ReserveSel
  BY <1>1, <1>5 DEF ReserveSel, Reserve, Reserved
<1>6. CASE ClearSel \/ ClearFails \/ Cut
  <2>1. pc' # "erase" /\ reservedTo' = 0
    BY <1>6 DEF ClearSel, ClearFails, Cut, Cleared
  <2> QED BY <1>1, <2>1 DEF Reserved
<1>7. CASE Write \/ Copy \/ EndOfLog \/ ReadFails
  BY <1>2, <1>7 DEF Write, Copy, EndOfLog, ReadFails, NoEntry, CommandFails, sel
<1>8. CASE ReadEntry
  BY <1>2, <1>8 DEF ReadEntry, Take, sel
<1>9. CASE Stop \/ StopWriting \/ UserClears \/ Forget
  BY <1>2, <1>9 DEF Stop, StopWriting, UserClears, Forget, sel
<1>10. CASE UNCHANGED vars
  BY <1>2, <1>10 DEF vars, sel, isel
<1> QED BY <1>3, <1>4, <1>5, <1>6, <1>7, <1>8, <1>9, <1>10 DEF Next, IselNext

\* What a clear erases was there when it reserved; and what sel -e has read of
\* it, checksel has in the copy.
LEMMA ErasesWhatItCopied ==
    ASSUME LogInOrder, CronInv, Reserved, [Next]_vars, log # <<>>, log' = <<>>
    PROVE  MayGo
<1>1. ClearSel
  <2>1. ~Add
    BY Added
  <2>2. ~LogStays
    BY DEF LogStays
  <2>3. ~UNCHANGED vars
    BY DEF vars, sel
  <2> QED BY <2>1, <2>2, <2>3, StepOnLog
<1>2. CronPositions /\ CopiesAll /\ pc = "erase" /\ reserved
  BY <1>1 DEF CronInv, ClearSel, Clear
<1>3. ASSUME NEW i \in DOMAIN log
      PROVE  log[i].ev <= reservedTo
  <2>1. log[i].ev <= made
    BY DEF LogInOrder
  <2> QED BY <1>2, <2>1 DEF Reserved
<1>4. ASSUME user = "no", NEW i \in DOMAIN log, HasRead(i)
      PROVE  log[i].ev \in copied
  <2>1. ~writing
    BY <1>2, <1>4 DEF CronPositions
  <2> QED BY <1>2, <1>4, <2>1 DEF CopiesAll
<1> QED BY <1>3, <1>4 DEF MayGo

\* What sel -w and sel -e have read they have written or copied, and every
\* position of sel -w is good, unless a run went on in a regrown log.
THEOREM CronInvariant == Spec => []CronInv
<1>1. Inv => LogInOrder /\ TypeOK
  BY DEF Inv
<1>2. Inv /\ CronInv /\ [Next]_vars => CronInv'
  BY <1>1, CronStep
<1> QED BY <1>2, CronAtFirst, Invariant, PTL DEF Spec

\* Syslog gets every record, in order and once, but for what the runs cut off
\* and the clears refused account for, and for records that are taken for old
\* ones after a clear by hand: for any number of events, runs and clears.
THEOREM SyslogGetsEachOnce == Spec => []WrittenOnce
<1>1. Inv /\ CronInv => WrittenOnce
  BY CronMeans DEF Inv
<1> QED BY <1>1, Invariant, CronInvariant, PTL

\* No clear erases an event that came after its reservation, and checksel
\* erases none that sel -e has read and that is not in the copy, whether sel -e
\* came to the end or not: for any number of events, runs and clears.
THEOREM NothingIsErasedUnread == Spec => ErasedAreKept
<1>1. Inv /\ Inv' /\ Reserved /\ [Next]_vars => Reserved'
  BY ReservedStep DEF Inv
<1>2. ASSUME Inv, CronInv, Reserved, [Next]_vars
      PROVE  log # <<>> /\ log' = <<>> => MayGo
  BY <1>2, ErasesWhatItCopied DEF Inv
<1>3. Spec => []Reserved
  BY <1>1, ReservedAtFirst, Invariant, PTL DEF Spec
<1> QED BY <1>2, <1>3, Invariant, CronInvariant, PTL DEF Spec, ErasedAreKept
=============================================================================
