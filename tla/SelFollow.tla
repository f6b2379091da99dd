------------------------------- MODULE SelFollow -------------------------------
(***************************************************************************)
(* The event log with its two readers side by side: the daemon of GetEvt    *)
(* and the cron job of Isel, which also clears the log under the daemon.     *)
(***************************************************************************)
EXTENDS GetEvt, Isel

vars == <<sel, getevt, isel>>

Init == SelInit /\ GetEvtInit /\ IselInit

Next ==
    \/ Add /\ UNCHANGED <<getevt, isel>>
    \/ GetEvtNext /\ UNCHANGED isel
    \/ IselNext /\ UNCHANGED getevt

\* The daemon's process runs; nothing is assumed of events, users and cron.
Spec == Init /\ [][Next]_vars /\ WF_vars(Follow /\ UNCHANGED isel)

-----------------------------------------------------------------------------
(* Properties.                                                             *)

\* The state has the types of the code's variables.
TypeOK ==
    /\ log \in Seq(Record)
    /\ GetEvtTypeOK
    /\ IselTypeOK

\* How often a sequence of events goes back or repeats.
Rewinds(s) == Cardinality({i \in 1..(Len(s) - 1) : s[i + 1] <= s[i]})

Dealt(rec) ==
    \/ rec.ev \in Range(shown) \cup waived \cup firsts
    \/ rec.kind \notin setup.filter

\* Where the daemon is, or would start: the id, and the event it stood for.
Standing == IF at = "off" THEN [id |-> Started, ev |-> saved] ELSE [id |-> sel_recid, ev |-> handled]

\* "only new events are processed" (doc/igetevent.8): the daemon shows events
\* in their order and none twice, through clears and restarts (show_event,
\* syncevent_sel), except that it starts over once for each time it died
\* between showing and saving, and for each start that failed and saved the id
\* 0, and shows the last event again when a wait ends on a filtered one.
\* And it passes none over: whatever its position (sel_recid, evt.idx) leaves
\* behind was shown, or was not asked for, or was the first of its log, or was
\* taken off the log by a signal before it was shown, or came to lie behind the
\* id when that had come to name another record, in a log that was cleared and
\* has grown past it (getevent_sel). (The variables have their types.)
FollowsTheLog ==
    /\ TypeOK
    /\ Rewinds(shown) <= kills + rewound + stale
    /\ (at \in {"off", "last"} /\ idxfile # NoFile /\ Present(Standing.id)
          /\ (Standing.id = First \/ Found(Standing.id).ev = Standing.ev)) =>
           \A i \in 1..Position(Standing.id) : Dealt(log[i])

\* Liveness (doc/igetevent.8, "polls the SEL once a second"): while the daemon runs, an
\* event in the log that it is to show is shown at last, unless the log is
\* cleared first, the daemon ends, or the id it stands at was used again behind it.
EventsReported ==
    \A e \in 1..MaxEvents :
        (at # "off" /\ \E i \in DOMAIN log : log[i].ev = e /\ ~Dealt(log[i]))
            ~> (e \in Range(shown) \cup waived \/ at \in {"cleanup", "final", "off"} \/ e \notin Events(log))

\* Syslog gets the records in their order and none twice (ReadSEL), except
\* after a run that was cut off before it saved its index, and after a clear
\* that failed: the script removes, and ClearSEL resets, the index all the same.
\* After a run of sel -w that read to the end of the log, every record that was
\* there when it began is in syslog, in this run or an earlier one: unless the
\* log was cleared without its index and begins with records that are no newer
\* by their time (StartWriting, ClearSEL).  Nothing is said any more once a run
\* went on from the saved id in a log that was cleared and had grown past it.
WrittenOnce ==
    ~overgrown =>
        /\ Rewinds(syslog) <= breaks + refused
        /\ (pc = "stop" /\ writing /\ RecordID = LAST_REC) =>
               \A i \in DOMAIN log :
                   \/ log[i].ev \in Range(syslog)
                   \/ log[i].ev \notin seen
                   \/ kept > 0 /\ (log[i].kind = "oem" \/ log[i].timestamp < kept)

\* What sel -e has read of the log: all that was there at its last read if it
\* came to the end, else the records before the one it asked for last.
HasRead(i) == IF RecordID = LAST_REC THEN log[i].ev <= readTo ELSE i < RecordID

\* The log may go: it holds no event from after the reservation, and, if
\* checksel clears it, none that sel -e has read and not copied.
MayGo ==
    \A i \in DOMAIN log :
        /\ log[i].ev <= reservedTo
        /\ user = "no" => log[i].ev \in copied \/ ~HasRead(i)

\* A clear, by checksel or by hand, erases no event that came after its
\* reservation (ClearSEL).  And when checksel clears the log after sel -e, what
\* sel -e has read of it is in the copy: only events that it has not come to
\* are lost, be it that they came after its last read, or that it ended early
\* by an error, which neither i_sel nor the script looks at.
ErasedAreKept == [][log # <<>> /\ log' = <<>> => MayGo]_vars
=============================================================================
