-------------------------------- MODULE GetEvt --------------------------------
(***************************************************************************)
(* The event daemon that follows the log (util/igetevent.c, getevent -s):    *)
(* it asks for the record after the last one it handled, shows it, and       *)
(* saves its id in the file evt.idx, from which the next start goes on.      *)
(*                                                                         *)
(* A poll is two commands, showing and saving are steps of their own, and    *)
(* saving empties the file before it writes it: the log may change, a        *)
(* signal arrive and the process die between any two of them.                *)
(***************************************************************************)
EXTENDS SelLog

VARIABLES
    at,        \* where the daemon is
    sel_recid, \* the id of the last record handled
    nextid,    \* the id that followed it in the first command of a poll
    rdata,     \* the record read by the poll: event and kind
    event,     \* the event given to show_event, 0 before the first
    polls,     \* polls made for the current event
    idxfile,   \* evt.idx: NoFile, Empty, or the id saved
    shown,     \* the events shown
    starts,    \* starts so far
    \* What happened, for the properties:
    kills,     \* deaths without the handler
    rewound,   \* starts that failed, and so saved the id 0
    stale,     \* times that a wait ended on an event that was filtered out
    handled,   \* the event that sel_recid stood for when it was set
    saved,     \* and the one that the id in evt.idx stood for
    waived     \* events of before the first start, those a signal took from the daemon's hand,
               \* and those behind the id when it came to name another record

daemon == <<at, sel_recid, nextid, rdata, event, polls, idxfile, shown, starts>>
story == <<kills, rewound, stale, handled, saved, waived>>
getevt == <<daemon, story>>

NoFile == -2
Empty == -1
Steps == {"off", "wait", "last", "new", "filter", "show", "truncate", "save", "cleanup", "final"}

GetEvtTypeOK ==
    /\ at \in Steps
    /\ sel_recid \in 0..MaxEvents /\ nextid \in 0..MaxEvents
    /\ rdata \in [ev : 0..MaxEvents, kind : Kinds \cup {"none"}]
    /\ event \in 0..MaxEvents /\ handled \in 0..MaxEvents /\ saved \in 0..MaxEvents
    /\ polls \in Nat /\ starts \in 0..setup.starts /\ kills \in 0..setup.kills
    /\ idxfile \in {NoFile, Empty} \cup (0..MaxEvents)
    /\ shown \in Seq(0..MaxEvents)
    /\ waived \subseteq 1..MaxEvents

GetEvtInit ==
    /\ at = "off"
    /\ sel_recid = 0 /\ nextid = 0 /\ rdata = [ev |-> 0, kind |-> "none"] /\ event = 0 /\ polls = 0
    /\ idxfile = NoFile
    /\ shown = <<>>
    /\ starts = 0 /\ kills = 0 /\ rewound = 0 /\ stale = 0
    /\ handled = 0 /\ saved = 0
    /\ waived = {}

Goto(s) == at' = s
EventAt(r) == IF r # First /\ Present(r) THEN Found(r).ev ELSE 0

-----------------------------------------------------------------------------
(* Starting and stopping.                                                  *)

\* Mutant: a saved id is not used.
StartsOver == IF idxfile = NoFile /\ Present(LAST_REC) THEN Found(LAST_REC).id ELSE 0

\* startevent_sel: the id saved, 0 if the file is empty; without a file the
\* id of the last record, 0 if there is none.
Started ==
    IF idxfile = NoFile THEN IF Present(LAST_REC) THEN Found(LAST_REC).id ELSE 0
    ELSE IF idxfile = Empty THEN 0 ELSE idxfile

Start ==
    /\ at = "off"
    /\ starts < setup.starts
    /\ starts' = starts + 1
    /\ sel_recid' = Started
    /\ handled' = IF idxfile = NoFile THEN EventAt(Started) ELSE IF idxfile = Empty THEN 0 ELSE saved
    /\ waived' = IF idxfile = NoFile THEN waived \cup Events(log) ELSE waived
    /\ polls' = 0
    /\ event' = 0
    /\ Goto("last")
    /\ UNCHANGED <<sel, nextid, rdata, idxfile, shown, kills, rewound, stale, saved>>

\* main leaves for do_exit before startevent_sel (the BMC gives no device id,
\* an option is wrong), and ievt_cleanup saves sel_recid as it was compiled: 0.
StartFails ==
    /\ at = "off"
    /\ starts < setup.starts
    /\ CommandFails
    /\ starts' = starts + 1
    /\ sel_recid' = 0
    /\ handled' = 0
    /\ rewound' = rewound + 1
    /\ Goto("cleanup")
    /\ UNCHANGED <<nextid, rdata, event, polls, idxfile, shown, kills, stale,
                   saved, waived>>

\* SIGINT, SIGQUIT or SIGTERM: the handler saves the id and exits.
Signal ==
    /\ at \notin {"off", "cleanup", "final"}
    /\ waived' = IF at \in {"filter", "show"} THEN waived \cup {rdata.ev} ELSE waived
    /\ Goto("cleanup")
    /\ UNCHANGED <<sel, sel_recid, nextid, rdata, event, polls, idxfile, shown, starts,
                   kills, rewound, stale, handled, saved>>

\* The process dies, or the machine does.
Kill ==
    /\ at # "off"
    /\ kills < setup.kills
    /\ kills' = kills + 1
    /\ Goto("off")
    /\ UNCHANGED <<sel, sel_recid, nextid, rdata, event, polls, idxfile, shown, starts,
                   rewound, stale, handled, saved, waived>>

-----------------------------------------------------------------------------
(* Polling (getevent_sel within get_event).                                *)

\* get_event after a poll that brought nothing: a pause and another one, or a
\* timeout, which ends the daemon.
Wait ==
    IF setup.timeout = 0 THEN polls' = polls /\ Goto("wait")
    ELSE /\ polls' = polls + 1
         /\ Goto(IF polls + 1 < setup.timeout THEN "wait" ELSE "cleanup")

\* do_wait is over.
Wake ==
    /\ at = "wait"
    /\ Goto("last")
    /\ UNCHANGED <<sel, sel_recid, nextid, rdata, event, polls, idxfile, shown, starts, story>>

\* Mutant: an id of 0 is taken for the last one.
FirstIsLast(r) == r = First \/ Following(r) \in {LAST_REC, r}

IsLast(r) == Following(r) \in {LAST_REC, r}

\* The log was cleared and has grown past the id handled last, which the code
\* cannot tell: the records up to there are new, and are passed over.
Overrun ==
    IF sel_recid # First /\ Found(sel_recid).ev # handled
    THEN Events(SubSeq(log, 1, sel_recid)) ELSE {}

\* The first command, for the record handled last: what follows it.
NothingNew ==
    /\ at = "last"
    /\ Present(sel_recid)
    /\ IsLast(sel_recid)
    /\ waived' = waived \cup Overrun
    /\ Wait
    /\ UNCHANGED <<sel, sel_recid, nextid, rdata, event, idxfile, shown, starts,
                   kills, rewound, stale, handled, saved>>

SeesNext ==
    /\ at = "last"
    /\ Present(sel_recid)
    /\ ~IsLast(sel_recid)
    /\ nextid' = Following(sel_recid)
    /\ waived' = waived \cup Overrun
    /\ Goto("new")
    /\ UNCHANGED <<sel, sel_recid, rdata, event, polls, idxfile, shown, starts,
                   kills, rewound, stale, handled, saved>>

\* The log is empty or does not have the record: begin with its first record.
Absent ==
    /\ at = "last"
    /\ ~Present(sel_recid)
    /\ sel_recid' = 0
    /\ handled' = 0
    /\ Wait
    /\ UNCHANGED <<sel, nextid, rdata, event, idxfile, shown, starts, kills, rewound, stale,
                   saved, waived>>

\* The second command, for the record that follows.
ReadNew ==
    /\ at = "new"
    /\ Present(nextid)
    /\ sel_recid' = nextid
    /\ rdata' = [ev |-> Found(nextid).ev, kind |-> Found(nextid).kind]
    /\ handled' = Found(nextid).ev
    /\ waived' = waived \cup Overrun
    /\ Goto("filter")
    /\ UNCHANGED <<sel, nextid, event, polls, idxfile, shown, starts, kills, rewound, stale,
                   saved>>

\* The record has gone in between: an error like any other, which ends the daemon.
Vanished ==
    /\ at = "new"
    /\ ~Present(nextid)
    /\ Goto("cleanup")
    /\ UNCHANGED <<sel, sel_recid, nextid, rdata, event, polls, idxfile, shown, starts, story>>

PollFails ==
    /\ at \in {"last", "new"}
    /\ CommandFails
    /\ Goto("cleanup")
    /\ UNCHANGED <<sel_recid, nextid, rdata, event, polls, idxfile, shown, starts, story>>

\* The event is of the kind asked for: it is handed to main.
Matches ==
    /\ at = "filter"
    /\ rdata.kind \in setup.filter
    /\ event' = rdata.ev
    /\ Goto("show")
    /\ UNCHANGED <<sel, sel_recid, nextid, rdata, polls, idxfile, shown, starts, story>>

\* It is not: get_event goes on; but if this was its last poll, it returns 0,
\* and main takes the event of the time before for a new one.
FilteredOut ==
    /\ at = "filter"
    /\ rdata.kind \notin setup.filter
    /\ LET last == setup.timeout # 0 /\ polls + 1 >= setup.timeout IN
       /\ polls' = IF setup.timeout = 0 THEN polls ELSE polls + 1
       /\ stale' = IF last THEN stale + 1 ELSE stale
       /\ Goto(IF last THEN "show" ELSE "wait")
    /\ UNCHANGED <<sel, sel_recid, nextid, rdata, event, idxfile, shown, starts,
                   kills, rewound, handled, saved, waived>>

-----------------------------------------------------------------------------
(* Handling (the loop of main).                                            *)

Show ==
    /\ at = "show"
    /\ shown' = Append(shown, event)
    /\ Goto("truncate")
    /\ UNCHANGED <<sel, sel_recid, nextid, rdata, event, polls, idxfile, starts, story>>

\* syncevent_sel: fopen("w") empties the file, fprintf and fclose fill it.
Truncate ==
    /\ at \in {"truncate", "cleanup"}
    /\ idxfile' = Empty
    /\ Goto(IF at = "truncate" THEN "save" ELSE "final")
    /\ UNCHANGED <<sel, sel_recid, nextid, rdata, event, polls, shown, starts, story>>

\* After the save the script runs; if it fails, and with
\* option -o in any case, the daemon ends.  The file is saved again at the end,
\* and the process exits.
Save ==
    /\ at \in {"save", "final"}
    /\ idxfile' = sel_recid
    /\ saved' = handled
    /\ polls' = 0
    /\ IF at = "final" THEN Goto("off") ELSE at' \in {"last", "cleanup"}
    /\ UNCHANGED <<sel, sel_recid, nextid, rdata, event, shown, starts, kills, rewound, stale,
                   handled, waived>>

Follow ==
    \/ Wake \/ NothingNew \/ SeesNext \/ Absent \/ ReadNew \/ Vanished
    \/ Matches \/ FilteredOut \/ Show \/ Truncate \/ Save

GetEvtNext == Start \/ StartFails \/ Signal \/ Kill \/ PollFails \/ Follow
=============================================================================
