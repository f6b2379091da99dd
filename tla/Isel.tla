--------------------------------- MODULE Isel ---------------------------------
(***************************************************************************)
(* Reading and clearing the log (util/isel.c), as scripts/checksel does it   *)
(* from cron: sel -w writes the new records to syslog and remembers in       *)
(* sel.idx how far it came; if the log is nearly full, sel -e copies all     *)
(* records to a file, sel -d clears the log, and the script removes sel.idx. *)
(* A user may run sel -d, with or without -w, at any time between.           *)
(***************************************************************************)
EXTENDS SelLog

VARIABLES
    pc,        \* what runs: "idle", "first", "read", "again", "stop",
               \* "write", "clear", "erase", "forget"
    writing,   \* ReadSEL with option -w (not -e)
    RecordID,  \* the id asked for next
    savtime, savid,
    selidx,    \* sel.idx: NoIndex, EmptyIndex, or what was saved
    user,      \* ClearSEL is run by a user: "no", "-d", "-dw"
    syslog,    \* the events written to syslog
    copied,    \* the events in the copies of the log
    runs, clears,
    \* What happened, for the properties:
    breaks,    \* runs cut off
    refused,   \* clears refused, after which checksel removes sel.idx all the same
    seen,      \* the events that were in the log when the last read began
    readTo,    \* the last event there was when the last record was read
    reservedTo, \* the last event there was when ClearSEL reserved, until it clears
    savev,     \* the event that savid stood for when it was set
    idxev,     \* and the one that the id in sel.idx stands for
    kept,      \* when the log was cleared, from 1, while its index is still there; else 0
    overgrown  \* a run went on from savid in a log that was cleared and had grown past it

isel == <<pc, writing, RecordID, savtime, savid, selidx, user, syslog, copied, runs, clears,
          breaks, refused, seen, readTo, reservedTo, savev, idxev, kept, overgrown>>

NoIndex == [time |-> -1, id |-> -1]
EmptyIndex == [time |-> 0, id |-> 0]

IselTypeOK ==
    /\ pc \in {"idle", "first", "read", "again", "stop", "write", "clear", "erase", "forget"}
    /\ writing \in BOOLEAN
    /\ RecordID \in (0..MaxEvents) \cup {LAST_REC}
    /\ savtime \in 0..MaxEvents /\ savid \in 0..MaxEvents
    /\ selidx \in {NoIndex} \cup [time : 0..MaxEvents, id : 0..MaxEvents]
    /\ user \in {"no", "-d", "-dw"}
    /\ syslog \in Seq(1..MaxEvents)
    /\ copied \subseteq 1..MaxEvents
    /\ runs \in 0..setup.runs /\ clears \in 0..setup.clears /\ breaks \in 0..setup.breaks

IselInit ==
    /\ pc = "idle" /\ writing = TRUE /\ RecordID = 0 /\ savtime = 0 /\ savid = 0
    /\ selidx = NoIndex /\ user = "no"
    /\ syslog = <<>> /\ copied = {}
    /\ runs = 0 /\ clears = 0 /\ breaks = 0 /\ refused = 0
    /\ seen = {} /\ readTo = 0 /\ reservedTo = 0 /\ savev = 0 /\ idxev = 0 /\ kept = 0 /\ overgrown = FALSE

-----------------------------------------------------------------------------
(* Reading (ReadSEL and GetSelEntry).                                      *)

\* StartWriting: without a file, and with an empty one, from the beginning.
StartWriting(index) ==
    /\ savtime' = IF index = NoIndex THEN 0 ELSE index.time
    /\ savid' = IF index = NoIndex THEN 0 ELSE index.id

\* sel -w
Write ==
    /\ pc = "idle"
    /\ runs < setup.runs
    /\ runs' = runs + 1
    /\ StartWriting(selidx)
    /\ writing' = TRUE
    /\ RecordID' = savid'
    /\ seen' = Events(log)
    /\ savev' = idxev
    /\ user' = "no"
    /\ pc' = "first"
    /\ UNCHANGED <<sel, selidx, syslog, copied, clears, breaks, refused, readTo, reservedTo, idxev, kept, overgrown>>

\* sel -e, into a file: the script runs it when free space is low.
Copy ==
    /\ pc = "idle" /\ writing /\ user = "no" /\ runs > 0
    /\ writing' = FALSE
    /\ RecordID' = 0
    /\ pc' = "read"
    /\ UNCHANGED <<sel, savtime, savid, selidx, user, syslog, copied, runs, clears, breaks, refused, seen, readTo, reservedTo,
                   savev, idxev, kept, overgrown>>

\* Mutant: only the time counts.
NewerByTime(rec) == rec.kind # "oem" /\ rec.timestamp > savtime

\* A record is newer by its time, if it has one, or by its id.
Newer(rec) == (rec.kind # "oem" /\ rec.timestamp > savtime) \/ rec.id > savid

\* Mutant: sel -e, too, leaves out what is not newer than the last run.
CopiesNewer(rec) == ~writing /\ Newer(rec)

\* sel -e shows every record.
Copies(rec) == ~writing

Take(rec, next) ==
    /\ copied' = IF Copies(rec) THEN copied \cup {rec.ev} ELSE copied
    /\ IF writing /\ Newer(rec)
       THEN /\ syslog' = Append(syslog, rec.ev)
            /\ savid' = rec.id /\ savev' = rec.ev
            /\ savtime' = IF rec.kind = "oem" THEN savtime ELSE rec.timestamp
       ELSE UNCHANGED <<syslog, savid, savev, savtime>>
    /\ RecordID' = next
    /\ readTo' = made
    /\ pc' = IF next = rec.id THEN "stop" ELSE "read"

\* GetSelEntry finds the record asked for.
ReadEntry ==
    /\ pc \in {"first", "read", "again"}
    /\ RecordID # LAST_REC
    /\ Present(RecordID)
    /\ Take(Found(RecordID), Following(RecordID))
    /\ overgrown' = (overgrown \/ (pc = "first" /\ savid # 0 /\ Found(RecordID).ev # savev))
    /\ UNCHANGED <<sel, writing, selidx, user, runs, clears, breaks, refused, seen, reservedTo, idxev, kept>>

\* An error, or the end (the id that follows the last record).  At the place
\* where the last run stopped, "log was probably cleared": from the start.
NoEntry ==
    IF pc # "again" /\ writing /\ RecordID = savid
    THEN RecordID' = 0 /\ pc' = "again"
    ELSE UNCHANGED RecordID /\ pc' = "stop"

EndOfLog ==
    /\ pc \in {"first", "read", "again"}
    /\ RecordID = LAST_REC \/ ~Present(RecordID)
    /\ NoEntry
    /\ UNCHANGED <<sel, writing, savtime, savid, selidx, user, syslog, copied, runs, clears, breaks, refused,
                   seen, readTo, reservedTo, savev, idxev, kept, overgrown>>

ReadFails ==
    /\ pc \in {"first", "read", "again"}
    /\ CommandFails
    /\ NoEntry
    /\ UNCHANGED <<writing, savtime, savid, selidx, user, syslog, copied, runs, clears, breaks, refused,
                   seen, readTo, reservedTo, savev, idxev, kept, overgrown>>

\* StopWriting empties the file and fills it.  After sel -e comes sel -d.
Stop ==
    /\ pc = "stop"
    /\ IF writing THEN selidx' = EmptyIndex /\ idxev' = 0 /\ pc' = "write"
       ELSE UNCHANGED <<selidx, idxev>> /\ pc' = "clear"
    /\ UNCHANGED <<sel, writing, RecordID, savtime, savid, user, syslog, copied, runs, clears, breaks,
                   refused, seen, readTo, reservedTo, savev, kept, overgrown>>

StopWriting ==
    /\ pc = "write"
    /\ selidx' = [time |-> savtime, id |-> savid]
    /\ idxev' = savev
    /\ pc' = "idle"
    /\ UNCHANGED <<sel, writing, RecordID, savtime, savid, user, syslog, copied, runs, clears, breaks,
                   refused, seen, readTo, reservedTo, savev, kept, overgrown>>

-----------------------------------------------------------------------------
(* Clearing (ClearSEL).                                                    *)

\* A user's sel -d or sel -d -w.
UserClears ==
    /\ pc = "idle"
    /\ clears < setup.clears
    /\ clears' = clears + 1
    /\ user' \in {"-d", "-dw"}
    /\ pc' = "clear"
    /\ UNCHANGED <<sel, writing, RecordID, savtime, savid, selidx, syslog, copied, runs, breaks,
                   refused, seen, readTo, reservedTo, savev, idxev, kept, overgrown>>

\* After CLEAR_SEL, done or not: with -w the index is saved with the id 0 and
\* the time it had; and checksel removes sel.idx.
Cleared ==
    /\ pc' = IF user = "-d" THEN "idle" ELSE "forget"
    /\ reservedTo' = 0

ReserveSel ==
    /\ pc = "clear"
    /\ Reserve
    /\ reservedTo' = made
    /\ pc' = "erase"
    /\ UNCHANGED <<writing, RecordID, savtime, savid, selidx, user, syslog, copied, runs, clears, breaks,
                   refused, seen, readTo, savev, idxev, kept, overgrown>>

ClearSel ==
    /\ pc = "erase"
    /\ Clear
    /\ kept' = clock + 1
    /\ Cleared
    /\ UNCHANGED <<writing, RecordID, savtime, savid, selidx, user, syslog, copied, runs, clears, breaks,
                   refused, seen, readTo, savev, idxev, overgrown>>

\* The reservation went with an event that came in between, or a command failed.
ClearFails ==
    /\ \/ pc = "erase" /\ ~reserved /\ UNCHANGED sel
       \/ pc \in {"clear", "erase"} /\ CommandFails
    /\ refused' = refused + 1
    /\ Cleared
    /\ UNCHANGED <<writing, RecordID, savtime, savid, selidx, user, syslog, copied, runs, clears, breaks,
                   seen, readTo, savev, idxev, kept, overgrown>>

Forget ==
    /\ pc = "forget"
    /\ IF user = "no"
       THEN selidx' = NoIndex /\ UNCHANGED <<savtime, savid, savev>>
       ELSE /\ savtime' = IF selidx = NoIndex THEN 0 ELSE selidx.time
            /\ savid' = 0 /\ savev' = 0
            /\ selidx' = [time |-> savtime', id |-> 0]
    /\ idxev' = 0
    /\ kept' = 0
    /\ user' = "-d"
    /\ pc' = "idle"
    /\ UNCHANGED <<sel, writing, RecordID, syslog, copied, runs, clears, breaks, refused, seen, readTo, reservedTo,
                   overgrown>>

\* The run, and the script with it, is cut off.
Cut ==
    /\ pc # "idle"
    /\ breaks < setup.breaks
    /\ breaks' = breaks + 1
    /\ user' = "-d"
    /\ pc' = "idle"
    /\ reservedTo' = 0
    /\ UNCHANGED <<sel, writing, RecordID, savtime, savid, selidx, syslog, copied, runs, clears, refused,
                   seen, readTo, savev, idxev, kept, overgrown>>

IselNext ==
    \/ Write \/ Copy \/ ReadEntry \/ EndOfLog \/ ReadFails \/ Stop \/ StopWriting
    \/ UserClears \/ ReserveSel \/ ClearSel \/ ClearFails \/ Forget \/ Cut
=============================================================================
