-------------------------------- MODULE SelLog --------------------------------
(***************************************************************************)
(* The system event log (SEL) in the BMC, as the utilities see it through   *)
(* the commands that read, reserve and clear it.  External: taken from how  *)
(* util/isel.c and util/igetevent.c use it.                                  *)
(*                                                                         *)
(* Events are numbered in the order in which they happen; record ids are    *)
(* numbered from 1 in each log, and begin anew when the log is cleared.      *)
(***************************************************************************)
EXTENDS Integers, Sequences, FiniteSets, SequencesExt

CONSTANTS
    Kinds,      \* kinds of events: "sensor", "other" (a sensor of another
                \* type), "oem" (a record without a time stamp)
    MaxEvents,  \* bound: events that happen, in any behaviour
    Setups      \* the options of the daemon, and the bounds, of a behaviour:
                \* timeout (-t: polls before the daemon gives up, 0 for never),
                \* filter (-e: the kinds of events it shows), starts of the
                \* daemon and its deaths (kills), runs of checksel and those cut
                \* off (breaks), clears by hand, commands that fail (errors), the
                \* events that happen with their kinds, and the seconds that pass

ASSUME SelAssumption ==
    /\ Kinds \subseteq {"sensor", "other", "oem"} /\ "sensor" \in Kinds
    /\ MaxEvents \in Nat
    /\ Setups \subseteq [timeout : Nat, filter : SUBSET Kinds, starts : Nat, kills : Nat,
                         runs : Nat, breaks : Nat, clears : Nat, errors : Nat, events : 0..MaxEvents,
                         kinds : SUBSET Kinds, seconds : Nat]

VARIABLES
    setup,     \* the options and bounds of this behaviour
    log,       \* the records, the oldest first
    made,      \* how many events happened
    clock,     \* the BMC's time, in the seconds of the time stamps
    reserved,  \* the reservation given out last is still good
    errors,    \* how many commands failed
    erased,    \* the events of the records cleared
    firsts     \* the events that were written to an empty log

sel == <<setup, log, made, clock, reserved, errors, erased, firsts>>

First == 0          \* the id that asks for the first record
LAST_REC == 65535   \* the id that asks for the last record, and that follows it
Capacity == LAST_REC - 1

Record == [id : 1..MaxEvents, ev : 1..MaxEvents, kind : Kinds, timestamp : 0..MaxEvents]

SelInit ==
    /\ setup \in Setups
    /\ made \in 0..(setup.events - 1)
    /\ made <= Capacity
    /\ log = [i \in 1..made |-> [id |-> i, ev |-> i, kind |-> "sensor", timestamp |-> 0]]
    /\ clock = 0
    /\ reserved = FALSE
    /\ errors = 0
    /\ erased = {}
    /\ firsts = IF made > 0 THEN {1} ELSE {}

\* An event happens and is logged.  It cancels the reservation.  A full log takes no more.
Add ==
    /\ made < setup.events
    /\ Len(log) < Capacity
    /\ made' = made + 1
    /\ clock' \in {clock} \cup {t \in {clock + 1} : t <= setup.seconds}
    /\ \E k \in setup.kinds :
           log' = Append(log, [id |-> Len(log) + 1, ev |-> made + 1, kind |-> k,
                               timestamp |-> clock'])
    /\ firsts' = IF log = <<>> THEN firsts \cup {made + 1} ELSE firsts
    /\ reserved' = FALSE
    /\ UNCHANGED <<setup, errors, erased>>

Events(records) == {records[i].ev : i \in DOMAIN records}

\* The record with id r, and the id that follows it.
Position(r) == IF r = First THEN 1 ELSE IF r = LAST_REC THEN Len(log) ELSE r
NextId(i) == IF i = Len(log) THEN LAST_REC ELSE i + 1

Present(r) == Position(r) \in DOMAIN log
Found(r) == log[Position(r)]
Following(r) == NextId(Position(r))

\* The driver fails, or the BMC answers with a code of no meaning here.
CommandFails ==
    /\ errors < setup.errors
    /\ errors' = errors + 1
    /\ UNCHANGED <<setup, log, made, clock, reserved, erased, firsts>>

Reserve ==
    /\ reserved' = TRUE
    /\ UNCHANGED <<setup, log, made, clock, errors, erased, firsts>>

\* CLEAR_SEL under a good reservation.
Clear ==
    /\ reserved
    /\ erased' = erased \cup Events(log)
    /\ log' = <<>>
    /\ reserved' = FALSE
    /\ UNCHANGED <<setup, made, clock, errors, firsts>>
=============================================================================
