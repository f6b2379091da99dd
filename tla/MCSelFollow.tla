------------------------------ MODULE MCSelFollow ------------------------------
(* The instance of SelFollow that TLC checks.                              *)
EXTENDS SelFollow

None == [timeout |-> 0, filter |-> {"sensor"}, starts |-> 0, kills |-> 0, runs |-> 0,
         breaks |-> 0, clears |-> 0, errors |-> 0, kinds |-> {"sensor"}, seconds |-> 0,
         events |-> 3]

Daemon == [None EXCEPT !.starts = 2]
Cron == [None EXCEPT !.runs = 2, !.kinds = {"sensor", "oem"}, !.seconds = 1]

\* The daemon without an end, with a log that is cleared under it; the daemon
\* with a timeout and a filter; and the cron job.
MCSetups ==
    {[Daemon EXCEPT !.kills = 1, !.clears = 1, !.events = 4],
     [None EXCEPT !.starts = 1, !.clears = 1, !.events = 6],
     [Daemon EXCEPT !.errors = 1],
     [Daemon EXCEPT !.timeout = 2, !.kinds = {"sensor", "oem"}],
     [Cron EXCEPT !.breaks = 1],
     [Cron EXCEPT !.errors = 1],
     [Cron EXCEPT !.clears = 1, !.events = 4]}
=============================================================================
