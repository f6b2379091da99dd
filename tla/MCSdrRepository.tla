--------------------------- MODULE MCSdrRepository ---------------------------
(* The instance of SdrRepository that TLC checks.                          *)
EXTENDS SdrRepository

Repo == <<[id |-> 1, data |-> <<1, 1, 1>>], [id |-> 2, data |-> <<2, 2>>]>>
Dumped == <<<<1, 1>>, <<2, 2>>>>

Plain == [verbs |-> <<"dump", "show">>, repo |-> Repo, file |-> NoFile, reservations |-> TRUE,
          changes |-> 1, faults |-> 1, kills |-> FALSE]

MCSetups ==
    {[Plain EXCEPT !.verbs = v] : v \in {<<"dump", "show">>, <<"show", "show">>, <<"dump", "dump">>, <<"dump", "jump">>}}
    \cup {[Plain EXCEPT !.verbs = v, !.file = f, !.changes = 0, !.kills = TRUE] :
              v \in {<<"restore", "dump">>, <<"restore", "show">>, <<"restore", "jump">>, <<"jump", "show">>},
              f \in {NoFile, Dumped}}
    \cup {[Plain EXCEPT !.verbs = <<"restore", "dump">>, !.file = <<>>, !.faults = 0],
          [Plain EXCEPT !.reservations = FALSE]}
=============================================================================
