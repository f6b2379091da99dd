------------------------------- MODULE Exchange -------------------------------
(***************************************************************************)
(* What a driver of the system interface promises: the BMC runs a request    *)
(* only if a program asked for it and only once, and a request is taken for   *)
(* answered only after the BMC ran it. A request may also fail; then it may   *)
(* have been run, or still be run.                                            *)
(***************************************************************************)
EXTENDS Sequences, SequencesExt

CONSTANT Requests

VARIABLES
    asked,      \* requests that were begun
    ran,        \* what the BMC ran, in order
    answered    \* requests whose answer was taken, in order

vars == <<asked, ran, answered>>

Init == asked = {} /\ ran = <<>> /\ answered = <<>>

Ask(r) ==
    /\ r \notin asked
    /\ asked' = asked \cup {r}
    /\ UNCHANGED <<ran, answered>>

Run(r) ==
    /\ r \in asked \ Range(ran)
    /\ ran' = Append(ran, r)
    /\ UNCHANGED <<asked, answered>>

\* A driver may begin the next request in the step that takes an answer.
Answer(r) ==
    /\ r \in Range(ran) \ Range(answered)
    /\ answered' = Append(answered, r)
    /\ ran' = ran
    /\ \/ asked' = asked
       \/ \E new \in Requests \ asked : asked' = asked \cup {new}

Next == \E r \in Requests : Ask(r) \/ Run(r) \/ Answer(r)

Spec == Init /\ [][Next]_vars
=============================================================================
