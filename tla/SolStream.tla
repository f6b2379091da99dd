------------------------------- MODULE SolStream -------------------------------
(***************************************************************************)
(* What a Serial-over-LAN console promises of the characters that the BMC   *)
(* sends (util/isol.c, sol_output_handler): they are shown in the order in  *)
(* which they were made, none twice and none left out.                      *)
(* The characters are numbered in the order in which the BMC makes them.    *)
(***************************************************************************)
EXTENDS Integers, Sequences

VARIABLES
    made,   \* how many characters the BMC made
    shown   \* the characters shown

stream == <<made, shown>>

Init ==
    /\ made = 0
    /\ shown = <<>>

Make ==
    /\ made' \in Nat
    /\ made' > made
    /\ UNCHANGED shown

Show ==
    \E k \in (Len(shown) + 1)..made :
        /\ shown' = [i \in 1..k |-> i]
        /\ UNCHANGED made

Next == Make \/ Show

Spec == Init /\ [][Next]_stream
=============================================================================
