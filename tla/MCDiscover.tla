------------------------------ MODULE MCDiscover ------------------------------
(* Searches for TLC: within a subnet, over its edge, backwards, from an edge,  *)
(* twice each, and by broadcast.                                               *)
EXTENDS Discover

Search(b, e) == [begin |-> b, end |-> e, repeat |-> 1, broadcast |-> FALSE, raw |-> FALSE, nodes |-> {1, 3}]

MCSetups ==
    {Search(1, 3), Search(2, 3), [Search(1, 2) EXCEPT !.repeat = 2], Search(3, 1), Search(0, 3), Search(2, 5),
     [Search(3, 9) EXCEPT !.nodes = {3, 7, 8}]}
    \cup {[Search(a, a) EXCEPT !.broadcast = TRUE, !.raw = r, !.repeat = n] :
              a \in {0, 2, 5}, r \in BOOLEAN, n \in 1..2}
=============================================================================
