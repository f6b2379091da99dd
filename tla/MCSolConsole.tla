----------------------------- MODULE MCSolConsole -----------------------------
(* Consoles for TLC: what is typed holds each escape sequence, halves of     *)
(* them, the end and what comes after it.                                    *)
EXTENDS SolConsole

Console1 == [ipmi |-> "2.0", intel |-> FALSE, driver |-> "any", deactivate |-> FALSE, escLen |-> 2,
             newline |-> "cr", retries |-> 1, typed |-> <<>>, script |-> <<>>]

\* The end in the middle; a doubled escape character; commands, one of them
\* split or unfinished; lines; stdin at its end.
Typings == {
    <<"x", "~", ".", "x">>,
    <<"~", "~", ".", "~", ".">>,
    <<"x", "~", "b", "~", "d", "~">>,
    <<"~", "?", "x", Eof>>}

Lines == {<<"lf", "x", "lf">>, <<"x", "x", "lf", "~", ".">>}

Scripts == {<<"~", "b", "x", "lf", "x">>, <<"x", "x", "x", "~", ".", "lf">>}

Drivers == {
    [ipmi |-> "2.0", intel |-> TRUE, driver |-> "lan"],
    [ipmi |-> "2.0", intel |-> FALSE, driver |-> "lan"],
    [ipmi |-> "1.5", intel |-> FALSE, driver |-> "any"],
    [ipmi |-> "1.0", intel |-> FALSE, driver |-> "any"]}

MCSetups ==
    {[Console1 EXCEPT !.typed = t] : t \in Typings}
    \cup {[Console1 EXCEPT !.typed = t, !.newline = n] : t \in Lines, n \in {"cr", "crlf", "lf"}}
    \cup {[Console1 EXCEPT !.typed = t, !.script = s] : t \in {<<>>, <<"~">>, <<Eof>>}, s \in Scripts}
    \cup {[Console1 EXCEPT !.typed = <<"x", "~", ".">>, !.retries = 2],
          [Console1 EXCEPT !.typed = <<"x", "~", "d", "x">>, !.escLen = 1]}
    \cup {[Console1 EXCEPT !.typed = <<"x", "~", "b", "x">>, !.ipmi = d.ipmi, !.intel = d.intel,
                           !.driver = d.driver, !.deactivate = x] :
            d \in Drivers, x \in BOOLEAN}
=============================================================================
