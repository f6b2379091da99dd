------------------------------ MODULE SolConsole ------------------------------
(***************************************************************************)
(* The console of util/isol.c: i_sol chooses the version of Serial over     *)
(* LAN, asks the BMC for its console and runs sol_data_loop, which takes    *)
(* turns between what the BMC shows, what the user types and a script file. *)
(*                                                                         *)
(* A character typed is "x", "lf", the escape character "~" or one of the   *)
(* letters that give a command after it.  How a payload travels is          *)
(* LanplusSol (and lan_send_sol of util/ipmilan.c, which waits for no       *)
(* answer): here it arrives whole or not at all, and the console hears of   *)
(* it or not.  The BMC and who else uses its console are external.          *)
(***************************************************************************)
EXTENDS Integers, Sequences, SequencesExt, FiniteSetsExt

CONSTANTS
    MaxData,     \* max_bmc_data: the longest payload that the BMC takes
    Setups,      \* the consoles that may be started, see Start
    MaxFaults    \* bound: packets and commands that are lost

ASSUME ConsoleAssumption == MaxData \in Nat \ {0} /\ MaxFaults \in Nat

VARIABLES
    setup,      \* the command line, the BMC, what is typed and the script
    pc,         \* start, request, loop, send, exit or done
    session,    \* the session in use: none, lan or lan2
    owner,      \* whose console the BMC runs: none, us or other
    stdin,      \* what the user will have typed
    script,     \* the lines of the script not yet read
    pending,    \* sol_esc_pending
    payload,    \* what sol_input_handler is sending
    tries,      \* how often it was sent
    ends,       \* rvend
    rv,         \* what sol_data_loop or i_sol will return
    screen,     \* the BMC has sent something to be shown
    textMode,   \* bTextMode: the screen has a background colour
    faults,     \* the packets and commands lost
    delivered,  \* what the BMC's console received, characters with their place
    done,       \* history: the commands given after an escape character
    consumed,   \* history: what was read of stdin and script
    cut         \* history: a read was longer than a payload

input == <<stdin, script, consumed>>
sending == <<payload, tries, ends>>
vars == <<setup, pc, session, owner, screen, input, pending, sending, rv, textMode, faults,
          delivered, done, cut>>

Eof == "eof"
Esc == "~"

\* bSolVer, by the IPMI version of the BMC: on an Intel BMC the user may ask
\* for the older one.
SolVer ==
    CASE setup.ipmi = "1.0" -> 0
      [] setup.ipmi = "1.5" -> 1
      [] setup.ipmi = "2.0" -> IF setup.driver = "lan" /\ setup.intel THEN 1 ELSE 2

Lose == faults < MaxFaults /\ faults' = faults + 1

-----------------------------------------------------------------------------

Init ==
    /\ setup \in Setups
    /\ pc = "start"
    /\ session = "none"
    /\ owner \in {"none", "other"}
    /\ stdin = setup.typed
    /\ script = setup.script
    /\ pending = FALSE
    /\ payload = <<>>
    /\ tries = 0
    /\ ends = FALSE
    /\ rv = "ok"
    /\ screen = FALSE
    /\ textMode = FALSE
    /\ faults = 0
    /\ delivered = <<>>
    /\ done = <<>>
    /\ consumed = <<>>
    /\ cut = FALSE

Exit(ret) == pc' = "exit" /\ rv' = ret

\* The device id tells the versions; the session it was read over is kept, or
\* closed for one of the other kind.
Identify ==
    /\ pc = "start"
    /\ \/ \E s \in {"lan", "lan2"} :
            /\ setup.driver \in {"any", s}
            /\ setup.ipmi # "2.0" => s = "lan"
            /\ IF SolVer = 0 THEN Exit("unsupported") /\ session' = s
               ELSE /\ pc' = "request"
                    /\ session' = IF SolVer = 2 /\ s = "lan" THEN "none" ELSE s
                    /\ UNCHANGED rv
            /\ UNCHANGED faults
       \/ Lose /\ Exit("error") /\ UNCHANGED session
    /\ UNCHANGED <<setup, owner, screen, input, pending, sending, textMode, delivered, done, cut>>

Opened == session' = IF session = "none" THEN "lan2" ELSE session

\* send_deactivate_sol ends whoever's console it is, if there is one.
Deactivate ==
    /\ pc = "request"
    /\ setup.deactivate
    /\ Opened
    /\ owner' \in {owner, "none"}
    /\ \/ owner # "none" /\ owner' = "none" /\ Exit("ok") /\ UNCHANGED faults
       \/ owner = "none" /\ Exit("refused") /\ UNCHANGED faults
       \/ Lose /\ Exit("error")
    /\ UNCHANGED <<setup, screen, input, pending, sending, textMode, delivered, done, cut>>

JumpStart == <<[at |-> 0, ch |-> "esc"], [at |-> 0, ch |-> "{"]>>

\* send_activate_sol.  The older kind then gets two characters, whatever
\* becomes of them.
Activate ==
    /\ pc = "request"
    /\ ~ setup.deactivate
    /\ Opened
    /\ \/ /\ owner = "none"
          /\ owner' = "us"
          /\ pc' = "loop"
          /\ delivered' \in {<<>>} \cup IF SolVer = 1 THEN {JumpStart} ELSE {}
          /\ UNCHANGED <<rv, faults>>
       \/ owner = "other" /\ Exit("refused") /\ UNCHANGED <<owner, faults, delivered>>
       \/ /\ Lose
          /\ owner' \in {owner} \cup IF owner = "none" THEN {"us"} ELSE {}
          /\ Exit("error")
          /\ UNCHANGED delivered
    /\ UNCHANGED <<setup, screen, input, pending, sending, textMode, done, cut>>

-----------------------------------------------------------------------------
(* sol_input_handler                                                       *)

Commands == {".", "b", "d", "?"}

\* What a character is sent as.
Translated(c) ==
    IF c # "lf" \/ setup.newline = "lf" THEN <<c>>
    ELSE IF setup.newline = "crlf" \/ textMode THEN <<"cr", "lf">>
    ELSE <<"cr">>

Place(i, t) == [j \in 1..Len(t) |-> [at |-> Len(consumed) + i, ch |-> t[j]]]

\* The loop over a read: escape sequences are taken out, the rest is made a
\* payload, and what comes after a payload that is full is forgotten.
Parse(chunk, before) ==
    LET step(a, i) ==
            LET c == chunk[i]
                out == a.out \o Place(i, Translated(c))
            IN  IF a.full THEN a
                ELSE IF a.pending /\ c \in Commands
                THEN [a EXCEPT !.pending = FALSE, !.ends = @ \/ c = ".", !.cmds = Append(@, c)]
                ELSE IF ~ a.pending /\ c = Esc
                THEN [a EXCEPT !.pending = TRUE,
                               !.ends = @ \/ setup.escLen = 1 \/ (i < Len(chunk) /\ chunk[i + 1] = ".")]
                ELSE [a EXCEPT !.pending = FALSE, !.out = out, !.full = Len(out) >= MaxData]
        after[i \in 0..Len(chunk)] ==
            IF i = 0 THEN [pending |-> before, out |-> <<>>, ends |-> FALSE, cmds |-> <<>>, full |-> FALSE]
            ELSE step(after[i - 1], i)
    IN  after[Len(chunk)]

\* Mutant: every read starts outside an escape sequence.
ParsedAlone(chunk) == Parse(chunk, FALSE)

\* An escape character at the end of a read waits for the next.
Parsed(chunk) == Parse(chunk, pending)

\* The commands whose result counts, when nothing is sent after them: that
\* of the last.  The older kind knows no break.
Sent(cmds) == SelectSeq(cmds, LAMBDA c : c \in {"b", "d"})
Unsupported(cmds) == cmds # <<>> /\ Last(cmds) = "b" /\ SolVer = 1

\* Chunk was read.
Handle(chunk) ==
    LET p == Parsed(chunk)
        cmds == Sent(p.cmds)
    IN  /\ pending' = p.pending
        /\ consumed' = consumed \o chunk
        /\ cut' = (cut \/ Len(p.out) > MaxData \/ (p.full /\ Last(p.out).at < Len(consumed')))
        /\ done' = done \o cmds
        /\ \/ /\ p.out # <<>>
              /\ pc' = "send" /\ payload' = p.out /\ tries' = 0 /\ ends' = p.ends
              /\ UNCHANGED <<rv, faults>>
           \/ p.out = <<>> /\ p.ends /\ Exit("ok") /\ UNCHANGED <<sending, faults>>
           \/ p.out = <<>> /\ ~ p.ends /\ Unsupported(cmds) /\ Exit("error") /\ UNCHANGED <<sending, faults>>
           \/ p.out = <<>> /\ ~ p.ends /\ cmds # <<>> /\ ~ Unsupported(cmds) /\ Lose /\ Exit("error")
              /\ UNCHANGED sending
           \/ p.out = <<>> /\ ~ p.ends /\ ~ Unsupported(cmds) /\ pc' = "loop" /\ UNCHANGED <<sending, rv, faults>>
    /\ UNCHANGED <<setup, session, owner, screen, textMode, delivered>>

\* The input was sent, or enough of it: the loop goes on unless it shall end.
Forget == payload' = <<>> /\ tries' = 0 /\ ends' = FALSE
\* Mutant: the result of the send replaces the wish to end.
SendDecides == pc' = "loop" /\ UNCHANGED rv /\ Forget

Continue == (IF ends THEN Exit("ok") ELSE pc' = "loop" /\ UNCHANGED rv) /\ Forget

\* sol_send, until it returns no error: without an answer of the newer kind
\* the link counts as dropped; the older kind expects none.  What the BMC did
\* not take may count as sent.
Send ==
    /\ pc = "send"
    /\ \/ owner = "us" /\ delivered' = delivered \o payload /\ Continue /\ UNCHANGED faults
       \/ /\ \/ owner = "us" /\ Lose /\ delivered' \in {delivered, delivered \o payload}
             \/ owner # "us" /\ UNCHANGED <<faults, delivered>>
          /\ \/ Continue
             \/ tries + 1 < setup.retries /\ tries' = tries + 1 /\ UNCHANGED <<pc, rv, payload, ends>>
             \/ tries + 1 >= setup.retries /\ Exit(IF ends THEN "ok" ELSE "dropped") /\ Forget
    /\ UNCHANGED <<setup, session, owner, screen, input, pending, textMode, done, cut>>

-----------------------------------------------------------------------------
(* sol_data_loop: what the BMC shows comes first, then the user, and a line  *)
(* of the script when neither has anything.                                 *)

Receive ==
    /\ pc = "loop"
    /\ screen
    /\ \/ screen' = FALSE /\ textMode' \in BOOLEAN /\ UNCHANGED <<pc, rv, faults>>
       \/ Lose /\ Exit("error") /\ UNCHANGED <<screen, textMode>>
    /\ UNCHANGED <<setup, session, owner, input, pending, sending, delivered, done, cut>>

ReadInput(n) ==
    /\ pc = "loop"
    /\ ~ screen
    /\ n <= Len(stdin)
    /\ \A i \in 1..n : stdin[i] # Eof
    /\ stdin' = SubSeq(stdin, n + 1, Len(stdin))
    /\ UNCHANGED script
    /\ Handle(SubSeq(stdin, 1, n))

AtEof == stdin # <<>> /\ Head(stdin) = Eof

\* The end of stdin is an error, also with a script left to read.
ReadEof ==
    /\ pc = "loop"
    /\ ~ screen
    /\ AtEof
    /\ Exit("eof")
    /\ UNCHANGED <<setup, session, owner, screen, input, pending, sending, textMode, faults,
                   delivered, done, cut>>

\* Where the next read of the script ends, if it ends before the file.
LineEnd == {n \in 1..Len(script) : n = MaxData \/ script[n] = "lf"}

\* What follows the last end of line is not sent.
ReadScript ==
    /\ pc = "loop"
    /\ ~ screen
    /\ ~ AtEof
    /\ script # <<>>
    /\ UNCHANGED stdin
    /\ IF LineEnd = {}
       THEN /\ script' = <<>>
            /\ UNCHANGED <<setup, pc, session, owner, screen, consumed, pending, sending, rv, textMode,
                           faults, delivered, done, cut>>
       ELSE LET n == Min(LineEnd)
            IN  script' = SubSeq(script, n + 1, Len(script)) /\ Handle(SubSeq(script, 1, n))

\* Mutant: a console that the user ends stays open.
CloseUnlessEnded ==
    /\ pc = "exit"
    /\ pc' = "done"
    /\ IF rv \in {"dropped", "ok"} THEN UNCHANGED <<session, owner>>
       ELSE session' = "none" /\ owner' = IF owner = "us" THEN "none" ELSE owner
    /\ UNCHANGED <<setup, screen, input, pending, sending, rv, textMode, faults, delivered, done, cut>>

\* do_exit: ipmi_close_, unless the link was dropped; with the session goes its console.
Close ==
    /\ pc = "exit"
    /\ pc' = "done"
    /\ \/ rv = "dropped" /\ UNCHANGED <<session, owner, faults>>
       \/ rv # "dropped" /\ session' = "none" /\ owner' = (IF owner = "us" THEN "none" ELSE owner) /\ UNCHANGED faults
       \/ rv # "dropped" /\ session' = "none" /\ Lose /\ UNCHANGED owner
    /\ UNCHANGED <<setup, screen, input, pending, sending, rv, textMode, delivered, done, cut>>

-----------------------------------------------------------------------------
(* The BMC and another user of its console (external).                      *)

Shows ==
    /\ pc \in {"loop", "send"}
    /\ screen' = TRUE
    /\ UNCHANGED <<setup, pc, session, owner, input, pending, sending, rv, textMode, faults, delivered,
                   done, cut>>

\* sol -d of somebody else
TakenAway ==
    /\ owner = "us"
    /\ owner' = "none"
    /\ UNCHANGED <<setup, pc, session, screen, input, pending, sending, rv, textMode, faults, delivered,
                   done, cut>>

-----------------------------------------------------------------------------

Console == Identify \/ Deactivate \/ Activate \/ Send \/ Receive \/ Close
Reads == ReadEof \/ \E n \in 1..MaxData : ReadInput(n)

Next == Console \/ Reads \/ ReadScript \/ Shows \/ TakenAway

\* What the BMC shows pauses often enough for select() to find the keyboard
\* ready, or nothing at all for half a second.
Spec == Init /\ [][Next]_vars /\ WF_vars(Console) /\ SF_vars(Reads) /\ SF_vars(ReadScript)

-----------------------------------------------------------------------------
(* What it means to type: read as a whole, however it was split.            *)

IsEscape(s, i) ==
    s[i] = Esc /\ Cardinality({j \in 1..(i - 1) : \A k \in j..(i - 1) : s[k] = Esc}) % 2 = 0

IsCommand(s, i) == i > 1 /\ IsEscape(s, i - 1) /\ s[i] \in Commands

Plain(s) == {i \in DOMAIN s : ~ IsEscape(s, i) /\ ~ IsCommand(s, i)}

CommandsIn(s) ==
    LET given[i \in 0..Len(s)] ==
            IF i = 0 THEN <<>> ELSE given[i - 1] \o IF IsCommand(s, i) THEN <<s[i]>> ELSE <<>>
    IN  Sent(given[Len(s)])

IsEnd(s, i) == (IsCommand(s, i) /\ s[i] = ".") \/ (setup.escLen = 1 /\ IsEscape(s, i))
HasEnd(s) == \E i \in DOMAIN s : IsEnd(s, i)

\* Place d of what arrived stands for the character typed there.
Stands(d) ==
    \/ d.at = 0 /\ d.ch \in {"esc", "{"}
    \/ /\ d.at \in DOMAIN consumed
       /\ d.at \in Plain(consumed) \/ cut
       /\ d.ch = consumed[d.at] \/ (d.ch = "cr" /\ consumed[d.at] = "lf")

Before(d, e) == d.at < e.at \/ (d.at = e.at /\ d.ch \in {"cr", "esc"} /\ e.ch \in {"lf", "{"})

\* isol.c:584-717: a character typed or in the script arrives as itself, in
\* order and, unless it is tried again, once, whichever way the reads split
\* the escape sequences; while nothing is lost, cut off or taken away, all
\* of them arrive and the commands are given, in order, and nothing is read
\* after the end.
InputMeans ==
    /\ \A i \in DOMAIN delivered : Stands(delivered[i])
    /\ setup.retries = 1 =>
          \A i, j \in DOMAIN delivered : i < j => Before(delivered[i], delivered[j])
    /\ pc = "loop" /\ ~ cut =>
          /\ ~ HasEnd(consumed)
          /\ done = CommandsIn(consumed)
    /\ pc = "loop" /\ ~ cut /\ faults = 0 /\ owner = "us" =>
          Plain(consumed) \subseteq {delivered[i].at : i \in DOMAIN delivered}

\* isol.c:1265-1353: the console runs over a session of its kind, and a
\* program that ends without having lost anything leaves no console running
\* in the BMC but somebody else's.
ConsoleReleased ==
    /\ pc \in {"loop", "send"} => session = IF SolVer = 2 THEN "lan2" ELSE "lan"
    /\ pc = "done" /\ faults = 0 /\ rv # "dropped" => owner # "us" /\ session = "none"

\* isol.c:973-1091: what is typed and in the script is read or the console is
\* over, and the console is over once its end is typed, unless the end was
\* cut off.
EndsOnRequest ==
    /\ (pc = "loop" /\ setup.script = <<>> /\ HasEnd(setup.typed)) ~> (pc = "done" \/ cut)
    /\ pc = "loop" ~> (pc = "done" \/ (stdin = <<>> /\ script = <<>>))
=============================================================================
