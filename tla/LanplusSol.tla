------------------------------ MODULE LanplusSol ------------------------------
(***************************************************************************)
(* Serial over LAN in an active RMCP+ session: the packets that the console *)
(* of util/isol.c sends and receives through util/ipmilanplus.c and          *)
(* lib/lanplus/lanplus.c.                                                   *)
(*                                                                         *)
(* Each direction is a stop-and-wait protocol.  A packet with characters    *)
(* has a sequence number from 1 to SolSeqs; the other side acknowledges     *)
(* it with a packet whose own number is 0, or along with its characters.    *)
(* The console's number is kept twice: sol_seq in ipmilanplus.c counts the  *)
(* inputs of the user, session->sol_data.sequence_number the packets.       *)
(*                                                                         *)
(* Characters are numbered in the order in which they are typed, and in     *)
(* which the BMC makes them.  The BMC and the network are external: packets *)
(* may be lost, and MaxOvertakes of them may arrive out of order.           *)
(***************************************************************************)
EXTENDS Integers, Sequences, SequencesExt

CONSTANTS
    SolSeqs,       \* the largest sequence number: 15 in the code
    Retry,         \* session->retry
    ChunkSizes,    \* bound: how many characters are typed at a time
    MaxTyped,      \* bound: characters typed and other packets sent
    MaxMade,       \* bound: characters made by the BMC
    MaxFlight,     \* bound: packets in flight each way
    MaxOvertakes,  \* bound: packets delivered out of order
    MaxPartials,   \* bound: packets that the BMC accepts in part
    MaxExtras      \* bound: packets without characters that the user causes

ASSUME SolAssumption ==
    /\ SolSeqs \in Nat \ {0, 1}
    /\ Retry \in Nat \ {0}
    /\ ChunkSizes \subseteq Nat \ {0}
    /\ {MaxTyped, MaxMade, MaxFlight, MaxOvertakes, MaxPartials, MaxExtras} \subseteq Nat

VARIABLES
    sequence_number,  \* session->sol_data.sequence_number
    sol_seq,          \* the number of the last input, in ipmilanplus.c
    last,             \* last_received_sequence_number and _byte_count
    slow_link,        \* set for links of a high latency
    printed,          \* the characters that sol_output_handler wrote
    pc,               \* idle (in select), send, recv, keepalive or done
    op,               \* what is being sent: data, break or empty
    pkt,              \* v2_payload.payload.sol_packet being sent
    itry,             \* tries used to send it
    toBMC,            \* packets in flight to the BMC
    toConsole,        \* packets in flight to the console
    overtakes,        \* packets delivered out of order so far
    partials,         \* packets that the BMC accepted in part so far
    bmcIn,            \* the characters that the BMC accepted
    bmcRx,            \* the last number the BMC accepted, its count and flag
    bmcTx,            \* the number and length of what the BMC waits to be acked
    bmcAcked,         \* how many of its characters were acknowledged
    typed,            \* history: characters typed so far
    allAcked,         \* history: every send of data ended in a full ack
    extras,           \* history: the packets without characters sent
    drift             \* history: an input began when the two numbers differed, or
                      \* a packet took a number that was still on its way

console == <<sequence_number, sol_seq, last, slow_link, printed>>
control == <<pc, op, pkt, itry>>
network == <<toBMC, toConsole, overtakes>>
bmc == <<partials, bmcIn, bmcRx, bmcTx, bmcAcked>>
history == <<typed, allAcked, extras, drift>>
vars == <<console, control, network, bmc, history>>

SeqNums == 0..SolSeqs

\* A packet: its number and characters, the number it acknowledges, how many
\* characters were accepted, and whether a flag (is_nack or
\* transfer_unavailable) says that no more are wanted now.
Packet(s, d, a, n, flag) ==
    [seq |-> s, data |-> d, acked |-> a, count |-> n, stop |-> flag]

Ack(s, n) == Packet(0, <<>>, s, n, FALSE)

Chars(first, n) == [i \in 1..n |-> first + i - 1]

-----------------------------------------------------------------------------

Init ==
    /\ sequence_number = 1
    /\ sol_seq = 0
    /\ last = [seq |-> 0, count |-> 0]
    /\ slow_link \in BOOLEAN
    /\ printed = <<>>
    /\ pc = "idle"
    /\ op = "data"
    /\ pkt = Packet(0, <<>>, 0, 0, FALSE)
    /\ itry = 0
    /\ toBMC = <<>>
    /\ toConsole = <<>>
    /\ overtakes = 0
    /\ partials = 0
    /\ bmcIn = <<>>
    /\ bmcRx = [seq |-> 0, count |-> 0, stop |-> FALSE]
    /\ bmcTx = [seq |-> 0, len |-> 0]
    /\ bmcAcked = 0
    /\ typed = 0
    /\ allAcked = TRUE
    /\ extras = <<>>
    /\ drift = FALSE

-----------------------------------------------------------------------------
(* The network.                                                            *)

\* The channel c after p was sent on it: p may be lost.
Sent(c, p) == {c} \cup IF Len(c) < MaxFlight THEN {Append(c, p)} ELSE {}

\* Packet i of a channel may be delivered next.
Arrives(i) == i = 1 \/ overtakes < MaxOvertakes

Overtaken(i) == overtakes' = IF i = 1 THEN overtakes ELSE overtakes + 1

-----------------------------------------------------------------------------
(* The console sends.                                                      *)

\* inc_sol_seq
IncSolSeq == IF sol_seq + 1 > SolSeqs THEN 1 ELSE sol_seq + 1

\* set_sol_packet_sequence_number, when the session holds n.
SaneSeq(n) == IF n > SolSeqs THEN 1 ELSE n

\* A packet of number n, or the acknowledgement of one, is still on its way.
InUse(n) ==
    \/ \E i \in DOMAIN toBMC : toBMC[i].seq = n
    \/ \E i \in DOMAIN toConsole : toConsole[i].acked = n

\* ipmi_lanplus_send_sol numbers a packet and passes it to send_payload.
Number(n, d) ==
    /\ pkt' = Packet(SaneSeq(n), d, 0, 0, FALSE)
    /\ sequence_number' = SaneSeq(n) + 1
    /\ itry' = 0
    /\ pc' = "send"

\* lan2_send_sol: the user typed n characters, or a line of the script is read.
Type(n) ==
    /\ pc = "idle"
    /\ typed + n + Len(extras) <= MaxTyped
    /\ sol_seq' = IncSolSeq
    /\ Number(IncSolSeq, Chars(typed + 1, n))
    /\ op' = "data"
    /\ typed' = typed + n
    /\ drift' = (drift \/ IncSolSeq # SaneSeq(sequence_number) \/ InUse(IncSolSeq))
    /\ UNCHANGED <<last, slow_link, printed, network, bmc, allAcked, extras>>

\* lan2_send_break (~B), and lan2_keepalive of type 2: a packet of no
\* characters, under whatever number the session holds.
SendExtra(x) ==
    /\ pc = "idle"
    /\ Number(sequence_number, <<>>)
    /\ op' = x
    /\ Len(extras) < MaxExtras /\ typed + Len(extras) < MaxTyped
    /\ extras' = Append(extras, x)
    /\ UNCHANGED <<sol_seq, last, slow_link, printed, network, bmc, typed, allAcked, drift>>

\* Mutant: a retransmission takes the next number.
TransmitRenumbers ==
    /\ pc = "send"
    /\ toBMC' \in Sent(toBMC, [pkt EXCEPT !.seq = SaneSeq(@ + itry)])
    /\ pkt' = [pkt EXCEPT !.seq = SaneSeq(@ + itry)]
    /\ pc' = "recv"
    /\ UNCHANGED <<console, op, itry, toConsole, overtakes, bmc, history>>

Transmit ==
    /\ pc = "send"
    /\ toBMC' \in Sent(toBMC, pkt)
    /\ pc' = "recv"
    /\ UNCHANGED <<console, op, pkt, itry, toConsole, overtakes, bmc, history>>

\* The send returned without a response: lan2_send_sol returns -1, which ends
\* the console (LAN_ERR_DROPPED); of a break or a keepalive nobody minds.
Dropped ==
    /\ pc' = IF op = "data" THEN "done" ELSE "idle"
    /\ allAcked' = (allAcked /\ op # "data")
    /\ UNCHANGED <<op, pkt, itry>>

\* The message cannot be built, or send() fails.
TransmitFails ==
    /\ pc = "send"
    /\ Dropped
    /\ UNCHANGED <<console, network, bmc, typed, extras, drift>>

-----------------------------------------------------------------------------
(* The console receives.                                                   *)

\* Mutant: the tail of a packet that grew is taken from its front.
FreshGrownFromFront(p) ==
    IF p.seq # last.seq THEN p.data
    ELSE SubSeq(p.data, 1, Len(p.data) - last.count)

\* check_sol_packet_for_new_data: the characters of p not seen before.
Fresh(p) ==
    IF p.seq = 0 THEN <<>>
    ELSE IF p.seq # last.seq THEN p.data
    ELSE SubSeq(p.data, last.count + 1, Len(p.data))

\* ipmi_lanplus_recv_sol: packet i is acknowledged, by a packet that may get
\* lost, and remembered.
RecvSol(i) ==
    LET p == toConsole[i] IN
    /\ Arrives(i)
    /\ Overtaken(i)
    /\ toConsole' = RemoveAt(toConsole, i)
    /\ toBMC' \in IF p.seq = 0 THEN {toBMC}
                  ELSE Sent(toBMC, Ack(p.seq, Len(p.data)))
    /\ last' = IF p.seq = 0 THEN last ELSE [seq |-> p.seq, count |-> Len(p.data)]

\* sol_output_handler
Output(d) == printed' = printed \o d

\* sol_response_acks_packet
Acks(p) == p.acked = pkt.seq

\* is_sol_partial_ack: what of the packet is left to be sent.
Rest(p) == SubSeq(pkt.data, p.count + 1, Len(pkt.data))

\* Who prints the characters of a packet that arrives while sending: while
\* the acknowledgement is missing, and when a rest is sent, the handler, and
\* otherwise the caller, sol_input_handler or sol_keepalive.  send_break does
\* not.
Show(p) ==
    IF Acks(p) /\ op = "break" THEN UNCHANGED printed ELSE Output(Fresh(p))

\* Not yet acknowledged: the try is used up, and the last one ends the send.
NextTry(again) ==
    /\ itry + 1 < Retry
    /\ itry' = itry + 1
    /\ pc' = IF again THEN "send" ELSE "recv"
    /\ UNCHANGED <<op, pkt, allAcked>>

\* The send returns a response, which need not be the acknowledgement: the
\* input counts as sent.
Return(full) ==
    /\ pc' = "idle"
    /\ allAcked' = (allAcked /\ (op = "data" => full))
    /\ UNCHANGED <<op, pkt, itry>>

\* The acknowledgement arrives.
Acked(i) ==
    LET p == toConsole[i] IN
    /\ pc = "recv"
    /\ RecvSol(i)
    /\ Acks(p)
    /\ p.stop \/ Rest(p) = <<>>
    /\ Show(p)
    /\ Return(Rest(p) = <<>>)
    /\ UNCHANGED <<sequence_number, sol_seq, slow_link, bmc, typed, extras, drift>>

\* It accepts a part: ipmi_lanplus_send_sol sends the rest under a new number.
PartlyAcked(i) ==
    LET p == toConsole[i] IN
    /\ pc = "recv"
    /\ RecvSol(i)
    /\ Acks(p)
    /\ ~ p.stop
    /\ Rest(p) # <<>>
    /\ Show(p)
    /\ Number(sequence_number, Rest(p))
    /\ drift' = (drift \/ InUse(SaneSeq(sequence_number)))
    /\ UNCHANGED <<sol_seq, slow_link, op, bmc, typed, allAcked, extras>>

\* Mutant: a packet that brings characters does not use up the try.
NotAckedWaitsOn(i) ==
    /\ pc = "recv"
    /\ RecvSol(i)
    /\ ~ Acks(toConsole[i])
    /\ Show(toConsole[i])
    /\ UNCHANGED <<sequence_number, sol_seq, slow_link, control, bmc, history>>

\* Another SOL packet arrives: characters of the BMC or an old
\* acknowledgement.  On a slow link characters end the send.
NotAcked(i) ==
    LET p == toConsole[i] IN
    /\ pc = "recv"
    /\ RecvSol(i)
    /\ ~ Acks(p)
    /\ Show(p)
    /\ LET ends == itry + 1 >= Retry \/ (slow_link /\ Fresh(p) # <<>>)
       IN  \/ ~ ends /\ \E again \in BOOLEAN : NextTry(again)
           \/ ends /\ Return(FALSE)
    /\ UNCHANGED <<sequence_number, sol_seq, slow_link, bmc, typed, extras, drift>>

\* The late answer to a keepalive arrives while sending.
OtherAnswer ==
    /\ pc = "recv"
    /\ \/ \E again \in BOOLEAN : NextTry(again)
       \/ itry + 1 >= Retry /\ Return(FALSE)
    /\ UNCHANGED <<console, network, bmc, typed, extras, drift>>

\* poll_recv returned nothing: select() expired, or the packet was bad.
NoAnswer ==
    /\ pc = "recv"
    /\ \/ \E again \in BOOLEAN : NextTry(again)
       \/ itry + 1 >= Retry /\ Dropped
    /\ UNCHANGED <<console, network, bmc, typed, extras, drift>>

\* lan2_recv_sol, when select() finds the socket readable, and
\* ipmi_lanplus_keepalive, when SOL packets arrive before the answer to its
\* Get Device ID.
OutputArrives(i) ==
    /\ pc \in {"idle", "keepalive"}
    /\ RecvSol(i)
    /\ Output(Fresh(toConsole[i]))
    /\ UNCHANGED <<sequence_number, sol_seq, slow_link, control, bmc, history>>

\* sol_data_loop stops when a packet is bad.
ReadError ==
    /\ pc = "idle"
    /\ pc' = "done"
    /\ UNCHANGED <<console, op, pkt, itry, network, bmc, history>>

\* lan2_keepalive of type 1, which is a command: LanplusCmd.
Keepalive ==
    /\ pc = "idle"
    /\ pc' = "keepalive"
    /\ UNCHANGED <<console, op, pkt, itry, network, bmc, history>>

KeepaliveReturns ==
    /\ pc = "keepalive"
    /\ pc' = "idle"
    /\ UNCHANGED <<console, op, pkt, itry, network, bmc, history>>

-----------------------------------------------------------------------------
(* The BMC (external).  It takes nothing of a packet whose number it has     *)
(* just seen, and acknowledges it as before.  It sends its characters again  *)
(* until all that it last sent is acknowledged, and may add to them.         *)

\* What the BMC sends when it waits for len characters to be acknowledged.
Pending(s, len, ack) ==
    [ack EXCEPT !.seq = s, !.data = Chars(bmcAcked + 1, len)]

\* An acknowledgement, alone or along with the characters that wait.
Answers(ack) ==
    {ack} \cup IF bmcTx.len > 0 THEN {Pending(bmcTx.seq, bmcTx.len, ack)} ELSE {}

BmcAccept(p, n, flag) ==
    /\ bmcIn' = bmcIn \o SubSeq(p.data, 1, n)
    /\ bmcRx' = [seq |-> p.seq, count |-> n, stop |-> flag]
    /\ partials' = IF n < Len(p.data) THEN partials + 1 ELSE partials
    /\ \E a \in Answers(Packet(0, <<>>, p.seq, n, flag)) : toConsole' \in Sent(toConsole, a)

\* Characters, or a break, arrive.
BmcReceive(i) ==
    LET p == toBMC[i] IN
    /\ Arrives(i)
    /\ Overtaken(i)
    /\ p.seq # 0
    /\ toBMC' = RemoveAt(toBMC, i)
    /\ \/ /\ p.seq # bmcRx.seq
          /\ \/ BmcAccept(p, Len(p.data), FALSE)
             \/ /\ partials < MaxPartials
                /\ \E n \in 0..(Len(p.data) - 1), flag \in BOOLEAN : BmcAccept(p, n, flag)
       \/ /\ p.seq = bmcRx.seq
          /\ \E a \in Answers(Packet(0, <<>>, p.seq, bmcRx.count, bmcRx.stop)) :
                toConsole' \in Sent(toConsole, a)
          /\ UNCHANGED <<bmcIn, bmcRx, partials>>
    /\ UNCHANGED <<console, control, bmcTx, bmcAcked, history>>

\* An acknowledgement arrives.
BmcAcked(i) ==
    LET p == toBMC[i] IN
    /\ Arrives(i)
    /\ Overtaken(i)
    /\ p.seq = 0
    /\ toBMC' = RemoveAt(toBMC, i)
    /\ IF p.acked = bmcTx.seq /\ p.count = bmcTx.len
       THEN bmcAcked' = bmcAcked + bmcTx.len /\ bmcTx' = [bmcTx EXCEPT !.len = 0]
       ELSE UNCHANGED <<bmcAcked, bmcTx>>
    /\ UNCHANGED <<console, control, toConsole, partials, bmcIn, bmcRx, history>>

\* The BMC sends n characters: new ones, or those that wait and perhaps more.
BmcSend(n) ==
    LET s == IF bmcTx.len = 0 THEN (bmcTx.seq % SolSeqs) + 1 ELSE bmcTx.seq
    IN  /\ n >= bmcTx.len
        /\ bmcAcked + n <= MaxMade
        /\ bmcTx' = [seq |-> s, len |-> n]
        /\ toConsole' \in Sent(toConsole, Pending(s, n, Ack(0, 0)))
        /\ UNCHANGED <<console, control, toBMC, overtakes, partials, bmcIn, bmcRx,
                       bmcAcked, history>>

-----------------------------------------------------------------------------

Receive ==
    \/ \E i \in DOMAIN toConsole : Acked(i) \/ PartlyAcked(i) \/ NotAcked(i)
    \/ OtherAnswer
    \/ NoAnswer

\* A send in progress.
Engine == Transmit \/ TransmitFails \/ Receive

Bmc ==
    \/ \E i \in DOMAIN toBMC : BmcReceive(i) \/ BmcAcked(i)
    \/ \E n \in 1..MaxMade : BmcSend(n)

Next ==
    \/ \E n \in ChunkSizes : Type(n)
    \/ \E x \in {"break", "empty"} : SendExtra(x)
    \/ Engine
    \/ \E i \in DOMAIN toConsole : OutputArrives(i)
    \/ ReadError
    \/ Keepalive
    \/ KeepaliveReturns
    \/ Bmc

\* The console's thread runs: a send in progress takes its next step, be it
\* that select() expires.  Nothing is assumed of user, BMC and network.
Spec == Init /\ [][Next]_vars /\ WF_vars(Engine)

-----------------------------------------------------------------------------
(* Properties.                                                             *)

PacketsOver(maxChar) ==
    [seq : SeqNums, data : Seq(1..maxChar), acked : SeqNums, count : Nat, stop : BOOLEAN]

TypeOK ==
    /\ sequence_number \in 1..(SolSeqs + 1)
    /\ sol_seq \in SeqNums
    /\ last \in [seq : SeqNums, count : 0..MaxMade]
    /\ slow_link \in BOOLEAN
    /\ printed \in Seq(1..MaxMade)
    /\ pc \in {"idle", "send", "recv", "keepalive", "done"}
    /\ op \in {"data", "break", "empty"}
    /\ pkt \in PacketsOver(MaxTyped)
    /\ itry \in 0..(Retry - 1)
    /\ toBMC \in Seq(PacketsOver(MaxTyped))
    /\ toConsole \in Seq(PacketsOver(MaxMade))
    /\ overtakes \in 0..MaxOvertakes
    /\ partials \in 0..MaxPartials
    /\ bmcIn \in Seq(1..MaxTyped)
    /\ bmcRx \in [seq : SeqNums, count : 0..MaxTyped, stop : BOOLEAN]
    /\ bmcTx \in [seq : SeqNums, len : 0..MaxMade]
    /\ bmcAcked \in 0..MaxMade
    /\ typed \in 0..MaxTyped
    /\ allAcked \in BOOLEAN
    /\ extras \in BoundedSeq({"break", "empty"}, MaxExtras)
    /\ drift \in BOOLEAN

Broken == "break" \in ToSet(extras)

\* The BMC never gets a typed character twice or after a later one, whatever
\* is lost, retransmitted or accepted in part (a retransmission keeps its
\* packet's number in ipmi_lanplus_send_payload, a rest takes a new one), as
\* long as every input began with the number that follows the last packet's,
\* no number came round while a packet or acknowledgement of that number was
\* still on its way, and no break or keepalive took a number.
\* When, too, every send ended in an acknowledgement that left no rest, the BMC
\* has all that was typed: an acknowledgement of an earlier packet is not taken
\* for that of a later one, and rests are sent from the right place.
\* The other way, no character of the BMC's is acknowledged, so that it is not
\* sent again, and not shown: isol.c:410 says that sol_output_handler "is
\* called [...] whenever SOL data is received from the BMC for output to the
\* console".  Until the user sends a break: send_break drops what came with
\* its acknowledgement.  (And the variables have their types.)
NoneIsLost ==
    /\ TypeOK
    /\ ~ drift /\ extras = <<>> =>
          /\ \A i \in 1..(Len(bmcIn) - 1) : bmcIn[i] < bmcIn[i + 1]
          /\ pc = "idle" /\ allAcked => bmcIn = Chars(1, typed)
    /\ ~ Broken => Len(printed) >= bmcAcked

\* The console shows the BMC's characters in order, none twice and none left
\* out, although it acknowledges, repeats and extends its packets
\* (check_sol_packet_for_new_data): it implements SolStream, until the user
\* sends a break, since send_break drops what came with its acknowledgement.
Shown == INSTANCE SolStream WITH made <- bmcAcked + bmcTx.len, shown <- printed
ShowsTheStream == Shown!Init /\ [][Shown!Next \/ Broken]_(Shown!stream)

\* Every send ends, however many other packets arrive meanwhile, as long as
\* the BMC accepts something.
SendReturns == pc = "send" ~> pc \in {"idle", "done"}

=============================================================================
