------------------------------- MODULE Discover -------------------------------
(***************************************************************************)
(* "ipmiutil discover" (util/idiscover.c), as built for Linux, that is, with  *)
(* one thread (NO_THREADS): it pings a range of addresses, or a broadcast      *)
(* address, and shows who answers.                                             *)
(*                                                                         *)
(* An address is a number, of which the part below Octets is its last octet;   *)
(* an answer does not say which probe it is to.  Nodes and network are          *)
(* external: answers are lost, late, or come in any order, and strangers send   *)
(* packets without end.                                                         *)
(***************************************************************************)
EXTENDS Integers, Sequences, FiniteSets, SequencesExt

CONSTANTS
    Setups,    \* command lines, and the nodes that are there
    Octets,    \* values of an address's last octet: 256 in the code
    Nibble,    \* those of its lower half: 16 in the code
    Limit,     \* g_limit: other packets that are read over a raw socket
    MaxLost,   \* bound: probes or answers that are lost
    MaxLate,   \* bound: answers that come when they are no longer waited for
    MaxQueue   \* bound: strangers' packets that wait on a socket

ASSUME DiscoverAssumption ==
    /\ {Octets, Nibble} \subseteq Nat \ {0, 1, 2}
    /\ {Limit, MaxLost, MaxLate, MaxQueue} \subseteq Nat

VARIABLES
    setup,    \* begin, end, repeat (g_repeat), broadcast, raw, nodes
    pc,       \* init, next, probe, wait or done
    i,        \* addresses taken, of g_num_packets
    j,        \* probes sent to this one, of g_repeat
    ip,       \* the address
    again,    \* the second probe was sent
    status,   \* g_recv_status
    nothers,  \* other packets that this wait has read
    shown,    \* the nodes shown, in order
    rc,       \* what the program returns
    air,      \* answers on their way
    queue,    \* packets in the socket's buffer
    lost,     \* those of which a probe or answer was lost, as often
    late,     \* answers that came late
    probed,   \* history: the probes, by address
    mistaken  \* history: a stranger's packet was taken for the answer

host == <<setup, i, j, ip>>
net == <<air, queue, lost, late>>
history == <<probed, mistaken>>
vars == <<host, pc, again, status, nothers, shown, rc, net, history>>

Other == 0     \* a packet that is not RMCP
Foreign == -1  \* a stranger's RMCP packet, or one from a broadcast source
Octet(a) == a % Octets
IsEdge(a) == Octet(a) \in {0, Octets - 1}
IsBroadcast(a) == Octet(a) % Nibble \in {0, Nibble - 1}
Addresses == setup.begin..setup.end

\* How often a is in the sequence s.
Times(s, a) == Cardinality({k \in DOMAIN s : s[k] = a})

Init ==
    /\ setup \in Setups
    /\ pc = "init" /\ i = 0 /\ j = 0 /\ ip = setup.begin
    /\ again = FALSE /\ status = 0 /\ nothers = 0
    /\ shown = <<>> /\ rc = "ok"
    /\ air = <<>> /\ queue = <<>> /\ lost = <<>> /\ late = 0
    /\ probed = <<>> /\ mistaken = FALSE

-----------------------------------------------------------------------------

\* Mutant: the last address is left out.
NumPacketsShort == IF setup.end < setup.begin THEN 0 ELSE setup.end - setup.begin

\* g_num_packets
NumPackets == IF setup.end < setup.begin THEN 0 ELSE setup.end - setup.begin + 1

\* sock_init: the addresses are looked at, and the socket is made ready, which
\* may fail.
SockInit ==
    /\ pc = "init"
    /\ \/ /\ IF setup.broadcast THEN IsBroadcast(setup.begin) ELSE ~IsEdge(setup.begin) /\ ~IsEdge(setup.end)
          /\ pc' = "next"
          /\ UNCHANGED rc
       \/ pc' = "done" /\ rc' = "error"
    /\ UNCHANGED <<host, again, status, nothers, shown, net, history>>

\* sendThread: the next address, unless it is not to be probed.  Such a one is
\* counted, but not left.
NextAddress ==
    /\ pc = "next"
    /\ j' = 0
    /\ IF i = NumPackets THEN pc' = "done" /\ UNCHANGED i
       ELSE IF Octet(ip) = 0 \/ (~setup.broadcast /\ Octet(ip) = Octets - 1)
       THEN i' = i + 1 /\ UNCHANGED pc
       ELSE pc' = "probe" /\ UNCHANGED i
    /\ UNCHANGED <<setup, ip, again, status, nothers, shown, rc, net, history>>

\* The nodes that a probe of ip reaches.
Reached == IF setup.broadcast THEN setup.nodes ELSE setup.nodes \cap {ip}

\* A probe is sent, and the wait for answers begins; over a raw socket, which
\* is opened now, only answers that come from now on are seen.
Probe(second) ==
    /\ \E gone \in SUBSET Reached, early \in SUBSET Reached :
          /\ gone \cap early = {}
          /\ early # {} => setup.raw
          /\ Len(lost) + Cardinality(gone \cup early) <= MaxLost
          /\ lost' = lost \o SetToSeq(gone \cup early)
          /\ air' = air \o SetToSeq(Reached \ (gone \cup early))
    /\ probed' = Append(probed, ip)
    /\ queue' = IF setup.raw THEN <<>> ELSE queue
    /\ again' = second
    /\ nothers' = 0
    /\ pc' = "wait"

\* A probe that fails is sent again at once; if that fails, too, it is left.
SendProbe ==
    /\ pc = "probe"
    /\ UNCHANGED mistaken
    /\ IF j = setup.repeat
       THEN /\ pc' = "next" /\ i' = i + 1 /\ ip' = ip + 1
            /\ UNCHANGED <<setup, j, again, status, nothers, shown, rc, net, probed>>
       ELSE \/ /\ Probe(FALSE) /\ j' = j + 1
               /\ UNCHANGED <<setup, i, ip, status, shown, rc, late>>
            \/ /\ Len(lost) + 1 < MaxLost /\ lost' = lost \o <<ip, ip>>
               /\ j' = j + 1
               /\ UNCHANGED <<setup, i, ip, pc, again, status, nothers, shown, rc, air, queue, late, probed>>

-----------------------------------------------------------------------------
(* receiveThread                                                           *)

NextProbe == pc' = "probe" /\ UNCHANGED <<again, nothers, air, lost, probed>>

\* Mutant: who does not answer at once is not asked again.
GivesUp ==
    /\ pc = "wait"
    /\ queue = <<>>
    /\ status' = 0
    /\ late + Len(air) <= MaxLate /\ late' = late + Len(air)
    /\ NextProbe /\ UNCHANGED queue
    /\ UNCHANGED <<host, shown, rc, mistaken>>

\* select() expires; what is still on its way is late.  Who did not answer is
\* asked once more (after a poke, if it was pinged), which may fail.
Timeout ==
    /\ pc = "wait"
    /\ queue = <<>>
    /\ status' = 0
    /\ late + Len(air) <= MaxLate /\ late' = late + Len(air)
    /\ IF setup.broadcast \/ again THEN NextProbe /\ UNCHANGED queue
       ELSE \/ Probe(TRUE)
            \/ /\ Len(lost) < MaxLost /\ lost' = Append(lost, ip)
               /\ pc' = "probe"
               /\ UNCHANGED <<again, nothers, air, queue, probed>>
    /\ UNCHANGED <<host, shown, rc, mistaken>>

\* A broadcast is answered by many: they are read until select() expires.
Stays ==
    /\ queue' = Tail(queue)
    /\ pc' = IF setup.broadcast THEN pc ELSE "probe"
    /\ UNCHANGED <<again, air, lost, late, probed>>

Show ==
    /\ pc = "wait"
    /\ queue # <<>> /\ Head(queue) \notin {Other, Foreign}
    /\ status' = 2
    /\ shown' = Append(shown, Head(queue))
    /\ Stays
    /\ UNCHANGED <<host, nothers, rc, mistaken>>

\* A stranger's packet is shown, too, unless its source is a broadcast
\* address; neither is counted, and the wait ends or goes on as with an answer.
TakeForeign ==
    /\ pc = "wait"
    /\ queue # <<>> /\ Head(queue) = Foreign
    /\ status' = 2
    /\ Stays
    /\ mistaken' = (mistaken \/ ~setup.broadcast)
    /\ UNCHANGED <<host, nothers, shown, rc>>

\* Mutant: other packets are not counted.
SkipOtherUncounted ==
    /\ pc = "wait"
    /\ queue # <<>> /\ Head(queue) = Other
    /\ status' = 2
    /\ Stays
    /\ UNCHANGED <<host, nothers, shown, rc, mistaken>>

\* A raw socket reads everybody's packets: of those that are none of ours only
\* so many.
SkipOther ==
    /\ pc = "wait"
    /\ queue # <<>> /\ Head(queue) = Other
    /\ status' = 2
    /\ IF nothers > Limit
       THEN pc' = "probe" /\ queue' = Tail(queue) /\ UNCHANGED <<nothers, again, air, lost, late, probed>>
       ELSE nothers' = nothers + 1 /\ Stays
    /\ UNCHANGED <<host, shown, rc, mistaken>>

\* recvfrom fails: the wait counts as answered, and the packet stays.
ReceiveFails ==
    /\ pc = "wait"
    /\ queue # <<>> /\ Len(lost) < MaxLost
    /\ lost' = Append(lost, Other)
    /\ status' = 1
    /\ pc' = IF setup.broadcast THEN pc ELSE "probe"
    /\ UNCHANGED <<host, nothers, again, shown, rc, air, queue, late, history>>

\* select() fails: the program exits.
SelectFails ==
    /\ pc = "wait"
    /\ Len(lost) < MaxLost
    /\ lost' = Append(lost, Other)
    /\ pc' = "done" /\ rc' = "error"
    /\ UNCHANGED <<host, again, status, nothers, shown, air, queue, late, history>>

-----------------------------------------------------------------------------
(* The network (external).                                                  *)

Deliver ==
    /\ pc \in {"next", "probe", "wait"}
    /\ \E k \in DOMAIN air : air' = RemoveAt(air, k) /\ queue' = Append(queue, air[k])
    /\ UNCHANGED <<host, pc, again, status, nothers, shown, rc, lost, late, history>>

\* Somebody else's packet; a raw socket, while it is open, also sees those
\* that are not for this program.
Stranger(p) ==
    /\ pc = "wait" \/ (pc \in {"next", "probe"} /\ ~setup.raw)
    /\ p = Other => setup.raw
    /\ Times(queue, Other) + Times(queue, Foreign) < MaxQueue
    /\ queue' = Append(queue, p)
    /\ UNCHANGED <<host, pc, again, status, nothers, shown, rc, air, lost, late, history>>

Receives == Timeout \/ Show \/ TakeForeign \/ SkipOther \/ ReceiveFails \/ SelectFails

Next == SockInit \/ NextAddress \/ SendProbe \/ Receives \/ Deliver \/ (\E p \in {Other, Foreign} : Stranger(p))

\* The program runs.
Spec == Init /\ [][Next]_vars /\ WF_vars(SockInit \/ NextAddress \/ SendProbe \/ Receives) /\ WF_vars(Deliver)

-----------------------------------------------------------------------------
(* Properties.                                                             *)

TypeOK ==
    /\ setup \in Setups /\ pc \in {"init", "next", "probe", "wait", "done"}
    /\ i \in 0..NumPackets /\ j \in 0..setup.repeat /\ ip \in Nat
    /\ status \in 0..2 /\ nothers \in 0..(Limit + 1) /\ late \in 0..MaxLate
    /\ Range(queue) \subseteq setup.nodes \cup {Other, Foreign}
    /\ Range(air) \subseteq setup.nodes /\ Range(shown) \subseteq setup.nodes
    /\ mistaken \in BOOLEAN

\* The addresses before the first that is not probed, which the code does not
\* get past (idiscover.c, sendThread).
Passed == {a \in Addresses : \A b \in setup.begin..a : Octet(b) # 0 /\ (setup.broadcast \/ Octet(b) # Octets - 1)}

\* "-b ... -e ..." (show_usage): each address from begin to end, as far as
\* Passed, is probed as often as asked and at most once more for each time,
\* and never one outside or a broadcast address that was not asked for.
\* (And the variables have their types.)
RangeIsProbed ==
    /\ TypeOK
    /\ \A k \in DOMAIN probed : probed[k] \in Passed
    /\ \A a \in Passed : Times(probed, a) <= 2 * setup.repeat
    /\ pc = "done" /\ rc = "ok" => \A a \in Passed : Times(probed, a) + Times(lost, a) >= setup.repeat

\* Who is there and on the way is found, through one loss: a node that was
\* probed, of which at most one probe or answer was lost, is shown in the end,
\* unless answers came late, and were taken for the answer to a later probe, a
\* stranger's packet was taken for an answer, or a receive failed
\* (idiscover.c, the second probe and receiveThread).  A broadcast is not asked
\* a second time, and a raw socket stops at other packets.
NodesAreFound ==
    pc = "done" /\ rc = "ok" /\ late = 0 /\ ~mistaken /\ Times(lost, Other) = 0 /\ ~setup.raw =>
        \A n \in setup.nodes :
            /\ (IF setup.broadcast THEN setup.begin ELSE n) \in Passed
            /\ IF setup.broadcast THEN Times(lost, n) + Times(lost, setup.begin) < setup.repeat ELSE Times(lost, n) < 2
            => n \in Range(shown)

\* Every search ends, whoever answers, whatever strangers send, and whatever
\* goes by a raw socket (g_limit); but one by broadcast only unless strangers'
\* RMCP packets, or packets from a broadcast source, come without end: these
\* are not counted, and each starts a new wait (receiveThread).
SearchEnds ==
    <>(pc = "done") \/ []<><<setup.broadcast /\ TakeForeign>>_vars
=============================================================================
