------------------------------ MODULE LanplusCmd ------------------------------
(***************************************************************************)
(* The command engine of an active RMCP+ session (lib/lanplus/lanplus.c).   *)
(*                                                                         *)
(* ipmi_cmdraw_lan2 and ipmi_lanplus_keepalive hand one request at a time  *)
(* to ipmi_lanplus_send_payload, which transmits it, waits in              *)
(* ipmi_lan_poll_recv, and retransmits on a timeout.  Every transmission   *)
(* takes a new IPMI sequence number and appends a new entry to the list of *)
(* outstanding requests; a received response is recognised by the first    *)
(* entry with its sequence number and command, which it removes.           *)
(*                                                                         *)
(* The BMC and the network are external: requests and responses may be     *)
(* lost (never delivered), overtaken or duplicated, but a packet does not  *)
(* outlive NumSeqs later transmissions.                                     *)
(***************************************************************************)
EXTENDS Integers, Sequences, SequencesExt

CONSTANTS
    Cmds,         \* the commands that callers issue
    GetDeviceID,  \* the one that ipmi_lanplus_keepalive issues
    SendMessage,  \* command 0x34, which carries a bridged command
    Retry,        \* session->retry
    NumSeqs,       \* the range of curr_seq: 64 in the code
    BaseTimeout,  \* lan2_timeout
    MaxCalls,     \* bound: calls made
    MaxDuplicates \* bound: responses that the network delivers once more

ASSUME CmdAssumption ==
    /\ GetDeviceID \in Cmds
    /\ SendMessage \notin Cmds
    /\ NumSeqs \in Nat \ {0}
    /\ Retry \in 1..NumSeqs
    /\ BaseTimeout \in Nat
    /\ MaxCalls \in Nat
    /\ MaxDuplicates \in Nat

VARIABLES
    rqEntries,   \* ipmi_req_entries, the outstanding requests, in order
    curr_seq,    \* the last IPMI sequence number used
    timeout,     \* session->timeout
    bridge,      \* bridgePossible and intf->target_addr # intf->my_addr
    pc,          \* where the caller is: idle, send, recv or drain
    op,          \* the function the caller is in: command or keepalive
    cmd,         \* req.msg.cmd of the current call
    itry,        \* tries used by the current call
    toBMC,       \* requests in flight
    toConsole,   \* responses in flight
    duplicates,  \* responses that were delivered once more
    stray,       \* a packet that answers nothing is on its way
    tx,          \* history: transmissions built so far
    call,        \* history: calls made so far
    start,       \* history: tx when the current call began
    clean,       \* history: the list was empty when the current call began
    reused,      \* history: a sequence number was taken that was still listed
    taken,       \* history: the responses accepted, as <<transmission, cmd>>
    answer       \* history: what the last call returned

console == <<rqEntries, curr_seq, timeout, bridge>>
control == <<pc, op, cmd, itry>>
network == <<toBMC, toConsole, duplicates, stray>>
history == <<tx, call, start, clean, reused, taken, answer>>
vars == <<console, control, network, history>>

Kinds == {"none", "ipmi", "sol", "pong"}

Entry == [seq : 0..(NumSeqs - 1), cmd : Cmds \cup {SendMessage},
          n : Nat, call : Nat]
Request == [seq : 0..(NumSeqs - 1), cmd : Cmds, n : Nat, call : Nat,
            bridged : BOOLEAN]
Response == [seq : 0..(NumSeqs - 1), cmd : Cmds \cup {SendMessage}, n : Nat,
             call : Nat, ok : BOOLEAN]

-----------------------------------------------------------------------------

Init ==
    /\ rqEntries = <<>>
    /\ curr_seq = 0
    /\ timeout = BaseTimeout
    /\ bridge = FALSE
    /\ pc = "idle"
    /\ op = "command"
    /\ cmd = GetDeviceID
    /\ itry = 0
    /\ toBMC = {}
    /\ toConsole = {}
    /\ duplicates = 0
    /\ stray = FALSE
    /\ tx = 0
    /\ call = 0
    /\ start = 0
    /\ clean = TRUE
    /\ reused = FALSE
    /\ taken = {}
    /\ answer = [kind |-> "none", call |-> 0]

\* A call enters ipmi_lanplus_send_payload: itry = 0 and xmit = 1.
Begin(f, c) ==
    /\ pc = "idle"
    /\ call < MaxCalls
    /\ pc' = "send"
    /\ op' = f
    /\ cmd' = c
    /\ itry' = 0
    /\ call' = call + 1
    /\ start' = tx
    /\ clean' = (rqEntries = <<>>)
    /\ UNCHANGED <<rqEntries, curr_seq, timeout, network, tx, reused,
                   taken, answer>>

\* ipmi_cmdraw_lan2 points the interface at the command's target.
Command(c, bridged) ==
    /\ Begin("command", c)
    /\ bridge' = bridged

\* ipmi_lanplus_keepalive keeps whatever target the last command set.
Keepalive ==
    /\ Begin("keepalive", GetDeviceID)
    /\ UNCHANGED bridge

\* The call returns; rsp is the packet its caller takes for the answer.
Return(rsp) ==
    /\ pc' = "idle"
    /\ answer' = rsp
    /\ UNCHANGED <<op, cmd, itry>>

NoRsp == [kind |-> "none", call |-> call]

-----------------------------------------------------------------------------
(* Transmission.                                                           *)

NextSeq == IF curr_seq + 1 >= NumSeqs THEN 0 ELSE curr_seq + 1

NewEntry(c) == [seq |-> NextSeq, cmd |-> c, n |-> tx + 1, call |-> call]

\* The entries of one transmission: a bridged command is listed under its own
\* command and under Send Message.
NewEntries ==
    IF bridge THEN <<NewEntry(cmd), NewEntry(SendMessage)>>
              ELSE <<NewEntry(cmd)>>

\* Packets older than NumSeqs transmissions are gone.
Alive(packets) == {p \in packets : p.n > (tx + 1) - NumSeqs}

\* ipmi_lanplus_build_v2x_ipmi_cmd: the sequence number is taken first, then
\* the first `listed` of the entries are added.
Build(listed) ==
    /\ pc = "send"
    /\ tx' = tx + 1
    /\ curr_seq' = NextSeq
    /\ rqEntries' = rqEntries \o SubSeq(NewEntries, 1, listed)
    /\ toConsole' = Alive(toConsole)
    /\ reused' = (reused \/ \E i \in DOMAIN rqEntries : rqEntries[i].seq = NextSeq)
    /\ UNCHANGED <<timeout, bridge, duplicates, stray, call, start, clean, taken>>

\* The request is sent and the caller waits in ipmi_lan_poll_recv.
Transmit ==
    /\ Build(Len(NewEntries))
    /\ toBMC' = Alive(toBMC) \cup
                {[seq |-> NextSeq, cmd |-> cmd, n |-> tx + 1, call |-> call,
                  bridged |-> bridge]}
    /\ pc' = "recv"
    /\ UNCHANGED <<op, cmd, itry, answer>>

\* An allocation, the message build or send() fails: the call returns at
\* once, the entries added so far stay listed, the timeout is not reset.
TransmitFails ==
    \E listed \in 0..Len(NewEntries) :
        /\ Build(listed)
        /\ toBMC' = Alive(toBMC)
        /\ Return(NoRsp)

-----------------------------------------------------------------------------
(* Reception.                                                              *)

Polling == pc \in {"recv", "drain"}

\* Mutant: a keepalive that meets no further packet keeps polling.
NoAnswerKeepsDraining(again) ==
    IF pc = "drain"
    THEN UNCHANGED <<timeout, control, answer>>
    ELSE \/ /\ itry + 1 < Retry
            /\ itry' = itry + 1
            /\ pc' = IF again THEN "send" ELSE "recv"
            /\ timeout' = IF again THEN timeout + 1 ELSE timeout
            /\ UNCHANGED <<op, cmd, answer>>
         \/ /\ itry + 1 >= Retry
            /\ timeout' = BaseTimeout
            /\ Return(NoRsp)

\* poll_recv returned NULL.  In ipmi_lanplus_send_payload that ends a try,
\* and the next one retransmits when `again`; the keepalive's own poll gives
\* up.
NoAnswer(again) ==
    \/ /\ pc = "recv"
       /\ itry + 1 < Retry
       /\ itry' = itry + 1
       /\ pc' = IF again THEN "send" ELSE "recv"
       /\ timeout' = IF again THEN timeout + 1 ELSE timeout
       /\ UNCHANGED <<op, cmd, answer>>
    \/ /\ pc = "drain" \/ itry + 1 >= Retry
       /\ timeout' = BaseTimeout
       /\ Return(NoRsp)

\* select() expires.
Timeout ==
    /\ Polling
    /\ NoAnswer(TRUE)
    /\ UNCHANGED <<rqEntries, curr_seq, bridge, network, tx, call, start, clean,
                   reused, taken>>

\* Mutants: an entry is recognised by its command alone, or by its sequence
\* number alone.
LookupByCmd(i, p) ==
    /\ rqEntries[i].cmd = p.cmd
    /\ \A j \in 1..(i - 1) : rqEntries[j].cmd # p.cmd

LookupBySeq(i, p) ==
    /\ rqEntries[i].seq = p.seq
    /\ \A j \in 1..(i - 1) : rqEntries[j].seq # p.seq

\* ipmi_req_lookup_entry: entry i is the first that p matches.
Lookup(i, p) ==
    /\ rqEntries[i].seq = p.seq
    /\ rqEntries[i].cmd = p.cmd
    /\ \A j \in 1..(i - 1) : ~ (rqEntries[j].seq = p.seq /\ rqEntries[j].cmd = p.cmd)

\* A response is read off the socket; the network may hold a duplicate.
Read(p) ==
    /\ Polling
    /\ \/ toConsole' = toConsole \ {p} /\ UNCHANGED duplicates
       \/ /\ duplicates < MaxDuplicates
          /\ duplicates' = duplicates + 1
          /\ UNCHANGED toConsole
    /\ UNCHANGED <<curr_seq, bridge, toBMC, stray, tx, call, start, clean, reused>>

\* "IPMI Request Match NOT FOUND": the packet is dropped, receive again.
DropUnexpected(p) ==
    /\ Read(p)
    /\ ~ \E i \in DOMAIN rqEntries : Lookup(i, p)
    /\ UNCHANGED <<rqEntries, timeout, control, taken, answer>>

\* Mutant: every entry with the response's sequence number is removed.
AcceptRemovesAll(p) ==
    /\ \E i \in DOMAIN rqEntries : Lookup(i, p)
    /\ rqEntries' = SelectSeq(rqEntries, LAMBDA e : e.seq # p.seq)
    /\ taken' = taken \cup {<<p.n, p.cmd>>}

\* ipmi_req_remove_entry of the entry that was looked up.
Accept(p) ==
    /\ \E i \in DOMAIN rqEntries :
         /\ Lookup(i, p)
         /\ rqEntries' = RemoveAt(rqEntries, i)
    /\ taken' = taken \cup {<<p.n, p.cmd>>}

\* The BMC accepted the Send Message: the target's answer is still to come.
BridgeAck(p) == bridge /\ p.cmd = SendMessage /\ p.ok

AwaitBridged(p) ==
    /\ Read(p)
    /\ Accept(p)
    /\ BridgeAck(p)
    /\ UNCHANGED <<timeout, control, answer>>

Answered(p) ==
    /\ Read(p)
    /\ Accept(p)
    /\ ~ BridgeAck(p)
    /\ timeout' = BaseTimeout
    /\ Return([kind |-> "ipmi", call |-> p.call])

\* A packet that answers no request is read.
Stray ==
    /\ Polling
    /\ stray
    /\ stray' = FALSE
    /\ UNCHANGED <<rqEntries, curr_seq, bridge, toBMC, toConsole, duplicates, tx,
                   call, start, clean, reused, taken>>

\* Another RMCP class, a response that matches no entry, or a handshake
\* message: receive again, for a whole timeout.
SkipStray == Stray /\ UNCHANGED <<timeout, control, answer>>

\* A foreign session id, an invalid auth code, an unknown payload type, or a
\* pong without IPMI: poll_recv gives up before its time is out.
RejectStray == Stray /\ \E again \in BOOLEAN : NoAnswer(again)

\* A pong, or SOL data, is returned as the answer of whatever was asked.
StrayAnswer(kind) ==
    /\ Stray
    /\ op = "command" \/ kind = "pong"
    /\ timeout' = BaseTimeout
    /\ Return([kind |-> kind, call |-> call])

\* SOL data reaches a keepalive: it is acknowledged and handed over, and the
\* keepalive polls on, without a retry of its own.
DrainSol ==
    /\ Stray
    /\ op = "keepalive"
    /\ timeout' = BaseTimeout
    /\ pc' = "drain"
    /\ UNCHANGED <<op, cmd, itry, answer>>

-----------------------------------------------------------------------------
(* The BMC (external).  It answers each request once.  For a bridged one it *)
(* answers the Send Message, and, when it could forward it, relays the      *)
(* answer of the target, under the same sequence number.                    *)

Rsp(m, c, ok) ==
    [seq |-> m.seq, cmd |-> c, n |-> m.n, call |-> m.call, ok |-> ok]

Serve(m) ==
    /\ toBMC' = toBMC \ {m}
    /\ \/ /\ ~ m.bridged
          /\ toConsole' = toConsole \cup {Rsp(m, m.cmd, TRUE)}
       \/ /\ m.bridged
          /\ toConsole' = toConsole \cup
                {Rsp(m, SendMessage, TRUE), Rsp(m, m.cmd, TRUE)}
       \/ /\ m.bridged
          /\ toConsole' = toConsole \cup {Rsp(m, SendMessage, FALSE)}
    /\ UNCHANGED <<console, control, duplicates, stray, history>>

\* The network (external): a packet that answers nothing may always be on its
\* way, and there is no end to them.
StrayArrives ==
    /\ ~ stray
    /\ stray' = TRUE
    /\ UNCHANGED <<console, control, toBMC, toConsole, duplicates, history>>

-----------------------------------------------------------------------------

Receive ==
    \/ \E p \in toConsole : DropUnexpected(p) \/ AwaitBridged(p) \/ Answered(p)
    \/ SkipStray
    \/ RejectStray
    \/ \E kind \in {"sol", "pong"} : StrayAnswer(kind)
    \/ DrainSol

\* What the console does once a call is made.
Engine == Transmit \/ TransmitFails \/ Receive \/ Timeout

Next ==
    \/ \E c \in Cmds, bridged \in BOOLEAN : Command(c, bridged)
    \/ Keepalive
    \/ Engine
    \/ \E m \in toBMC : Serve(m)
    \/ StrayArrives

\* The console's thread runs: a call in progress takes its next step, be it
\* that select() expires.  Nothing is assumed of callers, BMC and network.
Spec == Init /\ [][Next]_vars /\ WF_vars(Engine)

-----------------------------------------------------------------------------
(* Properties.                                                             *)

TypeOK ==
    /\ rqEntries \in Seq(Entry)
    /\ curr_seq \in 0..(NumSeqs - 1)
    /\ timeout \in Nat
    /\ bridge \in BOOLEAN
    /\ pc \in {"idle", "send", "recv", "drain"}
    /\ op \in {"command", "keepalive"}
    /\ cmd \in Cmds
    /\ itry \in 0..(Retry - 1)
    /\ toBMC \subseteq Request
    /\ toConsole \subseteq Response
    /\ duplicates \in 0..MaxDuplicates
    /\ stray \in BOOLEAN
    /\ tx \in Nat
    /\ call \in 0..MaxCalls
    /\ start \in Nat
    /\ clean \in BOOLEAN
    /\ reused \in BOOLEAN
    /\ taken \subseteq Nat \X (Cmds \cup {SendMessage})
    /\ answer \in [kind : Kinds, call : Nat]

\* The answer to an earlier call is not this call's.
ItsAnswer == pc = "idle" /\ clean => answer.call = call

\* A call that began with no leftover entry in the list never takes an IPMI
\* response to an earlier call for its answer, however late, reordered or
\* duplicated that response arrives (ipmi_lan_poll_recv's "Are we expecting
\* this packet?").  (And the variables have their types.)
OwnAnswer == TypeOK /\ ItsAnswer

\* While the engine waits, the last transmission is still listed under its
\* command, so that its answer will be recognised: no stray, duplicate, late
\* response or bridge acknowledgement has removed it (ipmi_req_remove_entry
\* in ipmi_lan_poll_recv).
AwaitedIsListed ==
    Polling => \E i \in DOMAIN rqEntries :
                  rqEntries[i].n = tx /\ rqEntries[i].cmd = cmd

\* A response is accepted once: the duplicate of one that was taken matches
\* no entry, as long as no listed sequence number was used again.
AnsweredOnce ==
    [][Len(rqEntries') < Len(rqEntries) /\ ~ reused => taken' # taken]_vars

\* To the engine the outstanding requests are a RequestList: which entries it
\* adds is settled before it sends, and it takes out one entry at a time, the
\* first of its kind, whatever arrives.
Listed == [i \in DOMAIN rqEntries |-> [seq |-> rqEntries[i].seq, cmd |-> rqEntries[i].cmd]]
Requests == INSTANCE RequestList
                WITH entries <- Listed, Numbers <- 0..(NumSeqs - 1),
                     Commands <- Cmds \cup {SendMessage}
UsesRequestList == Requests!Spec

\* Every call returns, whatever the BMC does and whatever is lost or late,
\* unless packets that answer nothing come without end: for each of them
\* ipmi_lan_poll_recv waits a whole timeout again, and a keepalive takes in
\* SOL data for as long as it comes.
CallReturns ==
    (pc # "idle" ~> pc = "idle") \/ []<><<SkipStray \/ DrainSol>>_vars

=============================================================================
