------------------------------ MODULE IpmiLan15 ------------------------------
(***************************************************************************)
(* The IPMI 1.5 LAN driver (util/ipmilan.c): opening a session, commands    *)
(* plain and bridged, closing, and the interrupt handler.                   *)
(*                                                                         *)
(* Every exchange goes through _send_lan_cmd, which sends its request once  *)
(* and then takes the next packet on the socket for the response: nothing   *)
(* in the packet is compared with the request.  A response to something     *)
(* else yields Garbage for a session id.                                    *)
(*                                                                         *)
(* The BMC and the network are external.  Packets may be lost (never        *)
(* delivered) or late; MaxDisorder times one is duplicated, or overtakes    *)
(* another of the same exchange.  Those in flight when a new socket is      *)
(* opened are gone.                                                         *)
(***************************************************************************)
EXTENDS Integers

CONSTANTS
    Tries,      \* ipmi_try
    BusyMax,    \* BUSY_MAX
    Garbage,    \* bytes of another response, taken for a session id
    MaxCalls,   \* bound: calls made
    MaxIds,     \* bound: sessions the BMC hands out
    MaxLate,    \* bound: requests sent while a packet is in flight
    MaxDisorder \* bound: responses delivered twice, or before one sent earlier

ASSUME LanAssumption ==
    /\ Tries \in Nat \ {0} /\ BusyMax \in Nat \ {0}
    /\ MaxCalls \in Nat /\ MaxIds \in Nat
    /\ MaxLate \in Nat \ {0} /\ MaxDisorder \in Nat

VARIABLES
    conn,            \* pconn: sockfd, session_id, finsession
    hdr,             \* ipmi_hdr: sess_id, seq_num, and whether bmc_addr is set
    bridgePossible,
    op,              \* the exchange in progress, or idle, or over
    io,              \* where _send_lan_cmd is: idle, send or recv
    itry,            \* tries used in its loop
    cut,             \* *sresp is 0
    level,           \* phdr->bridge_level
    call,            \* the caller's call: to a bridged target, re-opening first
    attempt,         \* exchanges repeated: GetChanAuth, busy challenges
    struck,          \* what SIGINT interrupted
    toBMC,           \* requests in flight
    toConsole,       \* responses in flight
    bmc,             \* the BMC: ids issued, pending and active sessions
    tx, calls, disorder, \* history: requests, calls and disorder so far
    insync,          \* history: every exchange on this socket had a response
    used,            \* history: the numbers sent in each session
    answer           \* history: what the last call returned, until the next one

console == <<conn, hdr, bridgePossible>>
exchange == <<op, io, itry, cut, level, call, attempt, struck>>
network == <<toBMC, toConsole, disorder>>
history == <<tx, calls, insync, used, answer>>
vars == <<console, exchange, network, bmc, history>>

InOpen == {"auth", "challenge", "activate", "setpriv"}
Exchanges == InOpen \cup {"command", "close", "abort"}
Ids == 0..MaxIds \cup {Garbage}

Request == [n : Nat, cmd : Exchanges, sess : Ids, seq : Nat, wrapped : BOOLEAN]

\* What an exchange yields: a response, an error code, or success without a
\* response, which reads as zeros since _ipmilan_cmd cleared its buffer.
Result == [kind : {"rsp", "error", "zeros"}, n : Nat, cmd : Exchanges,
           ack : {"no", "empty", "data"}, cc : {"ok", "busy", "error"}, sess : Ids]
Error == [kind |-> "error", n |-> 0, cmd |-> "command", ack |-> "no",
          cc |-> "error", sess |-> 0]
Zeros == [Error EXCEPT !.kind = "zeros", !.cc = "ok"]

-----------------------------------------------------------------------------

Init ==
    /\ conn = [sockfd |-> FALSE, session_id |-> 0, finsession |-> FALSE]
    /\ hdr = [sess_id |-> 0, seq_num |-> 0, bmc_addr |-> FALSE]
    /\ bridgePossible = FALSE
    /\ op = "idle" /\ io = "idle" /\ itry = 0 /\ cut = FALSE /\ level = 0
    /\ call = [bridged |-> FALSE, reopen |-> FALSE]
    /\ attempt = 0
    /\ struck = "no"
    /\ toBMC = {} /\ toConsole = {}
    /\ bmc = [issued |-> 0, pending |-> {}, active |-> {}]
    /\ tx = 0 /\ calls = 0 /\ disorder = 0
    /\ insync = TRUE
    /\ used = {}
    /\ answer = Error

\* _ipmilan_cmd is called for exchange x.
Enter(x) ==
    /\ op' = x
    /\ io' = "send"
    /\ itry' = 0
    /\ cut' = FALSE

\* The caller's call returns.
Return(r) ==
    /\ op' = "idle"
    /\ io' = "idle"
    /\ answer' = r
    /\ itry' = 0
    /\ cut' = FALSE

-----------------------------------------------------------------------------
(* The calls.                                                              *)

Call(bridged, reopen) ==
    /\ op = "idle"
    /\ calls < MaxCalls
    /\ calls' = calls + 1
    /\ call' = [bridged |-> bridged, reopen |-> reopen]
    /\ answer' = Error
    /\ UNCHANGED <<level, struck, bmc, tx, disorder, used>>

\* ipmi_open_lan gets a socket; ipmilan_open_session clears the header and
\* asks for the authentication capabilities.
Open(bridged, reopen) ==
    /\ ~ conn.sockfd
    /\ Call(bridged, reopen)
    /\ conn' = [conn EXCEPT !.sockfd = TRUE]
    /\ hdr' = [sess_id |-> 0, seq_num |-> 0, bmc_addr |-> FALSE]
    /\ Enter("auth")
    /\ attempt' = 0
    /\ insync' = TRUE
    /\ toBMC' = {} /\ toConsole' = {}
    /\ UNCHANGED bridgePossible

\* ipmicmd_lan: a closed connection is opened first.
Command(bridged) ==
    \/ Open(bridged, TRUE)
    \/ /\ conn.sockfd
       /\ Call(bridged, FALSE)
       /\ Enter("command")
       /\ UNCHANGED <<console, attempt, toBMC, toConsole, insync>>

\* ipmi_close_lan of an open connection.
Close ==
    /\ conn.sockfd
    /\ Call(FALSE, FALSE)
    /\ bridgePossible' = FALSE
    /\ Enter("close")
    /\ UNCHANGED <<conn, hdr, attempt, toBMC, toConsole, insync>>

\* ipmi_flush_lan, for new connection parameters, forgets the session;
\* ipmi_close_lan of a closed connection only resets finsession.
Flush ==
    /\ Call(FALSE, FALSE)
    /\ \/ conn' = [sockfd |-> FALSE, session_id |-> 0, finsession |-> FALSE]
       \/ ~ conn.sockfd /\ conn' = [conn EXCEPT !.finsession = FALSE]
    /\ UNCHANGED <<hdr, bridgePossible, op, io, itry, cut, attempt, toBMC,
                   toConsole, insync>>

\* sig_abort, once: the session is closed over whatever was in progress, and
\* the process ends.
Interrupt ==
    /\ conn.sockfd
    /\ op # "over"
    /\ struck = "no"
    /\ struck' = io
    /\ \/ /\ conn.session_id # 0 /\ hdr.sess_id # 0
          /\ Enter("abort")
          /\ bridgePossible' = FALSE
       \/ /\ conn.session_id = 0 \/ hdr.sess_id = 0
          /\ op' = "over" /\ io' = "idle"
          /\ UNCHANGED <<itry, cut, bridgePossible>>
    /\ call' = [bridged |-> FALSE, reopen |-> FALSE]
    /\ attempt' = 0
    /\ UNCHANGED <<conn, hdr, level, network, bmc, history>>

-----------------------------------------------------------------------------
(* What follows an exchange, for its result r.                             *)

\* Once a session was begun, numbers count.
InSession == conn.finsession \/ hdr.seq_num # 0 \/ op \in {"activate", "setpriv"}

\* Mutant: the number moves on only when a response came.
CountedIfAnswered(r) ==
    IF InSession /\ r.kind # "error" THEN [hdr EXCEPT !.seq_num = @ + 1] ELSE hdr

\* "increment seqnum - even if error".
Counted(r) == IF InSession THEN [hdr EXCEPT !.seq_num = @ + 1] ELSE hdr

\* ipmilan_open_session fails and ipmi_open_lan closes the socket.
OpenFails(r, session_id) ==
    /\ conn' = [sockfd |-> FALSE, session_id |-> session_id, finsession |-> InSession]
    /\ hdr' = Counted(r)
    /\ Return(Error)
    /\ attempt' = 0

\* The open proceeds to exchange x with the header h.
GoOn(x, h, again) ==
    /\ Enter(x)
    /\ conn' = [conn EXCEPT !.finsession = InSession]
    /\ hdr' = h
    /\ attempt' = again
    /\ UNCHANGED answer

\* The session id read from r as from a response to x.
SessionOf(r, x) == IF r.cmd = x THEN r.sess ELSE Garbage

\* Mutant: the capabilities are asked for until there is an answer.
AfterAuthRepeats(r) ==
    \/ r.kind = "error" /\ GoOn("auth", Counted(r), 1)
    \/ r.kind = "rsp" /\ OpenFails(r, conn.session_id)
    \/ r.cc = "ok" /\ GoOn("challenge", Counted(r), 0)

\* An ok response may say that the BMC has IPMI 2.0: LAN_ERR_V2.
AfterAuth(r) ==
    \/ r.kind = "error" /\ attempt = 0 /\ GoOn("auth", Counted(r), 1)
    \/ (r.kind = "rsp" \/ attempt = 1) /\ OpenFails(r, conn.session_id)
    \/ r.cc = "ok" /\ GoOn("challenge", Counted(r), 0)

Challenged(r) == [sess_id |-> SessionOf(r, "challenge"), seq_num |-> 0, bmc_addr |-> TRUE]

AfterChallenge(r) ==
    \/ r.cc = "busy" /\ attempt + 1 < BusyMax /\ GoOn("challenge", Counted(r), attempt + 1)
    \/ r.cc = "busy" /\ attempt + 1 >= BusyMax /\ OpenFails(r, conn.session_id)
    \/ r.cc = "error" /\ OpenFails(r, conn.session_id)
    \/ r.cc = "ok" /\ GoOn("activate", Challenged(r), 0)

AfterActivate(r) ==
    \/ r.cc # "ok" /\ OpenFails(r, conn.session_id)
    \/ r.cc = "ok" /\ GoOn("setpriv", [hdr EXCEPT !.sess_id = SessionOf(r, "activate"),
                                                 !.seq_num = 1], 0)

\* The session id is kept, and bridging enabled, even when this one failed.
AfterSetPriv(r) ==
    \/ r.cc # "ok" /\ OpenFails(r, hdr.sess_id)
    \/ /\ r.cc = "ok"
       /\ conn' = [conn EXCEPT !.session_id = hdr.sess_id, !.finsession = TRUE]
       /\ hdr' = Counted(r)
       /\ \/ call.reopen /\ Enter("command") /\ UNCHANGED answer
          \/ ~ call.reopen /\ Return(r)
       /\ UNCHANGED attempt

AfterCommand(r) ==
    /\ conn' = [conn EXCEPT !.finsession = InSession]
    /\ hdr' = Counted(r)
    /\ Return(r)
    /\ UNCHANGED attempt

AfterClose(r) ==
    /\ conn' = [sockfd |-> FALSE, session_id |-> 0, finsession |-> FALSE]
    /\ hdr' = [hdr EXCEPT !.sess_id = 0, !.seq_num = 0]
    /\ \/ op = "close" /\ Return(r)
       \/ op = "abort" /\ op' = "over" /\ io' = "idle" /\ UNCHANGED <<itry, cut, answer>>
    /\ UNCHANGED attempt

Done(r) ==
    /\ insync' = (insync /\ r.kind = "rsp")
    /\ bridgePossible' = (bridgePossible \/ op = "setpriv")
    /\ \/ op = "auth" /\ AfterAuth(r)
       \/ op = "challenge" /\ AfterChallenge(r)
       \/ op = "activate" /\ AfterActivate(r)
       \/ op = "setpriv" /\ AfterSetPriv(r)
       \/ op = "command" /\ AfterCommand(r)
       \/ op \in {"close", "abort"} /\ AfterClose(r)

-----------------------------------------------------------------------------
(* _send_lan_cmd.                                                          *)

\* The command goes to a target behind the BMC.
Bridged == op = "command" /\ call.bridged

\* The request is wrapped in a Send Message: its target is not bmc_addr.
Wrapped == bridgePossible /\ (Bridged \/ ~ hdr.bmc_addr)

\* The loop goes round once more.
NextTry(where, short) ==
    /\ itry' = itry + 1
    /\ io' = where
    /\ cut' = short
    /\ conn' = [conn EXCEPT !.finsession = InSession]
    /\ UNCHANGED <<hdr, bridgePossible, op, attempt, insync, answer>>

\* Mutant: the request is sent again on each try.
AgainResends(r, short) ==
    \/ itry + 1 < Tries /\ NextTry("send", short)
    \/ itry + 1 >= Tries /\ Done(r)

\* A try ended with nothing received; after the last one r is the result.
Again(r, short) ==
    \/ itry + 1 < Tries /\ NextTry(io, short)
    \/ itry + 1 >= Tries /\ Done(r)

\* Older packets are lost by the time of the next request.
Alive(packets) == {p \in packets : p.n > (tx + 1) - MaxLate}

\* fsentok: the request is sent once.
Transmit ==
    /\ io = "send"
    /\ io' = "recv"
    /\ tx' = tx + 1
    /\ toBMC' = Alive(toBMC) \cup
                {[n |-> tx + 1, cmd |-> op, sess |-> hdr.sess_id,
                  seq |-> hdr.seq_num, wrapped |-> Wrapped]}
    /\ toConsole' = Alive(toConsole)
    /\ used' = used \cup {<<hdr.sess_id, hdr.seq_num>>}
    /\ conn' = [conn EXCEPT !.finsession = InSession]
    /\ level' = IF Wrapped THEN 1 ELSE 0
    /\ UNCHANGED <<hdr, bridgePossible, op, itry, cut, attempt, disorder,
                   insync, answer, call, struck, bmc, calls>>

SendFails ==
    /\ io = "send"
    /\ Again(Error, cut)
    /\ level' = IF Wrapped THEN 1 ELSE 0
    /\ UNCHANGED <<network, tx, used, call, struck, bmc, calls>>

\* fd_wait expires, or the receive reports that an earlier packet was
\* refused, which leaves *sresp 0 for the tries to come.
Timeout ==
    /\ io = "recv"
    /\ \E refused \in BOOLEAN : Again(Error, cut \/ refused)
    /\ UNCHANGED <<network, level, tx, used, call, struck, bmc, calls>>

\* The receive fails otherwise, or the packet is too short.
ReceiveFails ==
    /\ io = "recv"
    /\ Done(Error)
    /\ UNCHANGED <<network, level, tx, used, call, struck, bmc, calls>>

\* The target's response is read before the BMC's to the Send Message.
Overtakes(p) == p.ack = "no" /\ \E q \in toConsole : q.n = p.n /\ q.ack # "no"

\* The network may hold a duplicate of what is read.
Read(p) ==
    /\ io = "recv"
    /\ \/ ~ Overtakes(p) /\ toConsole' = toConsole \ {p} /\ UNCHANGED disorder
       \/ /\ disorder < MaxDisorder
          /\ disorder' = disorder + 1
          /\ \/ toConsole' = toConsole
             \/ Overtakes(p) /\ toConsole' = toConsole \ {p}
    /\ UNCHANGED <<toBMC, tx, used, call, struck, bmc, calls>>

\* An empty result is LAN_ERR_TOO_SHORT.
Copied(r) == IF cut THEN Error ELSE r

\* Mutant: no response is recognised as that to the Send Message.
BridgeRspNever(p) == FALSE /\ p.ack # "no"

\* The BMC's response to the Send Message, once.
BridgeRsp(p) == bridgePossible /\ Bridged /\ level > 0 /\ p.ack # "no"

\* Accepted: receive again, unless this was the last try.
AwaitBridged(p) ==
    /\ Read(p)
    /\ BridgeRsp(p) /\ p.ack = "empty" /\ p.cc = "ok"
    /\ level' = level - 1
    /\ Again(Copied(Zeros), cut)

\* It holds the target's response: the loop ends with nothing copied.
LeaveBridged(p) ==
    /\ Read(p)
    /\ BridgeRsp(p) /\ p.ack = "data"
    /\ level' = level - 1
    /\ Done(Copied(Zeros))

\* Any other packet is the response.
Take(p) ==
    /\ Read(p)
    /\ BridgeRsp(p) => p.ack = "empty" /\ p.cc # "ok"
    /\ level' = IF BridgeRsp(p) THEN level - 1 ELSE level
    /\ Done(Copied(p))

-----------------------------------------------------------------------------
(* The BMC (external).                                                     *)

Rsp(m, ack, cc, sess) ==
    [kind |-> "rsp", n |-> m.n, cmd |-> m.cmd, ack |-> ack, cc |-> cc, sess |-> sess]

Respond(packets) == toConsole' = toConsole \cup packets

\* Outside a session: capabilities, challenges and activations; a wrapped
\* request is refused.
ServeOutside(m) ==
    \/ /\ m.cmd = "auth" /\ ~ m.wrapped
       /\ Respond({Rsp(m, "no", "ok", 0)})
       /\ UNCHANGED bmc
    \/ /\ m.wrapped /\ m.sess = 0
       /\ Respond({Rsp(m, "empty", "error", 0)})
       /\ UNCHANGED bmc
    \/ /\ m.cmd = "challenge" /\ bmc.issued < MaxIds
       /\ Respond({Rsp(m, "no", "ok", bmc.issued + 1)})
       /\ bmc' = [bmc EXCEPT !.issued = @ + 1, !.pending = @ \cup {bmc.issued + 1}]
    \/ /\ m.cmd = "challenge"
       /\ \E cc \in {"busy", "error"} : Respond({Rsp(m, "no", cc, 0)})
       /\ UNCHANGED bmc
    \/ /\ m.cmd = "activate" /\ m.sess \in bmc.pending
       /\ Respond({Rsp(m, "no", "ok", m.sess)})
       /\ bmc' = [bmc EXCEPT !.pending = @ \ {m.sess}, !.active = @ \cup {m.sess}]
    \/ /\ m.cmd = "activate"
       /\ Respond({Rsp(m, "no", "error", 0)})
       /\ UNCHANGED bmc

\* In an active session: SetSessionPriv, commands and closes.
ServeInside(m) ==
    /\ m.sess \in bmc.active
    /\ m.cmd # "activate"
    /\ \/ /\ m.cmd = "setpriv"
          /\ \E cc \in {"ok", "error"} : Respond({Rsp(m, "no", cc, 0)})
          /\ UNCHANGED bmc
       \/ /\ m.cmd = "command" /\ ~ m.wrapped
          /\ Respond({Rsp(m, "no", "ok", 0)})
          /\ UNCHANGED bmc
       \/ /\ m.cmd = "command" /\ m.wrapped
          /\ \/ Respond({Rsp(m, "empty", "ok", 0), Rsp(m, "no", "ok", 0)})
             \/ Respond({Rsp(m, "empty", "error", 0)})
             \/ Respond({Rsp(m, "data", "ok", 0)})
          /\ UNCHANGED bmc
       \/ /\ m.cmd \in {"close", "abort"}
          /\ Respond({Rsp(m, "no", "ok", 0)})
          /\ bmc' = [bmc EXCEPT !.active = @ \ {m.sess}]

Serve(m) ==
    /\ toBMC' = toBMC \ {m}
    /\ ServeOutside(m) \/ ServeInside(m)
    /\ UNCHANGED <<console, exchange, disorder, history>>

-----------------------------------------------------------------------------

Engine ==
    \/ Transmit \/ SendFails \/ Timeout \/ ReceiveFails
    \/ \E p \in toConsole : AwaitBridged(p) \/ LeaveBridged(p) \/ Take(p)

Next ==
    \/ Open(FALSE, FALSE)
    \/ \E bridged \in BOOLEAN : Command(bridged)
    \/ Close
    \/ Flush
    \/ Interrupt
    \/ Engine
    \/ \E m \in toBMC : Serve(m)

\* The process runs, be it that fd_wait expires.
Spec == Init /\ [][Next]_vars /\ WF_vars(Engine)

-----------------------------------------------------------------------------
(* Properties.                                                             *)

TypeOK ==
    /\ conn \in [sockfd : BOOLEAN, session_id : Ids, finsession : BOOLEAN]
    /\ hdr \in [sess_id : Ids, seq_num : Nat, bmc_addr : BOOLEAN]
    /\ bridgePossible \in BOOLEAN
    /\ op \in Exchanges \cup {"idle", "over"}
    /\ io \in {"idle", "send", "recv"}
    /\ itry \in 0..(Tries - 1)
    /\ cut \in BOOLEAN
    /\ level \in 0..1
    /\ call \in [bridged : BOOLEAN, reopen : BOOLEAN]
    /\ attempt \in Nat
    /\ struck \in {"no", "idle", "send", "recv"}
    /\ toBMC \subseteq Request
    /\ toConsole \subseteq Result
    /\ bmc \in [issued : 0..MaxIds, pending : SUBSET (1..MaxIds),
                active : SUBSET (1..MaxIds)]
    /\ tx \in Nat /\ calls \in 0..MaxCalls /\ disorder \in 0..MaxDisorder
    /\ insync \in BOOLEAN
    /\ used \subseteq Ids \X Nat
    /\ answer \in Result

\* Although no response is matched with its request, a call returns the
\* response to its own request, and not the BMC's acceptance of a bridged one,
\* as long as every exchange on the socket had its response and the network
\* keeps order (_send_lan_cmd).
OwnAnswer ==
    op = "idle" /\ insync /\ disorder = 0 /\ answer.kind = "rsp" =>
        /\ answer.n = tx
        /\ ~ (call.bridged /\ answer.ack = "empty" /\ answer.cc = "ok")

\* What ipmi_open_lan reports as open is a session that the BMC activated,
\* the one the header names and ipmi_close_lan will close, as long as every
\* exchange on the socket had its response and the network keeps order
\* (ipmilan_open_session takes the next packet for each of its answers). (And
\* the variables have their types.)
OpenedIsActive ==
    /\ TypeOK
    /\ conn.sockfd /\ op \in {"idle", "command"} /\ insync /\ disorder = 0 =>
           conn.session_id \in bmc.active /\ hdr.sess_id = conn.session_id

\* A session's numbers are not used twice, whichever exchanges failed, except
\* by the close that an interrupt sends while a response is awaited.
NumbersFresh ==
    [][tx' # tx /\ hdr.sess_id \notin {0, Garbage} /\ struck # "recv"
       => <<hdr.sess_id, hdr.seq_num>> \notin used]_vars

\* Every call returns, or the interrupted process ends.
CallReturns == op \notin {"idle", "over"} ~> op \in {"idle", "over"}

=============================================================================
