----------------------------- MODULE LanplusOpen -----------------------------
(***************************************************************************)
(* Opening and closing an RMCP+ session: ipmi_open_lan2 and ipmi_close_lan2 *)
(* (util/ipmilanplus.c) over ipmi_lanplus_open and ipmi_lanplus_close       *)
(* (lib/lanplus/lanplus.c).                                                 *)
(*                                                                         *)
(* An open asks for the channel's authentication capabilities, up to four   *)
(* times, in IPMI 1.5 packets with sequence number 0; then come the open    *)
(* session request, RAKP 1 and RAKP 3, each sent once; then the command     *)
(* that sets the privilege level.  A close sends the close command.         *)
(*                                                                         *)
(* External: the BMC, which grants a new id to every open session request   *)
(* it receives, and the network, which loses, delays, reorders and          *)
(* duplicates packets.  A random number is the number of the transmission   *)
(* or of the request it was made for; an HMAC is the pair of random numbers *)
(* it covers, and verifies if both ends also have the same password.        *)
(***************************************************************************)
EXTENDS Integers, FiniteSets

CONSTANTS
    Nodes,        \* the hosts that callers open
    NoNode,       \* no host
    Asks,         \* calls for the authentication capabilities: 4 in the code
    Retry,        \* session->retry
    BaseTimeout,  \* the initial lan2_timeout
    MaxOpens,     \* bound: opens
    MaxIds,       \* bound: sessions that BMCs grant
    MaxDups       \* bound: duplicated or unreadable packets

ASSUME OpenAssumption ==
    /\ NoNode \notin Nodes
    /\ Asks \in Nat \ {0}
    /\ Retry \in Nat \ {0}
    /\ BaseTimeout \in Nat \ {0}
    /\ MaxOpens \in Nat
    /\ MaxIds \in Nat
    /\ MaxDups \in Nat

VARIABLES
    auth,         \* the authentication algorithm asked for: none or hmac
    samePassword, \* both ends know the same password
    admin,        \* the privilege asked for is above USER
    session,      \* intf->session is allocated
    host,         \* session->hostname
    opened,       \* intf->opened
    abort,        \* intf->abort
    fd,           \* intf->fd, 0 for none
    sockets,      \* the file descriptors this process holds open
    s,            \* session->v2_data
    timeout,      \* session->timeout
    lan2_timeout,
    rqEntries,    \* ipmi_req_entries
    pc,           \* what the console is doing
    phase,        \* send or recv, within ipmi_lanplus_send_payload
    itry,         \* tries used by the current payload
    attempt,      \* Get Channel Authentication Capabilities calls made
    pending,      \* the host to open once the close is done
    toBMC, toConsole, dups,
    bmc,          \* the sessions that BMCs granted
    ids,          \* how many
    opens,        \* history: sockets made
    n,            \* history: transmissions
    clean         \* history: no entry was listed when Set Privilege began

config == <<auth, samePassword, admin>>
intf == <<session, host, opened, abort, fd, sockets>>
control == <<pc, phase, itry, attempt, pending>>
network == <<toBMC, toConsole, dups>>
server == <<bmc, ids>>
vars == <<config, intf, s, timeout, lan2_timeout, rqEntries,
          control, network, server, opens, n, clean>>

States == {"PRESESSION", "OPEN_SESSION_SENT", "OPEN_SESSION_RECEIVED",
           "RAKP_1_SENT", "RAKP_2_RECEIVED", "RAKP_3_SENT", "ACTIVE"}

\* The commands, and the three payloads of the handshake.
Commands == {"authcap", "setpriv", "close"}
Handshake == {"opensess", "rakp1", "rakp3"}

\* The state in which a handshake payload may be sent, and the one it leaves.
Before == [opensess |-> "PRESESSION", rakp1 |-> "OPEN_SESSION_RECEIVED",
           rakp3 |-> "RAKP_2_RECEIVED"]
Sent == [opensess |-> "OPEN_SESSION_SENT", rakp1 |-> "RAKP_1_SENT",
         rakp3 |-> "RAKP_3_SENT"]

NoMac == <<0, 0>>
PreSession == [state |-> "PRESESSION", bmc_id |-> 0, console_rand |-> 0,
               bmc_rand |-> 0]
NoSession == [st |-> "none", c |-> 0, b |-> 0, admin |-> FALSE]

\* result "other" is an answer without IPMI 2.0 data, or one that grants other
\* algorithms than those asked for.
Request == [type : Commands \cup Handshake, n : Nat, id : 0..MaxIds,
            v2 : BOOLEAN, mac : Nat \X Nat]
Reply == [type : Commands \cup Handshake, n : Nat, id : 0..MaxIds,
          rand : Nat, mac : Nat \X Nat, result : {"ok", "error", "other"}]

\* The number by which an answer is matched: the 1.5 command always has 0.
SeqOf(type, k) == IF type = "authcap" THEN 0 ELSE k

-----------------------------------------------------------------------------

Init ==
    /\ auth \in {"none", "hmac"}
    /\ samePassword \in IF auth = "none" THEN {TRUE} ELSE BOOLEAN
    /\ admin \in BOOLEAN
    /\ session = FALSE
    /\ host = NoNode
    /\ opened = FALSE
    /\ abort = FALSE
    /\ fd = 0
    /\ sockets = {}
    /\ s = PreSession
    /\ timeout = 0
    /\ lan2_timeout = BaseTimeout
    /\ rqEntries = {}
    /\ pc = "idle"
    /\ phase = "send"
    /\ itry = 0
    /\ attempt = 0
    /\ pending = NoNode
    /\ toBMC = {}
    /\ toConsole = {}
    /\ dups = 0
    /\ bmc = [i \in 1..MaxIds |-> NoSession]
    /\ ids = 0
    /\ opens = 0
    /\ n = 0
    /\ clean = TRUE

-----------------------------------------------------------------------------
(* Leaving a step.  `rest` is what the step leaves in the request list.     *)

\* The console goes on with another payload.
Continue(step) ==
    /\ pc' = step
    /\ phase' = "send"
    /\ itry' = 0
    /\ UNCHANGED pending

\* The end of ipmi_lanplus_close.
Shut ==
    /\ sockets' = sockets \ {fd}
    /\ fd' = 0
    /\ rqEntries' = {}
    /\ session' = FALSE
    /\ opened' = FALSE
    /\ Continue(IF pending = NoNode THEN "idle" ELSE "setup")
    /\ UNCHANGED <<host, abort, attempt, clean>>

\* ipmi_lanplus_close: the command is sent unless the open was abandoned.
Close(rest) ==
    \/ /\ ~ abort
       /\ s.state = "ACTIVE"
       /\ Continue("close")
       /\ rqEntries' = rest
       /\ UNCHANGED <<intf, attempt, clean>>
    \/ /\ abort \/ s.state # "ACTIVE"
       /\ Shut

\* Mutant: the interface stays marked as open.
GiveUpStaysOpen(rest) ==
    /\ Continue("idle")
    /\ rqEntries' = rest
    /\ UNCHANGED <<intf, attempt, clean>>

\* "goto fail" before the handshake: nothing is closed or freed.
GiveUp(rest) ==
    /\ opened' = FALSE
    /\ Continue("idle")
    /\ rqEntries' = rest
    /\ UNCHANGED <<session, host, abort, fd, sockets, attempt, clean>>

\* The second call in ipmi_get_auth_capabilities_cmd, and the second call of
\* that in ipmi_lanplus_open.
AskAgain(rest) ==
    /\ attempt' = attempt + 1
    /\ Continue("authcap")
    /\ rqEntries' = rest
    /\ UNCHANGED <<intf, clean>>

\* The payload was not answered, or the answer was an error.
Fail(rest) ==
    \/ pc = "authcap" /\ attempt + 1 < Asks /\ AskAgain(rest)
    \/ pc = "authcap" /\ attempt + 1 = Asks /\ GiveUp(rest)
    \/ pc \in Handshake \cup {"setpriv"} /\ Close(rest)
    \/ pc = "close" /\ Shut

-----------------------------------------------------------------------------
(* ipmi_open_lan2 and ipmi_close_lan2.                                      *)

\* An open session to another host is closed first.
OpenLan2(node) ==
    /\ pc = "idle"
    /\ opens < MaxOpens
    /\ pending' = node
    /\ \/ opened /\ host # node /\ pc' = "close"
       \/ ~ opened /\ pc' = "setup"
    /\ UNCHANGED <<config, intf, s, timeout, lan2_timeout, rqEntries, phase,
                   itry, attempt, network, server, opens, n, clean>>

CloseLan2 ==
    /\ pc = "idle"
    /\ opened
    /\ Close(rqEntries)
    /\ UNCHANGED <<config, s, timeout, lan2_timeout, network, server, opens, n>>

\* ipmi_lanplus_setup, if no session is allocated, and the beginning of
\* ipmi_lanplus_open: a timeout that the session has counts as the caller's.
Prepare ==
    /\ pc = "setup"
    /\ opens' = opens + 1
    /\ host' = pending
    /\ pending' = NoNode
    /\ timeout' = IF session THEN timeout ELSE lan2_timeout
    /\ lan2_timeout' = IF session THEN timeout ELSE lan2_timeout
    /\ abort' = TRUE
    /\ s' = PreSession
    /\ UNCHANGED <<config, phase, itry, dups, server, n, clean>>

\* A socket is made and connected.  Nothing sent to an earlier one reaches it.
Setup ==
    /\ Prepare
    /\ session' = TRUE
    /\ fd' = opens + 1
    /\ sockets' = sockets \cup {opens + 1}
    /\ opened' = TRUE
    /\ pc' = "authcap"
    /\ attempt' = 0
    /\ toBMC' = {}
    /\ toConsole' = {}
    /\ UNCHANGED rqEntries

\* The host is not found; or it cannot be connected to, and intf->close frees
\* the session.
SetupFails ==
    /\ Prepare
    /\ \/ session' = TRUE /\ UNCHANGED <<fd, rqEntries>>
       \/ session' = FALSE /\ fd' = 0 /\ rqEntries' = {}
    /\ pc' = "idle"
    /\ UNCHANGED <<opened, sockets, attempt, toBMC, toConsole>>

-----------------------------------------------------------------------------
(* ipmi_lanplus_send_payload: transmission.                                 *)

Sending == pc \in Commands \cup Handshake /\ phase = "send"
Receiving == pc \in Commands \cup Handshake /\ phase = "recv"

Message ==
    [type |-> pc, n |-> n + 1, id |-> s.bmc_id,
     v2 |-> pc = "authcap" /\ attempt % 2 = 0,
     mac |-> IF pc = "rakp3" THEN <<s.console_rand, s.bmc_rand>> ELSE NoMac]

Listed ==
    rqEntries \cup {[cmd |-> pc, seq |-> SeqOf(pc, n + 1), n |-> n + 1] :
                    x \in {pc} \cap Commands}

\* A handshake payload is built in one state, and sending it leaves that state.
Buildable == pc \in Handshake => s.state = Before[pc]

Transmit ==
    /\ Sending
    /\ Buildable
    /\ n' = n + 1
    /\ toBMC' = toBMC \cup {Message}
    /\ rqEntries' = Listed
    /\ s' = [s EXCEPT
              !.state = IF pc \in Handshake THEN Sent[pc] ELSE @,
              !.console_rand = IF pc = "rakp1" THEN n + 1 ELSE @]
    /\ phase' = "recv"
    /\ UNCHANGED <<config, intf, timeout, lan2_timeout, pc, itry, attempt,
                   pending, toConsole, dups, server, opens, clean>>

\* The payload cannot be built or sent: the call returns from inside the retry
\* loop.  A command may be listed already.
SendFails ==
    /\ Sending
    /\ n' = n + 1
    /\ Fail(rqEntries) \/ Fail(Listed)
    /\ UNCHANGED <<config, s, timeout, lan2_timeout, network, server, opens>>

-----------------------------------------------------------------------------
(* ipmi_lanplus_send_payload: reception.                                    *)

\* Mutant: select() expiring does not use up a try.
NoAnswerWaitsOn(again) ==
    IF again
    THEN UNCHANGED <<intf, timeout, control, rqEntries, clean>>
    ELSE timeout' = lan2_timeout /\ Fail(rqEntries)

\* ipmi_lan_poll_recv returned NULL: the next try sends again if the time of
\* this one is out.
NoAnswer(again) ==
    \/ /\ itry + 1 < Retry
       /\ itry' = itry + 1
       /\ phase' = IF again THEN "send" ELSE "recv"
       /\ timeout' = IF again THEN timeout + 1 ELSE timeout
       /\ UNCHANGED <<intf, pc, attempt, pending, rqEntries, clean>>
    \/ /\ itry + 1 >= Retry
       /\ timeout' = lan2_timeout
       /\ Fail(rqEntries)

Timeout ==
    /\ Receiving
    /\ NoAnswer(TRUE)
    /\ UNCHANGED <<config, s, lan2_timeout, network, server, opens, n>>

\* A reply is read off the socket; the network may hold a duplicate.
Read(p) ==
    /\ Receiving
    /\ \/ toConsole' = toConsole \ {p} /\ dups' = dups
       \/ toConsole' = toConsole /\ dups < MaxDups /\ dups' = dups + 1
    /\ UNCHANGED <<config, lan2_timeout, toBMC, server, opens, n>>

\* ipmi_req_lookup_entry: the listed entries that p matches.
Matches(p) == {e \in rqEntries : e.cmd = p.type /\ e.seq = SeqOf(p.type, p.n)}

\* ipmi_req_remove_entry takes the first of them off the list.
RestAfter(p) == rqEntries \ {e \in Matches(p) : \A f \in Matches(p) : e.n <= f.n}

\* Mutant: handshake replies are taken in any state.
ExpectedAlways(p) == p.type \in Commands => Matches(p) # {}

\* A command's answer must match an entry, a handshake reply the state.
Expected(p) ==
    /\ p.type \in Commands => Matches(p) # {}
    /\ p.type \in Handshake => s.state = Sent[p.type]

\* Receive again.
Skip(p) ==
    /\ Read(p)
    /\ ~ Expected(p)
    /\ p.type \in Commands \/ s.state # "ACTIVE"
    /\ UNCHANGED <<intf, s, timeout, control, rqEntries, clean>>

\* In an active session a handshake reply has a foreign session id.
Reject(p) ==
    /\ Read(p)
    /\ p.type \in Handshake
    /\ s.state = "ACTIVE"
    /\ \E again \in BOOLEAN : NoAnswer(again)
    /\ UNCHANGED s

\* A packet that cannot be read at all.
RejectUnreadable ==
    /\ Receiving
    /\ dups < MaxDups
    /\ dups' = dups + 1
    /\ \E again \in BOOLEAN : NoAnswer(again)
    /\ UNCHANGED <<config, s, lan2_timeout, toBMC, toConsole, server, opens, n>>

\* The packet becomes the answer of what was asked.
Take(p) ==
    /\ Read(p)
    /\ Expected(p)
    /\ timeout' = lan2_timeout

-----------------------------------------------------------------------------
(* The answers, in the order of ipmi_lanplus_open.                          *)

\* The rest of the list, if p is the answer of a command.
Rest(p) == IF p.type \in Commands THEN RestAfter(p) ELSE rqEntries

Authentic(p, c, b) == auth = "none" \/ (samePassword /\ p.mac = <<c, b>>)

TakeAuthCap(p) ==
    /\ pc = "authcap"
    /\ Take(p)
    /\ \/ p.result = "ok" /\ Continue("opensess") /\ rqEntries' = Rest(p)
          /\ UNCHANGED <<intf, attempt, clean>>
       \/ p.result = "other" /\ GiveUp(Rest(p))
       \/ p.result = "error" /\ Fail(Rest(p))
    /\ UNCHANGED s

\* The replies share a union: a command's answer that comes during the handshake
\* reads as a return code that is an error.
Good(p) == p.type \in Handshake /\ p.result = "ok"

TakeOpenSession(p) ==
    /\ pc = "opensess"
    /\ Take(p)
    /\ s' = IF p.type \in Handshake /\ p.result # "error"
            THEN [s EXCEPT !.state = "OPEN_SESSION_RECEIVED", !.bmc_id = p.id]
            ELSE s
    /\ \/ Good(p) /\ Continue("rakp1") /\ UNCHANGED <<intf, attempt, rqEntries, clean>>
       \/ ~ Good(p) /\ Fail(Rest(p))

TakeRakp2(p) ==
    /\ pc = "rakp1"
    /\ Take(p)
    /\ s' = [s EXCEPT !.state = "RAKP_2_RECEIVED",
                      !.bmc_rand = IF Good(p) THEN p.rand ELSE @]
    /\ LET accept == Good(p) /\ Authentic(p, s.console_rand, p.rand)
       IN  \/ accept /\ Continue("rakp3") /\ UNCHANGED <<intf, attempt, rqEntries, clean>>
           \/ ~ accept /\ Fail(Rest(p))

\* Mutant: a close does not send the close command.
ActivateKeepsAbort ==
    /\ s' = [s EXCEPT !.state = "ACTIVE"]
    /\ Continue(IF admin THEN "setpriv" ELSE "idle")
    /\ clean' = (rqEntries = {})
    /\ UNCHANGED <<intf, attempt, rqEntries>>

\* The session is active, and a close from now on sends the close command.
Activate ==
    /\ s' = [s EXCEPT !.state = "ACTIVE"]
    /\ abort' = FALSE
    /\ Continue(IF admin THEN "setpriv" ELSE "idle")
    /\ clean' = (rqEntries = {})
    /\ UNCHANGED <<session, host, opened, fd, sockets, attempt, rqEntries>>

TakeRakp4(p) ==
    /\ pc = "rakp3"
    /\ Take(p)
    /\ LET accept == Good(p) /\ Authentic(p, s.console_rand, s.bmc_rand)
       IN  \/ accept /\ Activate
           \/ ~ accept /\ Fail(Rest(p)) /\ UNCHANGED s

\* ipmi_set_session_privlvl_cmd looks at the completion code only.
TakePrivilege(p) ==
    /\ pc = "setpriv"
    /\ Take(p)
    /\ \/ p.result # "error" /\ Continue("idle") /\ rqEntries' = Rest(p)
          /\ UNCHANGED <<intf, attempt, clean>>
       \/ p.result = "error" /\ Fail(Rest(p))
    /\ UNCHANGED s

\* Whatever the answer of the close command, ipmi_lanplus_close goes on.
TakeClose(p) ==
    /\ pc = "close"
    /\ Take(p)
    /\ Shut
    /\ UNCHANGED s

-----------------------------------------------------------------------------
(* The BMC (external).                                                      *)

\* The console can use at most MaxIds sessions of the BMC's.
Respond(m, id, rand, mac, result) ==
    toConsole' = toConsole \cup
        {[type |-> m.type, n |-> m.n, id |-> id, rand |-> rand, mac |-> mac,
          result |-> result]}

Refuse(m) == Respond(m, m.id, 0, NoMac, "error") /\ UNCHANGED server

ServeAuthCap(m) ==
    /\ m.type = "authcap"
    /\ \E r \in IF m.v2 THEN {"ok", "other"} ELSE {"other"} : Respond(m, 0, 0, NoMac, r)
    /\ UNCHANGED server

ServeOpenSession(m) ==
    /\ m.type = "opensess"
    /\ ids < MaxIds
    /\ ids' = ids + 1
    /\ bmc' = [bmc EXCEPT ![ids + 1].st = "open"]
    /\ \E r \in {"ok", "other"} : Respond(m, ids + 1, 0, NoMac, r)

\* Every RAKP 1 received gets a new random number.
ServeRakp1(m) ==
    /\ m.type = "rakp1"
    /\ bmc[m.id].st \in {"open", "rakp"}
    /\ LET b == bmc[m.id].b + 1
       IN  /\ bmc' = [bmc EXCEPT ![m.id] = [st |-> "rakp", c |-> m.n, b |-> b,
                                            admin |-> FALSE]]
           /\ Respond(m, m.id, b, <<m.n, b>>, "ok")
    /\ UNCHANGED ids

Proven(m) ==
    \/ auth = "none"
    \/ samePassword /\ m.mac = <<bmc[m.id].c, bmc[m.id].b>>

ServeRakp3(m) ==
    /\ m.type = "rakp3"
    /\ bmc[m.id].st = "rakp"
    /\ IF Proven(m)
       THEN /\ bmc' = [bmc EXCEPT ![m.id].st = "active"]
            /\ Respond(m, m.id, 0, <<bmc[m.id].c, bmc[m.id].b>>, "ok")
       ELSE /\ bmc' = [bmc EXCEPT ![m.id].st = "closed"]
            /\ Respond(m, m.id, 0, NoMac, "error")
    /\ UNCHANGED ids

ServeSetPriv(m) ==
    /\ m.type = "setpriv"
    /\ bmc[m.id].st = "active"
    /\ bmc' = [bmc EXCEPT ![m.id].admin = TRUE]
    /\ Respond(m, m.id, 0, NoMac, "ok")
    /\ UNCHANGED ids

ServeClose(m) ==
    /\ m.type = "close"
    /\ bmc[m.id].st = "active"
    /\ bmc' = [bmc EXCEPT ![m.id].st = "closed"]
    /\ Respond(m, m.id, 0, NoMac, "ok")
    /\ UNCHANGED ids

Serve(m) ==
    /\ \/ toBMC' = toBMC \ {m} /\ dups' = dups
       \/ toBMC' = toBMC /\ dups < MaxDups /\ dups' = dups + 1
    /\ \/ ServeAuthCap(m) \/ ServeOpenSession(m) \/ ServeRakp1(m)
       \/ ServeRakp3(m) \/ ServeSetPriv(m) \/ ServeClose(m)
       \/ Refuse(m)
    /\ UNCHANGED <<config, intf, s, timeout, lan2_timeout, rqEntries, control,
                   opens, n, clean>>

-----------------------------------------------------------------------------

Answer(p) ==
    \/ TakeAuthCap(p) \/ TakeOpenSession(p) \/ TakeRakp2(p) \/ TakeRakp4(p)
    \/ TakePrivilege(p) \/ TakeClose(p)

\* What the console does once it is called.
Engine ==
    \/ Setup
    \/ SetupFails
    \/ Transmit
    \/ SendFails
    \/ Timeout
    \/ RejectUnreadable
    \/ \E p \in toConsole : Skip(p) \/ Reject(p) \/ Answer(p)

Next ==
    \/ \E node \in Nodes : OpenLan2(node)
    \/ CloseLan2
    \/ Engine
    \/ \E m \in toBMC : Serve(m)

\* The console's thread runs, be it that select() expires.
Spec == Init /\ [][Next]_vars /\ WF_vars(Engine)

-----------------------------------------------------------------------------
(* Properties.                                                             *)

TypeOK ==
    /\ auth \in {"none", "hmac"}
    /\ samePassword \in BOOLEAN
    /\ admin \in BOOLEAN
    /\ session \in BOOLEAN
    /\ host \in Nodes \cup {NoNode}
    /\ opened \in BOOLEAN
    /\ abort \in BOOLEAN
    /\ fd \in Nat
    /\ sockets \subseteq Nat \ {0}
    /\ s \in [state : States, bmc_id : 0..MaxIds, console_rand : Nat, bmc_rand : Nat]
    /\ timeout \in Nat
    /\ lan2_timeout \in Nat
    /\ rqEntries \subseteq [cmd : Commands, seq : Nat, n : Nat]
    /\ pc \in {"idle", "setup"} \cup Commands \cup Handshake
    /\ phase \in {"send", "recv"}
    /\ itry \in 0..(Retry - 1)
    /\ attempt \in 0..(Asks - 1)
    /\ pending \in Nodes \cup {NoNode}
    /\ toBMC \subseteq Request
    /\ toConsole \subseteq Reply
    /\ dups \in 0..MaxDups
    /\ bmc \in [1..MaxIds -> [st : {"none", "open", "rakp", "active", "closed"},
                              c : Nat, b : Nat, admin : BOOLEAN]]
    /\ ids \in 0..MaxIds
    /\ opens \in Nat
    /\ n \in Nat
    /\ clean \in BOOLEAN

\* A session the console holds for active is active in the BMC, and when it was
\* authenticated both ends have the same random numbers, hence the same keys:
\* whatever packets of the handshake came twice, late or out of order.  A
\* session that the open returns has there the privilege that was asked for,
\* unless a capabilities request that was sent again had left its entry.
Agreement ==
    /\ session /\ s.state = "ACTIVE" /\ pc # "close" =>
          /\ bmc[s.bmc_id].st = "active"
          /\ auth = "hmac" => /\ bmc[s.bmc_id].c = s.console_rand
                              /\ bmc[s.bmc_id].b = s.bmc_rand
    /\ pc = "idle" /\ opened /\ admin /\ clean => bmc[s.bmc_id].admin

\* A session that became active is not forgotten before ipmi_lanplus_close has
\* tried to close it at the BMC, be it that the open fails after that.
ClosesWhatItOpened ==
    [][session /\ s.state = "ACTIVE" /\ ~ session' => pc = "close"]_vars

\* A failed open leaves no session that a command would use: what is open when
\* the console is idle is active, with a socket of its own. (And the variables
\* have their types.)
OpenIsUsable ==
    /\ TypeOK
    /\ pc = "idle" /\ opened => session /\ s.state = "ACTIVE" /\ fd \in sockets

\* Every open and close returns.
OpenReturns == pc # "idle" ~> pc = "idle"

=============================================================================
