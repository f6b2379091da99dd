------------------------------ MODULE BmcConfig ------------------------------
(* The parameters a BMC keeps, and how the configuration programs set them:   *)
(* a program works off a list of set commands, each of which the BMC carries  *)
(* out or refuses (or the answer is lost), and what happens after a refusal   *)
(* depends on the function that sent the command.                             *)
(*                                                                            *)
(* The programs read before they set, and one reads what the other set; the   *)
(* BMC's parameters are shared by LanConfig (ilan.c) and ConfigFile           *)
(* (iconfig.c).                                                               *)
EXTENDS Integers, Sequences, FiniteSets

CONSTANTS
  PefMax,    \* bound: rules of the PEF table (pefmax, up to 40)
  PefNum,    \* where lan puts its own rules (pefnum, 12 or 15)
  MaxUsers,  \* bound: users of the BMC (max_users, 15 or so)
  MaxFails   \* bound: commands refused, or lost, over the whole behaviour

ASSUME BmcConfigAssumption ==
  /\ PefMax \in Nat /\ PefNum \in 1..PefMax
  /\ MaxUsers \in Nat \ {0} /\ MaxFails \in Nat

VARIABLES
  conf,    \* the BMC's parameters: a function of their keys
  busy,    \* parameter 0 of the LAN, "set in progress", is not 0
  prog,    \* the options of the program that runs, or ran last
  running, \* it runs
  todo,    \* the commands it has still to send
  errors,  \* nerrs > 0
  pefok,   \* fpefok: the BMC has not answered 0xC1
  code,    \* what the last program returned
  fails,   \* commands refused so far
  was      \* the parameters when the program began

bmc == <<conf, busy>>
run == <<prog, running, todo, errors, pefok, code, fails, was>>

(* The parameters.  LAN parameters go by their number; those with a set       *)
(* selector, and what belongs to a user or to a channel, have keys of their   *)
(* own.                                                                       *)
Lan(n)        == <<"lan", n>>
Pef(n)        == <<"pef", n>>
Rule(i)       == <<"rule", i>>
Policy(i)     == <<"policy", i>>
Dest(i)       == <<"dest", i>>        \* LAN parameter 19
DestType(i)   == <<"desttype", i>>    \* LAN parameter 18
ChanAcc(how)  == <<"chanacc", how>>   \* of the LAN channel: active, nonvol
SerChan(how)  == <<"serchan", how>>   \* of the serial channel
Mux           == <<"mux">>            \* whose the serial port is
Access(ch, u) == <<"access", ch, u>>  \* GET/SET_USER_ACCESS
Name(u)       == <<"name", u>>
Pass(u)       == <<"pass", u>>
Enabled(u)    == <<"enabled", u>>     \* SET_USER_PASSWORD, operations 0 and 1
Sol(p)        == <<"sol", p>>
Payload(u)    == <<"payload", u>>
Ser(p)        == <<"ser", p>>
Sys(p)        == <<"sys", p>>

Users == 1..MaxUsers

SUPERMICRO == "supermicro"
KONTRON    == "kontron"
INTEL      == "intel"

(* A filter rule: what it is about ("empty" for sensor type 0), whether it is *)
(* enabled, marked as preset by the maker, and whether it alerts.             *)
PefRule(about, on, preset, alert) ==
  [about |-> about, on |-> on, preset |-> preset, alert |-> alert]
EmptyRule == PefRule("empty", FALSE, FALSE, FALSE)

Can(link, priv) == [link |-> link, priv |-> priv]
NoAccess        == Can(FALSE, "none")

\* Users that the maker keeps for itself.
ReservedUser(vendor, u) == u = 1 /\ vendor \in {KONTRON, SUPERMICRO}

(* A set command: the function that sends it, the parameter and its value,    *)
(* and what its failure does there: nothing ("ignore"); it is an error        *)
(* ("count"), after which the function returns ("stop"); it is one, and the   *)
(* function returns, only if the answer is lost ("tolerate"); the function    *)
(* returns, and it is one only if the answer is lost ("optional"); it is one, *)
(* and 0xC1 ends the use of PEF ("pef"); nothing, but 0xC1 ends it all the    *)
(* same ("optpef"); it is one unless the answer is 0xCC, there is no such     *)
(* user or nothing to change ("user"); it is one unless a later command of    *)
(* that kind succeeds ("last"); the function that follows is tried instead    *)
(* ("orelse"); the function returns, and nobody asks why ("quit").            *)
Cmd(fn, key, val, err) == [fn |-> fn, key |-> key, val |-> val, err |-> err]

If(cond, cmds) == IF cond THEN cmds ELSE << >>

(* A command that sends nothing: the program gives up with a bad parameter,   *)
(* or waits.                                                                  *)
Abort == Cmd("main", <<"abort">>, "", "stop")
Wait  == Cmd("WaitForSetComplete", <<"wait">>, "", "ignore")

Next1   == Head(todo)
Sends   == running /\ todo # << >> /\ Next1.key \notin {<<"abort">>, <<"wait">>}

IsLan(key) == key[1] \in {"lan", "dest", "desttype"}

(* A command may set one part of a parameter.                                 *)
Part(key, name) == <<"part", key, name>>

(* The BMC has the parameter: it knows no user 0, for one.                    *)
Known == (IF Next1.key[1] = "part" THEN Next1.key[2] ELSE Next1.key) \in DOMAIN conf

Set(c) ==
  IF c.key[1] = "part" THEN [conf EXCEPT ![c.key[2]] = [@ EXCEPT ![c.key[3]] = c.val]]
  ELSE [conf EXCEPT ![c.key] = c.val]

AfterFunction(cmds, fn) ==
  LET same == {k \in 1..Len(cmds) : \A j \in 1..k : cmds[j].fn = fn}
  IN  SubSeq(cmds, Cardinality(same) + 1, Len(cmds))

(* The BMC answers with completion code 0.                                    *)
Carries ==
  /\ Sends
  /\ Known
  /\ conf' = Set(Next1)
  /\ busy' \in IF IsLan(Next1.key) THEN BOOLEAN ELSE {busy}
  /\ errors' = (errors /\ Next1.err # "last")
  /\ todo' = IF Next1.err = "orelse" THEN AfterFunction(Tail(todo), todo[2].fn) ELSE Tail(todo)
  /\ UNCHANGED <<prog, running, pefok, code, fails, was>>

(* It answers with another code and has not carried out the command, or its   *)
(* answer is lost.                                                            *)

Outcomes(c) ==
  (IF Known THEN {"lost", "refused"} ELSE {"refused"})
  \cup {cc \in {"0xC1"} : c.err \in {"pef", "optpef"}}
  \cup {cc \in {"0xCC"} : c.err = "user" /\ (Known => conf[c.key] = c.val)}

Counts(c, how) ==
  CASE c.err \in {"ignore", "optpef", "orelse", "quit"} -> FALSE
    [] c.err \in {"tolerate", "optional"}               -> how = "lost"
    [] OTHER                                            -> how # "0xCC"

Leaves(c, how) ==
  c.err \in {"stop", "optional", "quit"} \/ (c.err = "tolerate" /\ how = "lost")

Fails ==
  /\ Sends
  /\ Known => fails < MaxFails
  /\ fails' = IF Known THEN fails + 1 ELSE fails
  /\ \E how \in Outcomes(Next1) :
       /\ conf' \in {conf} \cup
            (IF how = "lost" THEN {Set(Next1)} ELSE {})
       /\ errors' = (errors \/ Counts(Next1, how))
       /\ pefok'  = (pefok /\ how # "0xC1")
       /\ todo'   = IF Leaves(Next1, how) THEN AfterFunction(Tail(todo), Next1.fn)
                    ELSE Tail(todo)
  /\ UNCHANGED <<busy, prog, running, code, was>>

(* A slow BMC gets ready again.                                               *)
GetsReady ==
  /\ busy
  /\ busy' = FALSE
  /\ UNCHANGED <<conf, run>>

(* A program starts: the commands it is going to send depend on what it could *)
(* read.                                                                      *)
Starts(o, cmds) ==
  /\ prog' = o
  /\ running' = TRUE
  /\ errors' = FALSE
  /\ pefok' = TRUE
  /\ was' = conf
  /\ todo' = cmds
  /\ UNCHANGED bmc

(* do_exit: the last error is returned, if there was one.                     *)
Return(rc) ==
  /\ code' = IF errors THEN "error" ELSE rc
  /\ running' = FALSE
  /\ todo' = << >>
  /\ UNCHANGED <<bmc, prog, errors, pefok, fails, was>>

=============================================================================
