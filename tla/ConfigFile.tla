------------------------------ MODULE ConfigFile ------------------------------
(* config (iconfig.c): saves the BMC's parameters to a file, a record each,    *)
(* and restores them from it.                                                  *)
EXTENDS BmcConfig

CONSTANTS
  NDest,      \* bound: alert policies and destinations read (ndest, 4)
  NUsers      \* bound: users that are saved (nusers, 5)

VARIABLES
  file,       \* the records saved: [key, val]
  rest,       \* those still to be restored
  enabled,    \* enabled_users, of the BMC restored to
  known,      \* max_users
  lastUser,   \* last_user_enable
  whole       \* history: the save met no failure and came to its end

fileVars == <<file, rest, enabled, known, lastUser, whole>>

(* The options: save or restore, -m, the vendor, and the channel is the GCM's. *)
ConfigOptions ==
  [do : {"save", "restore"}, domac : BOOLEAN, gcm : BOOLEAN, v2 : BOOLEAN,
   vendor : {INTEL, SUPERMICRO, KONTRON}, sessions : {0, 1, 2}]

-----------------------------------------------------------------------------
(* Saving: the parameters in the order of the tables lanparams and serparams,  *)
(* those with a set selector for each set.                                     *)
LanTable    == <<0, 1, 2, 3, 4, 5, 6, 7, 10, 11, 12, 13, 14, 15, 16, 17>>
VlanTable   == <<20, 21, 22, 23, 24, 25, 192, 193, 194>>
SerialTable == <<0, 1, 2, 3, 4, 5, 7, 10, 29>>

Each(op(_), s) == [i \in 1..Len(s) |-> op(s[i])]
UpTo(n)        == [i \in 1..n |-> i]
UserKeys(ch)   == [i \in 1..(2 * NUsers) |-> IF i % 2 = 1 THEN Access(ch, (i + 1) \div 2)
                                              ELSE Name(i \div 2)]

\* Without the number of destinations, none is read.
NumDest(lost) == IF Lan(17) \in lost THEN 0 ELSE conf[Lan(17)]

PefKeys == Each(Rule, UpTo(PefMax)) \o Each(Pef, UpTo(4)) \o Each(Policy, UpTo(NDest))
LanKeys(lost) ==
  Each(Lan, LanTable)
  \o Each(DestType, UpTo(NumDest(lost))) \o Each(Dest, UpTo(NumDest(lost)))
  \o Each(Lan, VlanTable) \o <<ChanAcc("nonvol")>>
SolKeys    == Each(Sol, UpTo(6)) \o Each(Payload, UpTo(NUsers))
SerialKeys == Each(Ser, SerialTable) \o <<SerChan("nonvol")>> \o UserKeys("ser")
SystemKeys == Each(Sys, <<"policy", "info", "port">>)

SavedKeys(lost) ==
  PefKeys \o LanKeys(lost) \o SolKeys \o UserKeys("lan") \o SerialKeys \o SystemKeys

(* A parameter that cannot be read is left out; that is no error.              *)
Records(lost) ==
  LET kept == SelectSeq(SavedKeys(lost), LAMBDA k : k \in DOMAIN conf \ lost)
  IN  [i \in 1..Len(kept) |-> [key |-> kept[i], val |-> conf[kept[i]]]]

Save(o, lost, n) ==
  /\ prog' = o
  /\ file' = SubSeq(Records(lost), 1, n)
  /\ whole' = (lost = {} /\ n = Len(Records(lost)))
  /\ code' = IF n = Len(Records(lost)) THEN "ok" ELSE "killed"
  /\ UNCHANGED <<bmc, running, todo, errors, pefok, was, rest, enabled, known, lastUser>>

-----------------------------------------------------------------------------
(* Restoring.  Optional are the VLAN, the modem and callback functions of the  *)
(* serial channel, and alert policies other than the first.                    *)
SerialIsOptional(n) == n \in {5, 9, 10, 11, 12, 13, 14, 20, 21}

Skipped(o, r) ==
  LET k == r.key  kind == r.key[1]  n == r.key[2]
  IN  \/ kind = "lan" /\ \/ n \in {0, 1, 17, 22, 23, 24}
                         \/ n = 5 /\ o.v2 /\ ~o.domac
                         \/ n = 10 /\ o.gcm
                         \/ n \in {10, 11} /\ o.vendor = SUPERMICRO
                         \/ n \in {20, 21, 25} /\ ~o.v2
      \/ kind \in {"dest", "desttype", "pef", "rule", "policy"} /\ ~pefok
      \/ kind = "ser" /\ \/ n \in {0, 1, 16}
                         \/ n \in {3, 6, 7, 8, 29} /\ o.vendor = SUPERMICRO
      \/ kind = "serchan" /\ o.vendor = SUPERMICRO
      \/ kind = "name" /\ \/ n = 1
                          \/ n = 2 /\ o.vendor = SUPERMICRO
      \/ kind = "access" /\ LET u == r.key[3] IN
                            \/ u > enabled /\ (~r.val.link \/ o.vendor = KONTRON)
                            \/ ReservedUser(o.vendor, u)
      \/ kind = "payload" /\ (~o.v2 \/ ReservedUser(o.vendor, n))
      \/ kind = "sys" /\ \/ n = "policy" /\ o.vendor = KONTRON
                         \/ n = "info" /\ ~o.v2
                         \/ n = "port" /\ o.vendor # SUPERMICRO

Plain(fn, r, err) == <<Cmd(fn, r.key, r.val, err)>>

\* The address is set with gratuitous ARP off and from a static source; the
\* results of these two sets are not looked at.
RestoreLan(o, r) ==
  LET n == r.key[2]
  IN  If(n = 3, If(o.vendor # SUPERMICRO, <<Cmd("SetLanEntry", Lan(10), "off", "ignore")>>)
                \o <<Wait, Cmd("SetLanEntry", Lan(4), "static", "ignore"), Wait>>)
      \o If(n \in {6, 12}, <<Wait>>)
      \o Plain("SetLanEntry", r, IF n \in {20, 21, 25} THEN "ignore" ELSE "count")

\* Mutant: a preset rule is only written as a rule of software's.
OnlyOnce(r) == Plain("SetPefEntry", [r EXCEPT !.val.preset = FALSE], "pef")

\* A preset rule is first written as a rule of software's.
RestoreRule(r) ==
  If(r.val.preset /\ r.val.on,
     <<Cmd("SetPefEntry", r.key, [r.val EXCEPT !.preset = FALSE], "ignore")>>)
  \o Plain("SetPefEntry", r, "pef")

\* A user with any privilege is enabled.
RestoreAccess(r) ==
  Plain("main", r, "user")
  \o If(r.val.priv # "none", <<Cmd("main", Enabled(r.key[3]), "yes", "count")>>)

\* Setting a name that the user has already is refused with 0xCC, which is no
\* error and changes nothing.
RestoreCommands(o, r) ==
  LET kind == r.key[1]
  IN  CASE kind = "lan"                  -> RestoreLan(o, r)
        [] kind = "rule"                 -> RestoreRule(r)
        [] kind = "pef"                  -> Plain("main", r, "pef")
        [] kind = "name"                 -> Plain("main", r, "user")
        [] kind = "policy"               -> Plain("main", r, IF r.key[2] > 1 THEN "optpef" ELSE "pef")
        [] kind = "chanacc"              -> <<Cmd("main", ChanAcc("active"), r.val, "ignore"),
                                              Cmd("main", ChanAcc("nonvol"), r.val, "count")>>
        [] kind = "serchan"              -> <<Cmd("main", SerChan("active"), r.val, "ignore"),
                                              Cmd("main", SerChan("nonvol"), r.val, "count")>>
        [] kind = "access"               -> RestoreAccess(r)
        [] kind = "ser"                  -> Plain("SetSerEntry", r,
                                              IF SerialIsOptional(r.key[2]) THEN "ignore" ELSE "count")
        [] OTHER                         -> Plain("main", r, "count")

\* GetUser(1) tells how many users there are; if it fails, the defaults stay.
RestoreStarts(o, told) ==
  /\ Starts(o, << >>)
  /\ rest' = IF o.sessions > 1 THEN << >> ELSE file
  /\ enabled' = IF told THEN Cardinality({u \in Users : conf[Enabled(u)] = "yes"}) ELSE 0
  /\ known' = IF o.sessions > 1 THEN 0 ELSE IF told THEN MaxUsers ELSE NUsers
  /\ lastUser' = 0
  /\ code' = IF o.sessions > 1 THEN "not allowed" ELSE "runs"
  /\ UNCHANGED <<file, whole>>

Restoring == running /\ prog.do = "restore" /\ todo = << >>

RestoreRecord ==
  /\ Restoring
  /\ rest # << >>
  /\ LET r    == Head(rest)
         does == ~Skipped(prog, r)
     IN  /\ todo' = If(does, RestoreCommands(prog, r))
         /\ lastUser' = IF does /\ r.key[1] = "access" /\ r.val.priv # "none" /\ r.key[3] > lastUser
                        THEN r.key[3] ELSE lastUser
  /\ rest' = Tail(rest)
  /\ UNCHANGED <<bmc, prog, running, errors, pefok, code, fails, was, file, enabled, known, whole>>

(* WaitForSetComplete reads parameter 0 up to four times.  It looks at the     *)
(* second byte of what GetLanEntry returns, which is the 0 that GetLanEntry    *)
(* puts after the only byte there is: the first read that succeeds ends it.    *)
Read0        == <<IF busy THEN 1 ELSE 0, 0>>
ReadComplete == Read0[2] = 0

WaitForSetComplete ==
  /\ running /\ todo # << >> /\ Next1.key = <<"wait">>
  /\ ReadComplete
  /\ todo' = Tail(todo)
  /\ UNCHANGED <<bmc, prog, running, errors, pefok, code, fails, was, fileVars>>

(* "Disable any users not enabled above".                                      *)
DisableOthers ==
  /\ Restoring
  /\ rest = << >>
  /\ lastUser + 1 < known
  /\ lastUser' = lastUser + 1
  /\ todo' = <<Cmd("main", Enabled(lastUser + 1), "no", "count")>>
  /\ UNCHANGED <<bmc, prog, running, errors, pefok, code, fails, was, file, rest, enabled, known, whole>>

RestoreEnds ==
  /\ Restoring
  /\ rest = << >>
  /\ lastUser + 1 >= known
  /\ Return(IF code = "runs" THEN "ok" ELSE code)
  /\ UNCHANGED fileVars

=============================================================================
