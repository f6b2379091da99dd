------------------------------ MODULE LanConfig ------------------------------
(* lan (ilan.c): enables or disables the BMC's LAN channel, with the user, the *)
(* addresses, Serial-over-LAN and the event filters (PEF) that go with it.     *)
(* It reads the PEF table and the LAN parameters, and then sends a sequence of *)
(* set commands that depends on its options and on what it could read; user    *)
(* uses the same functions.                                                    *)
EXTENDS BmcConfig

(* The options: what to do (-e or -l, -d, -o); the address, gateway and alert  *)
(* destination given or found on the host ("" if none); -D, -O, -u, -p, -h,    *)
(* -j, -k, -W; whether PEF is asked for (-A, -n, ...); the host's interface is *)
(* the BMC's (fsharedMAC); the vendor; and the session the program runs over.  *)
LanOptions ==
  [do : {"lan"}, act : {"enable", "disable", "soloff"}, ip : {"", "new"},
   gw : {"", "gw", "far"}, dest : {"", "trap"}, dhcp : BOOLEAN, secure : BOOLEAN,
   user : {1, 2}, named : BOOLEAN, pwd : BOOLEAN, pef : BOOLEAN, adjust : BOOLEAN,
   custom : BOOLEAN, oks : BOOLEAN, granular : BOOLEAN, vlan : {"", "off", "on"},
   resolved : BOOLEAN, shared : BOOLEAN, gcm : BOOLEAN, vendor : {INTEL, SUPERMICRO, KONTRON},
   sessions : {0, 1, 2}]

ALERTNUM == 1

(* What can be read; a read that fails leaves the program's default.           *)
LanReads == {Lan(n) : n \in {3, 6, 12, 13, 17}} \cup {Dest(ALERTNUM), Pef(1)}
            \cup {Rule(i) : i \in 1..PefMax}

ReadOr(lost, key, default) == IF key \in lost THEN default ELSE conf[key]

SetLan(o, n, val, err) ==
  If(~ \/ o.granular /\ n \in 10..15
       \/ o.vendor = SUPERMICRO /\ n \in {10, 11},
     <<Cmd("SetLanEntry", Lan(n), val, err)>>)

-----------------------------------------------------------------------------
(* The rules of the event filter.                                              *)

(* bmcpefctl and pef_array: the rules are only read if PEF is on.              *)
PefOn(lost)    == ReadOr(lost, Pef(1), "off") = "on"
PefArray(lost) ==
  [i \in 1..PefMax |-> IF PefOn(lost) THEN ReadOr(lost, Rule(i), EmptyRule) ELSE EmptyRule]

(* Where the new rules go: pefnum, or the last rule found empty.               *)
FoundEmpty(lost) ==
  {i \in 1..PefMax : PefOn(lost) /\ Rule(i) \notin lost /\ conf[Rule(i)].about = "empty"}

RuleNumber(o, lost) ==
  IF o.adjust /\ FoundEmpty(lost) # {}
  THEN CHOOSE i \in FoundEmpty(lost) : \A j \in FoundEmpty(lost) : j <= i
  ELSE PefNum

Preset == "preset"

(* What rule i is to be about.  The rule at pefnum is only meant to be taken   *)
(* if it is empty, but the test is made on the zeroed record.                  *)
NewAbout(o, num, old, i) ==
  LET add == IF o.oks THEN 5 ELSE 2
  IN  CASE i < num                     -> IF old[i].about = "empty" THEN Preset ELSE old[i].about
        [] i = num                     -> "critical stop"
        [] i = num + 1                 -> "power redundancy"
        [] o.oks /\ i \in num+2..num+4 -> "back to normal"
        [] o.custom /\ i = num + add   -> "custom"
        [] OTHER                       -> old[i].about

SetRule(o, num, about, i) ==
  LET off == PefRule(about, FALSE, i < num, FALSE)
      on  == PefRule(about, TRUE, i < num, TRUE)
  IN  IF o.act = "disable" THEN <<Cmd("main", Rule(i), off, "count")>>
      ELSE If(i < num, <<Cmd("main", Rule(i), [on EXCEPT !.preset = FALSE], "ignore")>>)
           \o <<Cmd("main", Rule(i), on, "count")>>

SetPefEntries(o, lost) ==
  LET num == RuleNumber(o, lost)
      old == PefArray(lost)
      cmds[i \in 0..PefMax] ==
        IF i = 0 THEN << >>
        ELSE cmds[i - 1] \o If(NewAbout(o, num, old, i) # "empty",
                               SetRule(o, num, NewAbout(o, num, old, i), i))
  IN  If(o.pef, cmds[PefMax])

SetChanAcc(fn, how, val, err) == <<Cmd(fn, ChanAcc(how), val, err)>>

DisablePef ==
  SetChanAcc("DisablePef", "active", "off", "ignore")
  \o SetChanAcc("DisablePef", "nonvol", "off", "stop")
  \o <<Cmd("DisablePef", Pef(1), "off", "stop"),
       Cmd("DisablePef", Policy(ALERTNUM), "off", "stop")>>

EnablePef ==
  SetChanAcc("EnablePef", "active", "alerting", "ignore")
  \o SetChanAcc("EnablePef", "nonvol", "alerting", "stop")
  \o <<Cmd("EnablePef", Pef(1), "on", "stop"),
       Cmd("EnablePef", Pef(2), "all", "stop"),
       Cmd("EnablePef", Pef(3), "0", "tolerate"),
       Cmd("EnablePef", Pef(4), "0", "tolerate"),
       Cmd("EnablePef", Policy(ALERTNUM), "on", "stop")>>

-----------------------------------------------------------------------------
(* Users and Serial-over-LAN.                                                  *)

\* A user with a name (or user 1) is enabled; "NULL" where nothing is given.
SetPasswd(u, uname, upswd, priv, vendor) ==
  If(u # 1 /\ uname # "NULL" /\ ~(u = 2 /\ vendor = SUPERMICRO),
     <<Cmd("SetPasswd", Name(u), uname, "user")>>)
  \o If(u = 1 \/ uname # "NULL", <<Cmd("SetPasswd", Enabled(u), "yes", "count")>>)
  \o If(upswd # "NULL", <<Cmd("SetPasswd", Pass(u), upswd, "count")>>)
  \o <<Cmd("SetPasswd", Access("lan", u), Can(TRUE, priv), "count")>>

\* Without -p the password is the empty one.
SetUser(o) ==
  If(o.named \/ o.pwd,
     SetPasswd(o.user, IF o.named THEN "new" ELSE "NULL", IF o.pwd THEN "new" ELSE "blank",
               "admin", o.vendor))

DisableUser(u, err) == <<Cmd("DisableUser", Access("lan", u), NoAccess, err)>>

\* The read of parameter 2 between the first two sets ends the function as the
\* failure of the second set does; where SOL is unsupported (0xC1) there is
\* nothing to set up.
SetupSerialOverLan(o, on) ==
  LET set(key, val) == Cmd("SetupSerialOverLan", key, val, "stop")
  IN  If(~o.granular,
         <<Cmd("SetupSerialOverLan", Sol(1), IF on THEN "on" ELSE "off", "optional")>>
         \o If(on, <<set(Sol(2), "user"), set(Sol(3), "lan"), set(Sol(4), "lan"),
                     set(Sol(5), "lan"), set(Sol(6), "lan")>>
                   \o If(~(o.vendor = KONTRON /\ o.user = 1), <<set(Payload(o.user), "on")>>)))

-----------------------------------------------------------------------------
(* The LAN parameters.                                                         *)

\* rgmyip: the address given, the host's, or the BMC's own.
MyIp(o, lost) ==
  IF o.ip # "" THEN o.ip ELSE IF o.shared THEN "" ELSE ReadOr(lost, Lan(3), "")

Disable(o) ==
  DisablePef
  \o DisableUser(o.user, "count")
  \o SetLan(o, 4, "static", "count")
  \o SetLan(o, 3, "", "count")
  \o SetLan(o, 12, "", "count")
  \o SetLan(o, 13, "", "count")
  \o If(o.vendor = SUPERMICRO, <<Cmd("main", Sys("port"), "dedicated", "count")>>)

\* Mutant: the address source is set after the address.
AddressFirst(o, lost) ==
  If(~o.gcm, SetLan(o, 10, "off", "count"))
  \o SetLan(o, 3, MyIp(o, lost), "count")
  \o SetLan(o, 4, "static", "count")
  \o If(~o.gcm, SetLan(o, 10, "on", "count"))

SetDhcp(o) ==
  SetLan(o, 4, "dhcp", "count")
  \o If(o.resolved, SetLan(o, 5, "mac", "tolerate"))
  \o If(o.vendor = INTEL,
        If(o.ip # "", SetLan(o, 192, o.ip, "ignore")
                      \o If(o.resolved, SetLan(o, 193, "mac", "ignore")))
        \o SetLan(o, 194, "on", "count"))
SetStatic(o, lost) ==
  If(~o.gcm, SetLan(o, 10, "off", "count"))
  \o SetLan(o, 4, "static", "count")
  \o SetLan(o, 3, MyIp(o, lost), "count")
  \o If(o.resolved, SetLan(o, 5, "mac", "tolerate"))
  \o SetLan(o, 6, ReadOr(lost, Lan(6), "class c"), "count")
  \o SetLan(o, 7, "ttl", "count")
  \o If(~o.gcm, SetLan(o, 10, "on", "count"))
  \o SetLan(o, 11, "lan", "count")
  \o If(o.vendor = INTEL, SetLan(o, 194, "off", "count"))

\* A gateway on another subnet is replaced by the previous one.
SetGateway(o, lost) ==
  LET far == o.gw = "far"
      ip  == IF far THEN ReadOr(lost, Lan(12), "") ELSE o.gw
      mac == IF far \/ ~o.resolved THEN ReadOr(lost, Lan(13), "") ELSE "mac"
  IN  If(o.gw # "", SetLan(o, 12, ip, "count") \o SetLan(o, 13, mac, "count"))

\* The destination given, or the one the BMC has; and only if it has any.
SetAlertDest(o, lost) ==
  LET trap == IF o.dest # "" THEN o.dest ELSE ReadOr(lost, Dest(ALERTNUM), "")
  IN  If(ReadOr(lost, Lan(17), 0) # 0 /\ trap # "",
         SetLan(o, 16, "public", "count")
         \o <<Cmd("SetLanEntry", DestType(ALERTNUM), "trap", "count"),
              Cmd("SetLanEntry", Dest(ALERTNUM), trap, "count")>>)

SetVlan(o) ==
  CASE o.vlan = "off" -> SetLan(o, 20, "off", "count")
    [] o.vlan = "on"  -> SetLan(o, 20, "on", "count") \o SetLan(o, 21, "prio", "count")
    [] OTHER          -> << >>
Enable(o, lost) ==
  LET acc == IF PefOn(lost) THEN "alerting" ELSE "on"
  IN  SetChanAcc("main", "active", acc, "count")
      \o SetChanAcc("main", "nonvol", acc, "count")
      \o If(o.secure, DisableUser(0, "ignore"))
      \o SetUser(o)
      \o SetLan(o, 2, "auth", "count")
      \o (IF o.dhcp THEN SetDhcp(o)
          ELSE IF MyIp(o, lost) = "" THEN <<Abort>>
          ELSE SetStatic(o, lost) \o SetGateway(o, lost))
      \o If(o.secure, SetLan(o, 24, "lan", "count"))
      \o SetupSerialOverLan(o, TRUE)
      \o SetAlertDest(o, lost)
      \o If(o.pef, EnablePef)
      \o SetVlan(o)

(* Without an address nothing of the LAN is set; the rules already are.        *)
SetLanParams(o, lost) ==
  CASE o.act = "disable" -> Disable(o)
    [] o.act = "soloff"  -> SetupSerialOverLan(o, FALSE)
    [] OTHER             -> IF ~o.shared /\ ~o.dhcp /\ MyIp(o, lost) = ""
                            THEN <<Abort>> ELSE Enable(o, lost)

-----------------------------------------------------------------------------
(* The program.  Over the LAN it refuses to change anything while another      *)
(* session is active; if it cannot ask, it goes on.                            *)
LanStarts(o, lost) ==
  /\ Starts(o, If(o.sessions <= 1, SetPefEntries(o, lost) \o SetLanParams(o, lost)))
  /\ code' = IF o.sessions > 1 THEN "not allowed" ELSE "runs"

LanEnds ==
  /\ running /\ prog.do = "lan"
  /\ todo = << >>
  /\ Return(IF code = "runs" THEN "ok" ELSE code)

LanAborts ==
  /\ running /\ prog.do = "lan"
  /\ todo # << >>
  /\ Next1.key = <<"abort">>
  /\ Return("bad parameter")

-----------------------------------------------------------------------------
(* user (iuser.c): enables or disables a user of the LAN channel, or sets the  *)
(* name, the password or the privilege of one, with the functions of lan.      *)
UserOptions ==
  [do : {"user"}, op : {"enable", "disable", "name", "password", "priv"}, user : Users]

UserReads(u) == {Access("lan", u), Name(u)}

(* GetUserInfo: the privilege and the name that the user has.  Without them it *)
(* is an operator, with no name at all where only the name is to be kept, and  *)
(* with an empty one where the user is to be enabled.                          *)
UserPriv(u, lost) == IF Access("lan", u) \in lost THEN "operator" ELSE conf[Access("lan", u)].priv

UserName(u, lost, none) ==
  IF Access("lan", u) \in lost THEN none ELSE IF Name(u) \in lost THEN "" ELSE conf[Name(u)]

(* The vendor is only known to lan.                                            *)
UserCommands(o, lost) ==
  LET u == o.user  set(uname, upswd, priv) == SetPasswd(u, uname, upswd, priv, "unknown")
  IN  CASE o.op = "disable"  -> DisableUser(u, "count")
        [] o.op = "enable"   -> set(UserName(u, lost, ""), "NULL", UserPriv(u, lost))
        [] o.op = "name"     -> set("new", "NULL", UserPriv(u, lost))
        [] o.op = "password" -> set(UserName(u, lost, "NULL"), "new", UserPriv(u, lost))
        [] o.op = "priv"     -> set(UserName(u, lost, "NULL"), "NULL", "admin")

UserStarts(o, lost) ==
  /\ Starts(o, UserCommands(o, lost))
  /\ code' = "runs"

UserEnds ==
  /\ running /\ prog.do = "user"
  /\ todo = << >>
  /\ Return("ok")

-----------------------------------------------------------------------------
(* serial (iserial.c): gives the serial port to Terminal Mode, to Basic Mode   *)
(* or to the console alone, or takes it away from the BMC.  It is the BMC's    *)
(* answer to the last command but the switch of the port that it returns.      *)

(* -m0, -m1; -d; -t (or -c), -e, -g; -b, -s; and -q (0 if not given), -u, -p.  *)
SerialOptions ==
  [do : {"serial"},
   act : {"to system", "to BMC", "disable", "terminal", "terminal only", "console", "basic",
          "basic shared"},
   user : 0..MaxUsers, named : BOOLEAN, pwd : BOOLEAN, vendor : {INTEL, SUPERMICRO, KONTRON}]

SER_USER == 3

TMode(o) == o.act \in {"terminal", "terminal only", "console"}

SetSer(key, val) == <<Cmd("main", key, val, "last")>>

SetSerEntry(n, val) == SetSer(Ser(n), val)

\* Some makers' BMCs lack the parameters of the port.
SetPort(o, cmds) == If(o.vendor # SUPERMICRO, cmds)

SetMux(val) == <<Cmd("main", Mux, val, "ignore")>>

SetSerChan(access) == SetSer(SerChan("active"), access) \o SetSer(SerChan("nonvol"), access)

DisableSerial(o) ==
  If(o.user # 0, SetSer(Access("ser", o.user), NoAccess))
  \o SetSerChan("off")
  \o SetPort(o, SetSerEntry(3, "none"))

\* Terminal Mode asks for no login; both modes share the port with the console
\* unless it is asked for otherwise.
ChannelAccess(o) ==
  CASE o.act \in {"console", "terminal only"} -> "always, no login"
    [] o.act = "terminal"                     -> "shared, no login"
    [] OTHER                                  -> "shared, login"

ConnectionMode(o) ==
  CASE o.act = "console" -> "basic"
    [] ~TMode(o)         -> "basic and PPP"
    [] OTHER             -> "all"

SetParams(o) ==
  SetSerEntry(2, "auth")
  \o SetPort(o, SetSerEntry(3, ConnectionMode(o)))
  \o SetSerEntry(4, IF TMode(o) THEN "never" ELSE "60 s")
  \o SetPort(o, SetSerEntry(6, "DCD") \o SetSerEntry(7, "baud")
                \o SetSerEntry(8, IF o.act = "console" THEN "no mux"
                                  ELSE IF o.act = "basic" THEN "heartbeat" ELSE "mux"))

\* The user of -u gets the name, the password and the privilege, and the null
\* user loses its own; without -u the null user is the one.
SetSerialUser(o) ==
  LET u == IF ~o.named THEN 1 ELSE IF o.user = 0 THEN SER_USER ELSE o.user
      password == SetSer(Pass(u), IF o.pwd THEN "new" ELSE "default") \o SetSer(Enabled(u), "yes")
      admin    == SetSer(Access("ser", u), Can(TRUE, "admin"))
  IN  IF o.named
      THEN SetSer(Name(u), "new") \o password \o admin
           \o If(~ReservedUser(o.vendor, 1), SetSer(Access("ser", 1), Can(TRUE, "user")))
      ELSE If(~ReservedUser(o.vendor, 1), If(o.pwd, password) \o admin)

EnableSerial(o) ==
  SetSerChan(ChannelAccess(o)) \o SetParams(o) \o SetSerialUser(o)
  \o (IF TMode(o) THEN SetPort(o, SetSerEntry(29, "editing")) \o SetMux("BMC")
      ELSE IF o.act = "basic shared" THEN SetMux("system") ELSE SetMux("BMC"))

SerialStarts(o) ==
  /\ Starts(o, CASE o.act = "to system" -> SetSer(Mux, "system")
                 [] o.act = "to BMC"    -> SetSer(Mux, "BMC")
                 [] o.act = "disable"   -> DisableSerial(o)
                 [] OTHER               -> EnableSerial(o))
  /\ code' = "runs"

SerialEnds ==
  /\ running /\ prog.do = "serial"
  /\ todo = << >>
  /\ Return("ok")

=============================================================================
