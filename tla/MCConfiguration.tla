---------------------------- MODULE MCConfiguration ----------------------------
(* The instance of Configuration that TLC checks.                              *)
EXTENDS Configuration, TLC

Nothing(k) ==
  CASE k[1] = "rule"     -> EmptyRule
    [] k[1] = "access"   -> NoAccess
    [] k = Lan(17)       -> 1
    [] k = Lan(4)        -> "static"
    [] k = Lan(10)       -> "on"
    [] k = Lan(3)        -> ""
    [] k[1] = "enabled"  -> "no"
    [] OTHER             -> "off"

MCKeys ==
  {Rule(i) : i \in 1..PefMax} \cup {Pef(i) : i \in 1..3} \cup {Policy(i) : i \in 1..NDest}
  \cup {Lan(n) : n \in {0, 2, 3, 4, 5, 6, 7, 10, 11, 12, 13, 16, 17, 20, 21, 24, 192, 193, 194}}
  \cup {Dest(1), DestType(1)} \cup {ChanAcc("active"), ChanAcc("nonvol")}
  \cup {Access("lan", u) : u \in Users} \cup {Name(u) : u \in Users}
  \cup {Pass(u) : u \in Users} \cup {Enabled(u) : u \in Users}
  \cup {Sol(1), Sol(2), Sol(3), Sol(4), Sol(5), Sol(6), Payload(1), Payload(2)}
  \cup {Access("ser", u) : u \in Users} \cup {SerChan("active"), SerChan("nonvol"), Mux}
  \cup {Ser(n) : n \in {2, 3, 4, 6, 7, 8, 10, 29}} \cup { Sys("policy"), Sys("port")}

Factory == [k \in MCKeys |-> Nothing(k)]

\* A BMC in use: a static address, one user, rules of the site's own.
Site ==
  [Factory EXCEPT
     ![Lan(3)] = "old", ![Lan(12)] = "gw", ![Lan(13)] = "mac", ![Lan(6)] = "class a",
     ![Lan(10)] = "on", ![ChanAcc("active")] = "on", ![ChanAcc("nonvol")] = "on",
     ![Pef(1)] = "on", ![Policy(1)] = "on", ![Dest(1)] = "trap",
     ![Rule(1)] = PefRule("site", TRUE, TRUE, TRUE), ![Rule(4)] = PefRule("site", TRUE, FALSE, TRUE),
     ![Enabled(2)] = "yes", ![Access("lan", 2)] = Can(TRUE, "admin"), ![Sol(1)] = "on",
     ![SerChan("active")] = "on", ![SerChan("nonvol")] = "on", ![Ser(3)] = "all", ![Ser(7)] = "baud"]

\* Another one, on DHCP.
Other ==
  [Site EXCEPT
     ![Lan(3)] = "leased", ![Lan(4)] = "dhcp", ![Lan(12)] = "", ![Lan(17)] = 0,
     ![Enabled(1)] = "yes", ![Access("lan", 1)] = Can(TRUE, "admin"),
     ![Enabled(3)] = "yes", ![Access("lan", 3)] = Can(TRUE, "user"),
     ![Enabled(2)] = "no", ![Access("lan", 2)] = NoAccess]

MCConfigs == {Factory, Site, Other}

Lan0 ==
  [do |-> "lan", act |-> "enable", ip |-> "", gw |-> "", dest |-> "", dhcp |-> FALSE,
   secure |-> FALSE, user |-> 1, named |-> FALSE, pwd |-> FALSE, pef |-> FALSE,
   adjust |-> FALSE, custom |-> FALSE, oks |-> FALSE, granular |-> FALSE, vlan |-> "",
   resolved |-> TRUE, shared |-> FALSE, gcm |-> FALSE, vendor |-> INTEL, sessions |-> 0]
LanE == [Lan0 EXCEPT !.ip = "new", !.gw = "gw", !.user = 2, !.named = TRUE, !.pwd = TRUE]
LanOff == [Lan0 EXCEPT !.act = "disable"]

MCLans ==
  {LanE,
   [LanE EXCEPT !.pef = TRUE, !.dest = "trap", !.custom = TRUE, !.adjust = TRUE, !.vendor = KONTRON],
   [LanE EXCEPT !.pef = TRUE, !.oks = TRUE, !.gw = "far", !.vendor = SUPERMICRO, !.vlan = "on"],
   [LanE EXCEPT !.dhcp = TRUE, !.pwd = FALSE, !.vlan = "off"],
   [Lan0 EXCEPT !.shared = TRUE, !.secure = TRUE, !.pwd = TRUE, !.granular = TRUE],
   [Lan0 EXCEPT !.gcm = TRUE, !.resolved = FALSE, !.gw = "far", !.secure = TRUE],
   [Lan0 EXCEPT !.act = "soloff"],
   LanOff,
   [LanOff EXCEPT !.pef = TRUE, !.user = 2, !.vendor = SUPERMICRO, !.sessions = 1],
   [LanOff EXCEPT !.sessions = 2]}

Usr(op, u) == [do |-> "user", op |-> op, user |-> u]
MCUsers ==
  {Usr("enable", 2), Usr("enable", 1), Usr("disable", 2), Usr("name", 3), Usr("password", 2),
   Usr("password", 1), Usr("priv", 3)}

Ser0 == [do |-> "serial", act |-> "terminal", user |-> 0, named |-> FALSE, pwd |-> FALSE,
         vendor |-> INTEL]
SerU == [Ser0 EXCEPT !.named = TRUE, !.pwd = TRUE]
MCSerials ==
  {SerU, [Ser0 EXCEPT !.act = "terminal only", !.pwd = TRUE],
   [SerU EXCEPT !.act = "basic", !.user = 2, !.pwd = FALSE],
   [Ser0 EXCEPT !.act = "basic shared", !.vendor = SUPERMICRO],
   [SerU EXCEPT !.act = "console", !.vendor = KONTRON],
   [Ser0 EXCEPT !.act = "disable", !.user = 2], [Ser0 EXCEPT !.act = "disable", !.vendor = SUPERMICRO],
   [Ser0 EXCEPT !.act = "to system"], [Ser0 EXCEPT !.act = "to BMC"]}

Cfg(do) == [do |-> do, domac |-> FALSE, gcm |-> FALSE, v2 |-> TRUE, vendor |-> INTEL, sessions |-> 0]
Restore == Cfg("restore")
Swap    == [do |-> "replaced"]

MCRestores ==
  {Restore, [Restore EXCEPT !.domac = TRUE, !.vendor = KONTRON, !.sessions = 1],
   [Restore EXCEPT !.gcm = TRUE, !.v2 = FALSE, !.vendor = SUPERMICRO],
   [Restore EXCEPT !.sessions = 2]}

Arg == [mode |-> "", on |-> TRUE, old |-> FALSE, text |-> [len |-> 0, name |-> "t"],
        lom |-> 0, val |-> 0, unit |-> "watt", drive |-> 1, flags |-> {}]
Del(op, arg)   == [do |-> "dell", op |-> op, arg |-> arg]
Words(mode)    == [Arg EXCEPT !.mode = mode]
Old(mode)      == [Arg EXCEPT !.mode = mode, !.old = TRUE]
Long(n, old)   == [Arg EXCEPT !.mode = "userdefined", !.text.len = n, !.old = old]
Budget(v, u)   == [Arg EXCEPT !.val = v, !.unit = u]
Lom(mode, n)   == [Arg EXCEPT !.mode = mode, !.lom = n]

MCDells ==
  {Del("mode", Words("ipv4address")), Del("mode", Old("none")), Del("watt", Arg), Del("celsius", Arg),
   Del("errordisplay", Words("sel")), Del("vkvm", Words("active")),
   Del("frontpanelaccess", Words("viewonly")), Del("powercap", Arg), Del("clear", Words("peak")),
   Del("setled", [Arg EXCEPT !.flags = {"online", "fault"}]), Del("setled", [Arg EXCEPT !.drive = 2]),
   Del("passwordpolicy", Arg)}
  \cup {Del("text", Long(n, old)) : n \in {0, 14, 15, 62, 63}, old \in BOOLEAN}
  \cup {Del("setsysinfo", Long(n, FALSE)) : n \in {0, 16, 17, 64}}
  \cup {Del("lan", Lom("lom", n)) : n \in {2, 3}} \cup {Del("lan", Lom("failover", n)) : n \in {0, 2, 3, 6}}
  \cup {Del("lan", Words(m)) : m \in {"shared", "dedicated"}}
  \cup {Del("setpowerbudget", Budget(v, u)) : v \in {0, 50, 100, 101, 400, 1500}, u \in {"watt", "btuphr", "percent"}}

\* Dell servers: of which kind, whose NIC fails over in which way, whose cap can be set.
DellServer(imc, nic, cap) ==
  LET dell == {Imc, Config, Status, Lines, Nic, CapStatus, Cap, Dell("peak"), Dell("policy"), Drive(1), Drive(2), Led(1)}
                \cup {Text(i) : i \in 0..3} \cup {SysInfo(i) : i \in 0..3}
  IN  [k \in dell |->
         CASE k = Imc        -> imc
           [] k = Config     -> [mode |-> "modelname", btu |-> FALSE, fahrenheit |-> TRUE, errors |-> "simple"]
           [] k = Status     -> [kvm |-> "inactive", lock |-> "viewandmodify"]
           [] k = Lines      -> IF cap THEN 1 ELSE 0
           [] k = Nic        -> nic
           [] k = CapStatus  -> [settable |-> cap, on |-> cap]
           [] k = Cap        -> [value |-> 300, unit |-> "watt", min |-> 200, max |-> 450]
           [] k = Drive(1)   -> 1
           [] k = Drive(2)   -> NoSlot
           [] k = Led(1)     -> {}
           [] k = Dell("policy") -> FALSE
           [] k \in {Text(0), SysInfo(0)} -> [len |-> 3, name |-> "old"]
           [] OTHER          -> "old"]

MCServers ==
  {DellServer("12g", <<1, 0>>, TRUE), DellServer("12g", <<2, 3>>, FALSE), DellServer("12g", <<3, 6>>, TRUE),
   DellServer("12g blade", <<1, 0>>, TRUE), DellServer("11g", <<2, 0>>, TRUE),
   DellServer("11g blade", <<2, 0>>, TRUE), DellServer("10g", <<2, 0>>, TRUE)}

Keep == [l \in Leds |-> "keep"]
Al0 == [do |-> "alarms", product |-> "other", led |-> Keep, setled |-> FALSE, all |-> FALSE,
        ledn |-> 0, ledv |-> 0, a |-> "keep", b |-> "keep", n |-> "keep", ndisk |-> 0,
        setdisk |-> FALSE, setid |-> FALSE, id |-> 0, doencl |-> TRUE]

\* What alarms is asked for: LEDs, disks, the ID LED, all off, no enclosure.
MCAlarms ==
  {Al0, [Al0 EXCEPT !.setid = TRUE, !.id = 5],
   [Al0 EXCEPT !.led = [Keep EXCEPT !.crit = "on", !.pow = "off"], !.setled = TRUE, !.ledn = 2, !.ledv = 1],
   [Al0 EXCEPT !.led = [Keep EXCEPT !.maj = "on", !.min = "on"], !.setled = TRUE],
   [Al0 EXCEPT !.led = [l \in Leds |-> "off"], !.setled = TRUE, !.all = TRUE, !.setid = TRUE,
               !.setdisk = TRUE, !.a = "off", !.b = "off"],
   [Al0 EXCEPT !.setdisk = TRUE, !.a = "on", !.b = "off"],
   [Al0 EXCEPT !.setdisk = TRUE, !.a = "off", !.n = "on", !.ndisk = 3],
   [Al0 EXCEPT !.setdisk = TRUE, !.n = "off", !.ndisk = 1],
   [Al0 EXCEPT !.setdisk = TRUE, !.a = "all off", !.setid = TRUE, !.id = 9],
   [Al0 EXCEPT !.setdisk = TRUE, !.a = "all off", !.doencl = FALSE]}

Machine(fields) == [k \in {IdLed, Reading("id state")} |-> IF k = IdLed THEN 0 ELSE ""] @@ fields

MCMachines ==
  {<<p, Machine((Telco :> byte) @@ more)>> :
       p \in {"TSRLT2", "TIGPR2U", "NSC"}, byte \in {{}, 2..7, {0, 1, 4, 5}},
       more \in {NscDisks :> 2..7, NscDisks :> {1, 4}}}
  \cup {<<p, Machine((Telco :> 2..7) @@ (Enclosure :> e) @@ (Reading("enclosure") :> "") @@ more)>> :
       p \in {"S2600CO", "S1200BT"},
       e \in {[leds |-> {}, override |-> FALSE], [leds |-> {1, 5}, override |-> TRUE]},
       more \in {RawLeds :> TRUE, TamActive :> TRUE}}
  \cup {<<p, Machine((Backplane :> {1, 2}) @@ (Reading("backplane") :> ""))>> :
       p \in {"TIGI2U", "Kontron 1590", "Intel"}}
  \cup {<<"ATCA", Machine((PicmgLed(0) :> 0) @@ (PicmgLed(2) :> 0) @@ (Reading("picmg led") :> ""))>>,
        <<"Fujitsu", Machine(FujitsuLed :> 0)>>,
        <<"other", Machine((PicmgLed(0) :> 0) @@ (Reading("picmg") :> ""))>>}

MCFwCommands == {1, 96, 97, 130}
MCFwPairs    == <<<<0, 0>>, <<0, 6>>, <<0, 12>>, <<1, 0>>>>
Fw(op, what) == [do |-> "firewall", op |-> op, what |-> what, pair |-> <<0, 6>>, command |-> 1,
                 subfn |-> 0, force |-> FALSE]
MCFirewalls ==
  {[Fw(op, what) EXCEPT !.force = f, !.command = c, !.pair = p] :
       op \in {"enable", "disable"}, what \in {"subfn", "command", "netfn"}, f \in BOOLEAN,
       c \in {1, 97, 130}, p \in {<<0, 6>>, <<1, 0>>}}
  \cup {Fw("reset", "lun"), Fw("enable", "lun"), Fw("enable", "illegal")}

\* A BMC with a firewall: what can be configured and what is enabled.
Wall(pairs, may, on) ==
  LET cut(S) == [h \in Halves |-> S \cap Half(h)]
      keys   == {CmdConfig(p) : p \in pairs} \cup {CmdEnabled(p) : p \in pairs}
                      \cup {SubConfig(p, 1) : p \in pairs} \cup {SubEnabled(p, 1) : p \in pairs}
  IN  [k \in keys |-> CASE k[1] = "cmdconfig"  -> cut(may)
                        [] k[1] = "cmdenabled" -> cut(on)
                        [] k[1] = "subconfig"  -> {0}
                        [] OTHER -> {0, 1} \cap on]
MCWalls ==
  {Wall(pairs, may, on) :
     pairs \in {{<<0, 0>>, <<0, 6>>}, {<<0, 6>>, <<0, 12>>}, {<<0, 0>>, <<0, 6>>, <<1, 0>>}},
     may \in {{}, {1, 97, 130}, FwCommands}, on \in {{1, 97}, {96, 130}, FwCommands}}

Limit0 == [action |-> 1, limit |-> <<44, 1>>, correction |-> <<232, 3, 0, 0>>, sample |-> <<5, 0>>]
Dcm(op) == [do |-> "dcmi", op |-> op, field |-> "limit", val |-> <<0, 1>>, asset |-> 0, name |-> 0]
DcmSet(field, val) == [Dcm("set") EXCEPT !.field = field, !.val = val]
MCDcmis ==
  {Dcm(op) : op \in {"info", "get", "activate", "deactivate", "usage", "set"}}
  \cup {DcmSet("action", <<17>>), DcmSet("correction", <<1, 2, 3, 4>>), DcmSet("sample", <<10, 0>>),
        DcmSet("sample", <<0, 0>>)}
  \cup {[Dcm("info") EXCEPT !.asset = a, !.name = n] : a \in {0, 16, 63}, n \in {1, 2, 17, 70}}
MCPlatforms ==
  {[k \in {DcmiCapab, PowerLimit, LimitActive} \cup {Tag(w, i) : w \in {"asset", "name"}, i \in 1..4} |->
      CASE k = DcmiCapab   -> [power |-> p]
        [] k = PowerLimit  -> Limit0
        [] k = LimitActive -> on
        [] OTHER -> [of |-> "old", len |-> 16, more |-> ""]] : p \in BOOLEAN, on \in BOOLEAN}
  \cup {IdLed :> 0}

Pic(op, arg) == [do |-> "picmg", op |-> op, arg |-> arg, enough |-> TRUE]
Link(type, group) ==
  [if |-> 1, chan |-> 3, port |-> 15, type |-> type, ext |-> 2, group |-> group, on |-> 1, device |-> 4]
Clk == [id |-> 1, res |-> 2, setting |-> 9, index |-> 1, family |-> 2, acc |-> 3, freq |-> <<0, 1, 2, 3>>]
FruArg == [fru |-> 0, option |-> 1, mask |-> {1}, bits |-> {0, 1}, led |-> 1, state |-> 255, level |-> 3]
MCPicmgs ==
  {Pic(op, FruArg) : op \in {"activate", "deactivate", "frucontrol", "policy", "led", "power", "help"}}
  \cup {[Pic(op, FruArg) EXCEPT !.enough = FALSE] : op \in {"policy", "power"}}
  \cup {Pic(op, Link(t, g)) : op \in {"portstate", "amcportstate"}, t \in {2, 240}, g \in {0, 255}}
  \cup {Pic(op, [Link(2, 0) EXCEPT !.on = 0, !.device = -1]) :
          op \in {"portstate", "amcportstate", "portstate get", "amcportstate get"}}
  \cup {Pic(op, [Clk EXCEPT !.res = r, !.setting = s]) : op \in {"clk", "clk get"}, r \in {-1, 2}, s \in {1, 9}}
MCBoards ==
  {[k \in {PicmgCard, FruActive(0), FruPolicy(0), FruControl(0), FruLed(0, 1), FruPower(0), Port(1, 3),
            AmcPort(4, 3), AmcPort(-1, 3), Clock(1, 2), Clock(1, -1)} |->
      CASE k = PicmgCard -> card
        [] k = FruActive(0) -> FALSE
        [] k = FruPolicy(0) -> pol
        [] k \in {Port(1, 3), AmcPort(4, 3), AmcPort(-1, 3)} -> [link |-> <<0, 0, 0, 0>>, on |-> 0]
        [] k \in {Clock(1, 2), Clock(1, -1)} ->
             [setting |-> 0, index |-> 0, family |-> 0, acc |-> 0, freq |-> <<0, 0, 0, 0>>]
        [] OTHER -> 0] : card \in {ATCA, "amc"}, pol \in SUBSET {0, 1}}

\* Sensors of the BMC: a temperature, a voltage with critical thresholds only, a
\* signed current, one in one's complement; one of another controller's with a
\* number of the BMC's; and a discrete one.
Temp    == Full(32, 1, 1, 0, 0, "unsigned", <<20, 10, 5, 80, 90, 95>>, 1..6, 1..6)
Volts   == Full(32, 2, 5, 30, -2, "unsigned", <<0, 50, 0, 0, 200, 0>>, {2, 5}, {2, 5})
Current == Full(32, 3, 2, 7, -1, "2s", <<246, 236, 226, 40, 50, 60>>, 1..6, {2, 5})
Comple  == Full(32, 4, 1, 0, 0, "1s", <<250, 240, 230, 40, 50, 60>>, 1..6, 1..6)
Other1  == Full(44, 1, 1, 0, 0, "unsigned", <<20, 10, 5, 80, 90, 95>>, 1..6, 1..6)
Locator(num) == [Temp EXCEPT !.rec = "locator", !.num = num]
Compact(type, ev) ==
  [Temp EXCEPT !.rec = "compact", !.num = 9, !.type = type, !.ev = ev, !.readable = {}, !.settable = {}, !.unit = "none"]

Rdg(cc, init, raw, bits) == [cc |-> cc, init |-> init, raw |-> raw, bits |-> bits, ones |-> FALSE]
SensorBmc(sdrs, on, rdgs) ==
  [k \in {Sdrs, Savefile, Hyst(9), Thr(9), Readable(9), SevtEnable(9), Rearmed(9)}
           \cup {Thr(n) : n \in 1..4} \cup {Readable(n) : n \in 1..4}
           \cup {Hyst(n) : n \in 1..4} \cup {SevtEnable(n) : n \in 1..4} \cup {Rearmed(n) : n \in 1..4}
           \cup {SensorReading(own, n) : own \in {32, 44}, n \in {1, 2, 3, 4, 9}} |->
     CASE k = Sdrs -> sdrs
       [] k = Savefile -> [num |-> 0, lo |-> 0, hi |-> 0, thr |-> << >>]
       [] k[1] = "thr" -> (CASE k[2] = 2 -> Volts.thr [] k[2] = 3 -> Current.thr [] k[2] = 4 -> Comple.thr [] OTHER -> Temp.thr)
       [] k[1] = "thrmask" -> (CASE k[2] = 2 -> {2, 5} [] k[2] = 9 -> {} [] OTHER -> 1..6)
       [] k[1] = "hyst" -> <<2, 3>>
       [] k[1] = "sevents" -> on
       [] k[1] = "rearmed" -> FALSE
       [] OTHER -> rdgs]

AllSdrs == <<Temp, Volts, Current, Comple, Other1, Compact(8, 111)>>
MCSensorBmcs ==
  {SensorBmc(AllSdrs, on, Rdg("ok", FALSE, raw, {0})) : on \in BOOLEAN, raw \in {3, 8, 50, 92, 97, 230}}
  \cup {SensorBmc(AllSdrs, TRUE, Rdg(cc, cc = "ok", 0, {})) : cc \in {"ok", "absent", "error"}}
  \cup {SensorBmc(<<Temp, Locator(1)>>, TRUE, Rdg("ok", FALSE, 50, {}))}

Vendor(v, p) == [vendor |-> v, prod |-> p, junk |-> FALSE, text |-> -1]
Sen0 == [do |-> "sensor", who |-> Vendor("other", ""), op |-> "show", mode |-> "raw", num |-> NOBODY, own |-> BMC_SA, lo |-> NOBODY,
         hi |-> NOBODY, thr |-> <<0, 0, 0, 0, 0, 0>>, rearm |-> 0, save |-> FALSE, groups |-> {}, walked |-> TRUE]
SenSet(n) == [Sen0 EXCEPT !.op = "set", !.num = n, !.save = TRUE]
Empties   == [k \in 1..6 |-> THR_EMPTY]
MCSensors ==
  {Sen0, [Sen0 EXCEPT !.rearm = 1], [SenSet(1) EXCEPT !.rearm = 1, !.lo = 12],
   [Sen0 EXCEPT !.groups = {8}], [Sen0 EXCEPT !.num = 2]}
  \cup {[SenSet(n) EXCEPT !.lo = 30, !.hi = hi] : n \in {1, 2, 3, 8}, hi \in {NOBODY, 100}}
  \cup {[SenSet(1) EXCEPT !.lo = 1, !.hi = 254]}
  \cup {[SenSet(n) EXCEPT !.mode = "float", !.lo = lo, !.hi = hi] :
          n \in 1..4, lo \in {0, -100, 1251, 3000}, hi \in {0, 6170, 99999}}
  \cup {[SenSet(n) EXCEPT !.mode = "raws", !.thr = t] :
          n \in {1, 2}, t \in {<<30, 20, 10, 70, 80, 90>>, <<10, 20, 30, 70, 80, 90>>}}
  \cup {[SenSet(n) EXCEPT !.mode = "floats", !.thr = t] :
          n \in 1..4, t \in {Empties, [Empties EXCEPT ![1] = 1500, ![4] = 8130], [Empties EXCEPT ![2] = 150, ![5] = 700],
                             [Empties EXCEPT ![2] = 9900], [Empties EXCEPT ![6] = 100],
                             <<0, 0, 0, 7000, 8000, 9000>>}}

\* Discrete sensors, by type and event type.
MCDiscretes ==
  {SensorBmc(<<Compact(t[1], t[2])>>, TRUE, Rdg("ok", FALSE, 0, bits)) :
     t \in {<<1, 7>>, <<1, 5>>, <<1, 1>>, <<2, 5>>, <<4, 11>>, <<4, 8>>, <<4, 3>>, <<4, 1>>, <<5, 111>>, <<7, 111>>,
            <<7, 3>>, <<8, 111>>, <<9, 11>>, <<9, 111>>, <<12, 111>>, <<13, 8>>, <<13, 111>>, <<21, 8>>, <<192, 3>>}
           \cup {<<ty, 111>> : ty \in {16, 18, 19, 20, 22, 23, 28, 33, 34, 36, 37, 40, 41, 42, 43, 241}}
           \cup {<<111, ev>> : ev \in {4, 5, 7, 8, 9, 10, 11, 12, 111}},
     bits \in SUBSET {0, 1, 3} \cup {{2}, {4}, {6, 0}, {8, 2}, {5, 9}, {13}, {14}}}

\* Sensors that a vendor's decoder shows: of the types it knows and of others.
Sn(type, ev, full, more) ==
  [Compact(type, ev) EXCEPT !.rec = IF full THEN "full" ELSE "compact", !.entity = more, !.mask = more]
MCVendorTypes ==
  {<<Vendor(INTEL, ""), {Sn(\hC0, 3, FALSE, 0), Sn(\hF6, 111, FALSE, 0), Sn(\hDC, 111, FALSE, 0), Sn(8, 111, FALSE, 0)}>>,
   <<Vendor(KONTRON, ""), {Sn(8, 111, FALSE, m) : m \in {0, 2}} \cup {Sn(ty, 111, FALSE, 0) : ty \in {\hC0, \hC2, \hC6, \hCF}}>>,
   <<Vendor("fujitsu", "iRMC"), {Sn(ty, 111, f, 0) : ty \in {\hC0, \hDE, \hE6, \hE8, \hE9, \hEA, \hEF}, f \in BOOLEAN}>>,
   <<Vendor("sun", ""), {Sn(ty, 3, f, 0) : ty \in {\h15, \hC0, 4}, f \in BOOLEAN}>>,
   <<Vendor(SUPERMICRO, ""), {Sn(ty, 111, f, 0) : ty \in {\hC0, 8, 13, 5}, f \in BOOLEAN}>>,
   <<Vendor(SUPERMICRO, "X11DRi"), {Sn(\h29, 111, FALSE, 0)}>>,
   <<Vendor("hp", ""), {Sn(t[1], t[2], f, 0) : t \in {<<\hC0, 3>>, <<8, 111>>, <<7, 111>>, <<4, 11>>, <<4, 10>>, <<3, 9>>, <<18, 3>>},
                                             f \in BOOLEAN}>>,
   <<Vendor("dell", ""), {Sn(2, 3, FALSE, 0), Sn(2, 5, FALSE, 0)}>>,
   <<Vendor("asus", ""), {Sn(\hC5, 111, FALSE, 0), Sn(2, 3, FALSE, 0)}>>,
   <<Vendor("quanta", "S99Q"), {Sn(\hDC, 111, FALSE, 0), Sn(5, 111, FALSE, 0)}>>,
   <<Vendor("lenovo", ""), {Sn(7, 111, FALSE, e) : e \in {3, 25}} \cup {Sn(2, 7, FALSE, 0), Sn(40, 8, FALSE, 0), Sn(40, 111, FALSE, 0)}
                            \cup {Sn(ty, 111, FALSE, 0) : ty \in {12, 13, 15, 23, 27, 30, 33, 43}}>>}
MCVendorSensors ==
  UNION {{[conf |-> SensorBmc(<<sdr>>, TRUE, rdg), plan |-> <<[Sen0 EXCEPT !.who = v[1]]>>] :
            sdr \in v[2],
            rdg \in {Rdg("ok", FALSE, 0, bits) : bits \in SUBSET {0, 1, 2} \cup {{3}, {6}, {7}, {0, 6}, {0, 1, 3}, {5, 9}, {1, 14}}}
                      \cup {Rdg("absent", FALSE, 0, {}), Rdg("ok", TRUE, 0, {0})}} : v \in MCVendorTypes}
  \cup {[conf |-> SensorBmc(<<[Temp EXCEPT !.type = ty], Volts, Current>>, TRUE, [Rdg(cc, FALSE, raw, {}) EXCEPT !.ones = ones]),
         plan |-> <<[Sen0 EXCEPT !.who = Vendor(v, "")]>>] :
          ty \in {1, 4}, cc \in {"ok", "error"}, raw \in {3, 8, 50, 92, 97, 230}, ones \in BOOLEAN,
          v \in {"other", SUPERMICRO, "hp", "lenovo"}}

\* Logs of events and their ends: of all sorts and offsets, of memory errors by
\* place, and what a crash leaves.
Ev(gen, type, num, trig, off) == Record(2, gen, type, num, trig, off, 3, 255)
Pair(e)  == <<e, [e EXCEPT !.trig = @ + 128]>>
Types    == {1, 2, 3, 4, 5, 7, 8, 9, 13, 15, 18, 19, 21, 22, 32, 33, 41, 43, 192, 208, 220, 243}
EventBmc(log, lines, types) ==
  [k \in {EventLog, SentEvents, SensorFile, Sdrs} \cup {SensorType(n) : n \in DOMAIN types} |->
     CASE k = EventLog -> log [] k = SentEvents -> << >> [] k = SensorFile -> lines
       [] k = Sdrs -> <<Other1, Temp, Locator(9), Volts>> [] OTHER -> types[k[2]]]
NoTypes  == [n \in {} |-> 0]

Evs0 == [do |-> "events", op |-> "list", who |-> Vendor("other", ""), all |-> TRUE, least |-> INF, descs |-> 1,
         ascii |-> TRUE, remote |-> FALSE, cut |-> FALSE, entity |-> 7]
ShowFor(who) == [Evs0 EXCEPT !.who = who]

\* All the events of a type, and their ends.
EventsOf(gen, ty, trigs, offs) ==
  FoldSet(LAMBDA pair, log : pair \o log, << >>, {Pair(Ev(gen, ty, 1, trig, off)) : trig \in trigs, off \in offs})

MCLogs ==
  {[conf |-> EventBmc(EventsOf(gen, ty, {1, 3, 6, 8, 11, 111, 112}, {0, 1, 2, 4, 5, 7, 8, 11, 14}), << >>, NoTypes),
    plan |-> <<ShowFor(who)>>] :
     gen \in {BMC, 192}, ty \in Types, who \in {Vendor("other", ""), Vendor(INTEL, "romley"), Vendor(SUPERMICRO, "")}}
  \cup {[conf |-> EventBmc(EventsOf(BMC, ty, {111}, {0, 2, 15, 161, 162, 193}), << >>, NoTypes), plan |-> <<ShowFor(who)>>] :
          ty \in Types \cup {16, 36, 193},
          who \in {Vendor(KONTRON, ""), Vendor("dell", ""), Vendor("quanta", "S99Q"), Vendor("peppercon", "")}}
  \cup {[conf |-> EventBmc(EventsOf(BMC, ty, {0, 1, 3, 10, 11, 111}, {0, 8, 15, 33, 41, 38, 160, 128}), << >>, NoTypes),
         plan |-> <<ShowFor([Vendor(v, "") EXCEPT !.text = text])>>] :
          ty \in {1, 4, 193, 200, 202, 224, 225, 236, 238}, v \in {"fujitsu", "lenovo", "newisys"}, text \in {-1, 0, 8, 48, 128}}
  \cup {[conf |-> EventBmc(<<Record(rec, gen, ty, 0, d3, 1, d2, d3)>>, << >>, NoTypes), plan |-> <<[ShowFor(Vendor(v, "")) EXCEPT !.all = all]>>] :
          rec \in {2, 193, 224}, gen \in {BMC, 10368}, ty \in {9, 10, 11, 193, 224}, d2 \in 1..3, d3 \in {0, 1, 4, 128},
          v \in {"fujitsu", "lenovo"}, all \in BOOLEAN}
  \cup {[conf |-> EventBmc(<<Record(2, 51, 12, 8, 111, d1, a[1], a[2]), Record(2, 51, 12, 8, 111, d1, b[1], b[2])>>, << >>, NoTypes),
         plan |-> <<ShowFor(who)>>] :
          d1 \in {0, 128, 160}, a \in {<<26, 0>>, <<240, 9>>, <<5, 255>>}, b \in {<<26, 1>>, <<27, 0>>, <<43, 0>>, <<240, 33>>, <<7, 255>>, <<240, 3>>},
          who \in {Vendor("other", ""), Vendor(INTEL, "thurley"), Vendor(INTEL, "romley"), Vendor(INTEL, ""),
                   Vendor(INTEL, "mini"), Vendor(SUPERMICRO, ""), Vendor("dell", ""), Vendor("dell", "51")}}
  \cup {[conf |-> EventBmc(<<Ev(BMC, ty, num, trig, off)>>, lines, types), plan |-> <<[Evs0 EXCEPT !.op = op]>>] :
          ty \in {1, 4, 9, 13, 18, 41}, num \in {1, 2}, trig \in {1, 129, 11, 111}, off \in {0, 2, 9},
          lines \in {<< >>, <<[num |-> 1, sa |-> 44, type |-> 1], [num |-> 1, sa |-> BMC, type |-> 4],
                             [num |-> 2, sa |-> BMC, type |-> 9]>>},
          types \in {NoTypes, 1 :> 13, 2 :> 41 @@ 1 :> 18}, op \in {"pet", "one", "new"}}
  \cup {[conf |-> EventBmc(<<Record(2, 65, 32, num, 111, 1, 78, 70), Record(240, 0, 0, 73, 0, 0, 0, 0), Ev(BMC, 1, 1, 1, 9),
                            Ev(BMC, 2, 2, 1, 0), Record(1, 0, 0, 0, 0, 0, 0, 0)>>, << >>, NoTypes),
         plan |-> <<[Evs0 EXCEPT !.op = op, !.all = all, !.least = least, !.ascii = all, !.cut = cut, !.remote = ~cut]>>] :
          num \in {0, 73, 80}, op \in {"list", "file"}, all \in BOOLEAN, least \in INF..CRT, cut \in BOOLEAN}

\* lan, user or serial alone, on every BMC; a restore on another BMC; a restore after lan.
MCSetups ==
  {[conf |-> c, plan |-> <<o>>] : c \in MCConfigs, o \in MCLans \cup MCUsers \cup MCSerials}
  \cup {[conf |-> c, plan |-> <<o>>] : c \in MCServers, o \in MCDells}
  \cup {[conf |-> m[2], plan |-> <<[o EXCEPT !.product = m[1]]>>] : m \in MCMachines, o \in MCAlarms}
  \cup {[conf |-> c, plan |-> <<o>>] : c \in MCWalls, o \in MCFirewalls}
  \cup {[conf |-> c, plan |-> <<o>>] : c \in MCPlatforms, o \in MCDcmis}
  \cup {[conf |-> c, plan |-> <<o>>] : c \in MCBoards, o \in MCPicmgs}
  \cup {[conf |-> c, plan |-> <<o, Sen0>>] : c \in MCSensorBmcs, o \in MCSensors}
  \cup {[conf |-> c, plan |-> <<Sen0>>] : c \in MCDiscretes}
  \cup MCVendorSensors
  \cup MCLogs
  \cup {[conf |-> c, plan |-> <<Cfg("save"), Swap, r>>] : c \in MCConfigs, r \in MCRestores}
  \cup {[conf |-> c, plan |-> <<Cfg("save"), LanOff, Restore>>] : c \in {Site, Other}}
=============================================================================
