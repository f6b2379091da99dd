-------------------------------- MODULE Events --------------------------------
(* sel's listing and events (isel.c, ievents.c): what is shown of the records  *)
(* of a system event log, of a file of them and of a trap, by this program and *)
(* by the vendors' decoders (oem_*.c), and a new event sent to the BMC.        *)
(*                                                                             *)
(* A record has its bytes as numbers; the text shown is the name of a table    *)
(* and the place in it, [sev, msg], severities from 0 (INF) to 3 (CRT).        *)
EXTENDS SensorConfig
LOCAL INSTANCE SequencesExt
LOCAL INSTANCE FiniteSetsExt

EventLog   == <<"sel">>        \* the BMC's log
SentEvents == <<"sent">>       \* events it got with Platform Event Message
SensorFile == <<"sensfil">>    \* lines of sensor_out.txt: [num, sa, type]
SensorType(num) == <<"stype", num>>  \* the BMC's answer to Get Sensor Type

Record(rec, gen, type, num, trig, d1, d2, d3) ==
  [rec |-> rec, gen |-> gen, type |-> type, num |-> num, trig |-> trig, d1 |-> d1, d2 |-> d2, d3 |-> d3]

INF == 0
MIN == 1
MAJ == 2
CRT == 3

BMC == \h20
SMI == \h21
SMS == \h41
HSC == \hC0

Shown(sev, msg) == [sev |-> sev, msg |-> msg]
NotKnown        == Shown(INF, << >>)  \* a vendor's decoder that leaves it to the default

Bit(n, b)    == (n \div 2 ^ b) % 2 = 1
Field(n, b, width) == (n \div 2 ^ b) % 2 ^ width
Off(e)       == e.d1 % 16
Deasserts(e) == e.trig >= \h80
Capped(i, count) == IF i >= count THEN count - 1 ELSE i

-----------------------------------------------------------------------------
(* The default decoder.                                                        *)

(* is_threshold: the BMC's, the SMI's, and those of one controller else.       *)
IsThreshold(e, who) ==
  /\ e.trig \in {1, \h81}
  /\ e.gen \in {BMC, SMI, IF who.vendor = INTEL THEN HSC ELSE SMS}

ANY == 999

(* sens_desc: generator, type, number, trigger, low half of data 1, data 2.    *)
SensDesc ==
  <<<<ANY, \h05, ANY, \h6F, 0, ANY, MIN>>, <<ANY, \h05, ANY, \hEF, 0, ANY, INF>>,
    <<ANY, \h05, ANY, \h6F, 4, ANY, MIN>>, <<ANY, \h05, ANY, \hEF, 4, ANY, INF>>,
    <<ANY, \h06, ANY, ANY, 5, ANY, INF>>, <<ANY, \h07, ANY, ANY, 1, ANY, CRT>>,
    <<ANY, \h08, ANY, \h6F, 0, ANY, INF>>, <<ANY, \h08, ANY, \h6F, 1, ANY, MAJ>>,
    <<ANY, \h08, ANY, \h6F, 2, ANY, MIN>>, <<ANY, \h08, ANY, \h6F, 3, ANY, INF>>,
    <<ANY, \h08, ANY, \h6F, 6, ANY, MAJ>>, <<ANY, \h08, ANY, \hEF, 0, ANY, MIN>>,
    <<ANY, \h08, ANY, \hEF, 1, ANY, INF>>, <<ANY, \h08, ANY, \hEF, 2, ANY, INF>>,
    <<ANY, \h08, ANY, \hEF, 3, ANY, INF>>, <<ANY, \h08, ANY, \hEF, 6, ANY, INF>>,
    <<ANY, \h0C, ANY, ANY, 0, ANY, MIN>>, <<ANY, \h0F, 6, ANY, ANY, ANY, MAJ>>,
    <<ANY, \h10, 9, ANY, 2, 15, INF>>, <<ANY, \h10, ANY, ANY, 2, ANY, INF>>,
    <<ANY, \h10, ANY, ANY, 0, 3, MIN>>,
    <<ANY, \h12, \hFE, ANY, 5, 0, INF>>, <<ANY, \h12, \hFE, ANY, 5, \h80, INF>>,
    <<ANY, \h12, \h83, ANY, 5, 0, INF>>, <<ANY, \h12, \h83, ANY, 5, \h80, INF>>,
    <<ANY, \h12, \h83, ANY, 1, ANY, INF>>, <<1, \h12, 8, ANY, 1, ANY, INF>>,
    <<ANY, \h12, 1, \h6F, 1, ANY, INF>>, <<ANY, \h12, \h38, \h6F, 0, ANY, INF>>,
    <<ANY, \h12, \h38, \hEF, 0, ANY, INF>>, <<\h31, \h12, 0, \h6F, 3, ANY, INF>>,
    <<BMC, \h12, \h83, \h6F, 0, ANY, INF>>, <<BMC, \h12, \h83, \h0B, 0, ANY, INF>>,
    <<BMC, \h12, \h0B, \h6F, 0, ANY, INF>>, <<BMC, \h12, \h83, ANY, 1, ANY, INF>>,
    <<BMC, \h12, \h83, \h6F, 2, ANY, MAJ>>, <<BMC, \h12, \h83, \h6F, 4, ANY, INF>>,
    <<HSC, \h0D, ANY, 8, 0, ANY, MIN>>, <<HSC, \h0D, ANY, 8, 1, ANY, INF>>,
    <<ANY, \h0D, ANY, \h6F, 0, ANY, INF>>, <<ANY, \h0D, ANY, \hEF, 0, ANY, INF>>,
    <<ANY, \h0D, ANY, \h6F, 1, ANY, MAJ>>, <<ANY, \h0D, ANY, \hEF, 1, ANY, INF>>,
    <<ANY, \h0D, ANY, \h6F, 2, ANY, MIN>>, <<ANY, \h0D, ANY, \h6F, 5, ANY, MIN>>,
    <<ANY, \h0D, ANY, \h6F, 7, ANY, INF>>, <<ANY, \h0D, ANY, \hEF, 7, ANY, INF>>,
    <<ANY, \h14, ANY, ANY, 2, ANY, MIN>>, <<ANY, \h14, ANY, ANY, 0, ANY, MIN>>,
    <<ANY, \h14, ANY, ANY, 1, ANY, INF>>,
    <<ANY, \h23, ANY, ANY, 0, ANY, MAJ>>, <<ANY, \h23, ANY, ANY, 1, ANY, CRT>>,
    <<ANY, \h23, ANY, ANY, 2, ANY, CRT>>, <<ANY, \h23, ANY, ANY, 3, ANY, CRT>>,
    <<ANY, \h23, ANY, ANY, 8, ANY, MAJ>>,
    <<ANY, \hF3, ANY, \h83, 1, ANY, INF>>, <<ANY, \hF3, ANY, 3, 1, ANY, CRT>>>>

(* Its last rows: thresholds, of whatever type and number.                     *)
ThresholdRows ==
  [k \in 1..24 |->
     <<ANY, ANY, ANY, IF k <= 12 THEN 1 ELSE \h81, (k - 1) % 12, ANY,
       <<MIN, INF, MAJ, INF, CRT, INF, INF, MIN, INF, MAJ, INF, CRT,
         INF, MIN, INF, MAJ, INF, CRT, MIN, INF, MAJ, INF, CRT, INF>>[k]>>]

Rows == SensDesc \o ThresholdRows

(* get_misc_desc: the first row that matches; none is not known.               *)
MiscDesc(e) ==
  LET this == <<e.gen, e.type, e.num, e.trig, Off(e), e.d2>>
      row  == SelectInSeq(Rows, LAMBDA r : \A c \in 1..6 : r[c] \in {ANY, this[c]})
  IN  IF row = 0 THEN Shown(INF, <<"-">>) ELSE Shown(Rows[row][7], <<"sens_desc", row>>)

(* decode_pwrunit, decode_redund, decode_presence: tables by trigger and       *)
(* offset; what is not in the first two is not known.                          *)
PwrUnit(e) ==
  CASE e.trig = \h6F /\ Off(e) <= 7 ->
         Shown(<<INF, INF, INF, INF, MIN, MAJ, MAJ, MIN>>[Off(e) + 1], <<"pwrunit", Off(e)>>)
    [] e.trig = \hEF /\ Off(e) \in {0, 1, 4, 6} -> Shown(INF, <<"pwrunit ok", Off(e)>>)
    [] OTHER -> Shown(INF, <<"-">>)

Redund(e, none) ==
  IF Off(e) > 7 THEN Shown(INF, <<none>>)
  ELSE Shown((IF Deasserts(e) THEN <<MAJ, INF, INF, INF, MAJ, INF, INF, MIN>>
              ELSE <<INF, MAJ, MAJ, MAJ, MAJ, CRT, MAJ, MIN>>)[Off(e) + 1],
             <<IF Deasserts(e) THEN "redund not" ELSE "redund", Off(e)>>)

PresenceOf(e) ==
  Shown(INF, <<"present", CASE e.trig = 8 -> Capped(Off(e), 2) [] Bit(e.d1, 0) -> 0 [] OTHER -> 1>>)

(* The sensor's number and data 2 and 3 hold what a kernel had to say.         *)
OsStop(e) ==
  CASE Off(e) = 0      -> Shown(CRT, <<"Startup Crit Stop">>)
    [] Off(e) \in 2..5 -> Shown(INF, <<"os stop", Off(e)>>)
    [] e.num = 0       -> Shown(CRT, <<"Runtime Crit Stop">>)
    [] OTHER           -> Shown(CRT, <<"panic", e.num, e.d2, e.d3>>)

TempEvent(e, who) ==
  IF IsThreshold(e, who) THEN MiscDesc(e)
  ELSE Shown(INF, <<IF Deasserts(e) THEN "Temp OK" ELSE "Temp Asserted">>)

CpuEvent(e) ==
  LET i == Capped(Off(e), 11)
      how(bad) == Shown(IF bad THEN CRT ELSE INF, <<IF bad THEN "Proc Config Error" ELSE "Proc Config OK">>)
  IN  CASE e.trig = \h6F -> Shown(IF i = 7 THEN INF ELSE IF i > 7 THEN MIN ELSE CRT, <<"proc", i>>)
        [] e.trig = \hEF -> Shown(CRT, <<"proc deasserted", i>>)
        [] e.num = \h80  -> Shown(CRT, <<"CATERR", e.d2 % 16>>)
        [] e.trig = 3    -> how(i # 0)
        [] e.trig = \h83 -> how(i = 0)
        [] OTHER         -> Shown(IF Deasserts(e) THEN INF ELSE CRT,
                                  <<IF Deasserts(e) THEN "ProcErr Deasserted" ELSE "ProcErr Asserted">>)

(* decode_mem_intel: two boards' controllers give socket, channel and slot,    *)
(* others a number; names come from the boards' tables (a remote BMC's memory  *)
(* is not looked up).  Beyond the table, bdata was never set: who.junk.        *)
DimmIntel(e, who) ==
  LET at(perNode, perChan) == Field(e.d3, 5, 3) * perNode + Field(e.d3, 3, 2) * perChan + Field(e.d3, 0, 3)
      bdata == IF who.prod = "mini" \/ e.d3 = \hFF THEN e.d2 ELSE e.d3
      named(dimm, count, unknown) ==
        CASE dimm < count -> <<"DIMM_", dimm>> [] unknown -> <<"DIMM_unknown">> [] OTHER -> <<"DIMM()", dimm>>
  IN  CASE who.prod = "thurley" -> named(at(6, 2), 12, who.junk)
        [] who.prod = "romley"  -> named(at(12, 3), 33, who.junk)
        [] OTHER                -> named(bdata % 64, 0, bdata = \hFF)

(* decode_mem_supermicro.                                                      *)
DimmSupermicro(e) ==
  IF e.d2 = \hFF
  THEN IF e.d3 = \hFF THEN <<"DIMM_unknown">>
       ELSE <<"P_DIMM", IF e.d3 > \h80 THEN 2 ELSE 1, Field(e.d3, 4, 3), (e.d3 % 8) + 1>>
  ELSE LET pair == IF e.d2 < 16 THEN 0 ELSE (e.d2 \div 16) - 1
           dimm == (e.d2 % 16) - 9
       IN  IF dimm < 0 THEN <<"DIMM_unknown">> ELSE <<"P_DIMM", (e.d3 % 16) + 1, pair, dimm>>

DimmDefault(e) ==
  LET bdata == IF Bit(e.d1, 5) \/ e.d2 = \hFF THEN e.d3 ELSE e.d2
  IN  IF bdata = \hFF THEN <<"DIMM_unknown">> ELSE <<"DIMM()", bdata % 64>>

MemEvent(e, who) ==
  Shown(IF Off(e) = 0 THEN MIN ELSE MAJ,
        <<"mem", IF Off(e) \in {0, 1, 2, 3, 4, 5, 7, 8, 9, 10} THEN Off(e) ELSE 6>>
          \o (CASE who.vendor = INTEL      -> DimmIntel(e, who)
                [] who.vendor = SUPERMICRO -> DimmSupermicro(e)
                [] OTHER                   -> DimmDefault(e)))

FwEvent(e) ==
  CASE Off(e) = 0 -> Shown(MAJ, <<"fwerrs", IF e.d2 > 14 THEN 14 ELSE e.d2>>)
    [] Off(e) = 1 -> Shown(MAJ, <<"hang", IF e.d2 > 26 THEN 26 ELSE e.d2>>)
    [] Off(e) = 2 -> Shown(INF, <<"prog", IF e.d2 > 26 THEN 26 ELSE e.d2>>)
    [] OTHER      -> IF MiscDesc(e).msg = <<"-">> THEN Shown(MAJ, <<"POST Event">>) ELSE MiscDesc(e)

CritEvent(e) ==
  Shown(CRT, <<"crit_int", Capped(Off(e), 10)>> \o (IF e.trig \in {\h70, \h71} THEN <<e.d2, e.d3>> ELSE << >>))

BatteryEvent(e, who) ==
  LET i == Capped(Off(e), 3)
  IN  CASE IsThreshold(e, who) -> MiscDesc(e)
        [] Deasserts(e) -> Shown(INF, <<"batt_clr", i>>)
        [] OTHER        -> Shown(<<MIN, MAJ, INF>>[i + 1], <<"batt", i>>)

(* The Node Manager.  A trigger below 0x72 counts as it is.                    *)
NodeManager(e) ==
  LET t == e.trig % 128
      i == Capped(IF t >= \h72 THEN t - \h72 ELSE t, 4)
      ok == <<IF Deasserts(e) THEN "nm ok" ELSE "nm", i>>
  IN  CASE i = 0 -> Shown(MIN, ok \o (IF Bit(e.d1, 3) THEN <<4>> ELSE <<e.d1 % 4>>))
        [] i = 1 -> Shown(IF Capped(e.d2 % 16, 6) = 5 THEN INF ELSE MAJ, ok \o <<Capped(e.d2 % 16, 6)>>)
        [] i = 3 -> Shown(MAJ, ok \o <<Capped(e.d2, 6)>>)
        [] OTHER -> Shown(MIN, ok)

FanEvent(e) ==
  CASE e.trig \in {\h0B, \h8B} -> Redund(e, "_")
    [] e.trig \in {\h08, \h88} -> PresenceOf(e)
    [] e.trig = \h06           -> Shown(MIN, <<"Performance Lags">>)
    [] e.trig = \h86           -> Shown(INF, <<"Performance OK">>)
    [] OTHER                   -> MiscDesc(e)

(* Types shown by the offset alone: their tables' lengths, and what is worse.  *)
ByOffset(e, table, count, worse) ==
  LET i == Capped(Off(e), count)
  IN  Shown(IF \E w \in worse : w[1] = i THEN (CHOOSE w \in worse : w[1] = i)[2] ELSE INF, <<table, i>>)

StandardEvent(e, who) ==
  CASE e.type = \h20 -> OsStop(e)
    [] e.type = \h01 -> TempEvent(e, who)
    [] e.type = \h07 -> CpuEvent(e)
    [] e.type = \h08 -> IF e.trig \in {\h0B, \h8B} THEN Redund(e, "-") ELSE MiscDesc(e)
    [] e.type = \h09 -> IF e.trig \in {\h0B, \h8B} THEN Redund(e, "-") ELSE PwrUnit(e)
    [] e.type = \h0C -> MemEvent(e, who)
    [] e.type = \h0F -> FwEvent(e)
    [] e.type = \h13 -> CritEvent(e)
    [] e.type = \h15 -> IF e.trig \in {\h08, \h88} THEN PresenceOf(e) ELSE Shown(INF, <<"-">>)
    [] e.type = \h16 -> ByOffset(e, "avail", 9, {<<i, MIN>> : i \in 4..8})
    [] e.type = \h1D -> ByOffset(e, "boot_init", 8, {})
    [] e.type = \h1F -> ByOffset(e, "osboot", 10, {})
    [] e.type = \h21 -> ByOffset(e, "slot", 9, {<<0, MAJ>>, <<8, MIN>>})
    [] e.type = \h22 -> ByOffset(e, "acpip", 15, {})
    [] e.type = \h28 -> IF Off(e) = 4 THEN Shown(INF, <<"Sensor fault", e.d2>>) ELSE Shown(INF, <<"Other FW HAL error">>)
    [] e.type = \h29 -> BatteryEvent(e, who)
    [] e.type = \h2A -> Shown(INF, <<"audit", Capped(Off(e), 2), e.d2>>)
    [] e.type = \hDC -> NodeManager(e)
    [] e.type = \h04 -> FanEvent(e)
    [] OTHER         -> MiscDesc(e)

(* Records of other types than 2 are shown as what they hold; those that no    *)
(* rule is about, too, but as an error.                                        *)
OemRecord(e) == Shown(INF, <<"record", e.rec, e.gen, e.type, e.num, e.trig, e.d1, e.d2, e.d3>>)


-----------------------------------------------------------------------------
(* The vendors' decoders, which come first.                                    *)

IntelEvent(e) ==
  CASE ~(e.rec = 2 \/ (e.rec = 0 /\ e.num = 10 /\ e.trig = 3)) -> NotKnown
    [] e.type = 0 /\ e.num = 10 /\ e.trig = 3 -> Shown(CRT, <<"BMC wd restart">>)
    [] e.type = \h13 /\ e.trig = \h70 ->
         Shown(MAJ, <<"PCIe", IF e.d1 \in \hA0..\hAD THEN e.d1 ELSE 0, e.d2, e.d3>>)
    [] e.type = \h13 /\ e.trig = \h71 ->
         Shown(MIN, <<"PCIe Warn", IF e.d1 \in \hA0..\hA6 THEN e.d1 ELSE 0, e.d2, e.d3>>)
    [] e.type = \h2B /\ e.trig = \h70 ->
         Shown(IF e.d1 = 2 THEN MIN ELSE INF, <<"Update", IF e.d1 \in 0..2 THEN e.d1 ELSE 3>>)
    [] OTHER -> NotKnown

SupermicroEvent(e) ==
  CASE e.rec # 2 -> NotKnown
    [] e.type = \hC0 /\ Off(e) = 2 ->
         IF Deasserts(e) THEN Shown(INF, <<"CpuTemp Overheat OK">>) ELSE Shown(MAJ, <<"CpuTemp Overheat">>)
    [] e.type = \hC0 -> Shown(MIN, <<"CpuTemp Event", Off(e)>>)
    [] e.type = \hC2 ->
         IF Off(e) = 0 THEN IF e.d2 = \h1C THEN Shown(CRT, <<"CPLD CATERR Asserted">>)
                            ELSE Shown(MIN, <<"CPLD Event Asserted">>)
         ELSE Shown(MIN, <<"CPLD Event">>)
    [] e.type = \hD0 -> Shown(CRT, <<"BMC reset", IF e.d1 = \h80 /\ e.d3 = \hFF /\ e.d2 \in 0..2 THEN e.d2 ELSE 3>>)
    [] e.type = \hC5 -> Shown(MAJ, <<"Storage/DriveSlot fault">>)
    [] e.type = \hC8 -> Shown(MAJ, <<"AC Power On">>)
    [] OTHER -> NotKnown

(* All as information; asserted means that data 1, or the trigger, says so.    *)
KontronEvent(e) ==
  CASE e.rec = \hC1 -> OemRecord(e)
    [] e.rec # 2    -> NotKnown
    [] e.type = \hCF /\ e.trig = 3 ->
         Shown(INF, CASE e.d1 = 1 -> <<"reset asserted">>
                      [] e.d1 = \hA1 -> <<"reset", Capped(e.d2, 7), Capped(e.d3, 12)>>
                      [] OTHER -> <<"">>)
    [] e.type = \h12 -> Shown(INF, <<"asserted", IF e.trig = \h6F THEN 1 ELSE 0>>)
    [] e.type \in {\h24, \h70, \h71} -> Shown(INF, <<"asserted", e.d1>>)
    [] e.type = \h2B -> Shown(INF, IF e.d1 < \h80 THEN <<"">> ELSE <<"changed", IF e.d2 \in 1..3 THEN e.d2 ELSE 0>>)
    [] OTHER -> NotKnown

(* The S99Q only.                                                              *)
QuantaEvent(e, who) ==
  IF who.prod = "S99Q" /\ e.rec = 2 /\ e.type = \hC0 /\ e.d1 = 2 THEN Shown(MAJ, <<"Overheat">>) ELSE NotKnown

(* get_dell_evt_desc looks at the trigger without its direction, and not at    *)
(* the type of the record.                                                     *)
HasData2(e) == Bit(e.d1, 7)
HasData3(e) == Bit(e.d1, 5)

DellCpu(e) ==
  LET bits == {k \in 0..7 : Bit(e.d2, k)}
  IN  CASE ~HasData2(e) -> NotKnown
        [] bits # {} -> Shown(CRT, <<IF Off(e) = 6 /\ e.num = 10 THEN "FSB" ELSE "CPU", Min(bits) + 1>>
                                     \o (IF Off(e) = 6 /\ e.num = 10 THEN << >> ELSE <<e.d3>>))
        [] Off(e) \in {0, 6} -> Shown(CRT, <<"CPU Err", Off(e)>>)
        [] OTHER -> NotKnown

(* The first digit of a DIMM's number is shown.  With each DIMM that follows,  *)
(* the comma is put on the next character of the first one's name.             *)
DellDimms(e, who) ==
  LET first(n) == CASE n < 10 -> n [] n < 100 -> n \div 10 [] OTHER -> n \div 100
      base  == IF HasData2(e) /\ e.d2 % 16 # 15 /\ who.prod # "51" THEN (e.d2 % 16) * 8 ELSE 0
      kind  == e.d2 \div 16
      per   == CASE kind = 9 -> 6 [] kind = 10 -> 8 [] kind = 11 -> 9 [] kind = 12 -> 12
                 [] kind = 13 -> 24 [] kind = 14 -> 3 [] OTHER -> 4
      nodes == kind \in 8..14
      name(i) == IF nodes THEN 10 * ((base + i) \div per) + first(((base + i) % per) + 1)
                 ELSE first(i + base + 1)
      bits  == SelectSeq(<<0, 1, 2, 3, 4, 5, 6, 7>>, LAMBDA k : Bit(e.d3, k))
      names == [k \in 1..Len(bits) |-> name(bits[k])]
  IN  CASE who.prod = "51" -> <<e.d3>>
        [] nodes /\ Len(bits) > 7  -> <<1000 + (names[1] % 10)>> \o Tail(names)
        [] ~nodes /\ Len(bits) > 6 -> <<1000>> \o Tail(names)
        [] OTHER -> names

DellMemory(e, who) ==
  LET redund == e.type = \h0C /\ e.trig % 128 = \h0B
      both   == HasData2(e) /\ HasData3(e)
      what   == CASE ~HasData2(e) /\ ~HasData3(e) -> IF e.type = \h10 /\ Off(e) = 3 THEN <<INF, 1>> ELSE <<MAJ, 0>>
                  [] redund -> IF Off(e) = 1 THEN <<MAJ, 2>> ELSE <<MAJ, 0>>
                  [] e.type = \h0C -> (CASE Off(e) = 0 -> <<MAJ, 3>> [] Off(e) = 1 -> <<CRT, 4>> [] OTHER -> <<MAJ, 0>>)
                  [] OTHER -> IF Off(e) = 0 THEN <<INF, 5>> ELSE <<MAJ, 0>>
      card   == IF HasData2(e) /\ e.d2 < \h80 THEN e.d2 \div 16 ELSE 15
      bank   == IF HasData2(e) /\ e.d2 % 16 # 15 /\ who.prod = "51" THEN e.d2 % 16 ELSE 15
      mode   == SelectSeq(<<2, 1, 0>>, LAMBDA k : Bit(e.d2, k))
  IN  CASE redund /\ e.d1 % 4 = 0 -> IF mode = << >> THEN NotKnown ELSE Shown(INF, <<"Memory mode", mode[1]>>)
        [] e.type = \h0C /\ ~redund /\ both /\ Off(e) = 0 /\ e.num = \h1C -> Shown(MAJ, <<"CRC Error on", e.d2 % 16, e.d3>>)
        [] what[2] = 0 /\ card = 15 /\ bank = 15 /\ ~HasData3(e) -> NotKnown
        [] OTHER -> Shown(what[1], <<"memory", what[2], card, bank>>
                                     \o (IF HasData3(e) THEN DellDimms(e, who) ELSE << >>))

(* When no PCI address was put together, tmpdesc was never set.                *)
DellVirtualMac(e, who) ==
  LET text == IF Off(e) \in 1..3 THEN Off(e) ELSE 0
      pci  == IF Off(e) = 1 /\ HasData2(e) /\ HasData3(e) THEN <<e.d2, e.d3>> ELSE IF who.junk THEN <<-1>> ELSE << >>
  IN  IF e.num # \h25 \/ (text = 0 /\ pci = << >>) THEN NotKnown ELSE Shown(MAJ, <<"Virtual Mac", text>> \o pci)

DellBus(e) ==
  CASE e.num = \h29 -> IF Off(e) = 2 /\ HasData2(e) /\ HasData3(e) THEN Shown(MAJ, <<"Partner", e.d2, e.d3>>) ELSE NotKnown
    [] Off(e) = 2   -> Shown(CRT, <<"IO channel Check NMI">>)
    [] OTHER        -> Shown(CRT, <<"PCI", IF Off(e) \in {0, 1, 4, 5} THEN Off(e) ELSE 15,
                                    IF e.d3 >= \h80 THEN 0 ELSE e.d2, e.d3>>)

DellOther(e) ==
  LET both == HasData2(e) /\ HasData3(e)
  IN  CASE e.type = \h20 /\ Off(e) = 0 /\ both /\ e.d3 \in {1, 2, 3, 4, 255} -> Shown(MAJ, <<"TXT", e.d3>>)
        [] e.type = \h23 /\ e.d1 = \hC1 /\ e.d2 = 4 -> Shown(CRT, <<"Hard Reset">>)
        [] e.type = \h2B /\ Off(e) = 2 /\ both /\ e.d2 = 2 /\ e.d3 \in {0, 1} -> Shown(MAJ, <<"Version mismatch", e.d3>>)
        [] e.type = \h0F /\ Off(e) = 15 /\ HasData2(e) /\ e.d2 \in (\h80..\h8D) \cup (\hC0..\hC4) \cup {\hFE} ->
             Shown(CRT, <<"POST", e.d2>>)
        [] OTHER -> NotKnown

DellEvent(e, who) ==
  CASE e.trig % 128 \notin {\h0B, \h6F, \h07} -> NotKnown
    [] e.type = \h07 -> DellCpu(e)
    [] e.type \in {\h0C, \h10} -> DellMemory(e, who)
    [] e.type = \hC1 -> DellVirtualMac(e, who)
    [] e.type \in {\h13, \hC2, \hC3} -> DellBus(e)
    [] OTHER -> DellOther(e)

(* read_sel_fujitsu: the BMC itself has a text for a record, and how severe it *)
(* is in a byte, who.text (-1: it has none).  The byte is moved by three bits; *)
(* of the names that come of it, find_msg_sev knows the first three.           *)
EventBytes(e) == <<e.type, e.num, e.trig, e.d1, e.d2, e.d3>>
FujitsuText(e, who) ==
  LET level == who.text \div 8
  IN  Shown(Named(<<<<1, MIN>>, <<2, MAJ>>, <<9, MIN>>, <<10, MAJ>>>>, level, INF),
            <<"text", IF level \in 4..7 THEN 4 ELSE IF level \in 12..15 THEN 12 ELSE level>> \o EventBytes(e))

(* Without one, which a first failure says for good, some are decoded.         *)
FujitsuEvent(e, who) ==
  LET raw == <<"raw", e.trig, e.d1, e.d2, e.d3>>
      name(rows) == LET row == Named(rows, e.d1, << >>) IN IF row = << >> THEN raw ELSE row
  IN  CASE who.text >= 0 -> FujitsuText(e, who)
        [] e.rec = \hC1 ->
             IF e.gen # \h2880 THEN NotKnown
             ELSE Shown(INF, <<Named(<<<<9, "login">>, <<10, "logout">>>>, e.type, "iRMC S2 Event")>> \o EventBytes(e))
        [] e.rec # 2      -> NotKnown
        [] e.type = \hC8 ->
             Shown(INF, name(<<<<\h29, <<"Telnet login", e.d3>>>>, <<\h2A, <<"Telnet logout", e.d3>>>>,
                              <<\h21, <<"Browser login", e.d3>>>>, <<\h22, <<"Browser logout", e.d3>>>>,
                              <<\h23, <<"Browser auto-logout", e.d3>>>>>>))
        [] e.type = \hCA -> Shown(INF, name(<<<<\h26, <<"notification failed">>>>, <<\hA6, <<"DNS failed">>>>>>))
        [] e.type = \hE1 -> Shown(MAJ, name(<<<<15, <<"MC access degraded">>>>>>))
        [] e.type = \hEC -> Shown(INF, name(<<<<\hA0, <<"flash version", e.d2 % 16, e.d3>>>>>>))
        [] e.type = \hEE -> Shown(INF, IF e.trig = 10 THEN name(<<<<\h80, <<"Automatic restart">>>>>>) ELSE raw)
        [] OTHER -> NotKnown

(* oem_ibm_events: type, number, trigger, data 2 and 3, severity.              *)
IbmEvents ==
  <<<<\hC1, ANY, ANY, 1, 0, MIN>>, <<\hC1, ANY, ANY, 2, 1, INF>>, <<\hC1, ANY, ANY, 2, 4, INF>>,
    <<\hC1, ANY, ANY, 2, 5, INF>>, <<\hC1, ANY, ANY, 3, 0, INF>>, <<\hC1, ANY, ANY, 3, 1, INF>>,
    <<\hC1, ANY, ANY, 3, 2, INF>>, <<\hC1, ANY, ANY, 3, 3, INF>>, <<\hC1, ANY, ANY, 3, \h80, INF>>,
    <<\hC1, ANY, ANY, 3, \h81, INF>>, <<\hC1, ANY, ANY, 3, \h82, INF>>, <<\hC1, ANY, ANY, 3, \h83, INF>>,
    <<\hE0, 0, 0, ANY, ANY, INF>>, <<\hE0, 0, 1, ANY, ANY, MAJ>>, <<\hE0, 0, 2, ANY, ANY, MAJ>>,
    <<\hE0, 0, 3, ANY, ANY, MAJ>>>>

LenovoEvent(e) ==
  LET this == <<e.type, e.num, e.trig, e.d2, e.d3>>
      row  == SelectInSeq(IbmEvents, LAMBDA r : \A c \in 1..5 : r[c] \in {ANY, this[c]})
  IN  IF e.rec # 2 \/ row = 0 THEN NotKnown ELSE Shown(IbmEvents[row][6], <<"IBM_type", row>>)

(* The BMC has a text for each record, without a severity.                     *)
NewisysEvent(e, who) == IF who.text < 0 THEN NotKnown ELSE Shown(INF, <<"text">> \o EventBytes(e))

VendorEvent(e, who) ==
  CASE who.vendor = INTEL      -> IntelEvent(e)
    [] who.vendor = SUPERMICRO -> SupermicroEvent(e)
    [] who.vendor = KONTRON    -> KontronEvent(e)
    [] who.vendor = "quanta"   -> QuantaEvent(e, who)
    [] who.vendor = "dell"     -> DellEvent(e, who)
    [] who.vendor = "fujitsu"  -> FujitsuEvent(e, who)
    [] who.vendor = "lenovo"   -> LenovoEvent(e)
    [] who.vendor = "newisys"  -> NewisysEvent(e, who)
    [] OTHER                   -> NotKnown

(* decode_sel_entry.  One vendor's generator is broken, and set right here.    *)
Decode(rec, who) ==
  LET e == IF who.vendor = "peppercon" /\ rec.gen = \h40 THEN [rec EXCEPT !.gen = BMC] ELSE rec
  IN  CASE VendorEvent(e, who) # NotKnown -> VendorEvent(e, who)
        [] e.rec = 2 -> StandardEvent(e, who)
        [] OTHER     -> OemRecord(e)

(* get_sensor_tag: with -e, the first record of that number and owner in the   *)
(* cache; without a cache, the first record of all; with a sensor file (2),    *)
(* none is ever shown.                                                         *)
SensorTag(e, descs, cache) ==
  LET own  == IF e.gen \in {SMS, SMI} THEN BMC ELSE e.gen
      sdrs == SelectSeq(conf[Sdrs], LAMBDA s : s.rec \in {"full", "compact"} /\ s.own = own /\ s.num = e.num)
  IN  CASE descs # 1 -> << >>
        [] cache     -> IF sdrs = << >> THEN << >> ELSE <<sdrs[1]>>
        [] OTHER     -> IF conf[Sdrs] = << >> THEN << >> ELSE <<conf[Sdrs][1]>>

-----------------------------------------------------------------------------
(* What the programs do with it.                                               *)

DecodeAll(recs, who) == [k \in 1..Len(recs) |-> Decode(recs[k], who)]

(* find_msg_sev: the lowest severity named anywhere in the line.               *)
FindMsgSev(s) == IF s.msg = <<"panic", 73, 78, 70>> THEN INF ELSE s.sev

(* ReadSEL, option -s, and without -a only what crashes leave behind.          *)
Lists(o, e) ==
  \/ (o.all \/ e.type = \h20) /\ FindMsgSev(Decode(e, o.who)) >= o.least
  \/ ~o.all /\ e.type # \h20 /\ e.rec >= \hE0
ListedEvents(o) == SelectSeq(conf[EventLog], LAMBDA e : Lists(o, e))

(* What sel -r, or sel writeraw, wrote to a file.  A line cut short is filled  *)
(* up with the rest of the line before it, which is still in the buffer.       *)
(* From another node, a line says first that it is connected to; it begins     *)
(* with a hexadecimal digit.                                                   *)
Connecting == Record(\hC0, \h0D0E, \h0C, 0, \h0C, 0, 0, 0)
FileRecords(o) ==
  LET log == conf[EventLog]
      n   == Len(log)
      cut == [log[n] EXCEPT !.d1 = log[n - 1].d1, !.d2 = log[n - 1].d2, !.d3 = log[n - 1].d3]
  IN  CASE o.cut /\ n > 1 /\ o.ascii -> SubSeq(log, 1, n - 1) \o <<cut>>
        [] o.cut /\ n > 0 /\ ~o.ascii -> SubSeq(log, 1, n - 1)
        [] o.ascii /\ o.remote -> <<Connecting>> \o log
        [] OTHER -> log

(* get_sensdesc: among the first three lines of that number.                   *)
SensDescType(gen, num) ==
  LET lines == SelectSeq(conf[SensorFile], LAMBDA l : l.num = num)
      own   == SelectSeq(SubSeq(lines, 1, IF Len(lines) < 3 THEN Len(lines) ELSE 3), LAMBDA l : l.sa = gen)
  IN  IF own = << >> THEN {} ELSE {own[1].type}

(* entity2sensor_type: the table has no 42, and from there on is one behind.   *)
EntityType ==
  [ent \in 0..255 |->
     CASE ent = 3 -> \h07 [] ent \in {5, 26} -> \h0D [] ent \in {10, 20} -> \h08 [] ent \in {17, 18, 25, 43} -> \h15
       [] ent \in {19, 21} -> \h09 [] ent = 29 -> \h04 [] ent = 30 -> \h0A [] ent = 31 -> \h1B
       [] ent \in {32, 42} -> \h0C [] ent = 33 -> \h28 [] ent = 35 -> \h1F [] ent = 40 -> \h29
       [] ent = 45 -> \h0F [] OTHER -> \h12]

(* A trap: the event's generator, severity, sensor number, entity and data.    *)
TrapOf(e, entity) ==
  [gen |-> e.gen, sev |-> IF Deasserts(e) THEN 4 ELSE 16, num |-> e.num, entity |-> entity,
   d1 |-> e.d1, d2 |-> e.d2, d3 |-> e.d3]

(* The record that events -p makes of a trap, which says neither its type nor  *)
(* its trigger.                                                                *)
RecordOf(t) ==
  LET type == CASE SensDescType(t.gen, t.num) # {}        -> CHOOSE ty \in SensDescType(t.gen, t.num) : TRUE
                [] SensorType(t.num) \in DOMAIN conf      -> conf[SensorType(t.num)]
                [] OTHER                                  -> EntityType[t.entity]
      trig == CASE type = \h12   -> \h6F
                [] type = \h09   -> \h0B
                [] type \in 1..4 -> IF t.sev = 4 THEN \h81 ELSE 1
                [] OTHER         -> \h6F
  IN  Record(2, t.gen, type, t.num, trig, t.d1, t.d2, t.d3)

(* new_event: byte 1 of the input, which is 0, is not sent.                    *)
EventsStarts(o) ==
  /\ Starts(o, If(o.op = "new", <<Cmd("new_event", SentEvents, Append(conf[SentEvents], conf[EventLog][1]), "count")>>))
  /\ code' = "runs"

(* A record of a type it does not know is shown, too, and is an error for the  *)
(* one that was given; a trap is shown, and is one if the sensor's type was    *)
(* neither in the file nor had from the BMC.                                   *)
EventsEnds ==
  /\ running /\ prog.do = "events"
  /\ todo = << >>
  /\ LET e == conf[EventLog][1]
     IN  Return(CASE prog.op = "one" /\ e.rec \notin {2} \cup \hC0..\hFF /\ VendorEvent(e, prog.who) = NotKnown -> "error"
                  [] prog.op = "pet" /\ SensDescType(e.gen, e.num) = {} /\ SensorType(e.num) \notin DOMAIN conf -> "error"
                  [] OTHER -> "ok")

-----------------------------------------------------------------------------
(* Properties.                                                                 *)

Decoded == ~running /\ prog.do = "events"
Logged  == {conf[EventLog][k] : k \in 1..Len(conf[EventLog])}
Deasserted(e) == [e EXCEPT !.trig = @ + \h80]
Unnamed == {<<"-">>, <<"_">>}

(* Events whose direction is looked at.  Presence has two states only, and two *)
(* states of redundancy are none to alarm, nor is their end.                   *)
Directed(e, who) ==
  /\ e.rec = 2 /\ ~Deasserts(e) /\ who.vendor \notin {KONTRON, "dell"} /\ who.text < 0
  /\ \/ e.type \in {1, 2, 3, 4, \h29} /\ e.trig = 1
     \/ e.type \in {1, \h29} /\ e.trig \in {3, 5, 7, \h6F}
     \/ e.type \in {5, 8, 9, \h0D} /\ e.trig = \h6F
     \/ e.type \in {4, 8, 9} /\ e.trig = \h0B /\ Off(e) \notin {4, 7}
     \/ e.type \in {4, \h15} /\ e.trig = 8 /\ Off(e) <= 1
     \/ e.type = 4 /\ e.trig = 6
     \/ e.type = 7 /\ e.trig \in {3, 5, 7} /\ e.num # \h80
     \/ e.type = \hF3 /\ e.trig = 3
     \/ e.type = \hC0 /\ who.vendor = SUPERMICRO /\ Off(e) = 2

\* A fault and its end are told apart, if they have names, and at most one of
\* them is an alarm (ievents.c, decode_sel_entry).
FaultsAndClears ==
  Decoded => \A e \in Logged :
    Directed(e, prog.who) /\ Deasserted(e) \in Logged =>
      LET a == Decode(e, prog.who)
          b == Decode(Deasserted(e), prog.who)
      IN  /\ a.msg # b.msg \/ a.msg \in Unnamed
          /\ INF \in {a.sev, b.sev}

\* A threshold that is crossed for the worse is the more of an alarm the
\* further out it is; for the better, it is none (ievents.c, sens_desc).
Directions ==
  Decoded => \A e \in Logged :
    e.rec = 2 /\ e.type \in 1..4 /\ e.trig \in {1, \h81} /\ e.gen = BMC /\ Off(e) <= 11
      /\ prog.who.vendor # "dell" /\ prog.who.text < 0 =>
        LET low    == Off(e) <= 5
            going  == (Off(e) % 2 = 0) # Deasserts(e)  \* down
            level  == ((Off(e) % 6) \div 2) + 1
        IN  Decode(e, prog.who).sev = IF low = going THEN level ELSE INF

(* The type of the sensor can be found out: by one of three lines in the file, *)
(* or, if it is not there, from the BMC.                                       *)
TypeIsKnown(e) ==
  LET lines == {k \in 1..Len(conf[SensorFile]) : conf[SensorFile][k].num = e.num}
      own   == {k \in lines : conf[SensorFile][k].sa = e.gen}
  IN  \/ own # {} /\ Cardinality(lines) <= 3 /\ \A k \in own : conf[SensorFile][k].type = e.type
      \/ own = {} /\ SensorType(e.num) \in DOMAIN conf /\ conf[SensorType(e.num)] = e.type

\* A trap, which has neither the type nor the trigger, is shown as the event of
\* which it was sent: a threshold's, a power unit's redundancy, or an assertion
\* of a sensor's own kind (ievents.c, i_events -p).
TrapIsTheEvent ==
  Decoded /\ prog.op = "pet" =>
    LET e == conf[EventLog][1]
    IN  e.rec = 2 /\ TypeIsKnown(e)
        /\ (e.trig = CASE e.type = \h09 -> \h0B
                       [] e.type \in 1..4 -> IF Deasserts(e) THEN \h81 ELSE 1
                       [] OTHER -> \h6F) =>
          Decode(RecordOf(TrapOf(e, prog.entity)), prog.who) = Decode(e, prog.who)

\* What sel listed raw is shown by events in its place: all the records that
\* were written whole, after each other (ievents.c, decode_raw_sel).
FileIsTheLog ==
  Decoded /\ prog.op = "file" =>
    LET shown == DecodeAll(FileRecords(prog), prog.who)
        whole == DecodeAll(SubSeq(conf[EventLog], 1, Len(conf[EventLog]) - (IF prog.cut THEN 1 ELSE 0)), prog.who)
    IN  \E k \in 0..(Len(shown) - Len(whole)) : SubSeq(shown, k + 1, k + Len(whole)) = whole

\* An event that is critical is listed whatever is left out, unless the system
\* that crashed said otherwise; without -a, as far as it is a crash
\* (isel.c, ReadSEL).  And a name shown is that of the event's sensor
\* (ievents.c, get_sensor_tag), if the SDRs could be read.
CriticalIsListed ==
  Decoded /\ prog.op = "list" =>
    LET listed == ListedEvents(prog)
        shown  == {listed[k] : k \in 1..Len(listed)}
    IN  \A e \in Logged :
          LET s   == Decode(e, prog.who)
              tag == SensorTag(e, prog.descs, TRUE)
          IN  /\ \/ s.sev = CRT /\ s.msg # <<"panic", 73, 78, 70>> /\ (prog.all \/ e.type = \h20)
                 \/ ~prog.all /\ e.rec >= \hF0 /\ e.type # \h20
                 => e \in shown
              /\ tag # << >> => tag[1].num = e.num /\ e.gen \in {tag[1].own, SMI, SMS}

(* Where the vendor's BMC says that a DIMM is: socket, channel and slot of a   *)
(* board that has them, or a byte.                                             *)
Place(e, who) ==
  CASE who.prod \in {"thurley", "romley"} -> <<Field(e.d3, 5, 3), Field(e.d3, 3, 2), Field(e.d3, 0, 3)>>
    [] who.vendor = SUPERMICRO \/ Bit(e.d1, 5) -> <<e.d2, e.d3, 0>>
    [] OTHER -> <<e.d2, 0, 0>>

InPlace(e, who) ==
  CASE who.prod = "thurley" -> Field(e.d3, 3, 2) < 3 /\ Field(e.d3, 0, 3) < 2 /\ Field(e.d3, 5, 3) < 2
    [] who.prod = "romley"  -> Field(e.d3, 0, 3) < 3 /\ Field(e.d3, 5, 3) < 2
    [] who.vendor = SUPERMICRO -> e.d2 >= 16 /\ e.d2 < \hFF /\ e.d2 % 16 >= 9 /\ e.d3 < 16
    [] who.vendor = "dell" -> /\ who.prod # "51" /\ HasData2(e) /\ HasData3(e) /\ e.d2 = \hF0
                              /\ Cardinality({k \in 0..7 : Bit(e.d3, k)}) \in 1..6
    [] OTHER -> /\ e.d2 < 64 /\ who.prod # "mini"
                /\ (IF who.vendor = INTEL THEN e.d3 = \hFF ELSE ~Bit(e.d1, 5))

\* Two memory errors of the same kind are shown the same only if they are of the
\* same place, on boards whose numbering is known (oem_intel.c,
\* decode_mem_intel; oem_supermicro.c; oem_dell.c, get_dell_evt_desc).
DimmsAreNamed ==
  Decoded => \A e, f \in {x \in Logged : x.rec = 2 /\ x.type = \h0C /\ x.trig = \h6F /\ InPlace(x, prog.who)} :
    Decode(e, prog.who) = Decode(f, prog.who) => Place(e, prog.who) = Place(f, prog.who) \/ Off(e) # Off(f)

\* events -n that returns 0 has sent the event it was given (ievents.c,
\* new_event).
EventIsSent ==
  Decoded /\ prog.op = "new" /\ code = "ok" => conf[SentEvents] = Append(was[SentEvents], was[EventLog][1])

\* What is shown of the BMC's events is what they say.
EventsAsShown ==
  /\ FaultsAndClears /\ Directions /\ TrapIsTheEvent /\ FileIsTheLog /\ CriticalIsListed
  /\ DimmsAreNamed /\ EventIsSent
=============================================================================
