----------------------------- MODULE SensorConfig -----------------------------
(* sensor (isensor.c): thresholds set from raw values or from readings,        *)
(* rearmed and saved as a command line, and what is shown of a sensor.         *)
(*                                                                             *)
(* Thresholds are six raw bytes: lower non-critical, critical, unrecoverable,  *)
(* then the upper ones.  Readings are in hundredths of the sensor's unit.      *)
EXTENDS BmcConfig
LOCAL INSTANCE SequencesExt
LOCAL INSTANCE FiniteSetsExt

Sdrs            == <<"sdrs">>           \* the SDRs, in order: see Full
Thr(num)        == <<"thr", num>>       \* the BMC's sensor's thresholds
Readable(num)   == <<"thrmask", num>>   \* those that it has, in 1..6
Hyst(num)       == <<"hyst", num>>      \* its hysteresis, two bytes
SevtEnable(num) == <<"sevents", num>>   \* its events are enabled (0xC0)
Rearmed(num)    == <<"rearmed", num>>
SensorReading(own, num) == <<"reading", own, num>>  \* [cc, init, raw, bits, ones]
Savefile        == <<"savefile">>       \* the last line of thresholds.sh

BMC_SA == 32
NOBODY == 255       \* "-l" or "-h" that was not given
THR_EMPTY == 99900

(* A sensor's record.  Other records have two bytes where this has the owner   *)
(* and the number, and are not told apart.                                     *)
Full(own, num, m, b, r, fmt, thr, readable, settable) ==
  [rec |-> "full", own |-> own, num |-> num, m |-> m, b |-> b, r |-> r, fmt |-> fmt,
   thr |-> thr, readable |-> readable, settable |-> settable, type |-> 1, ev |-> 1,
   entity |-> 7, mask |-> 0, unit |-> "some"]

Modes == {"raw", "float", "raws", "floats"}
SensorReads ==
  {"deviceid", "sdr", "events", "thresholds", "hysteresis lost", "hysteresis refused"}

-----------------------------------------------------------------------------
(* Conversions.                                                                *)

Uchar(n)  == n % 256
Signed(x) == IF x >= 128 THEN x - 256 ELSE x

(* RawToFloat: all that is not unsigned is taken for two's complement.         *)
RawToFloat(raw, sdr) ==
  IF sdr.rec # "full" THEN 100 * raw
  ELSE ((IF sdr.fmt = "unsigned" THEN raw ELSE Signed(raw)) * sdr.m + sdr.b) * 10 ^ (2 + sdr.r)

MinRaw(sdr) == CASE sdr.fmt = "1s" -> -127 [] sdr.fmt = "2s" -> -128 [] OTHER -> 0
MaxRaw(sdr) == IF sdr.fmt = "unsigned" THEN 255 ELSE 127

(* FloatToRaw: a binary search, which takes values to grow with the raw ones,  *)
(* and one step of rounding.                                                   *)
FloatToRaw(val, sdr) ==
  LET V(x) == RawToFloat(Uchar(x), sdr)
      RECURSIVE Search(_, _, _)
      Search(raw, low, high) ==
        LET up   == V(raw) < val
            next == IF up THEN (high - raw) \div 2 + raw ELSE (raw - low) \div 2 + low
        IN  IF next = raw THEN raw
            ELSE Search(next, IF up THEN raw ELSE low, IF up THEN high ELSE raw)
      found   == Search(IF sdr.fmt = "unsigned" THEN 128 ELSE 0, MinRaw(sdr), MaxRaw(sdr))
      rounded ==
        CASE val > V(found) /\ found < MaxRaw(sdr)
             /\ 2 * (val - V(found)) >= V(found + 1) - V(found) -> found + 1
          [] val <= V(found) /\ found > MinRaw(sdr)
             /\ 2 * (val - V(found - 1)) < V(found) - V(found - 1) -> found - 1
          [] OTHER -> found
  IN  Uchar(IF sdr.fmt = "1s" /\ rounded < 0 THEN rounded - 1 ELSE rounded)

(* validate_thresholds: critical ones are compared to their neighbours.        *)
OutOfOrder(t, bits) ==
  \/ 2 \in bits /\ ((1 \in bits /\ t[2] > t[1]) \/ (3 \in bits /\ t[3] > t[2]))
  \/ 5 \in bits /\ ((4 \in bits /\ t[5] < t[4]) \/ (6 \in bits /\ t[6] < t[5]))

(* fill_thresholds: those not given are those of the SDR.                      *)
FillThresholds(t, sdr) ==
  [k \in 1..6 |-> IF t[k] # THR_EMPTY THEN t[k]
                  ELSE IF k \in sdr.settable THEN RawToFloat(sdr.thr[k], sdr) ELSE 0]

-----------------------------------------------------------------------------
(* Setting.                                                                    *)

(* What is known after the SDRs: raw -l and -h, and all six of -u.             *)
Unconverted(o) ==
  [lo |-> IF o.mode = "raw" THEN o.lo ELSE NOBODY, hi |-> IF o.mode = "raw" THEN o.hi ELSE NOBODY,
   thr |-> IF o.mode = "raws" THEN o.thr ELSE <<0, 0, 0, 0, 0, 0>>,
   given |-> IF o.mode = "floats" THEN o.thr ELSE << >>, found |-> FALSE, bad |-> FALSE]

(* A record that matches.  Zero means not given; of six, a half that is all    *)
(* zeros is not converted.                                                     *)
Convert(o, st, sdr) ==
  CASE st.bad \/ sdr.num # o.num \/ sdr.own # o.own -> st
    [] o.mode = "float" ->
         [st EXCEPT !.found = TRUE,
            !.lo = IF o.lo # 0 THEN FloatToRaw(o.lo, sdr) ELSE @,
            !.hi = IF o.hi # 0 THEN FloatToRaw(o.hi, sdr) ELSE @]
    [] o.mode = "floats" ->
         LET t == FillThresholds(st.given, sdr)
             Half(k) == IF k <= 3 THEN 1..3 ELSE 4..6
         IN  [st EXCEPT !.found = TRUE, !.given = t,
                !.thr = [k \in 1..6 |-> IF \E j \in Half(k) : t[j] # 0
                                        THEN FloatToRaw(t[k], sdr) ELSE @[k]],
                !.bad = sdr.readable = {} \/ OutOfOrder(t, sdr.readable)]
    [] OTHER -> [st EXCEPT !.found = TRUE]

Walk(o, sdrs) == FoldLeft(LAMBDA st, sdr : Convert(o, st, sdr), Unconverted(o), sdrs)

(* SetSensorThresholds: the first number is set, the worse ones follow.        *)
NewThresholds(old, readable, o, st) ==
  LET six  == o.mode \in {"raws", "floats"}
      from == [k \in 1..6 |-> IF six THEN st.thr[k]
                              ELSE IF k <= 3 THEN Uchar(st.lo - (k - 1)) ELSE Uchar(st.hi + (k - 4))]
      sets == IF six THEN readable
              ELSE readable \ ((IF st.lo = NOBODY THEN 1..3 ELSE {})
                               \cup (IF st.hi = NOBODY THEN 4..6 ELSE {}))
  IN  [k \in 1..6 |-> IF k \in sets THEN from[k] ELSE old[k]]

(* The line that sets the thresholds again: raw values, or all six of them.    *)
Line(o, st) ==
  [num |-> o.num, lo |-> st.lo, hi |-> st.hi,
   thr |-> IF o.mode \in {"raws", "floats"} THEN st.thr ELSE << >>]

SetThresholds(o, st, bad, junk) ==
  LET fn == "SetSensorThresholds"
  IN  IF bad = "thresholds" \/ Thr(o.num) \notin DOMAIN conf THEN <<Abort>>
      ELSE IF bad = "hysteresis lost" THEN <<Abort>>
      ELSE <<Cmd(fn, Hyst(o.num), IF bad = "hysteresis refused" THEN junk ELSE conf[Hyst(o.num)], "tolerate"),
             Cmd(fn, Thr(o.num), NewThresholds(conf[Thr(o.num)], conf[Readable(o.num)], o, st), "stop")>>
           \o If(o.save, <<Cmd(fn, Savefile, Line(o, st), "ignore")>>)

(* RearmSensor: its result is returned, if no thresholds are set.              *)
RearmSensor(o, bad) ==
  LET c == IF o.op = "set" THEN "ignore" ELSE "count"
  IN  If(bad # "events" /\ SevtEnable(o.rearm) \in DOMAIN conf /\ ~conf[SevtEnable(o.rearm)],
         <<Cmd("enable", SevtEnable(o.rearm), TRUE, "ignore")>>)
      \o <<Cmd("RearmSensor", Rearmed(o.rearm), TRUE, c)>>

(* Options first: six raw values must be in order whatever the sensor has.     *)
(* When an SDR cannot be read the walk ends (here, before the first), and what *)
(* is asked is done all the same; o.walked says that it has not ended so.      *)
Sensor(o, bad, junk) ==
  LET st == Walk(o, IF bad = "sdr" THEN << >> ELSE conf[Sdrs])
      ok == o.mode = "raws" => ~OutOfOrder(o.thr, 1..6)
  IN  IF bad = "deviceid" \/ (o.op = "set" /\ (~ok \/ st.bad)) THEN <<Abort>>
      ELSE If(bad = "sdr" /\ o.rearm = 0 /\ o.op = "show", <<Cmd("GetSDR", <<"none">>, "", "count")>>)
           \o If(o.rearm # 0, RearmSensor(o, bad))
           \o If(o.op = "set", SetThresholds(o, st, bad, junk))

-----------------------------------------------------------------------------
(* Showing.  A discrete sensor's states are the bits 0..14 of its reading.     *)

(* bitnum: the highest bit, from 1.                                            *)
Bitnum(bits) == IF bits = {} THEN 0 ELSE Max(bits) + 1

(* The name of the first bit listed that is on.                                *)
First(bits, names, none) ==
  LET on == SelectSeq(names, LAMBDA n : n[1] \in bits)
  IN  IF on = << >> THEN none ELSE on[1][2]

Either(bits, yes, no) == IF 0 \in bits THEN yes ELSE no

(* The name of the one bit that is on, of those that count.                    *)
Only(bits, count, names, many) ==
  LET on == {k \in bits : k < count}
  IN  CASE on = {} -> "OK*"
        [] Cardinality(on) = 1 /\ Max(on) < Len(names) -> names[Max(on) + 1]
        [] OTHER -> many

Nth(bits, names, more) ==
  LET b == Bitnum(bits) IN IF b = 0 THEN "OK" ELSE IF b <= Len(names) THEN names[b] ELSE more

(* decode_comp_generic: by event type.  Type 2 is shown as if it were 3.       *)
Generic(ev, bits) ==
  CASE ev \in {2, 3} -> Either(bits, "Asserted", "OK")
    [] ev = 4  -> Either(bits, "Predict", "OK")
    [] ev = 5  -> Either(bits, "Exceeded", "OK")
    [] ev = 7  -> Nth(bits, <<"Non-Critical", "Critical", "Non-Recoverable", "Non-Critical", "Critical",
                              "Non-Recoverable", "Monitor", "Informational">>, "OK*")
    [] ev = 8  -> Either(bits, "Present", "Absent")
    [] ev = 9  -> Either(bits, "Enabled", "Disabled")
    [] ev = 10 -> Only(bits, 7, <<"Running", "In_Test", "Power_Off", "Online", "Offline", "Off_Duty",
                                  "Degraded">>, "InstallError")
    [] ev = 11 -> Only(bits, 7, <<"Redundant", "RedunLost", "RedunDegr", "NonRedund_Sufficient",
                                  "NonRedund_Sufficient", "NonRedund_Insufficient">>, "RedunDegr")
    [] ev = 12 -> First(bits, <<<<2, "Off">>, <<1, "Sleeping">>, <<0, "Working">>>>, "On")
    [] OTHER   -> "_"

(* The number of the highest bit taken for the number of a status.             *)
StatusNames ==
  <<"Warn-lo", "Crit-lo", "BelowCrit", "Warn-hi", "Crit-hi", "AboveCrit", "Init", "OK*", "Present",
    "Absent", "Ready", "Faulty", "Asserted", "Deassert", "Predict">>

Slot(bits) == First(bits, <<<<1, "Present">>, <<0, "Absent">>>>, "Unused")

Redundancy(bits, count) ==
  LET on == {k \in bits : k < count}
  IN  CASE on = {} -> "Disabled" [] on = {0} -> "Redundant" [] on = {1} -> "RedunLost"
        [] on = {0, 1, 3} -> "AC_Lost" [] OTHER -> "RedunDegr"

(* decode_comp_reading: by sensor type.                                        *)
Thermal(ev, bits) ==
  CASE ev = 7 -> IF bits = {} THEN "OK*" ELSE IF Bitnum(bits) < 3 THEN "OK" ELSE "Exceeded"
    [] ev \in {3, 5} -> Generic(ev, bits)
    [] OTHER  -> Either(bits, "OK", "Crit-hi")

Fan(ev, bits) ==
  CASE ev = 11 -> Redundancy(bits, 6)
    [] ev = 8  -> Slot(bits)
    [] ev = 3  -> IF bits = {} THEN "OK" ELSE "Faulty"
    [] OTHER   -> IF bits \cap 0..3 = {} THEN "Faulty" ELSE Either(bits, "Ready", "Unknown")

Processor(ev, bits) ==
  IF ev = 3 THEN IF Bitnum(bits) <= 1 THEN "OK" ELSE "Asserted"
  ELSE Nth(bits, <<"IERR", "ThermalTrip", "FRB1Failure", "FRB2Failure", "FRB3Failure", "ConfigError",
                   "SMBIOSError", "ProcPresent", "ProcDisabled", "TermPresent">>, "Unknown")

PowerSupply(bits) ==
  IF bits \cap 0..6 = {} THEN "Absent"
  ELSE First(bits, <<<<6, "Config_Err">>, <<3, "AC_Lost">>, <<2, "Predict">>, <<1, "PS_Failed">>,
                     <<0, "Present">>>>, "OK")

PowerUnit(ev, bits) ==
  CASE ev = 11 -> Redundancy(bits, 6)
    [] bits \cap 0..5 = {} -> "Enabled"
    [] OTHER -> Either(bits, "Disabled", "OK")

Memory(bits) ==
  LET on == bits \cap 0..5
  IN  First(on, <<<<0, "OK*">>, <<1, "ECCerror">>, <<5, "ECCerror">>, <<2, "ParityErr">>>>,
            Nth(on, StatusNames, ""))

(* A drive: the slot's state, and behind it that of the array (boards other    *)
(* than Romley and Grantley; bit 15 of the reading is on).                     *)
DriveSlot(ev, bits) ==
  IF ev = 8 THEN Slot(bits)
  ELSE LET high == {k - 8 : k \in bits \cap 8..14}
           slot == IF high = {} THEN "Unused"
                   ELSE First(high, <<<<0, "Faulty">>, <<1, "Ready">>, <<2, "Ready">>, <<3, "Ready">>>>, "Faulty")
           raid == First(bits, <<<<0, " Faulty">>, <<1, " Rebuilding">>, <<2, " InFailedArray">>,
                                 <<3, " InCriticalArray">>, <<4, " ParityCheck">>, <<5, " PredictedFault">>,
                                 <<6, " Un-configured">>, <<7, " HotSpare">>>>, "")
       IN  slot \o raid

Shared(type, ev, bits) ==
  CASE type = 16 -> Nth(bits \cap 0..5, <<"MemLogDisab", "TypLogDisab", "LogCleared", "AllLogDisab", "SelFull",
                                          "SelNearFull">>, "Unknown")
    [] type \in {18, 20, 35} -> IF bits = {} THEN "OK" ELSE "Asserted"
    [] type = 19 -> Nth(bits, <<"FP_NMI", "Bus_TimOut", "IOch_NMI", "SW_NMI", "PCI_PERR", "PCI_SERR",
                                "EISA_TimOut", "Bus_Warn", "Bus_Error", "Fatal_NMI">>, "Fatal_NMI")
    [] type = 21 -> IF ev = 8 THEN Slot(bits) ELSE "OK"
    [] type = 22 -> IF 4 \in bits THEN "Offline" ELSE "OK"
    [] type = 23 -> IF bits = {} THEN "OK" ELSE Either(bits, "Absent", Nth(bits, StatusNames, ""))
    [] type = 28 -> Either(bits, "Present", "Absent")
    [] type = 33 -> (IF 2 \in bits THEN "Present" ELSE "Absent") \o Either(bits, ",Fault", "")
                      \o (IF 8 \in bits THEN ",Disabled" ELSE "")
    [] type = 34 -> Nth(bits, <<"Working", "Sleeping", "Sleeping", "Sleeping", "Sleeping", "On", "On", "On",
                                "Sleeping", "Sleeping", "On", "On", "Off">>, "Unknown")
    [] type = 36 -> Nth(bits, <<"AlertPage", "AlertLAN", "AlertPET", "AlertSNMP">>, "None")
    [] type = 37 -> First(bits, <<<<0, "OK*">>, <<1, "Present">>, <<2, "Disabled">>>>, "NotAvailable")
    [] type = 40 /\ ev = 111 -> IF bits = {} THEN "OK" ELSE "Faulty"
    [] type = 41 -> LET on == bits \cap 0..6
                    IN  CASE on = {} -> "OK" [] on = {0} -> "Predict" [] on = {2} -> "Present" [] OTHER -> "Faulty"
    [] type = 42 -> IF bits = {} THEN "Activated" ELSE "Deactivated"
    [] type = 43 -> Nth(bits \cap 0..7, <<"HW Changed", "SW Changed", "HW incompatibility">>, "Change Error")
    [] type = 241 -> IF bits = {3} THEN "OK" ELSE Nth(bits \cap 0..7, StatusNames, "")
    [] type \in {192, 216, 240, 242, 243} -> Either(bits, "Asserted", "OK")
    [] OTHER -> Generic(ev, bits)

Discrete(type, ev, bits) ==
  CASE type = 1  -> Thermal(ev, bits)
    [] type = 2  -> Either(bits, "Exceeded", "OK")
    [] type = 4  -> Fan(ev, bits)
    [] type = 5  -> IF bits = {} THEN "OK"
                    ELSE First(bits, <<<<0, "ChassisIntrus">>, <<4, "LanLeashLost">>>>, "Unknown")
    [] type = 7  -> Processor(ev, bits)
    [] type = 8  -> PowerSupply(bits)
    [] type = 9  -> PowerUnit(ev, bits)
    [] type = 12 -> Memory(bits)
    [] type = 13 -> DriveSlot(ev, bits)
    [] OTHER     -> Shared(type, ev, bits)

-----------------------------------------------------------------------------
(* The vendors' decoders, which ShowSDR asks first: b is the reading's byte 2, *)
(* the states 0..7, and more are the states 8..14.                             *)

Default == "default"  \* left to the program's own decoder

Number(bits) == FoldSet(LAMBDA k, n : n + 2 ^ k, 0, bits)

(* The name of the row with that number.                                       *)
Named(rows, n, other) ==
  LET i == SelectInSeq(rows, LAMBDA row : row[1] = n) IN IF i = 0 THEN other ELSE rows[i][2]

(* decode_sensor_intel, and of a Node Manager what it can do.                  *)
NmStatus(b) ==
  IF b = {} THEN "None"
  ELSE (IF 0 \in b THEN "Policy " ELSE "") \o (IF 1 \in b THEN "Monitor " ELSE "") \o (IF 2 \in b THEN "Power " ELSE "")

IntelStatus(sdr, b) ==
  CASE sdr.rec # "compact" -> Default
    [] sdr.type \in {\hC0, \hC7, \hCC, \hD8, \hF0, \hF3, \hF6, \hF7} -> Either(b, "Asserted", "OK")
    [] sdr.type = \hDC -> NmStatus(b)
    [] OTHER -> Default

(* ktc5520_post: the codes that have a name.                                   *)
PostCodes ==
  {0, \h03, \h04, \h05, \h06, \h08, \h0A, \h0B, \h0C, \h0E, \h13, \h24, \h2A, \h2C, \h2E, \h30, \h31, \h33, \h37,
   \h38, \h39, \h3A, \h3B, \h3C, \h40, \h50, \h52, \h60, \h75, \h78, \h7A, \h7C, \h84, \h85, \h87, \h8C, \h8D, \h8E,
   \h90, \hA0, \hA1, \hA2, \hA4, \hA7, \hA8, \hA9, \hAA, \hAB, \hAC, \hB1, \hC0, \hC1, \hC2, \hC5, \hC6, \hC7}

(* A power supply that is only asked for one failure has two states.           *)
KontronStatus(sdr, b, more) ==
  LET post == Number(b \cup more)
  IN  CASE sdr.rec # "compact" -> Default
        [] sdr.type = 8 /\ sdr.mask = 2 -> IF 1 \in b THEN "Failed" ELSE "OK"
        [] sdr.type = \hC0 -> IF b = {} THEN "OK" ELSE "Asserted"
        [] sdr.type = \hC2 -> Either(b, "OK", "Error")
        [] sdr.type = \hC6 -> IF post \in PostCodes THEN "POST"
                              ELSE IF post \in \h61..\h71 THEN "Error"
                              ELSE IF post \in \hDD..\hDE THEN "DIMM Debug" ELSE "Other"
        [] sdr.type = \hCF -> Either(b, "OK", "Asserted")
        [] OTHER -> Default

(* get_oem_reading_string: the number that byte 2 is, in the table of states.  *)
FujitsuNames(type) ==
  CASE type = \hC0 -> <<"Bus Error", "Bus OK", "Bus Disabled", "Bus Failed">>
    [] type = \hDD -> <<"Power within Limit", "Power above Warning", "Power above Critical", "Power limiting disabled">>
    [] type = \hDE -> <<"Empty slot", "OK", "Reserved", "Error", "Fail", "Prefailure", "Reserved", "Unknown">>
    [] type = \hDF -> <<"Normal", "Disabled", "Spare", "Mirrored", "RAID", "Not Usable", "state(6)", "state(7)">>
    [] type = \hE1 -> <<"Non Fujitsu", "replaced", "Fatal", "Recoverable", "ECC", "CRC", "Fatal CRC", "thermal",
                        "Fatal thermal", "Too many", "Parity", "swapped", "moved", "removed", "Re-inserted", "changed">>
    [] type = \hE3 -> <<"TPM Error", "Reserved", "No usable CPU">>
    [] type = \hE4 -> <<"Data error", "Conflict", "IRQ", "Device node", "Expansion ROM">>
    [] type = \hE6 -> <<"FAN on", "FAN failed", "FAN prefailure", "Redundant FAN failed", "FAN not manageable",
                        "FAN not installed", "state(6)", "FAN in init phase">>
    [] type = \hE8 -> <<"PSU Not present", "PSU OK", "PSU Failed", "AC failed", "DC failed", "Temperature",
                        "Not manageable", "Fan predicted", "Fan failed", "Power Save">>
    [] type = \hE9 -> <<"redundancy present">>
    [] type = \hEC -> <<"Online", "reboot", "BIOS OK", "BIOS failed", "iRMC OK", "iRMC failed">>
    [] type = \hEF -> <<"Exchange", "RW error", "Restored", "Restore failed", "Backed up", "Backup failed", "Disabled",
                        "Not Available">> \o [k \in 1..7 |-> "Reserved"] \o <<"NVRAM defaults">>
    [] OTHER -> << >>

FujitsuStatus(prod, sdr, b) ==
  LET names == FujitsuNames(sdr.type)
  IN  CASE prod # "iRMC" \/ names = << >> -> Default
        [] Number(b) < Len(names) -> names[Number(b) + 1]
        [] OTHER -> "unknown"

SunStatus(sdr, r, b) ==
  CASE sdr.type \notin {\h15, \hC0} -> Default
    [] r.cc # "ok" -> "NotAvailable"
    [] OTHER -> Either(b, "OK", "Asserted")

(* decode_threshold_supermicro: raw values, the highest threshold first.       *)
RawLevel(raw, thr, readable) ==
  LET high == {k \in readable \cap 4..6 : raw >= thr[k]}
      low  == {k \in readable \cap 1..3 : raw <= thr[k]}
  IN  IF high # {} THEN StatusNames[Max(high)] ELSE IF low # {} THEN StatusNames[Max(low)] ELSE "OK"

(* Six bits of byte 2 count.  What a BMC is asked for has its own thresholds.  *)
SupermicroStatus(prod, sdr, r, b) ==
  LET n    == Number(b \cap 0..5)
      rows == <<<<0, "Absent">>, <<1, "Present">>, <<2, "Failure">>, <<4, "Predict Fail">>>>
  IN  CASE sdr.rec = "full" /\ sdr.ev = 1 ->
             IF (sdr.type = 1 /\ n = 0) \/ Thr(sdr.num) \notin DOMAIN conf THEN Default
             ELSE RawLevel(IF r.cc = "ok" THEN r.raw ELSE 0, conf[Thr(sdr.num)], conf[Readable(sdr.num)])
        [] sdr.type = \hC0 ->
             Named(<<<<0, "Low">>, <<1, "Medium">>, <<2, "High">>, <<4, "Overheat">>, <<7, "Not Installed">>>>, n, Default)
        [] sdr.type = 8   -> Named(rows \o <<<<8, "Input Lost">>>>, n, Default)
        [] sdr.type = \h0D -> Named(rows, n, Default)
        [] sdr.type = \h29 /\ prod = "X11DRi" /\ n = 0 -> "NotAvailable"
        [] OTHER -> Default

(* Of a fan, byte 3 is added to byte 2 and not put in front of it.             *)
HpStatus(sdr, b, more) ==
  LET sum  == Number(b) + Number({k - 8 : k \in more \cap 8..13})
      bits == {k \in 0..8 : (sum \div 2 ^ k) % 2 = 1}
  IN  CASE sdr.type = \hC0 -> "na"
        [] sdr.ev = 111 -> IF sdr.type = 8 THEN Either(b, "Present", "Absent") ELSE "DiscreteEvt"
        [] sdr.ev = 11  -> Redundancy(b, 6)
        [] sdr.ev = 10  -> First(bits, <<<<0, "Running">>, <<1, "In Test">>, <<2, "Power Off">>, <<3, "On Line">>,
                                        <<4, "Off Line">>, <<5, "Off Duty">>, <<6, "Degraded">>, <<7, "Power">>,
                                        <<8, "Install Error">>>>, "Unknown")
        [] sdr.ev = 9   -> First(b, <<<<0, "Disabled">>, <<1, "Enabled">>>>, "Unknown")
        [] sdr.unit = "none" -> "DiscreteUnit"
        [] OTHER -> Default

(* "Dell Discrete Voltage is opposite from normal".                            *)
DellStatus(sdr, b) ==
  IF sdr.rec = "compact" /\ sdr.type = 2 /\ sdr.ev = 3 THEN Either(b, "OK", "Exceeded") ELSE Default

AsusStatus(sdr, b) ==
  CASE sdr.rec = "full" \/ sdr.type # \hC5 \/ sdr.ev # 111 -> Default
    [] b = {} -> "OK"
    [] OTHER  -> "Error"

(* A boot device that is missing is shown as the slots are, by what follows.   *)
LenovoStatus(sdr, b, more) ==
  LET n     == Number(b)
      both  == Number(b \cup more)
      os    == sdr.ev = 111
      plugs == <<<<0, "Absent">>, <<1, "Present">>, <<\h21, "NotRedundant">>, <<\h40, "NotAvailable">>>>
  IN  CASE sdr.rec = "full" -> Default
        [] sdr.type = 7 /\ os /\ sdr.entity = 25 ->
             Named(<<<<0, "OK">>, <<2, "BIST_Fail">>, <<5, "Config_Error">>, <<6, "Uncorr_Error">>, <<8, "Disabled">>>>,
                   Bitnum(b \cup more), "OK*")
        [] sdr.type = 7 /\ os /\ sdr.entity = 3 -> Named(<<<<0, "Absent">>, <<\h80, "Present">>>>, both, "Error")
        [] sdr.type = \h0C /\ os -> Named(<<<<0, "Absent">>, <<\h40, "Present">>>>, both, "Error")
        [] sdr.type = \h0D /\ os -> Named(plugs, n, "Faulty")
        [] sdr.type = \h0F /\ os -> IF b = {} THEN "OK" ELSE First(b, <<<<0, "FirmwareError">>, <<1, "FirmwareHang">>>>, "OK*")
        [] sdr.type = \h17 -> IF both = 2 THEN "OK" ELSE "Unknown"
        [] sdr.type = \h1B /\ os -> Named(<<<<1, "OK">>, <<2, "CableError">>>>, n, "OK*")
        [] sdr.type \in {\h1E, \h21} /\ os -> IF b = {} THEN "OK" ELSE "Fault"
        [] sdr.type = \h2B /\ os -> Named(<<<<0, "OK">>, <<1, "Changed">>, <<5, "Invalid">>, <<7, "ChangedOK">>>>, n, "_")
        [] sdr.type = 2 /\ sdr.ev = 7 -> IF 2 \in b THEN "Faulty" ELSE "OK"
        [] sdr.type = \h28 /\ sdr.ev = 8 -> IF 1 \in b THEN "Faulty" ELSE "OK"
        [] OTHER -> Default

(* decode_oem_sensor.                                                          *)
VendorStatus(who, sdr, r, bits) ==
  LET b    == bits \cap 0..7
      more == bits \ 0..7
  IN  CASE who.vendor = INTEL      -> IntelStatus(sdr, b)
        [] who.vendor = KONTRON    -> KontronStatus(sdr, b, more)
        [] who.vendor = "fujitsu"  -> FujitsuStatus(who.prod, sdr, b)
        [] who.vendor = "sun"      -> SunStatus(sdr, r, b)
        [] who.vendor = SUPERMICRO -> SupermicroStatus(who.prod, sdr, r, b)
        [] who.vendor = "quanta"   -> IF who.prod = "S99Q" /\ sdr.rec = "compact" /\ sdr.type = \hDC
                                      THEN NmStatus(b) ELSE Default
        [] who.vendor = "hp"       -> HpStatus(sdr, b, more)
        [] who.vendor = "dell"     -> DellStatus(sdr, b)
        [] who.vendor \in {"ibm", "lenovo"} -> LenovoStatus(sdr, b, more)
        [] who.vendor = "asus"     -> AsusStatus(sdr, b)
        [] OTHER -> Default

-----------------------------------------------------------------------------
(* A BMC compares a reading to the thresholds it has.                          *)
Crossed(sdr, raw) ==
  LET V(x) == RawToFloat(x, sdr)
  IN  {k \in conf[Readable(sdr.num)] :
         IF k <= 3 THEN V(raw) <= V(conf[Thr(sdr.num)][k]) ELSE V(raw) >= V(conf[Thr(sdr.num)][k])}

(* What is compared are the bits of a threshold's sensor; two more are not     *)
(* used, and some BMCs return them as ones.  Without a reading all are zero.   *)
States(sdr, r) ==
  CASE r.cc # "ok" -> {}
    [] sdr.rec = "full" /\ sdr.ev = 1 ->
         {k - 1 : k \in Crossed(sdr, r.raw)} \cup (IF r.ones THEN {6, 7} ELSE {})
    [] OTHER -> r.bits

(* The status that ShowSDR shows of a full or a compact record: a vendor's     *)
(* decoder's, of a full one even if there is no reading.  0xC7 is taken for a  *)
(* sensor that is absent.                                                      *)
OemString(who, sdr, r) == VendorStatus(who, sdr, r, States(sdr, r))

ShownStatus(who, sdr) ==
  LET r    == conf[SensorReading(sdr.own, sdr.num)]
      bits == States(sdr, r)
  IN  CASE sdr.rec = "full" /\ OemString(who, sdr, r) # Default -> OemString(who, sdr, r)
        [] r.cc = "absent" -> "Absent"
        [] r.cc = "error"  -> "Unknown"
        [] r.init          -> IF sdr.rec = "full" THEN "Init" ELSE "NotAvailable"
        [] sdr.rec = "full" ->
             CASE sdr.unit = "none"            -> "NotAvailable"
               [] bits \cap 0..7 = {0, 1, 2, 6, 7} -> "Absent"
               [] OTHER                        -> Nth(bits \cap 0..5, StatusNames, "")
        [] OemString(who, sdr, r) # Default -> OemString(who, sdr, r)
        [] OTHER -> Discrete(sdr.type, sdr.ev, bits)

(* ShowThresh: the thresholds shown are those that can be read, converted; if  *)
(* none can be set, the record's.  The BMC is asked whoever owns the sensor.   *)
ShownThresholds(sdr) ==
  LET own == sdr.settable # {} /\ Thr(sdr.num) \in DOMAIN conf
  IN  [k \in IF own THEN conf[Readable(sdr.num)] ELSE sdr.readable |->
         RawToFloat(IF own THEN conf[Thr(sdr.num)][k] ELSE sdr.thr[k], sdr)]

(* The records listed: -n and -g choose; thresholds are set among all.         *)
ShownRecord(o, sdr) ==
  /\ o.groups # {} => (sdr.rec # "oem" /\ sdr.type \in o.groups)
  /\ \/ o.num = NOBODY \/ sdr.num = o.num \/ o.op = "set"

SensorStarts(o, bad) ==
  /\ \E junk \in {<<0, 0>>, <<7, 7>>} : Starts([o EXCEPT !.walked = (bad # "sdr")], Sensor(o, bad, junk))
  /\ code' = "runs"

SensorEnds ==
  /\ running /\ prog.do = "sensor"
  /\ todo = << >>
  /\ Return("ok")

SensorAborts ==
  /\ running /\ prog.do = "sensor"
  /\ todo # << >> /\ Next1.key = Abort.key
  /\ Return("error")
-----------------------------------------------------------------------------
(* Properties.                                                                 *)

Sensed == ~running /\ prog.do = "sensor" /\ code = "ok"

(* The raw values whose readings are nearest to one.                           *)
Nearest(sdr, val) ==
  LET Dist(x) == IF RawToFloat(x, sdr) >= val THEN RawToFloat(x, sdr) - val ELSE val - RawToFloat(x, sdr)
      dist    == [x \in 0..255 |-> Dist(x)]
      least   == Min({dist[x] : x \in 0..255})
  IN  {x \in 0..255 : dist[x] = least}

(* A threshold is set: by -l or -h, with its half; or by -u.                   *)
AsksThreshold(o, k) ==
  CASE o.mode = "raw"   -> (IF k <= 3 THEN o.lo ELSE o.hi) # NOBODY
    [] o.mode = "float" -> (IF k <= 3 THEN o.lo ELSE o.hi) # 0
    [] OTHER -> TRUE

(* What it may be then: of -l and -h, the first of its half.                   *)
AskedFor(o, sdr, k) ==
  CASE o.mode = "raw"   -> {IF k <= 3 THEN o.lo ELSE o.hi}
    [] o.mode = "raws"  -> {o.thr[k]}
    [] o.mode = "float" -> Nearest(sdr, IF k <= 3 THEN o.lo ELSE o.hi)
    [] OTHER            -> IF o.thr[k] # THR_EMPTY THEN Nearest(sdr, o.thr[k])
                           ELSE Nearest(sdr, RawToFloat(sdr.thr[k], sdr))

(* Readings grow with raw values; -l and -h leave room for two more, and are   *)
(* not the raw value 255, which says "not given" (as -1 does, for one); and    *)
(* neither half of -u is all zeros, which says so too.                         *)
Grows(sdr) == sdr.rec = "full" /\ sdr.m > 0 /\ sdr.fmt # "1s"

Room(o, sdr) ==
  IF o.mode \in {"raws", "floats"}
  THEN o.mode = "floats" => \A h \in {1..3, 4..6} : \E k \in h : o.thr[k] \notin {0, THR_EMPTY}
  ELSE \A k \in {1, 4} : AsksThreshold(o, k) =>
         LET raws == AskedFor(o, sdr, k)
             x    == IF sdr.fmt = "2s" THEN {Signed(y) : y \in raws} ELSE raws
         IN  255 \notin raws /\ (IF k = 1 THEN Min(x) >= MinRaw(sdr) + 2 ELSE Max(x) <= MaxRaw(sdr) - 2)

InOrder(sdr, t, bits) ==
  LET V(k) == RawToFloat(t[k], sdr)
  IN  /\ \A k \in {1, 2} : {k, k + 1} \subseteq bits => V(k) >= V(k + 1)
      /\ \A k \in {4, 5} : {k, k + 1} \subseteq bits => V(k) <= V(k + 1)

(* The one record that matches, if the SDRs were read.                         *)
Matches == {i \in 1..Len(conf[Sdrs]) : conf[Sdrs][i].num = prog.num /\ conf[Sdrs][i].own = prog.own}
Found   == prog.op = "set" /\ prog.walked /\ Cardinality(Matches) = 1

\* Thresholds set are the nearest to what was asked for ("Round to nearest value"),
\* whatever failed on the way, and the others are as before; those beyond -l and -h
\* are in order, and so are all of -u that have a critical one between them
\* (validate_thresholds). The hysteresis is kept if nothing failed
\* (isensor.c, SetSensorThresholds).
ThresholdsAsAsked ==
  Found =>
    LET sdr  == conf[Sdrs][CHOOSE i \in Matches : TRUE]
        bits == conf[Readable(prog.num)]
        thr  == conf[Thr(prog.num)]
    IN  /\ Grows(sdr) /\ Room(prog, sdr) =>
             /\ \A k \in bits :
                  IF ~AsksThreshold(prog, k) THEN thr[k] = was[Thr(prog.num)][k]
                  ELSE (k \in {1, 4} \/ prog.mode \in {"raws", "floats"}) /\ k \in sdr.settable =>
                         thr[k] \in AskedFor(prog, sdr, k)
             /\ prog.mode # "raws" /\ (\A k \in 1..6 : AsksThreshold(prog, k)) => InOrder(sdr, thr, bits \cap sdr.readable)
        /\ \A k \in 1..6 \ bits : thr[k] = was[Thr(prog.num)][k]
        /\ fails = 0 => conf[Hyst(prog.num)] = was[Hyst(prog.num)]

\* A line that was saved sets the same thresholds again (isensor.c:3068, "persist
\* the thresholds by re-applying with ipmiutil sensor commands").
LineRepeats ==
  prog.op = "set" /\ conf[Savefile] # was[Savefile] =>
    LET line  == conf[Savefile]
        again == [prog EXCEPT !.mode = IF line.thr = << >> THEN "raw" ELSE "raws",
                              !.lo = line.lo, !.hi = line.hi, !.thr = line.thr]
        num   == prog.num
    IN  NewThresholds(was[Thr(num)], conf[Readable(num)], again, Walk(again, conf[Sdrs])) = conf[Thr(num)]

\* The sensor was rearmed, if no thresholds were set besides, and its events are
\* enabled if nothing failed, which is only said (isensor.c, RearmSensor).
RearmedForEvents ==
  prog.rearm # 0 => /\ prog.op = "show" => conf[Rearmed(prog.rearm)]
                    /\ fails = 0 => conf[Rearmed(prog.rearm)] /\ conf[SevtEnable(prog.rearm)]

(* Faults of a discrete sensor, of the types for which the code tells them.    *)
FaultBits(type, ev) ==
  CASE type = 2 \/ (type = 192 /\ ev \in {3, 4, 5}) -> {0}
    [] type = 4 /\ ev = 11   -> 1..5
    [] type \in {5, 18, 20, 35} \/ (type = 40 /\ ev = 111) -> 0..14
    [] type = 8              -> {1, 2, 3, 6}
    [] type = 22             -> {4}
    [] type = 41             -> {0, 1}
    [] OTHER                 -> {}

Well1 == {"OK", "OK*", "Present", "Ready", "Redundant", "Enabled", "Absent"}

(* The same of a vendor's sensors: other types, and some the other way round.  *)
Faulty(who, sdr, bits) ==
  LET v   == who.vendor
      std == bits \cap FaultBits(sdr.type, sdr.ev) # {}
  IN  CASE v = INTEL /\ sdr.type \in {\hC0, \hC7, \hD8, \hF3, \hF6, \hF7} -> 0 \in bits
        [] v = KONTRON /\ sdr.type = 8 /\ sdr.mask = 2 -> 1 \in bits
        [] v = KONTRON /\ sdr.type = \hC0 -> bits \cap 0..7 # {}
        [] v = KONTRON /\ sdr.type \in {\hC2, \hCF} -> 0 \notin bits
        [] v = "dell" /\ sdr.type = 2 /\ sdr.ev = 3 -> 0 \notin bits
        [] v = "sun" /\ sdr.type \in {\h15, \hC0} -> 0 \notin bits
        [] v = "asus" /\ sdr.type = \hC5 -> bits \cap 0..7 # {}
        [] v \in {"ibm", "lenovo"} /\ sdr.type = 2 /\ sdr.ev = 7 -> 2 \in bits
        [] v \in {"ibm", "lenovo"} /\ sdr.type = \h28 /\ sdr.ev = 8 -> 1 \in bits
        [] v = SUPERMICRO -> (bits \ {6}) \cap FaultBits(sdr.type, sdr.ev) # {}
        [] v = "hp" -> std /\ (sdr.type # 8 \/ sdr.ev # 111)
        [] OTHER -> std

\* The BMC's own sensor is shown as OK exactly if it is within its thresholds; one
\* at an unrecoverable threshold is shown to be, if these are in order; and the
\* thresholds shown are its own. A discrete sensor with a fault, or without a
\* reading, is not shown as well, whichever decoder shows it (isensor.c, ShowSDR
\* and decode_comp_reading; oem_*.c, decode_sensor_*).
ShownAsItIs ==
  \A i \in {j \in 1..Len(conf[Sdrs]) : ShownRecord(prog, conf[Sdrs][j])} :
    LET sdr   == conf[Sdrs][i]
        r     == conf[SensorReading(sdr.own, sdr.num)]
        V(x)  == RawToFloat(x, sdr)
        thr   == conf[Thr(sdr.num)]
        Within(k) == IF k <= 3 THEN V(r.raw) > V(thr[k]) ELSE V(r.raw) < V(thr[k])
        who    == prog.who
        status == ShownStatus(who, sdr)
        byRaw  == who.vendor = SUPERMICRO /\ sdr.fmt # "unsigned"
    IN  CASE sdr.rec \notin {"full", "compact"} -> TRUE
          [] r.cc # "ok" \/ r.init ->
               sdr.rec = "compact" \/ OemString(who, sdr, r) = Default => status \notin {"OK", "OK*", "Present"}
          [] sdr.rec = "compact" \/ sdr.ev # 1 ->
               (sdr.rec = "compact" \/ OemString(who, sdr, r) # Default) /\ Faulty(who, sdr, r.bits) => status \notin Well1
          [] sdr.own = BMC_SA /\ ~byRaw ->
               LET bits == conf[Readable(sdr.num)]
                   high == bits \cap 4..6
               IN  /\ status = "OK" <=> \A k \in bits : Within(k)
                   /\ InOrder(sdr, thr, 1..6) /\ (\A k \in high : Within(k)) /\ 3 \in bits /\ ~r.ones =>
                        (status = "BelowCrit" <=> ~Within(3))
                   /\ 6 \in bits => (status = "AboveCrit" <=> ~Within(6))
                   /\ sdr.settable # {} =>
                        \A k \in bits : ShownThresholds(sdr)[k] = V(thr[k])
          [] OTHER -> TRUE

\* What sensor has done, and what it shows, if it returns 0.
SensorAsAsked ==
  Sensed => ThresholdsAsAsked /\ LineRepeats /\ RearmedForEvents /\ ShownAsItIs
=============================================================================
