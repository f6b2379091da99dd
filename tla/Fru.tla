---------------------------------- MODULE Fru ----------------------------------
(***************************************************************************)
(* The programs that write the inventory data of a BMC's FRU devices.        *)
(* "ipmiutil fru" (util/ifru.c): the devices are shown, dumped to a file and      *)
(* restored from it, and the version, the serial number and the asset tag in     *)
(* the product area of FRU 0 are written.  ifruset (util/ifruset.c) sets any      *)
(* field of the product area of any device.  "fru -k" (util/oem_kontron.c),         *)
(* whose setsn and setmfgdate copy the serial number and the date that a         *)
(* Kontron board holds elsewhere into FRU 0; the one-byte version field of its   *)
(* product areas is left out.                                                *)
(*                                                                         *)
(* Offsets count from 0, as in the code, and bytes are numbers.  The BMC is      *)
(* external.                                                                *)
(***************************************************************************)
EXTENDS Integers, SequencesExt

CONSTANTS
    FruSetups,      \* [frus, located, plan]: the FRU devices, those that SDRs name, programs
    MaxFruFaults    \* bound: commands that fail

VARIABLES
    frus,      \* the bytes of each FRU device
    located,   \* the FRU devices that the SDRs name, in order
    programs,  \* what is still to be run: [tool, do, id, only, lax, asked]
    fru,       \* the program that runs: [opt, pc, ret, base, buf, offs, area, left, junk]
    binfile,   \* the dump file
    misses,    \* commands that have failed
    before     \* history: the FRU devices as the program found them

inventory == <<frus, located, programs, fru, binfile, misses, before>>

Chunk == 16     \* FRUCHUNK_SZ
Unit == 8       \* areas begin and end at multiples of it
End == 193      \* FRU_END: type 3, length 1
Empty == 192    \* FRU_EMPTY_FIELD: type 3, length 0
Fields == 0..7  \* NUM_PRODUCT_FIELDS
VERSION == 3
SERIAL == 4
ASSET == 5
Writable == {VERSION, SERIAL, ASSET}

Nowhere == [at |-> -1, len |-> 0]
NoFru == [opt |-> [do |-> "none"], pc |-> "done", ret |-> "ok", base |-> TRUE, buf |-> <<>>,
          offs |-> [f \in Writable |-> Nowhere], area |-> [f \in Fields |-> <<>>], left |-> <<>>,
          junk |-> FALSE]

-----------------------------------------------------------------------------
(* What a buffer holds.                                                       *)

At(b, i) == IF i \in 0..(Len(b) - 1) THEN b[i + 1] ELSE 0
Part(b, i, n) == SubSeq(b, i + 1, i + n)
Over(b, i, part) == Part(b, 0, i) \o part \o SubSeq(b, i + Len(part) + 1, Len(b))

Sum(b) == FoldLeft(LAMBDA x, y : (x + y) % 256, 0, b)
Checksum(b) == (256 - Sum(b)) % 256

Area(b, i) == At(b, i) * Unit  \* 1 internal, 2 chassis, 3 board, 4 product, 5 multi-record
Product(b) == Area(b, 4)
ProductLen(b) == At(b, Product(b) + 1) * Unit

\* show_fru: a field of length 0 may be a zero.
TypeLen(b, i) == IF At(b, i) = 0 THEN Empty ELSE At(b, i)
FieldLen(b, i) == TypeLen(b, i) % 64

\* show_fru: where the product area's fields begin, or -1 behind the last, and what
\* is behind the eighth.
FieldAt(b) ==
    LET Ended(i) == i = -1 \/ i >= Len(b) \/ At(b, i) = End
        first == Product(b) + 3
        next(i) == IF Ended(i) THEN -1 ELSE i + 1 + FieldLen(b, i)
        at == FoldLeft(LAMBDA found, f : Append(found, next(Last(found))), <<first>>, [f \in 1..8 |-> f])
    IN  [f \in Fields \cup {8} |-> IF Ended(at[f + 1]) THEN -1 ELSE at[f + 1]]

\* show_fru: the bytes that the areas take, by the last of the header's offsets.
SizeUsed(b) ==
    LET last == CHOOSE i \in 0..5 : /\ i = 0 \/ At(b, i) # 0
                                    /\ \A k \in (i + 1)..5 : At(b, k) = 0
        at == Area(b, last)
    IN  IF at <= 8 THEN 8 ELSE IF last = 5 THEN at + 5 + At(b, at + 2) ELSE at + At(b, at + 1) * Unit

Value(b, at) == [i \in 1..FieldLen(b, at) |-> At(b, at + i)]

\* show_fru, "fix a broken table", "insert end char if broken".
Fixed(b) ==
    LET at == FieldAt(b)
    IN  [i \in DOMAIN b |->
            IF b[i] = 0 /\ Product(b) # 0
            THEN IF \E f \in Fields : at[f] = i - 1 THEN Empty ELSE IF at[8] = i - 1 THEN End ELSE 0
            ELSE b[i]]

\* show_fru, for a device that is shown: what is remembered of it, what it changes
\* in the buffer, and what it returns.
Shown(p, id) ==
    IF SizeUsed(p.buf) > Len(p.buf) THEN [p EXCEPT !.ret = "error"]
    ELSE LET at == FieldAt(p.buf)
         IN  [p EXCEPT
                !.ret = "ok", !.buf = Fixed(@),
                !.offs = [f \in Writable |->
                             IF id = 0 /\ Product(p.buf) # 0 /\ at[f] # -1
                             THEN [at |-> at[f], len |-> FieldLen(p.buf, at[f])] ELSE @[f]]]

-----------------------------------------------------------------------------
(* write_asset.                                                             *)

\* The bytes behind the fields up to the end mark.
Rest(b, from, room) ==
    LET ends == {i \in 0..(room - 2) : At(b, from + i) = End}
        last == CHOOSE i \in ends : \A k \in ends : i <= k
    IN  IF ends = {} THEN <<>> ELSE [i \in 1..(last + 1) |-> At(b, from + i - 1)]

\* The room that there is for the product area, and the new one: the fields, what was
\* behind the old ones, zeros and the checksum.  Without an end mark in the room (and
\* at its last byte) there is one at once, and behind the zeros what was copied.
Limit(b) == IF Area(b, 5) > 0 THEN ProductLen(b) ELSE Len(b) - Product(b)

Completed(b, fields, used) ==
    LET rest == Rest(b, Product(b) + used, Limit(b) - used)
        new == fields \o (IF rest = <<>> THEN <<End>> ELSE rest)
        Copied(i) == IF rest = <<>> /\ i <= Len(fields) + Limit(b) - used
                     THEN At(b, Product(b) + used + i - Len(fields) - 1) ELSE 0
        rounded == (Len(new) \div Unit + 1) * Unit
        size == IF rounded < ProductLen(b) THEN ProductLen(b) ELSE rounded
        body == [i \in 1..(size - 1) |->
                    IF i = 2 THEN size \div Unit
                    ELSE IF i <= Len(new) THEN new[i] ELSE IF i <= rounded THEN 0 ELSE Copied(i)]
    IN  Append(body, Checksum(body))

NewValue(b, offs, asked, f) ==
    IF f \in DOMAIN asked THEN asked[f] ELSE Part(b, offs[f].at + 1, offs[f].len)

Field(value) == <<Empty + Len(value)>> \o value

\* The new product area: the fields before the version as they are, the three
\* fields, of type 3 now, and the rest.
NewArea(b, offs, asked) ==
    LET prod == Product(b)
        used == (offs[VERSION].at - prod) + offs[VERSION].len + offs[SERIAL].len + offs[ASSET].len + 3
        fields == Part(b, prod, offs[VERSION].at - prod)
                  \o Field(NewValue(b, offs, asked, VERSION)) \o Field(NewValue(b, offs, asked, SERIAL))
                  \o Field(NewValue(b, offs, asked, ASSET))
    IN  Completed(b, fields, used)

\* What write_asset refuses: offsets that no product area has shown, values that
\* are too short or too long, and an area that would run into another.
Refused(b, offs, asked) ==
    \/ \E f \in {SERIAL, ASSET} \cap DOMAIN asked : Len(asked[f]) <= 1
    \/ \E f \in Writable : offs[f].at < 8 \/ offs[f].at + Len(NewValue(b, offs, asked, f)) > Len(b)
    \/ Product(b) > offs[VERSION].at
    \/ LET size == Len(NewArea(b, offs, asked))
       IN  \/ Product(b) + size >= Len(b)
           \/ Area(b, 5) > 0 /\ size > ProductLen(b)

-----------------------------------------------------------------------------
(* Commands.                                                                *)

Running == fru.pc # "done"
Fault(n) == misses + n <= MaxFruFaults /\ misses' = misses + n
Ends(ret) == [fru EXCEPT !.pc = "done", !.ret = ret]
Kept == UNCHANGED <<frus, located, programs, binfile, before>>

\* load_fru: the whole device; or an error; or, when a chunk behind the first is
\* refused, a buffer that has not been read to its end, and no error.
Loads(p, id) ==
    IF id \notin DOMAIN frus THEN {[ok |-> FALSE, p |-> p, faults |-> 0]}
    ELSE LET b == frus[id]
             Unread(i, byte) == [k \in DOMAIN b |-> IF k <= i * Chunk THEN b[k] ELSE byte]
         IN  {[ok |-> FALSE, p |-> p, faults |-> 1], [ok |-> TRUE, p |-> [p EXCEPT !.buf = b], faults |-> 0]}
             \cup {[ok |-> TRUE, p |-> [p EXCEPT !.junk = TRUE, !.buf = Unread(i, byte)], faults |-> 1] :
                       i \in 1..((Len(b) - 1) \div Chunk), byte \in {0, 255}}

\* write_fru_data: to device d, chunk by chunk.  The BMC refuses one that it
\* has no room for; the last one that was sent may have been carried out.
WriteFails(d, i, data) ==
    \E n \in 0..((Len(data) + Chunk - 1) \div Chunk) :
       LET done == IF n * Chunk < Len(data) THEN n * Chunk ELSE Len(data)
       IN  /\ i + done <= Len(frus[d])
           /\ frus' = [frus EXCEPT ![d] = Over(@, i, Part(data, 0, done))]
           /\ fru' = Ends("error")
           /\ Fault(IF i + Len(data) > Len(frus[d]) /\ i + done + Chunk > Len(frus[d]) THEN 0 ELSE 1)

Writes(d, i, data, then) ==
    /\ \/ /\ i + Len(data) <= Len(frus[d])
          /\ frus' = [frus EXCEPT ![d] = Over(@, i, data)]
          /\ fru' = then
          /\ Fault(0)
       \/ WriteFails(d, i, data)
    /\ UNCHANGED <<located, programs, binfile, before>>

-----------------------------------------------------------------------------
(* The program.                                                             *)

Rests(s) ==
    /\ frus = s.frus /\ located = s.located /\ programs = s.plan
    /\ fru = NoFru /\ binfile = <<>> /\ misses = 0 /\ before = s.frus

Init == \E s \in FruSetups : Rests(s)

\* A value of one character, whose type and length would end the area, gets a
\* blank; a long one is cut.
Given(asked, most) ==
    [f \in DOMAIN asked |->
        IF Len(asked[f]) = 1 THEN Append(asked[f], 32)
        ELSE Part(asked[f], 0, IF Len(asked[f]) > most THEN most ELSE Len(asked[f]))]

\* A program begins with these options, at pc, or cannot.
Begins(opt, pc) ==
    /\ programs' = Tail(programs) /\ before' = frus
    /\ LET p == [NoFru EXCEPT !.opt = opt, !.pc = pc, !.left = located]
       IN  \/ fru' = p /\ Fault(0)
           \/ fru' = [p EXCEPT !.pc = "done", !.ret = "error"] /\ Fault(1)
    /\ UNCHANGED <<frus, located, binfile>>

Comes(tool) == ~Running /\ programs # <<>> /\ Head(programs).tool = tool

\* The options; the device id.
Starts ==
    /\ Comes("fru")
    /\ LET opt == [Head(programs) EXCEPT !.asked = Given(@, 19)]
       IN  Begins(opt, IF opt.only THEN "base" ELSE "scan")

\* The SDRs, up to one that cannot be read; each device that they name is
\* shown and forgotten, and the last of them decides the return code.  Device 0 is
\* not shown again if it could be.
Scan ==
    /\ fru.pc = "scan"
    /\ \E ret \in {"ok", "error"} :
          \/ /\ 0 \in ToSet(located)
             /\ \E l \in Loads(fru, 0) :
                   /\ fru' = IF l.ok THEN [Shown(l.p, 0) EXCEPT !.pc = "base", !.ret = ret, !.base = FALSE, !.buf = <<>>]
                             ELSE [fru EXCEPT !.pc = "base", !.ret = ret]
                   /\ Fault(l.faults)
          \/ /\ fru' = [fru EXCEPT !.pc = "base", !.ret = ret]
             /\ Fault(IF 0 \in ToSet(located) THEN 1 ELSE 0)
    /\ Kept

Base ==
    /\ fru.pc = "base"
    /\ IF fru.base
       THEN \E l \in Loads(fru, fru.opt.id) :
               /\ fru' = IF l.ok THEN [Shown(l.p, fru.opt.id) EXCEPT !.pc = "act"] ELSE Ends("error")
               /\ Fault(l.faults)
       ELSE fru' = [fru EXCEPT !.pc = "act"] /\ Fault(0)
    /\ Kept

Show ==
    /\ fru.pc = "act"
    /\ fru.opt.do = "show" \/ (fru.opt.do \in {"dump", "write"} /\ fru.ret # "ok")
    /\ fru' = Ends(fru.ret) /\ Fault(0) /\ Kept

\* The device is read again, and the file is written.
Dump ==
    /\ fru.pc = "act" /\ fru.opt.tool = "fru" /\ fru.opt.do = "dump" /\ fru.ret = "ok"
    /\ \E l \in Loads(fru, fru.opt.id) :
          fru' = (IF l.ok THEN [l.p EXCEPT !.pc = "file"] ELSE Ends("error")) /\ Fault(l.faults)
    /\ Kept

DumpFile ==
    /\ fru.pc = "file"
    /\ \/ binfile' = fru.buf /\ fru' = Ends("ok") /\ Fault(0)
       \/ UNCHANGED binfile /\ fru' = Ends("error") /\ Fault(1)
    /\ UNCHANGED <<frus, located, programs, before>>

\* The file is read over the buffer; without one, because the SDRs' scan has
\* shown device 0 and let go of it, the program crashes.
RestoreRefused ==
    /\ fru.pc = "act" /\ fru.opt.tool = "fru" /\ fru.opt.do = "restore"
    /\ binfile = <<>> \/ fru.buf = <<>>
    /\ fru' = Ends(IF binfile = <<>> THEN "error" ELSE "crash")
    /\ Fault(0) /\ Kept

FromFile ==
    LET n == IF Len(binfile) < Len(fru.buf) THEN Len(binfile) ELSE Len(fru.buf)
    IN  Over(fru.buf, 0, Part(binfile, 0, n))

Restore ==
    /\ fru.pc = "act" /\ fru.opt.tool = "fru" /\ fru.opt.do = "restore"
    /\ binfile # <<>> /\ fru.buf # <<>>
    /\ IF At(FromFile, 7) # Checksum(Part(FromFile, 0, 7))
       THEN fru' = Ends("error") /\ Fault(0) /\ Kept
       ELSE Writes(0, 0, FromFile, [fru EXCEPT !.pc = "again"])

\* Device 0 is read again if the scan has let go of it, and its product area is
\* written.
Reload ==
    /\ fru.pc = "act" /\ fru.opt.tool = "fru" /\ fru.opt.do = "write" /\ fru.ret = "ok"
    /\ ~fru.base /\ fru.buf = <<>>
    /\ \E l \in Loads(fru, fru.opt.id) :
          fru' = (IF l.ok THEN l.p ELSE Ends("error")) /\ Fault(l.faults)
    /\ Kept

WriteAsset ==
    /\ fru.pc = "act" /\ fru.opt.tool = "fru" /\ fru.opt.do = "write" /\ fru.ret = "ok" /\ fru.buf # <<>>
    /\ IF Refused(fru.buf, fru.offs, fru.opt.asked)
       THEN fru' = Ends("error") /\ Fault(0) /\ Kept
       ELSE Writes(0, Product(fru.buf), NewArea(fru.buf, fru.offs, fru.opt.asked), [fru EXCEPT !.pc = "again"])

\* What was written is read and shown.
Again ==
    /\ fru.pc = "again"
    /\ \E l \in Loads(fru, fru.opt.id) :
          fru' = (IF l.ok THEN [Shown(l.p, fru.opt.id) EXCEPT !.pc = "done"] ELSE Ends("error")) /\ Fault(l.faults)
    /\ Kept

-----------------------------------------------------------------------------
(* ifruset.                                                                 *)

FIELD_LEN == 24

Stops(ret) == fru' = Ends(ret) /\ Fault(0) /\ Kept

\* Like fru, ifruset reads a device in chunks (load_fru) and writes one in chunks
\* (write_fru_data); it writes to the device that it was given.
SetLoads(p, id) == Loads(p, id)
SetWrites(i, data) == Writes(fru.opt.id, i, data, [fru EXCEPT !.pc = "set again"])

SetStarts ==
    /\ Comes("fruset")
    /\ LET opt == [Head(programs) EXCEPT !.asked = Given(@, FIELD_LEN - 1)]
       IN  Begins(opt, IF opt.only THEN "set base" ELSE "set scan")

\* show_fru, "do fixup of extra in product area": with -y, the product area is cut
\* by what the areas take too much.
Cut(b) ==
    LET left == ProductLen(b) - (SizeUsed(b) - Len(b))
    IN  IF left >= ProductLen(b) THEN b
        ELSE Over(b, Product(b) + 1, <<(IF left < 0 THEN -((-left) \div Unit) ELSE left \div Unit) % 256>>)

\* show_fru: the fields are remembered; a longer one runs into the next, and its end
\* is lost.  What a device does not have stays as it was.
Remembered(value) == [i \in DOMAIN value |-> IF i <= FIELD_LEN THEN value[i] ELSE 0]

SetShown(p) ==
    IF SizeUsed(p.buf) > Len(p.buf) /\ ~p.opt.lax THEN [p EXCEPT !.ret = "error"]
    ELSE LET b == Cut(p.buf)
             at == FieldAt(b)
         IN  [p EXCEPT
                !.ret = "ok", !.buf = Fixed(b),
                !.area = [f \in Fields |-> IF Product(b) # 0 /\ at[f] # -1 THEN Remembered(Value(b, at[f])) ELSE @[f]]]

\* The SDRs, up to one that cannot be read; the devices that they name are shown,
\* but for device 0, which comes below.
SetScan ==
    /\ fru.pc = "set scan"
    /\ LET next == [fru EXCEPT !.left = Tail(@)] IN
       \/ fru.left = <<>> /\ fru' = [fru EXCEPT !.pc = "set base"] /\ Fault(0)
       \/ fru.left # <<>> /\ fru' = [fru EXCEPT !.pc = "set base"] /\ Fault(1)
       \/ fru.left # <<>> /\ Head(fru.left) = 0 /\ fru' = next /\ Fault(0)
       \/ /\ fru.left # <<>> /\ Head(fru.left) # 0
          /\ \E l \in SetLoads(next, Head(fru.left)) :
                fru' = (IF l.ok THEN [SetShown(l.p) EXCEPT !.buf = <<>>] ELSE next) /\ Fault(l.faults)
    /\ Kept

SetBase ==
    /\ fru.pc = "set base"
    /\ \E l \in SetLoads(fru, fru.opt.id) :
          fru' = (IF l.ok THEN [SetShown(l.p) EXCEPT !.pc = "act"] ELSE Ends("error")) /\ Fault(l.faults)
    /\ Kept

\* What was read is written to the file.
SetDump ==
    /\ fru.pc = "act" /\ fru.opt.tool = "fruset" /\ fru.opt.do = "dump" /\ fru.ret = "ok"
    /\ fru' = [fru EXCEPT !.pc = "file"] /\ Fault(0) /\ Kept

\* What the file has is written, if its header sums up.
SetRestore ==
    /\ fru.pc = "act" /\ fru.opt.tool = "fruset" /\ fru.opt.do = "restore"
    /\ IF binfile = <<>> \/ At(FromFile, 7) # Checksum(Part(FromFile, 0, 7))
       THEN Stops("error") ELSE SetWrites(0, FromFile)

\* write_product: every field anew, and how far the old ones have gone.  An end mark,
\* or a field of one character, is passed over as one byte; a field for which there
\* is no room is left empty, and those that begin too late are left out.
NewFields(b, area) ==
    LET Old(i) == IF At(b, i) % 64 = 1 THEN 0 ELSE At(b, i) % 64
        Step(s, f) ==
            IF s.full \/ Len(s.new) + 2 >= Limit(b) THEN [s EXCEPT !.full = TRUE]
            ELSE [s EXCEPT !.new = @ \o Field(IF Len(s.new) + 1 + Len(area[f]) >= Limit(b) THEN <<>> ELSE area[f]),
                           !.used = @ + 1 + Old(Product(b) + s.used)]
    IN  FoldLeft(Step, [new |-> Part(b, Product(b), 3), used |-> 3, full |-> FALSE], [f \in 1..8 |-> f - 1])

Written(b, area) == LET s == NewFields(b, area) IN Completed(b, s.new, s.used)

TooLong(b, asked) ==
    \/ ProductLen(b) > Len(b)
    \/ ASSET \in DOMAIN asked /\ Len(asked[ASSET]) > ProductLen(b)

SetRefused(b, area) ==
    \/ Product(b) + Len(Written(b, area)) >= Len(b)
    \/ Area(b, 5) > 0 /\ Len(Written(b, area)) > ProductLen(b)

\* What is copied behind the fields may run over the end of the new buffer.
Overrun(b, area) ==
    LET s == NewFields(b, area)
    IN  Rest(b, Product(b) + s.used, Limit(b) - s.used) = <<>> /\ Len(s.new) + Limit(b) - s.used > Len(b)

WriteProduct ==
    /\ fru.pc = "act" /\ fru.opt.tool = "fruset" /\ fru.opt.do = "write" /\ fru.ret = "ok"
    /\ LET asked == fru.opt.asked
           area == [f \in Fields |-> IF f \in DOMAIN asked /\ asked[f] # <<>> THEN asked[f] ELSE fru.area[f]]
       IN  IF TooLong(fru.buf, asked) THEN Stops("error")
           ELSE \/ IF SetRefused(fru.buf, area) THEN Stops("error")
                   ELSE SetWrites(Product(fru.buf), Written(fru.buf, area))
                \/ Overrun(fru.buf, area) /\ Stops("crash")

\* What was written is read and shown.
SetAgain ==
    /\ fru.pc = "set again"
    /\ \E l \in SetLoads(fru, fru.opt.id) :
          fru' = (IF l.ok THEN [SetShown(l.p) EXCEPT !.pc = "done"] ELSE Ends("error")) /\ Fault(l.faults)
    /\ Kept

-----------------------------------------------------------------------------
(* fru -k.                                                                  *)

KontronStarts == Comes("kontron") /\ Begins(Head(programs), "ask")

Held == fru.opt.asked   \* what the board holds elsewhere

\* The serial number or the date; the size of the FRU; its header.
KontronAsks ==
    /\ fru.pc = "ask"
    /\ \/ fru' = Ends("error") /\ Fault(1)
       \/ /\ fru' = IF \/ Held = <<>> \/ (fru.opt.do = "setmfgdate" /\ (Len(Held) # 3 \/ Held = <<0, 0, 0>>))
                       \/ frus[0] = <<>> \/ At(frus[0], 0) # 1
                    THEN Ends("error") ELSE [fru EXCEPT !.pc = "load"]
          /\ Fault(0)
    /\ Kept

\* The header is the one that was read first.
KontronLoads ==
    /\ fru.pc = "load"
    /\ \E l \in Loads(fru, 0) :
          fru' = (IF l.ok THEN [l.p EXCEPT !.pc = "set"] ELSE Ends("error")) /\ Fault(l.faults)
    /\ Kept

\* get_fru_area_str: how long the text of a field is, or -1 if there is none; and
\* where the next field begins.
Text(b, i) ==
    LET n == At(b, i) % 64
        zeros == {k \in 1..n : At(b, i + k) = 0}
    IN  IF n = 0 THEN -1
        ELSE CASE At(b, i) \div 64 = 0 -> 2 * n
               [] At(b, i) \div 64 = 1 -> n
               [] At(b, i) \div 64 = 2 -> 4 * ((n + 2) \div 3)
               [] At(b, i) \div 64 = 3 -> IF zeros = {} THEN n ELSE (CHOOSE k \in zeros : \A j \in zeros : k <= j) - 1

Skip(b, from, fields) == FoldLeft(LAMBDA i, f : i + 1 + (At(b, i) % 64), from, [f \in 1..fields |-> f])

BoardSerial(b) == Skip(b, Area(b, 3) + 6, 2)
ProductSerial(b) == Skip(b, Product(b) + 3, 4)

\* "Calculate Header Checksum": of the bytes from the area's begin up to the last but
\* two before the next area, into the byte before that.
Summed(b, from, next) == [b EXCEPT ![next] = Checksum(Part(b, from, next - 2 - from))]

\* Without a next area the sum runs through all of the memory.
Sums(b, next) == next \in 1..Len(b)

SetSerial ==
    /\ fru.pc = "set" /\ fru.opt.do = "setsn"
    /\ LET b == fru.buf
           b1 == Over(b, BoardSerial(b) + 1, Held)
           b2 == Summed(b1, Area(b, 3), Product(b))
           b3 == Over(b2, ProductSerial(b2) + 1, Held)
       IN  IF Text(b, BoardSerial(b)) # Len(Held) THEN Stops("error")
           ELSE IF ~Sums(b, Product(b)) THEN Stops("crash")
           ELSE IF Text(b2, ProductSerial(b2)) = -1 THEN Stops("crash")
           ELSE IF Text(b2, ProductSerial(b2)) # Len(Held) THEN Stops("error")
           ELSE IF ~Sums(b, Area(b, 5)) THEN Stops("crash")
           ELSE Writes(0, 0, Summed(b3, Product(b), Area(b, 5)), Ends("ok"))

SetDate ==
    /\ fru.pc = "set" /\ fru.opt.do = "setmfgdate"
    /\ LET b == fru.buf
       IN  IF ~Sums(b, Product(b)) THEN Stops("crash")
           ELSE Writes(0, 0, Summed(Over(b, Area(b, 3) + 3, Held), Area(b, 3), Product(b)), Ends("ok"))

Next ==
    \/ Starts \/ Scan \/ Base \/ Show \/ Dump \/ DumpFile
    \/ RestoreRefused \/ Restore \/ Reload \/ WriteAsset \/ Again
    \/ SetStarts \/ SetScan \/ SetBase \/ SetDump \/ SetRestore \/ WriteProduct \/ SetAgain
    \/ KontronStarts \/ KontronAsks \/ KontronLoads \/ SetSerial \/ SetDate

-----------------------------------------------------------------------------
(* Properties.                                                             *)

Did(what) == ~Running /\ fru.opt.do = what /\ fru.ret = "ok" /\ ~fru.junk

\* The values of the product area's fields.
Values(b) ==
    LET at == FieldAt(b) IN [f \in {f \in Fields : at[f] # -1} |-> Value(b, at[f])]

RestoredTo(d) == \A i \in DOMAIN binfile : i \in DOMAIN fru.buf => frus[d][i] = binfile[i]

\* fru -a, -s and -v that return 0 have written what was asked for, kept every
\* other field, and left an area that is as long as it says and sums up to zero;
\* a dump that returns 0 is the device's, and a restore that returns 0 leaves
\* device 0 as the file has it (unless a read hid an error).
FruAsAsked ==
    /\ Did("write") /\ fru.opt.tool = "fru" =>
         LET old == Values(before[0])
             new == Values(frus[0])
         IN  /\ DOMAIN new = DOMAIN old
             /\ \A f \in DOMAIN new : new[f] = IF f \in DOMAIN fru.opt.asked THEN fru.opt.asked[f] ELSE old[f]
             /\ ProductLen(frus[0]) >= ProductLen(before[0])
             /\ Sum(Part(frus[0], Product(frus[0]), ProductLen(frus[0]))) = 0
    /\ Did("dump") => binfile = frus[fru.opt.id]
    /\ Did("restore") /\ fru.opt.tool = "fru" => RestoredTo(0)

\* What a write does not finish it may lose, but only in the product area: the
\* header, the areas before it, the multi-record area and the other devices stay.
OthersAreKept(d) ==
    (fru.opt.do = "write" /\ ~fru.junk /\ Product(before[d]) > 0) =>
        /\ \A e \in DOMAIN frus \ {d} : frus[e] = before[e]
        /\ \A i \in DOMAIN frus[d] :
              i <= Product(before[d]) \/ (Area(before[d], 5) > 0 /\ i > Area(before[d], 5)) =>
                  frus[d][i] = before[d][i]

\* doc/ifruset.8: what is not asked for is not modified.  ifruset that returns 0 has
\* set the fields that it was asked to and kept the others, in an area that sums up
\* to zero: unless there is no room for them all, or an old one has one character or
\* more than the program remembers.  A field that the device did not have is empty, or
\* it is that of another device, which was shown before.
SetAsAsked ==
    fru.opt.do # "none" /\ fru.opt.tool = "fruset" =>
        LET d == fru.opt.id
            old == Values(before[d])
            new == Values(frus[d])
            asked == {f \in DOMAIN fru.opt.asked : fru.opt.asked[f] # <<>>}
            Wanted(f) == IF f \in asked THEN fru.opt.asked[f] ELSE IF f \in DOMAIN old THEN old[f] ELSE <<>>
            Room(v) == FoldLeft(LAMBDA n, f : n + 1 + Len(v[f]), 0, [f \in 1..8 |-> f - 1])
        IN  /\ OthersAreKept(d)
            /\ Did("restore") => RestoredTo(d)
            /\ Did("write") /\ Product(before[d]) > 0 =>
                 /\ Sum(Part(frus[d], Product(frus[d]), ProductLen(frus[d]))) = 0
                 /\ (Room(fru.area) + Room([f \in Fields |-> Wanted(f)]) < Limit(before[d])
                      /\ \A f \in DOMAIN old : Len(old[f]) # 1 /\ Len(old[f]) <= FIELD_LEN) =>
                       \A f \in Fields :
                          /\ f \in DOMAIN new
                          /\ new[f] = Wanted(f) \/ (~fru.opt.only /\ f \notin DOMAIN old \cup asked)

\* "fru -k" that returns 0 has copied what the board holds into both areas, or into
\* the board's, and changes nothing but that and the checksums, even where it fails.
\* The areas sum up to zero, if they fill the room up to the next and there is
\* a zero before the checksum.
KontronAsAsked ==
    LET b == before[0]
        done == {at \in {BoardSerial(b) + 1, ProductSerial(b) + 1} : fru.opt.do = "setsn"}
                \cup {at \in {Area(b, 3) + 3} : fru.opt.do = "setmfgdate"}
        touched == {Product(b) - 1, Area(b, 5) - 1} \cup UNION {at..(at + Len(Held) - 1) : at \in done}
        Whole(a) == At(b, Area(b, a) + 1) * Unit = Area(b, a + 1) - Area(b, a) /\ At(b, Area(b, a + 1) - 2) = 0
    IN  fru.opt.do \in {"setsn", "setmfgdate"} /\ ~fru.junk =>
           /\ \A d \in DOMAIN frus \ {0} : frus[d] = before[d]
           /\ \A i \in (0..(Len(b) - 1)) \ touched : At(frus[0], i) = At(b, i)
           /\ ~Running /\ fru.ret = "ok" =>
                /\ \A at \in done : Part(frus[0], at, Len(Held)) = Held
                /\ \A a \in {3} \cup {x \in {4} : fru.opt.do = "setsn"} :
                      Whole(a) => Sum(Part(frus[0], Area(b, a), Area(b, a + 1) - Area(b, a))) = 0

InventoryAsAsked ==
    /\ FruAsAsked /\ SetAsAsked /\ KontronAsAsked
    /\ fru.opt.do # "none" /\ fru.opt.tool = "fru" => OthersAreKept(0)
=============================================================================
