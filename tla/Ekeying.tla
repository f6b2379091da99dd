-------------------------------- MODULE Ekeying --------------------------------
(***************************************************************************)
(* "ipmiutil ekanalyzer" (util/iekanalyzer.c), compiled with HAVE_EK: FRU files, as   *)
(* "fru -b" dumps them, are read into lists of their multi-records and shown       *)
(* (frushow, print); and summary says which links of two modules fit and are        *)
(* wired by the carrier.                                                        *)
(*                                                                         *)
(* A record is told by its kind, its length and its lists: of each item of a     *)
(* list, how many it has of what it is made up of.  The lengths are bytes.         *)
(* A carrier's record holds resources [rsc, ports], a port [remote, rport, local];  *)
(* a module's record [rsc, guids, channels, links], where a channel is four ports,  *)
(* one per lane, and a link [channel, lanes, type, ext, group, asym].             *)
(***************************************************************************)
EXTENDS Integers, SequencesExt

CONSTANT EkSetups   \* the calls: [cmd, opt, files]

VARIABLE ek         \* the program: [pc, call, lists, todo, first, found, out, ret]

\* File types, with their numbers: RTM is 0, AMC slots are 1 to 8.
ON_CARRIER_FRU_FILE == 9
CONFIG_FILE == 10
SHELF_MANAGER_FRU_FILE == 11
Slots == 0..8
NoType == -1  \* ERROR_STATUS

MAX_FILE_NUMBER == 8
START_DATA_OFFSET == 5

Sizes(S) == FoldLeft(LAMBDA x, y : x + y, 0, S)

-----------------------------------------------------------------------------
(* The records that are shown (ipmi_ek_display_record): so many bytes, then lists  *)
(* whose items have so many bytes each, and whose parts so many.  What ends a     *)
(* list: the number before it ("count"), or the record's length, which the end of *)
(* the next item's fixed bytes is compared with ("fits"), or its begin ("begins"),   *)
(* or its begin and another five bytes ("room").                                *)

List(ends, item, parts) == [ends |-> ends, item |-> item, parts |-> parts]

backplane_p2p_record == [fixed |-> 0, lists |-> <<List("fits", 3, <<3>>)>>]
address_table_record == [fixed |-> 21, lists |-> <<List("count", 3, <<>>)>>]
shelf_power_distribution_record == [fixed |-> 0, lists |-> <<List("count", 6, <<2>>)>>]
shelf_activation_record == [fixed |-> 1, lists |-> <<List("count", 5, <<>>)>>]
board_p2p_record == [fixed |-> 0, lists |-> <<List("count", 16, <<>>), List("begins", 4, <<>>)>>]
radial_ipmb0_record == [fixed |-> 6, lists |-> <<List("begins", 3, <<2>>)>>]
amc_current_record == [fixed |-> 1, lists |-> <<>>]
amc_activation_record == [fixed |-> 4, lists |-> <<List("begins", 3, <<>>)>>]
carrier_connectivity == [fixed |-> 0, lists |-> <<List("room", 2, <<3>>)>>]
amc_p2p_record ==
    [fixed |-> 0, lists |-> <<List("count", 16, <<>>), List("count", 3, <<>>), List("begins", 5, <<>>)>>]
amc_carrier_info_record == [fixed |-> 1, lists |-> <<List("count", 1, <<>>)>>]
clock_carrier_p2p_record == [fixed |-> 0, lists |-> <<List("count", 2, <<3>>)>>]
clock_config_record == [fixed |-> 1, lists |-> <<List("count", 4, <<2, 15>>)>>]

Layout ==
    [backplane |-> backplane_p2p_record, addresses |-> address_table_record,
     power |-> shelf_power_distribution_record, activation |-> shelf_activation_record,
     board |-> board_p2p_record, radial |-> radial_ipmb0_record, current |-> amc_current_record,
     modules |-> amc_activation_record, carrier |-> carrier_connectivity, amc |-> amc_p2p_record,
     info |-> amc_carrier_info_record, clocks |-> clock_carrier_p2p_record, clockcfg |-> clock_config_record]

Kinds == DOMAIN Layout

\* The resource id stands between the GUIDs and the channels of an AMC's record.
Between(kind, i) == IF kind = "amc" /\ i = 2 THEN 1 ELSE 0

ItemSize(list, item) == list.item + Sizes([p \in DOMAIN list.parts |-> list.parts[p] * item[p]])
ListSize(list, items) ==
    (IF list.ends = "count" THEN 1 ELSE 0) + Sizes([i \in DOMAIN items |-> ItemSize(list, items[i])])

\* The length that a record of that content has.
SizeOf(kind, lists) ==
    LET parts == Layout[kind].lists
    IN  START_DATA_OFFSET + Layout[kind].fixed
        + Sizes([i \in DOMAIN parts |-> Between(kind, i) + ListSize(parts[i], lists[i])])

Goes(ends, list, at, len) ==
    CASE ends = "fits"   -> at + list.item <= len
      [] ends = "begins" -> at < len
      [] ends = "room"   -> at <= len - START_DATA_OFFSET
      [] ends = "count"  -> TRUE

\* A list is shown: the items that are, where the display is then, and whether it
\* goes on behind what the list holds.
Walk(list, items, at, len) ==
    LET start == [shown |-> 0, at |-> at + (IF list.ends = "count" THEN 1 ELSE 0), on |-> TRUE]
        end == FoldLeft(LAMBDA s, item :
                            IF s.on /\ Goes(list.ends, list, s.at, len)
                            THEN [s EXCEPT !.shown = @ + 1, !.at = @ + ItemSize(list, item)]
                            ELSE [s EXCEPT !.on = FALSE],
                        start, items)
    IN  [shown |-> end.shown, at |-> end.at,
         past |-> list.ends # "count" /\ end.on /\ Goes(list.ends, list, end.at, len)]

\* A record is shown: how many items of each of its lists, and whether what is
\* shown may lie behind the record.  The addresses of the shelf manager are only
\* shown from records that are too short for them.
Display(r) ==
    IF r.kind = "address"
    THEN [shown |-> <<IF START_DATA_OFFSET > r.len THEN 3 ELSE 0>>, past |-> START_DATA_OFFSET > r.len]
    ELSE LET lists == Layout[r.kind].lists
             begin == START_DATA_OFFSET + Layout[r.kind].fixed
             end == FoldLeft(LAMBDA s, i :
                                 LET w == Walk(lists[i], r.lists[i], s.at + Between(r.kind, i), r.len)
                                 IN  [shown |-> Append(s.shown, w.shown), at |-> w.at, past |-> s.past \/ w.past],
                             [shown |-> <<>>, at |-> begin, past |-> FALSE],
                             [i \in DOMAIN lists |-> i])
         IN  [shown |-> end.shown, past |-> end.past \/ end.at > r.len]

\* A record that tells its length, and whose content fills it.
Record(kind, lists) == [kind |-> kind, lists |-> lists, len |-> SizeOf(kind, lists), last |-> FALSE, body |-> <<>>]

\* The records that tell what is wired, and what there is to be wired.
OfKind(kind, size, body) == [Record(kind, size) EXCEPT !.body = body]
CarrierRecord(body) == OfKind("carrier", <<[i \in DOMAIN body |-> <<Len(body[i].ports)>>]>>, body)
ModuleRecord(body) ==
    LET Each(s) == [i \in DOMAIN s |-> <<>>]
    IN  OfKind("amc", <<Each(body.guids), Each(body.channels), Each(body.links)>>, body)

-----------------------------------------------------------------------------
(* ipmi_ekanalyzer_fru_file2structure: the records up to the one that is marked    *)
(* as the last; those of length 0 are left out, with their marks.  Behind the     *)
(* last of a file without a mark another one is tried: what is read then is what  *)
(* was in memory, and may become a record.                                     *)

Stray == [kind |-> "stray", lists |-> <<>>, len |-> 1, last |-> FALSE, body |-> <<>>]

Structures(f) ==
    IF ~f.exists THEN {<<>>}
    ELSE LET ends == {i \in DOMAIN f.records : f.records[i].last /\ f.records[i].len > 0}
             whole == SelectSeq(IF ends = {} THEN f.records
                                ELSE SubSeq(f.records, 1, CHOOSE i \in ends : \A k \in ends : i <= k),
                                LAMBDA r : r.len > 0)
         IN  IF ends # {} \/ f.records = <<>> THEN {whole} ELSE {whole, Append(whole, Stray)}

-----------------------------------------------------------------------------
(* frushow.                                                                 *)

Areas == <<"chassis", "board", "product">>

\* ipmi_ek_display_fru_header_detail: the areas that are shown.  The internal area
\* is as long as the offset of the chassis or the board tells; without them all
\* of the file is dumped, and the product area is not shown then.
AreasShown(f) ==
    LET all == \A a \in {"chassis", "board"} : f.areas[a] = "none"
    IN  SelectSeq(Areas, LAMBDA a : /\ f.areas[a] # "none"
                                    /\ ~(a = "product" /\ all /\ f.internal))

\* ipmi_ek_display_board_info_area, "Custom": at the end mark, and behind the last
\* custom field, the pointer to the length is set to 0, not the length; it is
\* read next, unless the file is at its end.
AreaCrashes(end) == end \in {"mark", "custom"}

\* What frushow prints of a file: its areas and its records.
ShowFile(f, records) ==
    LET areas == AreasShown(f)
        bad == {i \in DOMAIN areas : AreaCrashes(f.areas[areas[i]])}
    IN  IF bad # {} THEN [out |-> <<>>, crash |-> TRUE]
        ELSE [out |-> [i \in DOMAIN records |-> records[i]], crash |-> FALSE]

-----------------------------------------------------------------------------
(* print.                                                                   *)

OfKinds(records, kinds) == SelectSeq(records, LAMBDA r : r.kind \in kinds)

\* "carrier": what the carriers' records say.
PrintCarriers(files, lists) ==
    FlattenSeq([i \in DOMAIN files |->
                   IF files[i].type = ON_CARRIER_FRU_FILE THEN OfKinds(lists[i], {"carrier", "info"}) ELSE <<>>])

\* ipmi_ek_display_power: a configuration file is passed over, and whatever is
\* named behind it is shown; behind the last there is nothing to show.
PowerFiles(files) ==
    FoldLeft(LAMBDA s, i : IF i < s.next THEN s
                           ELSE LET k == IF files[i].type = CONFIG_FILE THEN i + 1 ELSE i
                                IN  [next |-> k + 1, shown |-> Append(s.shown, k)],
             [next |-> 1, shown |-> <<>>], [i \in DOMAIN files |-> i]).shown

PrintPower(files, lists, all) ==
    LET shown == PowerFiles(files)
    IN  IF \E i \in DOMAIN shown : shown[i] > Len(files) THEN [out |-> <<>>, crash |-> TRUE]
        ELSE [crash |-> FALSE,
              out |-> FlattenSeq([i \in DOMAIN shown |->
                          OfKinds(lists[shown[i]],
                                  {"modules", "current"}
                                  \cup (IF all /\ files[shown[i]].type = ON_CARRIER_FRU_FILE
                                        THEN {"carrier", "info"} ELSE {}))])]

-----------------------------------------------------------------------------
DISABLE_PORT == 31
AMC_MODULE == 128
OEM_TYPES == 240..254

Site(rsc) == rsc % 16
IsModule(rsc) == rsc >= AMC_MODULE

-----------------------------------------------------------------------------
(* Links that fit (ipmi_ek_compare_link_descriptor).                            *)

SameOem(a, b) == (a = {} /\ b = {}) \/ a \cap b # {}

compare_link_descriptor(r1, a, r2, b) ==
    /\ a.type = b.type
    /\ a.type \in OEM_TYPES => SameOem(ToSet(r1.guids), ToSet(r2.guids))
    /\ a.ext = b.ext
    /\ a.asym \cap b.asym = {}
    /\ Cardinality(a.lanes) = Cardinality(b.lanes)

-----------------------------------------------------------------------------
(* Links that are wired (ipmi_ek_check_physical_connectivity).  Behind the last    *)
(* channel, and behind the last port, is what was in memory: stray tells whether   *)
(* that fits.                                                                *)

\* The resource that is looked at: the first that is named by one of the records,
\* or whose site is one of the two; a resource before it may have been an error.
Resource(carrier, t1, t2, names) ==
    LET Of(R) == IF R.rsc = AMC_MODULE THEN (IF t1 # ON_CARRIER_FRU_FILE THEN t1 ELSE t2) ELSE Site(R.rsc)
        Taken(R) == IF R.rsc \in names THEN R.ports # <<>> ELSE Of(R) > 0 /\ Of(R) \in {t1, t2}
        Wrong(R) == IF R.rsc \in names THEN R.ports = <<>> ELSE Of(R) = 0
        taken == {i \in DOMAIN carrier : Taken(carrier[i])}
        first == CHOOSE i \in taken : \A k \in taken : i <= k
    IN  IF taken = {} \/ (\E i \in 1..(first - 1) : Wrong(carrier[i])) THEN 0 ELSE first

\* The lanes up to the first that is disabled are at so many ports in a row.
compare_channel_descriptor(ch1, ch2, ports, j, rsc, stray) ==
    \A lane \in 1..4 :
       (\A k \in 2..lane : ch1[k] # DISABLE_PORT) =>
          IF j + lane - 1 > Len(ports) THEN stray
          ELSE LET p == ports[j + lane - 1]
               IN  IF IsModule(rsc) THEN ch1[lane] = p.local /\ ch2[lane] = p.rport
                   ELSE ch1[lane] = p.rport /\ ch2[lane] = p.local

SitesAgree(t1, t2, rsc2, R, p) ==
    IF t1 # ON_CARRIER_FRU_FILE
    THEN <<Site(R.rsc), Site(p.remote)>> \in {<<t1, t2>>, <<t2, t1>>}
    ELSE <<R.rsc, Site(p.remote)>> = <<rsc2, t2>> \/ <<Site(R.rsc), p.remote>> = <<t2, rsc2>>

check_physical_connectivity(carrier, t1, t2, r1, c1, r2, c2, stray) ==
    LET i == Resource(carrier, t1, t2, {r1.rsc, r2.rsc})
    IN  /\ i # 0
        /\ \/ carrier[i].ports = <<>>
           \/ c1 \notin DOMAIN r1.channels /\ stray
           \/ /\ c1 \in DOMAIN r1.channels
              /\ \/ r1.channels[c1][1] = DISABLE_PORT
                 \/ c2 \notin DOMAIN r2.channels /\ stray
                 \/ /\ c2 \in DOMAIN r2.channels
                    /\ \E j \in DOMAIN carrier[i].ports :
                          /\ compare_channel_descriptor(r1.channels[c1], r2.channels[c2],
                                                        carrier[i].ports, j, carrier[i].rsc, stray)
                          /\ SitesAgree(t1, t2, r2.rsc, carrier[i], carrier[i].ports[j])

-----------------------------------------------------------------------------
(* ipmi_ek_compare_link: the links of two records.                             *)

Grouped(link) == link.group # 0

\* A channel is counted from that of the first link, which is static, one for links
\* with a group and one for those without, and set when a first link fits.
CompareLink(s, carrier, t1, t2, r1, r2, stray) ==
    LET pairs == FlattenSeq([i \in DOMAIN r1.links |-> [j \in DOMAIN r2.links |-> <<i, j>>]])
        Compare(u, ij) ==
            LET i == ij[1]
                j == ij[2]
                a == r1.links[i]
                b == r2.links[j]
                g == Grouped(a)
                first == <<IF i = 1 THEN a.channel ELSE u.first[g][1], IF j = 1 THEN b.channel ELSE u.first[g][2]>>
                wired == check_physical_connectivity(carrier, t1, t2, r1, a.channel - first[1] + 1,
                                                     r2, b.channel - first[2] + 1, stray)
            IN  IF \/ \E m \in u.here : m[1] = i
                   \/ Grouped(b) # g
                   \/ ~compare_link_descriptor(r1, a, r2, b)
                THEN u
                ELSE [first |-> [u.first EXCEPT ![g] = first],
                      here |-> IF wired THEN u.here \cup {ij} ELSE u.here]
        end == FoldLeft(Compare, [first |-> s.first, here |-> {}], pairs)
    IN  [first |-> end.first,
         found |-> s.found \cup {[t1 |-> t1, t2 |-> t2, r1 |-> r1, r2 |-> r2, a |-> m[1], b |-> m[2]] : m \in end.here}]

\* A record without links is not created.
Created(r) == r.body.links # <<>>

\* ipmi_ek_matching_process: the records of the first module in the second array
\* are not counted from its begin again for the next record of the other.
Overruns(rs1, rs2) ==
    LET used == Cardinality({i \in DOMAIN rs1 : Created(rs1[i])}) * Cardinality({i \in DOMAIN rs2 : Created(rs2[i])})
    IN  used > Len(rs2) \/ (used = Len(rs2) /\ ~Created(Last(rs2)))

matching_process(s, files, lists, index1, index2, carrier, stray) ==
    LET i == IF files[index2].type = ON_CARRIER_FRU_FILE THEN index2 ELSE index1
        k == IF i = index2 THEN index1 ELSE index2
        of1 == OfKinds(lists[k], {"amc"})
        of2 == OfKinds(lists[i], {"amc"})
        pairs == FlattenSeq([a \in DOMAIN of1 |-> [b \in DOMAIN of2 |-> <<of1[a], of2[b]>>]])
        end == FoldLeft(LAMBDA u, p : CompareLink(u, carrier, files[i].type, files[k].type, p[1].body, p[2].body, stray),
                        [first |-> s.first, found |-> s.found],
                        SelectSeq(pairs, LAMBDA p : Created(p[1]) /\ Created(p[2])))
    IN  [s EXCEPT !.first = end.first, !.found = end.found,
                  !.over = @ \/ (of1 # <<>> /\ of2 # <<>> /\ Overruns(of1, of2))]

-----------------------------------------------------------------------------
(* The program.                                                             *)

NoCall == [cmd |-> "none", opt |-> "none", files |-> <<>>]
NoLinks == [g \in BOOLEAN |-> <<0, 0>>]
AtRest == [pc |-> "done", call |-> NoCall, lists |-> <<>>, todo |-> <<>>,
           first |-> NoLinks, found |-> {}, over |-> FALSE, out |-> <<>>, ret |-> "none"]

Rests == ek = AtRest
Init == \E call \in EkSetups : ek = [AtRest EXCEPT !.pc = "start", !.call = call]

Files == ek.call.files
Given == Len(Files) + (IF ek.call.opt = "none" THEN 0 ELSE 1)
Fixed(file) == file.type \in {ON_CARRIER_FRU_FILE, CONFIG_FILE, SHELF_MANAGER_FRU_FILE}

\* What is refused, by ipmi_ekanalyzer_main and by what it calls.
Refused ==
    \/ Given > MAX_FILE_NUMBER \/ Files = <<>>
    \/ /\ ek.call.cmd # "frushow"
       /\ ek.call.opt = "invalid" \/ \E i \in DOMAIN Files : Files[i].type = NoType
    \/ /\ ek.call.cmd = "print"
       /\ \/ ek.call.opt \in {"match", "unmatch"}
          \/ ek.call.opt \in {"carrier", "none"} /\ \A i \in DOMAIN Files : Files[i].type # ON_CARRIER_FRU_FILE
    \/ /\ ek.call.cmd = "summary"
       /\ \/ ek.call.opt \in {"carrier", "power"}
          \/ \A i \in DOMAIN Files : Fixed(Files[i])
          \/ \A i \in DOMAIN Files : ~Fixed(Files[i])

\* Two files that are compared: neither a configuration, nor both carriers.
Compared(i, k) ==
    /\ i < k
    /\ CONFIG_FILE \notin {Files[i].type, Files[k].type}
    /\ {Files[i].type, Files[k].type} # {ON_CARRIER_FRU_FILE}

Refuse ==
    /\ ek.pc = "start" /\ Refused
    /\ ek' = [ek EXCEPT !.pc = "done", !.ret = "error"]

\* The files are read.
file2structure ==
    /\ ek.pc = "start" /\ ~Refused
    /\ \E lists \in [DOMAIN Files -> UNION {Structures(Files[i]) : i \in DOMAIN Files}] :
          /\ \A i \in DOMAIN Files : lists[i] \in Structures(Files[i])
          /\ ek' = [ek EXCEPT !.pc = ek.call.cmd, !.lists = lists,
                              !.todo = LET n == Len(Files)
                                           all == [x \in 1..(n * n) |-> <<((x - 1) \div n) + 1, ((x - 1) % n) + 1>>]
                                       IN  SelectSeq(all, LAMBDA p : Compared(p[1], p[2]))]

Show(what) == ek' = [ek EXCEPT !.pc = "done", !.out = what.out, !.ret = IF what.crash THEN "crash" ELSE "ok"]

\* Each file's areas and records; one of a bad type, or that is missing, gets a
\* message, a configuration is passed over.
frushow ==
    /\ ek.pc = "frushow"
    /\ LET Passed(i) == Files[i].type \in {NoType, CONFIG_FILE} \/ ~Files[i].exists
           shown == [i \in DOMAIN Files |-> IF Passed(i) THEN [out |-> <<>>, crash |-> FALSE]
                                            ELSE ShowFile(Files[i], ek.lists[i])]
       IN  Show([out |-> FlattenSeq([i \in DOMAIN Files |-> shown[i].out]),
                 crash |-> \E i \in DOMAIN Files : shown[i].crash])

print ==
    /\ ek.pc = "print"
    /\ Show(IF ek.call.opt \in {"carrier", "none"}
            THEN [out |-> PrintCarriers(Files, ek.lists), crash |-> FALSE]
            ELSE PrintPower(Files, ek.lists, ek.call.opt = "all"))

\* The first record of the first carrier is what all links are looked up in.
CarrierP2P ==
    LET carriers == {i \in DOMAIN Files : Files[i].type = ON_CARRIER_FRU_FILE}
        first == CHOOSE i \in carriers : \A k \in carriers : i <= k
    IN  IF carriers = {} \/ ek.lists = <<>> THEN <<>> ELSE OfKinds(ek.lists[first], {"carrier"})

\* Without such a record nothing is wired.
ekeying_match ==
    /\ ek.pc = "summary" /\ ek.todo # <<>>
    /\ \E stray \in BOOLEAN :
          LET p == Head(ek.todo)
              carrier == IF CarrierP2P = <<>> THEN <<>> ELSE Head(CarrierP2P).body
          IN  ek' = [matching_process(ek, Files, ek.lists, p[1], p[2], carrier, stray) EXCEPT !.todo = Tail(@)]

\* Records may have been written behind their array, which may crash it.
Summarized ==
    /\ ek.pc = "summary" /\ ek.todo = <<>>
    /\ \E ret \in {"ok"} \cup (IF ek.over THEN {"crash"} ELSE {}) : ek' = [ek EXCEPT !.pc = "done", !.ret = ret]

Next == Refuse \/ file2structure \/ frushow \/ print \/ ekeying_match \/ Summarized

-----------------------------------------------------------------------------
(* Properties.                                                             *)

Enabled(ch) == {lane \in 1..4 : \A k \in 1..lane : ch[k] # DISABLE_PORT}
Channel(r, link) == r.channels[link.channel - r.links[1].channel + 1]
HasChannel(r, link) == link.channel - r.links[1].channel + 1 \in DOMAIN r.channels

\* A wire of the carrier's, whichever of its ends is the resource.
Wires(carrier, a, pa, b, pb) ==
    \E R \in ToSet(carrier) : \E p \in ToSet(R.ports) :
       \/ R.rsc = a /\ p.local = pa /\ p.remote = b /\ p.rport = pb
       \/ R.rsc = b /\ p.local = pb /\ p.remote = a /\ p.rport = pa

Wired(carrier, site, r1, a, r2, b) ==
    /\ HasChannel(r1, a) /\ HasChannel(r2, b)
    /\ \A lane \in Enabled(Channel(r1, a)) :
          Wires(carrier, AMC_MODULE + site, Channel(r1, a)[lane], r2.rsc, Channel(r2, b)[lane])

\* What the analysis relies on: channels that count from 0 and links that name
\* them, wires that lead to modules, resources that have ports.
Orderly(r) == r.links # <<>> /\ r.links[1].channel = 0 /\ \A l \in ToSet(r.links) : HasChannel(r, l)
OrderlyCarrier(carrier) ==
    \A R \in ToSet(carrier) :
       /\ R.ports # <<>>
       /\ IsModule(R.rsc) \/ \A p \in ToSet(R.ports) : IsModule(p.remote)
       /\ \A p \in ToSet(R.ports) : IsModule(R.rsc) => ~IsModule(p.remote)

TheCarrier == IF CarrierP2P = <<>> THEN <<>> ELSE Head(CarrierP2P).body

\* summary: of a link that is said to match between a module and a device of the
\* carrier, the carrier wires each lane to the port of the other's.
MatchesAreReal ==
    ek.found # {} /\ OrderlyCarrier(TheCarrier) =>
       \A m \in ek.found :
          m.t1 = ON_CARRIER_FRU_FILE /\ Orderly(m.r1) /\ Orderly(m.r2) =>
             Wired(TheCarrier, m.t2, m.r1, m.r1.links[m.a], m.r2, m.r2.links[m.b])

\* The resource's ports are the lanes of the two channels, in their order.
InOrder(R, site, ch1, ch2) ==
    \E j \in DOMAIN R.ports : \A lane \in Enabled(ch1) :
       /\ j + lane - 1 \in DOMAIN R.ports
       /\ R.ports[j + lane - 1] = [remote |-> AMC_MODULE + site, rport |-> ch1[lane], local |-> ch2[lane]]

\* summary: if the carrier has the one resource that both ask for, its ports in the
\* lanes' order, no link that fits and is wired is missed.
NoMatchIsMissed ==
    ek.call.cmd = "summary" /\ ek.ret = "ok" /\ Len(TheCarrier) = 1 =>
       \A k, i \in DOMAIN Files : Files[k].type \in Slots /\ Files[i].type = ON_CARRIER_FRU_FILE =>
          \A rec1 \in ToSet(OfKinds(ek.lists[k], {"amc"})), rec2 \in ToSet(OfKinds(ek.lists[i], {"amc"})) :
             LET r1 == rec1.body
                 r2 == rec2.body
                 InReach(a, b) ==
                    /\ Grouped(r1.links[a]) = Grouped(r2.links[b])
                    /\ compare_link_descriptor(r1, r1.links[a], r2, r2.links[b])
                    /\ InOrder(TheCarrier[1], Files[k].type, Channel(r1, r1.links[a]), Channel(r2, r2.links[b]))
             IN  r2.rsc = TheCarrier[1].rsc /\ Orderly(r1) /\ Orderly(r2) =>
                    \A a \in DOMAIN r1.links :
                       (\E b \in DOMAIN r2.links : InReach(a, b)) => \E m \in ek.found : m.r1 = r1 /\ m.r2 = r2 /\ m.a = a

\* frushow: a record whose content is as long as it says is shown to its end, and no
\* further - but for the shelf manager's addresses, and the resources without
\* ports that a carrier's record ends with.
RecordsAreShownWhole ==
    ek.call.cmd = "frushow" /\ ek.ret = "ok" =>
       \A r \in ToSet(ek.out) :
          /\ r.kind \in Kinds /\ r.len = SizeOf(r.kind, r.lists)
          /\ r.kind = "carrier" => r.lists[1] # <<>> /\ Last(r.lists[1])[1] > 0
          => LET d == Display(r)
             IN  ~d.past /\ \A i \in DOMAIN r.lists : d.shown[i] = Len(r.lists[i])
=============================================================================
