# A verification development for ipmiutil

ipmiutil manages servers through their management controller (the BMC): it
opens a session over the LAN or talks to a local driver, sends one command at a
time, and builds its utilities (event log, sensors, resets, firmware upgrade,
serial console) on that exchange.  This directory models the parts of it where
order, loss, retries and leftover state decide what happens, checks them with
TLC on small instances, and proves the core's properties with TLAPS.

## 1. Inventory

| Component | State it keeps | Operations | What makes it correct | Model |
|---|---|---|---|---|
| RMCP+ command engine (`lib/lanplus/lanplus.c`, `util/ipmilanplus.c`) | the list of outstanding requests, the IPMI sequence number, the session timeout, the bridge target | `ipmi_cmdraw_lan2`, `ipmi_lanplus_keepalive`, `ipmi_lanplus_send_payload`, `ipmi_lan_poll_recv` | an answer is paired with its own request, once; a call returns; what a call leaves behind harms no later one | `LanplusCmd` |
| RMCP+ request list | linked cells with head and tail, `msg_data` owned by an entry | add, lookup, remove, clear | it is a queue; each buffer is freed once | `RqList`, `RequestList` |
| RMCP+ session establishment | session state, ids, random numbers, sequence numbers, privilege | `ipmi_lanplus_open`, open session, RAKP 1 to 4, set privilege, close | both ends agree on an active session; nothing is left open on failure | `LanplusOpen` |
| RMCP+ Serial-over-LAN | send and receive sequence numbers, last character count | `lan2_send_sol`, `lan2_recv_sol`, `ipmi_lanplus_send_sol`, acknowledgements | characters arrive once and in order in both directions | `LanplusSol`, `SolStream` |
| RMCP+ cryptography (`lanplus_crypt*.c`) | none | HMACs, key derivation, AES | computations over bytes | no |
| SOL console (`util/isol.c`) | escape state, script, payload, the session's kind | `i_sol`, `sol_data_loop`, `sol_input_handler` | what is typed reaches the session in order, commands are found, the end ends it and releases the BMC's console | `SolConsole` |
| IPMI 1.5 LAN driver (`util/ipmilan.c`) | header with sequence number and session id, socket, bridge level | `ipmi_open_lan`, `ipmicmd_lan`, `_send_lan_cmd`, `ipmi_close_lan`, `sig_abort`, SOL 1.5 | the answer is that of the command; an opened session is the BMC's; failures leave nothing that harms the next open | `IpmiLan15` (without SOL 1.5) |
| Direct driver (`util/ipmidir.c`, `util/ipmicmd.c`) | the interface's registers, the lock file, open state | `SendTimedImbpRequest_kcs`, `ipmi_open_direct`, close | whole messages or an error; bounded waits; one user at a time | `KcsDriver`, `Exchange` |
| SEL and event daemon (`util/isel.c`, `util/igetevent.c`) | last record id and time, the index files | `getevent_sel`, `syncevent_sel`, `ReadSEL`, `ClearSEL` | every event is reported, once, across clears and restarts; nothing that was read is cleared without a copy | `SelLog`, `GetEvt`, `Isel`, `SelFollow` |
| HPM upgrade (`util/ihpm.c`) | block number and length, image pointer, retry counters, session | prepare, backup, upload, finish, activate, rollback, waits | the target gets the image; what is activated is whole; it ends | `HpmUpgrade`, `Maintenance` |
| Kontron upgrade (`util/ifwum.c`) | upload address, number and length | save blocks, finish, upgrade, rollback | as above | `FwumUpgrade`, `Maintenance` |
| Configuration (`util/iconfig.c`, `ilan.c`, `iuser.c`, `iserial.c`) | the BMC's parameters, the saved file | save, restore; lan `-e`, `-d`; user; serial | what returns 0 has done what was asked; a restore equals the file; the address changes quietly | `BmcConfig`, `LanConfig`, `ConfigFile`, `Configuration` |
| Sensor data records (`util/isensor.c`) | reservation, cache, file | dump, show, restore, jumpstart | no record is put together from two versions; success is complete | `SdrRepository` |
| Discovery (`util/idiscover.c`) | address, counters, sockets | `sock_init`, `sendThread`, `receiveThread` | the range is probed, who is there is found, the search ends | `Discover` |
| Other drivers (`imbapi.c`, `ipmimv.c`, ...) | handles of other systems' drivers | open, one request, close | wrappers of one ioctl | no |
| FRU inventory (`util/ifru.c`, `ifruset.c`, `oem_kontron.c`) | the buffer, the offsets of the writable fields, the fields last shown, the dump file | show, dump, restore, write version, serial number and asset tag; `ifruset`: any field of any device; `fru -k`: a Kontron board's serial number and date | what was asked is written, the rest survives; a restore equals the dump | `Fru`, `Maintenance` |
| FRU analyzer (`util/iekanalyzer.c`) | lists of records | frushow, print, summary | a link is matched if both ends agree and it is wired | `Ekeying`, `Maintenance` |
| Sensors (`util/isensor.c`, `oem_*.c`) | thresholds, hysteresis, enabled events in the BMC; the line saved | thresholds from raw values or readings, rearm, save, show | what is set is what was asked, in order, for the sensor asked for | `SensorConfig`, `Configuration` |
| Event decoding (`util/ievents.c`, `isel.c`, `oem_*.c`) | the sensor file, the raw file | list, decode records, files and traps, send an event | a fault and its end are told apart, the worse is the more of an alarm, no record is passed over | `Events`, `Configuration` |
| Watchdog and reset (`util/iwdt.c`, `util/ireset.c`, `scripts/ipmiutil_wdt`) | the BMC's watchdog and boot options, cron's job | `wdt -e -d -r`, `reset`, the script's start and stop, cron's `wdt -r` | a machine that hangs is reset, one that is well is not; the boot device is used by the reset it was set for | `Chassis`, `Maintenance` |
| Alarms and LEDs (`util/ialarms.c`) | in the BMC: panel, enclosure, vendors' LEDs | read, change one bit, write | the LED asked for changes, no other | `PanelConfig`, `Configuration` |
| Firmware firewall (`util/ifirewall.c`) | in the BMC: masks by LUN, NetFn, command, sub-function | read, enable, disable, reset | what was asked is enabled or disabled, nothing else | `FirewallConfig`, `Configuration` |
| DCMI, PICMG (`util/idcmi.c`, `ipicmg.c`) | in the BMC or the shelf | power limit, names, FRUs, ports, clocks, LEDs | what is read back and sent along survives | `PlatformConfig`, `Configuration` |
| Dell OEM (`util/oem_dell.c`) | in the BMC | LCD, NIC, power cap, LEDs, system information | as above | `DellConfig`, `Configuration` |
| Health, other OEM commands | in the BMC | single commands | what the BMC does | no |

Components interact by calls: every utility calls `ipmi_cmd` or `ipmi_cmdraw`,
which dispatch to one driver; the SOL console calls the RMCP+ SOL functions,
and these call back `sol_input_handler` from inside a send or a keepalive.
Programs interact through the BMC: the daemon, the cron job and the user share
the event log, two programs share the SDR reservation, the direct driver's
users share the interface and its lock file, cron and the init script share the
watchdog with the user, and one program sets what another reads.  A program is single threaded but for its interrupt handlers.  The hard
behaviours come from the network (requests and responses lost, late, duplicated,
reordered), from state that outlives a call (request list, sequence numbers,
timeout, static buffers, index files), from kills between two steps, and from
errors half way through a sequence of commands.

`PROJECT.json` lists every component with its status, and the hazards with the
line where each bites and the properties that watch it.

## 2. Modules

How they fit: `LanplusOpen` establishes what `LanplusCmd` and `LanplusSol`
start from; all three run over `ipmi_lanplus_send_payload` and
`ipmi_lan_poll_recv`, each with the part of them that its payloads reach.
`RequestList` is the abstract list of outstanding requests: `LanplusCmd` uses
it (`UsesRequestList`, checked and proved) and `RqList` implements it in memory
(`IsRequestList`, checked and proved).  `SolStream` is the abstract stream that
`LanplusSol` implements towards the user's screen.  `SolConsole` is the program
on top of it.  `IpmiLan15` is the other LAN driver and shares no state with
these, and `KcsDriver` the local one.  The other modules are utilities over
whichever driver: a command is one step with an answer, a refusal or none.
`SdrRepository` is such a utility run twice at a time.  A module `X_proofs`
extends `X` with its theorems and is described in section 4.

**LanplusCmd.**  A call enters with `Begin` (`Command`, `Keepalive`).
`Transmit` builds a request, which takes the next number and lists it (a bridged
one lists two entries under one number), and sends it; `TransmitFails` is any
failure on that way, with what was listed before it.  The receive actions are
one per way out of the loop of `ipmi_lan_poll_recv`: `DropUnexpected`,
`AwaitBridged` (the acknowledgement of a Send Message), `Answered`, and the
`Stray` ones for packets that answer nothing (SOL packets, pongs, unreadable
packets), of which another may always come (`StrayArrives`).  `Timeout` is
`select()` expiring.  `drain` is the loop of the keepalive over SOL data.

**LanplusOpen.**  One `pc` value per exchange: `authcap`, `opensess`, `rakp1`,
`rakp3`, `setpriv`, `close`.  `OpenLan2` and `CloseLan2` are the callers;
`Setup` makes socket and session; `Transmit`, `SendFails`, `Timeout`,
`Skip`, `Reject` and `RejectUnreadable` are shared by the exchanges; `Answer`
is the step that takes a reply, by exchange (`TakeAuthCap`, ..., `TakeClose`).
A random number is the number of the transmission or of the request it was made
for, and an HMAC is the pair of random numbers it covers.

**LanplusSol.**  `Type` and `SendExtra` are the user, `Transmit` and the
receive actions `ipmi_lanplus_send_payload`, `PartlyAcked` the loop of
`ipmi_lanplus_send_sol` that sends rests, `OutputArrives` and `Keepalive` the
other two places that read the socket.  Characters are numbers in their order,
so that loss, repetition and reordering are visible.

**RqList.**  `cell`, `cells` and `bufs` are the memory; malloc may give out
again whatever was freed.  `BuildAndSend`, `BuildFails`, `BuildV15Fails`,
`RemoveEntry` and `ClearEntries` are the code's operations on the list, with
their failures.  A use of what is not allocated sets `undefined`.

**IpmiLan15.**  `op` is the exchange in progress, `io` where
`_send_lan_cmd` is in it.  `Open`, `Command` (which re-opens a closed
connection), `Close` and `Flush` are the callers, `Interrupt` is `sig_abort`.
`Transmit`, `SendFails`, `Timeout`, `ReceiveFails`, `AwaitBridged`,
`LeaveBridged` and `Take` are the ways through the loop; `Done` ends the loop
and continues with what the caller of the exchange does with its result
(`AfterAuth`, ..., `AfterClose`).  That a BMC speaks IPMI 2.0, so that the open
ends with `LAN_ERR_V2`, is a choice.  The interrupt handler runs between two
steps; the interrupted exchange is never resumed, since the process ends.

**SolConsole.**  `Identify` and `Activate` are `i_sol` up to the loop,
`Receive`, `ReadInput`, `ReadEof` and `ReadScript` the turns of `sol_data_loop`,
in the order in which `select()`'s results are tested.  A read takes any number
of the characters typed.  `Parse` is the loop of `sol_input_handler` over a
read, `Send` its retries; `Close` is `do_exit`.

**KcsDriver.**  A step is one access to a register (`BmcTakes` is the BMC's
reaction), so that programs can be killed, and the BMC be slow, between any two.
The waits are bounded by `max_kcs_loop`: a wait that ends without the flag is
a choice that sets `late`.  `Exchange` is the abstract specification of a
driver: a request runs at most once and only if asked for, and an answer
belongs to it; `Implements` maps the bytes that passed to its requests.

**SelLog, GetEvt, Isel, SelFollow.**  `SelLog` is the BMC's log: ids start again
when it is cleared.  `GetEvt` is the daemon `getevent -s`: a poll is two
commands (`SeesNext`, `ReadNew`), then filtering, showing and saving, each a
step of its own; `Kill` and `Signal` may come between.  `Isel` is `sel -w`,
`-e` and `-d` as `scripts/checksel` calls them.  `SelFollow` puts them side by
side over one log.  `reservedTo` is what was in the log when a clear reserved it.

**HpmUpgrade.**  `stage` is the function that runs, `up` the state of
`HpmFwupgActionUploadFirmware`, and `Send` the way of `HpmfwupgSendCmd` through
its retries and made-up answers.  `Complete` is the target that ends a command
of long duration.  A byte of the image is its position, so that loss and
repetition show in what the target stored.

**FwumUpgrade.**  `Command` is a row of `KfwumMain`; `Busy`, `Deliver`,
`Refuse` and `Lose` are the outcomes of a block in `KfwumSaveFirmwareImage` for
the controller's two protocols.

**Chassis.**  A program is the list of its commands (`WdtCommands`,
`ResetCommands`), each with what its failure does to the program and its result.
The administrator's program, cron's and init's run at the same time and
interleave by commands (`Carries`, `Fails`, `Done`); `ScriptStart`, `ScriptStop`
and `CronJob` are the script.  The machine is external: its watchdog counts
down with `Tick`, the operating system hangs (`Hang`), ends (`StopsServices`,
`EndOfOs`) and starts (`Boots`).  `guard` says what the watchdog is there for.

**Fru.**  A device is its bytes.  `Loads` is `load_fru` with a chunk that is
refused, `Shown` what `show_fru` remembers and repairs, `NewArea` and `Refused`
are `write_asset` byte by byte, `Writes` and `WriteFails` the chunks of
`write_fru_data`; `Scan` to `Again` are the parts of `i_fru` between commands.

The other two programs that write a FRU are told apart by `tool`.  `SetStarts` to
`SetAgain` are `ifruset`, which remembers every field of what it shows (`area`)
and puts the product area together from that (`NewFields`, `Written`);
`KontronStarts` to `SetDate` are `fru -k`.

**Ekeying.**  A record of a FRU file is told by its kind, length and lists.
`file2structure`, `frushow` and `print` read files into the analyzer's lists
and show them; `ekeying_match` is `summary`, which matches the links of two modules, or of a module
and the carrier, over the carrier's connections.  The analyzer is only built
with `HAVE_EK`.

**Maintenance** runs either upgrade, with what is asked of both, `Chassis`,
`Fru` or `Ekeying`.  They share nothing.

**Discover.**  `SockInit` looks at the addresses, `NextAddress` and `SendProbe`
are the loops of `sendThread` over addresses and repetitions, `Timeout`,
`Show`, `SkipOther`, `ReceiveFails` and `SelectFails` the ways out of the wait
in `receiveThread`.  `TakeForeign` takes a stranger's RMCP packet, or one with a
broadcast source, which the code does not count.  An answer is the node it comes from: it does not say which
probe it belongs to, and that is what goes wrong with late ones.

**BmcConfig, LanConfig, ConfigFile, Configuration.**
A BMC is a function from parameters to values (`conf`).  A program is a list of
set commands (`todo`), computed from its options and from what it could read,
each with what its function does when the command fails, with 0xC1 of the PEF
parameters by itself, because it ends their use; `Carries` and `Fails` work it off.  `Configuration` runs such programs in a row, with a saved file
that may go to another BMC.

**DellConfig, PanelConfig, FirewallConfig, PlatformConfig, SensorConfig.**
Further programs over the same `conf`.  Most of them read a parameter, change a
part of it and send it back, so that what a failed read leaves behind matters: an
error, zeros, or what was in memory (`junk`).  A byte of panel LEDs is the set
of its 1 bits, a mask of the firewall the set of what it allows; readings of
sensors are in hundredths of their unit, and only linear sensors are converted.
`VendorStatus` is what a vendor's decoder makes of a reading (`decode_oem_sensor`),
one operator per vendor, `ShownStatus` the word shown, and `ShownAsItIs` asks of it
that a fault and its absence are told apart, but for what `Faulty` and section 5 name.
Each module has the property of its program (`DellAsAsked`, `PanelAsAsked`,
...), and `AsAsked` is their conjunction.

**Events.**  A record has its bytes, the text shown is the name of a table and
the place in it, with the severity.  `StandardEvent` is the default decoder, one
operator per sensor type that has rules of its own, and `SensDesc` its table;
`IntelEvent`, `SupermicroEvent`, `KontronEvent`, `QuantaEvent`, `DellEvent`,
`FujitsuEvent`, `LenovoEvent` and `NewisysEvent` are the vendors', which come first;
Fujitsu's text and severity are the BMC's answer to another command.  `ListedEvents`, `FileRecords` and
`RecordOf` are what `sel`, `events -f` and `events -p` make of the log, of a file
and of a trap.

**SdrRepository.**  A record is read and written in chunks under a reservation
that others cancel; a chunk carries the version of the record it came from.
`Step` is a program's next command, `Change` somebody else's change.  `file` is
the dump as it is on the disk: `Open` empties it and `Write` lays the cache over
what is there (`Laid`), both with their failures, `Part` being what a full disk
keeps; what lies where no record was written is `Junk`.  `Reread` is the
jumpstart that reads what it has written.  Another program may write the same
file at any time (`clobbered`).

**The BMC and the network** are external.  The modules take from them what the
code takes for granted: one answer per request received (two for a bridged
one), and packets that are lost, late, duplicated or reordered, within the
bounds below.  In `LanplusOpen` the BMC grants a new id to every open request
it receives; its inactivity timeouts are left out, so that sessions end only by
the close command.  Packets for an earlier socket do not reach a new one.

## 3. Runs

All runs pass.

| Run | What it asks | Distinct states |
|---|---|---|
| `lanplus_cmd` | Responses are paired with the right requests and accepted once, the list is used as a `RequestList`, and every call returns unless packets that answer nothing never end. | 0.41 M |
| `open_handshake` | Console and BMC agree on session, random numbers and privilege; a failed open leaves nothing usable; an active session is closed before it is forgotten; the open returns. | 0.57 M |
| `sol_streams` | What is typed reaches the BMC once and in order, what the BMC sends is shown once and in order, nothing acknowledged is lost, and every send ends, with breaks and empty packets between. | 1.4 M |
| `sol_console` | Escape sequences are found whichever way reads split them, the rest arrives as typed, the end is obeyed, and the BMC's console is released. | 22 k |
| `request_list` | The cells are the abstract list, whatever malloc does; nothing leaks. | 15 k |
| `lan15_session` | An opened session is active in the BMC, answers are own, numbers fresh, calls return. | 1.1 M |
| `kcs_exchange` | An exchange that meets no slow BMC succeeds whatever a killed program left; nothing runs twice or unasked; calls return. | 0.35 M |
| `sel_follow` | Events are shown in order, once, none passed over, through clears, deaths and restarts; syslog gets each record once; no clear erases what came after its reservation, nor `checksel` what `sel -e` has read and not copied; events are shown at last. | 1.3 M |
| `maintenance` | What the target of an upgrade accepts is the file, byte by byte; success means success, of upgrades, `wdt`, `reset`, `fru` and `ekanalyzer`; the upgrade ends; a machine that is well is not reset by the watchdog, and one that hangs is; what the FRU analyzer shows as matched fits. | 0.26 M |
| `discover` | Every address of the range is probed as often as asked; a node is found through one loss; the search ends whatever a raw socket hears, unless packets that it does not count never end. | 0.80 M |
| `bmc_config` | A restore that returns 0 has restored the file; the programs that set something and return 0 have done what was asked; what is shown of events is what they say; the address is changed quietly. | 0.82 M |
| `sdr_repository` | No record is torn, what a dump that succeeds has saved is in the file, success is complete, programs that disturb each other end. | 0.42 M |

### Bounds

Every bound is a CONSTANT marked `bound:` in its module, or is named here.

- `LanplusCmd`: two calls of two tries, numbers modulo 3 (64 in the code), one
  duplicate; packets that answer nothing come without bound, one at a time, as
  one leaves nothing behind for the next.  Enough for a late answer to meet the next call, for a number to come
  round while an entry carries it, and for a duplicate after its original.  A
  packet lives for less than `NumSeqs` transmissions: a real assumption, without
  which no 6 bit number can tell answers apart.
- `LanplusOpen`: one open and its close with every outcome, two tries, one
  capabilities request (four in the code), one node, two BMC sessions, so that a
  repeated open request makes a second one, and one duplicate or unreadable
  packet.
- `LanplusSol`: numbers to 2 (15 in the code), so that they wrap within two
  characters typed, the rest of a partial acknowledgement and one break or empty
  packet; two packets in flight each way; no overtaking.
- `SolConsole`: payloads of three characters, five typed and six in a script,
  two faults: a read is longer than a payload, an escape sequence is split, and
  one fault meets what another left.
- `RqList`: three cells and three buffers: head, middle and tail are distinct,
  and a freed address comes back while others are listed.
- `IpmiLan15`: two tries (four in the code), one busy challenge (ten in the
  code), three calls, two sessions, packets that live for two requests, one
  duplicate or overtaking.  A third call is needed for an open, a failure and
  what the failure left.
- `KcsDriver`: two programs one after the other, one command each, three bytes
  to send, so that first, middle and last bytes differ, answers of two and three.
  `SlowBytes` is FALSE: `WaitForIBF` after a data byte does not expire.  With it
  the next byte overwrites the last (`ipmidir.c:1009`) and `Implements` fails.
- `SelFollow`: four events, one clear, one kill; daemon and cron job each alone
  with their faults, since they share nothing but the log, whose clearing the
  daemon's instance has too.  Six events in one setup without deaths: an id that
  names another record after a clear, in a log that has grown past it, needs that
  many.
- `HpmUpgrade`: an image of seven bytes in blocks of one to three, block numbers
  modulo 3, three faults; `FwumUpgrade`: seven bytes in pages of four, byte
  values modulo 16, four faults.
- `Discover`: last octets of six values in halves of three, ranges within a
  subnet, over its edge, backwards and from an edge, twice, and broadcasts; two
  losses, so that one probe fails twice, two late answers; of other packets any
  number, two of them waiting at a time, with a limit of one (30 in the code).
- `Chassis`: one command that fails, one program that takes a unit of time, one
  hang, two programs of the administrator in a row; time in units of 30 seconds,
  so that cron's minute is two and the script's 150 seconds are five.  A program
  between two commands takes no time, except for the slow one.
- `Fru`: devices of 24 to 64 bytes, a product area of four units with and
  without a multi-record area behind it, values of 0 to 30 characters, so that
  the area stays, grows, and would grow too far; one fault.  A device holds
  characters that tell its fields apart.  `ifruset`: two devices, with all fields
  and with some, areas that are too long (`-y`), and boards whose areas fill
  their room or not.
- `Ekeying`: carriers and modules of one to three records, resources with and
  without ports, links of one to four lanes, files in every order of two.
- `Configuration`: four users, five filters, two destinations, three BMCs, one
  failure (a failed read, a refused command, a kill while saving) in each
  sequence of programs.  The other programs run alone, each on BMCs of its own
  (`MCServers`, `MCFirewalls`, ...): Dell servers of five generations, firewalls of
  four pairs of LUN and NetFn and six commands, sensors of both signs, ascending
  and descending; for each vendor's decoder, sensors of the types it has rules for,
  with readings on both sides of every threshold and bit it looks at.  Events: for each of 22 sensor types the assertions and ends of
  seven triggers and nine offsets, from two generators, for three vendors, and
  samples for the other vendors, memory errors and traps.
- `SdrRepository`: two records of three and two chunks, two programs, one change
  by others, one fault, which is a command or the disk, one kill; pairs of
  different programs, and two dumps and two shows.

### Fairness

Weak fairness of the program's own steps everywhere (`Engine`, `Follow`,
`Agent`, `Step`): its process runs, and `select()` and the bounded waits
expire.  Beyond that: `SolConsole` asks strong fairness of reading, that is, of
a BMC whose output pauses, because the loop serves output first
(`isol.c:1013`); `HpmUpgrade` that the target completes a command it has taken
up, because the wait for it has no end of its own (`ihpm.c:3696`);
`KcsDriver` that a BMC that is not slow answers; `FwumUpgrade` that the
controller answers, with its faults bounded; `Discover` that packets on their
way arrive; `Chassis` that programs run, time passes, and a system that has not
hung ends and starts.  Nothing is assumed of callers, users, networks and kills.

### Conditions in the properties

A property that is conditional says so because it fails without the condition,
and the hazard list or the next section says where.  `CallReturns` excludes
packets that answer nothing, or SOL data during a keepalive, without end, and
`SearchEnds` a broadcast's uncounted packets without end; `OwnAnswer` of
`LanplusCmd` asks for an empty list at the start of the call (`clean`);
`AnsweredOnce` for numbers not used again while listed; `NoneIsLost` for sends
that took the number the counters agree on, with nothing of that number still on
its way (`drift`), and for output that did not come with a break's
acknowledgement; `OwnAnswer` and `OpenedIsActive` of `IpmiLan15` for a socket on
which every exchange had its response (`insync`) and a network that keeps
order, because the IPMI 1.5 driver matches nothing in a response with its
request; `InputMeans` for reads that fit a payload (`cut`) and one try;
`ConsoleReleased` for a link not dropped; `FollowsTheLog` and `WrittenOnce`
count the deaths, failed starts and clears after which the code starts over, and
`FollowsTheLog` leaves out what a regrown log passes over (`Overrun`), while
`WrittenOnce` says nothing once `sel -w` went on in one (`overgrown`);
`SuccessIsDone` of an HPM upgrade excludes results that the code assumed
(`assumed`); `ImageIsWhole` of a Kontron upgrade blocks sent again with another
length or number (`spoiled`); `NodesAreFound` late answers, failed receives and
raw sockets, and `RangeIsProbed` what lies beyond an edge (`Passed`);
`ErasedAreKept` what `sel -e` has not read: events that came after its last read,
and, if it ended early, those it had not come to;
`AsAsked` the alert destinations of a restore in which a policy was refused with
0xC1; `SuccessIsComplete` a dump in which an answer was cut short, the disk failed
or another program wrote to the file, and a show one of whose commands failed;
`Ends` of `SdrRepository` two dumps; `WellIsLeft` two failed or slow programs, a
watchdog set by hand, and one that a program left half way (`botched`);
`HungIsRestarted` a system that hangs before cron has fed the watchdog, and a
watchdog that another program has changed since (`guard`); `WdtAsAsked` and
`FlagsAreUsed` programs that returned 0 over a failure (`masked`); `FruAsAsked`
and `OthersAreKept` a chunk whose failed read was not reported (`junk`).

## 4. Proofs

`LanplusCmd_proofs`, for every number of sequence numbers, tries, calls, duplicates
and every set of commands that satisfy `CmdAssumption`:

- `TypeCorrect`: `Spec => []TypeOK`.  `itry` stays below `Retry` because every
  try ends in `Again`, which compares before it counts.
- `CleanCallsGetOwnAnswer`: `Spec => []OwnAnswer`.  `OwnAnswer` is not
  inductive: that a response's number matches a listed entry says nothing of
  who sent it.  `OwnInv` adds that each entry and packet carries the number of
  its transmission modulo `NumSeqs` and belongs to the current call exactly if
  it was sent after the call began (`NumbersInv`), that a call makes at most
  `Retry` transmissions (`TriesInv`), and that a clean call has listed only its
  own (`CleanInv`).  Two numbers less than `NumSeqs` transmissions apart that are
  equal modulo `NumSeqs` are then equal (`SeqInjective`), so the packet that
  matches is an answer to a transmission of this call.
- `ResponsesAcceptedOnce`: `Spec => AnsweredOnce`, from `OnceInv`: until a
  listed number is used again, listed entries are distinct, recent, and not yet
  among the responses taken.
- `AwaitedStaysListed`: `Spec => []AwaitedIsListed`.
- `ImplementsRequestList`: `Spec => UsesRequestList`.  `BuildAdds` shows that a
  transmission, successful or broken off, appends a member of `Additions`;
  `AcceptTakes` that an accepted response removes the first entry of its kind;
  every other action leaves the list alone.  `Prolonged` and `Shortened` relate
  the mapped sequences.

`LanplusOpen_proofs`, for every number of hosts, tries, opens, sessions of the
BMC, duplicates and unreadable packets that satisfy `OpenAssumption`:

- `Invariant`: `Spec => [](TypeOK /\ SessionInv)`; `TypeCorrect` is its first half.
- `SessionsAgree`: `Spec => []Agreement`.  `Agreement` looks at both ends of an
  active session, and the exchanges that make one are four messages apart:
  `SessionInv` adds what is on the way.  While the console goes towards a
  session, a RAKP message names the session it asks for and none of these closes
  it (`WireInv`); an accepting RAKP 4 speaks of a session that is active with
  the numbers it covers (`ActiveInv`); an answer that grants the privilege speaks
  of a session that has it (`AdminInv`); ids are those the BMC granted (`IdsInv`).
- `OpenCanBeUsed`: `Spec => []OpenIsUsable`, from `StateInv` and `IntfInv`, which
  tie the session's state and the interface to where the console is.
- `OpenedIsClosed`: `Spec => ClosesWhatItOpened`, an action property, from the same.

`IpmiLan15_proofs`, for every number of tries, calls, sessions, late packets,
duplicates and overtakings that satisfy `LanAssumption`:

- `CallsGetOwnAnswer`: `Spec => []OwnAnswer`.  The driver compares nothing in a
  response with its request, so what has to be kept is about the wire: in an
  undisturbed connection the next packet that can be read is the response to the
  current request, or the acceptance of a bridged one, which the driver
  recognises (`WireInv`).
- `OpensAnActiveSession`: `Spec => []OpenedIsActive`, from `ActiveInv`: the sessions
  that the driver goes on with are those the BMC activated.
- `NumbersAreFresh`: `Spec => NumbersFresh`.  `NumbersInv` bounds the numbers used in
  a session by its counter, with one exception for the request that is not answered
  yet or was interrupted; `BegunInv` says that a session begins with an unused id.

`KcsDriver_proofs`, for every number of programs, commands, failures, and lengths
of requests and answers that satisfy `KcsAssumption`:

- `TypeCorrect`: `Spec => []TypeOK`, also with programs at the same time.
- `HealthyGetAnswers`: `~Concurrent /\ Spec => []HealthyAnswers`.  `StepInv` says, for
  every place in the exchange, what flags and state the interface has there, also
  after what a killed program left.  The BMC may be slow at any byte.
- `ImplementsExchange`: `~Concurrent /\ ~SlowBytes /\ Spec => Implements`, the
  refinement of `Exchange`.  `ExchangeInv` follows the bytes: what the BMC stored
  is a beginning of the request, what it holds and what was read make up one
  answer, each request has run at most once, and what was taken is whole.

  The hypotheses are values of constants, and are needed: nothing in the build
  looks at the lock file, so with `Concurrent` two programs mix their bytes; and
  a BMC that is slow at a data byte has it overwritten.

`SdrRepository_proofs`, for every number of programs, records, chunks, changes,
faults and kills that satisfy `SdrAssumption`:

- `RecordsAreNotTorn`: `Spec => []NoneIsTorn`, and the types.  A chunk that is
  read under a valid reservation is of the version the record has now; `RepoInv`
  says so of what a program has read so far (`Untorn`), and that its list is a
  beginning of the repository while nobody changes that (`Complete`).
- `SuccessMeansAll`: `Spec => []SuccessIsComplete`, from the same, and from `Stored`:
  between its opening and its end a dump's file is empty or the cache, unless
  another program wrote to it.

`LanplusSol_proofs`, for every number of sequence numbers, tries, characters,
packets in flight and partial acknowledgements that satisfy `SolAssumption`, on a
network that loses packets but does not let one overtake another
(`MaxOvertakes = 0`: in both directions there is one packet outstanding and
numbers come round, so one that is overtaken by a whole round is taken for new):

- `Invariant`: `MaxOvertakes = 0 /\ Spec => []SolInv`.
- `NothingIsLost`: `MaxOvertakes = 0 /\ Spec => []NoneIsLost`.  `SolInv` describes
  both lines.  For the output (`OutputInv`): the packets on their way repeat what
  the console has had and then carry what the BMC waits for, none shorter than the
  one before; no acknowledgement on its way speaks of more than the console has had.
  For the input (`InputsInv`, `GenuineInv`, `AllAckedInv`): the packets that will be
  new to the BMC are in order and behind what it has; what is on its way with the
  current number is the current packet or says what the BMC made of it; and while
  every send was acknowledged one packet is on its way at a time.
- `ShowsWhatIsMade`: `MaxOvertakes = 0 /\ Spec => ShowsTheStream`, the refinement of
  `SolStream`, from `OutputInv`: what a packet brings that is new is what comes next.

`RqList_proofs`, for all sets of cells, buffers, commands and sequence numbers that
satisfy `ListAssumption` (there is a finite number of cells):

- `Invariant`: `Spec => []Sound`.  What the list is lies in the memory: `Sound`
  says that the links from the head lead along one path, that it comes by no
  cell twice, ends at the tail, and has every cell on it that is allocated; only
  its last cell may have been freed (`ipmi_lanplus_build_v15_ipmi_cmd` frees the
  entry that it has just listed).
- `NothingLeaks`: `Spec => []NoLeak`, from `Sound`.
- `ImplementsRequestList`: `Spec => IsRequestList`, the refinement of `RequestList`:
  an added cell appends its entry (`AddIsAdd`), and `RemoveIsTake` shows that
  unlinking head, middle or tail takes the first entry of its kind.  With
  `UsesRequestList` above it carries the engine's abstract list down to the cells.

`SelFollow_proofs`, for every set of options and bounds that satisfies
`SelAssumption`, so for any number of events, clears, starts and deaths; a log
holds at most `Capacity` records, because ids have 16 bits:

- `DaemonFollowsTheLog`: `Spec => []FollowsTheLog`, and the types of daemon, cron
  job and log.  The daemon knows a record by its id, and a clear makes ids name
  other records.  What survives that is `Ahead(id, ev)`: the records behind the id
  are newer than the event, and all records are if the log is too short for
  the id.  `Positions` says so of where the daemon stands and of what it saved; the
  next event shown is then newer than the last (`Orderly`), or a death, a failed
  start or a filtered event at the end of a wait has paid for one rewind
  (`Accounted`).  `NonePassed` is the other half: what lies up to a position that
  still names its event was shown or need not be.
- `SyslogGetsEachOnce`: `Spec => []WrittenOnce`, from `CronInv` (`CronInvariant`).
  A position of `sel -w` is a time and an id.  `Stands` says what makes one
  good: if its id still names its event, everything up to there is done with
  and no newer by time; records that it would take for old are done with.
  `Paid` counts rewinds: the next event to be written is newer than the last
  (`Follows`), or a run cut off or a refused clear pays for the rewind to come.
  Both are kept as long as no run has gone on in a log that was cleared and had
  grown past the saved id (`overgrown`).  The attempt to make the invariant
  inductive showed that the order is lost then, which the instance of the run is
  too small to reach; the property now says so, and section 5 has the events.
- `NothingIsErasedUnread`: `Spec => ErasedAreKept`.  `sel -e` has copied each record
  up to where it asks next, or up to the last that existed at its last read
  (`CopiesAll`, `ErasesWhatItCopied`); and as long as a reservation is good the log
  has nothing newer than what was there when it was made (`Reserved`).

Each inductive invariant was model-checked before it was proved: `SessionInv` on
0.57 and 0.49 million states, `LanInv` on 1.1 and 1.3 million, `DriverInv`,
`StepInv` and `ExchangeInv` on 0.35 million, `RepoInv` on 0.42 million, `SolInv` on 1.9
and 4.9 million, `Sound` on those of `rq_list`, `Inv` of the event log on those of
`sel_follow`, `CronInv` on 1.1 million and on 17 million of a larger instance.

Every hypothesis on a constant is a named ASSUME of its module, which TLC
evaluates in the module's run, or is written in the theorem.

Proofs by induction are about one predicate at a time: `Least` (a set of naturals
has a least member, from `NatLessThanWellFounded`) gives a first place where two
paths of cells differ, and a contradiction there.

What stays with TLC: liveness (`OpenReturns`, `SendReturns`, `EventsReported` and
their like) and all that speaks of ENABLED; what recursive definitions and folds
compute, as in `Fru`, `Events` and `Ekeying`, so the properties of `Maintenance` and
`Configuration`; and safety properties that no proof was made of: `InputMeans` and
`ConsoleReleased` of `SolConsole`,
`RangeIsProbed` and `NodesAreFound` of `Discover`.

## 5. Observed divergences

Where the code does something else than its comments, documentation or evident
intent.  They were met while modelling; the models do what the code does.

RMCP+:

- "Ignore received packets that don't correspond to a request we've sent"
  (`lanplus.c:745`): in an active session any SOL packet (998-1023) or pong
  (777-781) ends the wait and is returned as the response, and so is the answer
  to an earlier request still listed.
- "close the previous one" (`ipmilanplus.c:282`): an open whose capabilities
  request fails has cleared `intf->opened` and neither closes the socket nor
  frees the session (`lanplus.c:3814`); the next open overwrites `intf->fd`.
- "We handle partial ACK/NACKs" (`lanplus.c:2680`): the rest of a partly
  acknowledged packet takes a number that `sol_seq` does not know
  (`ipmilanplus.c:645-652`); the next input reuses it and the BMC drops it as a
  repetition.
- Nothing ends an input's send but its acknowledgement, the last try or any answer
  that is no SOL packet (`lanplus.c:2568`); the next input takes the next number
  all the same (`ipmilanplus.c:645-652`).  If 15 sends are given up within a round
  trip, a number comes round while a partial acknowledgement of the packet that
  had it is still on its way: it is taken for one of the new packet, whose rest is
  sent although the BMC has it.  The proof of `NothingIsLost` met this; `drift`
  now says when a number is taken that is still in use.
- "entry is freed later" (`lanplus.c:2409`): a failed send frees `msg_data`
  (2501), the entry keeps it and it is freed again (475, 490).
- Nothing limits the wait for an answer: for each packet that answers nothing
  `ipmi_lan_poll_recv` waits for the whole timeout again (919-922), and a keepalive
  goes on for as long as SOL data comes (4007-4019).  A call need not return
  while they come; `CallReturns` excludes it.
- A keepalive or a failed retransmission leaves `session->timeout` raised.

IPMI 1.5:

- "closed, do re-open" (`ipmilan.c:1919`, 1022): a re-open after
  `ipmi_flush_lan` or a failed SetSessionPriv (1576) wraps its first requests in
  a Send Message (1081).
- "recv again" (`ipmilan.c:1287-1299`): a bridged command in its last try, or
  whose acceptance carries data, succeeds with zeros (789).
- A session whose privilege command fails is left to the BMC's timeout; after
  ECONNREFUSED the repeated receive is cut to length 0 (1250).

SOL console (`isol.c`):

- `~b` is not supported on SOL 1.5 and then ends the console (488, 610; help
  545).  A failing break or reset that comes alone ends it too.
- A command in the same read as text before it is executed before the text is
  sent, and text after `~.` in the same read is still sent; with a one character
  escape a following `d` resets the machine.
- With CR+LF a read that grows beyond `max_bmc_data` loses its rest, possibly
  the end of the console (684-687).
- stdin at its end ends the console with result 1, also with a script left to
  read (1027); the script's last line is lost without a newline (1054, 1072).
- "retry again if rv < 0 or rv == 0x02" (715): a result above 0 becomes 0 before.
- Unending output starves the keyboard (1013); a dropped link leaves the BMC's
  console active (1351); with `-t` above 1 input may be sent twice (697);
  output that comes with a break's acknowledgement is dropped (490).

Event log:

- doc/igetevent.8:31, "only new events are processed": the first event of an empty or
  cleared log is never shown (`igetevent.c:822`, 814, 847); and of a log that was
  cleared and has regrown past the id in evt.idx between two polls, the records up
  to that id are not shown either (811-826).
- "log was probably cleared, so try again from the log start" (`isel.c:504`): only
  a failed first read counts as a sign of that.  In a log that was cleared by hand
  and has grown past the saved id, `sel -w` goes on behind that id and looks at
  none before it.  If it writes an OEM record there, which has no time, `savtime`
  stays behind (554-559); a later run whose first read fails then starts over and
  writes the records before it late: syslog gets events 1, 2, 5, 3.
- "The old SEL records are in syslog, but save a copy" (`scripts/checksel:25`):
  `i_sel` drops the result of `ReadSEL` (`isel.c:888-889`) and the script does not
  look at that of `sel -e` (26), so after one that failed half way `sel -d` (28)
  erases records that are in no copy.

Direct driver (`ipmidir.c`):

- ChangeLog:3132 has the lock file; `LOCK_OK` is never defined (380), so it is
  not looked at.  With `-F kcs` commands are sent although the open failed
  (485-495).
- SSIF: success in the last try counts as an error (1312-1345).

Upgrades:

- `HpmfwupgWaitLongDurationCmd` never reads the clock again, so its timeout
  never comes (`ihpm.c:3688`, 3696).
- "Services may be affected" answered with y resets `rc` to success (1823-1852);
  the status of the rollback takes the place of a failed activation (2611-2622);
  a lost Activate over a LAN is taken for in progress (3526-3546); the size is
  reduced once only (`isValidSize` after a made-up 0xc7); an answer of the wrong
  length to a block is asked for again for ever (3007-3016).
- `ifwum.c`: a block whose answer was lost and that is then shortened or
  renumbered is stored twice (1123, 1288); the length may go below 0 as a byte;
  a failed `fread` leaves the status at OK (545-584); the bank is erased although
  the information could not be read.

Watchdog and reset:

- "now remove the wdt cron job" (`scripts/ipmiutil_wdt:69`): also if `wdt -d`
  failed, so that the watchdog resets the machine 150 seconds later.  A stop at
  the same time as the start of another leaves it running without a job, too.
- "It enables watchdog for 90 second timeout" (`scripts/ipmiutil_wdt:9`): 150.
- `wdt -d` returns what the following read returned (`iwdt.c:385-387`), and
  `wdt -e -r` what the restart returned (402); above 6553 seconds the timeout wraps
  (172-173).
- At shutdown the script's `wdt -d` disarms the watchdog that `reset -o` armed
  (`ireset.c:396`); an `init` that fails leaves it running, and it resets the machine.
- A chassis control that fails is followed by a reset of the BMC, whose success
  is returned (`ireset.c:454-466`); a soft shutdown that is not supported (446),
  or whose agent is absent (785), returns 0; `-D` and `-o` are the same for other
  vendors than Intel (422).
- Boot options that some vendors' BMCs refuse are passed over (338), and those a
  failed reset left are used by the next.

Discovery (`idiscover.c`):

- A range that crosses the end of a subnet stops there: the address is skipped
  with `continue` before `ip++` (906-907), so those beyond are counted and never
  probed.
- A broadcast to `x.x.x.0` passes `sock_init` (604-608) and is never probed;
  a range given backwards probes nothing.  Both return 0.
- A late answer is taken for one to the next node's probe: it suppresses that
  node's second probe (937), and its answer shifts to the next in turn.
- `g_limit` counts only packets that are not RMCP (721-729).  RMCP packets of others,
  and those whose source is a broadcast address (731-732), start a new wait each
  in a search by broadcast (787), which does not end while they come.
- The raw socket is opened after the probe is sent (654-664), so an answer that
  is quick is not seen.

Configuration:

- `WaitForSetComplete` never waits (`iconfig.c:2436`, 1763).
- The error of a PEF policy above the first is ignored (`iconfig.c:2475`), but if it
  is 0xC1 the restore takes PEF as not supported (2482): the alert destinations
  that follow are skipped (2423, 2451) and it returns 0.
- The loop that disables other users ends one early, and keeps those below the
  last enabled (`iconfig.c:2670`); a save counts no read errors, so that what it
  could not read is disabled by a restore that says ok; parameter 10 stays 0
  after an address is restored on the GCM channel.
- A rule whose read failed counts as free and is overwritten (`ilan.c:4871`);
  `lan -u` without `-p` blanks the password; a failed read of the gateway is
  taken as zero.
- `user` with a failed read makes the user an operator, or gives it an empty
  name; `user set` enables the user and opens its link.
- `serial` returns the last command's result, and demotes the null user also if
  no other could be set up.

Sensor data records (`isensor.c`):

- A lost answer after a record's second chunk cuts the record without an error
  (1313-1328), and the dump returns 0; a partial cache is taken as good by the
  next call (1449).
- A dump whose `fwrite` stores a part only, or whose `fclose` fails, returns 0
  (3151-3156).
- A jumpstart that makes its file reads it back with the BMC's number of records
  (3598-3601): what lies in memory behind a file cut short is shown as records.
- Two dumps may cancel each other's reservation for ever; a restore clears the
  repository before it writes and does not repeat a 0xC5; an empty or cut file
  may clear the repository (3211-3222).

FRU inventory (`ifru.c`):

- "sfru and frubuf were set from load_fru above" (2075): not if the scan of the
  SDRs has shown device 0, whose buffer is freed; a restore without `-b` or `-m`
  then reads the file to a null pointer.
- A chunk behind the first that the BMC refuses ends the read without an error
  (323): the rest of the buffer was never read, and is dumped, or written.
- `write_fru_data` writes device 0 whatever device was named (1091), and a
  restore with `-i` is checked by reading the device that was named.
- Version, serial number and asset tag become type 3 also if they were kept
  (1226, 1240, 1255): a kept one of one character becomes the end mark.
- Without a multi-record area the product area may grow over an area that stands
  behind it (1270).
- `ifruset` writes every field from what was last shown (`ifruset.c:1060`), so a
  field that the device does not have becomes that of another one that the SDRs
  name, where `doc/ifruset.8` says "The default is to not modify this FRU field";
  on a device without a product area the area is written over the header; a
  field of more than 23 characters, or of one, is not kept.
- `fru -k` sums up an area without the byte before its checksum
  (`oem_kontron.c:622`), and runs out of the buffer if no area follows.

FRU analyzer (`iekanalyzer.c`):

- The default build has a stub; a match of two modules reverses the first one's
  resource (1498-1510), so only a module's match with its carrier is promised;
  numbers of devices may be taken for sites, a resource without ports of a site
  counts as wired (`Orderly`, `OrderlyCarrier`).
- "unmatch" lists all links of the first record; `index_record2` is never reset
  (1628); `frushow` runs into the end mark 0xC1 as if it were a record
  (2656-2756); the carrier's last resource without ports is not shown; `print power`
  with a configuration file reads past its end.

Sensors (`isensor.c`):

- A sensor that is not found is set all the same, with values that were not
  converted (3872); the last record that matches wins, and its type is not looked
  at (3769).  Raw 255 and reading 0 mean "not given", so a threshold of that value
  cannot be asked for, and `-h` as a reading followed by `-l` raw drops `-h`.
- `-l` and `-h` derive the two worse thresholds by steps of one raw value, which
  wrap around; a hysteresis that could not be read is written as what was in memory.
- A line that `-u` saved may be refused when it is replayed, because the
  validation then looks at all six thresholds (3073).
- Of several bits set only one is shown: presence hides a processor's fault, and
  a correctable error an uncorrectable one; a power unit's failures are shown as
  OK.  `FaultBits` names what the code does tell apart.
- `sens[2] == 0xc7` is shown as "Absent (Intel)" (2666): also a sensor below its three
  lower thresholds on a BMC that returns the two reserved bits as ones.
- The vendor's decoder is asked for a full record even if the reading failed
  (2680); Supermicro's then compares 0 with the thresholds.

Vendors' sensors and events (`oem_*.c`; each left out of `ShownAsItIs`, or of the
severity that `Directed` speaks of):

- Supermicro: the state is masked with 0x3f, so that a power supply's configuration
  error (bit 6) is not seen; raw values are compared as unsigned.
- HP: a power supply is Present even if it failed; type 0x0A adds the second byte of
  states to the first instead of shifting it, so an install error is Running.
- Lenovo: type 0x1E falls through to 0x21, and Asserted is shown as Fault.
- Fujitsu: the reading, a mask of bits, is the index into a table of names.  An event's
  severity is "bit 6-4" (`oem_fujitsu.c:241`), but the byte is shifted by 3, so that
  minor is shown as major, major and critical without a word; an answer without
  data is asked for again for ever.
- Intel: `case 0xa0` of a switch over `data1 & 0x0f` is never taken
  (`ievents.c:1883`), so POST codes are never named.
- Newisys: every event is information.  Asus' `decode_sel_asus` is never called.

Events (`ievents.c`):

- The sensor's name from a sensor file (`-s`, and by default) is always
  overwritten (1274); without a cache of SDRs the first record of all stands for
  every event's sensor.
- The table of entities has no 42 and is one behind from there on (520).  The type
  of a trap's sensor is looked for in three lines of the file only.  A trap of a
  discrete event's end is shown as the event.
- Discrete temperature events are shown as information although `sens_desc` has
  rows for them (1741); the end of a processor event is critical (1764).
- `find_msg_sev` takes the lowest severity it finds in the line, so the text of a
  panic can hide it (`subs.c:768`).
- In a raw file a line cut short is filled up with the line before (2228), and
  "Connecting to node" of a remote `sel -r` is taken for a record.
- Dell's decoder ignores the direction (`oem_dell.c:5503`), shows the first digit of
  a DIMM's number, loses the first DIMM's name from seven on, and appends a buffer
  that was never set (5814); Supermicro's takes 0x80 for the first processor; Intel's
  reads `bdata` unset for a DIMM beyond its table.
- `CriticalIsListed`, `TrapIsTheEvent`, `DimmsAreNamed`, `Directed` and `TypeIsKnown`
  name what is left to promise.

Panels (`ialarms.c`, `oem_intel.c`):

- A panel that could not be read counts as 0, as does one that says 0: what is set
  then lights everything else (568).  The other status reading lost means not active.
- `-f` on an NSC writes 0x00, which is all LEDs on, where the usage says off; after a
  failed raw LED command the override is taken as set (`oem_intel.c:1700`); `-e`
  continues as `-f`.

Firmware firewall (`ifirewall.c`):

- Failed and refused reads leave empty masks, so everything configurable is
  disabled; `SET_COMMAND_ENABLE_BIT` used as a mask is 0, so without force commands
  0x60 to 0x67 are among those disabled, the opposite of what is meant (486).
- `reset` indexes the masks of NetFn 2n for NetFn n, never reads those of
  sub-functions, which are all disabled, and returns its last result (1066).

DCMI and PICMG (`idcmi.c`, `ipicmg.c`):

- Setting a power limit sends the answer back unshifted, so that only the asked
  field is right (`idcmi.c:243`); with an inactive limit memory is sent that was
  never set.  A name's shorter text leaves the rest of the longer old one (886).
- The two halves of an AMC link's type are combined with or, so only types below 16
  are shown right; a query without a device asks a carrier for device 255.

Dell (`oem_dell.c`):

- A failed read of the LCD's configuration is not noticed and zeros are sent
  (1181); a refused read of the NIC's selection sends zeros and returns 0 (2723).
  `DellAsAsked` asks for `fails = 0` where a read is not checked.

## 6. Not modelled

Wording, logging and byte layout; cryptography (an HMAC verifies or not);
authentication codes and types of IPMI 1.5; the ASF ping and the pokes; IPMI 1.5
SOL but for its outcome; double bridging; BMC timeouts; the Windows variants;
SSIF; the daemon's asynchronous methods; discovery with two threads, and its
choice of an interface; non-linear sensors; the ids of the
records in a file of SDRs, by which a restore and a jumpstart find the next one
(`find_sdr_next`, `isensor.c:1613`; with an id twice they go round), and the smaller
chunks of a BMC that refuses 16 bytes (1306).  Not at all: the drivers that wrap another system's
ioctl (what can go wrong is in that system), terminal emulation, and the commands of the health and other OEM utilities, which keep
nothing from one command to the next and print what they got.
