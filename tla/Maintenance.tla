------------------------------ MODULE Maintenance ------------------------------
(***************************************************************************)
(* What is done to a machine as a whole: its firmware is written (hpm and     *)
(* fwum, of which one runs), it is watched over, reset and shut down (Chassis),  *)
(* its inventory is kept (Fru), or analyzed (Ekeying).                           *)
(***************************************************************************)
EXTENDS Integers

CONSTANTS
    HpmSetups, BlockNumbers, RetryCountMax,
    FwumSetups, BufferSize, Overhead, PageSize, NoResponseLimit, MaxUploadRetry, ByteValues, TraceChunks

ASSUME UpgradesAssumption ==
    /\ BlockNumbers \in Nat \ {0, 1} /\ RetryCountMax \in Nat
    /\ {BufferSize, PageSize, NoResponseLimit, MaxUploadRetry, TraceChunks} \subseteq Nat \ {0}
    /\ ByteValues \in Nat \ {0, 1}
    /\ \A p \in {"address", "sequence"} : Overhead[p] \in 0..(BufferSize - 1)

VARIABLES
    program,                  \* hpm, fwum, chassis, fru or ek
    setup, rc, bmc, faults,   \* of the program that runs
    stage, waiting, record, mask, comp, up, isValidSize, errorCount, assumed,  \* of hpm
    pc, counter, save, blk, spoiled                                            \* of fwum

hpm == <<stage, waiting, record, mask, comp, up, isValidSize, errorCount, assumed>>
fwum == <<pc, counter, save, blk, spoiled>>
vars == <<program, setup, rc, bmc, faults, hpm, fwum>>

Hpm == INSTANCE HpmUpgrade WITH Setups <- HpmSetups
Fwum == INSTANCE FwumUpgrade WITH Setups <- FwumSetups

Init ==
    \/ /\ program = "hpm"
       /\ Hpm!Init
       /\ pc = "none" /\ counter = 0 /\ save = "none" /\ blk = "none" /\ spoiled = FALSE
    \/ /\ program = "fwum"
       /\ Fwum!Init
       /\ stage = "none" /\ waiting = "none" /\ record = 0 /\ mask = {} /\ comp = 0 /\ up = "none"
       /\ isValidSize = FALSE /\ errorCount = 0 /\ assumed = FALSE

Upgrades(step) == program = "hpm" /\ step /\ UNCHANGED <<program, fwum>>
Updates(step) == program = "fwum" /\ step /\ UNCHANGED <<program, hpm>>

Next == Upgrades(Hpm!Next) \/ Updates(Fwum!Next)

-----------------------------------------------------------------------------
(* The rest of what is done to a machine.                                  *)

CONSTANTS
    ChassisSetups, MaxTroubles, MaxSlow, MaxHangs,  \* see Chassis
    FruSetups, MaxFruFaults,                        \* see Fru
    EkSetups                                        \* see Ekeying

ASSUME ChassisAssumption == {MaxTroubles, MaxSlow, MaxHangs} \subseteq Nat
ASSUME FruAssumption == MaxFruFaults \in Nat

VARIABLES
    tasks, procs, wd, flags, os, goal, cronjob, clock, last, troubles, slow, hangs,
    guard, botched, bitten,                               \* of Chassis
    frus, located, programs, fru, binfile, misses, before, \* of Fru
    ek                                                     \* of Ekeying

Machine == INSTANCE Chassis
Inventory == INSTANCE Fru
Analysis == INSTANCE Ekeying

chassis == <<tasks, procs, wd, flags, os, goal, cronjob, clock, last, troubles, slow, hangs, guard, botched, bitten>>
inventory == <<frus, located, programs, fru, binfile, misses, before>>
maintenance == <<vars, chassis, inventory, ek>>

NoFirmware ==
    /\ setup = "none" /\ rc = "none" /\ bmc = "none" /\ faults = 0
    /\ stage = "none" /\ waiting = "none" /\ record = 0 /\ mask = {} /\ comp = 0 /\ up = "none"
    /\ isValidSize = FALSE /\ errorCount = 0 /\ assumed = FALSE
    /\ pc = "none" /\ counter = 0 /\ save = "none" /\ blk = "none" /\ spoiled = FALSE
NoChassis == Machine!AtRest([plan |-> <<>>, remote |-> FALSE, service |-> FALSE])
NoAnalysis == Analysis!Rests
NoInventory == Inventory!Rests([frus |-> <<>>, located |-> <<>>, plan |-> <<>>])

MaintenanceInit ==
    \/ Init /\ NoChassis /\ NoInventory /\ NoAnalysis
    \/ program = "chassis" /\ Machine!Init /\ NoFirmware /\ NoInventory /\ NoAnalysis
    \/ program = "fru" /\ Inventory!Init /\ NoFirmware /\ NoChassis /\ NoAnalysis
    \/ program = "ek" /\ Analysis!Init /\ NoFirmware /\ NoChassis /\ NoInventory

Writes(step) == step /\ UNCHANGED <<chassis, inventory, ek>>
Controls(step) == program = "chassis" /\ step /\ UNCHANGED <<vars, inventory, ek>>
Inventories(step) == program = "fru" /\ step /\ UNCHANGED <<vars, chassis, ek>>
Analyzes(step) == program = "ek" /\ step /\ UNCHANGED <<vars, chassis, inventory>>

MaintenanceNext ==
    Writes(Next) \/ Controls(Machine!Next) \/ Inventories(Inventory!Next) \/ Analyzes(Analysis!Next)

\* Programs run, the target completes what it
\* has taken up, time passes, and a system that has not hung ends and starts.
MaintenanceSpec ==
    /\ MaintenanceInit /\ [][MaintenanceNext]_maintenance
    /\ WF_maintenance(Writes(Upgrades(Hpm!Agent))) /\ WF_maintenance(Writes(Upgrades(Hpm!Complete)))
    /\ WF_maintenance(Writes(Updates(Fwum!Next)))
    /\ WF_maintenance(Controls(Machine!Programs)) /\ WF_maintenance(Controls(Machine!Tick))
    /\ WF_maintenance(Controls(Machine!Proceeds))

-----------------------------------------------------------------------------
(* Properties.                                                             *)

\* What the controller has accepted as a whole is what was to be written, byte
\* by byte, through repeated, shortened and refused blocks (ihpm.c,
\* HpmFwupgActionUploadFirmware; ifwum.c, KfwumUploadFirmware).
ImageIsWhole == (program = "hpm" => Hpm!FinishedIsWhole) /\ (program = "fwum" => Fwum!Uploaded)

\* A program that returns 0 has done what it was asked to: components are
\* activated only when all are written, and no bank is started or erased but
\* the one that was meant (ihpm.c, HpmfwupgUpgrade; ifwum.c, KfwumMain).
SuccessIsDone == (program = "hpm" => Hpm!UpgradedAsAsked) /\ (program = "fwum" => Fwum!SuccessIsDone)

\* Liveness: the program ends, through retries, shortened blocks and polls,
\* where the target completes what it takes up; and a healthy controller gets
\* the file (ihpm.c, HpmfwupgSendCmd; ifwum.c, KfwumSaveFirmwareImage).
UpgradeEnds == (program = "hpm" => Hpm!Ends) /\ (program = "fwum" => Fwum!Ends)

\* A program that returns 0 has done what it was asked to: upgrades (as
\* above), the watchdog, which is set or disabled as it was asked
\* to (iwdt.c), a reset, which uses the boot device (ireset.c), and fru and ifruset,
\* which write, dump and restore what they were told to (ifru.c, ifruset.c,
\* oem_kontron.c) - and whatever they return, what they were not told to write stays.  What ekanalyzer says of links is
\* so, and what it shows of records is all of them (iekanalyzer.c).
DoneAsAsked ==
    /\ SuccessIsDone
    /\ program = "chassis" => Machine!WdtAsAsked /\ Machine!FlagsAreUsed
    /\ program = "fru" => Inventory!InventoryAsAsked
    /\ program = "ek" => Analysis!MatchesAreReal /\ Analysis!NoMatchIsMissed /\ Analysis!RecordsAreShownWhole

\* "reset every 1 min", "150 seconds for watchdog timeout (2*60 + 30)"
\* (scripts/ipmiutil_wdt): a machine that is well is not reset by the watchdog
\* through one failed or one slow program, however the programs interleave.
WellIsLeft == program = "chassis" => Machine!WellIsLeft

\* What a watchdog is for: a system that hangs while cron feeds it, or on its
\* way down from a soft shutdown, is reset (ireset.c, "watchdog/init0 method").
HungIsRestarted == program = "chassis" => Machine!HungIsRestarted
=============================================================================
