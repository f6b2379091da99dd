CONSTANTS
    HpmSetups <- MCHpmSetups
    BlockNumbers = 3
    RetryCountMax = 1
    FwumSetups <- MCFwumSetups
    BufferSize = 5
    Overhead <- MCOverhead
    PageSize = 4
    NoResponseLimit = 3
    MaxUploadRetry = 2
    ByteValues = 16
    TraceChunks = 2
    ChassisSetups <- MCChassisSetups
    MaxTroubles = 1
    MaxSlow = 1
    MaxHangs = 1
    FruSetups <- MCFruSetups
    MaxFruFaults = 1
    EkSetups <- MCEkSetups
SPECIFICATION MaintenanceSpec
INVARIANTS ImageIsWhole DoneAsAsked WellIsLeft
PROPERTIES UpgradeEnds HungIsRestarted
\* The programs may be over.
CHECK_DEADLOCK FALSE
