CONSTANTS
    SolSeqs = 2
    Retry = 2
    ChunkSizes = {1, 2}
    MaxTyped = 2
    MaxMade = 2
    MaxFlight = 2
    MaxOvertakes = 0
    MaxPartials = 1
    MaxExtras = 1
SPECIFICATION Spec
INVARIANT NoneIsLost
PROPERTIES ShowsTheStream SendReturns
\* The console may be over: nothing then remains to happen.
CHECK_DEADLOCK FALSE
