CONSTANTS
    Tries = 2
    BusyMax = 1
    Garbage = Garbage
    MaxCalls = 3
    MaxIds = 2
    MaxLate = 2
    MaxDisorder = 1
SPECIFICATION Spec
\* The callers may make no further call: the system then rests.
CHECK_DEADLOCK FALSE
INVARIANTS OwnAnswer OpenedIsActive
PROPERTIES NumbersFresh CallReturns
