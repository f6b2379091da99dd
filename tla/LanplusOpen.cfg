CONSTANTS
    Nodes = {nodeA}
    NoNode = NoNode
    Asks = 1
    Retry = 2
    BaseTimeout = 1
    MaxOpens = 1
    MaxIds = 2
    MaxDups = 1
SPECIFICATION Spec
\* The callers may open no further session: the system then rests.
CHECK_DEADLOCK FALSE
INVARIANTS Agreement OpenIsUsable
PROPERTIES ClosesWhatItOpened OpenReturns
