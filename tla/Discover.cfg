CONSTANTS
    Setups <- MCSetups
    Octets = 6
    Nibble = 3
    Limit = 1
    MaxLost = 2
    MaxLate = 2
    MaxQueue = 2
SPECIFICATION Spec
INVARIANTS RangeIsProbed NodesAreFound
PROPERTY SearchEnds
\* The program may be over.
CHECK_DEADLOCK FALSE
