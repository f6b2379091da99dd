CONSTANTS
    Numbers = {0, 1}
    Cmds = {GetDeviceID, GetSdr}
    SendMessage = SendMessage
    Address = {c1, c2, c3}
    Buffer = {b1, b2, b3}
    Null = Null
SPECIFICATION Spec
SYMMETRY Symmetry
INVARIANT NoLeak
PROPERTY IsRequestList
\* After undefined behaviour nothing more is modelled.
CHECK_DEADLOCK FALSE
