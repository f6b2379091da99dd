CONSTANTS
    GetDeviceID = GetDeviceID
    SendMessage = SendMessage
    Cmds = {GetDeviceID, GetSdr}
    Retry = 2
    NumSeqs = 3
    BaseTimeout = 1
    MaxCalls = 2
    MaxDuplicates = 1
SPECIFICATION Spec
INVARIANTS OwnAnswer
PROPERTIES AnsweredOnce UsesRequestList CallReturns
\* The callers may make no further call: the system then rests.
CHECK_DEADLOCK FALSE
