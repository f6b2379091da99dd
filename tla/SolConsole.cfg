CONSTANTS
    MaxData = 3
    Setups <- MCSetups
    MaxFaults = 2
SPECIFICATION Spec
INVARIANTS InputMeans ConsoleReleased
PROPERTY EndsOnRequest
\* The program may be over: nothing then remains to happen.
CHECK_DEADLOCK FALSE
