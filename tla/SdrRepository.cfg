CONSTANTS
    Programs = {1, 2}
    Setups <- MCSetups
    MaxTries = 2
SPECIFICATION Spec
INVARIANTS NoneIsTorn SuccessIsComplete
PROPERTY Ends
\* All programs may be over.
CHECK_DEADLOCK FALSE
