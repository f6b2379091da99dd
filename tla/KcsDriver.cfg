CONSTANTS
    Programs = {p1, p2}
    Commands = 1
    Lengths = {3}
    ReplyLengths = {2, 3}
    Concurrent = FALSE
    SlowBytes = FALSE
SPECIFICATION Spec
INVARIANT HealthyAnswers
PROPERTIES Implements Returns
CHECK_DEADLOCK FALSE
