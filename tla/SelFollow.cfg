CONSTANTS
    Kinds = {"sensor", "oem"}
    MaxEvents = 6
    Setups <- MCSetups
SPECIFICATION Spec
INVARIANTS FollowsTheLog WrittenOnce
PROPERTIES ErasedAreKept EventsReported
CHECK_DEADLOCK FALSE
