CONSTANTS
  PefMax = 5
  PefNum = 2
  MaxUsers = 4
  NUsers = 3
  NDest = 2
  MaxFails = 1
  FwCommands <- MCFwCommands
  FwSubfns = {0, 1}
  FwPairs <- MCFwPairs
  Configs <- MCConfigs
  Setups <- MCSetups
SPECIFICATION Spec
INVARIANT AsAsked
PROPERTY OneAfterTheOther
CHECK_DEADLOCK FALSE
