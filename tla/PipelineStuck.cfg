CONSTANTS
  CmdCount = 2
  Amount = 2
  Capacity = 1
  MaxSigints = 0
  MaxFailures = 0
SPECIFICATION FairSpec
PROPERTY AlwaysEnds
CHECK_DEADLOCK FALSE
