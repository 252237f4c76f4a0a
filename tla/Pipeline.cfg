CONSTANTS
  CmdCount = 4
  Amount = 2
  Capacity = 2
  MaxSigints = 2
  MaxFailures = 3
SPECIFICATION FairSpec
INVARIANTS NoFdLeak WholeOutput
PROPERTY PipelineEnds
CHECK_DEADLOCK FALSE
