CONSTANTS
  Typed <- AllKinds
  HistoryMax = 2
  MaxLines = 3
  MaxSigints = 2
SPECIFICATION FairSpec
INVARIANTS TypeOK OneAtWork InterruptStopsLine OneLinePerInterrupt
PROPERTY BackToPrompt
CHECK_DEADLOCK FALSE
