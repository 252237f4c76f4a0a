\* read, execve, exit_group and a call the table has no name for; two signals,
\* SIGKILL among them, before, between and after any of three calls.
CONSTANTS
  Calls = {0, 59, 231, 435}
  ExitCall = 231
  ExecCall = 59
  TableSize = 314
  MaxCalls = 3
  MaxSignals = 2
SPECIFICATION FairSpec
INVARIANTS InStep CallLines HonestEnd
PROPERTY TracerEnds
CHECK_DEADLOCK FALSE
