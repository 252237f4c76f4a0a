CONSTANTS
  Conn = {c1, c2}
  NoConn = NoConn
  Fd <- TwoFds
  MaxWrites = 1
  Shapes <- OneLine
  MsgLen = 1
  Room = 1
  MaxClient = 2
  BuffersCount = 1
  SqSize = 64
  MaxFailures = 1
SPECIFICATION FairSpec
INVARIANTS AcceptArmed OneReader TableHonest
PROPERTIES PendingServed Attended
CHECK_DEADLOCK FALSE
