CONSTANTS
  Conn = {c1, c2, c3}
  NoConn = NoConn
  Fd <- ThreeFds
  MaxWrites = 1
  Shapes <- OneLine
  MsgLen = 2
  Room = 1
  MaxClient = 2
SPECIFICATION FairSpec
INVARIANT TableInv
PROPERTIES RoomPromise PendingServed Attended
CHECK_DEADLOCK FALSE
