CONSTANTS
  Conn = {c1, c2}
  NoConn = NoConn
  Fd <- TwoFds
  MaxWrites = 2
  Shapes <- OneLine
  MsgLen = 1
  Room = 1
  MaxClient = 2
  Listener = Listener
  Absent = Absent
  EpollSize = 2
SPECIFICATION FairSpec
PROPERTY LeaverDestroyed
CHECK_DEADLOCK FALSE
