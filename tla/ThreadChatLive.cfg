\* Two lines around an empty one, messages of two units to a buffer of one: every
\* send is short and waits.
CONSTANTS
  Conn = {c1, c2}
  NoConn = NoConn
  Fd <- TwoFds
  MaxWrites = 1
  Shapes <- TwoLines
  MsgLen = 2
  Room = 1
  MaxClient = 2
SPECIFICATION FairSpec
PROPERTIES QueueDrains LeaverDestroyed
CHECK_DEADLOCK FALSE
