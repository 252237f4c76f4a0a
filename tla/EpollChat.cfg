CONSTANTS
  Conn = {c1, c2, c3, c4}
  NoConn = NoConn
  Fd <- ThreeFds
  MaxWrites = 2
  Shapes <- TwoLines
  MsgLen = 1
  Room = 2
  MaxClient = 2
  Listener = Listener
  Absent = Absent
  EpollSize = 2
SPECIFICATION Spec
INVARIANTS RegistryAgrees EventsCurrent NoLostEdge
PROPERTIES RoomPromise StrayOnlyWhenFull
SYMMETRY ConnSymmetry
CONSTRAINT FewWrites
CHECK_DEADLOCK FALSE
