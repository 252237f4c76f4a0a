\* Four connections, two slots, three descriptors: the table overflows, slots
\* and descriptors are reused while messages of earlier occupants are queued
\* and while a newcomer is being added.
CONSTANTS
  Conn = {c1, c2, c3, c4}
  NoConn = NoConn
  Fd <- ThreeFds
  MaxWrites = 2
  Shapes <- OneLine
  MsgLen = 2
  Room = 1
  MaxClient = 2
SPECIFICATION Spec
INVARIANTS TypeInv OwnSlot CountMatchesTable NoSlotLeak OnlyAuthorSkipped OrderedDelivery
PROPERTY StoreWindow
CONSTRAINT FewWrites
SYMMETRY ConnSymmetry
CHECK_DEADLOCK FALSE
