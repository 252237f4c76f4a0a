\* One client writes up to four symbols and the other one; a buffer of three,
\* which may hold two lines and which they may fill; no message fits the
\* receiver's buffer of two.
CONSTANTS
  BufLen = 3
  Room = 2
  MaxWritten <- FourAndOne
SPECIFICATION PairFairSpec
INVARIANTS WellFormed Relay
PROPERTY Served
CHECK_DEADLOCK FALSE
