SPECIFICATION Spec
CONSTANTS
  c1 = c1
  c2 = c2
  c3 = c3
  p1 = p1
  p2 = p2
  NoConn = NoConn
  Conn <- MCConn
  Proc <- MCProc
  Home <- MCHome
  Main <- MCMain
  MaxQueue = 2
INVARIANTS LockInv WriterIsAlone OneOfAKind SystemHoldsIt SleeperIsQueued
PROPERTY LadderSpec
