SPECIFICATION Spec
CONSTANTS
  c1 = c1
  c2 = c2
  p1 = p1
  p2 = p2
  Conn <- MCConn
  Home <- Together
  NPage = 2
  Val = {0, 1}
  MaxCount = 2
  NoPage = NoPage
  NoFile = NoFile
  Torn = Torn
  NoConn = NoConn
  NoView = NoView
INVARIANT ReadersSeeCommitted
