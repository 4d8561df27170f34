SPECIFICATION Spec
CONSTANTS
  c1 = c1
  c2 = c2
  Conn <- MCConn
  NPage = 2
  MaxChange = 2
  NMark = 1
  MaxFrame = 2
  MaxSalt = 2
  NoPage = NoPage
  NoImage = NoImage
  Torn = Torn
  NoConn = NoConn
  NoView = NoView
SYMMETRY Alike
CONSTRAINT NoneOvertaken
INVARIANTS TypeOK LogHoldsTheCommits SyncedCommitsSurvive KeptCacheIsCurrent BackfillWithinLog
PROPERTY StoreSpec
