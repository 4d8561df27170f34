\* Opened on the first part of the story and never paged back to its first
\* page (LowestReturn = 1).  The reader may stop for want of a swipe or of an answer.
SPECIFICATION FairSpec
CONSTANTS
  PartCount = 4
  Pages <- MCPages
  StartIndex = 3
  Swipes <- BothWays
  LowestReturn = 1
  Outcomes = {TRUE, FALSE}
  WillOrders = {"up", "down"}
  EndReports = {"none", "before", "after"}
  MaxSections = 6
INVARIANTS
  ReadingOrder
  NoTrap
  AskedOnce
  StatusWithinAPage
PROPERTIES
  AnswerKeepsPage
  StorySpec
  ReadsToTheEnd
  RetriesFailedLoads
  LoadingEnds
CHECK_DEADLOCK FALSE
