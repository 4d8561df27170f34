\* Every environment: pages turned both ways, answers of both outcomes in any
\* order, cells reported in any order.  The reader may stop: the set-up may
\* fail, a trap ends the app, and MaxSections ends the paging.
SPECIFICATION Spec
CONSTANTS
  PartCount = 4
  Pages <- MCPages
  StartIndex = 2
  Swipes <- BothWays
  LowestReturn = 0
  Outcomes = {TRUE, FALSE}
  WillOrders = {"up", "down"}
  EndReports = {"none", "before", "after"}
  MaxSections = 5
INVARIANTS
  TypeOK
  OpenedPartAnchored
  SectionsExist
  NoAbandonedLoad
  LaterSectionsNeverAhead
CHECK_DEADLOCK FALSE
