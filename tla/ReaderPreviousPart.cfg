\* Back at the first page, the part that is requested is a newer one.
SPECIFICATION Spec
CONSTANTS
  PartCount = 4
  Pages <- MCPages
  StartIndex = 2
  Swipes <- BothWays
  LowestReturn = 0
  Outcomes = {TRUE}
  WillOrders = {"up"}
  EndReports = {"none"}
  MaxSections = 6
INVARIANT PrecedingIsOlder
CHECK_DEADLOCK FALSE
