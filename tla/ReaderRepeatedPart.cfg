\* Paged forward from the middle of the book: the answer about the previous
\* part hides the request for the next one.
SPECIFICATION Spec
CONSTANTS
  PartCount = 4
  Pages <- MCPages
  StartIndex = 2
  Swipes <- Forward
  LowestReturn = 0
  Outcomes = {TRUE}
  WillOrders = {"up"}
  EndReports = {"none"}
  MaxSections = 6
INVARIANT ReadingOrder
CHECK_DEADLOCK FALSE
