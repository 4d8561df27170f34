\* Every book, every order of answers and taps.  The screen stops when the
\* reader is on top.
SPECIFICATION Spec
CONSTANT Books <- MCBooks
INVARIANTS
  ListsTheBook
  OpensAnIndexOfTheBook
  OpensTappedWhenInverted
CHECK_DEADLOCK FALSE
