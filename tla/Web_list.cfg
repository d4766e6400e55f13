CONSTANTS
  N = 2
  Window = 4
  MaxDelay = 1
  MaxEvents = 2
  Magnets = {1}
  Ages <- MCAges
  MaxTime = 6
SPECIFICATION Spec
INVARIANTS RowsInv ViewIsFresh ViewIsShown NameIsAsked
CHECK_DEADLOCK FALSE
