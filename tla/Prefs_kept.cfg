CONSTANTS
  EarlyView = FALSE
  W = 4
  LimitW = 16
  Typed <- MCTyped
  Sent <- MCSent
  Factory <- MCFactory
  Encryption = 1
  MaxChanges = 2
  MaxLaunches = 2
SPECIFICATION FairSpec
INVARIANTS KeptInv LastChangeWins
PROPERTY AskedIsSaved
CHECK_DEADLOCK FALSE
