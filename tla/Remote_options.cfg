CONSTANTS
  Torrents = 1
  Kind <- MCKind
  MaxOptions = 4
  MaxTrouble = 1
SPECIFICATION FairSpec
INVARIANTS ChangeReachesItsTorrent  SetBeforeGet
PROPERTY Ends
CHECK_DEADLOCK FALSE
