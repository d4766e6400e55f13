CONSTANTS
  v1 = v1  v2 = v2  v3 = v3
  Unset = Unset
  Value <- MCValue
SPECIFICATION DaemonFairSpec
INVARIANTS WantedIsKept KeptInv
PROPERTY ClosingEnds
