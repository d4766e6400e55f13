CONSTANTS
  f1 = f1  f2 = f2  f3 = f3  n1 = n1  n2 = n2  h1 = h1  h2 = h2
  NoFile = NoFile  NoName = NoName
  Builds <- BothBuilds
  File <- SharedFile
  Name <- MCName
  NameOf <- SharedNameOf
  Hash <- MCHash
  HashOf <- SharedHashOf
  Bad <- MCBad
  Longer <- None
  MaxRestarts = 2
SPECIFICATION FairSpec
CHECK_DEADLOCK FALSE
INVARIANTS TakenInv TriedOnce
PROPERTY GoodFileIsAdded
