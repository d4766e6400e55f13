CONSTANTS
  t1 = t1  t2 = t2  t3 = t3  h1 = h1  h2 = h2
  Torrent <- MCTorrent1
  Hash <- MCHash1
  HashOf <- MCHashOf1
  RpcPhases <- AllPhases
  MaxPosted = 2
  MaxStops = 1
  StartOutcome <- QueueOn
SPECIFICATION Spec
INVARIANTS TypeOK ListIsSession OneEntryPerHash ListInv ListedIsShown
PROPERTIES GhostRowsFromLoading ImplementsSessionList
