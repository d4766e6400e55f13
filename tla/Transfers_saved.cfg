CONSTANTS
  t1 = t1  t2 = t2  t3 = t3  h1 = h1  h2 = h2
  Torrent <- MCTorrent2
  Hash <- MCHash
  HashOf <- MCHashOf2
  RpcPhases <- LoadedOnly
  MaxPosted = 1
  MaxStops = 1
  StartOutcome <- QueueOff
SPECIFICATION FairSpec
INVARIANTS OpenedIsSaved
PROPERTIES RemovalCarriedOut StopTakesEffect
