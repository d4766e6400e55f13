CONSTANTS
  t1 = t1  t2 = t2
  Torrent <- MCTorrent2
  MaxStops = 2
  StartOutcome <- QueueOff
SPECIFICATION FairSpec
INVARIANTS SwitchesObeyed NoUnaskedCellular OwedIsFlagged
PROPERTIES WakeRestartsSlept NoticeIsAdopted
