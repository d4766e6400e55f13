------------------------- MODULE MCNetworkSwitcher -------------------------
(* Instances of NetworkSwitcher. *)
EXTENDS NetworkSwitcher, TLC

CONSTANTS t1, t2

MCTorrent2 == {t1, t2}
MCTorrent1 == {t1}
QueueOff == {"active"}
QueueOn == {"active", "wait"}

Interchangeable == Permutations(MCTorrent2)
=============================================================================
