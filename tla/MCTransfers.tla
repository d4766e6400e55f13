---------------------------- MODULE MCTransfers ----------------------------
(***************************************************************************)
(* Instances of Transfers for TLC: two objects for one torrent (it can be  *)
(* removed and opened again) and one object for another.                   *)
(***************************************************************************)
EXTENDS Transfers, TLC

CONSTANTS t1, t2, t3, h1, h2

MCTorrent == {t1, t2, t3}
MCHash == {h1, h2}
MCHashOf == (t1 :> h1) @@ (t2 :> h1) @@ (t3 :> h2)

\* Two torrents that differ, for the runs with liveness.
MCTorrent2 == {t1, t3}
MCHashOf2 == (t1 :> h1) @@ (t3 :> h2)

\* One torrent and its second object.
MCTorrent1 == {t1, t2}
MCHash1 == {h1}
MCHashOf1 == (t1 :> h1) @@ (t2 :> h1)

QueueOn == {"active", "wait"}
QueueOff == {"active"}

AllPhases == {"launching", "loading", "running"}
LoadedOnly == {"running"}

Interchangeable == Permutations({t1, t2})
=============================================================================
