----------------------------- MODULE MCWatchDir -----------------------------
(***************************************************************************)
(* Instances of WatchDir for TLC: a bad file and two good ones that share  *)
(* a name, and two good files under names of their own.                    *)
(***************************************************************************)
EXTENDS WatchDir, TLC

CONSTANTS f1, f2, f3, n1, n2, h1, h2

MCFile == {f1, f2}
MCName == {n1, n2}
MCNameOf == (f1 :> n1) @@ (f2 :> n2)
MCHash == {h1, h2}
MCHashOf == (f1 :> h1) @@ (f2 :> h2)
MCBad == {f1}

SharedFile == {f1, f2, f3}
SharedNameOf == (f1 :> n1) @@ (f2 :> n2) @@ (f3 :> n2)
SharedHashOf == (f1 :> h1) @@ (f2 :> h2) @@ (f3 :> h1)

BothBuilds == {"inotify", "readdir"}
ReaddirOnly == {"readdir"}

None == {}
\* n1 is "a.torrent9b.torrent" and n2 "a.torrent".
Hiding == {<<n1, n2>>}
=============================================================================
