----------------------------- MODULE ITTorrent -----------------------------
(***************************************************************************)
(* The run control of one ITTorrent (iTransmission/ITTorrent.m) as         *)
(* operators on the part of its state that starting, stopping, sleeping    *)
(* and waking read and write:                                              *)
(*                                                                         *)
(*   act     what libtransmission is doing with the tr_torrent: it is      *)
(*           stopped, waits in a queue, or is active (checking,            *)
(*           downloading, seeding)                                         *)
(*   stat    the activity in the tr_stat snapshot the object holds; every  *)
(*           decision of the program reads this one, never "act"           *)
(*   resume  the resumeOnWake flag                                         *)
(*   stops   the number of background threads that performSelectorIn-      *)
(*           Background: has spawned for _stopInBackground and that have   *)
(*           not called tr_torrentStop yet                                 *)
(*                                                                         *)
(* The finer states of tr_stat (seed or download, checking, error) do not  *)
(* matter here: isActive and waitingToStart only separate these three.     *)
(***************************************************************************)
EXTENDS Naturals

\* What tr_torrentStart may make of a stopped torrent: "active", and "wait" if the
\* session limits the number of running torrents and queues the others.
CONSTANT StartOutcome
ASSUME StartOutcomeAssumption == StartOutcome \subseteq {"active", "wait"}

Activity == {"stopped", "wait", "active"}

RunControl == [act: Activity, stat: Activity, resume: BOOLEAN, stops: Nat]

\* The constructor pauses every torrent it makes (TR_FORCE), clears
\* resumeOnWake and takes a first snapshot.
Created == [act |-> "stopped", stat |-> "stopped", resume |-> FALSE, stops |-> 0]

\* initWithTorrentStruct wraps a tr_torrent that libtransmission made itself
\* and that may be running already.
Wrapped(a) == [Created EXCEPT !.act = a, !.stat = a]

isActive(r) == r.stat = "active"

waitingToStart(r) == r.stat = "wait"

update(r) == [r EXCEPT !.stat = r.act]

(***************************************************************************)
(* startTransferIgnoringQueue: nothing happens when the disk is too full   *)
(* ("space" is what alertForRemainingDiskSpace returns); tr_torrentStart   *)
(* leaves a torrent that is running or queued where it is, and StartNow    *)
(* always runs it.                                                         *)
(***************************************************************************)
started(r, a) == IF r.act = "stopped" THEN [r EXCEPT !.act = a] ELSE r

startTransfer(r, space, a) == IF space THEN update(started(r, a)) ELSE r

startTransferNoQueue(r, space) ==
  IF space THEN update([r EXCEPT !.act = "active"]) ELSE r

\* A thread is spawned and the snapshot is taken at once, so it usually still
\* shows the torrent running.
stopTransfer(r) == update([r EXCEPT !.stops = @ + 1])

\* Mutant: the thread trusts the snapshot.
stopInBackgroundMut(r) ==
  [r EXCEPT !.act = IF isActive(r) THEN "stopped" ELSE @, !.stops = @ - 1]

\* The background thread: tr_torrentStop. Its post of "update" to the main
\* thread belongs to the modules that have a main thread.
stopInBackground(r) == [r EXCEPT !.act = "stopped", !.stops = @ - 1]

sleep(r) ==
  [r EXCEPT !.resume = isActive(r), !.stops = IF isActive(r) THEN @ + 1 ELSE @]

\* Mutant: the snapshot is asked whether the torrent still runs.
wakeUpMut(r, a) == IF r.resume /\ ~isActive(r) THEN started(r, a) ELSE r

\* The flag is left set and no new snapshot is taken.
wakeUp(r, a) == IF r.resume THEN started(r, a) ELSE r
=============================================================================
