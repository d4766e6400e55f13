-------------------------- MODULE TransfersProofs --------------------------
(***************************************************************************)
(* Theorems about Transfers, for any set of torrents and hashes, any       *)
(* number of posted selectors and any phases in which RPC is served.       *)
(***************************************************************************)
EXTENDS Transfers, SequenceTheorems, TLAPS

-----------------------------------------------------------------------------
(* Type correctness *)

\* Every run control operator returns a run control state; stops is decremented
\* only by a thread that exists.
LEMMA RunControlTypes ==
  ASSUME NEW r \in RunControl, NEW a \in StartOutcome, NEW space \in BOOLEAN
  PROVE  /\ Created \in RunControl
         /\ Wrapped(a) \in RunControl
         /\ Wrapped("stopped") \in RunControl
         /\ update(r) \in RunControl
         /\ started(r, a) \in RunControl
         /\ startTransfer(r, space, a) \in RunControl
         /\ startTransferNoQueue(r, space) \in RunControl
         /\ stopTransfer(r) \in RunControl
         /\ Removed(r) \in RunControl
         /\ (r.stops > 0 => stopInBackground(r) \in RunControl)
         /\ \A s \in Activity : [r EXCEPT !.act = s] \in RunControl
         /\ \A s \in Activity : [r EXCEPT !.stat = s] \in RunControl
<1>1. a \in Activity
  BY StartOutcomeAssumption DEF Activity
<1>2. Created \in RunControl
  BY DEF RunControl, Created, Activity
<1>3. \A s \in Activity : [r EXCEPT !.act = s] \in RunControl
  BY DEF RunControl
<1>4. \A s \in Activity : [r EXCEPT !.stat = s] \in RunControl
  BY DEF RunControl
<1>5. \A s \in Activity : Wrapped(s) \in RunControl
  BY DEF RunControl, Created, Wrapped
<1>6. \A q \in RunControl : update(q) \in RunControl
  BY DEF RunControl, update
<1>7. started(r, a) \in RunControl
  BY <1>1, <1>3 DEF started
<1>8. startTransfer(r, space, a) \in RunControl
  BY <1>6, <1>7 DEF startTransfer
<1>9. startTransferNoQueue(r, space) \in RunControl
  BY <1>3, <1>6 DEF startTransferNoQueue, Activity
<1>10. stopTransfer(r) \in RunControl
  <2>1. [r EXCEPT !.stops = @ + 1] \in RunControl
    BY DEF RunControl
  <2>2. QED BY <2>1, <1>6 DEF stopTransfer
<1>11. Removed(r) \in RunControl
  BY DEF RunControl, Created, Removed, Activity
<1>12. r.stops > 0 => stopInBackground(r) \in RunControl
  <2>1. r.stops \in Nat
    BY DEF RunControl
  <2>2. r.stops > 0 => r.stops - 1 \in Nat
    BY <2>1
  <2>3. QED BY <2>2 DEF RunControl, stopInBackground, Activity
<1>13. "stopped" \in Activity
  BY DEF Activity
<1>14. QED
  BY <1>1, <1>2, <1>3, <1>4, <1>5, <1>6, <1>7, <1>8, <1>9, <1>10, <1>11, <1>12, <1>13

\* Stopping and removing do not depend on what a start would make of the torrent.
LEMMA StopTypes ==
  ASSUME NEW r \in RunControl
  PROVE  stopTransfer(r) \in RunControl /\ Removed(r) \in RunControl
<1>1. [r EXCEPT !.stops = @ + 1] \in RunControl
  BY DEF RunControl
<1>2. \A q \in RunControl : update(q) \in RunControl
  BY DEF RunControl, update
<1>3. stopTransfer(r) \in RunControl
  BY <1>1, <1>2 DEF stopTransfer
<1>4. Removed(r) \in RunControl
  BY DEF RunControl, Created, Removed, Activity
<1>5. QED BY <1>3, <1>4

\* Posting and performing keep the queue a sequence of posted selectors.
LEMMA RunloopTypes ==
  ASSUME NEW q \in Seq(Posted), NEW s \in Selector, NEW t \in Torrent
  PROVE  /\ Append(q, [sel |-> s, t |-> t]) \in Seq(Posted)
         /\ q # <<>> => Tail(q) \in Seq(Posted) /\ Head(q) \in Posted
<1>1. [sel |-> s, t |-> t] \in Posted
  BY DEF Posted
<1>2. Append(q, [sel |-> s, t |-> t]) \in Seq(Posted)
  BY <1>1, AppendProperties
<1>3. QED BY <1>2, HeadTailProperties

\* The saved history of any part of the list is a set of history items.
LEMMA HistoryType ==
  ASSUME NEW list \in SUBSET Torrent, NEW control \in [Torrent -> RunControl]
  PROVE  HistoryOf(list, control) \subseteq HistoryItem
  BY HashOfAssumption DEF HistoryOf, HistoryItem, RunControl
\* No step takes a variable out of its type.
LEMMA TypeStep == TypeOK /\ [Next]_vars => TypeOK'
<1> SUFFICES ASSUME TypeOK, [Next]_vars
             PROVE  TypeOK'
  OBVIOUS
<1> USE DEF TypeOK, listVars, loadVars
<1>1. CASE loadTorrentHistory
  BY <1>1 DEF loadTorrentHistory, HistoryItem, Activity
<1>2. ASSUME NEW item \in unread, NEW t \in Torrent, NEW space \in BOOLEAN,
             loadHistoryItem(item, t, space)
      PROVE  TypeOK'
  <2>1. Created \in RunControl /\ startTransferNoQueue(Created, space) \in RunControl
    BY DEF RunControl, Created, Activity, startTransferNoQueue, update
  <2>2. tor' \in [Torrent -> RunControl]
    BY <1>2, <2>1 DEF loadHistoryItem
  <2>3. QED BY <1>2, <2>2 DEF loadHistoryItem, Life
<1>3. ASSUME NEW t \in toStart, NEW space \in BOOLEAN, NEW a \in StartOutcome,
             startWaiting(t, space, a)
      PROVE  TypeOK'
  <2>1. Started(t, space, a) \in RunControl
    BY RunControlTypes DEF Started
  <2>2. QED BY <1>3, <2>1 DEF startWaiting
<1>4. CASE historyLoaded
  BY <1>4 DEF historyLoaded
<1>5. ASSUME NEW t \in Torrent, NEW a \in StartOutcome \cup {"stopped"},
             rpcTorrentAdded(t, a)
      PROVE  TypeOK'
  <2>1. Wrapped(a) \in RunControl
    BY StartOutcomeAssumption DEF RunControl, Created, Wrapped, Activity
  <2>2. runloop' \in Seq(Posted)
    BY <1>5, RunloopTypes DEF rpcTorrentAdded, Post, Selector
  <2>3. QED BY <1>5, <2>1, <2>2 DEF rpcTorrentAdded, Life
<1>6. ASSUME NEW t \in Torrent, NEW a \in StartOutcome, rpcTorrentStarted(t, a)
      PROVE  TypeOK'
  <2>1. runloop' \in Seq(Posted)
    BY <1>6, RunloopTypes DEF rpcTorrentStarted, rpcCallback, Post, Selector
  <2>2. tor' \in [Torrent -> RunControl]
    <3>1. tor[t] \in RunControl /\ a \in Activity
      BY StartOutcomeAssumption DEF Activity
    <3>2. [tor[t] EXCEPT !.act = IF tor[t].act = "active" THEN tor[t].act ELSE a] \in RunControl
      BY <3>1 DEF RunControl
    <3>3. QED BY <1>6, <3>2 DEF rpcTorrentStarted
  <2>3. QED BY <1>6, <2>1, <2>2 DEF rpcTorrentStarted
<1>7. ASSUME NEW t \in Torrent, rpcTorrentStopped(t)
      PROVE  TypeOK'
  <2>1. runloop' \in Seq(Posted)
    BY <1>7, RunloopTypes DEF rpcTorrentStopped, rpcCallback, Post, Selector
  <2>2. tor' \in [Torrent -> RunControl]
    BY <1>7 DEF rpcTorrentStopped, RunControl, Activity
  <2>3. QED BY <1>7, <2>1, <2>2 DEF rpcTorrentStopped
<1>8. ASSUME NEW t \in Torrent, rpcTorrentChanged(t)
      PROVE  TypeOK'
  <2>1. runloop' \in Seq(Posted)
    BY <1>8, RunloopTypes DEF rpcTorrentChanged, rpcCallback, Post, Selector
  <2>2. QED BY <1>8, <2>1 DEF rpcTorrentChanged
<1>9. ASSUME NEW t \in Torrent, rpcTorrentRemoving(t)
      PROVE  TypeOK'
  <2>1. runloop' \in Seq(Posted)
    BY <1>9, RunloopTypes DEF rpcTorrentRemoving, rpcCallback, Post, Selector
  <2>2. Created \in RunControl
    BY DEF RunControl, Created, Activity
  <2>3. QED BY <1>9, <2>1, <2>2 DEF rpcTorrentRemoving, Life
<1>10. ASSUME NEW t \in Torrent, NEW a \in StartOutcome \cup {"stopped"},
              torrentCallback(t, a)
       PROVE  TypeOK'
  <2>1. runloop' \in Seq(Posted)
    BY <1>10, RunloopTypes DEF torrentCallback, Post, Selector
  <2>2. tor' \in [Torrent -> RunControl]
    BY <1>10, StartOutcomeAssumption DEF torrentCallback, RunControl, Activity
  <2>3. QED BY <1>10, <2>1, <2>2 DEF torrentCallback
<1>11. ASSUME NEW t \in Torrent, stopTransferInBackground(t)
       PROVE  TypeOK'
  <2>1. stopTransfer(tor[t]) \in RunControl
    BY StopTypes
  <2>2. QED BY <1>11, <2>1 DEF stopTransferInBackground
<1>12. ASSUME NEW t \in Torrent, _stopInBackground(t)
       PROVE  TypeOK'
  <2>1. stopInBackground(tor[t]) \in RunControl
    <3>1. tor[t].stops \in Nat /\ tor[t].stops > 0
      BY <1>12 DEF _stopInBackground, RunControl
    <3>2. tor[t].stops - 1 \in Nat
      BY <3>1
    <3>3. QED BY <3>2 DEF RunControl, stopInBackground, Activity
  <2>2. runloop' \in Seq(Posted)
    BY <1>12, RunloopTypes DEF _stopInBackground, Post, Selector
  <2>3. QED BY <1>12, <2>1, <2>2 DEF _stopInBackground
<1>13. ASSUME NEW s \in Selector, NEW t \in Torrent, Next_(s, t)
       PROVE  runloop' \in Seq(Posted)
  BY <1>13, RunloopTypes DEF Next_
<1>14. \A t \in Torrent : update(tor[t]) \in RunControl
  BY DEF RunControl, update
<1>15. ASSUME NEW t \in Torrent, performUpdate(t)
       PROVE  TypeOK'
  BY <1>13, <1>14, <1>15 DEF performUpdate, Selector
<1>16. ASSUME NEW t \in Torrent, rpcStartedStoppedTorrent(t)
       PROVE  TypeOK'
  <2>1. tor' \in [Torrent -> RunControl]
    BY <1>14, <1>16 DEF rpcStartedStoppedTorrent
  <2>2. plist' \subseteq HistoryItem
    BY <1>16, <2>1, HistoryType DEF rpcStartedStoppedTorrent
  <2>3. QED BY <1>13, <1>16, <2>1, <2>2 DEF rpcStartedStoppedTorrent, Selector
<1>17. ASSUME NEW t \in Torrent, rpcAddTorrentStruct(t)
       PROVE  TypeOK'
  BY <1>13, <1>14, <1>17 DEF rpcAddTorrentStruct, Selector, Life
<1>18. ASSUME NEW t \in Torrent, confirmRemoveTorrents(t)
       PROVE  /\ tor' \in [Torrent -> RunControl]
              /\ life' \in [Torrent -> Life]
              /\ torrents' \subseteq Torrent /\ displayed' \subseteq Torrent
              /\ opened' \subseteq Hash
  <2>1. PICK r \in Seen(t) :
          tor' = [tor EXCEPT ![t] = Removed(IF waitingToStart(r) THEN stopTransfer(r) ELSE r)]
    BY <1>18 DEF confirmRemoveTorrents
  <2>2. r \in RunControl
    <3>1. tor[t] \in RunControl
      OBVIOUS
    <3>2. \A s \in Activity : [tor[t] EXCEPT !.stat = s] \in RunControl
      BY <3>1 DEF RunControl
    <3> QED BY <3>1, <3>2 DEF Seen
  <2>3. \A q \in RunControl : Removed(q) \in RunControl /\ stopTransfer(q) \in RunControl
    BY StopTypes
  <2>4. tor' \in [Torrent -> RunControl]
    BY <2>1, <2>2, <2>3
  <2>5. QED BY <1>18, <2>4 DEF confirmRemoveTorrents, Life
<1>19. ASSUME NEW t \in Torrent, rpcRemoveTorrent(t)
       PROVE  TypeOK'
  BY <1>13, <1>18, <1>19 DEF rpcRemoveTorrent, Selector
<1>20. ASSUME NEW t \in Torrent, _delayedRemovalOfTorrents(t)
       PROVE  TypeOK'
  BY <1>20 DEF _delayedRemovalOfTorrents
<1>21. ASSUME NEW t \in Torrent, NEW space \in BOOLEAN, NEW a \in StartOutcome
       PROVE  Started(t, space, a) \in RunControl
  BY RunControlTypes DEF Started
<1>22. ASSUME NEW t \in displayed, NEW space \in BOOLEAN, NEW a \in StartOutcome,
              progressControlTapped(t, space, a)
       PROVE  TypeOK'
  BY <1>21, <1>22 DEF progressControlTapped
<1>23. ASSUME NEW t \in displayed, deleteRow(t)
       PROVE  TypeOK'
  BY <1>18, <1>23 DEF deleteRow
<1>24. ASSUME NEW t \in Torrent, NEW space \in BOOLEAN, NEW a \in StartOutcome,
              MakeOpened(t, space, a)
       PROVE  TypeOK'
  <2>1. startTransfer(Created, space, a) \in RunControl
    <3>1. Created \in RunControl
      BY DEF RunControl, Created, Activity
    <3>2. QED BY <3>1, RunControlTypes
  <2>2. QED BY <1>24, <2>1 DEF MakeOpened, Life
<1>25. ASSUME app' \in {"launching", "aborted"}, ProcessEnd
       PROVE  TypeOK'
  <2>1. Created \in RunControl
    BY DEF RunControl, Created, Activity
  <2>2. <<>> \in Seq(Posted)
    OBVIOUS
  <2>3. QED BY <1>25, <2>1, <2>2 DEF ProcessEnd, Life
<1>26. ASSUME NEW t \in Torrent, NEW space \in BOOLEAN, NEW a \in StartOutcome,
              openFiles(t, space, a) \/ openMagnet(t, space, a)
       PROVE  TypeOK'
  BY <1>24, <1>25, <1>26 DEF openFiles, openMagnet
<1>27. CASE updateStatistics
  BY <1>14, <1>27 DEF updateStatistics
<1>28. CASE saveHistory
  BY <1>28, HistoryType DEF saveHistory
<1>29. ASSUME NEW space \in [torrents -> BOOLEAN], NEW a \in [torrents -> StartOutcome],
              applicationDidEnterBackground(space, a)
       PROVE  TypeOK'
  <2>1. tor' \in [Torrent -> RunControl]
    BY <1>21, <1>29 DEF applicationDidEnterBackground
  <2>2. plist' \subseteq HistoryItem
    BY <1>29, <2>1, HistoryType DEF applicationDidEnterBackground
  <2>3. QED BY <1>29, <2>1, <2>2 DEF applicationDidEnterBackground
<1>30. CASE relaunch
  BY <1>25, <1>30 DEF relaunch
<1>31. CASE UNCHANGED vars
  BY <1>31 DEF vars
<1>32. ASSUME NEW t \in Torrent, listLoaded(t)
       PROVE  TypeOK'
  BY <1>32 DEF listLoaded, Life
<1>33. ASSUME NEW t \in Torrent, listOpened(t)
       PROVE  TypeOK'
  <2>1. torrents' \subseteq Torrent
    BY <1>33 DEF listOpened
  <2>2. plist' \subseteq HistoryItem
    BY <1>33, <2>1, HistoryType DEF listOpened
  <2>3. QED BY <1>33, <2>1, <2>2, HashOfAssumption DEF listOpened, Life
<1>34. QED
  BY <1>1, <1>2, <1>3, <1>4, <1>5, <1>6, <1>7, <1>8, <1>9, <1>10, <1>11, <1>12, <1>15,
     <1>16, <1>17, <1>19, <1>20, <1>22, <1>23, <1>26, <1>27, <1>28, <1>29, <1>30, <1>31,
     <1>32, <1>33
  DEF Next, LaunchThread, RPC, MainThread, User, System

\* Every variable keeps its type, whatever the threads do.
THEOREM TypeCorrect == Spec => []TypeOK
<1>1. Init => TypeOK
  <2>1. Created \in RunControl
    BY DEF RunControl, Created, Activity
  <2>2. <<>> \in Seq(Posted)
    OBVIOUS
  <2>3. QED BY <2>1, <2>2 DEF Init, TypeOK, Life
<1>2. QED
  BY <1>1, TypeStep, PTL DEF Spec

-----------------------------------------------------------------------------
(* The list is the session *)

\* What a selector other than rpcAdd needs its torrent to be, as QueueInv has it.
Handled(l, s) ==
  /\ l \in {"made", "live", "removed"}
  /\ s # "update" => l \in {"live", "removed"}

LEMMA HandledIs ==
  \A i \in DOMAIN runloop :
    (IsWrapped(runloop[i].t) /\ (runloop[i].sel # "update" => WasListed(runloop[i].t)))
      <=> Handled(life[runloop[i].t], runloop[i].sel)
BY DEF Handled, IsWrapped, WasListed

LEMMA QueueInvIs ==
  QueueInv <=>
    /\ \A i \in DOMAIN runloop :
         IF runloop[i].sel = "rpcAdd" THEN life[runloop[i].t] = "raw"
         ELSE Handled(life[runloop[i].t], runloop[i].sel)
    /\ \A i, j \in DOMAIN runloop :
         runloop[i].sel = "rpcAdd" /\ runloop[j] = runloop[i] => i = j
    /\ \A t \in Torrent : life[t] = "raw" =>
         \E i \in DOMAIN runloop : runloop[i] = [sel |-> "rpcAdd", t |-> t]
BY HandledIs DEF QueueInv

LEMMA QueueInvIsNext ==
  QueueInv' <=>
    /\ \A i \in DOMAIN runloop' :
         IF runloop'[i].sel = "rpcAdd" THEN life'[runloop'[i].t] = "raw"
         ELSE Handled(life'[runloop'[i].t], runloop'[i].sel)
    /\ \A i, j \in DOMAIN runloop' :
         runloop'[i].sel = "rpcAdd" /\ runloop'[j] = runloop'[i] => i = j
    /\ \A t \in Torrent : life'[t] = "raw" =>
         \E i \in DOMAIN runloop' : runloop'[i] = [sel |-> "rpcAdd", t |-> t]
BY DEF QueueInv, Handled, IsWrapped, WasListed

\* What a queue holds after a post, and after its head was taken.
LEMMA PostedElement ==
  ASSUME NEW q \in Seq(Posted), NEW i \in DOMAIN q
  PROVE  q[i] \in Posted /\ q[i].t \in Torrent /\ q[i].sel \in Selector
<1>1. q[i] \in Posted
  OBVIOUS
<1>2. QED BY <1>1 DEF Posted

LEMMA PostedIndex ==
  ASSUME NEW q \in Seq(Posted), NEW m \in Posted
  PROVE  /\ DOMAIN Append(q, m) = 1 .. Len(q) + 1
         /\ DOMAIN q = 1 .. Len(q) /\ Len(q) \in Nat
         /\ \A i \in DOMAIN q : i \in DOMAIN Append(q, m) /\ Append(q, m)[i] = q[i]
         /\ Len(q) + 1 \in DOMAIN Append(q, m) /\ Append(q, m)[Len(q) + 1] = m
         /\ \A i \in DOMAIN Append(q, m) : i \in DOMAIN q \/ i = Len(q) + 1
BY AppendProperties

LEMMA TakenIndex ==
  ASSUME NEW q \in Seq(Posted), q # <<>>
  PROVE  /\ 1 \in DOMAIN q /\ Head(q) = q[1] /\ DOMAIN q \subseteq Nat
         /\ \A i \in DOMAIN Tail(q) : i + 1 \in DOMAIN q /\ Tail(q)[i] = q[i + 1]
         /\ \A i \in DOMAIN Tail(q) : i \in Nat \ {0}
         /\ \A i \in DOMAIN q : i # 1 => i - 1 \in DOMAIN Tail(q)
BY HeadTailProperties

\* Nothing about the queue changes.
LEMMA QueueKept ==
  QueueInv /\ UNCHANGED <<life, runloop>> => QueueInv'
BY DEF QueueInv, IsWrapped, WasListed

\* A selector other than rpcAdd is posted for a torrent it fits.
LEMMA QueuePost ==
  ASSUME TypeOK, QueueInv, NEW s \in Selector \ {"rpcAdd"}, NEW t \in Torrent,
         IsWrapped(t), s = "update" \/ WasListed(t), Post(s, t), life' = life
  PROVE  QueueInv'
<1> DEFINE m == [sel |-> s, t |-> t]
<1>1. m \in Posted /\ m.sel # "rpcAdd" /\ m.t = t /\ m.sel = s
  BY DEF Posted
<1>2. runloop \in Seq(Posted) /\ runloop' = Append(runloop, m)
  BY DEF TypeOK, Post
<1> HIDE DEF m
<1>3. \A i \in DOMAIN runloop : i \in DOMAIN runloop' /\ runloop'[i] = runloop[i]
  BY <1>1, <1>2, PostedIndex
<1>4. \A i \in DOMAIN runloop' :
        \/ i \in DOMAIN runloop /\ runloop'[i] = runloop[i]
        \/ runloop'[i] = m
  BY <1>1, <1>2, PostedIndex
<1>5. QED BY <1>1, <1>3, <1>4 DEF QueueInv, IsWrapped, WasListed

\* A new raw torrent and its rpcAdd.
LEMMA QueuePostAdd ==
  ASSUME TypeOK, QueueInv, NEW t \in Torrent, life[t] = "none", Post("rpcAdd", t),
         life' = [life EXCEPT ![t] = "raw"]
  PROVE  QueueInv'
<1> DEFINE m == [sel |-> "rpcAdd", t |-> t]
<1>1. m \in Posted /\ m.sel = "rpcAdd" /\ m.t = t
  BY DEF Posted, Selector
<1>2. runloop \in Seq(Posted) /\ runloop' = Append(runloop, m)
  BY DEF TypeOK, Post
<1>3. \A i \in DOMAIN runloop : runloop[i].t # t
  BY DEF QueueInv, IsWrapped, WasListed
<1>4. \A u \in Torrent : life'[u] = IF u = t THEN "raw" ELSE life[u]
  BY DEF TypeOK
<1>5. \A i \in DOMAIN runloop : runloop[i].t \in Torrent
  BY <1>2, PostedElement
<1>6. /\ \A i \in DOMAIN runloop : i \in DOMAIN runloop' /\ runloop'[i] = runloop[i]
      /\ Len(runloop) + 1 \in DOMAIN runloop' /\ runloop'[Len(runloop) + 1] = m
      /\ \A i \in DOMAIN runloop' : i \in DOMAIN runloop \/ i = Len(runloop) + 1
  BY <1>1, <1>2, PostedIndex
<1>7. \A i \in DOMAIN runloop' :
        IF runloop'[i].sel = "rpcAdd" THEN life'[runloop'[i].t] = "raw"
        ELSE Handled(life'[runloop'[i].t], runloop'[i].sel)
  BY <1>1, <1>3, <1>4, <1>5, <1>6, QueueInvIs
<1>8. \A i, j \in DOMAIN runloop' :
        runloop'[i].sel = "rpcAdd" /\ runloop'[j] = runloop'[i] => i = j
  BY <1>1, <1>3, <1>6 DEF QueueInv
<1>9. \A u \in Torrent : life'[u] = "raw" =>
        \E i \in DOMAIN runloop' : runloop'[i] = [sel |-> "rpcAdd", t |-> u]
  BY <1>4, <1>6 DEF QueueInv
<1>10. QED BY <1>7, <1>8, <1>9, QueueInvIsNext

\* A selector other than rpcAdd is performed: its torrent is wrapped, and is
\* left as it is or removed.
LEMMA QueueTake ==
  ASSUME TypeOK, QueueInv, NEW s \in Selector \ {"rpcAdd"}, NEW t \in Torrent, Next_(s, t)
  PROVE  /\ IsWrapped(t) /\ (s # "update" => WasListed(t))
         /\ life' = life \/ life' = [life EXCEPT ![t] = "removed"] => QueueInv'
<1>1. runloop \in Seq(Posted) /\ runloop # <<>> /\ runloop' = Tail(runloop)
  BY DEF TypeOK, Next_
<1>2. 1 \in DOMAIN runloop /\ runloop[1].sel = s /\ runloop[1].t = t
  BY <1>1, TakenIndex DEF Next_
<1>3. IsWrapped(t) /\ (s # "update" => WasListed(t))
  BY <1>2 DEF QueueInv
<1>4. /\ \A i \in DOMAIN runloop' : i + 1 \in DOMAIN runloop /\ runloop'[i] = runloop[i + 1]
      /\ \A i \in DOMAIN runloop : i # 1 => i - 1 \in DOMAIN runloop'
      /\ \A i \in DOMAIN runloop' : i \in Nat \ {0}
      /\ DOMAIN runloop \subseteq Nat
  BY <1>1, TakenIndex
<1>5. ASSUME life' = life \/ life' = [life EXCEPT ![t] = "removed"]
      PROVE  QueueInv'
  <2>1. \A u \in Torrent : life'[u] = life[u] \/ (u = t /\ life'[u] = "removed")
    BY <1>5 DEF TypeOK
  <2>2. \A i \in DOMAIN runloop : runloop[i].t \in Torrent
    BY <1>1, PostedElement
  <2>3. life[t] # "raw"
    BY <1>3 DEF IsWrapped, WasListed
  <2>4. \A i \in DOMAIN runloop' :
          IF runloop'[i].sel = "rpcAdd" THEN life'[runloop'[i].t] = "raw"
          ELSE Handled(life'[runloop'[i].t], runloop'[i].sel)
    BY <1>4, <2>1, <2>2, <2>3, QueueInvIs DEF Handled
  <2>5. \A i, j \in DOMAIN runloop' :
          runloop'[i].sel = "rpcAdd" /\ runloop'[j] = runloop'[i] => i = j
    BY <1>4 DEF QueueInv
  <2>6. ASSUME NEW u \in Torrent, life'[u] = "raw"
        PROVE  \E i \in DOMAIN runloop' : runloop'[i] = [sel |-> "rpcAdd", t |-> u]
    <3>1. life[u] = "raw"
      BY <2>1, <2>6
    <3>2. PICK i \in DOMAIN runloop : runloop[i] = [sel |-> "rpcAdd", t |-> u]
      BY <3>1 DEF QueueInv
    <3>3. i # 1
      BY <1>2, <3>2
    <3>4. i \in Nat /\ i - 1 \in DOMAIN runloop' /\ runloop'[i - 1] = runloop[i]
      BY <1>4, <3>3
    <3>5. QED BY <3>2, <3>4
  <2>7. QED BY <2>4, <2>5, <2>6, QueueInvIsNext
<1>6. QED BY <1>3, <1>5

\* rpcAdd is performed: its torrent is raw, and no other selector about it waits.
LEMMA QueueTakeAdd ==
  ASSUME TypeOK, QueueInv, NEW t \in Torrent, Next_("rpcAdd", t),
         life' = [life EXCEPT ![t] = "live"]
  PROVE  life[t] = "raw" /\ QueueInv'
<1>1. runloop \in Seq(Posted) /\ runloop # <<>> /\ runloop' = Tail(runloop)
  BY DEF TypeOK, Next_
<1>2. 1 \in DOMAIN runloop /\ runloop[1] = [sel |-> "rpcAdd", t |-> t]
  BY <1>1, TakenIndex DEF Next_
<1>3. life[t] = "raw"
  BY <1>2 DEF QueueInv
<1>4. /\ \A i \in DOMAIN runloop' : i + 1 \in DOMAIN runloop /\ runloop'[i] = runloop[i + 1]
      /\ \A i \in DOMAIN runloop : i # 1 => i - 1 \in DOMAIN runloop'
      /\ \A i \in DOMAIN runloop' : i \in Nat \ {0}
      /\ DOMAIN runloop \subseteq Nat
  BY <1>1, TakenIndex
<1>5. \A u \in Torrent : life'[u] = IF u = t THEN "live" ELSE life[u]
  BY DEF TypeOK
<1>6. \A i \in DOMAIN runloop : runloop[i] \in Posted
  BY <1>1
<1>7. ASSUME NEW i \in DOMAIN runloop, i # 1
      PROVE  runloop[i].t # t
  <2>1. SUFFICES ASSUME runloop[i].t = t
                 PROVE  FALSE
    OBVIOUS
  <2>2. runloop[i].sel = "rpcAdd"
    BY <1>3, <2>1 DEF QueueInv, IsWrapped, WasListed
  <2>3. runloop[i] = runloop[1]
    BY <1>2, <1>6, <2>1, <2>2 DEF Posted
  <2>4. QED BY <1>2, <1>7, <2>2, <2>3 DEF QueueInv
<1>8. \A i \in DOMAIN runloop' :
        IF runloop'[i].sel = "rpcAdd" THEN life'[runloop'[i].t] = "raw"
        ELSE Handled(life'[runloop'[i].t], runloop'[i].sel)
  BY <1>4, <1>5, <1>6, <1>7, QueueInvIs DEF Posted
<1>9. \A i, j \in DOMAIN runloop' :
        runloop'[i].sel = "rpcAdd" /\ runloop'[j] = runloop'[i] => i = j
  BY <1>4 DEF QueueInv
<1>10. ASSUME NEW u \in Torrent, life'[u] = "raw"
       PROVE  \E i \in DOMAIN runloop' : runloop'[i] = [sel |-> "rpcAdd", t |-> u]
  <2>1. life[u] = "raw" /\ u # t
    BY <1>5, <1>10
  <2>2. PICK i \in DOMAIN runloop : runloop[i] = [sel |-> "rpcAdd", t |-> u]
    BY <2>1 DEF QueueInv
  <2>3. i # 1
    BY <1>2, <2>1, <2>2
  <2>4. i \in Nat /\ i - 1 \in DOMAIN runloop' /\ runloop'[i - 1] = runloop[i]
    BY <1>4, <2>3
  <2>5. QED BY <2>2, <2>4
<1>11. QED BY <1>3, <1>8, <1>9, <1>10, QueueInvIsNext

\* A torrent changes its life without the queue: a wrapped one is listed or removed, or one
\* is made, added or withdrawn of which the queue knows nothing.
LEMMA QueueLife ==
  ASSUME TypeOK, QueueInv, NEW t \in Torrent, UNCHANGED runloop, NEW l \in Life \ {"raw"},
         life[t] # "raw", life' = [life EXCEPT ![t] = l],
         IsWrapped(t) => l \in {"live", "removed"}
  PROVE  QueueInv'
<1>1. \A u \in Torrent : life'[u] = IF u = t THEN l ELSE life[u]
  BY DEF TypeOK
<1>2. \A i \in DOMAIN runloop : runloop[i].t \in Torrent
  BY PostedElement DEF TypeOK
<1>3. \A i \in DOMAIN runloop : runloop[i].t = t => runloop[i].sel # "rpcAdd"
  BY DEF QueueInv
<1>4. \A i \in DOMAIN runloop : runloop[i].t = t => l \in {"live", "removed"}
  BY <1>3 DEF QueueInv
<1>5. \A i \in DOMAIN runloop' :
        IF runloop'[i].sel = "rpcAdd" THEN life'[runloop'[i].t] = "raw"
        ELSE Handled(life'[runloop'[i].t], runloop'[i].sel)
  BY <1>1, <1>2, <1>3, <1>4, QueueInvIs DEF Handled
<1>6. \A u \in Torrent : life'[u] = "raw" => life[u] = "raw"
  BY <1>1
<1>7. QED BY <1>5, <1>6, QueueInvIs, QueueInvIsNext

\* No operator but stopTransfer adds a stop thread.
LEMMA StopsKept ==
  ASSUME NEW r \in RunControl
  PROVE  /\ update(r).stops = r.stops
         /\ \A a \in Activity : started(r, a).stops = r.stops
         /\ \A a \in Activity, space \in BOOLEAN : startTransfer(r, space, a).stops = r.stops
         /\ Removed(r).stops = r.stops
         /\ Created.stops = 0
         /\ \A a \in Activity : Wrapped(a).stops = 0
         /\ \A a \in Activity : [r EXCEPT !.act = a].stops = r.stops
         /\ \A space \in BOOLEAN : startTransferNoQueue(r, space).stops = r.stops
<1>1. \A q \in RunControl : update(q) \in RunControl /\ update(q).stops = q.stops
  BY DEF RunControl, update
<1>2. \A a \in Activity :
        [r EXCEPT !.act = a] \in RunControl /\ [r EXCEPT !.act = a].stops = r.stops
  BY DEF RunControl
<1>3. \A a \in Activity : started(r, a) \in RunControl /\ started(r, a).stops = r.stops
  BY <1>2 DEF started
<1>4. \A a \in Activity, space \in BOOLEAN : startTransfer(r, space, a).stops = r.stops
  BY <1>1, <1>3 DEF startTransfer
<1>5. "active" \in Activity
  BY DEF Activity
<1>6. \A space \in BOOLEAN : startTransferNoQueue(r, space).stops = r.stops
  BY <1>1, <1>2, <1>5 DEF startTransferNoQueue
<1>7. Created.stops = 0 /\ Removed(r).stops = r.stops
  BY DEF Created, Removed
<1>8. \A a \in Activity : Wrapped(a).stops = 0
  BY DEF Created, Wrapped
<1>9. QED BY <1>1, <1>2, <1>3, <1>4, <1>6, <1>7, <1>8

\* What a step has to do for the parts of ListInv that are not about the queue, when
\* no torrent changes its life.
LEMMA SameLife ==
  ASSUME TypeOK, ListInv, life' = life, torrents' = torrents, QueueInv',
         \A u \in displayed' \cup loaded' \cup tapped' : u \in displayed \cup loaded \cup tapped,
         \A u \in toStart' : u \in toStart,
         \A u \in Torrent : tor'[u].stops > 0 => tor[u].stops > 0 \/ WasListed(u),
         displayed \cup loaded \subseteq displayed' \cup loaded',
         app' = "running" => loaded' = {},
         Alive => Alive'
  PROVE  ListInv'
<1>1. WrappedInv'
  BY DEF ListInv, WrappedInv, IsWrapped, WasListed
<1>2. SessionInv'
  BY DEF ListInv, SessionInv, InSession
<1>3. RowsInv' /\ MakingInv'
  BY DEF ListInv, RowsInv, MakingInv
<1>4. LaunchInv'
  BY DEF ListInv, LaunchInv
<1>5. QED BY <1>1, <1>2, <1>3, <1>4 DEF ListInv

\* One torrent changes its life, but to or from the list: what the parts of ListInv that
\* are not about the rows, the queue and the threads need.
LEMMA OtherLife ==
  ASSUME TypeOK, ListInv, NEW t \in Torrent, NEW l \in {"none", "unseen", "raw", "made"},
         life' = [life EXCEPT ![t] = l],
         \/ life[t] = "unseen" /\ l = "none"
         \/ life[t] = "none" /\ ~HashInSession(HashOf[t]),
         l \in {"raw", "made"} => Alive, l = "made" => ~Making,
         UNCHANGED <<app, listVars, tapped, loaded>>, QueueInv',
         \A u \in toStart' : u \in toStart \/ (u = t /\ l = "made"),
         \A u \in Torrent : tor'[u].stops > 0 => tor[u].stops > 0
  PROVE  ListInv'
<1>1. \A u \in Torrent : life'[u] = IF u = t THEN l ELSE life[u]
  BY DEF TypeOK
<1>2. torrents' = {u \in Torrent : life'[u] = "live"}
  BY <1>1 DEF ListInv, listVars
<1>3. \A u \in Torrent : (IsWrapped(u) => IsWrapped(u)') /\ (WasListed(u) => WasListed(u)')
  BY <1>1 DEF IsWrapped, WasListed
<1>4. l = "made" => IsWrapped(t)'
  BY <1>1 DEF IsWrapped
<1>5. WrappedInv'
  <2>1. \A u \in displayed' \cup loaded' \cup tapped' : WasListed(u)'
    BY <1>3 DEF ListInv, WrappedInv, TypeOK, listVars
  <2>2. \A u \in toStart' : IsWrapped(u)'
    BY <1>3, <1>4 DEF ListInv, WrappedInv, TypeOK
  <2>3. \A u \in Torrent : tor'[u].stops > 0 => WasListed(u)'
    BY <1>3 DEF ListInv, WrappedInv
  <2>4. QED BY <2>1, <2>2, <2>3 DEF WrappedInv
<1>6. SessionInv'
  <2>1. \A u \in Torrent : u # t => (InSession(u)' <=> InSession(u))
    BY <1>1 DEF InSession
  <2>2. InSession(t)' => \A u \in Torrent : InSession(u) => HashOf[u] # HashOf[t]
    BY <1>1 DEF HashInSession, InSession
  <2>3. QED BY <2>1, <2>2 DEF ListInv, SessionInv
<1>7. RowsInv'
  BY DEF ListInv, RowsInv, listVars
<1>8. LaunchInv'
  BY <1>1 DEF ListInv, LaunchInv, Alive
<1>9. MakingInv'
  BY <1>1 DEF ListInv, MakingInv, Making
<1>10. QED BY <1>2, <1>5, <1>6, <1>7, <1>8, <1>9 DEF ListInv

\* One torrent that was made, or is wrapped now, enters the list and, unless the history is
\* being loaded, the table.
LEMMA MadeLive ==
  ASSUME TypeOK, ListInv, NEW t \in Torrent, life[t] \in {"raw", "made"},
         life' = [life EXCEPT ![t] = "live"], torrents' = torrents \cup {t}, QueueInv',
         displayed' \cup loaded' = displayed \cup loaded \cup {t},
         UNCHANGED <<app, tapped, toStart>>,
         \A u \in Torrent : tor'[u].stops = tor[u].stops,
         app' = "running" => loaded' = {}
  PROVE  ListInv'
<1>1. \A u \in Torrent : life'[u] = IF u = t THEN "live" ELSE life[u]
  BY DEF TypeOK
<1>2. torrents' = {u \in Torrent : life'[u] = "live"}
  BY <1>1 DEF ListInv
<1>3. \A u \in Torrent : (IsWrapped(u) => IsWrapped(u)') /\ (WasListed(u) => WasListed(u)')
  BY <1>1 DEF IsWrapped, WasListed
<1>4. WasListed(t)'
  BY <1>1 DEF WasListed
<1>5. WrappedInv'
  <2>1. \A u \in displayed' \cup loaded' \cup tapped' : WasListed(u)'
    BY <1>3, <1>4 DEF ListInv, WrappedInv, TypeOK
  <2>2. \A u \in toStart' : IsWrapped(u)'
    BY <1>3 DEF ListInv, WrappedInv, TypeOK
  <2>3. \A u \in Torrent : tor'[u].stops > 0 => WasListed(u)'
    BY <1>3 DEF ListInv, WrappedInv
  <2>4. QED BY <2>1, <2>2, <2>3 DEF WrappedInv
<1>6. SessionInv'
  <2>1. \A u \in Torrent : InSession(u)' <=> InSession(u)
    BY <1>1 DEF InSession
  <2>2. QED BY <2>1 DEF ListInv, SessionInv
<1>7. RowsInv'
  BY DEF ListInv, RowsInv
<1>8. LaunchInv' /\ MakingInv'
  BY <1>1 DEF ListInv, LaunchInv, MakingInv, Alive
<1>9. QED BY <1>2, <1>5, <1>6, <1>7, <1>8 DEF ListInv

\* confirmRemoveTorrents of a torrent that was listed, once the queue is seen to.
LEMMA MadeRemoved ==
  ASSUME TypeOK, ListInv, NEW t \in Torrent, WasListed(t), confirmRemoveTorrents(t),
         UNCHANGED <<app, tapped, loadVars>>, QueueInv'
  PROVE  ListInv'
<1>1. \A u \in Torrent : life'[u] = IF u = t THEN "removed" ELSE life[u]
  BY DEF TypeOK, confirmRemoveTorrents
<1>2. torrents' = {u \in Torrent : life'[u] = "live"}
  BY <1>1 DEF ListInv, confirmRemoveTorrents
<1>3. \A u \in Torrent : (IsWrapped(u) => IsWrapped(u)') /\ (WasListed(u) => WasListed(u)')
  BY <1>1 DEF IsWrapped, WasListed
<1>4. \A u \in Torrent : u # t => tor'[u] = tor[u]
  BY DEF TypeOK, confirmRemoveTorrents
<1>5. WrappedInv'
  <2>1. \A u \in displayed' \cup loaded' \cup tapped' : WasListed(u)'
    BY <1>3 DEF ListInv, WrappedInv, TypeOK, confirmRemoveTorrents, loadVars
  <2>2. \A u \in toStart' : IsWrapped(u)'
    BY <1>3 DEF ListInv, WrappedInv, TypeOK, loadVars
  <2>3. \A u \in Torrent : tor'[u].stops > 0 => WasListed(u)'
    BY <1>3, <1>4 DEF ListInv, WrappedInv
  <2>4. QED BY <2>1, <2>2, <2>3 DEF WrappedInv
<1>6. SessionInv'
  BY <1>1 DEF ListInv, SessionInv, InSession
<1>7. RowsInv'
  BY DEF ListInv, RowsInv, confirmRemoveTorrents, loadVars
<1>8. LaunchInv' /\ MakingInv'
  BY <1>1 DEF ListInv, LaunchInv, MakingInv, Alive, WasListed
<1>9. QED BY <1>2, <1>5, <1>6, <1>7, <1>8 DEF ListInv

\* Nothing is left of a process that ended.
LEMMA EndedProcess ==
  ASSUME ProcessEnd, app' # "running"
  PROVE  ListInv'
<1>1. \A t \in Torrent : life'[t] = "none" /\ tor'[t].stops = 0
  BY DEF ProcessEnd, Created
<1>2. QueueInv'
  BY <1>1 DEF ProcessEnd, QueueInv
<1>3. WrappedInv' /\ SessionInv' /\ RowsInv'
  BY <1>1 DEF ProcessEnd, WrappedInv, SessionInv, RowsInv, InSession
<1>4. LaunchInv' /\ MakingInv'
  BY <1>1 DEF LaunchInv, MakingInv
<1>5. QED BY <1>1, <1>2, <1>3, <1>4 DEF ListInv, ProcessEnd

\* Every step of every thread keeps ListInv.
LEMMA ListStep == TypeOK /\ ListInv /\ [Next]_vars => ListInv'
<1> SUFFICES ASSUME TypeOK, ListInv, [Next]_vars
             PROVE  ListInv'
  OBVIOUS
<1> USE DEF listVars, loadVars
<1>1. QueueInv /\ torrents = {t \in Torrent : life[t] = "live"}
  BY DEF ListInv
<1>2. \A t \in torrents \cup displayed \cup loaded \cup tapped :
        t \in Torrent /\ WasListed(t) /\ IsWrapped(t)
  BY <1>1 DEF ListInv, WrappedInv, IsWrapped, WasListed, TypeOK
<1>3. \A t \in Torrent : tor[t] \in RunControl /\ tor[t].stops \in Nat
  BY DEF TypeOK, RunControl
<1>4. \A t \in Torrent : tor[t].stops > 0 => WasListed(t) /\ IsWrapped(t)
  BY DEF ListInv, WrappedInv, IsWrapped
<1>5. StartOutcome \subseteq Activity /\ "stopped" \in Activity
  BY StartOutcomeAssumption DEF Activity
<1>6. \A t \in Torrent, space \in BOOLEAN, a \in StartOutcome :
        Started(t, space, a).stops = tor[t].stops
  BY <1>3, <1>5, StopsKept DEF Started
<1>7. ASSUME UNCHANGED <<life, runloop>>
      PROVE  QueueInv'
  BY <1>1, <1>7, QueueKept
<1>8. CASE loadTorrentHistory
  BY <1>7, <1>8, SameLife DEF loadTorrentHistory, Alive
<1>9. ASSUME NEW item \in unread, NEW t \in Torrent, NEW space \in BOOLEAN,
             loadHistoryItem(item, t, space)
      PROVE  ListInv'
  <2>1. CASE HashInSession(item.hash) /\ UNCHANGED <<life, tor, toStart>>
    BY <1>7, <1>9, <2>1, SameLife DEF loadHistoryItem, Alive
  <2>2. CASE ~(HashInSession(item.hash) /\ UNCHANGED <<life, tor, toStart>>)
    <3>1. life[t] = "none" /\ ~HashInSession(HashOf[t]) /\ ~Making /\ Alive
          /\ life' = [life EXCEPT ![t] = "made"]
      BY <1>9, <2>2 DEF loadHistoryItem, Alive
    <3>2. QueueInv'
      BY <1>1, <1>9, <3>1, QueueLife DEF loadHistoryItem, IsWrapped, WasListed, Life
    <3>3. startTransferNoQueue(Created, space).stops = 0 /\ Created.stops = 0
      BY DEF startTransferNoQueue, Created, update
    <3>4. \A u \in Torrent : tor'[u].stops > 0 => tor[u].stops > 0
      BY <1>9, <2>2, <3>3 DEF loadHistoryItem, TypeOK
    <3>5. QED BY <1>9, <2>2, <3>1, <3>2, <3>4, OtherLife DEF loadHistoryItem
  <2>3. QED BY <2>1, <2>2
<1>10. ASSUME NEW t \in toStart, NEW space \in BOOLEAN, NEW a \in StartOutcome,
              startWaiting(t, space, a)
       PROVE  ListInv'
  <2>1. \A u \in Torrent : tor'[u].stops = tor[u].stops
    BY <1>6, <1>10 DEF startWaiting, TypeOK
  <2>2. QED BY <1>7, <1>10, <2>1, SameLife DEF startWaiting, Alive
<1>11. CASE historyLoaded
  BY <1>7, <1>11, SameLife DEF historyLoaded, Alive
<1>12. ASSUME NEW t \in Torrent, NEW a \in StartOutcome \cup {"stopped"},
              rpcTorrentAdded(t, a)
       PROVE  ListInv'
  <2>1. life[t] = "none" /\ ~HashInSession(HashOf[t]) /\ UNCHANGED <<app, torrents, displayed, tapped,
                                                                      loaded, toStart>>
    BY <1>12 DEF rpcTorrentAdded
  <2>2. \A u \in Torrent : tor'[u].stops > 0 => tor[u].stops > 0
    <3>1. a \in Activity
      BY <1>5
    <3>2. tor'[t].stops = 0
      BY <1>3, <1>12, <3>1, StopsKept DEF rpcTorrentAdded, TypeOK
    <3>3. QED BY <1>12, <3>2 DEF rpcTorrentAdded, TypeOK
  <2>3. CASE life' = [life EXCEPT ![t] = "unseen"] /\ UNCHANGED runloop
    <3>1. QueueInv'
      BY <1>1, <2>1, <2>3, QueueLife DEF IsWrapped, WasListed, Life
    <3>2. QED BY <2>1, <2>2, <2>3, <3>1, OtherLife
  <2>4. CASE Alive /\ life' = [life EXCEPT ![t] = "raw"] /\ Post("rpcAdd", t)
    <3>1. QueueInv'
      BY <1>1, <2>1, <2>4, QueuePostAdd
    <3>2. QED BY <2>1, <2>2, <2>4, <3>1, OtherLife
  <2>5. QED
    BY <1>12, <2>3, <2>4, RpcPhasesAssumption DEF rpcTorrentAdded, RpcServed, Alive
<1>13. ASSUME NEW s \in Selector \ {"rpcAdd"}, NEW t \in Torrent, rpcCallback(s, t),
              life' = life
       PROVE  QueueInv'
  BY <1>1, <1>2, <1>7, <1>13, QueuePost DEF rpcCallback
<1>14. ASSUME NEW t \in Torrent, NEW a \in StartOutcome, rpcTorrentStarted(t, a)
       PROVE  ListInv'
  <2>1. QueueInv'
    BY <1>13, <1>14 DEF rpcTorrentStarted, Selector
  <2>2. \A u \in Torrent : tor'[u].stops = tor[u].stops
    BY <1>3, <1>14 DEF rpcTorrentStarted, TypeOK, RunControl
  <2>3. QED BY <1>14, <2>1, <2>2, SameLife DEF rpcTorrentStarted, ListInv, RowsInv, Alive
<1>15. ASSUME NEW t \in Torrent, rpcTorrentStopped(t)
       PROVE  ListInv'
  <2>1. QueueInv'
    BY <1>13, <1>15 DEF rpcTorrentStopped, Selector
  <2>2. \A u \in Torrent : tor'[u].stops = tor[u].stops
    BY <1>3, <1>15 DEF rpcTorrentStopped, TypeOK, RunControl
  <2>3. QED BY <1>15, <2>1, <2>2, SameLife DEF rpcTorrentStopped, ListInv, RowsInv, Alive
<1>16. ASSUME NEW t \in Torrent, rpcTorrentChanged(t)
       PROVE  ListInv'
  <2>1. QueueInv'
    BY <1>13, <1>16 DEF rpcTorrentChanged, Selector
  <2>2. QED BY <1>16, <2>1, SameLife DEF rpcTorrentChanged, ListInv, RowsInv, Alive
<1>17. ASSUME NEW t \in Torrent, rpcTorrentRemoving(t)
       PROVE  ListInv'
  <2>1. CASE app = "launching" /\ life' = [life EXCEPT ![t] = "none"] /\ UNCHANGED runloop
    <3>1. life[t] = "unseen"
      BY <1>17, <2>1 DEF rpcTorrentRemoving, InSession, ListInv, LaunchInv, Alive
    <3>2. QueueInv'
      BY <1>1, <2>1, <3>1, QueueLife DEF IsWrapped, WasListed, Life
    <3>3. \A u \in Torrent : tor'[u].stops > 0 => tor[u].stops > 0
      BY <1>17 DEF rpcTorrentRemoving, TypeOK, Created
    <3>4. QED BY <1>17, <2>1, <3>1, <3>2, <3>3, OtherLife DEF rpcTorrentRemoving
  <2>2. CASE rpcCallback("rpcRemove", t) /\ UNCHANGED <<life, tor>>
    <3>1. QueueInv'
      BY <1>13, <2>2 DEF Selector
    <3>2. QED BY <1>17, <2>2, <3>1, SameLife DEF rpcTorrentRemoving, ListInv, RowsInv, Alive
  <2>3. QED BY <1>17, <2>1, <2>2 DEF rpcTorrentRemoving
<1>18. ASSUME NEW t \in Torrent, NEW a \in StartOutcome \cup {"stopped"},
              torrentCallback(t, a)
       PROVE  ListInv'
  <2>1. QueueInv'
    BY <1>1, <1>18, QueuePost DEF torrentCallback, Selector, IsWrapped, WasListed
  <2>2. \A u \in Torrent : tor'[u].stops = tor[u].stops
    BY <1>3, <1>18 DEF torrentCallback, TypeOK, RunControl
  <2>3. QED BY <1>18, <2>1, <2>2, SameLife DEF torrentCallback, ListInv, RowsInv, Alive
<1>19. ASSUME NEW t \in Torrent, stopTransferInBackground(t)
       PROVE  ListInv'
  <2>1. IsWrapped(t) /\ WasListed(t)
    BY <1>2, <1>19 DEF stopTransferInBackground
  <2>2. \A u \in Torrent : tor'[u].stops > 0 => tor[u].stops > 0 \/ WasListed(u)
    BY <1>19, <2>1 DEF stopTransferInBackground, TypeOK
  <2>3. QED BY <1>7, <1>19, <2>2, SameLife DEF stopTransferInBackground, ListInv, RowsInv, Alive
<1>20. ASSUME NEW t \in Torrent, _stopInBackground(t)
       PROVE  ListInv'
  <2>1. IsWrapped(t) /\ WasListed(t)
    BY <1>4, <1>20 DEF _stopInBackground
  <2>2. QueueInv'
    BY <1>1, <1>20, <2>1, QueuePost DEF _stopInBackground, Selector
  <2>3. \A u \in Torrent : tor'[u].stops > 0 => tor[u].stops > 0 \/ WasListed(u)
    BY <1>20, <2>1 DEF _stopInBackground, TypeOK
  <2>4. QED BY <1>20, <2>2, <2>3, SameLife DEF _stopInBackground, ListInv, RowsInv, Alive
<1>21. ASSUME NEW t \in Torrent, performUpdate(t)
       PROVE  ListInv'
  <2>1. QueueInv'
    BY <1>1, <1>21, QueueTake DEF performUpdate, Selector
  <2>2. \A u \in Torrent : tor'[u].stops = tor[u].stops
    BY <1>3, <1>21, StopsKept DEF performUpdate, TypeOK
  <2>3. QED BY <1>21, <2>1, <2>2, SameLife DEF performUpdate, ListInv, RowsInv, Alive
<1>22. ASSUME NEW t \in Torrent, rpcStartedStoppedTorrent(t)
       PROVE  ListInv'
  <2>1. QueueInv'
    BY <1>1, <1>22, QueueTake DEF rpcStartedStoppedTorrent, Selector
  <2>2. \A u \in Torrent : tor'[u].stops = tor[u].stops
    BY <1>3, <1>22, StopsKept DEF rpcStartedStoppedTorrent, TypeOK
  <2>3. QED BY <1>22, <2>1, <2>2, SameLife DEF rpcStartedStoppedTorrent, ListInv, RowsInv, Alive
<1>23. ASSUME NEW t \in Torrent, rpcAddTorrentStruct(t)
       PROVE  ListInv'
  <2>1. life[t] = "raw" /\ QueueInv'
    BY <1>1, <1>23, QueueTakeAdd DEF rpcAddTorrentStruct
  <2>2. \A u \in Torrent : tor'[u].stops = tor[u].stops
    BY <1>3, <1>23, StopsKept DEF rpcAddTorrentStruct, TypeOK
  <2>3. QED BY <1>23, <2>1, <2>2, MadeLive DEF rpcAddTorrentStruct, ListInv, RowsInv
<1>24. ASSUME NEW t \in Torrent, rpcRemoveTorrent(t)
       PROVE  ListInv'
  <2>1. life' = [life EXCEPT ![t] = "removed"]
    BY <1>24 DEF rpcRemoveTorrent, confirmRemoveTorrents
  <2>2. WasListed(t) /\ QueueInv'
    <3>1. "rpcRemove" \in Selector \ {"rpcAdd"} /\ Next_("rpcRemove", t)
      BY <1>24 DEF rpcRemoveTorrent, Selector
    <3>2. QED BY <1>1, <2>1, <3>1, QueueTake
  <2>3. QED BY <1>24, <2>2, MadeRemoved DEF rpcRemoveTorrent
<1>25. ASSUME NEW t \in Torrent, _delayedRemovalOfTorrents(t)
       PROVE  ListInv'
  <2>1. torrents' = torrents
    BY <1>1, <1>25 DEF _delayedRemovalOfTorrents
  <2>2. QED BY <1>7, <1>25, <2>1, SameLife DEF _delayedRemovalOfTorrents, ListInv, RowsInv, Alive
<1>26. ASSUME NEW t \in displayed, NEW space \in BOOLEAN, NEW a \in StartOutcome,
              progressControlTapped(t, space, a)
       PROVE  ListInv'
  <2>1. \A u \in Torrent : tor'[u].stops = tor[u].stops
    BY <1>2, <1>6, <1>26 DEF progressControlTapped, TypeOK
  <2>2. QED BY <1>7, <1>26, <2>1, SameLife DEF progressControlTapped, ListInv, RowsInv, Alive
<1>27. ASSUME NEW t \in displayed, deleteRow(t)
       PROVE  ListInv'
  <2>1. t \in Torrent /\ WasListed(t) /\ life[t] # "raw"
    BY <1>2 DEF WasListed
  <2>2. QueueInv'
    BY <1>1, <1>27, <2>1, QueueLife DEF deleteRow, confirmRemoveTorrents, Life
  <2>3. QED BY <1>27, <2>1, <2>2, MadeRemoved DEF deleteRow
<1>28. ASSUME NEW t \in Torrent, NEW space \in BOOLEAN, NEW a \in StartOutcome,
              MakeOpened(t, space, a), app = "running", ~Making
       PROVE  ListInv'
  <2>1. QueueInv'
    BY <1>1, <1>28, QueueLife DEF MakeOpened, IsWrapped, WasListed, Life
  <2>2. Created \in RunControl /\ a \in Activity
    BY <1>5 DEF RunControl, Created, Activity
  <2>3. startTransfer(Created, space, a).stops = 0
    BY <2>2, StopsKept
  <2>4. \A u \in Torrent : tor'[u].stops > 0 => tor[u].stops > 0
    BY <1>28, <2>3 DEF MakeOpened, TypeOK
  <2>5. QED BY <1>28, <2>1, <2>4, OtherLife DEF MakeOpened, Alive
<1>29. ASSUME NEW t \in Torrent, NEW space \in BOOLEAN, NEW a \in StartOutcome,
              openFiles(t, space, a) \/ openMagnet(t, space, a)
       PROVE  ListInv'
  BY <1>28, <1>29, EndedProcess DEF openFiles, openMagnet
<1>30. CASE updateStatistics
  <2>1. \A u \in Torrent : tor'[u].stops = tor[u].stops
    BY <1>3, <1>30, StopsKept DEF updateStatistics
  <2>2. QED BY <1>7, <1>30, <2>1, SameLife DEF updateStatistics, ListInv, RowsInv, Alive
<1>31. CASE saveHistory
  BY <1>7, <1>31, SameLife DEF saveHistory, ListInv, RowsInv, Alive
<1>32. ASSUME NEW space \in [torrents -> BOOLEAN], NEW a \in [torrents -> StartOutcome],
              applicationDidEnterBackground(space, a)
       PROVE  ListInv'
  <2>1. \A u \in Torrent : tor'[u].stops = tor[u].stops
    BY <1>6, <1>32 DEF applicationDidEnterBackground
  <2>2. QED BY <1>7, <1>32, <2>1, SameLife DEF applicationDidEnterBackground, ListInv, RowsInv, Alive
<1>33. CASE relaunch
  BY <1>33, EndedProcess DEF relaunch
<1>34. CASE UNCHANGED vars
  BY <1>7, <1>34, SameLife DEF vars, ListInv, RowsInv, Alive
<1>35. ASSUME NEW t \in Torrent, listLoaded(t) \/ listOpened(t)
       PROVE  ListInv'
  <2>1. life[t] = "made" /\ life' = [life EXCEPT ![t] = "live"]
        /\ UNCHANGED <<app, tor, runloop, tapped, toStart>>
    BY <1>35 DEF listLoaded, listOpened
  <2>2. QueueInv'
    BY <1>1, <2>1, QueueLife DEF Life
  <2>3. QED BY <1>35, <2>1, <2>2, MadeLive DEF listLoaded, listOpened, ListInv, RowsInv
<1>36. QED
  BY <1>8, <1>9, <1>10, <1>11, <1>12, <1>14, <1>15, <1>16, <1>17, <1>18, <1>19, <1>20,
     <1>21, <1>22, <1>23, <1>24, <1>25, <1>26, <1>27, <1>29, <1>30, <1>31, <1>32, <1>33, <1>34, <1>35
  DEF Next, LaunchThread, RPC, MainThread, User, System

\* The inductive invariant holds of every behaviour.
THEOREM ListInvariant == Spec => [](TypeOK /\ ListInv)
<1>1. Init => TypeOK /\ ListInv
  <2>1. Init => ListInv
    BY DEF Init, ListInv, QueueInv, WrappedInv, SessionInv, RowsInv, InSession, Created, LaunchInv,
           MakingInv
  <2>2. Created \in RunControl /\ <<>> \in Seq(Posted)
    BY DEF RunControl, Created, Activity
  <2>3. Init => TypeOK
    BY <2>2 DEF Init, TypeOK, Life
  <2>4. QED BY <2>1, <2>3
<1>2. QED
  BY <1>1, TypeStep, ListStep, PTL DEF Spec

\* What the program lists is what libtransmission has, whatever the threads do.
THEOREM ListCorrect == Spec => []ListIsSession
<1>1. ListInv => ListIsSession
  BY DEF ListInv, ListIsSession, QueueInv, LaunchInv, MakingInv
<1>2. QED BY <1>1, ListInvariant, PTL

\* No torrent is listed twice.
THEOREM EntriesDiffer == Spec => []OneEntryPerHash
<1>1. ListInv => OneEntryPerHash
  BY DEF ListInv, OneEntryPerHash, SessionInv, InSession
<1>2. QED BY <1>1, ListInvariant, PTL

\* Every listed torrent is shown once the history is loaded.
THEOREM RowsComplete == Spec => []ListedIsShown
<1>1. ListInv => ListedIsShown
  BY DEF ListInv, RowsInv, ListedIsShown
<1>2. QED BY <1>1, ListInvariant, PTL

\* Rows without a listed torrent come from the loader only: on the main thread a row
\* enters and leaves the table together with its torrent.
LEMMA RowStep ==
  ASSUME ListInv, [Next]_vars
  PROVE  displayed' \ torrents' \subseteq (displayed \ torrents) \cup (loaded \ torrents)
<1> USE DEF listVars, loadVars
<1>1. CASE LaunchThread
  BY <1>1 DEF LaunchThread, loadTorrentHistory, loadHistoryItem, listLoaded, startWaiting,
              historyLoaded
<1>2. CASE RPC
  BY <1>2 DEF RPC, rpcTorrentAdded, rpcTorrentStarted, rpcTorrentStopped, rpcTorrentChanged,
              rpcTorrentRemoving
<1>3. CASE \E t \in Torrent, a \in StartOutcome \cup {"stopped"} : torrentCallback(t, a)
  BY <1>3 DEF torrentCallback
<1>4. CASE \E t \in Torrent : stopTransferInBackground(t) \/ _stopInBackground(t)
  BY <1>4 DEF stopTransferInBackground, _stopInBackground
<1>5. CASE MainThread
  BY <1>5 DEF MainThread, performUpdate, rpcStartedStoppedTorrent, rpcAddTorrentStruct,
              rpcRemoveTorrent, confirmRemoveTorrents, listOpened
<1>6. CASE \E t \in Torrent : _delayedRemovalOfTorrents(t)
  BY <1>6 DEF _delayedRemovalOfTorrents, ListInv
<1>7. CASE User
  BY <1>7 DEF User, progressControlTapped, deleteRow, confirmRemoveTorrents, openFiles,
              openMagnet, MakeOpened, ProcessEnd
<1>8. CASE System
  BY <1>8 DEF System, updateStatistics, saveHistory, applicationDidEnterBackground, relaunch,
              ProcessEnd
<1>9. CASE UNCHANGED vars
  BY <1>9 DEF vars
<1>10. QED
  BY <1>1, <1>2, <1>3, <1>4, <1>5, <1>6, <1>7, <1>8, <1>9 DEF Next

THEOREM GhostRowsOnlyFromLoading == Spec => GhostRowsFromLoading
<1>1. ListInv /\ [Next]_vars =>
        [(displayed' \ torrents') \subseteq (displayed \ torrents) \cup (loaded \ torrents)]_vars
  BY RowStep
<1>2. QED BY <1>1, ListInvariant, PTL DEF Spec, GhostRowsFromLoading

-----------------------------------------------------------------------------
(* Transfers implements SessionList *)

\* The steps that leave life and the list alone are stutters of SessionList.
LEMMA SameList ==
  ASSUME life' = life, torrents' = torrents
  PROVE  UNCHANGED <<Known, torrents>>
BY DEF Known, InSession

LEMMA SessionListStep ==
  ASSUME TypeOK, ListInv, [Next]_vars
  PROVE  [SL!Next]_<<Known, torrents>>
<1> USE DEF listVars, loadVars
<1>1. torrents = {t \in Torrent : life[t] = "live"} /\ life \in [Torrent -> Life]
  BY DEF ListInv, TypeOK
<1>2. Known = {t \in Torrent : life[t] \in {"unseen", "raw", "made", "live"}}
      /\ Known' = {t \in Torrent : life'[t] \in {"unseen", "raw", "made", "live"}}
  BY DEF Known, InSession
<1>3. ASSUME NEW t \in Torrent, life[t] = "none", ~HashInSession(HashOf[t]),
             NEW l \in {"unseen", "raw", "made"}, life' = [life EXCEPT ![t] = l],
             torrents' = torrents
      PROVE  SL!Next
  <2>1. t \notin Known /\ \A u \in Known : HashOf[u] # HashOf[t]
    BY <1>2, <1>3 DEF HashInSession, InSession
  <2>2. Known' = Known \cup {t}
    BY <1>1, <1>2, <1>3
  <2>3. SL!Learn(t)
    BY <1>3, <2>1, <2>2 DEF SL!Learn
  <2>4. QED BY <2>3 DEF SL!Next
<1>4. ASSUME NEW t \in Torrent, WasListed(t), confirmRemoveTorrents(t)
      PROVE  [SL!Next]_<<Known, torrents>>
  <2>1. life' = [life EXCEPT ![t] = "removed"] /\ torrents' = torrents \ {t}
    BY <1>4 DEF confirmRemoveTorrents
  <2>2. Known' = Known \ {t}
    BY <1>1, <1>2, <2>1
  <2>3. CASE t \in torrents
    BY <2>1, <2>2, <2>3 DEF SL!Next, SL!Forget
  <2>4. CASE t \notin torrents
    <3>1. t \notin Known
      BY <1>1, <1>2, <1>4, <2>4 DEF WasListed
    <3>2. QED BY <2>1, <2>2, <2>4, <3>1
  <2>5. QED BY <2>3, <2>4
<1>5. ASSUME ProcessEnd
      PROVE  SL!Next
  <2>1. Known' = {} /\ torrents' = {}
    BY <1>2, <1>5 DEF ProcessEnd
  <2>2. QED BY <2>1 DEF SL!Next, SL!Restart
<1>15. ASSUME NEW t \in Torrent, life[t] \in {"raw", "made"},
              life' = [life EXCEPT ![t] = "live"], torrents' = torrents \cup {t}
       PROVE  SL!Next
  <2>1. Known' = Known /\ t \in Known \ torrents
    BY <1>1, <1>2, <1>15
  <2>2. QED BY <1>15, <2>1 DEF SL!Next, SL!List
<1>6. CASE LaunchThread
  <2>1. CASE loadTorrentHistory \/ historyLoaded
    BY <2>1, SameList DEF loadTorrentHistory, historyLoaded
  <2>2. ASSUME NEW item \in unread, NEW t \in Torrent, NEW space \in BOOLEAN,
               loadHistoryItem(item, t, space)
        PROVE  [SL!Next]_<<Known, torrents>>
    <3>1. CASE life' = life
      BY <2>2, <3>1, SameList DEF loadHistoryItem
    <3>2. CASE life' # life
      BY <1>3, <2>2, <3>2 DEF loadHistoryItem
    <3>3. QED BY <3>1, <3>2
  <2>3. ASSUME NEW t \in toStart, NEW space \in BOOLEAN, NEW a \in StartOutcome,
               startWaiting(t, space, a)
        PROVE  [SL!Next]_<<Known, torrents>>
    BY <2>3, SameList DEF startWaiting
  <2>4. ASSUME NEW t \in Torrent, listLoaded(t)
        PROVE  SL!Next
    BY <1>15, <2>4 DEF listLoaded
  <2>5. QED BY <1>6, <2>1, <2>2, <2>3, <2>4 DEF LaunchThread
<1>7. CASE RPC
  <2>1. ASSUME NEW t \in Torrent, NEW a \in StartOutcome \cup {"stopped"},
               rpcTorrentAdded(t, a)
        PROVE  SL!Next
    BY <1>3, <2>1 DEF rpcTorrentAdded
  <2>2. CASE \/ \E t \in Torrent, a \in StartOutcome : rpcTorrentStarted(t, a)
             \/ \E t \in Torrent : rpcTorrentStopped(t) \/ rpcTorrentChanged(t)
    BY <2>2, SameList DEF rpcTorrentStarted, rpcTorrentStopped, rpcTorrentChanged
  <2>3. ASSUME NEW t \in Torrent, rpcTorrentRemoving(t)
        PROVE  [SL!Next]_<<Known, torrents>>
    <3>1. CASE life' = life
      BY <2>3, <3>1, SameList DEF rpcTorrentRemoving
    <3>2. CASE app = "launching" /\ life' = [life EXCEPT ![t] = "none"]
      <4>1. t \in Known /\ Known' = Known \ {t}
        BY <1>1, <1>2, <2>3, <3>2 DEF rpcTorrentRemoving, InSession
      <4>2. torrents = {} /\ torrents' = torrents
        BY <1>1, <2>3, <3>2 DEF rpcTorrentRemoving, ListInv, LaunchInv, Alive
      <4>3. QED BY <4>1, <4>2 DEF SL!Next, SL!Withdraw
    <3>3. QED BY <2>3, <3>1, <3>2 DEF rpcTorrentRemoving
  <2>4. QED BY <1>7, <2>1, <2>2, <2>3 DEF RPC
<1>8. CASE \/ \E t \in Torrent, a \in StartOutcome \cup {"stopped"} : torrentCallback(t, a)
           \/ \E t \in Torrent : stopTransferInBackground(t) \/ _stopInBackground(t)
  BY <1>8, SameList DEF torrentCallback, stopTransferInBackground, _stopInBackground
<1>9. CASE MainThread
  <2>1. CASE \E t \in Torrent : performUpdate(t) \/ rpcStartedStoppedTorrent(t)
    BY <2>1, SameList DEF performUpdate, rpcStartedStoppedTorrent
  <2>2. ASSUME NEW t \in Torrent, rpcAddTorrentStruct(t)
        PROVE  SL!Next
    <3>1. life' = [life EXCEPT ![t] = "live"] /\ torrents' = torrents \cup {t}
      BY <2>2 DEF rpcAddTorrentStruct
    <3>2. life[t] = "raw"
      BY <2>2, <3>1, QueueTakeAdd DEF rpcAddTorrentStruct, ListInv
    <3>3. QED BY <1>15, <3>1, <3>2
  <2>3. ASSUME NEW t \in Torrent, rpcRemoveTorrent(t)
        PROVE  [SL!Next]_<<Known, torrents>>
    <3>1. WasListed(t)
      BY <2>3, QueueTake DEF rpcRemoveTorrent, ListInv, Selector
    <3>2. QED BY <1>4, <2>3, <3>1 DEF rpcRemoveTorrent
  <2>4. ASSUME NEW t \in Torrent, listOpened(t)
        PROVE  SL!Next
    BY <1>15, <2>4 DEF listOpened
  <2>5. QED BY <1>9, <2>1, <2>2, <2>3, <2>4 DEF MainThread
<1>10. CASE \E t \in Torrent : _delayedRemovalOfTorrents(t)
  BY <1>1, <1>10, SameList DEF _delayedRemovalOfTorrents
<1>11. CASE User
  <2>1. CASE \E t \in displayed, space \in BOOLEAN, a \in StartOutcome :
               progressControlTapped(t, space, a)
    BY <2>1, SameList DEF progressControlTapped
  <2>2. ASSUME NEW t \in displayed, deleteRow(t)
        PROVE  [SL!Next]_<<Known, torrents>>
    <3>1. t \in Torrent /\ WasListed(t)
      BY DEF TypeOK, ListInv, WrappedInv
    <3>2. QED BY <1>4, <2>2, <3>1 DEF deleteRow
  <2>3. ASSUME NEW t \in Torrent, NEW space \in BOOLEAN, NEW a \in StartOutcome,
               openFiles(t, space, a) \/ openMagnet(t, space, a)
        PROVE  SL!Next
    BY <1>3, <1>5, <2>3 DEF openFiles, openMagnet, MakeOpened
  <2>4. QED BY <1>11, <2>1, <2>2, <2>3 DEF User
<1>12. CASE System
  BY <1>5, <1>12, SameList
     DEF System, updateStatistics, saveHistory, applicationDidEnterBackground, relaunch
<1>13. CASE UNCHANGED vars
  BY <1>13, SameList DEF vars
<1>14. QED
  BY <1>6, <1>7, <1>8, <1>9, <1>10, <1>11, <1>12, <1>13 DEF Next

\* The list with all its threads does only what SessionList allows.
THEOREM ListRefinement == Spec => ImplementsSessionList
<1>1. Init => SL!Init
  BY DEF Init, SL!Init, Known, InSession
<1>2. QED BY <1>1, SessionListStep, ListInvariant, PTL DEF Spec, ImplementsSessionList, SL!Spec

-----------------------------------------------------------------------------
(* What was opened is saved *)

\* The inductive invariant behind OpenedIsSaved: a hash opened on the device is in
\* the file, where a launch finds it, and in what the file is next written from: the
\* list, or, while the loader still fills the list, the torrent it is about to list and
\* the items it has not come to.
ListedOrUnread(h) ==
  /\ app = "loading" => \/ \E item \in unread : item.hash = h
                        \/ \E t \in Torrent : life[t] \in {"made", "live"} /\ HashOf[t] = h
  /\ app = "running" => \E t \in torrents : HashOf[t] = h

SavedInv == OpenedIsSaved /\ \A h \in opened : ListedOrUnread(h)

\* What an RPC request can do to the history: a start or stop while it loads saves the
\* part of the list that is loaded, and a torrent added then or before with the hash of an
\* unread item makes the loader skip this item and may not be listed at the next save.
NotSavedWhileLoading == app = "loading" => plist' = plist
NoneAddedWhileLoading == app = "loading" => \A t \in Torrent : life[t] \notin {"unseen", "raw"}

\* A step that leaves the file and the items alone and takes only the torrents of
\* closed hashes from the list.
LEMMA SavedKept ==
  ASSUME ListInv, ListInv', SavedInv, UNCHANGED <<app, plist, unread>>, opened' \subseteq opened,
         \A t \in torrents : t \in torrents' \/ HashOf[t] \notin opened',
         \A t \in Torrent : life[t] = "made" => life'[t] \in {"made", "live"}
  PROVE  SavedInv'
<1>1. OpenedIsSaved'
  BY DEF SavedInv, OpenedIsSaved
<1>2. torrents = {t \in Torrent : life[t] = "live"}
      /\ torrents' = {t \in Torrent : life'[t] = "live"}
  BY DEF ListInv
<1>3. ASSUME NEW h \in opened'
      PROVE  ListedOrUnread(h)'
  <2>1. ListedOrUnread(h)
    BY <1>3 DEF SavedInv
  <2>2. (\E t \in torrents : HashOf[t] = h) => \E t \in torrents' : HashOf[t] = h
    BY <1>3
  <2>3. (\E t \in Torrent : life[t] \in {"made", "live"} /\ HashOf[t] = h)
          => \E t \in Torrent : life'[t] \in {"made", "live"} /\ HashOf[t] = h
    BY <1>2, <1>3
  <2>4. QED BY <2>1, <2>2, <2>3 DEF ListedOrUnread
<1>4. QED BY <1>1, <1>3 DEF SavedInv

\* A save of the whole list, once it is loaded.
LEMMA SavedWhole ==
  ASSUME app' = "running", plist' = HistoryOf(torrents', tor'),
         \A h \in opened' : \E t \in torrents' : HashOf[t] = h
  PROVE  SavedInv'
<1>1. ASSUME NEW h \in opened'
      PROVE  \E item \in plist' : item.hash = h
  <2>1. PICK t \in torrents' : HashOf[t] = h
    OBVIOUS
  <2>2. [hash |-> HashOf[t], run |-> tor'[t].stat] \in plist'
    BY DEF HistoryOf
  <2>3. QED BY <2>1, <2>2
<1>2. QED BY <1>1 DEF SavedInv, OpenedIsSaved, ListedOrUnread

\* The end of a process leaves the file.
LEMMA SavedAtEnd ==
  ASSUME SavedInv, ProcessEnd, app' \in {"launching", "aborted"}
  PROVE  SavedInv'
BY DEF SavedInv, OpenedIsSaved, ListedOrUnread, ProcessEnd

LEMMA SavedStep ==
  ASSUME TypeOK, ListInv, NoneAddedWhileLoading, SavedInv, [Next]_vars, [NotSavedWhileLoading]_vars
  PROVE  SavedInv'
<1> USE DEF listVars, loadVars
<1>1. torrents = {t \in Torrent : life[t] = "live"} /\ ListInv'
  BY ListStep DEF ListInv
<1>2. app = "running" => \A h \in opened : \E t \in torrents : HashOf[t] = h
  BY DEF SavedInv, ListedOrUnread
<1>3. CASE loadTorrentHistory
  <2>1. \A h \in opened : \E item \in unread' : item.hash = h
    <3>1. SUFFICES ASSUME NEW h \in opened
                   PROVE  \E item \in unread' : item.hash = h
      OBVIOUS
    <3>2. PICK item \in plist : item.hash = h
      BY DEF SavedInv, OpenedIsSaved
    <3>3. item \in HistoryItem
      BY DEF TypeOK
    <3>4. [item EXCEPT !.run = "stopped"].hash = h
      BY <3>2, <3>3 DEF HistoryItem
    <3>5. QED BY <1>3, <3>2, <3>4 DEF loadTorrentHistory
  <2>2. QED BY <1>3, <2>1 DEF loadTorrentHistory, SavedInv, OpenedIsSaved, ListedOrUnread
<1>4. ASSUME NEW item \in unread, NEW t \in Torrent, NEW space \in BOOLEAN,
             loadHistoryItem(item, t, space)
      PROVE  SavedInv'
  <2>1. app = "loading" /\ app' = "loading" /\ unread' = unread \ {item}
        /\ UNCHANGED <<plist, opened>>
    BY <1>4 DEF loadHistoryItem
  <2>2. \A u \in Torrent : life[u] \in {"made", "live"} => life'[u] \in {"made", "live"}
    BY <1>4 DEF loadHistoryItem, TypeOK
  <2>3. \E u \in Torrent : life'[u] \in {"made", "live"} /\ HashOf[u] = item.hash
    <3>1. CASE HashInSession(item.hash)
      <4>1. PICK u \in Torrent : InSession(u) /\ HashOf[u] = item.hash
        BY <3>1 DEF HashInSession
      <4>2. life[u] \in {"made", "live"}
        BY <2>1, <4>1 DEF InSession, NoneAddedWhileLoading
      <4>3. QED BY <2>2, <4>1, <4>2
    <3>2. CASE ~HashInSession(item.hash)
      BY <1>4, <3>2 DEF loadHistoryItem, TypeOK
    <3>3. QED BY <3>1, <3>2
  <2>4. ASSUME NEW h \in opened'
        PROVE  ListedOrUnread(h)'
    <3>1. \/ \E i \in unread : i.hash = h
          \/ \E u \in Torrent : life[u] \in {"made", "live"} /\ HashOf[u] = h
      BY <2>1, <2>4 DEF SavedInv, ListedOrUnread
    <3>2. \/ \E i \in unread' : i.hash = h
          \/ \E u \in Torrent : life'[u] \in {"made", "live"} /\ HashOf[u] = h
      BY <2>1, <2>2, <2>3, <3>1
    <3>3. QED BY <2>1, <3>2 DEF ListedOrUnread
  <2>5. QED BY <2>1, <2>4 DEF SavedInv, OpenedIsSaved
<1>5. CASE historyLoaded
  BY <1>1, <1>5 DEF historyLoaded, SavedInv, OpenedIsSaved, ListedOrUnread, Making
<1>6. CASE \E t \in toStart, space \in BOOLEAN, a \in StartOutcome : startWaiting(t, space, a)
  BY <1>1, <1>6, SavedKept DEF startWaiting
<1>7. CASE RPC
  <2>1. UNCHANGED <<app, plist, unread, opened, torrents>>
    BY <1>7 DEF RPC, rpcTorrentAdded, rpcTorrentStarted, rpcTorrentStopped, rpcTorrentChanged,
                rpcTorrentRemoving
  <2>2. ASSUME NEW t \in Torrent, NEW a \in StartOutcome \cup {"stopped"}, rpcTorrentAdded(t, a)
        PROVE  \A u \in Torrent : life[u] = "made" => life'[u] = "made"
    BY <2>2 DEF rpcTorrentAdded, TypeOK
  <2>3. ASSUME NEW t \in Torrent, rpcTorrentRemoving(t)
        PROVE  \A u \in Torrent : life[u] = "made" => life'[u] = "made"
    <3>1. app = "launching" => \A u \in Torrent : life[u] # "made"
      BY DEF ListInv, LaunchInv, Alive
    <3>2. app = "launching" \/ life' = life
      BY <2>3, Zenon DEF rpcTorrentRemoving
    <3>3. QED BY <3>1, <3>2
  <2>4. ASSUME \/ \E t \in Torrent, a \in StartOutcome : rpcTorrentStarted(t, a)
               \/ \E t \in Torrent : rpcTorrentStopped(t) \/ rpcTorrentChanged(t)
        PROVE  life' = life
    BY <2>4 DEF rpcTorrentStarted, rpcTorrentStopped, rpcTorrentChanged
  <2>5. \A u \in Torrent : life[u] = "made" => life'[u] = "made"
    BY <1>7, <2>2, <2>3, <2>4, Zenon DEF RPC
  <2>6. QED BY <1>1, <2>1, <2>5, SavedKept
<1>8. CASE \/ \E t \in Torrent, a \in StartOutcome \cup {"stopped"} : torrentCallback(t, a)
           \/ \E t \in Torrent : stopTransferInBackground(t) \/ _stopInBackground(t)
  BY <1>1, <1>8, SavedKept DEF torrentCallback, stopTransferInBackground, _stopInBackground
<1>9. CASE \E t \in Torrent : performUpdate(t) \/ rpcAddTorrentStruct(t)
  BY <1>1, <1>9, SavedKept DEF performUpdate, rpcAddTorrentStruct, TypeOK
<1>10. ASSUME NEW t \in Torrent, rpcStartedStoppedTorrent(t)
       PROVE  SavedInv'
  <2>1. CASE app = "loading"
    <3>1. plist' = plist
      BY <2>1 DEF NotSavedWhileLoading, vars
    <3>2. QED BY <1>1, <1>10, <3>1, SavedKept DEF rpcStartedStoppedTorrent
  <2>2. CASE app = "running"
    <3>1. app' = "running" /\ torrents' = torrents /\ opened' = opened
          /\ plist' = HistoryOf(torrents', tor')
      BY <1>10, <2>2 DEF rpcStartedStoppedTorrent
    <3>2. QED BY <1>2, <2>2, <3>1, SavedWhole
  <2>3. QED BY <1>10, <2>1, <2>2 DEF rpcStartedStoppedTorrent, Next_, MainFree
<1>11. ASSUME NEW t \in Torrent, WasListed(t), confirmRemoveTorrents(t),
              UNCHANGED <<app, plist, unread>>
       PROVE  SavedInv'
  <2>1. torrents' = torrents \ {t} /\ opened' = opened \ {HashOf[t]}
    BY <1>11 DEF confirmRemoveTorrents
  <2>2. \A u \in Torrent : life[u] = "made" => life'[u] = "made"
    BY <1>11 DEF confirmRemoveTorrents, WasListed, TypeOK
  <2>3. QED BY <1>1, <1>11, <2>1, <2>2, SavedKept
<1>12. ASSUME NEW t \in Torrent, rpcRemoveTorrent(t)
       PROVE  SavedInv'
  <2>1. WasListed(t)
    BY <1>12, QueueTake DEF rpcRemoveTorrent, ListInv, Selector
  <2>2. QED BY <1>11, <1>12, <2>1 DEF rpcRemoveTorrent
<1>13. CASE \E t \in Torrent : _delayedRemovalOfTorrents(t)
  BY <1>1, <1>13, SavedKept DEF _delayedRemovalOfTorrents
<1>14. CASE \E t \in displayed, space \in BOOLEAN, a \in StartOutcome :
              progressControlTapped(t, space, a)
  BY <1>1, <1>14, SavedKept DEF progressControlTapped
<1>15. CASE \E t \in displayed : deleteRow(t)
  BY <1>11, <1>15 DEF deleteRow, TypeOK, ListInv, WrappedInv
<1>16. ASSUME NEW t \in Torrent, listOpened(t)
       PROVE  SavedInv'
  <2>1. app = "running" /\ app' = "running" /\ torrents' = torrents \cup {t}
        /\ opened' = opened \cup {HashOf[t]} /\ plist' = HistoryOf(torrents', tor')
    BY <1>16 DEF listOpened
  <2>2. \A h \in opened' : \E u \in torrents' : HashOf[u] = h
    BY <1>2, <2>1
  <2>3. QED BY <2>1, <2>2, SavedWhole
<1>17. CASE \E t \in Torrent, space \in BOOLEAN, a \in StartOutcome :
              openFiles(t, space, a) \/ openMagnet(t, space, a)
  <2>1. ASSUME NEW t \in Torrent, NEW space \in BOOLEAN, NEW a \in StartOutcome,
               MakeOpened(t, space, a)
        PROVE  SavedInv'
    BY <1>1, <2>1, SavedKept DEF MakeOpened, TypeOK
  <2>2. QED BY <1>17, <2>1, SavedAtEnd DEF openFiles, openMagnet
<1>18. CASE updateStatistics
  BY <1>1, <1>18, SavedKept DEF updateStatistics
<1>19. CASE saveHistory
  <2>1. app' = "running" /\ torrents' = torrents /\ tor' = tor /\ opened' = opened
        /\ plist' = HistoryOf(torrents, tor)
    BY <1>19 DEF saveHistory
  <2>2. QED BY <1>2, <1>19, <2>1, SavedWhole DEF saveHistory
<1>20. ASSUME NEW space \in [torrents -> BOOLEAN], NEW a \in [torrents -> StartOutcome],
              applicationDidEnterBackground(space, a)
       PROVE  SavedInv'
  <2>1. app' = "running" /\ torrents' = torrents /\ opened' = opened
        /\ plist' = HistoryOf(torrents', tor')
    BY <1>20 DEF applicationDidEnterBackground
  <2>2. QED BY <1>2, <1>20, <2>1, SavedWhole DEF applicationDidEnterBackground
<1>21. CASE relaunch
  BY <1>21, SavedAtEnd DEF relaunch
<1>22. CASE UNCHANGED vars
  BY <1>1, <1>22, SavedKept DEF vars
<1>23. CASE \E t \in Torrent : listLoaded(t)
  BY <1>1, <1>23, SavedKept DEF listLoaded, TypeOK
<1>24. QED
  BY <1>3, <1>4, <1>5, <1>6, <1>7, <1>8, <1>9, <1>10, <1>12, <1>13, <1>14, <1>15, <1>17,
     <1>16, <1>18, <1>19, <1>20, <1>21, <1>22, <1>23
  DEF Next, LaunchThread, MainThread, User, System

\* What was opened stays in the history file, through any kills and relaunches, in
\* every behaviour in which RPC requests neither save the list while the history loads
\* nor have added a torrent by then.
THEOREM OpenedStaysSaved ==
  Spec /\ [][NotSavedWhileLoading]_vars /\ []NoneAddedWhileLoading => []OpenedIsSaved
<1>1. Init => SavedInv
  BY DEF Init, SavedInv, OpenedIsSaved
<1>2. TypeOK /\ ListInv /\ NoneAddedWhileLoading /\ SavedInv /\ [Next]_vars
        /\ [NotSavedWhileLoading]_vars => SavedInv'
  BY SavedStep
<1>3. SavedInv => OpenedIsSaved
  BY DEF SavedInv
<1>4. QED BY <1>1, <1>2, <1>3, ListInvariant, PTL DEF Spec
=============================================================================
