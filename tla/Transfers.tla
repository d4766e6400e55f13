----------------------------- MODULE Transfers -----------------------------
(***************************************************************************)
(* The list of transfers of the iOS application: ITController (the list,   *)
(* its RPC callbacks, its history file), the ITTorrent objects in it, the  *)
(* transfers table that shows them and the application life cycle around   *)
(* them. libtransmission is external.                                      *)
(*                                                                         *)
(* Threads and their steps:                                                *)
(*   - the main thread handles user events and, in the order they were     *)
(*     posted, the selectors in "runloop"                                  *)
(*     (performSelectorOnMainThread:waitUntilDone:NO);                     *)
(*   - libtransmission's thread serves RPC requests, from tr_sessionInit   *)
(*     on, and calls rpcCallback once it is set;                           *)
(*   - the launch thread runs -[ITController init] and with it             *)
(*     loadTorrentHistory, while the other two are already at work;        *)
(*   - one short thread runs for every stopTransfer.                       *)
(*                                                                         *)
(* The arrays "torrents", "displayedTorrents" and the history file are     *)
(* sets: each addObject adds an object made for it, and no property        *)
(* depends on the order of the rows.                                       *)
(***************************************************************************)
EXTENDS ITTorrent, Sequences, FiniteSets

CONSTANTS
  Torrent,    \* ITTorrent objects, each with the tr_torrent it holds
  Hash,       \* what torrents are identified by: the info hash
  HashOf,     \* the info hash of each torrent
  RpcPhases,  \* phases of the application in which RPC requests arrive
  MaxPosted,  \* bound: user and RPC events wait while this many selectors queue
  MaxStops    \* bound: taps on a row wait while it has this many stop threads

ASSUME HashOfAssumption == HashOf \in [Torrent -> Hash]
ASSUME RpcPhasesAssumption == RpcPhases \subseteq {"launching", "loading", "running"}
ASSUME BoundsAssumption == MaxPosted \in Nat /\ MaxStops \in Nat

VARIABLES
  app,        \* phase of the process
  life,       \* what has become of each torrent
  tor,        \* run control of each torrent, see ITTorrent
  torrents,   \* ITController.torrents
  displayed,  \* ITTransfersViewController.displayedTorrents
  runloop,    \* selectors posted to the main thread and not yet performed
  tapped,     \* torrents with a background stopTransfer a tap has spawned
  plist,      \* transfers.plist
  unread,     \* items of the history array the loader has not come to
  loaded,     \* loadedTorrents of loadTorrentHistory
  toStart,    \* waitToStartTorrents of loadTorrentHistory
  \* A history variable; no step reads it.
  opened      \* hashes opened on the device and not removed since

listVars == <<torrents, displayed>>
loadVars == <<unread, loaded, toStart>>
vars == <<app, life, tor, listVars, runloop, tapped, plist, loadVars, opened>>

(***************************************************************************)
(* "unseen" is a tr_torrent that an RPC request made before the callback   *)
(* was set, of which the program is never told; "raw" one that an RPC      *)
(* request made and that no ITTorrent wraps yet; "made" one whose ITTorrent*)
(* is made and not listed yet. A "removed" one has been given to           *)
(* tr_torrentRemove and may be freed at any moment.                        *)
(***************************************************************************)
Life == {"none", "unseen", "raw", "made", "live", "removed"}

\* update, rpcChangedTorrent:, rpcMovedTorrent:, completenessChange: and the
\* seed limit selectors all take a snapshot and notify: "update" stands for them.
Selector == {"update", "rpcStartedStopped", "rpcAdd", "rpcRemove"}
Posted == [sel: Selector, t: Torrent]

HistoryItem == [hash: Hash, run: Activity]

TypeOK ==
  /\ app \in {"launching", "loading", "running", "aborted"}
  /\ life \in [Torrent -> Life]
  /\ tor \in [Torrent -> RunControl]
  /\ torrents \subseteq Torrent
  /\ displayed \subseteq Torrent
  /\ runloop \in Seq(Posted)
  /\ tapped \subseteq Torrent
  /\ plist \subseteq HistoryItem
  /\ unread \subseteq HistoryItem
  /\ loaded \subseteq Torrent
  /\ toStart \subseteq Torrent
  /\ opened \subseteq Hash

Init ==
  /\ app = "launching"
  /\ life = [t \in Torrent |-> "none"]
  /\ tor = [t \in Torrent |-> Created]
  /\ torrents = {} /\ displayed = {}
  /\ runloop = <<>> /\ tapped = {}
  /\ plist = {}
  /\ unread = {} /\ loaded = {} /\ toStart = {}
  /\ opened = {}

-----------------------------------------------------------------------------
(* Helpers *)

\* libtransmission knows the torrent.
InSession(t) == life[t] \in {"unseen", "raw", "made", "live"}

HashInSession(h) == \E t \in Torrent : InSession(t) /\ HashOf[t] = h

\* The objects and threads of a removed torrent go on; of what they knew only the
\* pending stops are left. A call with the removed handle has no effect the
\* program could count on, and a look at the snapshot, which lies in the freed
\* torrent, can show anything.
Removed(r) == [Created EXCEPT !.stops = r.stops]
Started(t, space, a) ==
  IF life[t] = "removed" THEN tor[t] ELSE startTransfer(tor[t], space, a)
Seen(t) == IF life[t] = "removed" THEN {[tor[t] EXCEPT !.stat = s] : s \in Activity}
           ELSE {tor[t]}

Post(s, t) == runloop' = Append(runloop, [sel |-> s, t |-> t])
Room == Len(runloop) < MaxPosted
Alive == app \in {"loading", "running"}

\* A thread is between making a torrent and listing it: while the history loads the
\* launch thread, afterwards the main thread, which then serves nothing else.
Making == \E t \in Torrent : life[t] = "made"
MainFree == app = "loading" \/ (app = "running" /\ ~Making)

\* updateTorrentHistory, from the snapshots the objects in the list hold.
HistoryOf(list, control) ==
  {[hash |-> HashOf[t], run |-> control[t].stat] : t \in list}

\* The end of a process: only the history file is left of it.
ProcessEnd ==
  /\ life' = [t \in Torrent |-> "none"]
  /\ tor' = [t \in Torrent |-> Created]
  /\ torrents' = {} /\ displayed' = {}
  /\ runloop' = <<>> /\ tapped' = {}
  /\ unread' = {} /\ loaded' = {} /\ toStart' = {}
  /\ UNCHANGED <<plist, opened>>

-----------------------------------------------------------------------------
(* The launch thread *)

\* The RPC callback is set, then the history file is read into an array, once. With pauseOnLaunch neither of an item's two flags is looked at.
loadTorrentHistory ==
  /\ app = "launching"
  /\ app' = "loading"
  /\ \E pauseOnLaunch \in BOOLEAN :
       unread' = IF pauseOnLaunch THEN {[item EXCEPT !.run = "stopped"] : item \in plist}
                 ELSE plist
  /\ UNCHANGED <<life, tor, listVars, runloop, tapped, plist, loaded, toStart, opened>>

\* One round of its loop: initWithHistory fails when the session has a torrent of
\* this hash already; otherwise an item saved as active is started in it.
loadHistoryItem(item, t, space) ==
  /\ app = "loading" /\ ~Making
  /\ item \in unread
  /\ unread' = unread \ {item}
  /\ \/ /\ HashInSession(item.hash)
        /\ UNCHANGED <<life, tor, toStart>>
     \/ /\ ~HashInSession(item.hash)
        /\ life[t] = "none" /\ HashOf[t] = item.hash
        /\ life' = [life EXCEPT ![t] = "made"]
        /\ tor' = [tor EXCEPT ![t] =
                     IF item.run = "active"
                     THEN startTransferNoQueue(Created, space) ELSE Created]
        /\ toStart' = IF item.run = "wait" THEN toStart \cup {t} ELSE toStart
  /\ UNCHANGED <<app, listVars, runloop, tapped, plist, loaded, opened>>

\* The end of the round: the torrent is listed.
listLoaded(t) ==
  /\ app = "loading" /\ life[t] = "made"
  /\ life' = [life EXCEPT ![t] = "live"]
  /\ torrents' = torrents \cup {t}
  /\ loaded' = loaded \cup {t}
  /\ UNCHANGED <<app, tor, displayed, runloop, tapped, plist, unread, toStart, opened>>

\* "now that all are loaded, let's set those in the queue to waiting"
startWaiting(t, space, a) ==
  /\ app = "loading" /\ unread = {} /\ ~Making
  /\ t \in toStart
  /\ toStart' = toStart \ {t}
  /\ tor' = [tor EXCEPT ![t] = Started(t, space, a)]
  /\ UNCHANGED <<app, life, listVars, runloop, tapped, plist, unread, loaded, opened>>

\* Mutant: the table is set to the loaded torrents instead of being given them too.
historyLoadedMut ==
  /\ app = "loading" /\ unread = {} /\ ~Making /\ toStart = {}
  /\ app' = "running"
  /\ displayed' = loaded
  /\ loaded' = {}
  /\ UNCHANGED <<life, tor, torrents, runloop, tapped, plist, unread, toStart, opened>>

\* The history-loaded notification fills the table, init returns, and from now
\* on sharedController is this object.
historyLoaded ==
  /\ app = "loading" /\ unread = {} /\ ~Making /\ toStart = {}
  /\ app' = "running"
  /\ displayed' = displayed \cup loaded
  /\ loaded' = {}
  /\ UNCHANGED <<life, tor, torrents, runloop, tapped, plist, unread, toStart, opened>>

-----------------------------------------------------------------------------
(* libtransmission's thread: RPC requests and the callback *)

RpcServed == app \in RpcPhases /\ Room

\* torrent-add: the new tr_torrent may be started before the callback posts it.
\* Nothing is posted before the callback is set.
rpcTorrentAdded(t, a) ==
  /\ RpcServed
  /\ life[t] = "none" /\ ~HashInSession(HashOf[t])
  /\ tor' = [tor EXCEPT ![t] = Wrapped(a)]
  /\ \/ /\ app = "launching"
        /\ life' = [life EXCEPT ![t] = "unseen"]
        /\ UNCHANGED runloop
     \/ /\ app # "launching"
        /\ life' = [life EXCEPT ![t] = "raw"]
        /\ Post("rpcAdd", t)
  /\ UNCHANGED <<app, listVars, tapped, plist, loadVars, opened>>

\* Mutant: a struct no listed object has is posted too.
rpcCallbackMut(s, t) == Post(s, t)

\* The callback for a request about an existing torrent: it is dropped (but for
\* a line in the log) when no object in the list has the struct, be it made already.
rpcCallback(s, t) == IF t \in torrents THEN Post(s, t) ELSE UNCHANGED runloop

rpcTorrentStarted(t, a) ==
  /\ RpcServed /\ InSession(t)
  /\ tor' = [tor EXCEPT ![t].act = IF @ = "active" THEN @ ELSE a]
  /\ rpcCallback("rpcStartedStopped", t)
  /\ UNCHANGED <<app, life, listVars, tapped, plist, loadVars, opened>>

rpcTorrentStopped(t) ==
  /\ RpcServed /\ InSession(t)
  /\ tor' = [tor EXCEPT ![t].act = "stopped"]
  /\ rpcCallback("rpcStartedStopped", t)
  /\ UNCHANGED <<app, life, listVars, tapped, plist, loadVars, opened>>

\* torrent-set and torrent-set-location.
rpcTorrentChanged(t) ==
  /\ RpcServed /\ InSession(t)
  /\ rpcCallback("update", t)
  /\ UNCHANGED <<app, life, tor, listVars, tapped, plist, loadVars, opened>>

\* torrent-remove, with or without its data: the callback returns
\* TR_RPC_NOREMOVE, so libtransmission itself does nothing once it is set.
rpcTorrentRemoving(t) ==
  /\ RpcServed /\ InSession(t)
  /\ \/ /\ app = "launching"
        /\ life' = [life EXCEPT ![t] = "none"]
        /\ tor' = [tor EXCEPT ![t] = Created]
        /\ UNCHANGED runloop
     \/ /\ app # "launching"
        /\ rpcCallback("rpcRemove", t)
        /\ UNCHANGED <<life, tor>>
  /\ UNCHANGED <<app, listVars, tapped, plist, loadVars, opened>>

\* A torrent completes, hits its ratio or idle limit (which stops it), or leaves
\* the queue; the callbacks set by the constructor post to the object.
torrentCallback(t, a) ==
  /\ Alive /\ Room
  /\ life[t] \in {"made", "live"} /\ tor[t].act # "stopped"
  /\ tor' = [tor EXCEPT ![t].act = a]
  /\ Post("update", t)
  /\ UNCHANGED <<app, life, listVars, tapped, plist, loadVars, opened>>

-----------------------------------------------------------------------------
(* Background threads *)

\* A tap runs stopTransfer itself in the background: it spawns the thread that
\* stops and takes a snapshot.
stopTransferInBackground(t) ==
  /\ Alive /\ t \in tapped
  /\ tapped' = tapped \ {t}
  /\ tor' = [tor EXCEPT ![t] = stopTransfer(@)]
  /\ UNCHANGED <<app, life, listVars, runloop, plist, loadVars, opened>>

\* Mutant: one spawned thread can run twice.
_stopInBackgroundMut(t) ==
  /\ Alive /\ life[t] = "live" /\ Room
  /\ tor' = [tor EXCEPT ![t] = stopInBackground(@)]
  /\ Post("update", t)
  /\ UNCHANGED <<app, life, listVars, tapped, plist, loadVars, opened>>

_stopInBackground(t) ==
  /\ Alive /\ tor[t].stops > 0
  /\ tor' = [tor EXCEPT ![t] = stopInBackground(@)]
  /\ Post("update", t)
  /\ UNCHANGED <<app, life, listVars, tapped, plist, loadVars, opened>>

-----------------------------------------------------------------------------
(* The main thread: selectors in the order they were posted *)

\* Mutant: the list is left to the delayed removal.
confirmRemoveTorrentsMutList(t) ==
  /\ \E r \in Seen(t) :
       tor' = [tor EXCEPT ![t] = Removed(IF waitingToStart(r) THEN stopTransfer(r) ELSE r)]
  /\ UNCHANGED torrents
  /\ life' = [life EXCEPT ![t] = "removed"]
  /\ displayed' = displayed \ {t}
  /\ opened' = opened \ {HashOf[t]}

\* Mutant: the about-to-be-removed notification is not posted.
confirmRemoveTorrentsMutRow(t) ==
  /\ \E r \in Seen(t) :
       tor' = [tor EXCEPT ![t] = Removed(IF waitingToStart(r) THEN stopTransfer(r) ELSE r)]
  /\ torrents' = torrents \ {t}
  /\ life' = [life EXCEPT ![t] = "removed"]
  /\ UNCHANGED displayed
  /\ opened' = opened \ {HashOf[t]}

(***************************************************************************)
(* confirmRemoveTorrents: for one torrent (every caller passes one): a     *)
(* waiting torrent is stopped in the background first; then it leaves the  *)
(* list, tr_torrentRemove, the table drops its row, and the removal from   *)
(* the list is repeated 0.2 s later. The history file is not written.      *)
(***************************************************************************)
confirmRemoveTorrents(t) ==
  /\ \E r \in Seen(t) :
       tor' = [tor EXCEPT ![t] = Removed(IF waitingToStart(r) THEN stopTransfer(r) ELSE r)]
  /\ torrents' = torrents \ {t}
  /\ life' = [life EXCEPT ![t] = "removed"]
  /\ displayed' = displayed \ {t}
  /\ opened' = opened \ {HashOf[t]}

Next_(s, t) ==
  /\ MainFree /\ runloop # <<>> /\ Head(runloop) = [sel |-> s, t |-> t]
  /\ runloop' = Tail(runloop)

performUpdate(t) ==
  /\ Next_("update", t)
  /\ tor' = [tor EXCEPT ![t] = update(@)]
  /\ UNCHANGED <<app, life, listVars, tapped, plist, loadVars, opened>>

\* The snapshot, then the history of the whole list is saved.
rpcStartedStoppedTorrent(t) ==
  /\ Next_("rpcStartedStopped", t)
  /\ tor' = [tor EXCEPT ![t] = update(@)]
  /\ plist' = HistoryOf(torrents, tor')
  /\ UNCHANGED <<app, life, listVars, tapped, loadVars, opened>>

\* Mutant: the object is shown and listed with the next refresh.
rpcAddTorrentStructMut(t) ==
  /\ Next_("rpcAdd", t)
  /\ life' = [life EXCEPT ![t] = "live"]
  /\ tor' = [tor EXCEPT ![t] = update(@)]
  /\ displayed' = displayed \cup {t}
  /\ UNCHANGED <<app, torrents, tapped, plist, loadVars, opened>>

\* The object is made around the struct, listed and shown, but not saved.
rpcAddTorrentStruct(t) ==
  /\ Next_("rpcAdd", t)
  /\ life' = [life EXCEPT ![t] = "live"]
  /\ tor' = [tor EXCEPT ![t] = update(@)]
  /\ torrents' = torrents \cup {t}
  /\ displayed' = displayed \cup {t}
  /\ UNCHANGED <<app, tapped, plist, loadVars, opened>>

\* Mutant: the selector refreshes the torrent and leaves it to libtransmission.
rpcRemoveTorrentMut(t) ==
  /\ Next_("rpcRemove", t)
  /\ tor' = [tor EXCEPT ![t] = update(@)]
  /\ UNCHANGED <<app, life, listVars, tapped, plist, loadVars, opened>>

rpcRemoveTorrent(t) ==
  /\ Next_("rpcRemove", t)
  /\ confirmRemoveTorrents(t)
  /\ UNCHANGED <<app, tapped, plist, loadVars>>

\* The repeated removal; when it fires after a removal is left open.
_delayedRemovalOfTorrents(t) ==
  /\ MainFree /\ life[t] = "removed"
  /\ torrents' = torrents \ {t}
  /\ UNCHANGED <<app, life, tor, displayed, runloop, tapped, plist, loadVars, opened>>

-----------------------------------------------------------------------------
(* The main thread: the user and the system *)

\* The round button of a row: it stops or starts, by what the snapshot says.
progressControlTapped(t, space, a) ==
  /\ MainFree /\ t \in displayed /\ Room
  /\ \/ /\ \E r \in Seen(t) : isActive(r)
        /\ t \notin tapped /\ tor[t].stops < MaxStops
        /\ tapped' = tapped \cup {t}
        /\ UNCHANGED tor
     \/ /\ \E r \in Seen(t) : ~isActive(r)
        /\ tor' = [tor EXCEPT ![t] = Started(t, space, a)]
        /\ UNCHANGED tapped
  /\ UNCHANGED <<app, life, listVars, runloop, plist, loadVars, opened>>

\* Swipe to delete. Before init has returned sharedController is nil and the
\* message goes nowhere.
deleteRow(t) ==
  /\ app = "running" /\ ~Making /\ t \in displayed
  /\ confirmRemoveTorrents(t)
  /\ UNCHANGED <<app, runloop, tapped, plist, loadVars>>

\* A torrent opened on the device is made and started if the disk has room.
MakeOpened(t, space, a) ==
  /\ ~HashInSession(HashOf[t])
  /\ life[t] = "none"
  /\ life' = [life EXCEPT ![t] = "made"]
  /\ tor' = [tor EXCEPT ![t] = startTransfer(Created, space, a)]
  /\ UNCHANGED <<app, listVars, runloop, tapped, plist, loadVars, opened>>

\* A file whose torrent is in the session already is refused with an alert.
openFiles(t, space, a) ==
  /\ app = "running" /\ ~Making
  /\ MakeOpened(t, space, a)

\* No such check for a magnet link: the constructor returns nil, and adding nil
\* to an array raises an exception nobody catches.
openMagnet(t, space, a) ==
  /\ app = "running" /\ ~Making
  /\ \/ MakeOpened(t, space, a)
     \/ /\ HashInSession(HashOf[t])
        /\ app' = "aborted"
        /\ ProcessEnd

\* Mutant: the history is saved before the torrent is listed.
listOpenedMut(t) ==
  /\ app = "running" /\ life[t] = "made"
  /\ life' = [life EXCEPT ![t] = "live"]
  /\ torrents' = torrents \cup {t}
  /\ displayed' = displayed \cup {t}
  /\ plist' = HistoryOf(torrents, tor)
  /\ opened' = opened \cup {HashOf[t]}
  /\ UNCHANGED <<app, tor, runloop, tapped, loadVars>>

\* Then it is listed, shown and saved, in this order.
listOpened(t) ==
  /\ app = "running" /\ life[t] = "made"
  /\ life' = [life EXCEPT ![t] = "live"]
  /\ torrents' = torrents \cup {t}
  /\ displayed' = displayed \cup {t}
  /\ plist' = HistoryOf(torrents', tor)
  /\ opened' = opened \cup {HashOf[t]}
  /\ UNCHANGED <<app, tor, runloop, tapped, loadVars>>

\* The timer of the application delegate: updateStatistics.
updateStatistics ==
  /\ MainFree
  /\ tor' = [t \in Torrent |-> IF t \in torrents THEN update(tor[t]) ELSE tor[t]]
  /\ UNCHANGED <<app, life, listVars, runloop, tapped, plist, loadVars, opened>>

\* Resigning, becoming active and entering the foreground save the history.
saveHistory ==
  /\ app = "running" /\ ~Making
  /\ plist' = HistoryOf(torrents, tor)
  /\ UNCHANGED <<app, life, tor, listVars, runloop, tapped, loadVars, opened>>

\* Entering the background starts every transfer, then saves.
applicationDidEnterBackground(space, a) ==
  /\ app = "running" /\ ~Making
  /\ tor' = [t \in Torrent |-> IF t \in torrents
                               THEN Started(t, space[t], a[t]) ELSE tor[t]]
  /\ plist' = HistoryOf(torrents, tor')
  /\ UNCHANGED <<app, life, listVars, runloop, tapped, loadVars, opened>>

\* The process ends by a kill, a crash, or applicationWillTerminate, which closes
\* the session and saves nothing; then a new one is launched.
relaunch ==
  /\ app # "launching"
  /\ app' = "launching"
  /\ ProcessEnd

-----------------------------------------------------------------------------
(* The specification *)

LaunchThread ==
  \/ loadTorrentHistory
  \/ \E item \in unread, t \in Torrent, space \in BOOLEAN : loadHistoryItem(item, t, space)
  \/ \E t \in Torrent : listLoaded(t)
  \/ \E t \in toStart, space \in BOOLEAN, a \in StartOutcome : startWaiting(t, space, a)
  \/ historyLoaded

RPC ==
  \/ \E t \in Torrent, a \in StartOutcome \cup {"stopped"} : rpcTorrentAdded(t, a)
  \/ \E t \in Torrent, a \in StartOutcome : rpcTorrentStarted(t, a)
  \/ \E t \in Torrent : rpcTorrentStopped(t)
  \/ \E t \in Torrent : rpcTorrentChanged(t)
  \/ \E t \in Torrent : rpcTorrentRemoving(t)

MainThread ==
  \/ \E t \in Torrent : performUpdate(t)
  \/ \E t \in Torrent : rpcStartedStoppedTorrent(t)
  \/ \E t \in Torrent : rpcAddTorrentStruct(t)
  \/ \E t \in Torrent : rpcRemoveTorrent(t)
  \/ \E t \in Torrent : listOpened(t)

User ==
  \/ \E t \in displayed, space \in BOOLEAN, a \in StartOutcome :
       progressControlTapped(t, space, a)
  \/ \E t \in displayed : deleteRow(t)
  \/ \E t \in Torrent, space \in BOOLEAN, a \in StartOutcome :
       openFiles(t, space, a) \/ openMagnet(t, space, a)

System ==
  \/ updateStatistics
  \/ saveHistory
  \/ \E space \in [torrents -> BOOLEAN], a \in [torrents -> StartOutcome] :
       applicationDidEnterBackground(space, a)
  \/ relaunch

Next ==
  \/ LaunchThread
  \/ RPC
  \/ \E t \in Torrent, a \in StartOutcome \cup {"stopped"} : torrentCallback(t, a)
  \/ \E t \in Torrent : stopTransferInBackground(t) \/ _stopInBackground(t)
  \/ MainThread
  \/ \E t \in Torrent : _delayedRemovalOfTorrents(t)
  \/ User
  \/ System

\* The run loop performs what is posted and ends what it began, and a thread that was
\* started runs.
Fairness ==
  /\ WF_vars(MainThread)
  /\ WF_vars(LaunchThread)
  /\ \A t \in Torrent : WF_vars(stopTransferInBackground(t)) /\ WF_vars(_stopInBackground(t))

Spec == Init /\ [][Next]_vars
FairSpec == Spec /\ Fairness

-----------------------------------------------------------------------------
(* Properties *)

\* What the program lists is what libtransmission has, no matter how RPC
\* requests, deletions, the loader and late selectors interleave: a listed torrent
\* has a handle that was not removed (the timer and the history walk the list and
\* use every handle), and every torrent the session has is listed, but for those
\* an RPC request added and the main thread was not told of yet, the one a thread is
\* about to list, and those added over RPC before the callback was set.
ListIsSession ==
  /\ \A t \in torrents : life[t] = "live"
  /\ \A t \in Torrent : life[t] = "live" => t \in torrents
  /\ \A t \in Torrent : life[t] = "raw" =>
       \E i \in DOMAIN runloop : runloop[i] = [sel |-> "rpcAdd", t |-> t]
  /\ \A t, u \in Torrent : life[t] = "made" /\ life[u] = "made" => Alive /\ t = u

\* The list, and with it the history file, never has one torrent twice, although
\* three threads add to it and only libtransmission knows about duplicates.
OneEntryPerHash == \A t, u \in torrents : HashOf[t] = HashOf[u] => t = u

\* The inductive invariant behind the properties above and ListedIsShown. A
\* selector waits only while its torrent is what the selector takes it for:
\* "rpcAdd" for a raw one, once, those of RPC requests for one that was listed, be it
\* removed since, and "update", which the torrent's own callbacks post, for one the
\* program has wrapped; only this rpcAdd knows a raw torrent.
WasListed(t) == life[t] \in {"live", "removed"}
IsWrapped(t) == WasListed(t) \/ life[t] = "made"

QueueInv ==
  /\ \A i \in DOMAIN runloop :
       IF runloop[i].sel = "rpcAdd" THEN life[runloop[i].t] = "raw"
       ELSE IsWrapped(runloop[i].t) /\ (runloop[i].sel # "update" => WasListed(runloop[i].t))
  /\ \A i, j \in DOMAIN runloop :
       runloop[i].sel = "rpcAdd" /\ runloop[j] = runloop[i] => i = j
  /\ \A t \in Torrent : life[t] = "raw" =>
       \E i \in DOMAIN runloop : runloop[i] = [sel |-> "rpcAdd", t |-> t]

WrappedInv ==
  /\ \A t \in displayed \cup loaded \cup tapped : WasListed(t)
  /\ \A t \in toStart : IsWrapped(t)
  /\ \A t \in Torrent : tor[t].stops > 0 => WasListed(t)

\* Until the callback is set the program has no torrents.
LaunchInv == \A t \in Torrent : ~Alive => life[t] \in {"none", "unseen"}

MakingInv == \A t, u \in Torrent : life[t] = "made" /\ life[u] = "made" => t = u

SessionInv ==
  \A t, u \in Torrent : InSession(t) /\ InSession(u) /\ HashOf[t] = HashOf[u] => t = u

RowsInv ==
  /\ torrents \subseteq displayed \cup loaded
  /\ app = "running" => loaded = {}

ListInv ==
  /\ torrents = {t \in Torrent : life[t] = "live"}
  /\ QueueInv
  /\ WrappedInv
  /\ SessionInv
  /\ RowsInv
  /\ LaunchInv
  /\ MakingInv

\* Transfers implements SessionList: whatever the threads do, torrents are learned,
\* listed and forgotten one at a time, a listed torrent is never dropped from one side
\* only, and none is learned of a hash the session has already.
Known == {t \in Torrent : InSession(t)}
SL == INSTANCE SessionList WITH known <- Known, listed <- torrents
ImplementsSessionList == SL!Spec

\* Every listed torrent is in the table once the history is loaded: none is
\* hidden by the race of the history-loaded notification with RPC additions.
ListedIsShown == app = "running" => torrents \subseteq displayed

\* A row whose torrent is not listed has one cause only: an RPC request removed
\* the torrent between its load and the history-loaded notification.
GhostRowsFromLoading ==
  [][(displayed' \ torrents') \subseteq (displayed \ torrents) \cup (loaded \ torrents)]_vars

\* A torrent opened on the device survives any crash or kill: from the end of
\* openFiles on it is in the history file, or (re)loaded from it, until removed.
OpenedIsSaved ==
  \A h \in opened : \E item \in plist : item.hash = h

\* A removal requested over RPC and posted to the main thread is carried out.
RemovalCarriedOut ==
  \A t \in Torrent :
    (\E i \in DOMAIN runloop : runloop[i] = [sel |-> "rpcRemove", t |-> t])
      ~> life[t] # "live"

\* A stop, once its thread is started, reaches libtransmission: at some later
\* moment the torrent is not running, whatever else happens to it.
StopTakesEffect ==
  \A t \in Torrent :
    (t \in tapped \/ tor[t].stops > 0) ~> (tor[t].act # "active" \/ life[t] = "removed")

-----------------------------------------------------------------------------
(* What a comment promises and the code does not keep *)

\* "The client may need to keep the torrent alive long enough to cleanly close
\* some resources in another thread" (libtransmission/transmission.h, on the
\* TR_RPC_NOREMOVE this program returns): when a handle is given to
\* tr_torrentRemove, nothing that will call with it is under way.
NoCallAfterRemove ==
  \A t \in Torrent : life[t] = "removed" =>
    /\ t \notin tapped /\ tor[t].stops = 0
    /\ \A i \in DOMAIN runloop : runloop[i].t # t
=============================================================================
