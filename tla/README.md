# A verification project for iTransmission

iTransmission is a BitTorrent client for iOS around libtransmission: an application in
Objective-C, a web interface in JavaScript that the application serves, and three command line
programs in C, a daemon, a remote control tool and a simple client. libtransmission itself is in
the repository only as headers and binaries. This project models the parts that keep state and
that several actors change, checks them with TLC on small instances and proves the most important
invariants with TLAPS for all values of the constants.

`PROJECT.json` lists, for every definition that models code, the lines it stands for, and for
every property a mutation of the code that breaks it. This file explains the rest.

## 1. The system

Paths are relative to `src/`.

### Components modelled

| Component | State | Operations | What makes it hard | What makes it correct |
|---|---|---|---|---|
| Transfer list: `ITController`, `ITTransfersViewController`, life cycle of `ITAppDelegate` | the list `torrents`, the rows `displayedTorrents`, the handles of libtransmission, `transfers.plist` | open a file, a magnet link, remove; RPC add, remove, start, stop, move; load and save the history; background, terminate | four kinds of threads: main, launch (loads the history), libtransmission's (RPC and torrent callbacks), one per stop; everything from RPC is *posted* to the main thread | list = session but for what is still posted; no torrent twice; what was opened is never lost; posted removals are carried out; stops take effect |
| Run control: `ITTorrent` | activity, `resumeOnWake`, `diskFull`, statistics of the last snapshot | start, stop (on a thread of its own), sleep, wake, update | decisions are made from a snapshot that is stale when used | used by the two modules above and below |
| Network switcher: `ITNetworkSwitcher`, `Reachability` | reachability status, two switches, enforced policy | notification, switch taps, put all to sleep, wake all | notifications arrive late, the controller is made by another thread, torrents come and go while asleep | nothing runs over a cellular network unasked; what was put to sleep is restarted |
| Watch directory: `watch.c`, `onFileAdded` | last and current scan, inotify events | scan, try a file, rename or delete it | two builds; other programs write the files meanwhile; restarts | a file is taken only if its torrent is in the session; a good file is added; a bad one is not tried for ever |
| Daemon: `daemon.c` | `closing`, settings dictionary, settings file, session | start, options, reload (SIGHUP), close (signals, RPC), save | signal handlers between any two steps of main; kills | a setting asked for stays in force; a close ends the daemon |
| Preferences: `ITPrefsController`, `ITPrefViewController`, `ITKeyboardController`, first half of `-[ITController init]` | three copies of each setting: defaults, session, screen; the field being edited | switches, text fields with Done and Cancel, RPC changes copied back by `rpcUpdatePrefs`, launch | setters write one copy and then another, RPC comes between; 16-bit session values; kills | the last change wins everywhere and survives |
| Web transfer list: `transmission.js`, `torrent.js`, `remote.js` | torrents the page knows, dirty ones, rows, timers | poll, answer, filter, sort, remove | answers late, out of order, lost; the server tells of changes for a minute only; incremental refilter | the page comes to show the truth; incremental = complete refilter |
| Command line client: `cli.c` | the settings dictionary, the session, two signal flags, `waitingOnWeb` | options, the download of a torrent file, start, look, stop, save | a web thread, libtransmission's thread and signals between any two steps of main | what is saved is the command line; every return closes the session; no signal is lost |
| File list and inspectors: file part of `ITTorrent`, `ITFileListNode`, the Files and Trackers tables | the list and its folders, the cached `fileStat`, what the tables have on the screen | construct, metadata arrives, tap a check mark, RPC changes, timer, removal, opening and closing | metadata against the constructor, taps by marks that RPC has overtaken, removal under an open screen | the list is the torrent and is made however the threads meet; marks and rows are the torrent's unless a change is on its way; no inspector keeps a removed handle |
| Remote control: `remote.c` | three requests being gathered, current torrent, session id | options, flush, 409 and retry | options change which torrent a waiting change is for; a request may be lost or refused | every change is applied once, to what it was given for |

How they interact: RPC requests (from the web page, `remote.c` or anything else) are served by
libtransmission, which calls `rpcCallback` of the application or the daemon on its own thread;
the application posts selectors to its main thread. The switcher walks the list of
`ITController` and calls `ITTorrent`. The daemon's loop calls the watch directory, which calls
back into the daemon. The preferences feed the session at launch and are fed by it through RPC.

### Components not modelled, or not yet

- **Peers and Info tables, tracker nodes, priorities and sizes of files**: the Peers table counts its
  rows by one call to libtransmission and fills each by another, with nothing to relate them; the
  Info table shows labels; no screen shows the folders' sizes or sets priorities.
- **Timer and listeners** (`ITTimerListener`, `ITStatusBarController`): a list of two listeners. The
  launch thread adds one while the main thread may be walking it; what the timer does is in
  Transfers and Inspectors as a step that may happen whenever the main thread is free.
- **Sidebar** (`ITSidebarController`): four states, of which the two sliding ones never end, since
  the animation has no delegate; all tests treat each as the state it slides to.
- **Web preferences, selection, statistics, search text** (`prefs-dialog.js`, the rest of
  `transmission.js`): one actor, the page; what is asynchronous in them are the requests, which
  WebList has for the list.
- **Printing in `remote.c`**: pure formatting of an answer that has arrived.
- **Block list, logging, views, categories, browser, groups**: single steps of input and output,
  drawing, or code whose result nothing reads.
- **libtransmission**: external. Modules state what the code relies on: a torrent removed may be
  freed at any moment, an addition whose hash is known is refused, RPC calls back before a
  removal, requests without a session id are refused before they are applied.
- **Vendored code** (ASIHTTPRequest, NSLogger, SVSegmentedControl, SVWebViewController, jQuery),
  project files, packages, assets.

## 2. The modules

```
ITTorrent  <-- Transfers       <-- TransfersProofs, MCTransfers      implements SessionList
           <-- NetworkSwitcher <-- NetworkProofs,   MCNetworkSwitcher
WatchDir   <-- DaemonProofs,     MCWatchDir
Daemon     <-- DaemonProofs,     MCDaemon
Prefs      <-- PrefsProofs,      MCPrefs
WebList    <-- WebListProofs,    MCWebList
Remote     <-- RemoteProofs,     MCRemote
Cli        <-- CliProofs,        MCCli
Inspectors <-- InspectorsProofs, MCInspectors
```

**ITTorrent** holds the run control of one torrent as operators on a record (`act` what
libtransmission does with it, `stat` the last snapshot, `resume`, `stops` the stop threads of it).
`startTransfer`, `stopTransfer`, `sleep`, `wakeUp`, `update` are the methods of the same names.

**Transfers** has one action per handler. The variable `app` is the phase of the launch thread,
`runloop` the sequence of selectors posted with `performSelectorOnMainThread:waitUntilDone:NO`;
`life` says what has become of each torrent: `unseen` for one that RPC added before the callback was
set, of which the program is never told, `raw` for one that RPC added later and no `ITTorrent` wraps
yet, `made` for one whose `ITTorrent` is made and not listed yet, `removed` for a handle given to
`tr_torrentRemove`. The loader, `openFiles` and `openMagnet` make a torrent in one step and list it in
another (`listLoaded`, `listOpened`), and callbacks about it in between find no entry; the main thread
performs nothing else while it is between the two. `RpcPhases` says when RPC requests arrive; the
session serves them from `tr_sessionInit` on, that is, from `launching` on. `tapped` and `tor[t].stops` are the two
threads a stop goes through. `plist` is the history file as a set of items, `unread`, `loaded`,
`toStart` the locals of `loadTorrentHistory`. `opened` is a history variable.
`System` has the kills and relaunches; a relaunch starts with what the file has.

**SessionList** is the abstract promise: torrents become known to the session, are listed, and a
listed one leaves both at once; one that is not listed is withdrawn by those who added it only as long
as nothing is listed (before the callback is set). `ImplementsSessionList` maps `known` to the handles in the session and
`listed` to the list.

**NetworkSwitcher** gives `networkChanges` to the environment and separates it from the
notification's arrival. `PoliciesFor` is the switch statement with its missing `break`, as the
sequence of policies enforced one after the other. `owed` is a history variable: torrents that a
sleep found running.

**WatchDir** has the two builds in one module, as a variable that never changes: `build` chooses
between the inotify queue and the repeated scans. `dir` maps names to files; a scan is several
steps, and `readdir` may miss what comes or goes while it is under way. The history variables `met` and `swapped` have the
files put under a name that a scan has just returned, or that a call is about to dispose of.
`Longer` is the relation under which the key of one name is found within that of another.

**Daemon** reduces the settings to one that the session takes and one that only main reads. A
`wanted` value is a claim that ends with an edit of the file, a kill, or a SIGHUP before the
session is open; `inForce` is the value the session has. Its specification is `DaemonSpec`, so that
one module of proofs can extend it together with WatchDir.

**Prefs** has one setting for each way of being kept (its head lists which stand for which).
Writing the defaults and applying to the session are two steps (`busy` between them), because
libtransmission's thread may change the session between them; `rpcUpdatePrefs` copies setting by
setting (`next`). Numbers of the session are unsigned: they are taken modulo `W` or `LimitW`, and
`Signed` reads a limit back into an int. A launch has three steps, since RPC is served from the first
(`openSession`) and its changes are copied only from the last (`setRPCCallback`) on; the history
`unheard` has the settings changed in between and not copied since. The preferences may be opened
before there is a controller to ask (`EarlyView`): then they show zeros.

**WebList** counts time in refresh periods. When the page is loaded each torrent has changed some
time ago (`Ages`), so that polls need not tell of it. `net` has requests and answers under way,
answered and delivered in any order, or lost; since ajax has no timeout one may take any time, but
once it has taken more than `MaxDelay` the history `slow` is set. `listLost` says that the one request
for all torrents was lost; the properties about the view are stated for each torrent, under `Timely`.
The rows are a sequence:
`Refiltered` is the incremental refilter, which keeps the rows that are not dirty (`CleanRows`), sorts
the others (`Sorted`) and merges the two (`Merge`).

**Remote** tells options apart by what they do to the three gathered requests; an option's place
in the command line stands for its argument. A request is a dictionary: `Gather` lets an option
replace one of the same key (`replaced` has those it took the place of), except where the kind
stands for options of several keys. `find` is an action of its own, since its branch ends the
reading of options. `work` is what `flush` is called for before an option takes effect. The
histories `given` and `reached` say where each change was meant to go and where it went.

**Cli** has `main` as a program counter, one action per stretch between two points where another
thread or a signal can be seen. The options that store a setting are a table, `Stores`, and
`Merge` is what the dictionary does with them. The settings that are loaded may name a download
directory that does not exist, as an option may; one that exists is replaced by its real path. The
session has its own settings (`inForce`), which RPC clients change, and `tr_sessionSaveSettings`
puts them over the dictionary's in the file it writes (`transmission.h:223`). The text of the status
line is left out. `queue` has the calls that libtransmission has taken and not yet run. `given`,
`loaded`, `overRpc`, `stopOwed` and `updateOwed` are history: the command line and the settings it
came over, the keys set over RPC before the file was written, a signal that no call has answered.
Testing and lowering a flag are one step: a signal between the two has the effect of one before.

**Inspectors** is about one torrent. A path is a sequence of names, names are numbers so that they
sort. `made` is the progress of the constructor, of which only the order of the callback and the
look at the metadata matters. `createFileList` builds the folders file by file, as the code does.
`shown` is the row of check marks the Files table drew, `trackerRows` the rows the Trackers table
counted: they change only when the code reloads. `serving` stands between a change made by an RPC
request and its callback, when the main thread sees the change and has no notice of it. A selector
performed for a torrent that is gone reads a freed handle: the application ends, or nothing is seen
of it (`performedTooLate`).

The plan had, in the order of importance: the transfer list and its threads, the switcher, the
watch directory, the daemon, the preferences, the web list, the remote control, `cli.c`, the file
list and the inspectors, and a theorem for every safety property (all done). Abstract specifications still worth stating: a setting
with one value, implemented by the three copies of Prefs; a set of changes with targets, implemented
by Remote.

## 3. The runs

| Run | Instance | Shows |
|---|---|---|
| `Transfers_list` | one torrent with two objects, queue on, RPC from the opening of the session on, 2 posted selectors, 1 stop thread | `ListIsSession`, `OneEntryPerHash`, `ListedIsShown`, `GhostRowsFromLoading`, the inductive `ListInv` and the refinement |
| `Transfers_saved` | two different torrents, RPC after loading, kills and relaunches, fairness | `OpenedIsSaved`, `RemovalCarriedOut`, `StopTakesEffect` |
| `Transfers_dangling` | as the first, one property | calls with a removed handle are under way |
| `Network_two` | two torrents, 2 stop threads each, fairness | `SwitchesObeyed`, `NoUnaskedCellular`, `OwedIsFlagged`, `WakeRestartsSlept`, `NoticeIsAdopted` |
| `Watch_dir` | both builds, one bad file and two good ones that share a name, two restarts, fairness | `TakenInv`, `TriedOnce`, `GoodFileIsAdded` |
| `Watch_hidden` | readdir build, a name within another's key | a new file is not tried |
| `Daemon_life` | three values, fairness | `WantedIsKept`, `KeptInv`, `ClosingEnds` |
| `Prefs_kept` | words of 4 values, a limit of 16, a negative number typed and one beyond a port sent, 2 changes, 2 launches, fairness | `KeptInv`, `LastChangeWins`, `AskedIsSaved` |
| `Web_list` | two torrents, one magnet link, idle when the page is loaded, window 4, delay 1, 2 events (changes, losses, slow periods), clock to 6 | `RowsInv`, `ViewIsFresh`, `ViewIsShown`, `NameIsAsked` |
| `Remote_options` | every command line of 4 options, 1 torrent at first, 1 failure or change of the id, fairness | `ChangeReachesItsTorrent`, `OnceInv`, `SetBeforeGet`, `Ends` |
| `Cli_life` | every command line of 3 of 10 options, the download directory loaded may be missing, one key set over RPC, 2 signals, fairness | `SavedIsCommandLine`, `ClosedOnReturn`, `SignalInv`, `WaitsEnd` |
| `Inspectors` | five torrents of 1 or 2 files, magnet links or not, at most 1 tracker, 2 posted selectors, fairness | `FileListInv`, `InspectorLetsGo`, `ScreenIsTrue`, `ChecksCatchUp` |

Each module has one type invariant. Those of Network, WatchDir, Daemon and Prefs are proved and no
run repeats them; those of WebList, Remote, Cli and Inspectors are the first conjuncts of `RowsInv`,
`OnceInv`, `SignalInv` and `FileListInv`, which are proved too.

Why the bounds are enough. *Transfers*: a second object for the same hash is what is needed for a
late selector to meet a torrent that was removed and added again, two posted selectors let any two
kinds be in either order, and the list properties are proved for all bounds. *Network*: torrents
do not interact; two are needed so that one is added while the other sleeps. *WatchDir*: the
property of a file depends on the names found with it and on the file that was there before, so
two names, one of them used twice, are enough; two restarts let a name be renamed, met again, and
tried anew. *Daemon*: file, option and request each have a value of
their own. *Prefs*: two changes put a change over RPC between the two halves of the user's and the
other way round; a second launch reads back what was saved; the preferences are opened only after
the launch (`EarlyView` is FALSE; a run with TRUE has one launch in the time there is, and the proofs
cover both); the invariant is proved for all bounds. *WebList*: the clock goes past the window of a change made at the first moment, with an
answer of before it delivered after it, and the torrents at load changed longer ago than the
window; a window of four periods stands for the server's minute, and `Timely` says how long it must
be for the delay and the losses: one loss is within it, two are not (in the code: 60 seconds
against 5-second periods). *Remote*: a violation needs an option that is gathered, one
that changes the current torrent, and one that sends, four leaves one to spare; kinds that do what
another does are left out of the instance and named there. *Cli*: three options are a torrent and
two that set the same key, or a refused one after both; two signals are one that arrives while the
other is acted on. *Inspectors*: files do not interact but in the folders they share and in being
complete together, so two are enough; the five shapes have a shared folder, folders and files of
the same name, and an order of names against that of numbers; two posted selectors let a removal or
the metadata wait behind or before a change.

`CHECK_DEADLOCK FALSE` stands where the system really stops: the watched directory once no more
files come (`Watch_dir`), the application after its last launch (`Prefs_kept`), the clock at its bound
(`Web_list`), the tool when it ends (`Remote_options`).

### Fairness

- *Transfers*: weak fairness of the main thread's run loop (it performs what is posted), of the
  launch thread and of each stop thread. Users, RPC and the network are never forced to act.
- *NetworkSwitcher*: weak fairness of the delivery of a notification that is posted.
- *WatchDir*, *Daemon*: weak fairness of the daemon's loop, which runs once a second.
- *Prefs*: weak fairness of a setter that has begun, of libtransmission's callback after a change
  and of the copying; strong fairness of taking up `rpcUpdatePrefs`: the run loop serves messages
  posted to it between the user's events, so that editing, which keeps the main thread busy again
  and again, does not put one off for ever.
- *Remote*: weak fairness of the tool, whose curl calls have a timeout. The server's session id
  changes finitely often while the tool runs (it changes hourly).
- *Cli*: weak fairness of main, of libtransmission's thread that runs the calls it took, and of the
  answer to a download (its transfers have a time limit). Nobody has to send a signal and a torrent
  need not finish.
- *Inspectors*: weak fairness of the run loop, which performs what is posted, and of the end of a
  request being served. The timer is not fair: it stops while the application is not active.
- *WebList* needs none: its properties are stated with the clock, and for as long as no request was
  slow, so that they are safety properties.

## 4. The theorems

All are proved for any value of the constants under the named assumptions of the modules
(`HashOfAssumption`, `RpcPhasesAssumption`, `BoundsAssumption`, `StartOutcomeAssumption`,
`MaxStopsAssumption`, `FileAssumption`, `BuildAssumption`, `UnsetAssumption`, `WordAssumption`,
`FactoryAssumption`, `RemoteAssumption`, `CliAssumption`, `InspectorsAssumption`),
which the runs evaluate; they give the constants their types. An invariant that is not inductive alone is given with what it needs.

- **TransfersProofs**. `ListIsSession` alone is not inductive: that a torrent RPC added once the
  callback was set is listed at last rests on its `rpcAdd` being posted exactly once, and that a late selector cannot disturb
  the list rests on every other selector belonging to a torrent that was wrapped. `ListInv` has
  these facts (`QueueInv`, `WrappedInv`, `SessionInv`, `RowsInv`), and that the program has no torrents
  until the callback is set (`LaunchInv`) and one thread at a time is about to list one
  (`MakingInv`); with `TypeOK` it is inductive.
  From it follow `ListCorrect`, `EntriesDiffer` (only libtransmission knows duplicates, so hashes in
  the session differ), `RowsComplete`, `GhostRowsOnlyFromLoading` (an action property) and
  `ListRefinement`: every step is a step of SessionList or leaves its variables alone.
  `OpenedIsSaved` needs `SavedInv`: while the history loads, an opened torrent is listed or an unread
  item of the file, and once it is loaded, listed. RPC can break this while the history loads, in two
  ways, and the proof shows that there is no third: `OpenedStaysSaved` assumes of a behaviour that
  nothing saves the list then (`NotSavedWhileLoading`) and that RPC has added nothing by then, before
  the callback was set or after (`NoneAddedWhileLoading`). The code ensures neither; the instance of
  `Transfers_saved`, with RPC after the loading, satisfies both.
- **NetworkProofs**. `NetInv` gives the policy that the handlers as they are written leave for a
  status and two switches, on WiFi that of the cellular switch, and ties `owed` to torrents the
  switcher reaches; from it `SwitchesAreObeyed`, `CellularAsked`, `SleepersFlagged` and the action property
  `SleepersRestart`.
- **DaemonProofs**, the watch directory. `TakenSafe` rests on `DisposalInv`: under the name that a
  call is about to dispose of stands the file it has added, or nothing, or a file put there since
  (`swapped`), which the code does not tell from it. The invariant `TriedInv` of `TriesOnce` says
  that the name under which a tried file stands is listed by the last scan or by this one, and that a
  scan returns no name twice.
- **DaemonProofs**, the settings. `KeptInv` says phase by phase where a claimed value is, in the
  dictionary, the session or the file; `SettingsKept` follows.
- **PrefsProofs**. `KeptInv` with `Fits` (session values are in their words), `OffIsSettled` (a
  process that is not there has nothing under way) and `HeardInv` (until the callback is set, all
  that no request has changed is in the defaults); `LastChangeIsKept` follows. Both theorems except
  what is `unheard`. That a limit survives being copied into an int and back is `SignedFits`.
- **WebListProofs**. The property `NameIsAsked` is not inductive, since an answer of before a torrent
  was added may take the request away without its name: `AskedInv` counts only requests that are
  unanswered or whose answer has the torrent, and `MessageInv` says what answers have. `FreshInv`
  counts polls: as long as a change is not on the page, no more polls came to an end than were lost,
  of those sent when all answers of before the change had arrived (`Gone`); `LateInv` says that any
  of them that arrived would have told of it. Under `Timely` more of them fit into the window than
  were lost (`Overdue`), and what is timely now always was (`TimelyBefore`). `IdleInv` is about the
  torrents that have not changed since the page was loaded: the request for all is under way or
  answered with them, or the page has them, or it was lost.
  `RowsKept` rests on `RefilteredIs`: if the clean rows are those that pass, in order, the
  incremental refilter gives what sorting all that pass would. `SortedIs` shows that there is an
  order to find (each torrent at its `Place`) and `IncreasingIsSorted` that there is only one; the two
  loops, `CleanRowsAre` and `MergeSorts`, are proved by the least number of rows for which they would
  give something else. For `ViewComesShown` a row must not stay dirty: `refilterSoon` is not called
  for a torrent that is new and told of with its name, but `DirtyInv` says that then the page is still
  to hear of a poll, whose answer always calls it.
- **RemoteProofs**. `WaitInv` (an option waits in one request and has reached nothing meanwhile),
  `WorkInv` (what flush still has to send, before which options), `CountInv`, `PlaceInv` (a change
  of the current torrent waits in `tset` and nowhere else), `DoneInv`, and `OriginInv`: the changes
  in `tset` were given with the torrent that is current, or with the addition that made it current. From them `ReachesItsTorrent`, `OnceKept` and `AsksAfterSetting`.
- **CliProofs**. `SavedFromOptions` is about the file written: it rests on `DictionaryInv`: the
  dictionary is what the options read so far say (`OptionStep`: one option more changes the keys it
  stores and no other), and the session has the same except where RPC set a key.
  `SessionClosed`, and `SignalsKept` with `OwedIsHandled`: a signal is owed only after its handler was
  installed.
- **InspectorsProofs**. `FoldersAreBuilt` says that the recursion of `createFileList`, file by file
  and folder by folder, ends with the set of folders of all paths; it is proved by the least number
  of files for which it would not (`LeastNumber`). `SortedListExists` proves that the list can be
  sorted. With them `FileListKept` (`MadeInv`: the list is missing only while the constructor or a
  posted callback is still to come), `LetsGo` and `ScreenKept`.

Only model-checked: all liveness properties (`RemovalCarriedOut`, `StopTakesEffect`,
`NoticeIsAdopted`, `GoodFileIsAdded`, `ClosingEnds`, `AskedIsSaved`, `Ends`, `WaitsEnd`,
`ChecksCatchUp`), which rest on fairness and ENABLED, out of the prover's reach.
Every safety property of a passing run is stated by a theorem; that of `OpenedIsSaved` has the
hypotheses given above. The library's theorems of
induction cannot be used, since they take an operator as a parameter; where a recursive function is
reasoned about, it is with a least counterexample.

## 5. Findings

Two disagreements between the code and what the repository says have a run that shows them
(`Transfers_dangling`, `Watch_hidden`; see PROJECT.json for the quotations). Others were met while modelling; the models contain the behaviour as it is, and a
property that it would break is stated with that exception.

Transfer list and switcher:
- A magnet link of a torrent that exists ends the application by an exception (`aborted`), although
  a comment announces a check.
- `confirmRemoveTorrents:` does not save the history: after a kill the removed torrent is loaded
  again. An RPC start or stop while the history loads saves a list that is not complete.
- The session serves RPC from `tr_sessionInit` (`ITController.m:223`) on; the callback is set only at
  :234, after the preferences' controller was made, which may download a block list. A torrent added
  in between (`unseen`) is in the session and never posted nor listed; the loader refuses the history
  item of its hash, a later removal over RPC is dropped, and the next save of the history forgets it.
  `ListIsSession` and `QueueInv` except these torrents and show that there are no others.
- A removal over RPC of a torrent that is not listed yet finds no entry and is dropped, although
  the program told libtransmission (`TR_RPC_NOREMOVE`) that it removes the torrent itself; so are
  starts, stops and changes of a torrent that is made and not listed yet (`ITController.m:410`).
- `updatePolicyForNetworkStatus:` has no `break` after the WiFi case: on a WiFi network the policy of
  the cellular switch is enforced last and stays, though `ITPrefViewController.xib:820` labels a
  switch of its own "WiFi Network". With WiFi on and cellular off nothing runs on WiFi, with WiFi off
  and cellular on everything does. `PoliciesFor` has it so, and `SwitchesObeyed` says nothing about
  WiFi when the two switches differ. For the same reason disabling a network on WiFi can first wake
  what it then puts to sleep; a stop thread begun before a wake can stop the torrent after it.
  Torrents being loaded start whatever the policy is.

Watch directory and daemon:
- The readdir build never tries again a file that it met half-written, nor tries a file put under a
  name that the last scan returned (`GoodFileIsAdded` excepts both).
- A file put under its name while `onFileAdded` is between reading and disposing is deleted or
  renamed without having been read (`TakenIsInSession` excepts it).
- A SIGHUP before the session is open replaces the dictionary and loses options; a reload does not
  change the watched directory or the pidfile.

Preferences:
- A setting changed over RPC between `tr_sessionInit` (`ITController.m:223`) and
  `tr_sessionSetRPCCallback` (`:234`), between which a block list is downloaded
  (`ITPrefsController.m:42`), is in the session only, until a later change makes `rpcUpdatePrefs` copy
  all settings; after a kill it is lost (`unheard`).
- A negative limit is typed freely and is a very large unsigned one for the session.
- The preferences opened before `sharedController` is set show zeros and switches that are off, and
  stay so; an edit that ends once it is set, with Cancel too, writes the zero that was shown.
- With the limits on, a typed 0 is a limit of 0 for the session; `ITPrefViewController.m:273` says
  "If you type 0 into any of the boxes, iTransmission will download anything".
- `setDownloadLimit` writes the flag from the defaults: a flag changed over RPC is lost by typing
  a limit; `setLimits` takes effect only when a limit is set.
- `BlocklistEnabled` is kept in the session only and `EncryptionMode` is not restored at launch.
- Cancel writes back the text of before the edit over a change that came over RPC meanwhile; the
  screen does not follow RPC changes.
- `altSpeedToggledCallbackIsLimited:` is posted to the controller, which does not implement it, so a
  change of the alternative speed ends the process (the model may end it anywhere); the key of
  the download folder is spelt in two ways; Reset Default asserts on the limit fields; the action
  of the download folder's field is never sent.

Web list:
- All torrents are asked for once, when the page is loaded (`transmission.js:783`): if that request is
  lost, a torrent at which nothing happens is not on the page until it is loaded again (`listLost`).
- ajax has no timeout: an answer may be applied any time after it was made, and a page whose answers
  take longer than the minute of the server may keep what is no longer so (`slow`).
- The name of a new torrent is asked for once: if that request is lost it is never asked again
  (`NameIsAsked` excepts it). `collatedName` is computed from the first name. `ajaxError` stops the
  refresh of the session and nothing restarts it. `changeFileCommand` reads an undefined variable.

Remote control:
- `-a f1 f2` adds one torrent though the usage says "Add torrent files": a second name replaces
  the first (`Silent` excepts it).
- Start, stop and remove are sent at once while changes given before them wait.
- A wrong number, `-V` and a missing `TR_AUTH` end the tool with waiting requests unsent, the last
  two with a status of success.
- With `-t 1 -a f -d 100` the limit goes to the torrent added, since the addition's answer changes
  the current torrent before the limit is sent.
- `--find` without an addition before it ends in a `break` that leaves the loop over the options
  (`remote.c:2191`): those after it are never read, and the tool ends with success (`Silent` and
  `OnceInv` except them).
- A list option given twice for one request (`-g 1 -g 2`, priorities, trackers) keeps the last list
  only: the key is added to the dictionary again (`replaced`).
- A 409 is answered by recursion without a limit.

Command line client:
- `waitingOnWeb` is raised after `tr_webRun`: an answer that comes in between is overwritten and the
  client waits until a signal kills it (`WaitsEnd` is about later answers).
- The status line tests the activities bit by bit although `transmission.h:1855` numbers them 0 to 6:
  a seeding torrent is "Verifying", one that waits in a queue is "Waiting to verify".
- A key set over RPC wins over the command line in the file that is written, and one set between
  `tr_sessionSaveSettings` and `tr_sessionClose` is in no file.
- A first look that finds the torrent stopped, since it is started on another thread, ends the
  client.

Inspectors:
- `fileStat` is fetched once: the progress of files stays as it was when first drawn, until the
  torrent is complete, and a complete file whose `fileStat` is old can be unchecked.
- A tap on a row that is still drawn after an RPC removal reloads one row of a table that has none,
  and UITableView raises (`aborted`).
- Nothing observes `ResetInspector`: the files of a magnet link appear with the next timer.
- The Peers table asks libtransmission again for every row: a peer that leaves in between raises; and
  every row has the address of the first peer (`ITTorrent.m:842`).
