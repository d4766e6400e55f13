----------------------------- MODULE Inspectors -----------------------------
(* The screens that show one torrent: the file list an ITTorrent builds from  *)
(* the paths of its files (ITFileListNode), and the Files and Trackers tables *)
(* of the inspector, which keep on the screen what they read at their last    *)
(* reload.  Three threads change what they show: the main thread (taps, the   *)
(* timer, posted selectors), libtransmission's (downloads, metadata of a      *)
(* magnet link, RPC requests), and the launch thread, which may be the one    *)
(* that constructs the object.                                                *)
EXTENDS Integers, Sequences, FiniteSets

CONSTANTS
    Layouts,     \* the torrents tried: [multi |-> isMultifile, paths |-> names]
    MaxTrackers, \* trackers a torrent has at most (a bound of the model)
    MaxPosted    \* selectors waiting for the main thread (a bound of the model)

ASSUME InspectorsAssumption ==
    /\ \A l \in Layouts :
          /\ l.multi \in BOOLEAN
          /\ l.paths \in Seq(Seq(Nat) \ {<<>>}) \ {<<>>}
          /\ ~l.multi => Len(l.paths) = 1
    /\ MaxTrackers \in Nat /\ MaxPosted \in Nat

VARIABLES
    \* libtransmission's side of the torrent
    layout,        \* its files; a path is a sequence of names, the torrent's left out
    hasMetadata,   \* FALSE for a magnet link whose metadata has not arrived
    wanted,        \* file -> not info->files[i].dnd
    full,          \* file -> all of it is there
    trackerCount,
    removed,       \* tr_torrentRemove was called
    \* the ITTorrent
    made,          \* progress of its constructor: "new", "callbacks", "ready"
    flatFileList,  \* file numbers, row by row
    folders,       \* the folder nodes of fileList: [path, indexes]
    fileStat,      \* what updateFileStat read, or NoStat
    complete,      \* isComplete, in the snapshot self.stat
    \* the inspector
    torrent,       \* self.torrent is not nil
    loaded,        \* the tables that were on the screen
    shown,         \* the Files table: check mark by row
    trackerRows,   \* the Trackers table: rows counted
    \* between the threads
    runloop,       \* selectors posted to the main thread
    serving,       \* an RPC torrent-set has changed something, not yet notified
    aborted        \* the app has died: a table raised, freed memory was read

libVars == <<layout, hasMetadata, wanted, full, trackerCount, removed>>
objVars == <<made, flatFileList, folders, fileStat, complete>>
viewVars == <<torrent, loaded, shown, trackerRows>>
vars == <<libVars, objVars, viewVars, runloop, serving, aborted>>

Tables == {"files", "trackers"}
NoStat == <<>>

Files == DOMAIN layout.paths
fileCount == Len(layout.paths)
Selectors == {"metadataRetrieved", "rpcChangedTorrent", "rpcRemoveTorrent"}

-----------------------------------------------------------------------------
(* The file list. *)

Name(p) == p[Len(p)]

\* The folders above a file: every proper prefix of its path but the empty one,
\* which is the torrent itself.
Above(p) == {SubSeq(p, 1, k) : k \in 1 .. Len(p) - 1}

\* The body of createFileList's loop with insertPath: from the top down, a folder
\* is looked for among the children of its parent, made if there is none, and
\* given the number of the file.
insertPath(tree, p, i) ==
    LET known(q) == {n \in tree : n.path = q}
    IN  {IF \E q \in Above(p) : n \in known(q)
           THEN [n EXCEPT !.indexes = @ \cup {i}] ELSE n : n \in tree}
        \cup {[path |-> q, indexes |-> {i}] : q \in {q \in Above(p) : known(q) = {}}}

FolderNodes ==
    LET after[i \in 0 .. fileCount] ==
            IF i = 0 THEN {} ELSE insertPath(after[i - 1], layout.paths[i], i)
    IN  IF layout.multi THEN after[fileCount] ELSE {}

\* sortFileList of the flat list: by name, files of one name in any fixed order.
FlatFileList ==
    CHOOSE s \in [1 .. fileCount -> Files] :
        /\ \A a, b \in DOMAIN s : a # b => s[a] # s[b]
        /\ \A a \in 1 .. fileCount - 1 :
              Name(layout.paths[s[a]]) <= Name(layout.paths[s[a + 1]])

createFileList ==
    /\ flatFileList' = FlatFileList
    /\ folders' = FolderNodes

-----------------------------------------------------------------------------
(* What the tables read. *)

\* canChangeDownloadCheckForFile:
canChangeCheck(f, done, stat) == fileCount > 1 /\ ~done /\ ~stat[f]

\* checkForFiles: for the one file of a row.
checkForFile(f, done, stat) == wanted[f] \/ ~canChangeCheck(f, done, stat)

\* updateFileStat, at most once in the life of the object: the first time a row
\* of several files is drawn while the torrent is not complete.
StatAfterDrawing(list, done) ==
    IF fileStat = NoStat /\ list # <<>> /\ fileCount > 1 /\ ~done THEN full ELSE fileStat

\* The bug: the table is reloaded only when its number of rows has changed.
reloadFilesIfLonger(done) ==
    IF torrent /\ "files" \in loaded /\ Len(flatFileList) # Len(shown)
    THEN /\ fileStat' = StatAfterDrawing(flatFileList, done)
         /\ shown' = [r \in DOMAIN flatFileList |->
                         checkForFile(flatFileList[r], done, fileStat')]
    ELSE UNCHANGED <<fileStat, shown>>

\* reloadSections: of the Files table, with the snapshot done.
reloadFiles(done) ==
    IF torrent /\ "files" \in loaded
    THEN /\ fileStat' = StatAfterDrawing(flatFileList, done)
         /\ shown' = [r \in DOMAIN flatFileList |->
                         checkForFile(flatFileList[r], done, fileStat')]
    ELSE UNCHANGED <<fileStat, shown>>

\* -[ITTorrent update]: the snapshot, and the notification the Files table hears.
update ==
    /\ complete' = \A f \in Files : full[f]
    /\ reloadFiles(complete')

-----------------------------------------------------------------------------
Init ==
    /\ layout \in Layouts /\ hasMetadata \in BOOLEAN
    /\ wanted = [f \in Files |-> TRUE] /\ full = [f \in Files |-> FALSE]
    /\ trackerCount \in 0 .. MaxTrackers
    /\ removed = FALSE
    /\ made = "new" /\ flatFileList = <<>> /\ folders = {}
    /\ fileStat = NoStat /\ complete = FALSE
    /\ torrent = FALSE /\ loaded = {} /\ shown = <<>> /\ trackerRows = 0
    /\ runloop = <<>> /\ serving = FALSE /\ aborted = FALSE

Post(sel) == runloop' = Append(runloop, sel)
Room == Len(runloop) < MaxPosted

(* The constructor: callbacks first, then the look at the metadata. *)

setCallbacks ==
    /\ made = "new" /\ made' = "callbacks"
    /\ UNCHANGED <<libVars, flatFileList, folders, fileStat, complete, viewVars,
                   runloop, serving, aborted>>

\* The bug: the list is left to the callback, which tells nothing of metadata that
\* came before it was set.
finishInitLate ==
    /\ made = "callbacks" /\ made' = "ready"
    /\ update
    /\ UNCHANGED <<libVars, flatFileList, folders, torrent, loaded, trackerRows,
                   runloop, serving, aborted>>

finishInit ==
    /\ made = "callbacks" /\ made' = "ready"
    /\ IF hasMetadata THEN createFileList ELSE UNCHANGED <<flatFileList, folders>>
    /\ update
    /\ UNCHANGED <<libVars, torrent, loaded, trackerRows, runloop, serving, aborted>>

-----------------------------------------------------------------------------
(* libtransmission's thread (external). *)

\* The metadata of a magnet link is there; metadataCallback posts to the object.
metadataCallback ==
    /\ ~hasMetadata /\ ~removed /\ ~serving /\ Room
    /\ hasMetadata' = TRUE
    /\ IF made = "new" THEN UNCHANGED runloop ELSE Post("metadataRetrieved")
    /\ UNCHANGED <<layout, wanted, full, trackerCount, removed, objVars, viewVars,
                   serving, aborted>>

\* A wanted file is finished; a verification finds a file damaged.
FileChanges(f) ==
    /\ hasMetadata /\ ~removed
    /\ full[f] \/ wanted[f]
    /\ full' = [full EXCEPT ![f] = ~@]
    /\ UNCHANGED <<layout, hasMetadata, wanted, trackerCount, removed, objVars, viewVars,
                   runloop, serving, aborted>>

\* torrent-set of files-wanted or files-unwanted.
rpcSetWanted(f) ==
    /\ hasMetadata /\ ~removed /\ ~serving
    /\ wanted' = [wanted EXCEPT ![f] = ~@]
    /\ serving' = TRUE
    /\ UNCHANGED <<layout, hasMetadata, full, trackerCount, removed, objVars, viewVars,
                   runloop, aborted>>

\* torrent-set of trackerAdd or trackerRemove.
rpcSetTrackers ==
    /\ ~removed /\ ~serving
    /\ trackerCount' \in 0 .. MaxTrackers
    /\ serving' = TRUE
    /\ UNCHANGED <<layout, hasMetadata, wanted, full, removed, objVars, viewVars,
                   runloop, aborted>>

\* The end of torrent-set: TR_RPC_TORRENT_CHANGED.  A torrent that the list no
\* longer has, or does not have yet, is not posted about.
rpcChanged ==
    /\ serving /\ Room
    /\ serving' = FALSE
    /\ IF removed \/ made # "ready" THEN UNCHANGED runloop ELSE Post("rpcChangedTorrent")
    /\ UNCHANGED <<libVars, objVars, viewVars, aborted>>

rpcRemoving ==
    /\ ~removed /\ made = "ready" /\ ~serving /\ Room
    /\ Post("rpcRemoveTorrent")
    /\ UNCHANGED <<libVars, objVars, viewVars, serving, aborted>>

-----------------------------------------------------------------------------
(* The main thread. *)

Performs(sel) ==
    /\ ~aborted /\ runloop # <<>> /\ Head(runloop) = sel
    /\ runloop' = Tail(runloop)

\* A new snapshot and a new list; no table hears of it (nothing observes
\* ResetInspector).
metadataRetrieved ==
    /\ Performs("metadataRetrieved") /\ ~removed
    /\ complete' = \A f \in Files : full[f]
    /\ createFileList
    /\ UNCHANGED <<libVars, made, fileStat, viewVars, serving, aborted>>

\* A selector is performed for a torrent that is gone: what its handle reads is
\* not defined.  No inspector shows it any more.
performedTooLate ==
    /\ removed /\ \E sel \in Selectors \ {"rpcRemoveTorrent"} : Performs(sel)
    /\ aborted' \in BOOLEAN
    /\ UNCHANGED <<libVars, objVars, viewVars, serving>>

\* The bug: as for a move, only the snapshot is taken.
rpcChangedNotAnnounced ==
    /\ Performs("rpcChangedTorrent") /\ ~removed
    /\ update
    /\ UNCHANGED <<libVars, made, flatFileList, folders, torrent, loaded, trackerRows,
                   serving, aborted>>

\* rpcChangedTorrent: the update reloads the Files table; the changed
\* notification then reloads every table, Files a second time alike.
rpcChangedTorrent ==
    /\ Performs("rpcChangedTorrent") /\ ~removed
    /\ update
    /\ trackerRows' = IF torrent /\ "trackers" \in loaded THEN trackerCount ELSE trackerRows
    /\ UNCHANGED <<libVars, made, flatFileList, folders, torrent, loaded, serving, aborted>>

\* The bug: only kITTorrentRemovedNotification is observed, which nobody posts.
rpcRemoveUnheard ==
    /\ Performs("rpcRemoveTorrent")
    /\ removed' = TRUE
    /\ UNCHANGED <<layout, hasMetadata, wanted, full, trackerCount, objVars, viewVars,
                   serving, aborted>>

\* confirmRemoveTorrents: tr_torrentRemove, then the notification on which an
\* inspector lets go of the torrent; it does not reload its tables.
rpcRemoveTorrent ==
    /\ Performs("rpcRemoveTorrent")
    /\ removed' = TRUE
    /\ torrent' = FALSE
    /\ UNCHANGED <<layout, hasMetadata, wanted, full, trackerCount, objVars,
                   loaded, shown, trackerRows, serving, aborted>>

\* The timer: updateStatistics updates every listed torrent, this one among them.
timerFired ==
    /\ ~aborted /\ made = "ready" /\ ~removed
    /\ update
    /\ UNCHANGED <<libVars, made, flatFileList, folders, torrent, loaded, trackerRows,
                   runloop, serving, aborted>>

\* A row of the transfers table is selected.
openInspector ==
    /\ ~aborted /\ made = "ready" /\ ~removed /\ ~torrent
    /\ torrent' = TRUE
    /\ loaded' = {} /\ shown' = <<>> /\ trackerRows' = 0
    /\ UNCHANGED <<libVars, objVars, runloop, serving, aborted>>

\* Back to the transfers: the inspector is deallocated.
closeInspector ==
    /\ ~aborted
    /\ torrent \/ loaded # {}
    /\ torrent' = FALSE
    /\ loaded' = {} /\ shown' = <<>> /\ trackerRows' = 0
    /\ UNCHANGED <<libVars, objVars, runloop, serving, aborted>>

\* The Files or the Trackers table comes on the screen for the first time.
showFiles ==
    /\ ~aborted /\ torrent /\ "files" \notin loaded
    /\ loaded' = loaded \cup {"files"}
    /\ fileStat' = StatAfterDrawing(flatFileList, complete)
    /\ shown' = [r \in DOMAIN flatFileList |->
                    checkForFile(flatFileList[r], complete, fileStat')]
    /\ UNCHANGED <<libVars, made, flatFileList, folders, complete, torrent, trackerRows,
                   runloop, serving, aborted>>

showTrackers ==
    /\ ~aborted /\ torrent /\ "trackers" \notin loaded
    /\ loaded' = loaded \cup {"trackers"}
    /\ trackerRows' = trackerCount
    /\ UNCHANGED <<libVars, objVars, torrent, shown, runloop, serving, aborted>>

\* setFileCheckState:forIndexes: with the update it ends in.
setFileCheckState(f, on) ==
    /\ wanted' = [wanted EXCEPT ![f] = on]
    /\ complete' = \A g \in Files : full[g]
    /\ fileStat' = StatAfterDrawing(flatFileList, complete')
    /\ shown' = [r \in DOMAIN flatFileList |->
                    IF flatFileList[r] = f
                      THEN on \/ ~canChangeCheck(f, complete', fileStat')
                      ELSE checkForFile(flatFileList[r], complete', fileStat')]

\* checkmarkControlTapped: the mark on the screen decides.  The row is then
\* reloaded, for which the table must have as many rows as before: when the
\* torrent is gone it has none, and the table raises.
checkmarkControlTapped(r) ==
    /\ ~aborted /\ r \in DOMAIN shown
    /\ IF torrent
         THEN /\ setFileCheckState(flatFileList[r], ~shown[r])
              /\ UNCHANGED aborted
         ELSE /\ aborted' = TRUE
              /\ UNCHANGED <<wanted, complete, fileStat, shown>>
    /\ UNCHANGED <<layout, hasMetadata, full, trackerCount, removed, made, flatFileList,
                   folders, torrent, loaded, trackerRows, runloop, serving>>

-----------------------------------------------------------------------------
Selected == metadataRetrieved \/ rpcChangedTorrent \/ rpcRemoveTorrent \/ performedTooLate

Library ==
    \/ metadataCallback \/ (\E f \in Files : FileChanges(f))
    \/ (\E f \in Files : rpcSetWanted(f)) \/ rpcSetTrackers \/ rpcChanged \/ rpcRemoving

User ==
    \/ openInspector \/ closeInspector \/ showFiles \/ showTrackers
    \/ \E r \in 1 .. fileCount : checkmarkControlTapped(r)

Terminating ==
    /\ aborted \/ (removed /\ loaded = {} /\ runloop = <<>> /\ ~serving)
    /\ UNCHANGED vars

Next ==
    \/ setCallbacks \/ finishInit
    \/ Library /\ ~aborted
    \/ Selected \/ timerFired \/ User \/ Terminating

Spec == Init /\ [][Next]_vars

\* The run loop performs what is posted, and libtransmission ends the requests it
\* serves.  The timer is not needed: it runs only while the app is active.
Fairness == WF_vars(Selected) /\ WF_vars(rpcChanged /\ ~aborted)

FairSpec == Spec /\ Fairness

-----------------------------------------------------------------------------
TypeOK ==
    /\ layout \in Layouts /\ hasMetadata \in BOOLEAN
    /\ wanted \in [Files -> BOOLEAN] /\ full \in [Files -> BOOLEAN]
    /\ trackerCount \in 0 .. MaxTrackers /\ removed \in BOOLEAN
    /\ made \in {"new", "callbacks", "ready"}
    /\ flatFileList \in Seq(Files)
    /\ \A n \in folders : n.path \in Seq(Nat) /\ n.indexes \subseteq Files
    /\ (fileStat = NoStat \/ fileStat \in [Files -> BOOLEAN]) /\ complete \in BOOLEAN
    /\ torrent \in BOOLEAN
    /\ loaded \subseteq Tables
    /\ shown \in Seq(BOOLEAN) /\ ("files" \notin loaded => shown = <<>>)
    /\ trackerRows \in 0 .. MaxTrackers
    /\ runloop \in Seq(Selectors) /\ Len(runloop) <= MaxPosted
    /\ serving \in BOOLEAN /\ aborted \in BOOLEAN

Pending(sel) == \E i \in DOMAIN runloop : runloop[i] = sel

\* However the metadata of a magnet link falls together with the construction of
\* its object, the object gets a file list: by its constructor, by the callback,
\* or by both.
ListIsMade ==
    made = "ready" /\ hasMetadata /\ ~removed /\ ~Pending("metadataRetrieved") =>
        flatFileList # <<>>

\* The list is the torrent: every file has one row, and the folders made on the
\* way, one path component at a time and file by file, are the folders of the
\* paths, each once and with the files below it.
ListIsTorrent ==
    flatFileList # <<>> =>
        /\ Len(flatFileList) = fileCount
        /\ \A f \in Files : \E r \in DOMAIN flatFileList : flatFileList[r] = f
        /\ layout.multi =>
              folders = {[path |-> q, indexes |-> {f \in Files : q \in Above(layout.paths[f])}] :
                            q \in UNION {Above(layout.paths[f]) : f \in Files}}

\* The file list of a torrent is made, whichever thread has the metadata first,
\* and it is that of the torrent, with the variables of their types.
FileListInv == TypeOK /\ ListIsMade /\ ListIsTorrent

\* No inspector keeps a torrent that was given to tr_torrentRemove: its tables
\* would call libtransmission with the freed handle at the next scroll.
InspectorLetsGo == torrent => ~removed

\* The marks of all rows follow from the files wanted now, fileStat and one
\* snapshot; a torrent complete in that snapshot has them all.
MarksFollow ==
    \E done \in {TRUE} \cup {FALSE : x \in {fileStat} \ {NoStat}} :
        \A r \in DOMAIN shown : shown[r] = checkForFile(flatFileList[r], done, fileStat)

\* What is on the screen is the torrent's, except while a change made over RPC is on
\* its way to the main thread.  The check marks are those of the files, so that a
\* tap, which acts by the mark, does what the user sees; and the Trackers table has
\* as many rows as there are trackers, so that no row is drawn whose tracker is gone.
ScreenIsTrue ==
    torrent /\ ~serving /\ ~Pending("rpcChangedTorrent") =>
        /\ MarksFollow
        /\ "trackers" \in loaded => trackerRows = trackerCount

\* Changes made over RPC reach the Files table: again and again its marks are
\* those of the torrent, however many requests come, since a selector performed
\* late reads what is true then.
ChecksCatchUp == []<>(torrent => MarksFollow)
=============================================================================
