------------------------------ MODULE WatchDir ------------------------------
(***************************************************************************)
(* The watch directory of the daemon (itransmission-dameon/watch.c) with   *)
(* its callback (onFileAdded in daemon.c). Other programs write .torrent   *)
(* files into the directory while the daemon, on one thread, reads it.     *)
(*                                                                         *)
(* A file is an object somebody once puts there under its name. Scans,     *)
(* calls and disposals are separate steps; readdir may or may not return   *)
(* what appears or disappears while it is under way.                       *)
(***************************************************************************)
EXTENDS Naturals, Sequences, FiniteSets

CONSTANTS
  Builds,     \* builds looked at: "inotify" is WITH_INOTIFY, "readdir" without it
  File,       \* files put into the directory, each at most once
  Name,       \* names that end in .torrent
  NameOf,     \* under which name each file is put there
  Hash,       \* info hashes
  HashOf,     \* the info hash of the torrent in each file
  Bad,        \* files that hold no valid torrent
  Longer,     \* pairs <<m, n>> of names where m is n followed by a 9 and more
  MaxRestarts,\* bound: how often the daemon is restarted
  NoFile, NoName

ASSUME FileAssumption ==
  /\ NameOf \in [File -> Name] /\ HashOf \in [File -> Hash]
  /\ Bad \subseteq File
  /\ NoFile \notin File /\ NoName \notin Name
ASSUME BuildAssumption == Builds \subseteq {"inotify", "readdir"} /\ MaxRestarts \in Nat

VARIABLES
  build,      \* the build of this daemon; it never changes
  dir,        \* the file under each name
  fresh,      \* files nobody has put there yet
  whole,      \* files that are written completely
  lastFiles,  \* names the last scan returned (a buffer of keys in the code)
  curFiles,   \* names the scan under way has returned
  scanning,   \* the directory is open
  todo,       \* names readdir has still to return
  due,        \* more than WATCHDIR_POLL_INTERVAL_SECS have passed since the last scan
  events,     \* names of the inotify events not handled yet
  disposing,  \* the name onFileAdded is about to delete or to rename, or NoName
  session,    \* info hashes of the torrents of the session; they survive a restart
  restarts,
  \* History variables; no step reads them.
  copied,     \* files that were there before they were complete
  met,        \* files put under a name that the last scan or this one had returned
  swapped,    \* files put under a name that a call was about to dispose of
  accepted,   \* the file the call under way has added
  tries,      \* how often each file was tried since the daemon started
  atLast,     \* files the last scan came across
  atCur,      \* files the scan under way has come across
  taken       \* files the daemon has deleted or renamed

putVars == <<copied, met, swapped>>
fileVars == <<dir, fresh, whole, putVars>>
scanVars == <<lastFiles, curFiles, scanning, todo, due, events>>
callVars == <<disposing, session>>
seenVars == <<atLast, atCur>>
vars == <<build, fileVars, scanVars, callVars, restarts, accepted, tries, seenVars, taken>>

TypeOK ==
  /\ build \in Builds
  /\ dir \in [Name -> File \cup {NoFile}]
  /\ fresh \subseteq File /\ whole \subseteq File
  /\ copied \subseteq File /\ met \subseteq File /\ swapped \subseteq File
  /\ lastFiles \subseteq Name /\ curFiles \subseteq Name /\ todo \subseteq Name
  /\ scanning \in BOOLEAN /\ due \in BOOLEAN
  /\ events \in Seq(Name)
  /\ disposing \in Name \cup {NoName}
  /\ session \subseteq Hash
  /\ restarts \in 0..MaxRestarts
  /\ accepted \in File \cup {NoFile}
  /\ tries \in [File -> Nat]
  /\ atLast \subseteq File /\ atCur \subseteq File /\ taken \subseteq File

Inotify == build = "inotify"

Present == {n \in Name : dir[n] # NoFile}

\* watchdir_new_impl with inotify reads the directory once, at the start.
Init ==
  /\ build \in Builds
  /\ dir = [n \in Name |-> NoFile] /\ fresh = File /\ whole = {}
  /\ copied = {} /\ met = {} /\ swapped = {}
  /\ lastFiles = {} /\ curFiles = {}
  /\ scanning = Inotify /\ todo = {}
  /\ due = TRUE /\ events = <<>>
  /\ disposing = NoName /\ session = {}
  /\ restarts = 0
  /\ accepted = NoFile /\ tries = [f \in File |-> 0]
  /\ atLast = {} /\ atCur = {} /\ taken = {}

-----------------------------------------------------------------------------
(* Other programs *)

\* An event is queued when a file is closed after writing or moved into the directory.
Notify(n) == events' = IF Inotify THEN Append(events, n) ELSE events

\* A file appears, completely if it is moved here. readdir may still return it, unless
\* it returned the name already.
drop(f) ==
  LET n == NameOf[f] IN
  /\ f \in fresh /\ dir[n] = NoFile
  /\ fresh' = fresh \ {f}
  /\ dir' = [dir EXCEPT ![n] = f]
  /\ \/ whole' = whole \cup {f} /\ Notify(n) /\ UNCHANGED copied
     \/ copied' = copied \cup {f} /\ UNCHANGED <<whole, events>>
  /\ todo' \in IF scanning /\ n \notin curFiles THEN {todo, todo \cup {n}} ELSE {todo}
  /\ met' = IF n \in lastFiles \cup curFiles THEN met \cup {f} ELSE met
  /\ swapped' = IF n = disposing THEN swapped \cup {f} ELSE swapped
  /\ UNCHANGED <<lastFiles, curFiles, scanning, due, callVars, restarts, accepted, tries,
                 seenVars, taken>>

\* The writer of the file closes it.
complete(f) ==
  /\ dir[NameOf[f]] = f /\ f \notin whole
  /\ whole' = whole \cup {f}
  /\ Notify(NameOf[f])
  /\ UNCHANGED <<dir, fresh, putVars, lastFiles, curFiles, scanning, todo, due, callVars,
                 restarts, accepted, tries, seenVars, taken>>

\* Somebody removes a file; readdir may or may not return it still.
withdraw(n) ==
  /\ dir[n] # NoFile
  /\ dir' = [dir EXCEPT ![n] = NoFile]
  /\ todo' \in {todo, todo \ {n}}
  /\ UNCHANGED <<fresh, whole, putVars, lastFiles, curFiles, scanning, due, events, callVars,
                 restarts, accepted, tries, seenVars, taken>>

-----------------------------------------------------------------------------
(* onFileAdded *)

Idle == disposing = NoName

\* Mutant: a parse error is taken for success.
onFileAddedMut(n) ==
  IF dir[n] \in whole
  THEN /\ disposing' = n /\ accepted' = dir[n]
       /\ session' = IF dir[n] \in Bad THEN session ELSE session \cup {HashOf[dir[n]]}
  ELSE UNCHANGED <<disposing, accepted, session>>

\* The metainfo is read and the torrent added; a torrent that is in the session already
\* is no error. A file that cannot be read or parsed is left where it is.
onFileAdded(n) ==
  IF dir[n] \in whole \ Bad
  THEN /\ disposing' = n /\ accepted' = dir[n]
       /\ session' = session \cup {HashOf[dir[n]]}
  ELSE UNCHANGED <<disposing, accepted, session>>

Tried(n) == tries' = IF dir[n] = NoFile THEN tries ELSE [tries EXCEPT ![dir[n]] = @ + 1]

\* The call then deletes what is under the name, or renames it to *.added; either may
\* fail, and nothing tells whether it is still the file that was read.
disposeOfSource ==
  /\ ~Idle
  /\ disposing' = NoName /\ accepted' = NoFile
  /\ \/ UNCHANGED <<dir, taken>>
     \/ /\ dir[disposing] # NoFile
        /\ dir' = [dir EXCEPT ![disposing] = NoFile]
        /\ taken' = taken \cup {dir[disposing]}
  /\ UNCHANGED <<fresh, whole, putVars, scanVars, session, restarts, tries, seenVars>>

-----------------------------------------------------------------------------
(* The readdir implementation *)

clockTick ==
  /\ ~due /\ due' = TRUE
  /\ UNCHANGED <<fileVars, lastFiles, curFiles, scanning, todo, events, callVars, restarts,
                 accepted, tries, seenVars, taken>>

\* The key of a name is the name between a tab and a "9" (the delimiter is printed as a
\* number), searched in the concatenation of the keys: a longer name hides a shorter one.
is_file_in_list(list, n) == n \in list \/ \E m \in list : <<m, n>> \in Longer

openDirectory ==
  /\ ~Inotify /\ due /\ ~scanning /\ Idle
  /\ scanning' = TRUE
  /\ todo' = Present /\ curFiles' = {} /\ atCur' = {}
  /\ UNCHANGED <<fileVars, lastFiles, due, events, callVars, restarts, accepted, tries, atLast,
                 taken>>

\* One round of the loop in watchdir_update_impl.
scanEntry(n) ==
  /\ ~Inotify /\ scanning /\ Idle
  /\ n \in todo
  /\ todo' = todo \ {n}
  /\ curFiles' = curFiles \cup {n}
  /\ atCur' = atCur \cup ({dir[n]} \ {NoFile})
  /\ IF is_file_in_list(lastFiles, n)
     THEN UNCHANGED <<callVars, accepted, tries>>
     ELSE onFileAdded(n) /\ Tried(n)
  /\ UNCHANGED <<fileVars, lastFiles, scanning, due, events, restarts, atLast, taken>>

\* Mutant: the list of this scan is not kept.
closeDirectoryMut ==
  /\ ~Inotify /\ scanning /\ Idle /\ todo = {}
  /\ scanning' = FALSE /\ due' = FALSE
  /\ lastFiles' = {} /\ atLast' = atCur
  /\ curFiles' = {} /\ atCur' = {}
  /\ UNCHANGED <<fileVars, todo, events, callVars, restarts, accepted, tries, taken>>

\* Mutant: the list kept is that of the directory as it is now.
closeDirectoryMutList ==
  /\ ~Inotify /\ scanning /\ Idle /\ todo = {}
  /\ scanning' = FALSE /\ due' = FALSE
  /\ lastFiles' = Present /\ atLast' = atCur
  /\ curFiles' = {} /\ atCur' = {}
  /\ UNCHANGED <<fileVars, todo, events, callVars, restarts, accepted, tries, taken>>

closeDirectory ==
  /\ ~Inotify /\ scanning /\ Idle /\ todo = {}
  /\ scanning' = FALSE /\ due' = FALSE
  /\ lastFiles' = curFiles /\ atLast' = atCur
  /\ curFiles' = {} /\ atCur' = {}
  /\ UNCHANGED <<fileVars, todo, events, callVars, restarts, accepted, tries, taken>>

-----------------------------------------------------------------------------
(* The inotify implementation *)

\* watchdir_new_impl: the loop over the directory, which is watched already.
startupEntry(n) ==
  /\ Inotify /\ scanning /\ Idle
  /\ n \in todo
  /\ todo' = todo \ {n}
  /\ curFiles' = curFiles \cup {n}
  /\ onFileAdded(n) /\ Tried(n)
  /\ UNCHANGED <<fileVars, lastFiles, scanning, due, events, restarts, seenVars, taken>>

startupDone ==
  /\ Inotify /\ scanning /\ Idle /\ todo = {}
  /\ scanning' = FALSE /\ curFiles' = {}
  /\ UNCHANGED <<fileVars, lastFiles, todo, due, events, callVars, restarts, accepted, tries,
                 seenVars, taken>>

\* watchdir_update_impl: one event of the batch that was read.
handleEvent ==
  /\ Inotify /\ ~scanning /\ Idle /\ events # <<>>
  /\ events' = Tail(events)
  /\ onFileAdded(Head(events)) /\ Tried(Head(events))
  /\ UNCHANGED <<fileVars, lastFiles, curFiles, scanning, todo, due, restarts, seenVars, taken>>

-----------------------------------------------------------------------------
(* The specification *)

\* The daemon ends, orderly or not, and is started again: dtr_watchdir_new.
restart ==
  /\ restarts < MaxRestarts
  /\ restarts' = restarts + 1
  /\ lastFiles' = {} /\ curFiles' = {}
  /\ scanning' = Inotify
  /\ todo' = IF Inotify THEN Present ELSE {}
  /\ due' = TRUE /\ events' = <<>>
  /\ disposing' = NoName /\ accepted' = NoFile
  /\ tries' = [f \in File |-> 0]
  /\ atLast' = {} /\ atCur' = {}
  /\ UNCHANGED <<fileVars, session, taken>>

Daemon ==
  \/ clockTick
  \/ openDirectory
  \/ \E n \in Name : scanEntry(n) \/ startupEntry(n)
  \/ closeDirectory
  \/ startupDone
  \/ handleEvent
  \/ disposeOfSource

Step ==
  \/ \E f \in File : drop(f) \/ complete(f)
  \/ \E n \in Name : withdraw(n)
  \/ Daemon
  \/ restart

Next == Step /\ UNCHANGED build

Spec == Init /\ [][Next]_vars

\* The daemon's loop runs once a second.
FairSpec == Spec /\ WF_vars(Daemon /\ UNCHANGED build)

-----------------------------------------------------------------------------
(* Properties *)

\* What the daemon deletes or renames is in the session, whatever is withdrawn or broken off
\* in between: no torrent is lost by being taken. The one exception is a file that was put
\* under the name after the call had read the file that was there.
TakenIsInSession == \A f \in taken \ swapped : HashOf[f] \in session

\* The inductive invariant of TakenIsInSession: what stands under the name a call is about
\* to dispose of is the file the call has added, one put there since, or nothing.
DisposalInv ==
  disposing # NoName =>
    /\ HashOf[accepted] \in session
    /\ dir[disposing] \in {accepted, NoFile} \cup swapped

TakenInv == TakenIsInSession /\ DisposalInv

\* The readdir build tries a file it could not add once and then leaves it alone until the
\* daemon is restarted, however many scans find it.
TriedOnce == ~Inotify => \A f \in File : tries[f] <= 1

\* "Where to watch for new .torrent files" (the -c option): a complete file with a valid torrent
\* that stays in the directory is added, though others come and go and scans are under way.
\* For the readdir build this holds of files moved there under a name that no scan has just
\* met; one it met before it was complete, or under the name of an earlier one, is not tried.
GoodFileIsAdded ==
  \A f \in File \ Bad :
    (dir[NameOf[f]] = f /\ f \in whole /\ (Inotify \/ f \notin copied \cup met))
      ~> (HashOf[f] \in session \/ dir[NameOf[f]] # f)

-----------------------------------------------------------------------------
(* What comments say and the code does not keep *)

\* "if this file wasn't here last time, try adding it": a file that the last scan did not
\* come across is tried by the scan that does.
NewFileIsTried ==
  [][\A n \in todo : dir[n] # NoFile /\ dir[n] \in atCur' \ (atCur \cup atLast)
       => tries'[dir[n]] > tries[dir[n]]]_vars
=============================================================================
