-------------------------------- MODULE Cli --------------------------------
(* The command line client, src/itransmission-cli/cli.c: it reads its options, *)
(* opens a session, gets one torrent (a file, a magnet link, or a URL fetched  *)
(* by libtransmission's web thread), starts it and looks at it five times a    *)
(* second until it is stopped.  Three actors: main, libtransmission's threads, *)
(* and the signals, whose handler runs between any two steps of main.          *)
EXTENDS Integers, Sequences, FiniteSets

CONSTANTS
    Options,      \* the options and arguments users give
    MaxOptions,   \* how many of them on one command line (a bound of the model)
    MaxSignals,   \* signals sent once the handlers are installed (a bound)
    RpcKeys       \* the keys that RPC clients set while the session is open

VARIABLES
    pc,            \* where main is
    given,         \* the options read so far (history)
    loaded,        \* what tr_sessionLoadSettings found (history)
    settings,      \* the dictionary "settings", key by key
    verify, showVersion, torrentPath,
    session,       \* "none", "open" or "closed"
    inForce,       \* the session's own settings, NoSettings before it opens
    overRpc,       \* the keys set over RPC before the settings were saved (history)
    saved,         \* the settings file main has written, NoSettings before
    status,        \* what main returned
    metainfo,      \* what the ctor holds
    web,           \* the download: "idle", "asked" or "answered"
    waitingOnWeb,
    queue,         \* calls made to the torrent, not yet run by libtransmission
    activity,      \* the activity of the torrent, an enumeration 0..6
    gotsig, manualUpdate,
    sent,          \* signals sent so far (bounded)
    stopOwed, updateOwed   \* a SIGINT, a SIGHUP not yet acted on (history)

optionVars  == <<given, loaded, settings, verify, showVersion, torrentPath>>
libraryVars == <<inForce, overRpc>>
sessionVars == <<session, saved, status, libraryVars>>
webVars     == <<metainfo, web, waitingOnWeb>>
torrentVars == <<queue, activity>>
signalVars  == <<gotsig, manualUpdate, sent, stopOwed, updateOwed>>
vars == <<pc, optionVars, sessionVars, webVars, torrentVars, signalVars>>

-----------------------------------------------------------------------------
(* Options. *)

\* What an option stores.  The numbers and names that follow -d, -p, -f ... are
\* all one value, "given": only who wins matters.
Stores ==
    [blocklist    |-> [blocklist |-> "on"],
     noBlocklist  |-> [blocklist |-> "off"],
     downlimit    |-> [speed |-> "given", speedLimited |-> "on"],
     noDownlimit  |-> [speedLimited |-> "off"],
     finish       |-> [script |-> "given", scriptEnabled |-> "on"],
     encRequired  |-> [encryption |-> "required"],
     encPreferred |-> [encryption |-> "preferred"],
     encTolerated |-> [encryption |-> "tolerated"],
     downloadDir  |-> [downloadDir |-> "given"],
     missingDir   |-> [downloadDir |-> "missing"]]

Keys == UNION {DOMAIN Stores[o] : o \in DOMAIN Stores}

Paths == {"file", "magnet", "http", "other"}

\* -g is read by getConfigDir; "unknown" is an option tr_getopt refuses.
AllOptions == DOMAIN Stores \cup Paths \cup {"verify", "version", "configDir", "unknown"}

ASSUME CliAssumption ==
    /\ Options \subseteq AllOptions /\ MaxOptions \in Nat /\ MaxSignals \in Nat
    /\ RpcKeys \subseteq Keys

\* The directories that exist, each by its real path (tr_realpath).
RealPath == [given |-> "realGiven", default |-> "realDefault"]

NoSettings == [k \in {} |-> "default"]

\* The bug: the first option that sets a key keeps it.
MergeFirst(d, s) ==
    [k \in DOMAIN d |-> IF k \in DOMAIN s /\ d[k] = "default" THEN s[k] ELSE d[k]]

\* d with the keys of s set as s says.
Merge(d, s) == [k \in DOMAIN d |-> IF k \in DOMAIN s THEN s[k] ELSE d[k]]

\* The running enumeration tr_torrent_activity.
STOPPED == 0
CHECK_WAIT == 1
CHECK == 2
DOWNLOAD_WAIT == 3
DOWNLOAD == 4
SEED_WAIT == 5
SEED == 6
Activities == STOPPED .. SEED

-----------------------------------------------------------------------------
Init ==
    /\ pc = "parse"
    /\ given = <<>>
    /\ \E dir \in {"default", "missing"} :
           loaded = [k \in Keys |-> IF k = "downloadDir" THEN dir ELSE "default"]
    /\ settings = loaded
    /\ verify = FALSE /\ showVersion = FALSE /\ torrentPath = "none"
    /\ session = "none" /\ saved = NoSettings /\ status = "none"
    /\ inForce = NoSettings /\ overRpc = {}
    /\ metainfo = "none" /\ web = "idle" /\ waitingOnWeb = FALSE
    /\ queue = <<>> /\ activity = STOPPED
    /\ gotsig = FALSE /\ manualUpdate = FALSE
    /\ sent = 0 /\ stopOwed = FALSE /\ updateOwed = FALSE

Return(s) == pc' = "returned" /\ status' = s

(* main, up to the session *)

\* One round of the loop of parseCommandLine; a refused option ends main.
ParseOption ==
    \E o \in Options :
        /\ pc = "parse" /\ Len(given) < MaxOptions
        /\ given' = Append(given, o)
        /\ settings' = IF o \in DOMAIN Stores THEN Merge(settings, Stores[o]) ELSE settings
        /\ verify' = (verify \/ o = "verify")
        /\ showVersion' = (showVersion \/ o = "version")
        /\ torrentPath' = IF o \in Paths /\ torrentPath = "none" THEN o ELSE torrentPath
        /\ IF o = "unknown" THEN Return("failure") ELSE UNCHANGED <<pc, status>>
        /\ UNCHANGED <<loaded, session, saved, libraryVars, webVars, torrentVars, signalVars>>

\* After the options: the version, the path and the download directory, the one
\* loaded too, which the settings then name by its real path; the session opens
\* with these settings.
CheckOptions ==
    /\ pc = "parse"
    /\ \/ /\ given # <<>> /\ showVersion
          /\ Return("success") /\ UNCHANGED <<settings, session, inForce>>
       \/ /\ \/ given = <<>>
             \/ ~showVersion /\ torrentPath = "none"
             \/ ~showVersion /\ settings.downloadDir \notin DOMAIN RealPath
          /\ Return("failure") /\ UNCHANGED <<settings, session, inForce>>
       \/ /\ given # <<>> /\ ~showVersion /\ torrentPath # "none"
          /\ settings.downloadDir \in DOMAIN RealPath
          /\ settings' = [settings EXCEPT !.downloadDir = RealPath[@]]
          /\ session' = "open" /\ inForce' = settings'
          /\ pc' = "load" /\ status' = status
    /\ UNCHANGED <<given, loaded, verify, showVersion, torrentPath, overRpc, saved,
                   webVars, torrentVars, signalVars>>

(* main, getting the torrent *)

\* The bug: an error path that forgets the session.
JustFail == session' = session /\ Return("failure")

CloseAndFail == session' = "closed" /\ Return("failure")

\* The four ways to read torrentPath; the content of a file may be refused later.
LoadTorrent ==
    /\ pc = "load"
    /\ \/ /\ torrentPath = "file" /\ metainfo' \in {"good", "bad"}
          /\ pc' = "new" /\ UNCHANGED <<web, session, status>>
       \/ /\ torrentPath = "magnet" /\ metainfo' = "good"
          /\ pc' = "new" /\ UNCHANGED <<web, session, status>>
       \/ /\ torrentPath = "http" /\ web' = "asked"
          /\ pc' = "asked" /\ UNCHANGED <<metainfo, session, status>>
       \/ /\ torrentPath = "other" /\ CloseAndFail
          /\ UNCHANGED <<metainfo, web>>
    /\ UNCHANGED <<optionVars, libraryVars, saved, waitingOnWeb, torrentVars, signalVars>>

\* waitingOnWeb = true, after tr_webRun has returned.
BeginWait ==
    /\ pc = "asked"
    /\ waitingOnWeb' = TRUE
    /\ pc' = "waiting"
    /\ UNCHANGED <<optionVars, sessionVars, metainfo, web, torrentVars, signalVars>>

\* while( waitingOnWeb ) tr_wait_msec( 1000 )
EndWait ==
    /\ pc = "waiting" /\ ~waitingOnWeb
    /\ pc' = "new"
    /\ UNCHANGED <<optionVars, sessionVars, webVars, torrentVars, signalVars>>

\* onTorrentFileDownloaded, on libtransmission's web thread.
onTorrentFileDownloaded ==
    /\ web = "asked" /\ pc \in {"asked", "waiting"}
    /\ web' = "answered"
    /\ metainfo' \in {"good", "bad"}
    /\ waitingOnWeb' = FALSE
    /\ UNCHANGED <<pc, optionVars, sessionVars, torrentVars, signalVars>>

\* tr_torrentNew refuses what it cannot parse.
NewTorrent ==
    /\ pc = "new"
    /\ IF metainfo = "good"
         THEN pc' = "install" /\ UNCHANGED <<session, status>>
         ELSE CloseAndFail
    /\ UNCHANGED <<optionVars, libraryVars, saved, webVars, torrentVars, signalVars>>

InstallHandlers ==
    /\ pc = "install"
    /\ pc' = "start"
    /\ UNCHANGED <<optionVars, sessionVars, webVars, torrentVars, signalVars>>

StartTorrent ==
    /\ pc = "start"
    /\ queue' = queue \o (IF verify THEN <<"start", "verify">> ELSE <<"start">>)
    /\ verify' = FALSE
    /\ pc' = "sleep"
    /\ UNCHANGED <<given, loaded, settings, showVersion, torrentPath, sessionVars,
                   webVars, activity, signalVars>>

(* main, the loop.  A signal between the test of a flag and its reset has the *)
(* effect of one before the test, so that test and reset are one step.        *)

\* tr_wait_msec( 200 ), then the test of gotsig.
TakeInterrupt ==
    /\ pc = "sleep"
    /\ gotsig' = FALSE
    /\ pc' = IF gotsig THEN "stop" ELSE "update?"
    /\ UNCHANGED <<optionVars, sessionVars, webVars, torrentVars,
                   manualUpdate, sent, stopOwed, updateOwed>>

\* The bug: a torrent that is being checked is not stopped.
StopUnlessChecking ==
    /\ pc = "stop"
    /\ queue' = IF activity = CHECK THEN queue ELSE Append(queue, "stop")
    /\ stopOwed' = FALSE
    /\ pc' = "update?"
    /\ UNCHANGED <<optionVars, sessionVars, webVars, activity,
                   gotsig, manualUpdate, sent, updateOwed>>

StopTorrent ==
    /\ pc = "stop"
    /\ queue' = Append(queue, "stop")
    /\ stopOwed' = FALSE
    /\ pc' = "update?"
    /\ UNCHANGED <<optionVars, sessionVars, webVars, activity,
                   gotsig, manualUpdate, sent, updateOwed>>

TakeHangup ==
    /\ pc = "update?"
    /\ manualUpdate' = FALSE
    /\ pc' = IF manualUpdate THEN "update" ELSE "look"
    /\ UNCHANGED <<optionVars, sessionVars, webVars, torrentVars,
                   gotsig, sent, stopOwed, updateOwed>>

\* tr_torrentCanManualUpdate decides; either answer is an answer to the SIGHUP.
ManualUpdate ==
    /\ pc = "update"
    /\ \E can \in BOOLEAN : queue' = IF can THEN Append(queue, "announce") ELSE queue
    /\ updateOwed' = FALSE
    /\ pc' = "look"
    /\ UNCHANGED <<optionVars, sessionVars, webVars, activity,
                   gotsig, manualUpdate, sent, stopOwed>>

\* The bug: the flag is lowered at the end of the round, after the call, so that
\* a SIGHUP that comes in between is lost.
LookAndReset ==
    /\ pc = "look"
    /\ manualUpdate' = FALSE
    /\ pc' = IF activity = STOPPED THEN "save" ELSE "sleep"
    /\ UNCHANGED <<optionVars, sessionVars, webVars, torrentVars,
                   gotsig, sent, stopOwed, updateOwed>>

\* tr_torrentStat and the test that ends the loop.
Look ==
    /\ pc = "look"
    /\ pc' = IF activity = STOPPED THEN "save" ELSE "sleep"
    /\ UNCHANGED <<optionVars, sessionVars, webVars, torrentVars, signalVars>>

\* tr_sessionSaveSettings writes the dictionary with the session's settings added.
SaveSettings ==
    /\ pc = "save"
    /\ saved' = Merge(settings, inForce)
    /\ pc' = "close"
    /\ UNCHANGED <<optionVars, session, libraryVars, status, webVars, torrentVars,
                   signalVars>>

CloseSession ==
    /\ pc = "close"
    /\ session' = "closed"
    /\ Return("success")
    /\ UNCHANGED <<optionVars, libraryVars, saved, webVars, torrentVars, signalVars>>

-----------------------------------------------------------------------------
(* libtransmission (external): the calls are run in order by its own thread;  *)
(* it moves a torrent that runs from check to download to seed, and stops it  *)
(* by itself (an error, the seeding limit).  A stopped torrent stays stopped. *)

After(call, a) ==
    CASE call = "start"    -> {STOPPED, DOWNLOAD_WAIT, DOWNLOAD, SEED_WAIT, SEED}
      [] call = "verify"   -> {CHECK_WAIT, CHECK}
      [] call = "stop"     -> {STOPPED}
      [] call = "announce" -> {a}

RunCall ==
    /\ queue # <<>> /\ session = "open"
    /\ activity' \in After(Head(queue), activity)
    /\ queue' = Tail(queue)
    /\ UNCHANGED <<pc, optionVars, sessionVars, webVars, signalVars>>

Progress(a) ==
    CASE a = CHECK_WAIT -> {CHECK}
      [] a = CHECK -> {STOPPED, DOWNLOAD_WAIT, DOWNLOAD, SEED_WAIT, SEED}
      [] a = DOWNLOAD_WAIT -> {DOWNLOAD}
      [] a = DOWNLOAD -> {SEED, STOPPED}
      [] a = SEED_WAIT -> {SEED}
      [] a = SEED -> {STOPPED}
      [] OTHER -> {}

MoveOn ==
    /\ session = "open"
    /\ activity' \in Progress(activity)
    /\ UNCHANGED <<pc, optionVars, sessionVars, webVars, queue, signalVars>>

\* session-set over RPC (the settings may enable the RPC server): the session
\* changes, main's dictionary does not.
SetOverRpc ==
    \E k \in RpcKeys :
        /\ session = "open" /\ pc # "killed"
        /\ inForce' = [inForce EXCEPT ![k] = "rpc"]
        /\ overRpc' = IF saved = NoSettings THEN overRpc \cup {k} ELSE overRpc
        /\ UNCHANGED <<pc, optionVars, session, saved, status, webVars, torrentVars,
                       signalVars>>

-----------------------------------------------------------------------------
(* Signals. *)

Ended == pc \in {"returned", "killed"}

HandlersInstalled ==
    pc \in {"start", "sleep", "stop", "update?", "update", "look", "save", "close"}

\* Before the handlers are installed either signal ends the process where it is.
Killed ==
    /\ ~HandlersInstalled /\ ~Ended
    /\ pc' = "killed"
    /\ UNCHANGED <<optionVars, sessionVars, webVars, torrentVars, signalVars>>

\* sigHandler( SIGINT )
Interrupt ==
    /\ HandlersInstalled /\ sent < MaxSignals
    /\ gotsig' = TRUE /\ stopOwed' = TRUE /\ sent' = sent + 1
    /\ UNCHANGED <<pc, optionVars, sessionVars, webVars, torrentVars,
                   manualUpdate, updateOwed>>

\* sigHandler( SIGHUP )
Hangup ==
    /\ HandlersInstalled /\ sent < MaxSignals
    /\ manualUpdate' = TRUE /\ updateOwed' = TRUE /\ sent' = sent + 1
    /\ UNCHANGED <<pc, optionVars, sessionVars, webVars, torrentVars,
                   gotsig, stopOwed>>

-----------------------------------------------------------------------------
Main ==
    \/ CheckOptions \/ LoadTorrent \/ BeginWait \/ EndWait
    \/ NewTorrent \/ InstallHandlers \/ StartTorrent
    \/ TakeInterrupt \/ StopTorrent \/ TakeHangup \/ ManualUpdate
    \/ Look \/ SaveSettings \/ CloseSession

Terminating == Ended /\ UNCHANGED vars

Next ==
    \/ ParseOption \/ Main
    \/ onTorrentFileDownloaded \/ RunCall \/ MoveOn \/ SetOverRpc
    \/ Killed \/ Interrupt \/ Hangup
    \/ Terminating

Spec == Init /\ [][Next]_vars

\* main runs; libtransmission runs what it was asked and answers every tr_webRun
\* (its transfers have a time limit).  Nothing makes a user send a signal, nor a
\* torrent finish.
Fairness == WF_vars(Main) /\ WF_vars(RunCall) /\ WF_vars(onTorrentFileDownloaded)

FairSpec == Spec /\ Fairness

-----------------------------------------------------------------------------
TypeOK ==
    /\ pc \in {"parse", "load", "asked", "waiting", "new", "install", "start", "sleep",
               "stop", "update?", "update", "look", "save", "close", "returned", "killed"}
    /\ given \in Seq(Options) /\ Len(given) <= MaxOptions
    /\ DOMAIN loaded = Keys /\ DOMAIN settings = Keys
    /\ verify \in BOOLEAN /\ showVersion \in BOOLEAN
    /\ torrentPath \in Paths \cup {"none"}
    /\ session \in {"none", "open", "closed"}
    /\ inForce = NoSettings \/ DOMAIN inForce = Keys
    /\ overRpc \subseteq RpcKeys
    /\ saved = NoSettings \/ DOMAIN saved = Keys
    /\ status \in {"none", "success", "failure"}
    /\ metainfo \in {"none", "good", "bad"}
    /\ web \in {"idle", "asked", "answered"} /\ waitingOnWeb \in BOOLEAN
    /\ queue \in Seq({"start", "verify", "stop", "announce"})
    /\ activity \in Activities
    /\ gotsig \in BOOLEAN /\ manualUpdate \in BOOLEAN
    /\ sent \in 0..MaxSignals /\ stopOwed \in BOOLEAN /\ updateOwed \in BOOLEAN

\* The options that set key k, by their place on the command line.
Setting(k) == {i \in DOMAIN given : given[i] \in DOMAIN Stores /\ k \in DOMAIN Stores[given[i]]}

Last(S) == CHOOSE i \in S : \A j \in S : j <= i

\* What the command line says of key k: the last option that sets it, or what was
\* loaded.
Given(k) == IF Setting(k) = {} THEN loaded[k] ELSE Stores[given[Last(Setting(k))]][k]

\* The same, as the session takes it.
Taken(k) == IF k = "downloadDir" THEN RealPath[Given(k)] ELSE Given(k)

\* The settings file main writes is the command line: each key has the value of
\* the last option that sets it, the others the value that was loaded, a directory
\* by its real path; but a key set over RPC before main saved has the session's
\* value, which tr_sessionSaveSettings puts over the dictionary's.
SavedIsCommandLine ==
    saved # NoSettings =>
        \A k \in Keys : saved[k] = IF k \in overRpc THEN "rpc" ELSE Taken(k)

\* However main returns, the session it opened has been closed, so that
\* libtransmission has told the trackers and written its resume files; and it
\* returns success after a session only with the settings saved.
ClosedOnReturn ==
    pc = "returned" =>
        /\ session # "open"
        /\ (session = "closed" /\ status = "success") => saved # NoSettings

\* A signal is never lost: between its arrival and the call it asks for, its
\* flag is up, or main has seen it and is about to make the call, or the loop is
\* already over.  In particular a signal that arrives while main acts on an
\* earlier one is acted on again (the flags are lowered before the calls).
SignalIsKept ==
    /\ stopOwed => gotsig \/ pc = "stop"
                   \/ pc \in {"save", "close", "returned"}
    /\ updateOwed => manualUpdate \/ pc = "update"
                     \/ pc \in {"save", "close", "returned"}

\* With the types of the variables: the flags, the calls under way and the signals.
SignalInv == TypeOK /\ SignalIsKept

\* No wait of the client lasts for ever for want of what it was told.  A SIGINT
\* caught by the handler ends it, whatever else is queued for the torrent (the
\* verification asked for on the command line too), and a client that waits for
\* the torrent file goes on once libtransmission has answered, if the answer comes
\* after the wait began.  (An answer between tr_webRun and the assignment of
\* waitingOnWeb is overwritten, and the wait lasts until a signal kills the client.)
WaitsEnd ==
    /\ stopOwed ~> pc = "returned"
    /\ (pc = "waiting" /\ web = "asked") ~> pc # "waiting"
=============================================================================
