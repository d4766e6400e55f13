----------------------------- MODULE CliProofs -----------------------------
(***************************************************************************)
(* Theorems about Cli, for any options, any length of the command line and *)
(* any number of signals: what is saved is the command line, every return  *)
(* has closed the session, and no signal is lost.                          *)
(***************************************************************************)
EXTENDS Cli, SequenceTheorems, TLAPS

(* Types. *)

LEMMA TypeStep == TypeOK /\ [Next]_vars => TypeOK'
<1> SUFFICES ASSUME TypeOK, [Next]_vars PROVE TypeOK'
  OBVIOUS
<1> USE CliAssumption
<1>1. CASE ParseOption
  <2>1. PICK o \in Options : ParseOption!(o)
    BY <1>1 DEF ParseOption
  <2>2. given' \in Seq(Options) /\ Len(given') <= MaxOptions
    BY <2>1 DEF TypeOK
  <2>3. DOMAIN settings' = Keys /\ UNCHANGED loaded
    BY <2>1 DEF TypeOK, Merge
  <2>4. torrentPath' \in Paths \cup {"none"}
    BY <2>1 DEF TypeOK
  <2>5. /\ pc' \in {"parse", "returned"} /\ status' \in {"none", "success", "failure"}
        /\ verify' \in BOOLEAN /\ showVersion' \in BOOLEAN
    BY <2>1 DEF TypeOK, Return
  <2> QED
    BY <2>1, <2>2, <2>3, <2>4, <2>5 DEF TypeOK, libraryVars, webVars, torrentVars, signalVars
<1>2. CASE CheckOptions
  <2>1. DOMAIN settings' = Keys /\ (inForce' = NoSettings \/ DOMAIN inForce' = Keys)
    BY <1>2 DEF TypeOK, CheckOptions
  <2>2. /\ pc' \in {"returned", "load"} /\ session' \in {"none", "open", "closed"}
        /\ status' \in {"none", "success", "failure"}
    BY <1>2 DEF TypeOK, CheckOptions, Return
  <2>3. UNCHANGED <<given, loaded, verify, showVersion, torrentPath, overRpc, saved,
                    webVars, torrentVars, signalVars>>
    BY <1>2 DEF CheckOptions
  <2> QED
    BY <2>1, <2>2, <2>3 DEF TypeOK, webVars, torrentVars, signalVars
<1>3. CASE LoadTorrent
  BY <1>3 DEF TypeOK, LoadTorrent, CloseAndFail, Return, Paths, optionVars, libraryVars, torrentVars, signalVars
<1>4. CASE BeginWait
  BY <1>4 DEF TypeOK, BeginWait, optionVars, sessionVars, libraryVars, torrentVars, signalVars
<1>5. CASE EndWait
  BY <1>5 DEF TypeOK, EndWait, optionVars, sessionVars, libraryVars, webVars, torrentVars, signalVars
<1>6. CASE NewTorrent
  BY <1>6 DEF TypeOK, NewTorrent, CloseAndFail, Return, optionVars, libraryVars, webVars, torrentVars,
              signalVars
<1>7. CASE InstallHandlers
  BY <1>7 DEF TypeOK, InstallHandlers, optionVars, sessionVars, libraryVars, webVars, torrentVars, signalVars
<1>8. CASE StartTorrent
  <2>1. queue' \in Seq({"start", "verify", "stop", "announce"})
    <3> DEFINE Call == {"start", "verify", "stop", "announce"}
    <3>1. PICK calls \in {<<"start", "verify">>, <<"start">>} : queue' = queue \o calls
      BY <1>8 DEF StartTorrent
    <3>2. calls \in Seq(Call) /\ queue \in Seq(Call)
      <4>1. <<"start", "verify">> \in Seq(Call) /\ <<"start">> \in Seq(Call)
        OBVIOUS
      <4> QED
        BY <4>1, Zenon DEF TypeOK
    <3>3. queue' \in Seq(Call)
      BY <3>1, <3>2, ConcatProperties
    <3> QED
      BY <3>3
  <2>2. verify' \in BOOLEAN
    BY <1>8 DEF StartTorrent
  <2>3. /\ pc' = "sleep"
        /\ UNCHANGED <<given, loaded, settings, showVersion, torrentPath, sessionVars, webVars,
                       activity, signalVars>>
    BY <1>8 DEF StartTorrent
  <2> QED
    BY <2>1, <2>2, <2>3 DEF TypeOK, sessionVars, libraryVars, webVars, signalVars
<1>9. CASE TakeInterrupt
  <2>1. gotsig' \in BOOLEAN
    BY <1>9 DEF TakeInterrupt
  <2>2. /\ pc' \in {"stop", "update?"}
        /\ UNCHANGED <<optionVars, sessionVars, webVars, torrentVars, manualUpdate, sent,
                       stopOwed, updateOwed>>
    BY <1>9 DEF TakeInterrupt
  <2> QED
    BY <2>1, <2>2 DEF TypeOK, optionVars, sessionVars, libraryVars, webVars, torrentVars
<1>10. CASE StopTorrent
  <2>1. queue' \in Seq({"start", "verify", "stop", "announce"})
    BY <1>10 DEF TypeOK, StopTorrent
  <2>2. stopOwed' \in BOOLEAN
    BY <1>10 DEF StopTorrent
  <2>3. /\ pc' = "update?"
        /\ UNCHANGED <<optionVars, sessionVars, webVars, activity, gotsig, manualUpdate, sent,
                       updateOwed>>
    BY <1>10 DEF StopTorrent
  <2> QED
    BY <2>1, <2>2, <2>3 DEF TypeOK, optionVars, sessionVars, libraryVars, webVars
<1>11. CASE TakeHangup
  <2>1. manualUpdate' \in BOOLEAN
    BY <1>11 DEF TakeHangup
  <2>2. /\ pc' \in {"update", "look"}
        /\ UNCHANGED <<optionVars, sessionVars, webVars, torrentVars, gotsig, sent, stopOwed,
                       updateOwed>>
    BY <1>11 DEF TakeHangup
  <2> QED
    BY <2>1, <2>2 DEF TypeOK, optionVars, sessionVars, libraryVars, webVars, torrentVars
<1>12. CASE ManualUpdate
  <2>1. queue' \in Seq({"start", "verify", "stop", "announce"})
    BY <1>12 DEF TypeOK, ManualUpdate
  <2>2. updateOwed' \in BOOLEAN
    BY <1>12 DEF ManualUpdate
  <2>3. /\ pc' = "look"
        /\ UNCHANGED <<optionVars, sessionVars, webVars, activity, gotsig, manualUpdate, sent,
                       stopOwed>>
    BY <1>12 DEF ManualUpdate
  <2> QED
    BY <2>1, <2>2, <2>3 DEF TypeOK, optionVars, sessionVars, libraryVars, webVars
<1>13. CASE Look
  BY <1>13 DEF TypeOK, Look, optionVars, sessionVars, libraryVars, webVars, torrentVars, signalVars
<1>14. CASE SaveSettings
  <2>1. DOMAIN saved' = Keys
    BY <1>14 DEF TypeOK, SaveSettings, Merge
  <2> QED
    BY <1>14, <2>1
    DEF TypeOK, SaveSettings, optionVars, libraryVars, webVars, torrentVars, signalVars
<1>15. CASE CloseSession
  BY <1>15 DEF TypeOK, CloseSession, Return, optionVars, libraryVars, webVars, torrentVars,
              signalVars
<1>16. CASE onTorrentFileDownloaded
  <2>1. waitingOnWeb' \in BOOLEAN
    BY <1>16 DEF onTorrentFileDownloaded
  <2>2. /\ web' = "answered" /\ metainfo' \in {"good", "bad"}
        /\ UNCHANGED <<pc, optionVars, sessionVars, torrentVars, signalVars>>
    BY <1>16 DEF onTorrentFileDownloaded
  <2> QED
    BY <2>1, <2>2 DEF TypeOK, optionVars, sessionVars, libraryVars, torrentVars, signalVars
<1>17. CASE RunCall
  <2>1. /\ Head(queue) \in {"start", "verify", "stop", "announce"}
        /\ Tail(queue) \in Seq({"start", "verify", "stop", "announce"})
    BY <1>17 DEF TypeOK, RunCall
  <2>2. activity' \in Activities
    BY <1>17, <2>1
    DEF TypeOK, RunCall, After, Activities, STOPPED, CHECK_WAIT, CHECK, DOWNLOAD_WAIT, DOWNLOAD,
        SEED_WAIT, SEED
  <2> QED
    BY <1>17, <2>1, <2>2 DEF TypeOK, RunCall, optionVars, sessionVars, libraryVars, webVars, signalVars
<1>18. CASE MoveOn
  <2>1. activity' \in Activities
    BY <1>18
    DEF TypeOK, MoveOn, Progress, Activities, STOPPED, CHECK_WAIT, CHECK, DOWNLOAD_WAIT, DOWNLOAD,
        SEED_WAIT, SEED
  <2> QED
    BY <1>18, <2>1 DEF TypeOK, MoveOn, optionVars, sessionVars, libraryVars, webVars, signalVars
<1>23. CASE SetOverRpc
  <2>1. PICK k \in RpcKeys : SetOverRpc!(k)
    BY <1>23 DEF SetOverRpc
  <2>2. inForce' = NoSettings \/ DOMAIN inForce' = Keys
    BY <2>1 DEF TypeOK, NoSettings
  <2>3. overRpc' \subseteq RpcKeys
    BY <2>1 DEF TypeOK
  <2> QED
    BY <2>1, <2>2, <2>3 DEF TypeOK, optionVars, webVars, torrentVars, signalVars
<1>19. CASE Killed
  BY <1>19 DEF TypeOK, Killed, optionVars, sessionVars, libraryVars, webVars, torrentVars, signalVars
<1>20. CASE Interrupt
  BY <1>20 DEF TypeOK, Interrupt, optionVars, sessionVars, libraryVars, webVars, torrentVars
<1>21. CASE Hangup
  BY <1>21 DEF TypeOK, Hangup, optionVars, sessionVars, libraryVars, webVars, torrentVars
<1>22. CASE UNCHANGED vars
  BY <1>22 DEF TypeOK, vars, optionVars, sessionVars, libraryVars, webVars, torrentVars, signalVars
<1> QED
  BY <1>1, <1>2, <1>3, <1>4, <1>5, <1>6, <1>7, <1>8, <1>9, <1>10, <1>11, <1>12, <1>13, <1>14,
     <1>15, <1>16, <1>17, <1>18, <1>19, <1>20, <1>21, <1>22, <1>23
  DEF Next, Main, Terminating

\* Every variable of the client keeps its type.
THEOREM TypeCorrect == Spec => []TypeOK
<1>1. Init => TypeOK
  <2> SUFFICES ASSUME Init PROVE TypeOK
    OBVIOUS
  <2>1. given \in Seq(Options) /\ Len(given) <= MaxOptions
    BY CliAssumption DEF Init
  <2>2. activity \in Activities /\ sent \in 0 .. MaxSignals
    BY CliAssumption DEF Init, Activities, STOPPED, SEED
  <2>3. DOMAIN settings = Keys /\ DOMAIN loaded = Keys /\ queue \in Seq({"start", "verify", "stop", "announce"})
    BY DEF Init
  <2> QED
    BY <2>1, <2>2, <2>3 DEF Init, TypeOK
<1> QED
  BY <1>1, TypeStep, PTL DEF Spec
-----------------------------------------------------------------------------
(* What is saved. *)

\* The places on the command line that set a key have a last one.
LastExists(k) ==
  Setting(k) # {} => \E i \in Setting(k) : \A j \in Setting(k) : j <= i

\* The dictionary is that of the options read so far; the session gets it with
\* the directory by its real path, and what is saved is the dictionary with what
\* was set over RPC until then.
DictionaryInv ==
  /\ \A k \in Keys : LastExists(k)
  /\ pc = "parse" =>
        /\ \A k \in Keys : settings[k] = Given(k)
        /\ saved = NoSettings /\ overRpc = {} /\ session = "none"
  /\ session # "none" =>
        /\ pc # "parse" /\ DOMAIN inForce = Keys
        /\ \A k \in Keys : settings[k] = Taken(k)
        /\ saved = NoSettings =>
              \A k \in Keys : inForce[k] = IF k \in overRpc THEN "rpc" ELSE Taken(k)
  /\ saved # NoSettings => session # "none"
  /\ SavedIsCommandLine

\* What main has when it returns from the session.
SessionInv ==
  /\ pc = "parse" => session = "none"
  /\ pc \in {"load", "asked", "waiting", "new", "install", "start", "sleep", "stop",
             "update?", "update", "look", "save"} => session = "open" /\ saved = NoSettings
  /\ pc = "close" => saved # NoSettings
  /\ ClosedOnReturn

\* One option more sets the keys it stores, and only these, to what it stores.
LEMMA OptionStep ==
  ASSUME TypeOK, NEW k \in Keys, LastExists(k), settings[k] = Given(k), loaded' = loaded,
         NEW o \in Options, given' = Append(given, o),
         settings' = IF o \in DOMAIN Stores THEN Merge(settings, Stores[o]) ELSE settings
  PROVE  LastExists(k)' /\ settings'[k] = Given(k)'
<1> DEFINE n == Len(given) + 1
           sets == o \in DOMAIN Stores /\ k \in DOMAIN Stores[o]
<1>1. /\ given \in Seq(Options) /\ n \in Nat /\ DOMAIN given = 1 .. n - 1
      /\ DOMAIN given' = 1 .. n /\ given'[n] = o
      /\ \A i \in 1 .. n - 1 : given'[i] = given[i]
  BY DEF TypeOK
<1>2. Setting(k) \subseteq 1 .. n - 1
  BY <1>1 DEF Setting
<1>3. CASE sets
  <2>1. Setting(k)' = Setting(k) \cup {n}
    BY <1>1, <1>3 DEF Setting
  <2>2. \A j \in Setting(k)' : j <= n
    BY <1>1, <1>2, <2>1
  <2>3. Last(Setting(k)') = n
    <3>1. \A i \in Setting(k)' : (\A j \in Setting(k)' : j <= i) => i = n
      BY <1>1, <1>2, <2>1
    <3> QED
      BY <2>1, <2>2, <3>1 DEF Last
  <2>4. settings'[k] = Stores[o][k]
    BY <1>3 DEF TypeOK, Merge
  <2> QED
    BY <1>1, <2>1, <2>2, <2>3, <2>4 DEF LastExists, Given
<1>4. CASE ~sets
  <2>1. Setting(k)' = Setting(k)
    BY <1>1, <1>4 DEF Setting
  <2>2. settings'[k] = settings[k]
    BY <1>4 DEF TypeOK, Merge
  <2>3. Setting(k) # {} => given'[Last(Setting(k))] = given[Last(Setting(k))]
    <3>1. Setting(k) # {} => Last(Setting(k)) \in Setting(k)
      BY DEF LastExists, Last
    <3> QED
      BY <1>1, <1>2, <3>1
  <2> QED
    BY <2>1, <2>2, <2>3 DEF LastExists, Given
<1> QED
  BY <1>3, <1>4

LEMMA KeysExist == "downloadDir" \in Keys
<1>1. "downloadDir" \in DOMAIN Stores /\ "downloadDir" \in DOMAIN Stores["downloadDir"]
  BY DEF Stores
<1> QED
  BY <1>1 DEF Keys

LEMMA DictionaryStep ==
  TypeOK /\ DictionaryInv /\ SessionInv /\ [Next]_vars => DictionaryInv'
<1> SUFFICES ASSUME TypeOK, DictionaryInv, SessionInv, [Next]_vars PROVE DictionaryInv'
  OBVIOUS
<1>1. CASE ParseOption
  <2>1. PICK o \in Options : ParseOption!(o)
    BY <1>1 DEF ParseOption
  <2>2. \A k \in Keys : LastExists(k) /\ settings[k] = Given(k)
    BY <2>1 DEF DictionaryInv
  <2>3. ASSUME NEW k \in Keys PROVE LastExists(k)' /\ settings'[k] = Given(k)'
    <3>1. loaded' = loaded
      BY <2>1
    <3> QED
      BY <2>1, <2>2, <3>1, OptionStep
  <2>4. /\ saved' = NoSettings /\ overRpc' = {} /\ session' = "none"
        /\ pc' = "parse" \/ pc' = "returned"
    BY <2>1 DEF DictionaryInv, libraryVars, Return
  <2> QED
    BY <2>3, <2>4 DEF DictionaryInv, SavedIsCommandLine
<1>2. CASE CheckOptions
  <2>1. UNCHANGED <<given, loaded>> /\ saved' = NoSettings /\ overRpc' = {}
    BY <1>2 DEF CheckOptions, DictionaryInv
  <2>2. \A k \in Keys : LastExists(k)' /\ Given(k)' = Given(k) /\ Taken(k)' = Taken(k)
    BY <2>1 DEF DictionaryInv, LastExists, Given, Taken, Setting
  <2>3. \A k \in Keys : settings[k] = Given(k)
    BY <1>2 DEF CheckOptions, DictionaryInv
  <2>4. CASE session' = "none"
    BY <1>2, <2>1, <2>2, <2>4 DEF CheckOptions, Return, DictionaryInv, SavedIsCommandLine
  <2>5. CASE session' # "none"
    <3>1. /\ settings' = [settings EXCEPT !.downloadDir = RealPath[settings.downloadDir]]
          /\ inForce' = settings' /\ session' = "open" /\ pc' = "load"
      BY <1>2, <2>5 DEF CheckOptions, DictionaryInv
    <3>2. \A k \in Keys : settings'[k] = Taken(k)
      BY <2>3, <3>1 DEF TypeOK, Taken
    <3>3. DOMAIN settings' = Keys
      BY <3>1 DEF TypeOK
    <3> QED
      BY <2>1, <2>2, <3>1, <3>2, <3>3 DEF DictionaryInv, SavedIsCommandLine
  <2> QED
    BY <2>4, <2>5
<1>3. CASE SetOverRpc
  <2>1. PICK k \in RpcKeys : SetOverRpc!(k)
    BY <1>3 DEF SetOverRpc
  <2>2. UNCHANGED <<given, loaded, settings, pc, session, saved>>
    BY <2>1 DEF optionVars
  <2>3. \A j \in Keys : /\ LastExists(j)' = LastExists(j) /\ Given(j)' = Given(j)
                       /\ Taken(j)' = Taken(j)
    BY <2>2 DEF LastExists, Given, Taken, Setting
  <2>4. /\ DOMAIN inForce' = Keys
        /\ \A j \in Keys : inForce'[j] = IF j = k THEN "rpc" ELSE inForce[j]
    BY <2>1 DEF DictionaryInv
  <2>5. CASE saved = NoSettings
    BY <2>1, <2>2, <2>3, <2>4, <2>5 DEF DictionaryInv, SavedIsCommandLine
  <2>6. CASE saved # NoSettings
    BY <2>1, <2>2, <2>3, <2>4, <2>6 DEF DictionaryInv, SavedIsCommandLine
  <2> QED
    BY <2>5, <2>6
<1>4. CASE SaveSettings
  <2>1. /\ pc = "save" /\ pc' = "close" /\ session = "open" /\ saved = NoSettings
        /\ saved' = Merge(settings, inForce)
        /\ UNCHANGED <<given, loaded, settings, session, inForce, overRpc>>
    BY <1>4 DEF SaveSettings, SessionInv, optionVars, libraryVars
  <2>2. \A k \in Keys : /\ LastExists(k)' = LastExists(k) /\ Given(k)' = Given(k)
                       /\ Taken(k)' = Taken(k)
    BY <2>1 DEF LastExists, Given, Taken, Setting
  <2>3. \A k \in Keys : saved'[k] = inForce[k]
    BY <2>1 DEF Merge, TypeOK, DictionaryInv
  <2>4. saved' # NoSettings
    BY <2>1, KeysExist DEF Merge, TypeOK, NoSettings
  <2> QED
    BY <2>1, <2>2, <2>3, <2>4 DEF DictionaryInv, SavedIsCommandLine
<1>5. ASSUME UNCHANGED <<given, loaded, settings, inForce, overRpc, saved>>,
             pc' = "parse" => pc = "parse",
             session' = session \/ (session = "open" /\ session' = "closed")
      PROVE  DictionaryInv'
  <2>1. \A k \in Keys : /\ LastExists(k)' = LastExists(k) /\ Given(k)' = Given(k)
                       /\ Taken(k)' = Taken(k)
    BY <1>5 DEF LastExists, Given, Taken, Setting
  <2> QED
    BY <1>5, <2>1 DEF DictionaryInv, SavedIsCommandLine, SessionInv
<1>6. CASE LoadTorrent
  BY <1>5, <1>6 DEF LoadTorrent, CloseAndFail, Return, TypeOK, optionVars, libraryVars, SessionInv
<1>7. CASE NewTorrent
  BY <1>5, <1>7 DEF NewTorrent, CloseAndFail, Return, optionVars, libraryVars, SessionInv
<1>8. CASE CloseSession
  BY <1>5, <1>8
  DEF CloseSession, Return, optionVars, libraryVars, SessionInv, DictionaryInv, TypeOK
<1>9. CASE \/ BeginWait \/ EndWait \/ InstallHandlers \/ StartTorrent
           \/ TakeInterrupt \/ StopTorrent \/ TakeHangup \/ ManualUpdate \/ Look
  BY <1>5, <1>9
  DEF BeginWait, EndWait, InstallHandlers, StartTorrent, TakeInterrupt, StopTorrent, TakeHangup,
      ManualUpdate, Look, optionVars, sessionVars, libraryVars
<1>10. CASE \/ onTorrentFileDownloaded \/ RunCall \/ MoveOn \/ Killed \/ Interrupt \/ Hangup
            \/ UNCHANGED vars
  BY <1>5, <1>10
  DEF onTorrentFileDownloaded, RunCall, MoveOn, Killed, Interrupt, Hangup, optionVars,
      sessionVars, libraryVars, vars
<1> QED
  BY <1>1, <1>2, <1>3, <1>4, <1>6, <1>7, <1>8, <1>9, <1>10 DEF Next, Main, Terminating

LEMMA SessionStep ==
  TypeOK /\ DictionaryInv /\ SessionInv /\ [Next]_vars => SessionInv'
<1> SUFFICES ASSUME TypeOK, DictionaryInv, SessionInv, [Next]_vars PROVE SessionInv'
  OBVIOUS
<1>1. CASE ParseOption
  <2>1. PICK o \in Options : ParseOption!(o)
    BY <1>1 DEF ParseOption
  <2> QED
    BY <2>1 DEF SessionInv, ClosedOnReturn, Return
<1>2. CASE CheckOptions
  BY <1>2 DEF CheckOptions, Return, DictionaryInv, SessionInv, ClosedOnReturn
<1>3. CASE LoadTorrent
  BY <1>3 DEF LoadTorrent, CloseAndFail, Return, TypeOK, DictionaryInv, SessionInv, ClosedOnReturn
<1>4. CASE NewTorrent
  BY <1>4 DEF NewTorrent, CloseAndFail, Return, SessionInv, ClosedOnReturn
<1>5. CASE SaveSettings
  <2>1. saved' # NoSettings
    BY <1>5, KeysExist DEF SaveSettings, Merge, TypeOK, NoSettings
  <2> QED
    BY <1>5, <2>1 DEF SaveSettings, SessionInv, ClosedOnReturn
<1>6. CASE CloseSession
  BY <1>6 DEF CloseSession, Return, optionVars, SessionInv, ClosedOnReturn
<1>7. CASE \/ BeginWait \/ EndWait \/ InstallHandlers \/ StartTorrent \/ TakeInterrupt
           \/ StopTorrent \/ TakeHangup \/ ManualUpdate \/ Look
  BY <1>7
  DEF BeginWait, EndWait, InstallHandlers, StartTorrent, TakeInterrupt, StopTorrent, TakeHangup,
      ManualUpdate, Look, optionVars, sessionVars, libraryVars, TypeOK, SessionInv, ClosedOnReturn
<1>8. CASE \/ onTorrentFileDownloaded \/ RunCall \/ MoveOn \/ Killed \/ Interrupt \/ Hangup
           \/ UNCHANGED vars
  BY <1>8
  DEF onTorrentFileDownloaded, RunCall, MoveOn, Killed, Interrupt, Hangup, optionVars,
      sessionVars, libraryVars, vars, SessionInv, ClosedOnReturn
<1>9. CASE SetOverRpc
  <2>1. PICK k \in RpcKeys : SetOverRpc!(k)
    BY <1>9 DEF SetOverRpc
  <2> QED
    BY <2>1 DEF SessionInv, ClosedOnReturn
<1> QED
  BY <1>1, <1>2, <1>3, <1>4, <1>5, <1>6, <1>7, <1>8, <1>9 DEF Next, Main, Terminating

\* The dictionary and the session are as they should be at every step of main.
LEMMA DictionaryAlways == Spec => [](DictionaryInv /\ SessionInv)
<1>1. Init => DictionaryInv /\ SessionInv
  BY DEF Init, DictionaryInv, SessionInv, ClosedOnReturn, SavedIsCommandLine, LastExists, Given,
         Setting
<1> QED
  BY <1>1, TypeCorrect, DictionaryStep, SessionStep, PTL DEF Spec

\* Whatever options are given in whatever order, whatever was loaded and set over
\* RPC, and whenever the client is told to end, the file it writes has for each key
\* what the last option that sets it says, or what was loaded, the directory by its
\* real path, except where RPC set the key first.
THEOREM SavedFromOptions == Spec => []SavedIsCommandLine
<1>1. DictionaryInv => SavedIsCommandLine
  BY DEF DictionaryInv
<1> QED
  BY <1>1, DictionaryAlways, PTL

\* No return of main leaves a session open, and none that says success after a
\* session leaves the settings unsaved.
THEOREM SessionClosed == Spec => []ClosedOnReturn
<1>1. SessionInv => ClosedOnReturn
  BY DEF SessionInv
<1> QED
  BY <1>1, DictionaryAlways, PTL

-----------------------------------------------------------------------------
(* Signals. *)

\* A signal is owed only once its handler is there; until main returns nothing
\* else can take it.
OwedIsHandled == stopOwed \/ updateOwed => HandlersInstalled \/ pc = "returned"

LEMMA SignalStep ==
  TypeOK /\ OwedIsHandled /\ SignalIsKept /\ [Next]_vars => (OwedIsHandled /\ SignalIsKept)'
<1> SUFFICES ASSUME TypeOK, OwedIsHandled, SignalIsKept, [Next]_vars
             PROVE  (OwedIsHandled /\ SignalIsKept)'
  OBVIOUS
<1> USE DEF OwedIsHandled, SignalIsKept, HandlersInstalled
<1>1. CASE ParseOption
  <2>1. PICK o \in Options : ParseOption!(o)
    BY <1>1 DEF ParseOption
  <2> QED
    BY <2>1 DEF Return, signalVars
<1>2. CASE CheckOptions
  BY <1>2 DEF CheckOptions, Return, signalVars
<1>3. CASE LoadTorrent
  BY <1>3 DEF LoadTorrent, CloseAndFail, Return, TypeOK, signalVars
<1>4. CASE BeginWait \/ EndWait \/ NewTorrent \/ InstallHandlers \/ StartTorrent
  BY <1>4 DEF BeginWait, EndWait, NewTorrent, InstallHandlers, StartTorrent, CloseAndFail,
              Return, signalVars
<1>5. CASE TakeInterrupt
  BY <1>5 DEF TakeInterrupt, TypeOK
<1>6. CASE StopTorrent
  BY <1>6 DEF StopTorrent, TypeOK
<1>7. CASE TakeHangup
  BY <1>7 DEF TakeHangup, TypeOK
<1>8. CASE ManualUpdate
  BY <1>8 DEF ManualUpdate, TypeOK
<1>9. CASE Look \/ SaveSettings \/ CloseSession
  BY <1>9 DEF Look, SaveSettings, CloseSession, Return, signalVars
<1>10. CASE onTorrentFileDownloaded \/ RunCall \/ MoveOn \/ SetOverRpc \/ UNCHANGED vars
  BY <1>10 DEF onTorrentFileDownloaded, RunCall, MoveOn, SetOverRpc, signalVars, vars
<1>11. CASE Killed
  BY <1>11 DEF Killed, Ended, signalVars
<1>12. CASE Interrupt
  BY <1>12 DEF Interrupt
<1>13. CASE Hangup
  BY <1>13 DEF Hangup
<1> QED
  BY <1>1, <1>2, <1>3, <1>4, <1>5, <1>6, <1>7, <1>8, <1>9, <1>10, <1>11, <1>12, <1>13
  DEF Next, Main, Terminating

\* A SIGINT or SIGHUP caught by the handler, at whatever step of main, is acted
\* on by a call of its own unless the loop ends first.
THEOREM SignalsKept == Spec => []SignalInv
<1>1. Init => OwedIsHandled /\ SignalIsKept
  BY DEF Init, OwedIsHandled, SignalIsKept
<1>2. TypeOK /\ SignalIsKept => SignalInv
  BY DEF SignalInv
<1> QED
  BY <1>1, <1>2, TypeCorrect, SignalStep, PTL DEF Spec
=============================================================================
