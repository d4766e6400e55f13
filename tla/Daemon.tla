------------------------------- MODULE Daemon -------------------------------
(***************************************************************************)
(* The daemon (itransmission-dameon/daemon.c): how it starts, what its     *)
(* signals and the RPC callback do, how it ends, and where its settings    *)
(* are kept meanwhile. The watch directory it reads has a module of its    *)
(* own, WatchDir; the specification, its type invariant and its parts have *)
(* names here that WatchDir has not, so that a module can extend the two.  *)
(*                                                                         *)
(* There are two kinds of settings, and one of each stands for all:        *)
(*   "session"  what libtransmission takes over (ports, limits, ...)       *)
(*   "daemon"   what only main reads (watch-dir, pidfile)                  *)
(* A signal handler runs between any two steps of main; RPC requests are   *)
(* served on libtransmission's thread.                                     *)
(***************************************************************************)
CONSTANTS Value, Unset
ASSUME UnsetAssumption == Unset \notin Value

Key == {"session", "daemon"}
Settings == [Key -> Value]

VARIABLES
  phase,     \* how far main is, or "off"
  closing,   \* the flag the loop of main reads
  file,      \* settings.json
  settings,  \* the dictionary of main
  inForce,   \* the value the session has for its key
  watched,   \* the directory that is watched
  \* History variables; no step reads them.
  wanted,    \* the value last asked for of the session's key, or Unset
  unsaved    \* it came over RPC and no file has it yet

daemonVars == <<phase, closing, file, settings, inForce, watched, wanted, unsaved>>

Phase == {"off", "starting", "opened", "running", "saved", "closed"}

DaemonTypeOK ==
  /\ phase \in Phase
  /\ closing \in BOOLEAN
  /\ file \in Settings /\ settings \in Settings
  /\ inForce \in Value /\ watched \in Value
  /\ wanted \in Value \cup {Unset}
  /\ unsaved \in BOOLEAN

DaemonInit ==
  /\ phase = "off" /\ closing = FALSE
  /\ file \in Settings /\ settings = file
  /\ inForce = file["session"] /\ watched = file["daemon"]
  /\ wanted = Unset /\ unsaved = FALSE

-----------------------------------------------------------------------------
(* main *)

\* tr_sessionSaveSettings: the session's values override the dictionary given.
Saved(dict, value) == [dict EXCEPT !["session"] = value]

\* The file is loaded and the options of the command line override it. (When it cannot be
\* loaded, main returns and nothing has changed.)
loadSettings(option) ==
  /\ phase = "off"
  /\ phase' = "starting" /\ closing' = FALSE
  /\ settings' = [k \in Key |-> IF option[k] = Unset THEN file[k] ELSE option[k]]
  /\ wanted' = IF option["session"] = Unset THEN wanted ELSE option["session"]
  /\ UNCHANGED <<file, inForce, watched, unsaved>>

openSession ==
  /\ phase = "starting"
  /\ phase' = "opened"
  /\ inForce' = settings["session"]
  /\ UNCHANGED <<closing, file, settings, watched, wanted, unsaved>>

\* Mutant: the settings are saved on closing only.
startUpMut ==
  /\ phase = "opened"
  /\ phase' = "running"
  /\ watched' = settings["daemon"]
  /\ unsaved' = FALSE
  /\ UNCHANGED <<closing, file, settings, inForce, wanted>>

\* The settings are saved, the watch directory is set up and the torrents are loaded.
startUp ==
  /\ phase = "opened"
  /\ phase' = "running"
  /\ file' = Saved(settings, inForce)
  /\ watched' = settings["daemon"]
  /\ unsaved' = FALSE
  /\ UNCHANGED <<closing, settings, inForce, wanted>>

\* Mutant: the settings main has had since its start are written.
saveAndLeaveMut ==
  /\ phase = "running" /\ closing
  /\ phase' = "saved"
  /\ file' = settings
  /\ unsaved' = FALSE
  /\ UNCHANGED <<closing, settings, inForce, watched, wanted>>

\* The loop finds the flag set.
saveAndLeave ==
  /\ phase = "running" /\ closing
  /\ phase' = "saved"
  /\ file' = Saved(settings, inForce)
  /\ unsaved' = FALSE
  /\ UNCHANGED <<closing, settings, inForce, watched, wanted>>

\* A change that comes after the settings were saved is lost.
closeSession ==
  /\ phase = "saved"
  /\ phase' = "closed"
  /\ wanted' = IF unsaved THEN Unset ELSE wanted
  /\ UNCHANGED <<closing, file, settings, inForce, watched, unsaved>>

Ended ==
  /\ phase' = "off"
  /\ unsaved' = FALSE
  /\ UNCHANGED <<closing, file, settings, inForce, watched>>

exit ==
  /\ phase = "closed"
  /\ Ended /\ UNCHANGED wanted

-----------------------------------------------------------------------------
(* Signals and RPC requests *)

HasSession == phase \in {"opened", "running", "saved"}

\* Mutant: a change of the session's settings closes it.
onSignalMut ==
  /\ phase # "off" /\ closing' \in BOOLEAN
  /\ UNCHANGED <<phase, file, settings, inForce, watched, wanted, unsaved>>

\* SIGINT, SIGTERM; TR_RPC_SESSION_CLOSE comes to the same.
onSignal ==
  /\ phase # "off" /\ closing' = TRUE
  /\ UNCHANGED <<phase, file, settings, inForce, watched, wanted, unsaved>>

\* SIGHUP: the session takes the values of the file; main keeps its own.
reload ==
  /\ HasSession
  /\ inForce' = file["session"]
  /\ wanted' = IF unsaved \/ phase = "opened" THEN Unset ELSE wanted
  /\ unsaved' = FALSE
  /\ UNCHANGED <<phase, closing, file, settings, watched>>

\* SIGHUP when there is no session, not yet or no more: the handler uses it all the same.
reloadWithoutSession ==
  /\ phase \in {"starting", "closed"}
  /\ Ended /\ wanted' = Unset

rpcSessionSet(v) ==
  /\ HasSession
  /\ inForce' = v
  /\ wanted' = v /\ unsaved' = TRUE
  /\ UNCHANGED <<phase, closing, file, settings, watched>>

-----------------------------------------------------------------------------
(* Outside *)

userEditsFile(k, v) ==
  /\ file' = [file EXCEPT ![k] = v]
  /\ wanted' = Unset
  /\ UNCHANGED <<phase, closing, settings, inForce, watched, unsaved>>

kill ==
  /\ phase # "off"
  /\ Ended /\ wanted' = Unset

Main ==
  \/ openSession \/ startUp \/ saveAndLeave \/ closeSession \/ exit

DaemonNext ==
  \/ \E option \in [Key -> Value \cup {Unset}] : loadSettings(option)
  \/ Main
  \/ onSignal \/ reload \/ reloadWithoutSession
  \/ \E v \in Value : rpcSessionSet(v)
  \/ \E k \in Key, v \in Value : userEditsFile(k, v)
  \/ kill

DaemonSpec == DaemonInit /\ [][DaemonNext]_daemonVars

\* main goes on until it returns.
DaemonFairSpec == DaemonSpec /\ WF_daemonVars(Main)

-----------------------------------------------------------------------------
(* Properties *)

\* A setting asked for with an option or over RPC is in force, whatever reloads come, and it
\* is still in force after an orderly end and a new start without options; a reload takes back
\* only what no file has yet, and only an edit of the file, a kill or a SIGHUP without a session
\* ends the claim.
WantedIsKept ==
  /\ phase = "running" /\ wanted # Unset => inForce = wanted
  /\ phase \in {"off", "closed"} /\ wanted # Unset => file["session"] = wanted

\* The inductive invariant of WantedIsKept: where the claimed value is at each phase, and
\* when the file has it, so that a reload finds it there.
KeptInv ==
  wanted # Unset =>
    /\ phase = "starting" => settings["session"] = wanted
    /\ phase \in {"opened", "running"} => inForce = wanted
    /\ phase \in {"off", "closed"} => file["session"] = wanted
    /\ phase \in {"running", "saved"} /\ ~unsaved => file["session"] = wanted

\* Once asked to close, the daemon ends, whatever signals and requests come meanwhile.
ClosingEnds == (closing /\ phase = "running") ~> phase = "off"
=============================================================================
