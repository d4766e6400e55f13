-------------------------------- MODULE Prefs --------------------------------
(***************************************************************************)
(* The preferences of the app (ITPrefsController, ITPrefViewController,    *)
(* ITKeyboardController and ITController init). A setting lives in up to   *)
(* three places: NSUserDefaults, which survives the process, the           *)
(* libtransmission session, and the screen. The user's changes come on the *)
(* main thread, RPC changes on libtransmission's; the latter are copied to *)
(* NSUserDefaults by a message to the main thread. RPC is served from      *)
(* tr_sessionInit on, and the callback that posts the message is set only  *)
(* when the preferences' controller was made, which may download a block   *)
(* list first: what changes in between is copied by no message of its own. *)
(*                                                                         *)
(* One setting stands for all that are kept alike:                         *)
(*   PeersTotal        PeersTorrent: 16-bit numbers shown from the defaults *)
(*   BindPort          the peer port, shown from the session               *)
(*   DownloadLimit     UploadLimit; CheckDownload is the flag that goes    *)
(*                     with it, CheckUpload with the other                 *)
(*   DHTGlobal         UTPGlobal, PEXGlobal, AutoStartDownload             *)
(*   NatTraversal      the switch that is shown from the session           *)
(*   BlocklistEnabled  the switch that only sets the session               *)
(*   RandomPort, EncryptionMode  set over RPC only                         *)
(* A switch is 0 or 1. The session's numbers are unsigned, of 16 bits (W   *)
(* values), the limit of 32 (LimitW); those of NSUserDefaults are not.     *)
(***************************************************************************)
EXTENDS Integers, Sequences

CONSTANTS
  W,           \* 2^16
  LimitW,      \* 2^32
  Typed,       \* the numbers users type
  Sent,        \* the numbers RPC clients send
  Factory,     \* the values of Defaults.plist
  Encryption,  \* libtransmission's own default of EncryptionMode
  EarlyView,   \* the preferences may be opened before there is a sharedController
  MaxChanges,  \* bound: changes by the user and over RPC
  MaxLaunches  \* bound: launches of the app

ASSUME WordAssumption ==
  /\ W \in Nat /\ W > 1 /\ LimitW \in Nat /\ LimitW > 1
  /\ Typed \subseteq Int /\ Sent \subseteq Int /\ Encryption \in {0, 1}
  /\ EarlyView \in BOOLEAN

Field == {"PeersTotal", "BindPort", "DownloadLimit"}
Switch == {"DHTGlobal", "NatTraversal", "CheckDownload", "BlocklistEnabled", "RandomPort",
           "EncryptionMode"}
Setting == Field \cup Switch

\* The order in which rpcUpdatePrefs copies them.
Order == <<"EncryptionMode", "PeersTotal", "DHTGlobal", "BindPort", "NatTraversal",
           "RandomPort", "CheckDownload", "DownloadLimit", "BlocklistEnabled">>

None == "none"

ASSUME FactoryAssumption == Factory \in [Setting -> Int]

VARIABLES
  app,       \* where the process is: its phases are in Phase
  defaults,  \* NSUserDefaults, with Defaults.plist under it
  session,   \* what libtransmission has in force
  loaded,    \* the preferences' view is loaded
  screen,    \* what its fields and switches show
  editing,   \* the text field being edited (currentTextField), or None
  original,  \* its text when the editing began (originalText), 0 while nothing is edited
  busy,      \* the setter that has written the defaults and not yet the session, or None
  changed,   \* an RPC request has changed the session and not yet called back
  posted,    \* rpcUpdatePrefs messages under way to the main thread
  next,      \* where the running rpcUpdatePrefs is in Order
  \* History variables; no step reads them.
  asked,     \* the value last brought into force by a change or a launch
  unheard,   \* settings that changed in the session before it had a callback, not copied since
  changes, launches

\* "off", the session is open ("opening"), the random port is saved and the block list
\* downloaded ("preparing"), and RPC has its callback and the user a sharedController ("on";
\* between the two the torrents are loaded, which Transfers is about).
Phase == {"off", "opening", "preparing", "on"}

sessionVars == <<session, asked, unheard>>
screenVars == <<loaded, screen, editing, original>>
rpcVars == <<changed, posted, next>>
vars == <<app, defaults, session, loaded, screen, editing, original, busy, changed, posted,
          next, asked, unheard, changes, launches>>

Value(s) == IF s \in Switch THEN {0, 1} ELSE Sent

\* tr_port, uint16_t and unsigned int in libtransmission's setters.
Narrow(s, v) ==
  CASE s \in {"PeersTotal", "BindPort"} -> v % W
    [] s = "DownloadLimit" -> v % LimitW
    [] OTHER -> v

\* rpcUpdatePrefs has the limit in an int.
Signed(s, v) == IF s = "DownloadLimit" /\ 2 * v >= LimitW THEN v - LimitW ELSE v

\* The getters of ITPrefsController: bindPort and isNatTransversalEnabled ask the session, the
\* others the defaults. Without a sharedController all of them give nil.
Shown(s, d, x) ==
  IF app # "on" THEN 0 ELSE IF s \in {"BindPort", "NatTraversal"} THEN x[s] ELSE d[s]

TypeOK ==
  /\ app \in Phase /\ loaded \in BOOLEAN /\ changed \in BOOLEAN
  /\ defaults \in [Setting -> Int] /\ session \in [Setting -> Int]
  /\ screen \in [Setting -> Int] /\ asked \in [Setting -> Int]
  /\ editing \in Field \cup {None} /\ original \in Int
  /\ busy \in Setting \cup {None}
  /\ unheard \subseteq Setting
  /\ posted \in Nat /\ next \in 1..Len(Order) + 1
  /\ changes \in Nat /\ launches \in Nat

\* What stands for the session and the screen of a process that is not there.
NoSession == [s \in Setting |-> Narrow(s, Factory[s])]
NoScreen == Factory

Init ==
  /\ app = "off" /\ loaded = FALSE /\ changed = FALSE
  /\ defaults = Factory /\ screen = NoScreen
  /\ session = NoSession /\ asked = session /\ unheard = {}
  /\ editing = None /\ original = 0 /\ busy = None
  /\ posted = 0 /\ next = Len(Order) + 1
  /\ changes = 0 /\ launches = 0

-----------------------------------------------------------------------------
(* Launch and end *)

\* Mutant: the DHT switch is not among the settings either.
FromDefaultsMut(d, port) ==
  [s \in Setting |->
     IF s \in {"EncryptionMode", "DHTGlobal"} THEN 1
     ELSE IF s = "BindPort" /\ d["RandomPort"] = 1 THEN port
     ELSE Narrow(s, d[s])]

\* The settings ITController init gives to tr_sessionInit; the encryption mode is not among them.
FromDefaults(d, port) ==
  [s \in Setting |->
     IF s = "EncryptionMode" THEN Encryption
     ELSE IF s = "BindPort" /\ d["RandomPort"] = 1 THEN port
     ELSE Narrow(s, d[s])]

IsRandom == defaults["RandomPort"] = 1

\* tr_sessionInit; a random port is new.
openSession(port) ==
  /\ app = "off" /\ launches < MaxLaunches
  /\ app' = "opening" /\ launches' = launches + 1
  /\ session' = FromDefaults(defaults, port)
  /\ asked' = IF IsRandom THEN [asked EXCEPT !["BindPort"] = port] ELSE asked
  /\ unheard' = IF IsRandom THEN {"BindPort"} ELSE {}
  /\ UNCHANGED <<defaults, screenVars, busy, rpcVars, changes>>

\* The preferences' controller saves the random port before it downloads the block list.
initWithHandle ==
  /\ app = "opening" /\ app' = "preparing"
  /\ IF IsRandom THEN /\ defaults' = [defaults EXCEPT !["BindPort"] = session["BindPort"]]
                      /\ unheard' = unheard \ {"BindPort"}
                 ELSE UNCHANGED <<defaults, unheard>>
  /\ UNCHANGED <<session, asked, screenVars, busy, rpcVars, changes, launches>>

\* tr_sessionSetRPCCallback, and the end of the launch.
setRPCCallback ==
  /\ app = "preparing" /\ app' = "on"
  /\ UNCHANGED <<defaults, sessionVars, screenVars, busy, rpcVars, changes, launches>>

\* The process ends, at any point: the user or iOS kills it, or it crashes. A change that was
\* not through by then is up to what the defaults have.
Settled == busy = None /\ ~changed /\ posted = 0 /\ next > Len(Order)

kill ==
  /\ app # "off"
  /\ app' = "off" /\ loaded' = FALSE /\ changed' = FALSE
  /\ editing' = None /\ busy' = None /\ posted' = 0 /\ next' = Len(Order) + 1
  /\ asked' = [s \in Setting |-> IF Settled /\ s \notin unheard THEN asked[s]
                                                              ELSE Narrow(s, defaults[s])]
  /\ unheard' = {}
  /\ session' = NoSession /\ screen' = NoScreen /\ original' = 0
  /\ UNCHANGED <<defaults, changes, launches>>

-----------------------------------------------------------------------------
(* The user, on the main thread *)

MainIsFree == app # "off" /\ busy = None /\ next > Len(Order)

\* What the user does before there is a sharedController is sent to nil and left out.
UserActs == MainIsFree /\ app = "on" /\ loaded

mayChange == changes < MaxChanges /\ changes' = changes + 1

viewDidLoad ==
  /\ MainIsFree /\ ~loaded /\ (app = "on" \/ EarlyView)
  /\ loaded' = TRUE /\ screen' = [s \in Setting |-> Shown(s, defaults, session)]
  /\ UNCHANGED <<app, defaults, sessionVars, editing, original, busy, rpcVars, changes, launches>>

\* A setter writes the defaults first ...
write(s, v) == defaults' = [defaults EXCEPT ![s] = v] /\ busy' = s

\* ... and then the session, and posts the notification by which the screen is updated. The
\* setter of the limit brings its flag into force as well.
apply ==
  /\ busy # None
  /\ session' = IF busy = "DownloadLimit"
                THEN [session EXCEPT !["CheckDownload"] = defaults["CheckDownload"],
                                     !["DownloadLimit"] = Narrow(busy, defaults[busy])]
                ELSE [session EXCEPT ![busy] = Narrow(busy, defaults[busy])]
  /\ asked' = [asked EXCEPT ![busy] = session'[busy]]
  /\ unheard' = unheard \ {busy}
  /\ screen' = IF loaded THEN [screen EXCEPT ![busy] = Shown(busy, defaults, session')] ELSE screen
  /\ busy' = None
  /\ UNCHANGED <<app, defaults, loaded, editing, original, rpcVars, changes, launches>>

flipped(s) == UserActs /\ mayChange /\ screen' = [screen EXCEPT ![s] = 1 - screen[s]]

flipSwitch(s) ==
  /\ flipped(s) /\ write(s, 1 - screen[s])
  /\ UNCHANGED <<app, sessionVars, loaded, editing, original, rpcVars, launches>>

\* setLimits writes the flag to the defaults and leaves it there.
flipLimits ==
  /\ flipped("CheckDownload")
  /\ defaults' = [defaults EXCEPT !["CheckDownload"] = 1 - screen["CheckDownload"]]
  /\ UNCHANGED <<app, sessionVars, loaded, editing, original, busy, rpcVars, launches>>

\* setBlocklistEnabled sets the session only.
flipBlocklist ==
  /\ flipped("BlocklistEnabled")
  /\ session' = [session EXCEPT !["BlocklistEnabled"] = 1 - screen["BlocklistEnabled"]]
  /\ UNCHANGED <<app, defaults, asked, unheard, loaded, editing, original, busy, rpcVars, launches>>

-----------------------------------------------------------------------------
(* Editing a text field *)

textFieldDidBeginEditing(f) ==
  /\ UserActs /\ editing = None
  /\ editing' = f /\ original' = screen[f]
  /\ UNCHANGED <<app, defaults, sessionVars, loaded, screen, busy, rpcVars, changes, launches>>

typeText(v) ==
  /\ UserActs /\ editing # None /\ mayChange
  /\ screen' = [screen EXCEPT ![editing] = v]
  /\ UNCHANGED <<app, defaults, sessionVars, loaded, editing, original, busy, rpcVars, launches>>

\* However an edit ends, its text is given to the setter; Cancel puts the original text back first.
textFieldDidEndEditing(text) ==
  /\ UserActs /\ editing # None
  /\ screen' = [screen EXCEPT ![editing] = text]
  /\ write(editing, text)
  /\ editing' = None /\ original' = 0
  /\ UNCHANGED <<app, sessionVars, loaded, rpcVars, changes, launches>>

doneButtonClicked == textFieldDidEndEditing(screen[editing])
cancelButtonClicked == textFieldDidEndEditing(original)

-----------------------------------------------------------------------------
(* RPC *)

\* session-set on libtransmission's thread; one request may change several settings.
rpcSessionSet(s, v) ==
  /\ app # "off" /\ mayChange
  /\ session' = [session EXCEPT ![s] = Narrow(s, v)]
  /\ asked' = [asked EXCEPT ![s] = Narrow(s, v)]
  /\ changed' = TRUE
  /\ unheard' = IF app = "on" THEN unheard ELSE unheard \cup {s}
  /\ UNCHANGED <<app, defaults, screenVars, busy, posted, next, launches>>

\* Mutant: a change during rpcUpdatePrefs is taken for copied.
rpcCallbackMut ==
  /\ changed /\ changed' = FALSE
  /\ posted' = IF app = "on" /\ next > Len(Order) THEN posted + 1 ELSE posted
  /\ UNCHANGED <<app, defaults, sessionVars, screenVars, busy, next, changes, launches>>

\* The request ends; the callback, once there is one, posts rpcUpdatePrefs to the main thread.
rpcCallback ==
  /\ changed /\ changed' = FALSE
  /\ posted' = IF app = "on" THEN posted + 1 ELSE posted
  /\ UNCHANGED <<app, defaults, sessionVars, screenVars, busy, next, changes, launches>>

rpcUpdatePrefs ==
  /\ MainIsFree /\ posted > 0
  /\ posted' = posted - 1 /\ next' = 1
  /\ UNCHANGED <<app, defaults, sessionVars, screenVars, busy, changed, changes, launches>>

\* Mutant: a number is left out.
copyNextMutSkip ==
  /\ next <= Len(Order)
  /\ LET s == Order[next] IN
       /\ defaults' = IF s = "DownloadLimit" THEN defaults
                      ELSE [defaults EXCEPT ![s] = Signed(s, session[s])]
       /\ unheard' = unheard \ {s}
  /\ next' = next + 1
  /\ UNCHANGED <<app, session, asked, screenVars, busy, changed, posted, changes, launches>>

copyNext ==
  /\ next <= Len(Order)
  /\ LET s == Order[next] IN
       /\ defaults' = [defaults EXCEPT ![s] = Signed(s, session[s])]
       /\ unheard' = unheard \ {s}
  /\ next' = next + 1
  /\ UNCHANGED <<app, session, asked, screenVars, busy, changed, posted, changes, launches>>

-----------------------------------------------------------------------------

User ==
  \/ viewDidLoad \/ flipLimits \/ flipBlocklist
  \/ \E s \in {"DHTGlobal", "NatTraversal"} : flipSwitch(s)
  \/ \E f \in Field : textFieldDidBeginEditing(f)
  \/ \E v \in Typed : typeText(v)
  \/ doneButtonClicked \/ cancelButtonClicked

Next ==
  \/ \E port \in 0..W - 1 : openSession(port)
  \/ initWithHandle \/ setRPCCallback
  \/ kill
  \/ User
  \/ apply
  \/ \E s \in Setting : \E v \in Value(s) : rpcSessionSet(s, v)
  \/ rpcCallback \/ rpcUpdatePrefs \/ copyNext

Spec == Init /\ [][Next]_vars

\* The main thread goes on with what it has begun, libtransmission with its request. The run
\* loop serves the messages posted to it between the user's events, so that edits, which keep it
\* busy again and again, do not put one off for ever. Nothing makes the user act.
FairSpec ==
  /\ Spec
  /\ WF_vars(apply) /\ WF_vars(rpcCallback) /\ SF_vars(rpcUpdatePrefs) /\ WF_vars(copyNext)

-----------------------------------------------------------------------------
(* Properties *)

\* The settings the app means to keep from launch to launch and does.
Kept == Setting \ {"CheckDownload", "BlocklistEnabled", "EncryptionMode"}

\* rpcUpdatePrefs will yet copy s.
Uncopied(s) == \E i \in next..Len(Order) : Order[i] = s

\* What the session has is what was last asked for; while no change is on its way, the defaults
\* have it too, and after a launch the session has what the defaults had. The exception is a
\* change that came over RPC before the session had its callback: it is in the session only,
\* until some later change makes rpcUpdatePrefs copy all settings.
KeptInv == \A s \in Kept :
  /\ app # "off" => session[s] = asked[s]
  /\ busy # s /\ ~changed /\ posted = 0 /\ ~Uncopied(s) /\ s \notin unheard
       => Narrow(s, defaults[s]) = asked[s]

\* Whoever changes a setting last, the user or an RPC client, wins: once no setter, request or
\* message is under way, the session and the defaults agree on that value, in this run of the app
\* and in the next (the setters, rpcUpdatePrefs, ITController init), but for the changes over
\* RPC between tr_sessionInit and tr_sessionSetRPCCallback, which only the session has.
LastChangeWins ==
  app # "off" /\ Settled =>
    \A s \in Kept : session[s] = asked[s]
                   /\ (s \notin unheard => Narrow(s, defaults[s]) = asked[s])

\* Once changes cease (they are bounded here), the defaults come to have every value in force,
\* unless the app ends first, whatever edits go on (TR_RPC_SESSION_CHANGED, rpcUpdatePrefs); a
\* change the callback was not there for stays out of them.
AskedIsSaved ==
  \A s \in Kept :
    app # "off" ~> (Narrow(s, defaults[s]) = asked[s] \/ app = "off" \/ s \in unheard)
=============================================================================
