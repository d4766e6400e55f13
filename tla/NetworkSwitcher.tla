-------------------------- MODULE NetworkSwitcher --------------------------
(***************************************************************************)
(* ITNetworkSwitcher: it watches the reachability of the Internet and, by  *)
(* the two network switches of the preferences, puts every listed torrent  *)
(* to sleep or wakes it. The torrents are those of ITTorrent; the list is  *)
(* given to this module (Transfers is about it), and sharedController is   *)
(* nil, so that there are no torrents to send to, until the launch thread  *)
(* has made the controller.                                                *)
(*                                                                         *)
(* All handlers run on the main thread; the threads that stop a torrent    *)
(* and libtransmission itself run beside it.                               *)
(***************************************************************************)
EXTENDS ITTorrent

CONSTANTS Torrent,
          MaxStops  \* bound: users and network wait while a torrent has this many stop threads

ASSUME MaxStopsAssumption == MaxStops \in Nat

VARIABLES
  actual,     \* what the network is
  notifying,  \* the run loop has come to startNotifier
  notice,     \* a reachability notification is on its way
  status,     \* currentNetworkStatus
  wifi,       \* the UseWiFi preference
  mobile,     \* the UseCellular preference
  policy,     \* enforcedPolicy
  ready,      \* sharedController is not nil
  torrents,   \* ITController.torrents
  tor,        \* run control of each torrent
  \* A history variable; no step reads it.
  owed        \* torrents a sleep found running and no wake was sent to since

netVars == <<actual, notifying, notice, status>>
prefVars == <<wifi, mobile>>
torVars == <<torrents, tor, owed>>
vars == <<netVars, prefVars, policy, ready, torVars>>

NetworkStatus == {"NotReachable", "WiFi", "WWAN"}
Policy == {"disable", "enable"}

TypeOK ==
  /\ actual \in NetworkStatus /\ status \in NetworkStatus
  /\ notifying \in BOOLEAN /\ notice \in BOOLEAN
  /\ wifi \in BOOLEAN /\ mobile \in BOOLEAN
  /\ policy \in Policy
  /\ ready \in BOOLEAN
  /\ torrents \subseteq Torrent
  /\ tor \in [Torrent -> RunControl]
  /\ owed \subseteq Torrent

-----------------------------------------------------------------------------
(* The policy *)

Allowed(b) == IF b THEN "enable" ELSE "disable"

\* updatePolicyForNetworkStatus: the policies it enforces, one after the other.
\* The WiFi case has no break and goes on with the one for the cellular network.
PoliciesFor(s, w, m) ==
  CASE s = "NotReachable" -> <<"disable">>
    [] s = "WiFi" -> <<Allowed(w), Allowed(m)>>
    [] s = "WWAN" -> <<Allowed(m)>>

\* The objects the policy is applied to.
Told == IF ready THEN torrents ELSE {}

\* sleep or wakeUp is sent to every object; "c" holds the variables this changes.
slept(c) ==
  [policy |-> "disable",
   tor |-> [t \in Torrent |-> IF t \in Told THEN sleep(c.tor[t]) ELSE c.tor[t]],
   owed |-> c.owed \cup {t \in Told : isActive(c.tor[t])}]

woke(c, a) ==
  [policy |-> "enable",
   tor |-> [t \in Torrent |-> IF t \in Told THEN wakeUp(c.tor[t], a[t]) ELSE c.tor[t]],
   owed |-> c.owed \ Told]

\* Mutant: a policy that is in force is enforced again.
setEnforcedPolicyMut(c, p, a) == IF p = "disable" THEN slept(c) ELSE woke(c, a)

setEnforcedPolicy(c, p, a) ==
  IF p = c.policy THEN c ELSE IF p = "disable" THEN slept(c) ELSE woke(c, a)

Now == [policy |-> policy, tor |-> tor, owed |-> owed]

Enforced(s, w, m, a) ==
  LET ps == PoliciesFor(s, w, m)
      first == setEnforcedPolicy(Now, ps[1], a)
  IN IF s = "WiFi" THEN setEnforcedPolicy(first, ps[2], a) ELSE first

updatePolicyForNetworkStatus(s, w, m) ==
  \E a \in [Torrent -> StartOutcome] :
    LET c == Enforced(s, w, m, a)
    IN /\ policy' = c.policy /\ tor' = c.tor
       /\ owed' = c.owed

\* The initializer of the switcher, at the end of the launch: the policy is
\* disabled, then updated for the status read; there are no torrents yet.
Init ==
  /\ actual \in NetworkStatus /\ status = actual
  /\ notifying = FALSE /\ notice = FALSE
  /\ wifi \in BOOLEAN /\ mobile \in BOOLEAN
  /\ policy = IF status = "NotReachable" THEN "disable" ELSE Allowed(mobile)
  /\ ready = FALSE
  /\ torrents = {}
  /\ tor = [t \in Torrent |-> Created]
  /\ owed = {}

Room == \A t \in Torrent : tor[t].stops < MaxStops

-----------------------------------------------------------------------------
(* The network and its notifications *)

\* performSelector:startNotifier afterDelay:0. A change before it is not noticed,
\* unless the system reports the state once on its own.
startNotifier ==
  /\ ~notifying
  /\ notifying' = TRUE
  /\ notice' \in BOOLEAN
  /\ UNCHANGED <<actual, status, prefVars, policy, ready, torVars>>

networkChanges(s) ==
  /\ s # actual /\ Room
  /\ actual' = s
  /\ notice' = (notice \/ notifying)
  /\ UNCHANGED <<notifying, status, prefVars, policy, ready, torVars>>

\* Mutant: the status is recorded only when the policy changes with it.
reachabilityChangedNotificationMut ==
  /\ notice /\ notice' = FALSE
  /\ \/ /\ status = actual
        /\ UNCHANGED <<status, policy, torVars>>
     \/ /\ status # actual
        /\ updatePolicyForNetworkStatus(actual, wifi, mobile)
        /\ status' = IF policy' # policy THEN actual ELSE status
        /\ UNCHANGED torrents
  /\ UNCHANGED <<actual, notifying, prefVars, ready>>

\* The handler reads the network anew and does nothing if it is what it knows.
reachabilityChangedNotification ==
  /\ notice /\ notice' = FALSE
  /\ \/ /\ status = actual
        /\ UNCHANGED <<status, policy, torVars>>
     \/ /\ status # actual
        /\ updatePolicyForNetworkStatus(actual, wifi, mobile)
        /\ status' = actual
        /\ UNCHANGED torrents
  /\ UNCHANGED <<actual, notifying, prefVars, ready>>

-----------------------------------------------------------------------------
(* The preferences *)

setUseWiFiNetwork(b) ==
  /\ Room /\ wifi' = b
  /\ updatePolicyForNetworkStatus(status, b, mobile)
  /\ UNCHANGED <<netVars, mobile, ready, torrents>>

\* Mutant: the policy is updated before the preference is stored.
setUseMobileNetworkMut(b) ==
  /\ Room /\ mobile' = b
  /\ updatePolicyForNetworkStatus(status, wifi, mobile)
  /\ UNCHANGED <<netVars, wifi, ready, torrents>>

setUseMobileNetwork(b) ==
  /\ Room /\ mobile' = b
  /\ updatePolicyForNetworkStatus(status, wifi, b)
  /\ UNCHANGED <<netVars, wifi, ready, torrents>>

-----------------------------------------------------------------------------
(* The torrents *)

envVars == <<netVars, prefVars, policy>>

\* The launch thread has made the controller.
controllerReady ==
  /\ ~ready /\ ready' = TRUE
  /\ UNCHANGED <<envVars, torVars>>

\* A torrent is loaded, opened or added over RPC, and started or not; none of
\* the three asks for the policy.
torrentAdded(t, r) ==
  /\ t \notin torrents
  /\ torrents' = torrents \cup {t}
  /\ tor' = [tor EXCEPT ![t] = r]
  /\ UNCHANGED <<envVars, ready, owed>>

torrentRemoved(t) ==
  /\ ready /\ t \in torrents
  /\ torrents' = torrents \ {t}
  /\ tor' = [tor EXCEPT ![t] = Created]
  /\ owed' = owed \ {t}
  /\ UNCHANGED <<envVars, ready>>

\* The timer, a posted update or an RPC request takes a new snapshot.
snapshot(t) ==
  /\ t \in torrents
  /\ tor' = [tor EXCEPT ![t] = update(@)]
  /\ UNCHANGED <<envVars, ready, torrents, owed>>

\* The button of its row (the thread it runs stopTransfer on is in Transfers).
userStops(t) ==
  /\ t \in torrents /\ Room
  /\ isActive(tor[t])
  /\ tor' = [tor EXCEPT ![t] = stopTransfer(@)]
  /\ UNCHANGED <<envVars, ready, torrents, owed>>

\* The button of its row, or entering the background, which starts every torrent.
userStarts(t, space, a) ==
  /\ ready /\ t \in torrents
  /\ tor' = [tor EXCEPT ![t] = startTransfer(@, space, a)]
  /\ UNCHANGED <<envVars, ready, torrents, owed>>

\* A start or stop over RPC, a limit, the queue.
librarySets(t, s) ==
  /\ t \in torrents
  /\ tor' = [tor EXCEPT ![t].act = s]
  /\ UNCHANGED <<envVars, ready, torrents, owed>>

_stopInBackground(t) ==
  /\ tor[t].stops > 0
  /\ tor' = [tor EXCEPT ![t] = stopInBackground(@)]
  /\ UNCHANGED <<envVars, ready, torrents, owed>>

-----------------------------------------------------------------------------
(* The specification *)

Next ==
  \/ startNotifier
  \/ \E s \in NetworkStatus : networkChanges(s)
  \/ reachabilityChangedNotification
  \/ \E b \in BOOLEAN : setUseWiFiNetwork(b) \/ setUseMobileNetwork(b)
  \/ controllerReady
  \/ \E t \in Torrent, a \in StartOutcome :
       \/ torrentAdded(t, Created)
       \/ torrentAdded(t, startTransfer(Created, TRUE, a))
       \/ torrentAdded(t, Wrapped(a))
  \/ \E t \in Torrent : torrentRemoved(t) \/ snapshot(t) \/ userStops(t)
  \/ \E t \in Torrent, space \in BOOLEAN, a \in StartOutcome : userStarts(t, space, a)
  \/ \E t \in Torrent, s \in StartOutcome \cup {"stopped"} : librarySets(t, s)
  \/ \E t \in Torrent : _stopInBackground(t)

Spec == Init /\ [][Next]_vars

\* The run loop delivers the notification.
FairSpec == Spec /\ WF_vars(reachabilityChangedNotification)

-----------------------------------------------------------------------------
(* Properties *)

\* Whatever order the network, its notifications and the two switches change in, the
\* policy enables transfers only on a network the program knows of, and on the cellular
\* network only when its switch is on: "may generate significant data charges".
NoUnaskedCellular ==
  policy = "enable" => status # "NotReachable" /\ (status = "WWAN" => mobile)

\* A torrent that was put to sleep is still marked for its restart, however often the
\* network goes from one disallowed state to another before a wake comes.
OwedIsFlagged == \A t \in owed : tor[t].resume

\* When the policy becomes enabled, every torrent the last sleep found running and
\* that is still listed is running or queued again at once.
WakeRestartsSlept ==
  [][policy = "disable" /\ policy' = "enable" =>
       \A t \in owed \cap Told : tor'[t].act # "stopped"]_vars

\* Whatever order the two switches and the notifications come in, the policy is the one
\* the switches say, wherever the program reads them apart: nothing without a network,
\* the cellular switch on a cellular network, and on WiFi what both say if they agree.
\* (With the missing break, on WiFi the cellular switch wins over the WiFi switch.)
SwitchesObeyed ==
  /\ status = "NotReachable" => policy = "disable"
  /\ status = "WWAN" => policy = Allowed(mobile)
  /\ status = "WiFi" /\ wifi = mobile => policy = Allowed(wifi)

\* A change of the network the system told the program of ends in its status, unless
\* the network changes once more.
NoticeIsAdopted ==
  \A s \in NetworkStatus : (notice /\ actual = s) ~> (status = s \/ actual # s)
=============================================================================
