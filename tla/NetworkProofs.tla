--------------------------- MODULE NetworkProofs ---------------------------
(***************************************************************************)
(* Theorems about NetworkSwitcher, for any set of torrents.                *)
(***************************************************************************)
EXTENDS NetworkSwitcher, TLAPS

\* The inductive invariant. The policy is what the handlers as they are written leave for
\* the last adopted status: on WiFi, whose case falls into that of the cellular network,
\* what the cellular switch says. A torrent that is owed a wake is one the switcher
\* reaches, while the policy is disabled.
NetInv ==
  /\ policy = IF status = "NotReachable" THEN "disable" ELSE Allowed(mobile)
  /\ owed \subseteq Told
  /\ policy = "enable" => owed = {}
  /\ OwedIsFlagged

\* The operators of ITTorrent the switcher and its environment use keep the type.
LEMMA ControlTypes ==
  ASSUME NEW r \in RunControl
  PROVE  /\ Created \in RunControl
         /\ update(r) \in RunControl
         /\ sleep(r) \in RunControl /\ (sleep(r).resume <=> isActive(r))
         /\ stopTransfer(r) \in RunControl
         /\ (r.stops > 0 => stopInBackground(r) \in RunControl)
         /\ \A s \in Activity : Wrapped(s) \in RunControl /\ [r EXCEPT !.act = s] \in RunControl
         /\ \A a \in StartOutcome : wakeUp(r, a) \in RunControl
         /\ \A a \in StartOutcome, space \in BOOLEAN : startTransfer(r, space, a) \in RunControl
<1>1. \A s \in Activity : [r EXCEPT !.act = s] \in RunControl
  BY DEF RunControl
<1>2. Created \in RunControl /\ \A s \in Activity : Wrapped(s) \in RunControl
  BY DEF RunControl, Created, Wrapped, Activity
<1>3. \A q \in RunControl : update(q) \in RunControl
  BY DEF RunControl, update
<1>4. \A a \in StartOutcome : started(r, a) \in RunControl
  BY <1>1, StartOutcomeAssumption DEF started, Activity
<1>5. \A a \in StartOutcome, space \in BOOLEAN : startTransfer(r, space, a) \in RunControl
  BY <1>3, <1>4 DEF startTransfer
<1>6. \A a \in StartOutcome : wakeUp(r, a) \in RunControl
  BY <1>4 DEF wakeUp
<1>7. \A n \in Nat : [r EXCEPT !.stops = n] \in RunControl
  BY DEF RunControl
<1>8. r.stops \in Nat /\ r.stops + 1 \in Nat /\ (r.stops > 0 => r.stops - 1 \in Nat)
  <2>1. r.stops \in Nat
    BY DEF RunControl
  <2>2. QED BY <2>1
<1>9. stopTransfer(r) \in RunControl
  BY <1>3, <1>7, <1>8 DEF stopTransfer
<1>10. sleep(r) \in RunControl /\ (sleep(r).resume <=> isActive(r))
  BY <1>8 DEF sleep, RunControl, isActive
<1>11. r.stops > 0 => stopInBackground(r) \in RunControl
  BY <1>8 DEF stopInBackground, RunControl, Activity
<1>12. QED BY <1>1, <1>2, <1>3, <1>5, <1>6, <1>9, <1>10, <1>11

\* The records setEnforcedPolicy works on.
Carried == [policy: Policy, tor: [Torrent -> RunControl],
            owed: SUBSET Torrent]

\* Such a record is fit when no torrent is owed a wake under the enabled policy, and
\* the torrents that are owed one are reached and flagged.
Fit(c) ==
  /\ c.owed \subseteq Told
  /\ c.policy = "enable" => c.owed = {}
  /\ \A t \in c.owed : c.tor[t].resume

\* Enforcing a policy makes it the policy and keeps a fit record fit.
LEMMA EnforceStep ==
  ASSUME NEW c \in Carried, Fit(c), NEW p \in Policy, NEW a \in [Torrent -> StartOutcome],
         Told \subseteq Torrent
  PROVE  LET d == setEnforcedPolicy(c, p, a)
         IN d \in Carried /\ Fit(d) /\ d.policy = p
<1>1. CASE p = c.policy
  BY <1>1 DEF setEnforcedPolicy
<1>2. CASE p # c.policy /\ p = "disable"
  <2>1. setEnforcedPolicy(c, p, a) = slept(c) /\ c.owed = {}
    BY <1>2 DEF setEnforcedPolicy, Fit, Policy, Carried
  <2>2. \A t \in Torrent : sleep(c.tor[t]) \in RunControl
                        /\ (sleep(c.tor[t]).resume <=> isActive(c.tor[t]))
    BY ControlTypes DEF Carried
  <2>3. slept(c) \in Carried /\ slept(c).policy = "disable"
    BY <2>2 DEF slept, Carried, Policy
  <2>4. Fit(slept(c))
    BY <2>1, <2>2 DEF slept, Fit
  <2>5. QED BY <1>2, <2>1, <2>3, <2>4
<1>3. CASE p # c.policy /\ p = "enable"
  <2>1. setEnforcedPolicy(c, p, a) = woke(c, a)
    BY <1>3 DEF setEnforcedPolicy
  <2>2. \A t \in Torrent : wakeUp(c.tor[t], a[t]) \in RunControl
    BY ControlTypes DEF Carried
  <2>3. woke(c, a) \in Carried /\ woke(c, a).policy = "enable"
    BY <2>2 DEF woke, Carried, Policy
  <2>4. Fit(woke(c, a))
    BY DEF woke, Fit
  <2>5. QED BY <1>3, <2>1, <2>3, <2>4
<1>4. QED BY <1>1, <1>2, <1>3 DEF Policy

\* Updating the policy for a status leaves the one that the cellular switch asks for,
\* on WiFi too.
LEMMA UpdateStep ==
  ASSUME TypeOK, NetInv, NEW s \in NetworkStatus, NEW w \in BOOLEAN, NEW m \in BOOLEAN,
         updatePolicyForNetworkStatus(s, w, m)
  PROVE  /\ policy' = IF s = "NotReachable" THEN "disable" ELSE Allowed(m)
         /\ policy' \in Policy /\ tor' \in [Torrent -> RunControl]
         /\ owed' \subseteq Torrent
         /\ owed' \subseteq Told /\ (policy' = "enable" => owed' = {})
         /\ \A t \in owed' : tor'[t].resume
<1>1. PICK a \in [Torrent -> StartOutcome] :
        LET c == Enforced(s, w, m, a)
        IN policy' = c.policy /\ tor' = c.tor /\ owed' = c.owed
  BY DEF updatePolicyForNetworkStatus
<1>2. Now \in Carried /\ Fit(Now) /\ Told \subseteq Torrent
  BY DEF TypeOK, NetInv, OwedIsFlagged, Now, Carried, Fit, Told
<1>3. Allowed(w) \in Policy /\ Allowed(m) \in Policy /\ "disable" \in Policy
  BY DEF Allowed, Policy
<1> DEFINE last == IF s = "NotReachable" THEN "disable" ELSE Allowed(m)
<1>4. LET d == Enforced(s, w, m, a) IN d \in Carried /\ Fit(d) /\ d.policy = last
  <2>1. CASE s = "NotReachable"
    <3>1. PoliciesFor(s, w, m)[1] = "disable"
      BY <2>1 DEF PoliciesFor
    <3>2. Enforced(s, w, m, a) = setEnforcedPolicy(Now, "disable", a)
      BY <2>1, <3>1 DEF Enforced
    <3>3. QED BY <1>2, <1>3, <2>1, <3>2, EnforceStep
  <2>2. CASE s = "WWAN"
    <3>1. PoliciesFor(s, w, m)[1] = Allowed(m)
      BY <2>2 DEF PoliciesFor
    <3>2. Enforced(s, w, m, a) = setEnforcedPolicy(Now, Allowed(m), a)
      BY <2>2, <3>1 DEF Enforced
    <3>3. QED BY <1>2, <1>3, <2>2, <3>2, EnforceStep
  <2>3. CASE s = "WiFi"
    <3>1. PoliciesFor(s, w, m)[1] = Allowed(w) /\ PoliciesFor(s, w, m)[2] = Allowed(m)
      BY <2>3 DEF PoliciesFor
    <3> DEFINE first == setEnforcedPolicy(Now, Allowed(w), a)
    <3>2. Enforced(s, w, m, a) = setEnforcedPolicy(first, Allowed(m), a)
      BY <2>3, <3>1 DEF Enforced
    <3>3. first \in Carried /\ Fit(first)
      BY <1>2, <1>3, EnforceStep
    <3> HIDE DEF first
    <3>4. QED BY <1>2, <1>3, <2>3, <3>2, <3>3, EnforceStep
  <2>4. QED BY <2>1, <2>2, <2>3 DEF NetworkStatus
<1>5. QED BY <1>1, <1>2, <1>3, <1>4 DEF Carried, Fit

\* Every step keeps the types and the invariant.
LEMMA NetStep == TypeOK /\ NetInv /\ [Next]_vars => TypeOK' /\ NetInv'
<1> SUFFICES ASSUME TypeOK, NetInv, [Next]_vars
             PROVE  TypeOK' /\ NetInv'
  OBVIOUS
<1> USE DEF netVars, prefVars, torVars, envVars
<1>1. ASSUME UNCHANGED <<policy, status, mobile, ready, torrents, owed, tor>>
      PROVE  NetInv'
  BY <1>1 DEF NetInv, Told, OwedIsFlagged
<1>2. CASE startNotifier
  BY <1>1, <1>2 DEF startNotifier, TypeOK
<1>3. ASSUME NEW s \in NetworkStatus, networkChanges(s)
      PROVE  TypeOK' /\ NetInv'
  BY <1>1, <1>3 DEF networkChanges, TypeOK
<1>4. CASE reachabilityChangedNotification
  <2>1. CASE status = actual /\ UNCHANGED <<status, policy, torVars>>
    BY <1>1, <1>4, <2>1 DEF reachabilityChangedNotification, TypeOK
  <2>2. CASE updatePolicyForNetworkStatus(actual, wifi, mobile) /\ status' = actual
             /\ UNCHANGED torrents
    <3>1. actual \in NetworkStatus /\ wifi \in BOOLEAN /\ mobile \in BOOLEAN
      BY DEF TypeOK
    <3>2. UNCHANGED <<actual, notifying, prefVars, ready>> /\ notice' = FALSE
      BY <1>4 DEF reachabilityChangedNotification
    <3>3. TypeOK'
      BY <2>2, <3>1, <3>2, UpdateStep DEF TypeOK
    <3>4. NetInv'
      BY <2>2, <3>1, <3>2, UpdateStep DEF NetInv, OwedIsFlagged, Told
    <3>5. QED BY <3>3, <3>4
  <2>3. QED BY <1>4, <2>1, <2>2 DEF reachabilityChangedNotification
<1>5. ASSUME NEW b \in BOOLEAN, setUseWiFiNetwork(b)
      PROVE  TypeOK' /\ NetInv'
  <2>1. status \in NetworkStatus /\ mobile \in BOOLEAN
    BY DEF TypeOK
  <2>2. updatePolicyForNetworkStatus(status, b, mobile) /\ wifi' = b
        /\ UNCHANGED <<netVars, mobile, ready, torrents>>
    BY <1>5 DEF setUseWiFiNetwork
  <2>3. TypeOK'
    BY <2>1, <2>2, UpdateStep DEF TypeOK
  <2>4. NetInv'
    BY <2>1, <2>2, UpdateStep DEF NetInv, OwedIsFlagged, Told
  <2>5. QED BY <2>3, <2>4
<1>6. ASSUME NEW b \in BOOLEAN, setUseMobileNetwork(b)
      PROVE  TypeOK' /\ NetInv'
  <2>1. status \in NetworkStatus /\ wifi \in BOOLEAN
    BY DEF TypeOK
  <2>2. updatePolicyForNetworkStatus(status, wifi, b) /\ mobile' = b
        /\ UNCHANGED <<netVars, wifi, ready, torrents>>
    BY <1>6 DEF setUseMobileNetwork
  <2>3. TypeOK'
    BY <2>1, <2>2, UpdateStep DEF TypeOK
  <2>4. NetInv'
    BY <2>1, <2>2, UpdateStep DEF NetInv, OwedIsFlagged, Told
  <2>5. QED BY <2>3, <2>4
<1>7. CASE controllerReady
  BY <1>7 DEF controllerReady, TypeOK, NetInv, OwedIsFlagged, Told
<1>8. Created \in RunControl
  BY DEF RunControl, Created, Activity
<1>9. ASSUME NEW t \in Torrent, NEW r \in RunControl, torrentAdded(t, r)
      PROVE  TypeOK' /\ NetInv'
  <2>1. TypeOK'
    BY <1>9 DEF torrentAdded, TypeOK
  <2>2. t \notin owed
    BY <1>9 DEF torrentAdded, NetInv, Told
  <2>3. NetInv'
    BY <1>9, <2>2 DEF torrentAdded, NetInv, OwedIsFlagged, Told, TypeOK
  <2>4. QED BY <2>1, <2>3
<1>10. ASSUME NEW t \in Torrent, torrentRemoved(t)
       PROVE  TypeOK' /\ NetInv'
  BY <1>8, <1>10 DEF torrentRemoved, TypeOK, NetInv, OwedIsFlagged, Told
<1>11. ASSUME NEW t \in Torrent, NEW q \in RunControl, tor' = [tor EXCEPT ![t] = q],
              q.resume = tor[t].resume,
              UNCHANGED <<envVars, ready, torrents, owed>>
       PROVE  TypeOK' /\ NetInv'
  <2>1. TypeOK'
    BY <1>11 DEF TypeOK
  <2>2. \A u \in Torrent : tor'[u].resume = tor[u].resume
    BY <1>11 DEF TypeOK
  <2>3. NetInv'
    BY <1>11, <2>2 DEF TypeOK, NetInv, OwedIsFlagged, Told
  <2>4. QED BY <2>1, <2>3
<1>12. \A t \in Torrent : tor[t] \in RunControl
  BY DEF TypeOK
<1>13. ASSUME NEW r \in RunControl
       PROVE  /\ update(r).resume = r.resume /\ stopTransfer(r).resume = r.resume
              /\ stopInBackground(r).resume = r.resume
              /\ \A s \in Activity : [r EXCEPT !.act = s].resume = r.resume
              /\ \A a \in StartOutcome, space \in BOOLEAN :
                   startTransfer(r, space, a).resume = r.resume
  BY DEF RunControl, update, stopTransfer, stopInBackground, startTransfer, started
<1>14. ASSUME NEW t \in Torrent, snapshot(t)
       PROVE  TypeOK' /\ NetInv'
  <2>1. update(tor[t]) \in RunControl
        /\ (update(tor[t])).resume = tor[t].resume
    BY <1>12, <1>13, ControlTypes
  <2>2. tor' = [tor EXCEPT ![t] = update(tor[t])]
    BY <1>14 DEF snapshot
  <2>3. UNCHANGED <<envVars, ready, torrents, owed>>
    BY <1>14 DEF snapshot
  <2>4. QED BY <1>11, <2>1, <2>2, <2>3
<1>15. ASSUME NEW t \in Torrent, userStops(t)
       PROVE  TypeOK' /\ NetInv'
  <2>1. stopTransfer(tor[t]) \in RunControl
        /\ (stopTransfer(tor[t])).resume = tor[t].resume
    BY <1>12, <1>13, ControlTypes
  <2>2. tor' = [tor EXCEPT ![t] = stopTransfer(tor[t])]
    BY <1>15 DEF userStops
  <2>3. UNCHANGED <<envVars, ready, torrents, owed>>
    BY <1>15 DEF userStops
  <2>4. QED BY <1>11, <2>1, <2>2, <2>3
<1>16. ASSUME NEW t \in Torrent, NEW space \in BOOLEAN, NEW a \in StartOutcome,
              userStarts(t, space, a)
       PROVE  TypeOK' /\ NetInv'
  <2>1. startTransfer(tor[t], space, a) \in RunControl
        /\ (startTransfer(tor[t], space, a)).resume = tor[t].resume
    BY <1>12, <1>13, ControlTypes
  <2>2. tor' = [tor EXCEPT ![t] = startTransfer(tor[t], space, a)]
    BY <1>16 DEF userStarts
  <2>3. UNCHANGED <<envVars, ready, torrents, owed>>
    BY <1>16 DEF userStarts
  <2>4. QED BY <1>11, <2>1, <2>2, <2>3
<1>17. ASSUME NEW t \in Torrent, NEW s \in StartOutcome \cup {"stopped"}, librarySets(t, s)
       PROVE  TypeOK' /\ NetInv'
  <2>0. s \in Activity
    BY StartOutcomeAssumption DEF Activity
  <2>1. [tor[t] EXCEPT !.act = s] \in RunControl
        /\ ([tor[t] EXCEPT !.act = s]).resume = tor[t].resume
    BY <1>12, <1>13, <2>0, ControlTypes
  <2>2. tor' = [tor EXCEPT ![t] = [tor[t] EXCEPT !.act = s]]
    BY <1>17 DEF librarySets
  <2>3. UNCHANGED <<envVars, ready, torrents, owed>>
    BY <1>17 DEF librarySets
  <2>4. QED BY <1>11, <2>1, <2>2, <2>3
<1>18. ASSUME NEW t \in Torrent, _stopInBackground(t)
       PROVE  TypeOK' /\ NetInv'
  <2>1. stopInBackground(tor[t]) \in RunControl
        /\ (stopInBackground(tor[t])).resume = tor[t].resume
    BY <1>12, <1>13, ControlTypes, <1>18 DEF _stopInBackground
  <2>2. tor' = [tor EXCEPT ![t] = stopInBackground(tor[t])]
    BY <1>18 DEF _stopInBackground
  <2>3. UNCHANGED <<envVars, ready, torrents, owed>>
    BY <1>18 DEF _stopInBackground
  <2>4. QED BY <1>11, <2>1, <2>2, <2>3
<1>19. CASE UNCHANGED vars
  BY <1>1, <1>19 DEF vars, TypeOK
<1>20. \A a \in StartOutcome :
         startTransfer(Created, TRUE, a) \in RunControl /\ Wrapped(a) \in RunControl
  BY <1>8, ControlTypes, StartOutcomeAssumption DEF Activity
<1>21. QED
  BY <1>2, <1>3, <1>4, <1>5, <1>6, <1>7, <1>8, <1>9, <1>10, <1>14, <1>15, <1>16, <1>17,
     <1>18, <1>19, <1>20 DEF Next

\* The policy and the torrents owed a wake stay as NetInv says, whatever the network, the
\* switches, the launch and the torrents do.
THEOREM NetInvariant == Spec => [](TypeOK /\ NetInv)
<1>1. Init => TypeOK /\ NetInv
  <2>1. Created \in RunControl
    BY DEF RunControl, Created, Activity
  <2>2. Init => TypeOK
    BY <2>1 DEF Init, TypeOK, Allowed, Policy, NetworkStatus
  <2>3. Init => NetInv
    BY DEF Init, NetInv, OwedIsFlagged
  <2>4. QED BY <2>2, <2>3
<1>2. QED BY <1>1, NetStep, PTL DEF Spec

\* Wherever the program reads the two switches apart, the policy is the one they say.
THEOREM SwitchesAreObeyed == Spec => []SwitchesObeyed
<1>1. NetInv => SwitchesObeyed
  BY DEF NetInv, SwitchesObeyed, Allowed
<1>2. QED BY <1>1, NetInvariant, PTL

\* No order of network changes and switches enables transfers over a cellular network
\* whose switch is off.
THEOREM CellularAsked == Spec => []NoUnaskedCellular
<1>1. NetInv => NoUnaskedCellular
  BY DEF NetInv, NoUnaskedCellular, Allowed
<1>2. QED BY <1>1, NetInvariant, PTL

\* A torrent put to sleep keeps its mark until a wake.
THEOREM SleepersFlagged == Spec => []OwedIsFlagged
<1>1. NetInv => OwedIsFlagged
  BY DEF NetInv
<1>2. QED BY <1>1, NetInvariant, PTL

\* From the disabled policy, whatever is enforced on the way, the torrents are woken
\* exactly once if the policy ends enabled.
LEMMA WokenOnce ==
  ASSUME TypeOK, policy = "disable", NEW s \in NetworkStatus, NEW w \in BOOLEAN,
         NEW m \in BOOLEAN, NEW a \in [Torrent -> StartOutcome],
         Enforced(s, w, m, a).policy = "enable"
  PROVE  Enforced(s, w, m, a) = woke(Now, a)
<1>1. Now.policy = "disable" /\ woke(Now, a).policy = "enable"
  BY DEF Now, woke
<1>2. setEnforcedPolicy(Now, "disable", a) = Now
      /\ setEnforcedPolicy(Now, "enable", a) = woke(Now, a)
      /\ setEnforcedPolicy(woke(Now, a), "enable", a) = woke(Now, a)
      /\ setEnforcedPolicy(woke(Now, a), "disable", a).policy = "disable"
  BY <1>1 DEF setEnforcedPolicy, slept
<1>3. CASE s = "NotReachable"
  <2>1. PoliciesFor(s, w, m)[1] = "disable"
    BY <1>3 DEF PoliciesFor
  <2>2. QED BY <1>1, <1>2, <1>3, <2>1 DEF Enforced
<1>4. CASE s = "WWAN"
  <2>1. PoliciesFor(s, w, m)[1] = Allowed(m)
    BY <1>4 DEF PoliciesFor
  <2>2. QED BY <1>1, <1>2, <1>4, <2>1 DEF Enforced, Allowed
<1>5. CASE s = "WiFi"
  <2>1. PoliciesFor(s, w, m)[1] = Allowed(w) /\ PoliciesFor(s, w, m)[2] = Allowed(m)
    BY <1>5 DEF PoliciesFor
  <2>2. QED BY <1>1, <1>2, <1>5, <2>1 DEF Enforced, Allowed
<1>6. QED BY <1>3, <1>4, <1>5 DEF NetworkStatus

LEMMA WakeStep ==
  ASSUME TypeOK, NetInv, [Next]_vars, policy = "disable", policy' = "enable",
         NEW t \in owed \cap Told
  PROVE  tor'[t].act # "stopped"
<1>1. t \in Torrent /\ tor[t].resume
  BY DEF TypeOK, NetInv, OwedIsFlagged
<1>2. \A s \in NetworkStatus, w \in BOOLEAN, m \in BOOLEAN :
        updatePolicyForNetworkStatus(s, w, m) => tor'[t].act # "stopped"
  <2> SUFFICES ASSUME NEW s \in NetworkStatus, NEW w \in BOOLEAN, NEW m \in BOOLEAN,
                      updatePolicyForNetworkStatus(s, w, m)
               PROVE  tor'[t].act # "stopped"
    OBVIOUS
  <2>1. PICK a \in [Torrent -> StartOutcome] :
          Enforced(s, w, m, a).policy = "enable" /\ tor' = Enforced(s, w, m, a).tor
    BY DEF updatePolicyForNetworkStatus
  <2>2. tor' = woke(Now, a).tor
    BY <2>1, WokenOnce
  <2>3. tor'[t] = wakeUp(tor[t], a[t])
    BY <1>1, <2>2 DEF woke, Now
  <2>4. tor'[t] = started(tor[t], a[t])
    BY <1>1, <2>3 DEF wakeUp
  <2>5. a[t] # "stopped" /\ tor[t] \in RunControl
    BY <1>1, StartOutcomeAssumption DEF TypeOK
  <2>6. QED BY <2>4, <2>5 DEF started, RunControl
<1>3. \/ reachabilityChangedNotification
      \/ \E b \in BOOLEAN : setUseWiFiNetwork(b) \/ setUseMobileNetwork(b)
  BY DEF Next, vars, netVars, prefVars, torVars, envVars, startNotifier, networkChanges,
         controllerReady, torrentAdded, torrentRemoved, snapshot, userStops, userStarts,
         librarySets, _stopInBackground
<1>4. actual \in NetworkStatus /\ status \in NetworkStatus /\ wifi \in BOOLEAN /\ mobile \in BOOLEAN
  BY DEF TypeOK
<1>5. CASE reachabilityChangedNotification
  BY <1>2, <1>4, <1>5 DEF reachabilityChangedNotification
<1>6. CASE \E b \in BOOLEAN : setUseWiFiNetwork(b) \/ setUseMobileNetwork(b)
  BY <1>2, <1>4, <1>6 DEF setUseWiFiNetwork, setUseMobileNetwork
<1>7. QED BY <1>3, <1>5, <1>6

\* When the policy becomes enabled, every listed torrent that is owed a wake runs or is
\* queued at once.
THEOREM SleepersRestart == Spec => WakeRestartsSlept
<1>1. TypeOK /\ NetInv /\ [Next]_vars =>
        [policy = "disable" /\ policy' = "enable" =>
           \A t \in owed \cap Told : tor'[t].act # "stopped"]_vars
  BY WakeStep
<1>2. QED BY <1>1, NetInvariant, PTL DEF Spec, WakeRestartsSlept
=============================================================================
