----------------------------- MODULE PrefsProofs -----------------------------
(***************************************************************************)
(* Theorems about Prefs: for any word size, any numbers typed and any      *)
(* number of changes and launches, the last change of a kept setting wins. *)
(***************************************************************************)
EXTENDS Prefs, TLAPS

\* What is asked of the session is a value it can hold.
Fits == \A s \in Setting : Narrow(s, asked[s]) = asked[s]

\* Nothing is under way without a process.
OffIsSettled == app = "off" => Settled /\ unheard = {}

IInv == TypeOK /\ KeptInv /\ Fits /\ OffIsSettled

\* Until the callback is there nothing is under way in the app, and what no request has changed
\* is in the defaults.
HeardInv ==
  app # "on" => /\ busy = None /\ posted = 0 /\ next > Len(Order)
                /\ \A s \in Kept : s \notin unheard => Narrow(s, defaults[s]) = asked[s]

\* Every text field's and switch's setting is among those rpcUpdatePrefs copies.
LEMMA OrderIsComplete ==
  /\ Len(Order) = 9 /\ \A i \in 1..9 : Order[i] \in Setting
  /\ \A s \in Setting : \E i \in 1..9 : Order[i] = s
BY DEF Order, Setting, Field, Switch

LEMMA EndIsPlace == Len(Order) + 1 \in 1..Len(Order) + 1
BY OrderIsComplete

LEMMA NarrowIsInt == ASSUME NEW s, NEW v \in Int PROVE Narrow(s, v) \in Int
BY WordAssumption DEF Narrow

\* Narrowing twice changes nothing: what the session gives back fits into it.
LEMMA NarrowTwice ==
  ASSUME NEW s, NEW v \in Int
  PROVE  Narrow(s, Narrow(s, v)) = Narrow(s, v)
BY WordAssumption DEF Narrow

\* What rpcUpdatePrefs copies fits the session as the value it was copied from.
LEMMA SignedFits ==
  ASSUME NEW s, NEW v \in Int, Narrow(s, v) = v
  PROVE  Signed(s, v) \in Int /\ Narrow(s, Signed(s, v)) = v
<1>1. CASE s = "DownloadLimit"
  <2>1. v \in 0..LimitW - 1
    BY <1>1, WordAssumption DEF Narrow
  <2>2. (v - LimitW) % LimitW = v
    BY <2>1, WordAssumption
  <2> QED
    BY <1>1, <2>2, WordAssumption DEF Narrow, Signed
<1>2. CASE s # "DownloadLimit"
  BY <1>2 DEF Signed
<1> QED
  BY <1>1, <1>2

LEMMA KeptIsSetting == Kept \subseteq Setting /\ None \notin Setting
BY DEF Kept, Setting, Field, Switch, None

LEMMA InitInv == Init => IInv
<1> SUFFICES ASSUME Init PROVE IInv
  OBVIOUS
<1>1. /\ Factory \in [Setting -> Int] /\ defaults = Factory /\ screen = Factory
      /\ session = [s \in Setting |-> Narrow(s, Factory[s])] /\ asked = session
  BY FactoryAssumption DEF Init, NoSession, NoScreen
<1>2. session \in [Setting -> Int] /\ asked \in [Setting -> Int]
  BY <1>1, NarrowIsInt
<1>3. TypeOK
  <2>1. /\ defaults \in [Setting -> Int] /\ screen \in [Setting -> Int]
    BY <1>1
  <2>2. /\ app = "off" /\ loaded = FALSE /\ changed = FALSE /\ unheard = {}
        /\ editing = None /\ original = 0 /\ busy = None
        /\ posted = 0 /\ next = Len(Order) + 1 /\ changes = 0 /\ launches = 0
    BY DEF Init
  <2>3. next \in 1..Len(Order) + 1
    BY <2>2, EndIsPlace
  <2>4. loaded \in BOOLEAN /\ changed \in BOOLEAN
    BY <2>2
  <2>5. /\ app \in Phase /\ unheard \subseteq Setting /\ editing \in Field \cup {None} /\ original \in Int
        /\ busy \in Setting \cup {None} /\ posted \in Nat /\ changes \in Nat /\ launches \in Nat
    BY <2>2 DEF Phase
  <2> QED
    BY <1>2, <2>1, <2>3, <2>4, <2>5 DEF TypeOK
<1>4. KeptInv
  BY <1>1, KeptIsSetting DEF Init, KeptInv
<1>5. Fits
  BY <1>1, NarrowTwice DEF Fits
<1>6. OffIsSettled
  BY OrderIsComplete DEF Init, OffIsSettled, Settled
<1> QED
  BY <1>3, <1>4, <1>5, <1>6 DEF IInv

\* Once all is settled, the defaults have what is in force.
LEMMA SettledAgree ==
  ASSUME TypeOK, KeptInv, Settled, NEW s \in Kept, s \notin unheard
  PROVE  Narrow(s, defaults[s]) = asked[s]
<1>1. busy # s /\ ~changed /\ posted = 0 /\ ~Uncopied(s)
  BY KeptIsSetting, OrderIsComplete DEF Settled, Uncopied, TypeOK
<1> QED
  BY <1>1 DEF KeptInv

\* The end of the process, where what was under way is settled by the defaults.
LEMMA KillStep == ASSUME IInv, kill PROVE IInv'
<1> USE DEF IInv
<1>0. OffIsSettled'
  BY OrderIsComplete DEF kill, OffIsSettled, Settled
<1>1. /\ app' = "off" /\ unheard' = {} /\ defaults' = defaults
      /\ session' = [s \in Setting |-> Narrow(s, Factory[s])] /\ screen' = Factory
      /\ asked' = [s \in Setting |-> IF Settled /\ s \notin unheard THEN asked[s]
                                                               ELSE Narrow(s, defaults[s])]
  BY DEF kill, NoSession, NoScreen
<1>2. \A s \in Setting : Narrow(s, defaults[s]) \in Int /\ Narrow(s, Factory[s]) \in Int
  BY NarrowIsInt, FactoryAssumption DEF TypeOK
<1>3. asked' \in [Setting -> Int] /\ session' \in [Setting -> Int] /\ screen' \in [Setting -> Int]
  BY <1>1, <1>2, FactoryAssumption DEF TypeOK
<1>4. TypeOK'
  <2>1. /\ app' \in Phase /\ unheard' \subseteq Setting /\ editing' \in Field \cup {None}
        /\ original' \in Int /\ busy' \in Setting \cup {None} /\ posted' \in Nat
    BY <1>1 DEF kill, Phase
  <2>2. loaded' \in BOOLEAN /\ changed' \in BOOLEAN
    BY DEF kill
  <2>3. next' \in 1..Len(Order) + 1
    BY EndIsPlace DEF kill
  <2>4. defaults' \in [Setting -> Int] /\ changes' \in Nat /\ launches' \in Nat
    BY DEF kill, TypeOK
  <2> QED
    BY <1>3, <2>1, <2>2, <2>3, <2>4 DEF TypeOK
<1>5. Fits'
  BY <1>1, NarrowTwice DEF Fits, TypeOK
<1>6. \A s \in Kept : Narrow(s, defaults[s]) = asked'[s]
  BY <1>1, SettledAgree, KeptIsSetting
<1>7. KeptInv'
  BY <1>1, <1>6 DEF KeptInv
<1> QED
  BY <1>0, <1>4, <1>5, <1>7

\* tr_sessionInit: the session gets what the defaults have, but for a random port.
LEMMA OpenStep == ASSUME IInv, NEW port \in 0..W - 1, openSession(port) PROVE IInv'
<1> USE DEF IInv
<1>0. "BindPort" \in Setting /\ port \in Int /\ port % W = port
  BY WordAssumption DEF Setting, Field
<1>1. /\ app' = "opening" /\ session' = FromDefaults(defaults, port)
      /\ UNCHANGED <<defaults, screenVars, busy, rpcVars, changes>>
      /\ app = "off" /\ launches' = launches + 1
      /\ asked' = IF IsRandom THEN [asked EXCEPT !["BindPort"] = port] ELSE asked
      /\ unheard' = IF IsRandom THEN {"BindPort"} ELSE {}
  BY DEF openSession
<1>2. /\ asked' \in [Setting -> Int]
      /\ \A s \in Setting : asked'[s] = IF IsRandom /\ s = "BindPort" THEN port ELSE asked[s]
  BY <1>0, <1>1 DEF TypeOK
<1>3. \A s \in Kept : session'[s] = IF IsRandom /\ s = "BindPort" THEN port ELSE Narrow(s, defaults[s])
  BY <1>1, KeptIsSetting DEF FromDefaults, Kept, IsRandom
<1>4. session' \in [Setting -> Int]
  BY <1>0, <1>1, NarrowIsInt, WordAssumption DEF FromDefaults, TypeOK
<1>5. TypeOK'
  <2>1. app' \in Phase /\ unheard' \subseteq Setting /\ launches' \in Nat
    BY <1>0, <1>1 DEF TypeOK, Phase
  <2>2. UNCHANGED <<defaults, loaded, screen, editing, original, busy, changed, posted, next, changes>>
    BY <1>1 DEF screenVars, rpcVars
  <2> QED
    BY <1>2, <1>4, <2>1, <2>2 DEF TypeOK
<1>6. Fits'
  BY <1>0, <1>2 DEF Fits, Narrow
<1>7. Settled /\ unheard = {}
  BY <1>1 DEF OffIsSettled
<1>8. \A s \in Kept : Narrow(s, defaults[s]) = asked[s]
  BY <1>7, SettledAgree
<1>9. \A s \in Kept : session'[s] = asked'[s]
                     /\ (s \notin unheard' => Narrow(s, defaults'[s]) = asked'[s])
  BY <1>1, <1>2, <1>3, <1>8, KeptIsSetting
<1>10. KeptInv' /\ OffIsSettled'
  BY <1>1, <1>9 DEF KeptInv, OffIsSettled
<1> QED
  BY <1>5, <1>6, <1>10

\* The random port is saved.
LEMMA HandleStep == ASSUME IInv, initWithHandle PROVE IInv'
<1> USE DEF IInv
<1>0. /\ "BindPort" \in Setting /\ "BindPort" \in Kept
      /\ app = "opening" /\ app' = "preparing"
      /\ UNCHANGED <<session, asked, screenVars, busy, rpcVars, changes, launches>>
  BY DEF Setting, Switch, Field, Kept, initWithHandle
<1>1. CASE IsRandom
  <2>1. /\ defaults' = [defaults EXCEPT !["BindPort"] = session["BindPort"]]
        /\ unheard' = unheard \ {"BindPort"}
    BY <1>1 DEF initWithHandle
  <2>2. session["BindPort"] = asked["BindPort"]
        /\ Narrow("BindPort", asked["BindPort"]) = asked["BindPort"]
    BY <1>0 DEF KeptInv, Fits
  <2>3. /\ defaults' \in [Setting -> Int] /\ defaults'["BindPort"] = session["BindPort"]
        /\ \A s \in Setting : s # "BindPort" => defaults'[s] = defaults[s]
    BY <1>0, <2>1 DEF TypeOK
  <2>4. TypeOK' /\ Fits' /\ OffIsSettled'
    BY <1>0, <2>1, <2>3 DEF TypeOK, Fits, OffIsSettled, screenVars, rpcVars, Phase
  <2>5. ASSUME NEW s \in Kept
        PROVE  /\ session'[s] = asked'[s]
               /\ busy # s /\ ~changed /\ posted = 0 /\ ~Uncopied(s) /\ s \notin unheard'
                    => Narrow(s, defaults'[s]) = asked'[s]
    <3>1. CASE s = "BindPort"
      BY <1>0, <2>2, <2>3, <3>1
    <3>2. CASE s # "BindPort"
      BY <1>0, <2>1, <2>3, <3>2, KeptIsSetting DEF KeptInv
    <3> QED
      BY <3>1, <3>2
  <2>6. KeptInv'
    BY <1>0, <2>5 DEF KeptInv, Uncopied, rpcVars
  <2> QED
    BY <2>4, <2>6
<1>2. CASE ~IsRandom
  BY <1>0, <1>2 DEF initWithHandle, TypeOK, Fits, OffIsSettled, KeptInv, Uncopied, screenVars,
                    rpcVars, Phase
<1> QED
  BY <1>1, <1>2

\* The second half of a setter.
LEMMA ApplyStep == ASSUME IInv, apply PROVE IInv'
<1> USE DEF IInv
<1>1. /\ busy \in Setting /\ busy' = None /\ app # "off" /\ unheard' = unheard \ {busy}
      /\ asked' = [asked EXCEPT ![busy] = session'[busy]]
      /\ UNCHANGED <<app, defaults, loaded, editing, original, rpcVars, changes, launches>>
  BY DEF apply, TypeOK, OffIsSettled, Settled
<1>2. /\ session' \in [Setting -> Int]
      /\ session'[busy] = Narrow(busy, defaults[busy])
      /\ \A s \in Kept : s # busy => session'[s] = session[s]
  <2>1. CASE busy = "DownloadLimit"
    <3> DEFINE flagged == [session EXCEPT !["CheckDownload"] = defaults["CheckDownload"]]
    <3>1. session' = [flagged EXCEPT !["DownloadLimit"] = Narrow(busy, defaults[busy])]
      BY <2>1 DEF apply
    <3>2. flagged \in [Setting -> Int] /\ \A s \in Kept : flagged[s] = session[s]
      BY DEF TypeOK, Setting, Switch, Kept
    <3> HIDE DEF flagged
    <3>3. Narrow(busy, defaults[busy]) \in Int /\ "DownloadLimit" \in Setting
      BY <1>1, <2>1, NarrowIsInt DEF TypeOK
    <3> QED
      BY <2>1, <3>1, <3>2, <3>3, KeptIsSetting
  <2>2. CASE busy # "DownloadLimit"
    <3>1. session' = [session EXCEPT ![busy] = Narrow(busy, defaults[busy])]
      BY <2>2 DEF apply
    <3>2. Narrow(busy, defaults[busy]) \in Int
      BY <1>1, NarrowIsInt DEF TypeOK
    <3> QED
      BY <1>1, <3>1, <3>2, KeptIsSetting DEF TypeOK
  <2> QED
    BY <2>1, <2>2
<1>3. /\ asked' \in [Setting -> Int] /\ asked'[busy] = Narrow(busy, defaults[busy])
      /\ \A s \in Setting : s # busy => asked'[s] = asked[s]
  BY <1>1, <1>2, NarrowIsInt DEF TypeOK
<1>4. screen' \in [Setting -> Int]
  <2>1. Shown(busy, defaults, session') \in Int
    <3>1. defaults[busy] \in Int /\ session'[busy] \in Int
      BY <1>1, <1>2 DEF TypeOK
    <3>2. /\ Shown(busy, defaults, session') \in {0, defaults[busy], session'[busy]}
      BY <1>1 DEF Shown
    <3> QED
      BY <3>1, <3>2
  <2> QED
    BY <1>1, <2>1 DEF apply, TypeOK
<1>5. TypeOK'
  BY <1>1, <1>2, <1>3, <1>4 DEF TypeOK, rpcVars
<1>6. Fits'
  BY <1>1, <1>3, NarrowTwice DEF Fits, TypeOK
<1>7. KeptInv' /\ OffIsSettled'
  <2>1. ASSUME NEW s \in Kept
        PROVE  /\ session'[s] = asked'[s]
               /\ ~changed /\ posted = 0 /\ ~Uncopied(s) /\ s \notin unheard'
                    => Narrow(s, defaults[s]) = asked'[s]
    <3>1. CASE s = busy
      BY <1>2, <1>3, <3>1
    <3>2. CASE s # busy
      BY <1>1, <1>2, <1>3, <3>2, KeptIsSetting DEF KeptInv
    <3> QED
      BY <3>1, <3>2
  <2> QED
    BY <1>1, <2>1 DEF KeptInv, OffIsSettled, Uncopied, rpcVars
<1> QED
  BY <1>5, <1>6, <1>7

\* A step that writes one setting's default and leaves the session to apply.
LEMMA WriteStep ==
  ASSUME IInv, NEW s \in Setting, NEW v \in Int, write(s, v), screen' \in [Setting -> Int],
         editing' \in Field \cup {None}, original' \in Int, changes' \in Nat, UserActs,
         UNCHANGED <<app, sessionVars, loaded, rpcVars, launches>>
  PROVE  IInv'
<1> USE DEF IInv
<1>1. defaults' \in [Setting -> Int] /\ \A t \in Setting : t # s => defaults'[t] = defaults[t]
  BY DEF write, TypeOK
<1>2. TypeOK' /\ Fits' /\ OffIsSettled'
  BY <1>1 DEF write, TypeOK, Fits, OffIsSettled, UserActs, MainIsFree, sessionVars, rpcVars
<1>3. busy = None /\ busy' = s
  BY DEF UserActs, MainIsFree, write
<1>4. KeptInv'
  BY <1>1, <1>3, KeptIsSetting DEF KeptInv, Uncopied, sessionVars, rpcVars
<1> QED
  BY <1>2, <1>4

\* One setting more is copied to the defaults.
LEMMA CopyStep == ASSUME IInv, copyNext PROVE IInv'
<1> USE DEF IInv
<1> DEFINE c == Order[next]
<1>1. next \in 1..9 /\ c \in Setting /\ next' = next + 1 /\ app # "off"
  BY OrderIsComplete DEF copyNext, TypeOK, OffIsSettled, Settled
<1>2. /\ defaults' = [defaults EXCEPT ![c] = Signed(c, session[c])]
      /\ unheard' = unheard \ {c}
      /\ UNCHANGED <<app, session, asked, screenVars, busy, changed, posted, changes, launches>>
  BY DEF copyNext
<1> HIDE DEF c
<1>0. Signed(c, session[c]) \in Int
  BY <1>1, WordAssumption DEF TypeOK, Signed
<1>3. /\ defaults' \in [Setting -> Int] /\ defaults'[c] = Signed(c, session[c])
      /\ \A s \in Setting : s # c => defaults'[s] = defaults[s]
  BY <1>0, <1>1, <1>2 DEF TypeOK
<1>4. TypeOK' /\ Fits' /\ OffIsSettled'
  BY <1>1, <1>2, <1>3, OrderIsComplete
  DEF TypeOK, Fits, OffIsSettled, screenVars
<1>5. \A s : Uncopied(s) => Uncopied(s)' \/ s = c
  BY <1>1, OrderIsComplete DEF Uncopied, c
<1>6. ASSUME NEW s \in Kept
      PROVE  /\ session'[s] = asked'[s]
             /\ busy # s /\ ~changed /\ posted = 0 /\ ~Uncopied(s)' /\ s \notin unheard'
                  => Narrow(s, defaults'[s]) = asked'[s]
  <2>1. session'[s] = asked'[s] /\ session[s] = asked[s] /\ asked'[s] = asked[s]
    BY <1>1, <1>2 DEF KeptInv
  <2>2. CASE s = c
    <3>1. session[c] \in Int /\ Narrow(c, session[c]) = session[c]
      BY <1>1, <2>1, <2>2 DEF Fits, TypeOK
    <3> QED
      BY <1>3, <2>1, <2>2, <3>1, SignedFits
  <2>3. CASE s # c
    BY <1>2, <1>3, <1>5, <2>1, <2>3, KeptIsSetting DEF KeptInv
  <2> QED
    BY <2>1, <2>2, <2>3
<1> QED
  BY <1>2, <1>4, <1>6 DEF KeptInv

\* A request changes the session.
LEMMA RpcStep ==
  ASSUME IInv, NEW s \in Setting, NEW v \in Int, rpcSessionSet(s, v) PROVE IInv'
<1> USE DEF IInv
<1>1. Narrow(s, v) \in Int /\ Narrow(s, Narrow(s, v)) = Narrow(s, v)
  BY NarrowIsInt, NarrowTwice
<1>2. /\ session' = [session EXCEPT ![s] = Narrow(s, v)]
      /\ asked' = [asked EXCEPT ![s] = Narrow(s, v)]
      /\ changed' = TRUE /\ app # "off" /\ changes' = changes + 1
      /\ unheard' = IF app = "on" THEN unheard ELSE unheard \cup {s}
      /\ UNCHANGED <<app, defaults, screenVars, busy, posted, next, launches>>
  BY DEF rpcSessionSet, mayChange
<1>3. TypeOK' /\ Fits' /\ OffIsSettled'
  <2>1. session' \in [Setting -> Int] /\ asked' \in [Setting -> Int] /\ unheard' \subseteq Setting
    BY <1>1, <1>2 DEF TypeOK
  <2>2. changed' \in BOOLEAN /\ changes' \in Nat /\ app' # "off"
    BY <1>2 DEF TypeOK
  <2>3. UNCHANGED <<app, defaults, loaded, screen, editing, original, busy, posted, next, launches>>
    BY <1>2 DEF screenVars
  <2>4. \A r \in Setting : asked'[r] = IF r = s THEN Narrow(s, v) ELSE asked[r]
    BY <1>2 DEF TypeOK
  <2>5. TypeOK'
    BY <2>1, <2>2, <2>3 DEF TypeOK
  <2>6. Fits'
    BY <1>1, <2>4 DEF Fits
  <2> QED
    BY <2>2, <2>5, <2>6 DEF OffIsSettled
<1>4. KeptInv'
  BY <1>2, KeptIsSetting DEF KeptInv, TypeOK
<1> QED
  BY <1>3, <1>4

LEMMA InvStep == IInv /\ HeardInv /\ [Next]_vars => IInv'
<1> SUFFICES ASSUME IInv, HeardInv, [Next]_vars PROVE IInv'
  OBVIOUS
<1>1. CASE (\E port \in 0..W - 1 : openSession(port)) \/ initWithHandle \/ setRPCCallback
  <2>1. CASE \E port \in 0..W - 1 : openSession(port)
    BY <2>1, OpenStep
  <2>2. CASE initWithHandle
    BY <2>2, HandleStep
  <2>3. CASE setRPCCallback
    BY <2>3 DEF setRPCCallback, IInv, TypeOK, KeptInv, Fits, OffIsSettled, Uncopied, Phase,
                sessionVars, screenVars, rpcVars
  <2> QED
    BY <1>1, <2>1, <2>2, <2>3
<1>2. CASE kill
  BY <1>2, KillStep
<1>3. CASE User
  <2> USE DEF IInv
  <2>1. CASE viewDidLoad
    <3>1. screen' \in [Setting -> Int]
      BY <2>1 DEF viewDidLoad, Shown, TypeOK
    <3> QED
      BY <2>1, <3>1 DEF viewDidLoad, MainIsFree, TypeOK, KeptInv, Fits, OffIsSettled, Settled,
                        Uncopied, sessionVars, rpcVars
  <2>2. ASSUME NEW s \in {"DHTGlobal", "NatTraversal"}, flipSwitch(s) PROVE IInv'
    <3>1. s \in Setting /\ 1 - screen[s] \in Int
      BY DEF TypeOK, Setting, Switch
    <3>2. screen' \in [Setting -> Int] /\ changes' \in Nat /\ UserActs
      BY <2>2, <3>1 DEF flipSwitch, flipped, mayChange, TypeOK
    <3> QED
      BY <2>2, <3>1, <3>2, WriteStep DEF flipSwitch, TypeOK
  <2>3. CASE flipLimits
    <3>1. "CheckDownload" \in Setting /\ 1 - screen["CheckDownload"] \in Int
      BY DEF TypeOK, Setting, Switch
    <3>2. /\ screen' \in [Setting -> Int] /\ changes' \in Nat /\ MainIsFree
          /\ defaults' \in [Setting -> Int]
          /\ \A s \in Kept : defaults'[s] = defaults[s]
      BY <2>3, <3>1 DEF flipLimits, flipped, UserActs, mayChange, TypeOK, Kept
    <3> QED
      BY <2>3, <3>2 DEF flipLimits, MainIsFree, TypeOK, KeptInv, Fits, OffIsSettled,
                        Uncopied, sessionVars, rpcVars
  <2>4. CASE flipBlocklist
    <3>1. "BlocklistEnabled" \in Setting /\ 1 - screen["BlocklistEnabled"] \in Int
      BY DEF TypeOK, Setting, Switch
    <3>2. /\ screen' \in [Setting -> Int] /\ changes' \in Nat /\ MainIsFree
          /\ session' \in [Setting -> Int]
          /\ \A s \in Kept : session'[s] = session[s]
      BY <2>4, <3>1 DEF flipBlocklist, flipped, UserActs, mayChange, TypeOK, Kept
    <3> QED
      BY <2>4, <3>2 DEF flipBlocklist, MainIsFree, TypeOK, KeptInv, Fits, OffIsSettled,
                        Uncopied, rpcVars
  <2>5. ASSUME NEW f \in Field, textFieldDidBeginEditing(f) PROVE IInv'
    <3>1. f \in Setting
      BY DEF Setting
    <3> QED
      BY <2>5, <3>1 DEF textFieldDidBeginEditing, UserActs, MainIsFree, TypeOK, KeptInv, Fits,
                        OffIsSettled, Uncopied, sessionVars, rpcVars
  <2>6. ASSUME NEW v \in Typed, typeText(v) PROVE IInv'
    <3>1. editing \in Setting /\ v \in Int
      BY <2>6, WordAssumption DEF typeText, TypeOK, Setting
    <3>2. screen' \in [Setting -> Int] /\ changes' \in Nat
      BY <2>6, <3>1 DEF typeText, mayChange, TypeOK
    <3> QED
      BY <2>6, <3>2 DEF typeText, UserActs, MainIsFree, TypeOK, KeptInv, Fits, OffIsSettled,
                        Uncopied, sessionVars, rpcVars
  <2>7. ASSUME NEW text \in Int, textFieldDidEndEditing(text) PROVE IInv'
    <3>1. /\ editing \in Setting /\ UserActs /\ write(editing, text)
          /\ screen' = [screen EXCEPT ![editing] = text] /\ editing' = None /\ original' = 0
          /\ UNCHANGED <<app, sessionVars, loaded, rpcVars, changes, launches>>
      BY <2>7 DEF textFieldDidEndEditing, TypeOK, Setting
    <3>2. screen' \in [Setting -> Int] /\ editing' \in Field \cup {None} /\ changes' \in Nat
      BY <3>1 DEF TypeOK
    <3> QED
      BY <3>1, <3>2, WriteStep
  <2>8. CASE doneButtonClicked
    <3>1. editing \in Setting
      BY <2>8 DEF doneButtonClicked, textFieldDidEndEditing, TypeOK, Setting
    <3>2. screen[editing] \in Int
      BY <3>1 DEF TypeOK
    <3> QED
      BY <2>7, <2>8, <3>2 DEF doneButtonClicked
  <2>9. CASE cancelButtonClicked
    BY <2>7, <2>9 DEF cancelButtonClicked, TypeOK
  <2> QED
    BY <1>3, <2>1, <2>2, <2>3, <2>4, <2>5, <2>6, <2>8, <2>9 DEF User
<1>4. CASE apply
  BY <1>4, ApplyStep
<1>5. ASSUME NEW s \in Setting, NEW v \in Value(s), rpcSessionSet(s, v) PROVE IInv'
  <2>1. v \in Int
    BY WordAssumption DEF Value
  <2> QED
    BY <1>5, <2>1, RpcStep
<1>6. CASE rpcCallback
  <2>1. /\ changed /\ changed' = FALSE /\ app # "off"
        /\ posted' = IF app = "on" THEN posted + 1 ELSE posted
        /\ UNCHANGED <<app, defaults, session, asked, unheard, loaded, screen, editing, original,
                       busy, next, changes, launches>>
    BY <1>6 DEF rpcCallback, sessionVars, screenVars, IInv, OffIsSettled, Settled
  <2>2. posted' \in Nat /\ (app = "on" => posted' # 0)
    BY <2>1 DEF IInv, TypeOK
  <2>3. changed' \in BOOLEAN
    BY <2>1
  <2>4. TypeOK'
    BY <2>1, <2>2, <2>3 DEF IInv, TypeOK
  <2>5. KeptInv'
    BY <2>1, <2>2 DEF IInv, KeptInv, HeardInv, Uncopied
  <2>6. Fits' /\ OffIsSettled'
    BY <2>1 DEF IInv, Fits, OffIsSettled
  <2> QED
    BY <2>4, <2>5, <2>6 DEF IInv
<1>7. CASE rpcUpdatePrefs
  <2>1. \A s \in Kept : Uncopied(s)'
    BY <1>7, OrderIsComplete, KeptIsSetting DEF rpcUpdatePrefs, Uncopied
  <2>2. 1 \in 1..Len(Order) + 1
    BY OrderIsComplete
  <2>3. posted' \in Nat
    BY <1>7 DEF rpcUpdatePrefs, IInv, TypeOK
  <2>4. TypeOK' /\ Fits' /\ OffIsSettled'
    BY <1>7, <2>2, <2>3 DEF rpcUpdatePrefs, MainIsFree, IInv, TypeOK, Fits, OffIsSettled,
                            sessionVars, screenVars
  <2>5. KeptInv'
    BY <1>7, <2>1 DEF rpcUpdatePrefs, IInv, KeptInv, sessionVars, screenVars
  <2> QED
    BY <2>4, <2>5 DEF IInv
<1>8. CASE copyNext
  BY <1>8, CopyStep
<1>9. CASE UNCHANGED vars
  BY <1>9 DEF vars, IInv, TypeOK, KeptInv, Fits, OffIsSettled, Settled, Uncopied
<1>10. CASE \E s \in Setting : \E v \in Value(s) : rpcSessionSet(s, v)
  BY <1>5, <1>10
<1>11. CASE Next
  BY <1>1, <1>2, <1>3, <1>4, <1>6, <1>7, <1>8, <1>10, <1>11 DEF Next
<1> QED
  BY <1>9, <1>11

\* Only requests change a setting before the callback is there, and they are unheard.
LEMMA HeardStep == IInv /\ HeardInv /\ [Next]_vars => HeardInv'
<1> SUFFICES ASSUME IInv, HeardInv, [Next]_vars, app' # "on" PROVE HeardInv'
  BY DEF HeardInv
<1>1. ASSUME NEW port \in 0..W - 1, openSession(port) PROVE HeardInv'
  <2>1. /\ app = "off" /\ UNCHANGED <<defaults, busy, posted, next>>
        /\ asked' = IF IsRandom THEN [asked EXCEPT !["BindPort"] = port] ELSE asked
        /\ unheard' = IF IsRandom THEN {"BindPort"} ELSE {}
    BY <1>1 DEF openSession, rpcVars
  <2>2. Settled /\ unheard = {}
    BY <2>1 DEF IInv, OffIsSettled
  <2>3. ASSUME NEW s \in Kept, s \notin unheard' PROVE Narrow(s, defaults'[s]) = asked'[s]
    <3>1. Narrow(s, defaults[s]) = asked[s] /\ asked'[s] = asked[s]
      BY <2>1, <2>2, <2>3, SettledAgree DEF IInv, TypeOK
    <3> QED
      BY <2>1, <3>1
  <2> QED
    BY <2>1, <2>2, <2>3 DEF HeardInv, Settled
<1>2. CASE initWithHandle
  <2>1. /\ app = "opening" /\ UNCHANGED <<asked, session, busy, posted, next>>
        /\ IF IsRandom THEN /\ defaults' = [defaults EXCEPT !["BindPort"] = session["BindPort"]]
                            /\ unheard' = unheard \ {"BindPort"}
                       ELSE UNCHANGED <<defaults, unheard>>
    BY <1>2 DEF initWithHandle, rpcVars
  <2>2. "BindPort" \in Kept /\ "BindPort" \in Setting
    BY DEF Kept, Setting, Switch, Field
  <2>3. session["BindPort"] = asked["BindPort"]
        /\ Narrow("BindPort", asked["BindPort"]) = asked["BindPort"]
    BY <2>1, <2>2 DEF IInv, KeptInv, Fits
  <2>4. ASSUME NEW s \in Kept, s \notin unheard' PROVE Narrow(s, defaults'[s]) = asked'[s]
    <3>1. CASE s = "BindPort" /\ IsRandom
      BY <2>1, <2>2, <2>3, <3>1 DEF IInv, TypeOK
    <3>2. CASE ~(s = "BindPort" /\ IsRandom)
      <4>1. s \notin unheard /\ defaults'[s] = defaults[s]
        BY <2>1, <2>4, <3>2, KeptIsSetting DEF IInv, TypeOK
      <4> QED
        BY <2>1, <4>1 DEF HeardInv
    <3> QED
      BY <3>1, <3>2
  <2> QED
    BY <2>1, <2>4 DEF HeardInv
<1>3. CASE setRPCCallback
  BY <1>3 DEF setRPCCallback
<1>4. CASE kill
  <2>1. /\ busy' = None /\ posted' = 0 /\ next' = Len(Order) + 1
        /\ unheard' = {} /\ defaults' = defaults
        /\ asked' = [s \in Setting |-> IF Settled /\ s \notin unheard THEN asked[s]
                                                                 ELSE Narrow(s, defaults[s])]
    BY <1>4 DEF kill
  <2>2. \A s \in Kept : Narrow(s, defaults[s]) = asked'[s]
    BY <2>1, SettledAgree, KeptIsSetting DEF IInv
  <2> QED
    BY <2>1, <2>2, OrderIsComplete DEF HeardInv
<1>5. CASE User
  <2>1. CASE viewDidLoad
    BY <2>1 DEF viewDidLoad, HeardInv, sessionVars, rpcVars
  <2>2. CASE ~viewDidLoad
    <3>1. app' = app /\ app = "on"
      BY <1>5, <2>2
      DEF User, flipLimits, flipBlocklist, flipSwitch, flipped, textFieldDidBeginEditing, typeText,
          doneButtonClicked, cancelButtonClicked, textFieldDidEndEditing, UserActs
    <3> QED
      BY <3>1
  <2> QED
    BY <2>1, <2>2
<1>6. CASE apply
  BY <1>6 DEF apply, HeardInv
<1>7. ASSUME NEW s \in Setting, NEW v \in Value(s), rpcSessionSet(s, v) PROVE HeardInv'
  <2>1. /\ asked' = [asked EXCEPT ![s] = Narrow(s, v)] /\ app' = app
        /\ unheard' = IF app = "on" THEN unheard ELSE unheard \cup {s}
        /\ UNCHANGED <<defaults, busy, posted, next>>
    BY <1>7 DEF rpcSessionSet
  <2>2. \A x \in Kept : x # s => asked'[x] = asked[x]
    BY <2>1, KeptIsSetting DEF IInv, TypeOK
  <2> QED
    BY <2>1, <2>2 DEF HeardInv
<1>8. CASE rpcCallback
  BY <1>8 DEF rpcCallback, HeardInv, sessionVars
<1>9. CASE rpcUpdatePrefs
  BY <1>9 DEF rpcUpdatePrefs, HeardInv, IInv, TypeOK
<1>10. CASE copyNext
  BY <1>10, OrderIsComplete DEF copyNext, HeardInv, IInv, TypeOK
<1>11. CASE UNCHANGED vars
  BY <1>11 DEF vars, HeardInv
<1>12. CASE Next
  BY <1>1, <1>2, <1>3, <1>4, <1>5, <1>6, <1>7, <1>8, <1>9, <1>10, <1>12 DEF Next
<1> QED
  BY <1>11, <1>12

LEMMA HeardInit == Init => HeardInv
BY InitInv, OrderIsComplete, KeptIsSetting, FactoryAssumption DEF Init, HeardInv, NoSession

\* Every variable keeps its type, and the session has what was last asked for, the defaults too
\* while no change is on its way (the setters, rpcUpdatePrefs, ITController init).
THEOREM PrefsInvariant == Spec => [](TypeOK /\ KeptInv)
<1>1. IInv => TypeOK /\ KeptInv
  BY DEF IInv
<1> QED
  BY <1>1, InitInv, HeardInit, InvStep, HeardStep, PTL DEF Spec

\* The last change of a setting, the user's or an RPC client's, wins in the session and in the
\* defaults, in this run of the app and the next ones.
THEOREM LastChangeIsKept == Spec => []LastChangeWins
<1>1. TypeOK /\ KeptInv => LastChangeWins
  BY SettledAgree DEF LastChangeWins, KeptInv
<1> QED
  BY <1>1, PrefsInvariant, PTL
=============================================================================
