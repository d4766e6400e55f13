---------------------------- MODULE DaemonProofs ----------------------------
(***************************************************************************)
(* Theorems about the daemon: its main with the settings (Daemon), for any *)
(* values, and the watch directory that the loop of main reads (WatchDir), *)
(* for any number of files, names and restarts and for both of its         *)
(* implementations. A setting that was asked for stays in force over       *)
(* reloads, orderly ends and new starts. Nothing is tried twice, and       *)
(* nothing is taken from the directory that is not in the session, unless  *)
(* it was put under a name whose file had been read and was about to be    *)
(* disposed of.                                                            *)
(***************************************************************************)
EXTENDS Daemon, WatchDir, TLAPS

-----------------------------------------------------------------------------
(* The settings *)

SettingsInv == DaemonTypeOK /\ KeptInv

LEMMA SettingsInit == DaemonInit => SettingsInv
BY UnsetAssumption DEF DaemonInit, SettingsInv, DaemonTypeOK, KeptInv, Settings, Key, Phase

LEMMA SavedIsSettings ==
  ASSUME NEW dict \in Settings, NEW value \in Value
  PROVE  /\ Saved(dict, value) \in Settings
         /\ Saved(dict, value)["session"] = value
BY DEF Saved, Settings, Key

LEMMA SettingsStep == SettingsInv /\ [DaemonNext]_daemonVars => SettingsInv'
<1> SUFFICES ASSUME SettingsInv, [DaemonNext]_daemonVars PROVE SettingsInv'
  OBVIOUS
<1> USE DEF SettingsInv
<1>1. ASSUME NEW option \in [Key -> Value \cup {Unset}], loadSettings(option) PROVE SettingsInv'
  <2>1. settings' \in Settings
    BY <1>1 DEF loadSettings, DaemonTypeOK, Settings
  <2>2. /\ phase = "off" /\ phase' = "starting" /\ closing' = FALSE
        /\ UNCHANGED <<file, inForce, watched, unsaved>>
    BY <1>1 DEF loadSettings
  <2>3. /\ option["session"] \in Value \cup {Unset}
        /\ wanted' = IF option["session"] = Unset THEN wanted ELSE option["session"]
        /\ settings'["session"] = IF option["session"] = Unset THEN file["session"]
                                                               ELSE option["session"]
    BY <1>1 DEF loadSettings, Key
  <2>4. DaemonTypeOK'
    BY <2>1, <2>2, <2>3 DEF DaemonTypeOK, Phase
  <2> QED
    BY <2>2, <2>3, <2>4 DEF KeptInv
<1>2. CASE openSession
  <2>1. settings["session"] \in Value
    BY DEF DaemonTypeOK, Settings, Key
  <2> QED
    BY <1>2, <2>1 DEF openSession, DaemonTypeOK, KeptInv, Phase
<1>3. CASE startUp
  <2>1. /\ Saved(settings, inForce) \in Settings
        /\ Saved(settings, inForce)["session"] = inForce
        /\ settings["daemon"] \in Value
    BY SavedIsSettings DEF DaemonTypeOK, Settings, Key
  <2> QED
    BY <1>3, <2>1 DEF startUp, DaemonTypeOK, KeptInv, Phase
<1>4. CASE saveAndLeave
  <2>1. /\ Saved(settings, inForce) \in Settings
        /\ Saved(settings, inForce)["session"] = inForce
    BY SavedIsSettings DEF DaemonTypeOK
  <2> QED
    BY <1>4, <2>1 DEF saveAndLeave, DaemonTypeOK, KeptInv, Phase
<1>5. CASE closeSession
  BY <1>5 DEF closeSession, DaemonTypeOK, KeptInv, Phase
<1>6. CASE exit
  BY <1>6 DEF exit, Ended, DaemonTypeOK, KeptInv, Phase
<1>7. CASE onSignal
  BY <1>7 DEF onSignal, DaemonTypeOK, KeptInv
<1>8. CASE reload
  <2>1. file["session"] \in Value
    BY DEF DaemonTypeOK, Settings, Key
  <2> QED
    BY <1>8, <2>1 DEF reload, HasSession, DaemonTypeOK, KeptInv
<1>9. CASE reloadWithoutSession
  BY <1>9 DEF reloadWithoutSession, Ended, DaemonTypeOK, KeptInv, Phase
<1>10. ASSUME NEW v \in Value, rpcSessionSet(v) PROVE SettingsInv'
  BY <1>10 DEF rpcSessionSet, HasSession, DaemonTypeOK, KeptInv
<1>11. ASSUME NEW k \in Key, NEW v \in Value, userEditsFile(k, v) PROVE SettingsInv'
  <2>1. file' \in Settings
    BY <1>11 DEF userEditsFile, DaemonTypeOK, Settings
  <2> QED
    BY <1>11, <2>1 DEF userEditsFile, DaemonTypeOK, KeptInv
<1>12. CASE kill
  BY <1>12 DEF kill, Ended, DaemonTypeOK, KeptInv, Phase
<1>13. CASE UNCHANGED daemonVars
  BY <1>13 DEF daemonVars, DaemonTypeOK, KeptInv
<1> QED
  BY <1>1, <1>2, <1>3, <1>4, <1>5, <1>6, <1>7, <1>8, <1>9, <1>10, <1>11, <1>12, <1>13
  DEF DaemonNext, Main

\* The settings keep their types, and where a claimed value is follows the phase of main.
THEOREM SettingsInvariant == DaemonSpec => [](DaemonTypeOK /\ KeptInv)
BY SettingsInit, SettingsStep, PTL DEF DaemonSpec, SettingsInv

\* A setting asked for with an option or over RPC is in force while the daemon runs and in the
\* file once it has ended, over any number of reloads, ends and starts.
THEOREM SettingsKept == DaemonSpec => []WantedIsKept
<1>1. DaemonTypeOK /\ KeptInv => WantedIsKept
  BY DEF KeptInv, WantedIsKept
<1> QED
  BY <1>1, SettingsInvariant, PTL

-----------------------------------------------------------------------------
(* The watch directory *)
LEMMA CallTypes ==
  ASSUME TypeOK, NEW n \in Name, onFileAdded(n), Tried(n)
  PROVE  /\ disposing' \in Name \cup {NoName}
         /\ session' \subseteq Hash
         /\ accepted' \in File \cup {NoFile}
         /\ tries' \in [File -> Nat]
BY FileAssumption DEF TypeOK, onFileAdded, Tried

LEMMA TypeStep == TypeOK /\ [Next]_vars => TypeOK'
<1> SUFFICES ASSUME TypeOK, [Next]_vars PROVE TypeOK'
  OBVIOUS
<1> USE DEF putVars
<1>0. build' \in Builds
  BY DEF TypeOK, Next, vars
<1>1. ASSUME NEW f \in File, drop(f) PROVE TypeOK'
  <2>1. NameOf[f] \in Name
    BY FileAssumption
  <2>2. /\ dir' \in [Name -> File \cup {NoFile}]
        /\ fresh' \subseteq File /\ whole' \subseteq File
        /\ copied' \subseteq File /\ met' \subseteq File /\ swapped' \subseteq File
    BY <1>1, <2>1 DEF TypeOK, drop
  <2>3. events' \in Seq(Name)
    <3>1. events' = events \/ events' = Append(events, NameOf[f])
      BY <1>1 DEF drop, Notify
    <3>2. events \in Seq(Name)
      BY DEF TypeOK
    <3>3. Append(events, NameOf[f]) \in Seq(Name)
      BY <2>1, <3>2
    <3> QED
      BY <3>1, <3>2, <3>3
  <2>4. todo' \subseteq Name
    BY <1>1, <2>1 DEF TypeOK, drop
  <2> QED
    BY <1>0, <1>1, <2>2, <2>3, <2>4 DEF TypeOK, drop, callVars, seenVars
<1>2. ASSUME NEW f \in File, complete(f) PROVE TypeOK'
  <2>1. events' \in Seq(Name)
    BY <1>2, FileAssumption DEF TypeOK, complete, Notify
  <2> QED
    BY <1>0, <1>2, <2>1 DEF TypeOK, complete, callVars, seenVars
<1>3. ASSUME NEW n \in Name, withdraw(n) PROVE TypeOK'
  BY <1>0, <1>3 DEF TypeOK, withdraw, callVars, seenVars
<1>4. CASE clockTick
  BY <1>0, <1>4 DEF TypeOK, clockTick, fileVars, callVars, seenVars
<1>5. CASE openDirectory
  BY <1>0, <1>5 DEF TypeOK, openDirectory, Present, fileVars, callVars
<1>6. ASSUME NEW n \in Name, scanEntry(n) PROVE TypeOK'
  <2>1. /\ disposing' \in Name \cup {NoName} /\ session' \subseteq Hash
        /\ accepted' \in File \cup {NoFile} /\ tries' \in [File -> Nat]
    BY <1>6, CallTypes DEF scanEntry, TypeOK, callVars
  <2> QED
    BY <1>0, <1>6, <2>1 DEF TypeOK, scanEntry, fileVars
<1>7. ASSUME NEW n \in Name, startupEntry(n) PROVE TypeOK'
  BY <1>0, <1>7, CallTypes DEF TypeOK, startupEntry, fileVars, seenVars
<1>8. CASE closeDirectory
  BY <1>0, <1>8 DEF TypeOK, closeDirectory, fileVars, callVars
<1>9. CASE startupDone
  BY <1>0, <1>9 DEF TypeOK, startupDone, fileVars, callVars, seenVars
<1>10. CASE handleEvent
  <2>1. Head(events) \in Name /\ Tail(events) \in Seq(Name)
    BY <1>10 DEF handleEvent, TypeOK
  <2> QED
    BY <1>0, <1>10, <2>1, CallTypes DEF TypeOK, handleEvent, fileVars, seenVars
<1>11. CASE disposeOfSource
  BY <1>0, <1>11 DEF TypeOK, disposeOfSource, Idle, fileVars, scanVars, seenVars
<1>12. CASE restart
  BY <1>0, <1>12, BuildAssumption DEF TypeOK, restart, Inotify, Present, fileVars
<1>13. CASE UNCHANGED vars
  BY <1>0, <1>13 DEF TypeOK, vars, fileVars, scanVars, callVars, seenVars
<1> QED
  BY <1>1, <1>2, <1>3, <1>4, <1>5, <1>6, <1>7, <1>8, <1>9, <1>10, <1>11, <1>12, <1>13
  DEF Next, Step, Daemon

\* Every variable of the watch directory keeps its type.
THEOREM TypeCorrect == Spec => []TypeOK
<1>1. Init => TypeOK
  BY FileAssumption, BuildAssumption DEF Init, TypeOK, Inotify
<1> QED
  BY <1>1, TypeStep, PTL DEF Spec

-----------------------------------------------------------------------------

\* A call of onFileAdded leaves TakenInv, whatever stands under the name.
LEMMA CallStep ==
  ASSUME TypeOK, TakenInv, Idle, NEW n \in Name,
         onFileAdded(n) \/ UNCHANGED <<disposing, session, accepted>>,
         UNCHANGED <<dir, putVars, taken>>
  PROVE  TakenInv'
<1>1. session \subseteq session'
  BY DEF onFileAdded
<1>2. TakenIsInSession'
  BY <1>1 DEF TakenInv, TakenIsInSession, putVars
<1>3. DisposalInv'
  <2> SUFFICES ASSUME disposing' # NoName
      PROVE /\ HashOf[accepted'] \in session'
            /\ dir[disposing'] \in {accepted', NoFile} \cup swapped
    BY DEF DisposalInv, putVars
  <2>1. onFileAdded(n) /\ dir[n] \in whole \ Bad
    BY DEF onFileAdded, Idle
  <2> QED
    BY <2>1 DEF onFileAdded
<1> QED
  BY <1>2, <1>3 DEF TakenInv

LEMMA TakenStep == TypeOK /\ TakenInv /\ [Next]_vars => TakenInv'
<1> SUFFICES ASSUME TypeOK, TakenInv, [Next]_vars PROVE TakenInv'
  OBVIOUS
<1> USE DEF putVars
<1>1. ASSUME NEW f \in File, drop(f) PROVE TakenInv'
  <2>1. NameOf[f] \in Name /\ f \in fresh
    BY <1>1, FileAssumption DEF drop
  <2>2. dir' = [dir EXCEPT ![NameOf[f]] = f] /\ fresh' = fresh \ {f}
    BY <1>1 DEF drop
  <2>3. /\ UNCHANGED <<disposing, session, accepted, taken>>
        /\ swapped' = IF NameOf[f] = disposing THEN swapped \cup {f} ELSE swapped
    BY <1>1 DEF drop, callVars
  <2>4. DisposalInv'
    BY <2>1, <2>2, <2>3, FileAssumption DEF TakenInv, DisposalInv, TypeOK
  <2> QED
    BY <2>3, <2>4 DEF TakenInv, TakenIsInSession
<1>2. ASSUME NEW f \in File, complete(f) PROVE TakenInv'
  BY <1>2 DEF complete, callVars, TakenInv, TakenIsInSession, DisposalInv
<1>3. ASSUME NEW n \in Name, withdraw(n) PROVE TakenInv'
  <2>1. dir' = [dir EXCEPT ![n] = NoFile] /\ UNCHANGED <<putVars, disposing, session, accepted, taken>>
    BY <1>3 DEF withdraw, callVars
  <2> QED
    BY <2>1, FileAssumption, TypeStep
    DEF TakenInv, TakenIsInSession, DisposalInv, TypeOK
<1>4. CASE clockTick
  BY <1>4 DEF clockTick, fileVars, callVars, TakenInv, TakenIsInSession, DisposalInv
<1>5. CASE openDirectory
  BY <1>5 DEF openDirectory, fileVars, callVars, TakenInv, TakenIsInSession, DisposalInv
<1>6. ASSUME NEW n \in Name, scanEntry(n) PROVE TakenInv'
  BY <1>6, CallStep DEF scanEntry, fileVars, callVars
<1>7. ASSUME NEW n \in Name, startupEntry(n) PROVE TakenInv'
  BY <1>7, CallStep DEF startupEntry, fileVars, callVars
<1>8. CASE closeDirectory
  BY <1>8 DEF closeDirectory, fileVars, callVars, TakenInv, TakenIsInSession, DisposalInv
<1>9. CASE startupDone
  BY <1>9 DEF startupDone, fileVars, callVars, TakenInv, TakenIsInSession, DisposalInv
<1>10. CASE handleEvent
  <2>1. Head(events) \in Name
    BY <1>10 DEF handleEvent, TypeOK
  <2> QED
    BY <1>10, <2>1, CallStep DEF handleEvent, fileVars
<1>11. CASE disposeOfSource
  <2>1. disposing \in Name /\ disposing' = NoName
    BY <1>11 DEF disposeOfSource, Idle, TypeOK
  <2>2. UNCHANGED <<putVars, session>>
    BY <1>11 DEF disposeOfSource
  <2>3. CASE UNCHANGED <<dir, taken>>
    BY <2>1, <2>2, <2>3 DEF TakenInv, TakenIsInSession, DisposalInv
  <2>4. CASE /\ dir[disposing] # NoFile
             /\ dir' = [dir EXCEPT ![disposing] = NoFile]
             /\ taken' = taken \cup {dir[disposing]}
    <3>1. dir[disposing] \in swapped \/ HashOf[dir[disposing]] \in session
      BY <2>1, <2>4, FileAssumption DEF TakenInv, DisposalInv
    <3> QED
      BY <2>1, <2>2, <2>4, <3>1 DEF TakenInv, TakenIsInSession, DisposalInv
  <2> QED
    BY <1>11, <2>3, <2>4 DEF disposeOfSource
<1>12. CASE restart
  BY <1>12 DEF restart, fileVars, TakenInv, TakenIsInSession, DisposalInv
<1>13. CASE UNCHANGED vars
  BY <1>13 DEF vars, fileVars, scanVars, callVars, TakenInv, TakenIsInSession,
               DisposalInv
<1> QED
  BY <1>1, <1>2, <1>3, <1>4, <1>5, <1>6, <1>7, <1>8, <1>9, <1>10, <1>11, <1>12, <1>13
  DEF Next, Step, Daemon

\* The daemon deletes and renames only files whose torrent is in the session, and files put
\* under the name of one that it had read, in every interleaving with the writers and over
\* restarts.
THEOREM TakenSafe == Spec => []TakenInv
<1>1. Init => TakenInv
  BY FileAssumption DEF Init, TakenInv, TakenIsInSession, DisposalInv
<1>2. TypeOK /\ TakenInv /\ [Next]_vars => TakenInv'
  BY TakenStep
<1> QED
  BY <1>1, <1>2, TypeCorrect, PTL DEF Spec

-----------------------------------------------------------------------------
(* The readdir build, whatever names are used how often. *)

\* A file stands under its own name, and has been put there.
NamedInv ==
  /\ \A n \in Name : dir[n] # NoFile => NameOf[dir[n]] = n
  /\ \A n \in Name : dir[n] \notin fresh

\* A name already listed by the last scan or returned by this one.
Known(n) == IF scanning THEN n \in curFiles \/ (n \in todo /\ n \in lastFiles) ELSE n \in lastFiles

\* The inductive invariant of TriedOnce: as long as a file that was tried stands under its
\* name, the name is known, and no name is returned twice by one scan.
TriedInv ==
  /\ NamedInv
  /\ ~Inotify =>
       /\ scanning => todo \cap curFiles = {}
       /\ \A f \in File :
            /\ tries[f] <= 1
            /\ tries[f] > 0 => f \notin fresh /\ (dir[NameOf[f]] = f => Known(NameOf[f]))

\* Steps that take files away or leave them, and the names with them.
LEMMA TriedStays ==
  ASSUME TypeOK, TriedInv, UNCHANGED <<build, tries, scanning, curFiles, lastFiles>>,
         fresh' \subseteq fresh,
         \A n \in Name : dir'[n] = dir[n] \/ dir'[n] = NoFile,
         \A n \in Name : dir'[n] # NoFile => (n \in todo' <=> n \in todo),
         todo' \subseteq todo
  PROVE  TriedInv'
<1>1. NamedInv'
  BY FileAssumption DEF TriedInv, NamedInv, TypeOK
<1>2. ASSUME ~Inotify', NEW f \in File
      PROVE  /\ tries'[f] <= 1
             /\ tries'[f] > 0 => f \notin fresh' /\ (dir'[NameOf[f]] = f => Known(NameOf[f])')
  <2>1. tries[f] <= 1 /\ (tries[f] > 0 => f \notin fresh /\ (dir[NameOf[f]] = f => Known(NameOf[f])))
    BY <1>2 DEF TriedInv, Inotify
  <2>2. dir'[NameOf[f]] = f => dir[NameOf[f]] = f /\ (NameOf[f] \in todo' <=> NameOf[f] \in todo)
    BY FileAssumption
  <2>3. dir'[NameOf[f]] = f /\ Known(NameOf[f]) => Known(NameOf[f])'
    BY <2>2 DEF Known
  <2> QED
    BY <2>1, <2>2, <2>3
<1>3. ~Inotify' /\ scanning' => todo' \cap curFiles' = {}
  BY DEF TriedInv, Inotify
<1> QED
  BY <1>1, <1>2, <1>3 DEF TriedInv

LEMMA TriedStep == TypeOK /\ TriedInv /\ [Next]_vars => TriedInv'
<1> SUFFICES ASSUME TypeOK, TriedInv, [Next]_vars PROVE TriedInv'
  OBVIOUS
<1> USE DEF putVars, fileVars, scanVars, callVars, seenVars
<1>0. build' = build /\ (Inotify' <=> Inotify)
  BY DEF Next, vars, Inotify
<1>1. ASSUME NEW f \in File, drop(f) PROVE TriedInv'
  <2>1. NameOf[f] \in Name /\ f \in fresh /\ dir[NameOf[f]] = NoFile
    BY <1>1, FileAssumption DEF drop
  <2>2. dir' = [dir EXCEPT ![NameOf[f]] = f] /\ fresh' = fresh \ {f}
    BY <1>1 DEF drop
  <2>3. UNCHANGED <<tries, scanning, curFiles, lastFiles>>
    BY <1>1 DEF drop
  <2>4. /\ todo \subseteq todo' /\ todo' \subseteq todo \cup {NameOf[f]}
        /\ scanning /\ NameOf[f] \in todo' => NameOf[f] \in todo \/ NameOf[f] \notin curFiles
    BY <1>1 DEF drop
  <2>5. NamedInv'
    BY <2>1, <2>2, FileAssumption DEF TriedInv, NamedInv, TypeOK
  <2>6. ASSUME ~Inotify, NEW g \in File
        PROVE  /\ tries[g] <= 1
               /\ tries[g] > 0 => g \notin fresh' /\ (dir'[NameOf[g]] = g => Known(NameOf[g])')
    <3>1. tries[g] <= 1 /\ (tries[g] > 0 => g \notin fresh /\ (dir[NameOf[g]] = g => Known(NameOf[g])))
      BY <2>6 DEF TriedInv
    <3>2. tries[g] > 0 => g # f
      BY <2>1, <3>1
    <3>3. g # f /\ dir'[NameOf[g]] = g => dir[NameOf[g]] = g
      BY <2>1, <2>2, FileAssumption DEF TypeOK
    <3>4. Known(NameOf[g]) => Known(NameOf[g])'
      BY <2>3, <2>4 DEF Known
    <3> QED
      BY <2>2, <3>1, <3>2, <3>3, <3>4
  <2>7. ~Inotify /\ scanning => todo' \cap curFiles = {}
    BY <2>4 DEF TriedInv
  <2> QED
    BY <1>0, <2>3, <2>5, <2>6, <2>7 DEF TriedInv
<1>2. ASSUME NEW f \in File, complete(f) PROVE TriedInv'
  BY <1>0, <1>2, TriedStays DEF complete
<1>3. ASSUME NEW n \in Name, withdraw(n) PROVE TriedInv'
  <2>1. /\ dir' = [dir EXCEPT ![n] = NoFile] /\ todo' \in {todo, todo \ {n}}
        /\ UNCHANGED <<fresh, tries, scanning, curFiles, lastFiles>>
    BY <1>3 DEF withdraw
  <2>2. /\ \A m \in Name : dir'[m] = dir[m] \/ dir'[m] = NoFile
        /\ \A m \in Name : dir'[m] # NoFile => m # n
    BY <2>1 DEF TypeOK
  <2> QED
    BY <1>0, <2>1, <2>2, TriedStays
<1>4. CASE clockTick
  BY <1>0, <1>4, TriedStays DEF clockTick
<1>5. CASE openDirectory
  <2>1. /\ ~Inotify /\ ~scanning /\ scanning' /\ todo' = Present /\ curFiles' = {}
        /\ UNCHANGED <<dir, fresh, tries, lastFiles>>
    BY <1>5 DEF openDirectory
  <2>2. ASSUME NEW f \in File
        PROVE  /\ tries[f] <= 1
               /\ tries[f] > 0 => f \notin fresh /\ (dir[NameOf[f]] = f => Known(NameOf[f])')
    <3>1. tries[f] <= 1 /\ (tries[f] > 0 => f \notin fresh /\ (dir[NameOf[f]] = f => Known(NameOf[f])))
      BY <2>1 DEF TriedInv
    <3>2. dir[NameOf[f]] = f => NameOf[f] \in Present
      BY FileAssumption DEF Present
    <3> QED
      BY <2>1, <3>1, <3>2 DEF Known
  <2> QED
    BY <1>0, <2>1, <2>2 DEF TriedInv, NamedInv
<1>6. ASSUME NEW n \in Name, scanEntry(n) PROVE TriedInv'
  <2>1. /\ ~Inotify /\ scanning /\ n \in todo /\ todo' = todo \ {n} /\ curFiles' = curFiles \cup {n}
        /\ UNCHANGED <<dir, fresh, scanning, lastFiles>>
    BY <1>6 DEF scanEntry
  <2>2. ASSUME NEW f \in File, tries'[f] # tries[f]
        PROVE  f = dir[n] /\ tries'[f] = tries[f] + 1 /\ ~is_file_in_list(lastFiles, n)
    <3>1. ~is_file_in_list(lastFiles, n) /\ Tried(n)
      BY <1>6, <2>2 DEF scanEntry
    <3>2. tries' = [tries EXCEPT ![dir[n]] = @ + 1]
      BY <2>2, <3>1 DEF Tried
    <3> QED
      BY <2>2, <3>1, <3>2 DEF TypeOK
  <2>3. ASSUME NEW f \in File
        PROVE  /\ tries'[f] <= 1
               /\ tries'[f] > 0 => f \notin fresh /\ (dir[NameOf[f]] = f => Known(NameOf[f])')
    <3>1. tries[f] <= 1 /\ (tries[f] > 0 => f \notin fresh /\ (dir[NameOf[f]] = f => Known(NameOf[f])))
      BY <2>1 DEF TriedInv
    <3>2. Known(NameOf[f]) => Known(NameOf[f])'
      BY <2>1 DEF Known
    <3>3. CASE tries'[f] = tries[f]
      BY <3>1, <3>2, <3>3
    <3>4. CASE tries'[f] # tries[f]
      <4>1. f = dir[n] /\ tries'[f] = tries[f] + 1 /\ n \notin lastFiles
        BY <2>2, <3>4 DEF is_file_in_list
      <4>2. NameOf[f] = n /\ f \notin fresh
        BY <4>1, FileAssumption DEF TriedInv, NamedInv
      <4>3. n \notin curFiles
        BY <2>1 DEF TriedInv
      <4>4. tries[f] = 0
        <5>1. ~Known(n)
          BY <2>1, <4>1, <4>3 DEF Known
        <5>2. tries[f] \in Nat
          BY DEF TypeOK
        <5> QED
          BY <3>1, <4>1, <4>2, <5>1, <5>2
      <4>5. Known(n)'
        BY <2>1 DEF Known
      <4> QED
        BY <4>1, <4>2, <4>4, <4>5
    <3> QED
      BY <3>3, <3>4
  <2> QED
    BY <1>0, <2>1, <2>3 DEF TriedInv, NamedInv
<1>7. CASE closeDirectory
  <2>1. /\ ~Inotify /\ scanning /\ ~scanning' /\ todo = {} /\ lastFiles' = curFiles
        /\ UNCHANGED <<dir, fresh, tries>>
    BY <1>7 DEF closeDirectory
  <2>2. \A n \in Name : Known(n) => Known(n)'
    BY <2>1 DEF Known
  <2>3. \A f \in File : NameOf[f] \in Name
    BY FileAssumption
  <2> QED
    BY <1>0, <2>1, <2>2, <2>3 DEF TriedInv, NamedInv
<1>8. CASE disposeOfSource
  <2>1. UNCHANGED <<fresh, todo, tries, scanning, curFiles, lastFiles>>
    BY <1>8 DEF disposeOfSource
  <2>2. \A m \in Name : dir'[m] = dir[m] \/ dir'[m] = NoFile
    BY <1>8 DEF disposeOfSource, TypeOK
  <2> QED
    BY <1>0, <2>1, <2>2, TriedStays
<1>9. CASE restart
  BY <1>0, <1>9 DEF restart, TriedInv, NamedInv
<1>10. ASSUME Inotify, UNCHANGED <<dir, fresh>> PROVE TriedInv'
  BY <1>0, <1>10 DEF TriedInv, NamedInv
<1>11. CASE startupDone \/ handleEvent \/ \E n \in Name : startupEntry(n)
  BY <1>10, <1>11 DEF startupDone, handleEvent, startupEntry
<1>12. CASE UNCHANGED vars
  BY <1>0, <1>12, TriedStays DEF vars
<1> QED
  BY <1>1, <1>2, <1>3, <1>4, <1>5, <1>6, <1>7, <1>8, <1>9, <1>11, <1>12 DEF Next, Step, Daemon

\* The readdir build tries no file twice before it is restarted (TriedOnce), whatever
\* other programs put under the same names meanwhile.
THEOREM TriesOnce == Spec => []TriedOnce
<1>1. Init => TriedInv
  BY FileAssumption DEF Init, TriedInv, NamedInv
<1>2. TriedInv => TriedOnce
  BY DEF TriedInv, TriedOnce
<1> QED
  BY <1>1, <1>2, TriedStep, TypeCorrect, PTL DEF Spec
=============================================================================
