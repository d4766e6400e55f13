-------------------------- MODULE InspectorsProofs --------------------------
(***************************************************************************)
(* Theorems about Inspectors, for torrents of any number of files in any   *)
(* folders, any number of trackers and of posted selectors: the file list  *)
(* is made and is that of the torrent, no inspector keeps a torrent that   *)
(* was removed, and what is on the screen is true.  The list is a sorted   *)
(* one and its folders are computed by recursion over the files, so the    *)
(* first part is about data: a sorted list exists, and the recursion is    *)
(* what ListIsTorrent says, by induction (as a least counterexample).      *)
(***************************************************************************)
EXTENDS Inspectors, FiniteSetTheorems, WellFoundedInduction, TLAPS

LEMMA LeastNumber ==
  ASSUME NEW T, T \subseteq Nat, T # {}
  PROVE  \E x \in T : \A y \in T : x <= y
<1> DEFINE R == {ss \in Nat \X Nat : ss[1] < ss[2]}
<1>1. IsWellFoundedOn(R, Nat)
  <2>1. R = OpToRel(<, Nat)
    BY Zenon DEF OpToRel
  <2> QED
    BY <2>1, NatLessThanWellFounded, Zenon
<1>2. \A x, y \in T : <<y, x>> \in R <=> y < x
  OBVIOUS
<1>3. \E x \in T : \A y \in T : ~ (y < x)
  <2> HIDE DEF R
  <2>1. PICK x \in T : \A y \in T : ~ (<<y, x>> \in R)
    BY <1>1, WFMin
  <2> QED
    BY <1>2, <2>1, Zenon
<1> QED
  BY <1>3

-----------------------------------------------------------------------------
(* The flat list. *)

LEMMA LayoutTypes ==
  ASSUME layout \in Layouts
  PROVE  /\ fileCount \in Nat \ {0} /\ Files = 1 .. fileCount
         /\ \A f \in Files : layout.paths[f] \in Seq(Nat) /\ Len(layout.paths[f]) > 0
         /\ \A f \in Files : Name(layout.paths[f]) \in Nat
<1>1. layout.paths \in Seq(Seq(Nat) \ {<<>>}) /\ layout.paths # <<>>
  BY InspectorsAssumption
<1>2. fileCount \in Nat \ {0} /\ Files = 1 .. fileCount
  BY <1>1 DEF fileCount, Files
<1>3. ASSUME NEW f \in Files
      PROVE  layout.paths[f] \in Seq(Nat) /\ Len(layout.paths[f]) > 0
  <2>1. layout.paths[f] \in Seq(Nat) \ {<<>>}
    BY <1>1, <1>2, <1>3 DEF fileCount
  <2> QED
    BY <2>1
<1>4. \A f \in Files : Name(layout.paths[f]) \in Nat
  BY <1>3 DEF Name
<1> QED
  BY <1>2, <1>3, <1>4

LEMMA InjectiveIsOnto ==
  ASSUME NEW S, IsFiniteSet(S), NEW f \in [S -> S],
         \A x, y \in S : f[x] = f[y] => x = y
  PROVE  \A y \in S : \E x \in S : f[x] = y
<1>1. f \in Injection(S, S)
  BY DEF Injection, IsInjective
<1>2. f \in Surjection(S, S)
  BY <1>1, FS_Injection, Zenon
<1> QED
  BY <1>2, Zenon DEF Surjection

\* The order of the flat list, made total by the numbers of the files.
Precedes(f, g) ==
  \/ Name(layout.paths[f]) < Name(layout.paths[g])
  \/ Name(layout.paths[f]) = Name(layout.paths[g]) /\ f < g

UpTo(f) == {g \in Files : g = f \/ Precedes(g, f)}

Rank == [f \in Files |-> Cardinality(UpTo(f))]

LEMMA RankGrows ==
  ASSUME layout \in Layouts, NEW f \in Files, NEW g \in Files, Precedes(f, g)
  PROVE  Rank[f] < Rank[g]
<1>1. UpTo(f) \subseteq UpTo(g) /\ g \in UpTo(g) /\ g \notin UpTo(f)
  BY LayoutTypes DEF UpTo, Precedes
<1>2. IsFiniteSet(UpTo(g))
  <2>1. IsFiniteSet(Files)
    BY LayoutTypes, FS_Interval
  <2> QED
    BY <2>1, FS_Subset DEF UpTo
<1>3. /\ IsFiniteSet(UpTo(f)) /\ Cardinality(UpTo(f)) <= Cardinality(UpTo(g))
      /\ Cardinality(UpTo(f)) # Cardinality(UpTo(g))
  BY <1>1, <1>2, FS_Subset
<1>4. Cardinality(UpTo(f)) \in Nat /\ Cardinality(UpTo(g)) \in Nat
  BY <1>2, <1>3, FS_CardinalityType
<1> QED
  BY <1>3, <1>4 DEF Rank

LEMMA RankNumbersFiles ==
  ASSUME layout \in Layouts
  PROVE  /\ Rank \in [Files -> Files]
         /\ \A f, g \in Files : Rank[f] = Rank[g] => f = g
         /\ \A n \in Files : \E f \in Files : Rank[f] = n
<1>1. IsFiniteSet(Files) /\ Cardinality(Files) = fileCount
  BY LayoutTypes, FS_Interval
<1>2. ASSUME NEW f \in Files PROVE Rank[f] \in Files
  <2>1. IsFiniteSet(UpTo(f)) /\ Cardinality(UpTo(f)) <= fileCount
    BY <1>1, FS_Subset DEF UpTo
  <2>2. f \in UpTo(f)
    BY DEF UpTo
  <2>3. Cardinality(UpTo(f)) \in Nat /\ Cardinality(UpTo(f)) # 0
    BY <2>1, <2>2, FS_CardinalityType, FS_EmptySet
  <2> QED
    BY <2>1, <2>3, LayoutTypes DEF Rank
<1>3. Rank \in [Files -> Files]
  BY <1>2 DEF Rank
<1>4. ASSUME NEW f \in Files, NEW g \in Files, Rank[f] = Rank[g] PROVE f = g
  <2>1. f = g \/ Precedes(f, g) \/ Precedes(g, f)
    BY LayoutTypes DEF Precedes
  <2>2. Rank[f] \in Nat /\ Rank[g] \in Nat
    BY <1>2, LayoutTypes
  <2> QED
    BY <1>4, <2>1, <2>2, RankGrows
<1>5. \A n \in Files : \E f \in Files : Rank[f] = n
  BY <1>1, <1>3, <1>4, InjectiveIsOnto
<1> QED
  BY <1>3, <1>4, <1>5

\* What sortFileList leaves.
IsFlatFileList(s) ==
  /\ \A a, b \in DOMAIN s : a # b => s[a] # s[b]
  /\ \A a \in 1 .. fileCount - 1 : Name(layout.paths[s[a]]) <= Name(layout.paths[s[a + 1]])

\* Files can be sorted: the row of a file is its rank.
LEMMA SortedListExists ==
  ASSUME layout \in Layouts
  PROVE  \E s \in [1 .. fileCount -> Files] : IsFlatFileList(s)
<1> DEFINE s == [n \in Files |-> CHOOSE f \in Files : Rank[f] = n]
<1>1. \A n \in Files : s[n] \in Files /\ Rank[s[n]] = n
  BY RankNumbersFiles
<1>2. s \in [1 .. fileCount -> Files]
  BY <1>1, LayoutTypes
<1>3. DOMAIN s = Files
  OBVIOUS
<1> HIDE DEF s
<1>4. \A a, b \in DOMAIN s : a # b => s[a] # s[b]
  BY <1>1, <1>3
<1>5. ASSUME NEW a \in 1 .. fileCount - 1
      PROVE  Name(layout.paths[s[a]]) <= Name(layout.paths[s[a + 1]])
  <2>1. a \in Files /\ a + 1 \in Files /\ a < a + 1
    BY LayoutTypes
  <2>2. /\ s[a] \in Files /\ s[a + 1] \in Files
        /\ ~ (Rank[s[a + 1]] < Rank[s[a]])
    BY <1>1, <2>1, LayoutTypes
  <2>3. ~ Precedes(s[a + 1], s[a])
    BY <2>2, RankGrows
  <2>4. Name(layout.paths[s[a]]) \in Nat /\ Name(layout.paths[s[a + 1]]) \in Nat
    BY <2>2, LayoutTypes
  <2> QED
    BY <2>3, <2>4 DEF Precedes
<1> QED
  BY <1>2, <1>4, <1>5 DEF IsFlatFileList

\* The flat list has every file in one row.
LEMMA FlatListIsTorrent ==
  ASSUME layout \in Layouts
  PROVE  /\ FlatFileList \in Seq(Files) /\ Len(FlatFileList) = fileCount
         /\ FlatFileList # <<>> /\ DOMAIN FlatFileList = Files
         /\ \A a, b \in Files : a # b => FlatFileList[a] # FlatFileList[b]
         /\ \A f \in Files : \E r \in DOMAIN FlatFileList : FlatFileList[r] = f
<1>1. FlatFileList \in [1 .. fileCount -> Files] /\ IsFlatFileList(FlatFileList)
  BY SortedListExists, Zenon DEF FlatFileList, IsFlatFileList
<1>2. /\ FlatFileList \in Seq(Files) /\ Len(FlatFileList) = fileCount
      /\ DOMAIN FlatFileList = Files /\ FlatFileList # <<>>
  BY <1>1, LayoutTypes
<1>3. \A a, b \in Files : a # b => FlatFileList[a] # FlatFileList[b]
  BY <1>1, <1>2 DEF IsFlatFileList
<1>4. \A f \in Files : \E r \in Files : FlatFileList[r] = f
  <2> DEFINE list == FlatFileList
  <2>1. IsFiniteSet(Files) /\ list \in [Files -> Files]
    <3>1. Files = 1 .. fileCount /\ fileCount \in Nat
      BY LayoutTypes
    <3>2. IsFiniteSet(Files)
      BY <3>1, FS_Interval
    <3> QED
      BY <1>1, <3>1, <3>2
  <2>2. \A a, b \in Files : list[a] = list[b] => a = b
    BY <1>3
  <2> HIDE DEF list
  <2>3. \A f \in Files : \E r \in Files : list[r] = f
    BY <2>1, <2>2, InjectiveIsOnto
  <2> QED
    BY <2>3 DEF list
<1> QED
  BY <1>2, <1>3, <1>4
-----------------------------------------------------------------------------
(* The folders. *)

\* The node of a folder when the first i files have been put into the list, and
\* all nodes there are then.
FilesBelow(q, i) == {f \in 1 .. i : q \in Above(layout.paths[f])}
Node(q, i) == [path |-> q, indexes |-> FilesBelow(q, i)]
FoldersUpTo(i) == UNION {Above(layout.paths[f]) : f \in 1 .. i}
Tree(i) == {Node(q, i) : q \in FoldersUpTo(i)}

LEMMA AbovePaths ==
  ASSUME layout \in Layouts, NEW f \in Files
  PROVE  Above(layout.paths[f]) \subseteq Seq(Nat)
<1>1. layout.paths[f] \in Seq(Nat)
  BY LayoutTypes
<1>2. ASSUME NEW k \in 1 .. Len(layout.paths[f]) - 1
      PROVE  SubSeq(layout.paths[f], 1, k) \in Seq(Nat)
  <2> DEFINE p == layout.paths[f]
  <2>1. p \in Seq(Nat) /\ k \in 1 .. Len(p)
    BY <1>1
  <2> HIDE DEF p
  <2>2. SubSeq(p, 1, k) \in Seq(Nat)
    BY <2>1
  <2> QED
    BY <2>2 DEF p
<1> QED
  BY <1>2 DEF Above

\* One file more gives every folder above it the file, and makes those that are
\* not there.
LEMMA InsertStep ==
  ASSUME layout \in Layouts, NEW i \in 1 .. fileCount
  PROVE  insertPath(Tree(i - 1), layout.paths[i], i) = Tree(i)
<1> DEFINE p == layout.paths[i]
           old == Tree(i - 1)
           touched(n) == \E q \in Above(p) : n \in {m \in old : m.path = q}
           added(n) == IF touched(n) THEN [n EXCEPT !.indexes = @ \cup {i}] ELSE n
           new == {q \in Above(p) : {m \in old : m.path = q} = {}}
<1>0. i \in Nat /\ 1 .. i = (1 .. i - 1) \cup {i} /\ i \notin 1 .. i - 1
  BY LayoutTypes
<1>1. insertPath(old, p, i) = {added(n) : n \in old} \cup {[path |-> q, indexes |-> {i}] : q \in new}
  BY DEF insertPath
<1>2. FoldersUpTo(i) = FoldersUpTo(i - 1) \cup Above(p)
  BY <1>0 DEF FoldersUpTo
<1>3. new = Above(p) \ FoldersUpTo(i - 1)
  <2>1. \A m \in old : m.path \in FoldersUpTo(i - 1)
    BY DEF Tree, Node
  <2>2. ASSUME NEW q \in FoldersUpTo(i - 1)
        PROVE  Node(q, i - 1) \in old /\ Node(q, i - 1).path = q
    BY DEF Tree, Node
  <2>3. \A q : {m \in old : m.path = q} = {} <=> q \notin FoldersUpTo(i - 1)
    <3> HIDE DEF old
    <3> QED
      BY <2>1, <2>2
  <2> QED
    BY <2>3
<1>4. \A q : FilesBelow(q, i) = IF q \in Above(p) THEN FilesBelow(q, i - 1) \cup {i}
                                ELSE FilesBelow(q, i - 1)
  BY <1>0 DEF FilesBelow
<1>5. ASSUME NEW q \in FoldersUpTo(i - 1) PROVE added(Node(q, i - 1)) = Node(q, i)
  <2>1. Node(q, i - 1) \in old /\ Node(q, i - 1).path = q
    BY DEF Tree, Node
  <2>2. touched(Node(q, i - 1)) <=> q \in Above(p)
    BY <2>1
  <2>3. CASE q \in Above(p)
    <3>1. added(Node(q, i - 1)) = [Node(q, i - 1) EXCEPT !.indexes = @ \cup {i}]
      BY <2>2, <2>3
    <3> QED
      BY <1>4, <2>3, <3>1 DEF Node
  <2>4. CASE q \notin Above(p)
    BY <1>4, <2>2, <2>4 DEF Node
  <2> QED
    BY <2>3, <2>4
<1>6. ASSUME NEW q \in new PROVE [path |-> q, indexes |-> {i}] = Node(q, i)
  <2>1. q \in Above(p) /\ FilesBelow(q, i - 1) = {}
    BY <1>3 DEF FoldersUpTo, FilesBelow
  <2> QED
    BY <1>4, <2>1 DEF Node
<1>7. {added(n) : n \in old} = {Node(q, i) : q \in FoldersUpTo(i - 1)}
  <2>1. {added(n) : n \in old} = {added(Node(q, i - 1)) : q \in FoldersUpTo(i - 1)}
    BY DEF Tree
  <2> QED
    BY <1>5, <2>1
<1>8. {[path |-> q, indexes |-> {i}] : q \in new} = {Node(q, i) : q \in new}
  BY <1>6
<1>9. FoldersUpTo(i) = FoldersUpTo(i - 1) \cup new
  BY <1>2, <1>3
<1>10. insertPath(old, p, i) = {Node(q, i) : q \in FoldersUpTo(i)}
  <2> HIDE DEF added, new, old
  <2> QED
    BY <1>1, <1>7, <1>8, <1>9
<1> QED
  BY <1>10 DEF Tree

\* The recursion of createFileList: nothing for no file, insertPath for the next.
Builds(t) ==
  t = [i \in 0 .. fileCount |->
         IF i = 0 THEN {} ELSE insertPath(t[i - 1], layout.paths[i], i)]

LEMMA FoldersAreBuilt ==
  ASSUME layout \in Layouts
  PROVE  FolderNodes = IF layout.multi THEN Tree(fileCount) ELSE {}
<1>0. fileCount \in Nat
  BY LayoutTypes
<1> DEFINE trees == [i \in 0 .. fileCount |-> Tree(i)]
<1>1. Tree(0) = {}
  BY DEF Tree, FoldersUpTo
<1>2. Builds(trees)
  <2>1. \A i \in 0 .. fileCount :
           Tree(i) = IF i = 0 THEN {} ELSE insertPath(trees[i - 1], layout.paths[i], i)
    BY <1>0, <1>1, InsertStep
  <2> QED
    BY <2>1 DEF Builds
<1>3. ASSUME NEW t, Builds(t) PROVE t[fileCount] = Tree(fileCount)
  <2> DEFINE Wrong == {i \in 0 .. fileCount : t[i] # Tree(i)}
  <2>1. \A i \in 0 .. fileCount :
           t[i] = IF i = 0 THEN {} ELSE insertPath(t[i - 1], layout.paths[i], i)
    BY <1>3, Zenon DEF Builds
  <2>2. ASSUME Wrong # {} PROVE FALSE
    <3>1. PICK i \in Wrong : \A j \in Wrong : i <= j
      <4>1. Wrong \subseteq Nat
        BY <1>0
      <4> HIDE DEF Wrong
      <4> QED
        BY <2>2, <4>1, LeastNumber
    <3>2. i \in 0 .. fileCount /\ t[i] # Tree(i)
      BY <3>1
    <3>3. i # 0
      BY <1>0, <1>1, <2>1, <3>2
    <3>4. i - 1 \in 0 .. fileCount /\ i - 1 \notin Wrong
      BY <1>0, <3>1, <3>2, <3>3
    <3>5. t[i - 1] = Tree(i - 1)
      BY <3>4
    <3>6. t[i] = insertPath(Tree(i - 1), layout.paths[i], i)
      BY <2>1, <3>2, <3>3, <3>5
    <3>7. i \in 1 .. fileCount
      BY <1>0, <3>2, <3>3
    <3> QED
      BY <3>2, <3>6, <3>7, InsertStep
  <2> QED
    BY <1>0, <2>2
<1>4. FolderNodes = IF layout.multi THEN (CHOOSE t : Builds(t))[fileCount] ELSE {}
  BY Zenon DEF FolderNodes, Builds
<1>5. Builds(CHOOSE t : Builds(t))
  BY <1>2, Zenon
<1> QED
  BY <1>3, <1>4, <1>5, Zenon
-----------------------------------------------------------------------------
(* Types. *)

\* What depends on the layout alone stays with it.
LEMMA LayoutStays ==
  ASSUME layout' = layout
  PROVE  /\ Files' = Files /\ fileCount' = fileCount
         /\ FlatFileList' = FlatFileList /\ FolderNodes' = FolderNodes
BY DEF Files, fileCount, FlatFileList, FolderNodes

LEMMA CreatedTypes ==
  ASSUME layout \in Layouts, createFileList
  PROVE  /\ flatFileList' \in Seq(Files)
         /\ \A n \in folders' : n.path \in Seq(Nat) /\ n.indexes \subseteq Files
<1>1. flatFileList' \in Seq(Files)
  BY FlatListIsTorrent DEF createFileList
<1>2. ASSUME NEW n \in Tree(fileCount)
      PROVE  n.path \in Seq(Nat) /\ n.indexes \subseteq Files
  <2>1. PICK f \in Files : \E q \in Above(layout.paths[f]) : n = Node(q, fileCount)
    BY LayoutTypes DEF Tree, FoldersUpTo
  <2> QED
    BY <2>1, AbovePaths, LayoutTypes DEF Node, FilesBelow
<1>3. folders' = IF layout.multi THEN Tree(fileCount) ELSE {}
  BY FoldersAreBuilt DEF createFileList
<1> QED
  BY <1>1, <1>2, <1>3

\* What drawing the rows of the list leaves on the screen and in the cache.
Drawn(done) ==
  /\ fileStat' = StatAfterDrawing(flatFileList, done)
  /\ shown' = [r \in DOMAIN flatFileList |->
                 wanted'[flatFileList[r]] \/ ~canChangeCheck(flatFileList[r], done, fileStat')]

StatType(stat) == stat = NoStat \/ stat \in [Files -> BOOLEAN]

LEMMA DrawnTypes ==
  ASSUME TypeOK, NEW done, Drawn(done)
  PROVE  /\ StatType(fileStat') /\ shown' \in Seq(BOOLEAN)
         /\ DOMAIN shown' = DOMAIN flatFileList
<1>1. StatType(fileStat')
  BY DEF Drawn, StatAfterDrawing, StatType, TypeOK
<1>2. DOMAIN flatFileList = 1 .. Len(flatFileList) /\ Len(flatFileList) \in Nat
  BY DEF TypeOK
<1>3. shown' \in [1 .. Len(flatFileList) -> BOOLEAN]
  BY <1>2 DEF Drawn
<1> QED
  BY <1>1, <1>2, <1>3

\* The Files table after an update: drawn anew if it is on the screen.
LEMMA UpdateDraws ==
  ASSUME update, wanted' = wanted
  PROVE  /\ complete' \in BOOLEAN
         /\ \/ torrent /\ "files" \in loaded /\ Drawn(complete')
            \/ ~ (torrent /\ "files" \in loaded) /\ UNCHANGED <<fileStat, shown>>
<1>1. complete' \in BOOLEAN
  BY DEF update
<1>2. reloadFiles(complete')
  BY DEF update
<1> QED
  BY <1>1, <1>2 DEF reloadFiles, Drawn, checkForFile

LEMMA UpdateTypes ==
  ASSUME TypeOK, update, wanted' = wanted
  PROVE  /\ complete' \in BOOLEAN /\ StatType(fileStat')
         /\ shown' \in Seq(BOOLEAN) /\ ("files" \notin loaded => shown' = <<>>)
<1>1. CASE torrent /\ "files" \in loaded /\ Drawn(complete')
  BY <1>1, UpdateDraws, DrawnTypes
<1>2. CASE ~ (torrent /\ "files" \in loaded) /\ UNCHANGED <<fileStat, shown>>
  BY <1>2, UpdateDraws DEF TypeOK, StatType
<1> QED
  BY <1>1, <1>2, UpdateDraws

\* A tap draws the list with the mark of its file changed.
LEMMA TapDraws ==
  ASSUME TypeOK, NEW f \in Files, NEW on \in BOOLEAN, setFileCheckState(f, on)
  PROVE  /\ wanted' \in [Files -> BOOLEAN] /\ complete' \in BOOLEAN /\ Drawn(complete')
<1>1. wanted' = [wanted EXCEPT ![f] = on] /\ wanted \in [Files -> BOOLEAN]
  BY DEF setFileCheckState, TypeOK
<1>2. complete' \in BOOLEAN
  BY DEF setFileCheckState
<1>3. wanted' \in [Files -> BOOLEAN]
  BY <1>1
<1>4. ASSUME NEW r \in DOMAIN flatFileList
      PROVE  (IF flatFileList[r] = f
                THEN on \/ ~canChangeCheck(f, complete', fileStat')
                ELSE checkForFile(flatFileList[r], complete', fileStat'))
             = (wanted'[flatFileList[r]] \/ ~canChangeCheck(flatFileList[r], complete', fileStat'))
  <2>1. flatFileList[r] \in Files
    BY DEF TypeOK
  <2>2. wanted'[f] = on /\ (flatFileList[r] # f => wanted'[flatFileList[r]] = wanted[flatFileList[r]])
    BY <1>1, <2>1
  <2> QED
    BY <2>2 DEF checkForFile
<1>5. Drawn(complete')
  BY <1>4 DEF setFileCheckState, Drawn
<1> QED
  BY <1>2, <1>3, <1>5

LEMMA PostTypes ==
  ASSUME TypeOK, Room, NEW sel \in Selectors, Post(sel)
  PROVE  runloop' \in Seq(Selectors) /\ Len(runloop') <= MaxPosted
BY InspectorsAssumption DEF TypeOK, Room, Post

LEMMA PerformTypes ==
  ASSUME TypeOK, NEW sel, Performs(sel)
  PROVE  runloop' \in Seq(Selectors) /\ Len(runloop') <= MaxPosted
BY InspectorsAssumption DEF TypeOK, Performs

\* The file list is that of the layout or is not made yet, and the rows on the
\* screen are its rows.  A tap is typed only because of it.
ListInv ==
  /\ flatFileList \in {<<>>, FlatFileList}
  /\ flatFileList # <<>> => folders = FolderNodes
  /\ shown = <<>> \/ DOMAIN shown = DOMAIN flatFileList

LEMMA TypeStep == TypeOK /\ ListInv /\ [Next]_vars => TypeOK'
<1> SUFFICES ASSUME TypeOK, ListInv, [Next]_vars PROVE TypeOK'
  OBVIOUS
<1> USE DEF libVars, objVars, viewVars
<1>0. layout' = layout /\ layout \in Layouts
  BY DEF TypeOK, Next, vars, setCallbacks, finishInit, Library, metadataCallback, FileChanges,
         rpcSetWanted, rpcSetTrackers, rpcChanged, rpcRemoving, Selected, metadataRetrieved,
         rpcChangedTorrent, rpcRemoveTorrent, performedTooLate, timerFired, User, openInspector,
         closeInspector, showFiles, showTrackers, checkmarkControlTapped, Terminating
<1>00. Files' = Files
  BY <1>0, LayoutStays
<1>1. CASE setCallbacks
  BY <1>0, <1>00, <1>1 DEF TypeOK, setCallbacks
<1>2. CASE finishInit
  <2>1. /\ flatFileList' \in Seq(Files)
        /\ \A n \in folders' : n.path \in Seq(Nat) /\ n.indexes \subseteq Files
    <3>1. createFileList \/ UNCHANGED <<flatFileList, folders>>
      BY <1>2 DEF finishInit
    <3> QED
      BY <1>0, <3>1, CreatedTypes DEF TypeOK
  <2>2. /\ complete' \in BOOLEAN /\ StatType(fileStat')
        /\ shown' \in Seq(BOOLEAN) /\ ("files" \notin loaded => shown' = <<>>)
    BY <1>2, UpdateTypes DEF finishInit
  <2>3. /\ made' = "ready"
        /\ UNCHANGED <<libVars, torrent, loaded, trackerRows, runloop, serving, aborted>>
    BY <1>2 DEF finishInit
  <2> QED
    BY <1>00, <2>1, <2>2, <2>3 DEF TypeOK, StatType
<1>3. CASE metadataCallback
  <2>1. hasMetadata' \in BOOLEAN
    BY <1>3 DEF metadataCallback
  <2>2. runloop' \in Seq(Selectors) /\ Len(runloop') <= MaxPosted
    BY <1>3, PostTypes DEF metadataCallback, TypeOK, Selectors
  <2>3. UNCHANGED <<layout, wanted, full, trackerCount, removed, objVars, viewVars, serving, aborted>>
    BY <1>3 DEF metadataCallback
  <2> QED
    BY <1>00, <2>1, <2>2, <2>3 DEF TypeOK
<1>4. ASSUME NEW f \in Files, FileChanges(f) PROVE TypeOK'
  <2>1. full' \in [Files -> BOOLEAN]
    BY <1>4 DEF TypeOK, FileChanges
  <2>2. UNCHANGED <<layout, hasMetadata, wanted, trackerCount, removed, objVars, viewVars, runloop,
                    serving, aborted>>
    BY <1>4 DEF FileChanges
  <2> QED
    BY <1>00, <2>1, <2>2 DEF TypeOK
<1>5. ASSUME NEW f \in Files, rpcSetWanted(f) PROVE TypeOK'
  <2>1. wanted' \in [Files -> BOOLEAN] /\ serving' \in BOOLEAN
    BY <1>5 DEF TypeOK, rpcSetWanted
  <2>2. UNCHANGED <<layout, hasMetadata, full, trackerCount, removed, objVars, viewVars, runloop,
                    aborted>>
    BY <1>5 DEF rpcSetWanted
  <2> QED
    BY <1>00, <2>1, <2>2 DEF TypeOK
<1>6. CASE rpcSetTrackers
  <2>1. serving' \in BOOLEAN
    BY <1>6 DEF rpcSetTrackers
  <2>2. /\ trackerCount' \in 0 .. MaxTrackers
        /\ UNCHANGED <<layout, hasMetadata, wanted, full, removed, objVars, viewVars, runloop, aborted>>
    BY <1>6 DEF rpcSetTrackers
  <2> QED
    BY <1>00, <2>1, <2>2 DEF TypeOK
<1>7. CASE rpcChanged
  <2>1. serving' \in BOOLEAN
    BY <1>7 DEF rpcChanged
  <2>2. runloop' \in Seq(Selectors) /\ Len(runloop') <= MaxPosted
    BY <1>7, PostTypes DEF rpcChanged, TypeOK, Selectors
  <2>3. UNCHANGED <<libVars, objVars, viewVars, aborted>>
    BY <1>7 DEF rpcChanged
  <2> QED
    BY <1>00, <2>1, <2>2, <2>3 DEF TypeOK
<1>8. CASE rpcRemoving
  BY <1>00, <1>8, PostTypes DEF TypeOK, rpcRemoving, Selectors
<1>9. CASE metadataRetrieved
  <2>1. complete' \in BOOLEAN
    BY <1>9 DEF metadataRetrieved
  <2>2. runloop' \in Seq(Selectors) /\ Len(runloop') <= MaxPosted
    BY <1>9, PerformTypes DEF metadataRetrieved
  <2>3. /\ flatFileList' \in Seq(Files)
        /\ \A n \in folders' : n.path \in Seq(Nat) /\ n.indexes \subseteq Files
    BY <1>0, <1>9, CreatedTypes DEF metadataRetrieved
  <2>4. UNCHANGED <<libVars, made, fileStat, viewVars, serving, aborted>>
    BY <1>9 DEF metadataRetrieved
  <2> QED
    BY <1>00, <2>1, <2>2, <2>3, <2>4 DEF TypeOK
<1>10. CASE rpcChangedTorrent
  <2>1. /\ complete' \in BOOLEAN /\ StatType(fileStat')
        /\ shown' \in Seq(BOOLEAN) /\ ("files" \notin loaded => shown' = <<>>)
    BY <1>10, UpdateTypes DEF rpcChangedTorrent
  <2>2. runloop' \in Seq(Selectors) /\ Len(runloop') <= MaxPosted
    BY <1>10, PerformTypes DEF rpcChangedTorrent
  <2>3. /\ trackerRows' \in {trackerRows, trackerCount}
        /\ UNCHANGED <<libVars, made, flatFileList, folders, torrent, loaded, serving, aborted>>
    BY <1>10 DEF rpcChangedTorrent
  <2> QED
    BY <1>00, <2>1, <2>2, <2>3 DEF TypeOK, StatType
<1>11. CASE rpcRemoveTorrent
  <2>1. removed' \in BOOLEAN /\ torrent' \in BOOLEAN
    BY <1>11 DEF rpcRemoveTorrent
  <2>2. runloop' \in Seq(Selectors) /\ Len(runloop') <= MaxPosted
    BY <1>11, PerformTypes DEF rpcRemoveTorrent
  <2>3. UNCHANGED <<layout, hasMetadata, wanted, full, trackerCount, objVars, loaded, shown,
                    trackerRows, serving, aborted>>
    BY <1>11 DEF rpcRemoveTorrent
  <2> QED
    BY <1>00, <2>1, <2>2, <2>3 DEF TypeOK
<1>12. CASE performedTooLate
  <2>1. runloop' \in Seq(Selectors) /\ Len(runloop') <= MaxPosted
    BY <1>12, PerformTypes DEF performedTooLate
  <2>2. aborted' \in BOOLEAN /\ UNCHANGED <<libVars, objVars, viewVars, serving>>
    BY <1>12 DEF performedTooLate
  <2> QED
    BY <1>00, <2>1, <2>2 DEF TypeOK
<1>13. CASE timerFired
  <2>1. /\ complete' \in BOOLEAN /\ StatType(fileStat')
        /\ shown' \in Seq(BOOLEAN) /\ ("files" \notin loaded => shown' = <<>>)
    BY <1>13, UpdateTypes DEF timerFired
  <2>2. UNCHANGED <<libVars, made, flatFileList, folders, torrent, loaded, trackerRows, runloop,
                    serving, aborted>>
    BY <1>13 DEF timerFired
  <2> QED
    BY <1>00, <2>1, <2>2 DEF TypeOK, StatType
<1>14. CASE openInspector \/ closeInspector
  <2>1. torrent' \in BOOLEAN
    BY <1>14 DEF openInspector, closeInspector
  <2>2. /\ loaded' = {} /\ shown' = <<>> /\ trackerRows' = 0
        /\ UNCHANGED <<libVars, objVars, runloop, serving, aborted>>
    BY <1>14 DEF openInspector, closeInspector
  <2> QED
    BY <1>00, <2>1, <2>2, InspectorsAssumption DEF TypeOK
<1>15. CASE showFiles
  <2>1. StatType(fileStat') /\ shown' \in Seq(BOOLEAN)
    <3>1. Drawn(complete)
      BY <1>15 DEF showFiles, Drawn, checkForFile
    <3> QED
      BY <3>1, DrawnTypes
  <2>2. /\ loaded' = loaded \cup {"files"}
        /\ UNCHANGED <<libVars, made, flatFileList, folders, complete, torrent, trackerRows, runloop,
                       serving, aborted>>
    BY <1>15 DEF showFiles
  <2> QED
    BY <1>00, <2>1, <2>2 DEF TypeOK, StatType, Tables
<1>16. CASE showTrackers
  BY <1>00, <1>16 DEF TypeOK, showTrackers, Tables
<1>17. ASSUME NEW r \in 1 .. fileCount, checkmarkControlTapped(r) PROVE TypeOK'
  <2>1. UNCHANGED <<layout, hasMetadata, full, trackerCount, removed, made, flatFileList, folders,
                    torrent, loaded, trackerRows, runloop, serving>>
    BY <1>17 DEF checkmarkControlTapped
  <2>2. r \in DOMAIN shown /\ "files" \in loaded
    BY <1>17 DEF checkmarkControlTapped, TypeOK
  <2>3. CASE torrent /\ flatFileList[r] \in Files /\ UNCHANGED aborted
    <3>1. setFileCheckState(flatFileList[r], ~shown[r])
      BY <1>17, <2>3 DEF checkmarkControlTapped
    <3>2. wanted' \in [Files -> BOOLEAN] /\ complete' \in BOOLEAN /\ Drawn(complete')
      BY <2>3, <3>1, TapDraws
    <3>3. StatType(fileStat') /\ shown' \in Seq(BOOLEAN)
      BY <3>2, DrawnTypes
    <3> QED
      BY <1>00, <2>1, <2>2, <2>3, <3>2, <3>3 DEF TypeOK, StatType
  <2>4. CASE ~torrent
    <3>1. aborted' \in BOOLEAN /\ UNCHANGED <<wanted, complete, fileStat, shown>>
      BY <1>17, <2>4 DEF checkmarkControlTapped
    <3> QED
      BY <1>00, <2>1, <3>1 DEF TypeOK
  <2>5. flatFileList[r] \in Files
    BY <2>2 DEF ListInv, TypeOK
  <2>6. torrent => UNCHANGED aborted
    BY <1>17 DEF checkmarkControlTapped
  <2> QED
    BY <2>3, <2>4, <2>5, <2>6
<1>18. CASE UNCHANGED vars
  BY <1>00, <1>18 DEF TypeOK, vars
<1> QED
  BY <1>1, <1>2, <1>3, <1>4, <1>5, <1>6, <1>7, <1>8, <1>9, <1>10, <1>11, <1>12, <1>13, <1>14,
     <1>15, <1>16, <1>17, <1>18
  DEF Next, Library, Selected, User, Terminating

-----------------------------------------------------------------------------
(* The file list. *)

\* The constructor decides by hasMetadata; a callback that comes after it was set
\* is posted.  The list is missing only where one of the two is still to come.
MadeInv ==
  /\ hasMetadata /\ made = "ready" /\ ~removed /\ ~Pending("metadataRetrieved") =>
        flatFileList # <<>>
  /\ torrent => made = "ready" /\ ~removed

\* Posting adds a selector, performing one takes it from the front.
LEMMA PendingSteps ==
  ASSUME TypeOK, NEW sel
  PROVE  /\ \A x : Post(x) => (Pending(sel)' <=> Pending(sel) \/ sel = x)
         /\ \A x : Performs(x) /\ sel # x => (Pending(sel)' <=> Pending(sel))
<1>0. runloop \in Seq(Selectors)
  BY DEF TypeOK
<1>1. ASSUME NEW x, Post(x) PROVE Pending(sel)' <=> Pending(sel) \/ sel = x
  <2>1. /\ runloop' = Append(runloop, x)
        /\ DOMAIN runloop' = DOMAIN runloop \cup {Len(runloop) + 1}
        /\ \A i \in DOMAIN runloop : runloop'[i] = runloop[i]
        /\ runloop'[Len(runloop) + 1] = x
    BY <1>0, <1>1 DEF Post
  <2> QED
    BY <2>1 DEF Pending
<1>2. ASSUME NEW x, Performs(x), sel # x PROVE Pending(sel)' <=> Pending(sel)
  <2>1. /\ runloop[1] = x /\ Len(runloop) \in Nat \ {0}
        /\ DOMAIN runloop = 1 .. Len(runloop)
        /\ DOMAIN runloop' = 1 .. Len(runloop) - 1
        /\ \A i \in 1 .. Len(runloop) - 1 : runloop'[i] = runloop[i + 1]
    <3>1. runloop # <<>> /\ Head(runloop) = x /\ runloop' = Tail(runloop)
      BY <1>2 DEF Performs
    <3>2. /\ Tail(runloop) \in Seq(Selectors) /\ Len(Tail(runloop)) = Len(runloop) - 1
          /\ \A i \in 1 .. Len(runloop) - 1 : Tail(runloop)[i] = runloop[i + 1]
      BY <1>0, <3>1
    <3> QED
      BY <1>0, <3>1, <3>2
  <2>3. ASSUME NEW i \in DOMAIN runloop, runloop[i] = sel PROVE Pending(sel)'
    <3>1. i # 1 /\ i - 1 \in 1 .. Len(runloop) - 1 /\ (i - 1) + 1 = i
      BY <1>2, <2>1, <2>3
    <3>2. runloop'[i - 1] = sel
      BY <2>1, <2>3, <3>1
    <3> QED
      BY <2>1, <3>1, <3>2 DEF Pending
  <2>4. Pending(sel)' => Pending(sel)
    BY <2>1 DEF Pending
  <2> QED
    BY <2>3, <2>4 DEF Pending
<1> QED
  BY <1>1, <1>2

\* What a step does to the list and to what is on the screen: it makes the list
\* and draws nothing, or leaves the list and draws nothing, all of it, or an empty
\* table.  The files wanted change unseen only when a request over RPC does it.
LEMMA ScreenStep ==
  ASSUME TypeOK, ListInv, MadeInv, [Next]_vars
  PROVE  /\ layout' = layout
         /\ \/ createFileList /\ UNCHANGED <<shown, fileStat, wanted>>
            \/ /\ UNCHANGED <<flatFileList, folders>>
               /\ \/ UNCHANGED <<shown, fileStat>> /\ (wanted' = wanted \/ serving')
                  \/ shown' = <<>>
                  \/ \E done \in BOOLEAN : Drawn(done)
<1> DEFINE
      Makes == createFileList /\ UNCHANGED <<shown, fileStat, wanted>>
      Keeps == UNCHANGED <<shown, fileStat>> /\ (wanted' = wanted \/ serving')
      Draws == Keeps \/ shown' = <<>> \/ \E done \in BOOLEAN : Drawn(done)
      Goal == layout' = layout /\ (Makes \/ (UNCHANGED <<flatFileList, folders>> /\ Draws))
<1> USE DEF libVars, objVars, viewVars
<1>1. ASSUME update, UNCHANGED wanted PROVE Draws
  BY <1>1, UpdateDraws
<1>2. CASE finishInit
  <2>1. layout' = layout /\ UNCHANGED wanted /\ ~torrent
    BY <1>2 DEF finishInit, MadeInv
  <2>2. UNCHANGED <<shown, fileStat>>
    BY <1>2, <2>1, UpdateDraws DEF finishInit
  <2>3. createFileList \/ UNCHANGED <<flatFileList, folders>>
    BY <1>2 DEF finishInit
  <2> QED
    BY <2>1, <2>2, <2>3
<1>3. CASE metadataRetrieved
  BY <1>3 DEF metadataRetrieved
<1>4. CASE rpcChangedTorrent \/ timerFired
  <2>1. /\ update /\ UNCHANGED wanted /\ layout' = layout
        /\ UNCHANGED <<flatFileList, folders>>
    BY <1>4 DEF rpcChangedTorrent, timerFired
  <2> QED
    BY <1>1, <2>1
<1>5. CASE showFiles
  <2>1. /\ Drawn(complete) /\ complete \in BOOLEAN /\ layout' = layout
        /\ UNCHANGED <<flatFileList, folders>>
    BY <1>5 DEF showFiles, Drawn, checkForFile, TypeOK
  <2> QED
    BY <2>1
<1>6. ASSUME NEW r \in 1 .. fileCount, checkmarkControlTapped(r) PROVE Goal
  <2>1. layout' = layout /\ UNCHANGED <<flatFileList, folders>>
    BY <1>6 DEF checkmarkControlTapped
  <2>2. CASE torrent
    <3>1. r \in DOMAIN shown /\ flatFileList[r] \in Files
      BY <1>6 DEF checkmarkControlTapped, ListInv, TypeOK
    <3>2. setFileCheckState(flatFileList[r], ~shown[r])
      BY <1>6, <2>2 DEF checkmarkControlTapped
    <3>3. complete' \in BOOLEAN /\ Drawn(complete')
      BY <3>1, <3>2, TapDraws
    <3> QED
      BY <2>1, <3>3
  <2>3. CASE ~torrent
    BY <1>6, <2>1, <2>3 DEF checkmarkControlTapped
  <2> QED
    BY <2>2, <2>3
<1>7. CASE openInspector \/ closeInspector
  BY <1>7 DEF openInspector, closeInspector
<1>8. ASSUME NEW f \in Files, rpcSetWanted(f) PROVE Goal
  <2>1. serving' /\ layout' = layout /\ UNCHANGED <<flatFileList, folders, shown, fileStat>>
    BY <1>8 DEF rpcSetWanted
  <2> QED
    BY <2>1
<1>9. CASE \/ setCallbacks \/ metadataCallback \/ (\E f \in Files : FileChanges(f))
           \/ rpcSetTrackers \/ rpcChanged \/ rpcRemoving \/ rpcRemoveTorrent
           \/ performedTooLate \/ showTrackers \/ UNCHANGED vars
  <2>1. UNCHANGED <<layout, flatFileList, folders, shown, fileStat, wanted>>
    BY <1>9 DEF setCallbacks, metadataCallback, FileChanges, rpcSetTrackers, rpcChanged, rpcRemoving,
                rpcRemoveTorrent, performedTooLate, showTrackers, vars
  <2> QED
    BY <2>1
<1>10. Goal
  BY <1>2, <1>3, <1>4, <1>5, <1>6, <1>7, <1>8, <1>9
  DEF Next, Library, Selected, User, Terminating
<1> QED
  BY <1>10

LEMMA ListStep == TypeOK /\ ListInv /\ MadeInv /\ [Next]_vars => ListInv'
<1> SUFFICES ASSUME TypeOK, ListInv, MadeInv, [Next]_vars PROVE ListInv'
  OBVIOUS
<1>1. FlatFileList' = FlatFileList /\ FolderNodes' = FolderNodes
  BY ScreenStep, LayoutStays
<1>2. CASE createFileList /\ UNCHANGED shown
  <2>1. shown # <<>> => flatFileList # <<>>
    <3>1. shown \in Seq(BOOLEAN) /\ flatFileList \in Seq(Files)
      BY DEF TypeOK
    <3> QED
      BY <3>1 DEF ListInv
  <2> QED
    BY <1>1, <1>2, <2>1 DEF ListInv, createFileList
<1>3. CASE UNCHANGED <<flatFileList, folders>>
  <2>1. shown' = shown \/ shown' = <<>> \/ DOMAIN shown' = DOMAIN flatFileList
    BY ScreenStep, <1>3, DrawnTypes
  <2> QED
    BY <1>1, <1>3, <2>1 DEF ListInv
<1> QED
  BY <1>2, <1>3, ScreenStep

LEMMA MadeStep == TypeOK /\ ListInv /\ MadeInv /\ [Next]_vars => MadeInv'
<1> SUFFICES ASSUME TypeOK, ListInv, MadeInv, [Next]_vars PROVE MadeInv'
  OBVIOUS
<1> USE DEF libVars, objVars, viewVars
<1>0. FlatFileList # <<>>
  BY FlatListIsTorrent DEF TypeOK
<1>1. CASE setCallbacks
  BY <1>1 DEF setCallbacks, MadeInv
<1>2. CASE finishInit
  <2>1. hasMetadata' => flatFileList' # <<>>
    BY <1>0, <1>2 DEF finishInit, createFileList
  <2>2. ~torrent'
    BY <1>2 DEF finishInit, MadeInv
  <2> QED
    BY <2>1, <2>2 DEF MadeInv
<1>3. CASE metadataCallback
  <2>1. made = "ready" => Pending("metadataRetrieved")'
    BY <1>3, PendingSteps DEF metadataCallback
  <2>2. UNCHANGED <<made, torrent, removed>>
    BY <1>3 DEF metadataCallback
  <2> QED
    BY <2>1, <2>2 DEF MadeInv
<1>4. ASSUME UNCHANGED <<hasMetadata, made, removed, flatFileList, torrent>>,
             Pending("metadataRetrieved") => Pending("metadataRetrieved")'
      PROVE  MadeInv'
  BY <1>4 DEF MadeInv
<1>5. CASE rpcChanged \/ rpcRemoving
  BY <1>4, <1>5, PendingSteps DEF rpcChanged, rpcRemoving, Pending
<1>6. CASE metadataRetrieved
  BY <1>0, <1>6 DEF metadataRetrieved, createFileList, MadeInv
<1>7. CASE rpcChangedTorrent
  BY <1>4, <1>7, PendingSteps DEF rpcChangedTorrent
<1>8. CASE rpcRemoveTorrent
  BY <1>8, Zenon DEF rpcRemoveTorrent, MadeInv
<1>9. CASE performedTooLate
  BY <1>9 DEF performedTooLate, MadeInv
<1>10. CASE openInspector \/ closeInspector
  <2>1. /\ UNCHANGED <<hasMetadata, made, removed, flatFileList, runloop>>
        /\ ~torrent' \/ (made = "ready" /\ ~removed)
    BY <1>10 DEF openInspector, closeInspector
  <2> QED
    BY <2>1 DEF MadeInv, Pending
<1>11. CASE \/ (\E f \in Files : FileChanges(f) \/ rpcSetWanted(f))
            \/ rpcSetTrackers \/ timerFired \/ showFiles \/ showTrackers
            \/ (\E r \in 1 .. fileCount : checkmarkControlTapped(r)) \/ UNCHANGED vars
  <2>1. UNCHANGED <<hasMetadata, made, removed, flatFileList, torrent, runloop>>
    BY <1>11 DEF FileChanges, rpcSetWanted, rpcSetTrackers, timerFired, showFiles, showTrackers,
                 checkmarkControlTapped, vars
  <2> QED
    BY <1>4, <2>1 DEF Pending
<1> QED
  BY <1>1, <1>2, <1>3, <1>5, <1>6, <1>7, <1>8, <1>9, <1>10, <1>11
  DEF Next, Library, Selected, User, Terminating

LEMMA InitInv == Init => TypeOK /\ ListInv /\ MadeInv
<1> SUFFICES ASSUME Init PROVE TypeOK /\ ListInv /\ MadeInv
  OBVIOUS
<1>1. TypeOK
  <2>1. /\ hasMetadata \in BOOLEAN /\ removed \in BOOLEAN /\ complete \in BOOLEAN
        /\ torrent \in BOOLEAN /\ serving \in BOOLEAN /\ aborted \in BOOLEAN
        /\ wanted \in [Files -> BOOLEAN] /\ full \in [Files -> BOOLEAN]
    BY DEF Init
  <2>2. /\ layout \in Layouts /\ trackerCount \in 0 .. MaxTrackers /\ made = "new"
        /\ flatFileList = <<>> /\ folders = {} /\ fileStat = NoStat /\ loaded = {}
        /\ shown = <<>> /\ trackerRows = 0 /\ runloop = <<>>
    BY DEF Init
  <2> QED
    BY <2>1, <2>2, InspectorsAssumption DEF TypeOK
<1>2. ListInv
  BY DEF Init, ListInv
<1>3. MadeInv
  BY DEF Init, MadeInv
<1> QED
  BY <1>1, <1>2, <1>3

LEMMA Invariance == Spec => [](TypeOK /\ ListInv /\ MadeInv)
<1>1. TypeOK /\ ListInv /\ MadeInv /\ [Next]_vars => (TypeOK /\ ListInv /\ MadeInv)'
  BY TypeStep, ListStep, MadeStep
<1> QED
  BY <1>1, InitInv, PTL DEF Spec

\* A list that was made is that of the torrent.
LEMMA MadeListIsTorrent == TypeOK /\ ListInv => ListIsTorrent
<1> SUFFICES ASSUME TypeOK, ListInv, flatFileList # <<>>
             PROVE  /\ Len(flatFileList) = fileCount
                    /\ \A f \in Files : \E r \in DOMAIN flatFileList : flatFileList[r] = f
                    /\ layout.multi =>
                          folders = {[path |-> q,
                                      indexes |-> {f \in Files : q \in Above(layout.paths[f])}] :
                                        q \in UNION {Above(layout.paths[f]) : f \in Files}}
  BY Zenon DEF ListIsTorrent
<1>1. layout \in Layouts /\ flatFileList = FlatFileList /\ folders = FolderNodes
  BY DEF TypeOK, ListInv
<1>2. Files = 1 .. fileCount
  BY <1>1, LayoutTypes
<1>3. layout.multi => folders = Tree(fileCount)
  BY <1>1, FoldersAreBuilt
<1>4. Tree(fileCount) = {[path |-> q, indexes |-> {f \in Files : q \in Above(layout.paths[f])}] :
                            q \in UNION {Above(layout.paths[f]) : f \in Files}}
  BY <1>2, Zenon DEF Tree, Node, FilesBelow, FoldersUpTo
<1> QED
  BY <1>1, <1>3, <1>4, FlatListIsTorrent, Zenon

\* The file list is made, whoever has the metadata first, once no callback is
\* waiting (ListIsMade); it has every file in one row, and the folders built by the
\* recursion over the files are those of the paths (ListIsTorrent).
THEOREM FileListKept == Spec => []FileListInv
<1>1. TypeOK /\ ListInv /\ MadeInv => FileListInv
  BY MadeListIsTorrent DEF FileListInv, MadeInv, ListIsMade
<1> QED
  BY <1>1, Invariance, PTL

\* An inspector shows no torrent that was removed (InspectorLetsGo).
THEOREM LetsGo == Spec => []InspectorLetsGo
<1>1. MadeInv => InspectorLetsGo
  BY DEF MadeInv, InspectorLetsGo
<1> QED
  BY <1>1, Invariance, PTL

-----------------------------------------------------------------------------
(* What is on the screen. *)

\* Marks just drawn follow from one snapshot, whatever it was: without the cache
\* they were drawn as for a complete torrent.
LEMMA DrawnMarks ==
  ASSUME TypeOK, UNCHANGED <<layout, flatFileList>>, NEW done \in BOOLEAN, Drawn(done)
  PROVE  MarksFollow'
<1> DEFINE mark(r, d) == wanted'[flatFileList[r]] \/ ~canChangeCheck(flatFileList[r], d, fileStat')
<1>1. fileCount' = fileCount
  BY LayoutStays
<1>2. MarksFollow' <=>
        \E d \in {TRUE} \cup {FALSE : x \in {fileStat'} \ {NoStat}} :
            \A r \in DOMAIN shown' : shown'[r] = mark(r, d)
  BY <1>1, Zenon DEF MarksFollow, checkForFile, canChangeCheck, NoStat
<1>3. \A r \in DOMAIN shown' : shown'[r] = mark(r, done)
  BY DrawnTypes DEF Drawn
<1>4. CASE done \/ fileStat' # NoStat
  BY <1>2, <1>3, <1>4
<1>5. CASE ~done /\ fileStat' = NoStat
  <2>1. full # NoStat
    <3>1. full \in [Files -> BOOLEAN] /\ 1 \in Files
      BY LayoutTypes DEF TypeOK
    <3> QED
      BY <3>1 DEF NoStat
  <2>2. flatFileList = <<>> \/ ~ (fileCount > 1)
    BY <1>5, <2>1 DEF Drawn, StatAfterDrawing
  <2>3. \A r \in DOMAIN shown' : mark(r, done) = mark(r, TRUE)
    BY <2>2, DrawnTypes DEF canChangeCheck
  <2> QED
    BY <1>2, <1>3, <2>3
<1> QED
  BY <1>4, <1>5

LEMMA NoRowsMarks ==
  ASSUME shown' = <<>>
  PROVE  MarksFollow'
<1>1. DOMAIN shown' = {}
  OBVIOUS
<1>2. \A r \in DOMAIN shown' : shown'[r] = checkForFile(flatFileList[r], TRUE, fileStat)'
  BY <1>1, Zenon
<1> QED
  BY <1>2, Zenon DEF MarksFollow

\* The marks follow as long as no change over RPC begins.
LEMMA MarksStep ==
  ASSUME TypeOK, ListInv, MadeInv, [Next]_vars, MarksFollow, ~serving'
  PROVE  MarksFollow'
<1>1. layout' = layout
  BY ScreenStep
<1>2. CASE createFileList /\ UNCHANGED <<shown, fileStat, wanted>>
  <2>1. CASE shown = <<>>
    BY <1>2, <2>1, NoRowsMarks
  <2>2. CASE shown # <<>>
    <3>1. flatFileList # <<>>
      <4>1. shown \in Seq(BOOLEAN) /\ flatFileList \in Seq(Files)
        BY DEF TypeOK
      <4> QED
        BY <2>2, <4>1 DEF ListInv
    <3>2. flatFileList' = flatFileList
      BY <1>2, <3>1 DEF ListInv, createFileList
    <3> QED
      BY <1>1, <1>2, <3>2, LayoutStays, Zenon
      DEF MarksFollow, checkForFile, canChangeCheck, NoStat
  <2> QED
    BY <2>1, <2>2
<1>3. CASE UNCHANGED <<flatFileList, shown, fileStat, wanted>>
  BY <1>1, <1>3, LayoutStays, Zenon DEF MarksFollow, checkForFile, canChangeCheck, NoStat
<1>4. CASE shown' = <<>>
  BY <1>4, NoRowsMarks
<1>5. ASSUME NEW done \in BOOLEAN, Drawn(done), UNCHANGED flatFileList PROVE MarksFollow'
  BY <1>1, <1>5, DrawnMarks
<1> QED
  BY <1>2, <1>3, <1>4, <1>5, ScreenStep

TrackersTrue == "trackers" \in loaded => trackerRows = trackerCount

LEMMA TrackersStep ==
  ASSUME TypeOK, [Next]_vars, TrackersTrue, ~serving'
  PROVE  TrackersTrue'
<1> USE DEF libVars, objVars, viewVars
<1>1. CASE rpcSetTrackers
  BY <1>1 DEF rpcSetTrackers
<1>2. CASE rpcChangedTorrent
  BY <1>2 DEF rpcChangedTorrent, TrackersTrue
<1>3. CASE openInspector \/ closeInspector \/ showFiles \/ showTrackers
  BY <1>3 DEF openInspector, closeInspector, showFiles, showTrackers, TrackersTrue
<1>4. CASE \/ setCallbacks \/ finishInit \/ metadataCallback \/ rpcChanged \/ rpcRemoving
           \/ (\E f \in Files : FileChanges(f) \/ rpcSetWanted(f))
           \/ metadataRetrieved \/ rpcRemoveTorrent \/ performedTooLate \/ timerFired
           \/ (\E r \in 1 .. fileCount : checkmarkControlTapped(r)) \/ UNCHANGED vars
  <2>1. UNCHANGED <<loaded, trackerRows, trackerCount>>
    BY <1>4 DEF setCallbacks, finishInit, metadataCallback, rpcChanged, rpcRemoving, FileChanges,
                rpcSetWanted, metadataRetrieved, rpcRemoveTorrent, performedTooLate, timerFired,
                checkmarkControlTapped, vars
  <2> QED
    BY <2>1 DEF TrackersTrue
<1> QED
  BY <1>1, <1>2, <1>3, <1>4 DEF Next, Library, Selected, User, Terminating

\* How the screen comes to be due to be true: an inspector opens, with empty tables,
\* or the last change made over RPC is announced, and every table is drawn.
LEMMA DueStep ==
  ASSUME TypeOK, ListInv, MadeInv, [Next]_vars,
         torrent', ~serving', ~Pending("rpcChangedTorrent")'
  PROVE  \/ torrent /\ ~serving /\ ~Pending("rpcChangedTorrent")
         \/ openInspector \/ rpcChangedTorrent
<1> USE DEF libVars, objVars, viewVars
<1>1. CASE rpcChanged
  BY <1>1, PendingSteps DEF rpcChanged, MadeInv
<1>2. CASE metadataCallback \/ rpcRemoving
  <2>1. UNCHANGED <<torrent, serving>>
    BY <1>2 DEF metadataCallback, rpcRemoving
  <2>2. Pending("rpcChangedTorrent") => Pending("rpcChangedTorrent")'
    BY <1>2, PendingSteps DEF metadataCallback, rpcRemoving, Pending
  <2> QED
    BY <2>1, <2>2
<1>3. CASE metadataRetrieved
  BY <1>3, PendingSteps DEF metadataRetrieved
<1>4. CASE rpcRemoveTorrent \/ performedTooLate \/ closeInspector
  BY <1>4 DEF rpcRemoveTorrent, performedTooLate, closeInspector, MadeInv
<1>5. CASE \/ setCallbacks \/ finishInit \/ (\E f \in Files : FileChanges(f)) \/ timerFired
           \/ showFiles \/ showTrackers \/ (\E r \in 1 .. fileCount : checkmarkControlTapped(r))
           \/ UNCHANGED vars
  <2>1. UNCHANGED <<torrent, serving, runloop>>
    BY <1>5 DEF setCallbacks, finishInit, FileChanges, timerFired, showFiles, showTrackers,
                checkmarkControlTapped, vars
  <2> QED
    BY <2>1 DEF Pending
<1>6. CASE (\E f \in Files : rpcSetWanted(f)) \/ rpcSetTrackers
  BY <1>6 DEF rpcSetWanted, rpcSetTrackers
<1> QED
  BY <1>1, <1>2, <1>3, <1>4, <1>5, <1>6 DEF Next, Library, Selected, User, Terminating

LEMMA ScreenInvStep ==
  TypeOK /\ ListInv /\ MadeInv /\ ScreenIsTrue /\ [Next]_vars => ScreenIsTrue'
<1> SUFFICES ASSUME TypeOK, ListInv, MadeInv, ScreenIsTrue, [Next]_vars,
                    torrent', ~serving', ~Pending("rpcChangedTorrent")'
             PROVE  MarksFollow' /\ TrackersTrue'
  BY DEF ScreenIsTrue, TrackersTrue
<1>1. CASE torrent /\ ~serving /\ ~Pending("rpcChangedTorrent")
  BY <1>1, MarksStep, TrackersStep DEF ScreenIsTrue, TrackersTrue
<1>2. CASE openInspector
  BY <1>2, NoRowsMarks DEF openInspector, TrackersTrue
<1>3. CASE rpcChangedTorrent
  <2>1. /\ update /\ UNCHANGED <<layout, flatFileList, wanted, loaded, torrent, trackerCount>>
        /\ trackerRows' = IF torrent /\ "trackers" \in loaded THEN trackerCount ELSE trackerRows
    BY <1>3 DEF rpcChangedTorrent, libVars
  <2>2. MarksFollow'
    <3>1. CASE "files" \in loaded
      BY <2>1, <3>1, UpdateDraws, DrawnMarks
    <3>2. CASE "files" \notin loaded
      BY <2>1, <3>2, UpdateTypes, NoRowsMarks
    <3> QED
      BY <3>1, <3>2
  <2> QED
    BY <2>1, <2>2 DEF TrackersTrue
<1> QED
  BY <1>1, <1>2, <1>3, DueStep

\* Except while a change made over RPC is on its way to the main thread, the marks
\* on the screen are those of the files and the rows those of the trackers
\* (ScreenIsTrue), whatever was tapped, finished, reloaded or cached before.
THEOREM ScreenKept == Spec => []ScreenIsTrue
<1>1. Init => ScreenIsTrue
  BY DEF Init, ScreenIsTrue
<1> QED
  BY <1>1, ScreenInvStep, Invariance, PTL DEF Spec
=============================================================================
