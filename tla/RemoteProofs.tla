---------------------------- MODULE RemoteProofs ----------------------------
(***************************************************************************)
(* Theorems about Remote, for any number of options, torrents, requests    *)
(* lost and changes of the session id: a change reaches the torrent it was *)
(* meant for and no other, it reaches it once, and once a torrent was      *)
(* asked about the changes of it given before have been sent.  What they   *)
(* rest on is said of the requests that wait: which options each carries,  *)
(* which of them are due, and where the options came from.                 *)
(***************************************************************************)
EXTENDS Remote, TLAPS

Requests == {"sset", "tset", "tadd", "top"}

\* The options on which the tool asks about torrents, and sends tset before.
Asks == {"get", "list", "verify"}

\* The kinds whose change is gathered, and those with a request of their own.
GatherKinds == {"sset", "tset", "limit", "files", "dir", "find", "start"}
SendKinds == {"find", "start", "get", "verify", "remove", "list", "session"}

InWork(r) == \E i \in DOMAIN work : work[i] = r

\* An option waits in one request at most and has reached nothing as long as it does.
WaitInv ==
  /\ \A r \in Requests : \A n \in Carried(r) \ {0} :
        /\ n \in Taken /\ reached[n] = <<>> /\ Pending(r)
        /\ \A s \in Requests : n \in Carried(s) => s = r
  /\ \A n \in Option \ Taken : reached[n] = <<>>
  /\ \A n \in Option : Len(reached[n]) <= 1

\* The requests an option makes due are pending only as long as they are listed.
WorkInv ==
  /\ \A i, j \in DOMAIN work : work[i] = work[j] => i = j
  /\ Pending("top") => work # <<>> /\ Head(work) = "top"
  /\ opt # "none" => Len(given) < MaxOptions /\ phase = "options"
  /\ opt \in {"add", "torrent"} => \A r \in {"tset", "tadd"} : Pending(r) => InWork(r)
  /\ opt \in Asks => (Pending("tset") => InWork("tset"))
  /\ phase \in {"last", "done"} => \A r \in Requests : Pending(r) => InWork(r)
  /\ phase = "done" => work = <<>>

\* A torrent more for each addition taken, at most; a session id more for each trouble.
CountInv ==
  /\ torrents + (IF tadd.n # 0 THEN 1 ELSE 0) <= Torrents + Len(given)
  /\ serverId <= trouble + 1

\* Where the options of a request come from.  Those of tset were given with the torrent
\* that is current, or with the addition that made it current.
OriginInv ==
  /\ \A n \in sset \cup tset \cup tadd.with : given[n].kind \notin Asks \cup {"add"}
  /\ tadd.n # 0 => given[tadd.n].kind = "add"
  /\ tadd.file # 0 => given[tadd.file].kind = "file" /\ given[tadd.file].add = tadd.n
  /\ \A n \in tadd.with : given[n].add = tadd.n
  /\ top.n # 0 =>
        /\ given[top.n].kind # "add" /\ top.target \in {Session, given[top.n].cur}
        /\ given[top.n].kind \in Asks => tset = {}
  /\ \A n \in tset :
        /\ tadd.n # 0 => given[n].add = tadd.n
        /\ given[n].cur = id \/ (given[n].add # 0 /\ reached[given[n].add] = <<id>>)

\* The changes of the current torrent wait in tset only.
PlaceInv ==
  /\ top.n # 0 => given[top.n].kind \in SendKinds
  /\ \A n \in sset \cup tadd.with : ~ForTorrent(n)

\* As long as nothing went wrong, what was not applied waits.
DoneInv ==
  status = 0 /\ phase # "exit" =>
     \A n \in Taken : Len(reached[n]) = 1 \/ Silent(n) \/ \E r \in Requests : n \in Carried(r)

Inv == TypeOK /\ WaitInv /\ WorkInv /\ CountInv /\ OriginInv /\ PlaceInv

-----------------------------------------------------------------------------
(* The steps. *)

\* Where the change of an option of kind k goes.
GoesTo(k, r) ==
  /\ r = "tadd" => tadd.n # 0
  /\ r # "tset" => /\ k # "tset" /\ (k = "limit" => id = Nobody)
                   /\ k = "files" => tadd.n # 0

Gathers ==
  \E k \in GatherKinds, r \in {"sset", "tset", "tadd"} : Take(k) /\ Gather(r) /\ GoesTo(k, r)

\* The last option of all: what is left is sent after its request.
Finds == find /\ tadd.n = 0

Sends == \E k \in SendKinds, target \in {Session, id} : Take(k) /\ Send(target)

\* An option is taken.
Takes == add \/ file \/ torrent \/ Gathers \/ Sends \/ Finds \/ leave

\* The first request due is sent and applied; the answer may be lost.
Delivers(r) ==
  /\ work # <<>> /\ r = Head(work) /\ Apply(r) /\ Free(r)
  /\ id' = id \/ (r = "tadd" /\ id' = torrents + 1)
  /\ \/ UNCHANGED <<status, trouble>>
     \/ status' = 1 /\ trouble < MaxTrouble /\ trouble' = trouble + 1
  /\ UNCHANGED <<phase, opt, arg, sessionId, serverId, given>>

\* It is not applied.
Fails(r) ==
  /\ work # <<>> /\ r = Head(work) /\ Free(r)
  /\ status' = 1
  /\ UNCHANGED trouble \/ (trouble < MaxTrouble /\ trouble' = trouble + 1)
  /\ UNCHANGED <<phase, opt, arg, id, sessionId, serverId, torrents, reached, given>>

\* Nothing happens to the requests.
Idle ==
  \/ \E k \in Kind, t \in Nobody..Torrents : getopt(k, t)
  \/ finish \/ end \/ refused \/ rotate \/ UNCHANGED vars

LEMMA NextCases ==
  ASSUME [Next]_vars
  PROVE  Idle \/ Takes \/ \E r : Delivers(r) \/ Fails(r)
<1>1. sessionSet \/ torrentSet \/ limit \/ filesSet \/ downloadDir => Gathers
  BY DEF Gathers, GatherKinds, GoesTo, sessionSet, torrentSet, limit, filesSet, downloadDir
<1>2. (start => Gathers \/ Sends) /\ (find => Gathers \/ Finds)
  BY DEF start, find, Gathers, GatherKinds, GoesTo, Sends, SendKinds, Finds
<1>3. ask => Sends
  BY DEF ask, Sends, SendKinds
<1>4. sessionAsk => Sends
  BY DEF sessionAsk, Sends, SendKinds
<1>5. served \/ unanswered => Delivers(Head(work))
  BY DEF served, unanswered, Delivers
<1>6. failed => Fails(Head(work))
  BY DEF failed, Fails, serverVars
<1> QED
  BY <1>1, <1>2, <1>3, <1>4, <1>5, <1>6 DEF Next, processArgs, flush, Idle, Takes

LEMMA IdleFacts ==
  ASSUME Idle
  PROVE  /\ UNCHANGED <<id, sset, tset, tadd, top, replaced, status, torrents, reached, given>>
         /\ \A r \in Requests : Carried(r)' = Carried(r) /\ (Pending(r)' <=> Pending(r))
<1>1. UNCHANGED <<id, sset, tset, tadd, top, replaced, status, torrents, reached, given>>
  BY DEF Idle, getopt, finish, end, refused, rotate, vars, requestVars, serverVars
<1> QED
  BY <1>1 DEF Carried, Pending

LEMMA CarriedTypes ==
  /\ Carried("sset") = sset /\ Carried("tset") = tset /\ Carried("top") = {top.n}
  /\ Carried("tadd") = {tadd.n, tadd.file} \cup tadd.with
  /\ Pending("sset") <=> sset # {}
  /\ Pending("tset") <=> tset # {}
  /\ Pending("tadd") <=> tadd.n # 0
  /\ Pending("top") <=> top.n # 0
BY DEF Carried, Pending

LEMMA CarriedAfter ==
  /\ Carried("sset")' = sset' /\ Carried("tset")' = tset' /\ Carried("top")' = {top'.n}
  /\ Carried("tadd")' = {tadd'.n, tadd'.file} \cup tadd'.with
  /\ Pending("sset")' <=> sset' # {}
  /\ Pending("tset")' <=> tset' # {}
  /\ Pending("tadd")' <=> tadd'.n # 0
  /\ Pending("top")' <=> top'.n # 0
BY DEF Carried, Pending

LEMMA CarriedAre ==
  ASSUME TypeOK, NEW r \in Requests
  PROVE  Carried(r) \subseteq Option \cup {0} /\ 0 \notin Option
<1>1. /\ sset \subseteq Option /\ tset \subseteq Option /\ top.n \in Option \cup {0}
      /\ tadd.n \in Option \cup {0} /\ tadd.file \in Option \cup {0} /\ tadd.with \subseteq Option
  BY DEF TypeOK
<1>2. 0 \notin Option
  BY RemoteAssumption DEF Option
<1>3. r \in {"sset", "tset", "tadd", "top"}
  BY DEF Requests
<1> QED
  BY <1>1, <1>2, <1>3, CarriedTypes

\* What Take does: one option more, with nothing left to send before it.
LEMMA TakeFacts ==
  ASSUME Inv, NEW k \in AllKinds, Take(k)
  PROVE  /\ k \in Kind /\ Number \in Option /\ Number \notin Taken /\ Number # 0
         /\ DOMAIN given' = Taken \cup {Number} /\ Len(given') = Len(given) + 1
         /\ given' \in Seq([kind : Kind, cur : Target, add : Option \cup {0}])
         /\ Len(given') <= MaxOptions
         /\ \A n \in Taken : given'[n] = given[n] /\ n < Number /\ n \in Option
         /\ given'[Number] = [kind |-> k, cur |-> id, add |-> tadd.n]
         /\ work = <<>> /\ top.n = 0
         /\ opt' = "none" /\ arg' = Nobody
         /\ UNCHANGED <<sessionId, serverId, torrents, reached, trouble>>
<1>1. k \in Kind /\ Len(given) < MaxOptions /\ phase = "options" /\ opt = k
  BY DEF Inv, TypeOK, WorkInv, Take, AllKinds
<1>2. given \in Seq([kind : Kind, cur : Target, add : Option \cup {0}]) /\ Len(given) \in Nat
  BY DEF Inv, TypeOK
<1>3. [kind |-> k, cur |-> id, add |-> tadd.n] \in [kind : Kind, cur : Target, add : Option \cup {0}]
  BY <1>1 DEF Inv, TypeOK
<1>4. given' = Append(given, [kind |-> k, cur |-> id, add |-> tadd.n])
  BY DEF Take
<1>5. Number \in Option /\ Taken = 1 .. Len(given) /\ Number = Len(given) + 1
  BY <1>1, <1>2, RemoteAssumption DEF Number, Option, Taken
<1>6. work = <<>> /\ top.n = 0
  BY CarriedTypes DEF Take, Inv, WorkInv
<1>7. /\ opt' = "none" /\ arg' = Nobody
      /\ UNCHANGED <<sessionId, serverId, torrents, reached, trouble>>
  BY DEF Take, serverVars
<1>8. /\ given' \in Seq([kind : Kind, cur : Target, add : Option \cup {0}])
      /\ Len(given') = Len(given) + 1 /\ DOMAIN given' = Taken \cup {Number}
      /\ \A n \in Taken : given'[n] = given[n]
      /\ given'[Number] = [kind |-> k, cur |-> id, add |-> tadd.n]
  BY <1>2, <1>3, <1>4, <1>5
<1>9. \A n \in Taken : n < Number /\ n \in Option
  BY <1>1, <1>2, <1>5, RemoteAssumption DEF Option
<1> QED
  BY <1>1, <1>2, <1>5, <1>6, <1>7, <1>8, <1>9, RemoteAssumption

\* What gathering an option does to the request it goes to.
LEMMA GatherFacts ==
  ASSUME Inv, NEW k \in AllKinds, Take(k), NEW r \in {"sset", "tset", "tadd"}, Gather(r)
  PROVE  /\ sset' \subseteq sset \cup {Number} /\ tset' \subseteq tset \cup {Number}
         /\ tadd'.n = tadd.n /\ tadd'.file = tadd.file /\ tadd'.with \subseteq tadd.with \cup {Number}
         /\ r = "sset" => Number \in sset' /\ UNCHANGED <<tset, tadd>>
         /\ r = "tset" => Number \in tset' /\ UNCHANGED <<sset, tadd>>
         /\ r = "tadd" => Number \in tadd'.with /\ UNCHANGED <<sset, tset>>
         /\ tadd' \in [n : Option \cup {0}, file : Option \cup {0}, with : SUBSET Option]
         /\ replaced \subseteq replaced' /\ replaced' \subseteq Option
         /\ \A n \in (sset \ sset') \cup (tset \ tset') \cup (tadd.with \ tadd'.with) :
               n \in replaced' /\ Key(given[n].kind) = Key(k)
         /\ UNCHANGED <<phase, work, id, top, status>>
<1>1. PICK same \in SameKey(r) :
         /\ sset' = IF r = "sset" THEN (sset \ same) \cup {Number} ELSE sset
         /\ tset' = IF r = "tset" THEN (tset \ same) \cup {Number} ELSE tset
         /\ tadd' = IF r = "tadd" THEN [tadd EXCEPT !.with = (@ \ same) \cup {Number}] ELSE tadd
         /\ replaced' = replaced \cup same
         /\ UNCHANGED <<phase, work, id, top, status>>
  BY DEF Gather
<1>2. Number \in Option /\ opt = k
  BY TakeFacts DEF Take
<1>3. /\ sset \subseteq Option /\ tset \subseteq Option /\ replaced \subseteq Option
      /\ tadd \in [n : Option \cup {0}, file : Option \cup {0}, with : SUBSET Option]
  BY DEF Inv, TypeOK
<1>4. /\ same \subseteq IF r = "sset" THEN sset ELSE IF r = "tset" THEN tset ELSE tadd.with
      /\ \A n \in same : Key(given[n].kind) = Key(k)
  <2>1. same \subseteq Earlier(r)
    BY DEF SameKey
  <2> QED
    BY <1>2, <2>1 DEF Earlier
<1>5. r = "tadd" => /\ tadd'.n = tadd.n /\ tadd'.file = tadd.file
                    /\ tadd'.with = (tadd.with \ same) \cup {Number}
                    /\ tadd' \in [n : Option \cup {0}, file : Option \cup {0}, with : SUBSET Option]
  BY <1>1, <1>2, <1>3
<1>6. same \subseteq Option
  BY <1>3, <1>4
<1>7. CASE r = "sset"
  BY <1>1, <1>2, <1>3, <1>4, <1>6, <1>7
<1>8. CASE r = "tset"
  BY <1>1, <1>2, <1>3, <1>4, <1>6, <1>8
<1>9. CASE r = "tadd"
  BY <1>1, <1>2, <1>3, <1>4, <1>5, <1>6, <1>9
<1> QED
  BY <1>7, <1>8, <1>9

\* What flush does to the request it sends.
LEMMA FreeFacts ==
  ASSUME Inv, NEW r, work # <<>>, r = Head(work), Free(r)
  PROVE  /\ r \in Requests /\ Pending(r)
         /\ Carried(r)' \subseteq {0} /\ ~Pending(r)'
         /\ \A s \in Requests \ {r} : Carried(s)' = Carried(s) /\ (Pending(s)' <=> Pending(s))
         /\ \A s : InWork(s) => s = r \/ InWork(s)'
         /\ \A s : InWork(s)' => s # r /\ InWork(s)
         /\ work' \in Seq(Requests) /\ Len(work') <= 3
         /\ \A i, j \in DOMAIN work' : work'[i] = work'[j] => i = j
         /\ sset' \subseteq sset /\ tset' \subseteq tset /\ UNCHANGED replaced
         /\ tadd' \in {tadd, NoAdd} /\ top' \in {top, NoTop}
<1>1. work \in Seq(Requests) /\ Len(work) \in Nat \ {0} /\ Len(work) <= 3 /\ r = work[1]
  BY DEF Inv, TypeOK, Requests
<1>2. r \in Requests /\ Pending(r)
  BY <1>1 DEF Inv, TypeOK, Requests
<1>3. /\ work' = Tail(work) /\ work' \in Seq(Requests) /\ Len(work') = Len(work) - 1
      /\ DOMAIN work' = 1 .. Len(work) - 1 /\ DOMAIN work = 1 .. Len(work)
      /\ \A i \in 1 .. Len(work) - 1 : work'[i] = work[i + 1]
  BY <1>1 DEF Free
<1>4. ASSUME NEW i \in DOMAIN work, i # 1
      PROVE  i - 1 \in DOMAIN work' /\ work'[i - 1] = work[i]
  BY <1>1, <1>3, <1>4
<1>5. \A s : InWork(s) => s = r \/ InWork(s)'
  BY <1>1, <1>4 DEF InWork
<1>6. ASSUME NEW i \in DOMAIN work'
      PROVE  i + 1 \in DOMAIN work /\ i + 1 # 1 /\ work[i + 1] = work'[i] /\ work'[i] # r
  <2>1. i + 1 \in DOMAIN work /\ i + 1 # 1 /\ 1 \in DOMAIN work /\ work[i + 1] = work'[i]
    BY <1>1, <1>3
  <2>2. work[i + 1] # work[1]
    BY <2>1 DEF Inv, WorkInv
  <2> QED
    BY <1>1, <2>1, <2>2
<1>7. \A s : InWork(s)' => s # r /\ InWork(s)
  BY <1>6 DEF InWork
<1>8. \A i, j \in DOMAIN work' : work'[i] = work'[j] => i = j
  <2>1. ASSUME NEW i \in DOMAIN work', NEW j \in DOMAIN work', work'[i] = work'[j] PROVE i = j
    <3>1. i + 1 = j + 1
      BY <1>6, <2>1 DEF Inv, WorkInv
    <3> QED
      BY <1>3, <3>1
  <2> QED
    BY <2>1
<1>9. /\ r = "sset" => sset' = {} /\ UNCHANGED <<tset, tadd, top>>
      /\ r = "tset" => tset' = {} /\ UNCHANGED <<sset, tadd, top>>
      /\ r = "tadd" => tadd' = NoAdd /\ UNCHANGED <<sset, tset, top>>
      /\ r = "top" => top' = NoTop /\ UNCHANGED <<sset, tset, tadd>>
  BY DEF Free
<1>10. /\ Carried(r)' \subseteq {0} /\ ~Pending(r)'
       /\ \A s \in Requests \ {r} : Carried(s)' = Carried(s) /\ (Pending(s)' <=> Pending(s))
  <2>1. r \in {"sset", "tset", "tadd", "top"}
    BY <1>2 DEF Requests
  <2>2. /\ NoAdd.n = 0 /\ NoAdd.file = 0 /\ NoAdd.with = {} /\ NoTop.n = 0
    BY DEF NoAdd, NoTop
  <2>3. Carried(r)' \subseteq {0} /\ ~Pending(r)'
    BY <1>9, <2>1, <2>2, CarriedAfter
  <2>4. ASSUME NEW s \in {"sset", "tset", "tadd", "top"}, s # r
        PROVE  Carried(s)' = Carried(s) /\ (Pending(s)' <=> Pending(s))
    <3>1. CASE s = "sset"
      BY <1>9, <2>1, <2>4, <3>1, CarriedTypes, CarriedAfter
    <3>2. CASE s = "tset"
      BY <1>9, <2>1, <2>4, <3>2, CarriedTypes, CarriedAfter
    <3>3. CASE s = "tadd"
      BY <1>9, <2>1, <2>4, <3>3, CarriedTypes, CarriedAfter
    <3>4. CASE s = "top"
      BY <1>9, <2>1, <2>4, <3>4, CarriedTypes, CarriedAfter
    <3> QED
      BY <2>4, <3>1, <3>2, <3>3, <3>4
  <2> QED
    BY <2>3, <2>4 DEF Requests
<1>11. /\ sset' \subseteq sset /\ tset' \subseteq tset /\ UNCHANGED replaced
       /\ tadd' \in {tadd, NoAdd} /\ top' \in {top, NoTop}
  BY DEF Free
<1> QED
  BY <1>1, <1>2, <1>3, <1>5, <1>7, <1>8, <1>10, <1>11

\* What the server does with it: its options reach their goal, which they had not.
LEMMA ApplyFacts ==
  ASSUME Inv, NEW r \in Requests, Apply(r), Pending(r)
  PROVE  /\ Goal(r) \in Target
         /\ \A n \in Option : reached'[n] = IF n \in Carried(r) THEN <<Goal(r)>> ELSE reached[n]
         /\ reached' \in [Option -> Seq(Target)]
         /\ torrents' = IF r = "tadd" THEN torrents + 1 ELSE torrents
         /\ r = "tadd" => torrents + 1 <= Torrents + Len(given) /\ Goal(r) = torrents + 1
<1>1. r = "tadd" => torrents + 1 <= Torrents + Len(given)
  BY CarriedTypes DEF Inv, CountInv
<1>2. Goal(r) \in Target
  <2>1. id \in Target /\ top.target \in Target /\ Session \in Target
    BY DEF Inv, TypeOK, Target
  <2>2. r = "tadd" => torrents + 1 \in Target
    BY <1>1, RemoteAssumption DEF Inv, TypeOK, Target, Nobody
  <2> QED
    BY <2>1, <2>2 DEF Goal, Requests
<1>3. reached \in [Option -> Seq(Target)]
  BY DEF Inv, TypeOK
<1>4. ASSUME NEW n \in Option
      PROVE  /\ reached'[n] = IF n \in Carried(r) THEN <<Goal(r)>> ELSE reached[n]
             /\ reached'[n] \in Seq(Target)
  <2>1. reached'[n] = IF n \in Carried(r) THEN Append(reached[n], Goal(r)) ELSE reached[n]
    BY DEF Apply
  <2>2. n \in Carried(r) => reached[n] = <<>>
    BY CarriedAre DEF Inv, WaitInv
  <2>3. Append(<<>>, Goal(r)) = <<Goal(r)>> /\ <<Goal(r)>> \in Seq(Target)
    BY <1>2
  <2> QED
    BY <1>3, <2>1, <2>2, <2>3
<1>5. reached' \in [Option -> Seq(Target)]
  BY <1>4 DEF Apply
<1> QED
  BY <1>1, <1>2, <1>4, <1>5 DEF Apply, Goal

\* Taking an option changes one request or none, and adds no other option to it.
Extends(q) ==
  /\ \A r \in Requests \ {q} : Carried(r)' = Carried(r) /\ (Pending(r)' <=> Pending(r))
  /\ q \in Requests =>
        /\ Pending(q)' /\ Number \in Carried(q)' /\ Carried(q)' \subseteq Carried(q) \cup {Number, 0}

LEMMA ExtendsOne ==
  ASSUME Inv, Number # 0, NEW q,
         \/ /\ q = "sset" /\ sset' \subseteq sset \cup {Number} /\ Number \in sset'
            /\ UNCHANGED <<tset, tadd, top>>
         \/ /\ q = "tset" /\ tset' \subseteq tset \cup {Number} /\ Number \in tset'
            /\ UNCHANGED <<sset, tadd, top>>
         \/ /\ q = "tadd" /\ UNCHANGED <<sset, tset, top>> /\ tadd'.n # 0
            /\ Number \in {tadd'.n, tadd'.file} \cup tadd'.with
            /\ {tadd'.n, tadd'.file} \cup tadd'.with \subseteq {0, Number, tadd.n, tadd.file} \cup tadd.with
         \/ q = "top" /\ top'.n = Number /\ UNCHANGED <<sset, tset, tadd>>
         \/ q = "none" /\ UNCHANGED <<sset, tset, tadd, top>>
  PROVE  Extends(q)
<1>1. q # "sset" => Carried("sset")' = Carried("sset") /\ (Pending("sset")' <=> Pending("sset"))
  BY CarriedTypes, CarriedAfter
<1>2. q # "tset" => Carried("tset")' = Carried("tset") /\ (Pending("tset")' <=> Pending("tset"))
  BY CarriedTypes, CarriedAfter
<1>3. q # "tadd" => Carried("tadd")' = Carried("tadd") /\ (Pending("tadd")' <=> Pending("tadd"))
  BY CarriedTypes, CarriedAfter
<1>4. q # "top" => Carried("top")' = Carried("top") /\ (Pending("top")' <=> Pending("top"))
  BY CarriedTypes, CarriedAfter
<1>5. \A r \in Requests \ {q} : Carried(r)' = Carried(r) /\ (Pending(r)' <=> Pending(r))
  BY <1>1, <1>2, <1>3, <1>4 DEF Requests
<1>6. q \in Requests =>
        /\ Pending(q)' /\ Number \in Carried(q)' /\ Carried(q)' \subseteq Carried(q) \cup {Number, 0}
  BY CarriedTypes, CarriedAfter DEF Requests
<1> QED
  BY <1>5, <1>6 DEF Extends

LEMMA TakesFacts ==
  ASSUME Inv, Takes
  PROVE  /\ \E k \in AllKinds : Take(k)
         /\ \E q \in Requests \cup {"none"} : Extends(q)
<1> USE DEF requestVars
<1>0. \A k \in AllKinds : Take(k) => Number # 0
  BY TakeFacts
<1>1. CASE add
  <2>1. Take("add") /\ "add" \in AllKinds
    BY <1>1 DEF add, AllKinds
  <2>2. tadd' = [n |-> Number, file |-> 0, with |-> {}] /\ UNCHANGED <<sset, tset, top>>
    BY <1>1 DEF add
  <2>3. tadd'.n = Number /\ tadd'.file = 0 /\ tadd'.with = {}
    BY <2>2
  <2> QED
    BY <1>0, <2>1, <2>2, <2>3, ExtendsOne DEF Requests
<1>2. CASE file
  <2>1. Take("file") /\ "file" \in AllKinds
    BY <1>2 DEF file, AllKinds
  <2>2. CASE tadd.n # 0
    <3>1. tadd' = [tadd EXCEPT !.file = Number] /\ UNCHANGED <<sset, tset, top>>
      BY <1>2, <2>2 DEF file
    <3>2. tadd'.n = tadd.n /\ tadd'.file = Number /\ tadd'.with = tadd.with
      BY <3>1 DEF Inv, TypeOK
    <3> QED
      BY <1>0, <2>1, <2>2, <3>1, <3>2, ExtendsOne DEF Requests
  <2>3. CASE tadd.n = 0
    <3>1. UNCHANGED <<sset, tset, tadd, top>>
      BY <1>2, <2>3 DEF file
    <3> QED
      BY <1>0, <2>1, <3>1, ExtendsOne
  <2> QED
    BY <2>2, <2>3
<1>3. CASE torrent \/ leave
  <2>1. \E k \in AllKinds : Take(k)
    BY <1>3 DEF torrent, leave, AllKinds
  <2>2. UNCHANGED <<sset, tset, tadd, top>>
    BY <1>3 DEF torrent, leave
  <2> QED
    BY <1>0, <2>1, <2>2, ExtendsOne
<1>4. CASE Gathers
  <2>1. PICK k \in GatherKinds, r \in {"sset", "tset", "tadd"} :
           Take(k) /\ Gather(r) /\ GoesTo(k, r)
    BY <1>4 DEF Gathers
  <2>2. k \in AllKinds
    BY DEF GatherKinds, AllKinds
  <2>3. CASE r = "sset"
    BY <1>0, <2>1, <2>2, <2>3, GatherFacts, ExtendsOne DEF Requests
  <2>4. CASE r = "tset"
    BY <1>0, <2>1, <2>2, <2>4, GatherFacts, ExtendsOne DEF Requests
  <2>5. CASE r = "tadd"
    <3>1. /\ tadd'.n = tadd.n /\ tadd'.file = tadd.file /\ tadd'.with \subseteq tadd.with \cup {Number}
          /\ Number \in tadd'.with /\ UNCHANGED <<sset, tset, top>>
      BY <2>1, <2>2, <2>5, GatherFacts
    <3>2. tadd'.n # 0
      BY <2>1, <2>5, <3>1 DEF GoesTo
    <3> QED
      BY <1>0, <2>1, <2>2, <2>5, <3>1, <3>2, ExtendsOne DEF Requests
  <2> QED
    BY <2>3, <2>4, <2>5
<1>5. CASE Sends
  <2>1. PICK k \in SendKinds, target \in {Session, id} : Take(k) /\ Send(target)
    BY <1>5 DEF Sends
  <2>2. k \in AllKinds
    BY DEF SendKinds, AllKinds
  <2>3. top'.n = Number /\ UNCHANGED <<sset, tset, tadd>>
    BY <2>1 DEF Send
  <2> QED
    BY <1>0, <2>1, <2>2, <2>3, ExtendsOne DEF Requests
<1>6. CASE Finds
  <2>1. Take("find") /\ "find" \in AllKinds
    BY <1>6 DEF Finds, find, AllKinds
  <2>2. top' = [n |-> Number, target |-> id] /\ UNCHANGED <<sset, tset, tadd>>
    BY <1>6 DEF Finds, find
  <2>3. top'.n = Number
    BY <2>2
  <2> QED
    BY <1>0, <2>1, <2>2, <2>3, ExtendsOne DEF Requests
<1> QED
  BY <1>1, <1>2, <1>3, <1>4, <1>5, <1>6 DEF Takes

-----------------------------------------------------------------------------
(* The requests an option makes due. *)

Lists(list, S) ==
  /\ list \in Seq(Requests)
  /\ \A i \in DOMAIN list : list[i] \in S /\ Pending(list[i])
  /\ \A i, j \in DOMAIN list : list[i] = list[j] => i = j
  /\ \A r \in S : Pending(r) => \E i \in DOMAIN list : list[i] = r

LEMMA ListsOne ==
  ASSUME NEW r \in Requests
  PROVE  Lists(Due(r), {r}) /\ Len(Due(r)) <= 1
<1>1. CASE Pending(r)
  <2>1. Due(r) = <<r>> /\ <<r>> \in Seq(Requests) /\ Len(<<r>>) = 1
    BY <1>1 DEF Due
  <2> QED
    BY <1>1, <2>1 DEF Lists
<1>2. CASE ~Pending(r)
  BY <1>2 DEF Due, Lists
<1> QED
  BY <1>1, <1>2

LEMMA ListsMore ==
  ASSUME NEW S, NEW list, Lists(list, S), NEW r \in Requests \ S
  PROVE  Lists(list \o Due(r), S \cup {r}) /\ Len(list \o Due(r)) <= Len(list) + 1
<1>0. list \in Seq(Requests) /\ Len(list) \in Nat
  BY DEF Lists
<1>1. CASE Pending(r)
  <2> DEFINE more == list \o <<r>>
  <2>1. /\ more \in Seq(Requests) /\ Len(more) = Len(list) + 1
        /\ \A i \in DOMAIN list : more[i] = list[i]
        /\ more[Len(list) + 1] = r
        /\ DOMAIN list = 1 .. Len(list) /\ DOMAIN more = 1 .. Len(list) + 1
    BY <1>0
  <2> HIDE DEF more
  <2>2. \A i \in DOMAIN more : i \in DOMAIN list \/ i = Len(list) + 1
    BY <1>0, <2>1
  <2>3. Lists(more, S \cup {r})
    <3>1. \A i \in DOMAIN more : more[i] \in S \cup {r} /\ Pending(more[i])
      BY <1>1, <2>1, <2>2 DEF Lists
    <3>2. \A i, j \in DOMAIN more : more[i] = more[j] => i = j
      BY <2>1, <2>2 DEF Lists
    <3>3. \A s \in S \cup {r} : Pending(s) => \E i \in DOMAIN more : more[i] = s
      BY <1>0, <2>1 DEF Lists
    <3> QED
      BY <2>1, <3>1, <3>2, <3>3 DEF Lists
  <2> QED
    BY <1>0, <1>1, <2>1, <2>3 DEF Due, more
<1>2. CASE ~Pending(r)
  <2>1. list \o Due(r) = list
    BY <1>0, <1>2 DEF Due
  <2> QED
    BY <1>0, <1>2, <2>1 DEF Lists
<1> QED
  BY <1>1, <1>2

DueOf(k) ==
  IF k = "add" THEN {"sset", "tadd", "tset"}
  ELSE IF k = "torrent" THEN {"tadd", "tset"}
  ELSE IF k \in Asks THEN {"tset"} ELSE {}

\* What is left for the requests of the current torrent and of the session.
LEMMA RestLists ==
  /\ Lists(Due("tset") \o Due("sset"), {"tset", "sset"})
  /\ Len(Due("tset") \o Due("sset")) <= 2
<1>0. \A list, S : Lists(list, S) => Len(list) \in Nat
  BY DEF Lists
<1>1. Lists(Due("tset"), {"tset"}) /\ Len(Due("tset")) <= 1
  BY ListsOne DEF Requests
<1>2. "sset" \in Requests \ {"tset"} /\ {"tset"} \cup {"sset"} = {"tset", "sset"}
  BY DEF Requests
<1>3. /\ Lists(Due("tset") \o Due("sset"), {"tset"} \cup {"sset"})
      /\ Len(Due("tset") \o Due("sset")) <= Len(Due("tset")) + 1
  BY <1>1, <1>2, ListsMore, Zenon
<1> QED
  BY <1>0, <1>1, <1>2, <1>3

LEMMA DueLists ==
  /\ \A k \in AllKinds : Lists(DueBefore(k), DueOf(k)) /\ Len(DueBefore(k)) <= 3
  /\ LET last == Due("tadd") \o Due("tset") \o Due("sset")
     IN  Lists(last, {"tadd", "tset", "sset"}) /\ Len(last) <= 3
<1>0. \A list, S : Lists(list, S) => Len(list) \in Nat
  BY DEF Lists
<1>1. /\ Lists(Due("tadd"), {"tadd"}) /\ Len(Due("tadd")) <= 1
      /\ Lists(Due("tset"), {"tset"}) /\ Len(Due("tset")) <= 1
      /\ Lists(Due("sset"), {"sset"}) /\ Len(Due("sset")) <= 1
  BY ListsOne DEF Requests
<1>2. /\ Lists(Due("tadd") \o Due("tset"), {"tadd", "tset"})
      /\ Len(Due("tadd") \o Due("tset")) <= 2
  <2>1. "tset" \in Requests \ {"tadd"} /\ {"tadd"} \cup {"tset"} = {"tadd", "tset"}
    BY DEF Requests
  <2>2. /\ Lists(Due("tadd") \o Due("tset"), {"tadd"} \cup {"tset"})
        /\ Len(Due("tadd") \o Due("tset")) <= Len(Due("tadd")) + 1
    BY <1>1, <2>1, ListsMore, Zenon
  <2> QED
    BY <1>0, <1>1, <2>1, <2>2
<1>3. /\ Lists(Due("sset") \o Due("tadd"), {"sset", "tadd"})
      /\ Len(Due("sset") \o Due("tadd")) <= 2
  <2>1. "tadd" \in Requests \ {"sset"} /\ {"sset"} \cup {"tadd"} = {"sset", "tadd"}
    BY DEF Requests
  <2>2. /\ Lists(Due("sset") \o Due("tadd"), {"sset"} \cup {"tadd"})
        /\ Len(Due("sset") \o Due("tadd")) <= Len(Due("sset")) + 1
    BY <1>1, <2>1, ListsMore, Zenon
  <2> QED
    BY <1>0, <1>1, <2>1, <2>2
<1>4. /\ Lists(Due("sset") \o Due("tadd") \o Due("tset"), {"sset", "tadd", "tset"})
      /\ Len(Due("sset") \o Due("tadd") \o Due("tset")) <= 3
  <2>1. "tset" \in Requests \ {"sset", "tadd"} /\ {"sset", "tadd"} \cup {"tset"} = {"sset", "tadd", "tset"}
    BY DEF Requests
  <2>2. /\ Lists(Due("sset") \o Due("tadd") \o Due("tset"), {"sset", "tadd"} \cup {"tset"})
        /\ Len(Due("sset") \o Due("tadd") \o Due("tset")) <= Len(Due("sset") \o Due("tadd")) + 1
    BY <1>3, <2>1, ListsMore, Zenon
  <2> QED
    BY <1>0, <1>3, <2>1, <2>2
<1>5. /\ Lists(Due("tadd") \o Due("tset") \o Due("sset"), {"tadd", "tset", "sset"})
      /\ Len(Due("tadd") \o Due("tset") \o Due("sset")) <= 3
  <2>1. "sset" \in Requests \ {"tadd", "tset"} /\ {"tadd", "tset"} \cup {"sset"} = {"tadd", "tset", "sset"}
    BY DEF Requests
  <2>2. /\ Lists(Due("tadd") \o Due("tset") \o Due("sset"), {"tadd", "tset"} \cup {"sset"})
        /\ Len(Due("tadd") \o Due("tset") \o Due("sset")) <= Len(Due("tadd") \o Due("tset")) + 1
    BY <1>2, <2>1, ListsMore, Zenon
  <2> QED
    BY <1>0, <1>2, <2>1, <2>2
<1>6. Lists(<<>>, {}) /\ Len(<<>>) = 0
  BY DEF Lists
<1>7. ASSUME NEW k \in AllKinds
      PROVE  Lists(DueBefore(k), DueOf(k)) /\ Len(DueBefore(k)) <= 3
  <2>1. CASE k = "add"
    <3>1. /\ DueBefore(k) = Due("sset") \o Due("tadd") \o Due("tset")
          /\ DueOf(k) = {"sset", "tadd", "tset"}
      BY <2>1, Zenon DEF DueBefore, DueOf
    <3> QED
      BY <1>4, <3>1
  <2>2. CASE k = "torrent"
    <3>1. DueBefore(k) = Due("tadd") \o Due("tset") /\ DueOf(k) = {"tadd", "tset"}
      BY <2>2 DEF DueBefore, DueOf
    <3> QED
      BY <1>0, <1>2, <3>1
  <2>3. CASE k \in Asks
    <3>1. DueBefore(k) = Due("tset") /\ DueOf(k) = {"tset"}
      BY <2>3 DEF DueBefore, DueOf, Asks
    <3> QED
      BY <1>0, <1>1, <3>1
  <2>4. CASE k \notin Asks \cup {"add", "torrent"}
    <3>1. DueBefore(k) = <<>> /\ DueOf(k) = {}
      BY <2>4 DEF DueBefore, DueOf, Asks
    <3> QED
      BY <1>6, <3>1
  <2> QED
    BY <2>1, <2>2, <2>3, <2>4
<1> QED
  BY <1>5, <1>7

-----------------------------------------------------------------------------
(* The invariants, step by step. *)

\* The part of TypeOK that says that the requests listed are pending.
Listed == \A i \in DOMAIN work : Pending(work[i])

LEMMA ListedAfter ==
  ASSUME work' \in Seq(Requests), \A r \in Requests : InWork(r)' => Pending(r)'
  PROVE  Listed'
<1>1. ASSUME NEW i \in DOMAIN work'
      PROVE  \/ work'[i] = "sset" /\ sset' # {}
             \/ work'[i] = "tset" /\ tset' # {}
             \/ work'[i] = "tadd" /\ tadd'.n # 0
             \/ work'[i] = "top" /\ top'.n # 0
  <2>1. work'[i] \in Requests
    BY <1>1
  <2>2. \A r \in Requests : work'[i] = r => Pending(r)'
    BY <1>1 DEF InWork
  <2> QED
    BY <2>1, <2>2, CarriedAfter DEF Requests
<1> QED
  BY <1>1, Zenon DEF Listed, Pending

\* After --find without an addition everything pending is listed, its own request first.
LEMMA FindWork ==
  ASSUME Inv, Finds
  PROVE  /\ work' \in Seq(Requests) /\ Len(work') <= 3 /\ Head(work') = "top" /\ work' # <<>>
         /\ \A i, j \in DOMAIN work' : work'[i] = work'[j] => i = j
         /\ \A r \in Requests : InWork(r)' <=> Pending(r)'
         /\ top' = [n |-> Number, target |-> id] /\ phase' = "last"
         /\ Number \in Option /\ Number # 0
         /\ UNCHANGED <<id, sset, tset, tadd, status, replaced>>
<1> DEFINE list == Due("tset") \o Due("sset")
<1>1. /\ Take("find") /\ tadd.n = 0 /\ "find" \in AllKinds
      /\ work' = <<"top">> \o list /\ phase' = "last"
      /\ top' = [n |-> Number, target |-> id]
      /\ UNCHANGED <<id, sset, tset, tadd, status, replaced>>
  BY DEF Finds, find, AllKinds
<1>2. Lists(list, {"tset", "sset"}) /\ Len(list) <= 2
  BY RestLists
<1> HIDE DEF list
<1>3. list \in Seq(Requests) /\ Len(list) \in Nat /\ "top" \in Requests
  BY <1>2 DEF Lists, Requests
<1>4. /\ work' \in Seq(Requests) /\ Len(work') = Len(list) + 1 /\ work'[1] = "top"
      /\ Head(work') = "top" /\ work' # <<>>
      /\ DOMAIN work' = 1 .. Len(list) + 1 /\ DOMAIN list = 1 .. Len(list)
      /\ \A i \in 1 .. Len(list) : work'[i + 1] = list[i]
  BY <1>1, <1>3
<1>5. \A i \in DOMAIN work' : i = 1 \/ (i - 1 \in DOMAIN list /\ work'[i] = list[i - 1])
  BY <1>3, <1>4
<1>6. \A i \in DOMAIN list : list[i] \in {"tset", "sset"} /\ list[i] # "top" /\ Pending(list[i])
  BY <1>2 DEF Lists
<1>7. \A i, j \in DOMAIN work' : work'[i] = work'[j] => i = j
  <2>1. ASSUME NEW i \in DOMAIN work', NEW j \in DOMAIN work', work'[i] = work'[j] PROVE i = j
    <3>1. CASE i = 1 \/ j = 1
      BY <1>4, <1>5, <1>6, <2>1, <3>1
    <3>2. CASE i # 1 /\ j # 1
      <4>1. i - 1 = j - 1
        BY <1>2, <1>5, <2>1, <3>2 DEF Lists
      <4> QED
        BY <1>4, <4>1
    <3> QED
      BY <3>1, <3>2
  <2> QED
    BY <2>1
<1>8. Number \in Option /\ Number # 0
  BY <1>1, TakeFacts
<1>9. /\ Pending("top")' /\ ~Pending("tadd")'
      /\ Pending("tset")' <=> Pending("tset")
      /\ Pending("sset")' <=> Pending("sset")
  <2>1. top'.n = Number
    BY <1>1
  <2> QED
    BY <1>1, <1>8, <2>1, CarriedTypes, CarriedAfter
<1>10. /\ InWork("top")' /\ ~InWork("tadd")'
       /\ \A r \in {"tset", "sset"} : InWork(r)' <=> Pending(r)
  <2>1. InWork("top")'
    <3>1. 1 \in DOMAIN work'
      BY <1>3, <1>4
    <3> QED
      BY <1>4, <3>1 DEF InWork
  <2>2. ~InWork("tadd")'
    BY <1>4, <1>5, <1>6 DEF InWork
  <2>3. ASSUME NEW r \in {"tset", "sset"} PROVE InWork(r)' <=> Pending(r)
    <3>1. ASSUME Pending(r) PROVE InWork(r)'
      <4>1. PICK i \in DOMAIN list : list[i] = r
        BY <1>2, <3>1 DEF Lists
      <4>2. i + 1 \in DOMAIN work' /\ work'[i + 1] = r
        BY <1>3, <1>4, <4>1
      <4> QED
        BY <4>2 DEF InWork
    <3>2. ASSUME InWork(r)' PROVE Pending(r)
      <4>1. PICK i \in DOMAIN work' : work'[i] = r
        BY <3>2 DEF InWork
      <4> QED
        BY <1>4, <1>5, <1>6, <4>1
    <3> QED
      BY <3>1, <3>2
  <2> QED
    BY <2>1, <2>2, <2>3
<1>11. \A r \in Requests : InWork(r)' <=> Pending(r)'
  BY <1>9, <1>10 DEF Requests
<1> QED
  BY <1>1, <1>2, <1>4, <1>7, <1>8, <1>11

\* The variables but work keep their types when an option is taken.
LEMMA TakesTypes ==
  ASSUME Inv, Takes
  PROVE  /\ phase' \in {"options", "last", "exit"} /\ status' \in {0, 1} /\ id' \in Target \ {Session}
         /\ sset' \subseteq Option /\ tset' \subseteq Option
         /\ tadd' \in [n : Option \cup {0}, file : Option \cup {0}, with : SUBSET Option]
         /\ top' \in [n : Option \cup {0}, target : Target]
         /\ replaced' \subseteq Option
         /\ phase' = "last" => Finds
         /\ \/ work' = <<>> /\ ~Pending("top")'
            \/ work' = <<"top">> /\ Pending("top")'
            \/ Finds
<1> USE DEF requestVars
<1>0. /\ \A k \in AllKinds : Take(k) => Number \in Option /\ work = <<>> /\ Number # 0 /\ top.n = 0
      /\ sset \subseteq Option /\ tset \subseteq Option
      /\ tadd \in [n : Option \cup {0}, file : Option \cup {0}, with : SUBSET Option]
      /\ top \in [n : Option \cup {0}, target : Target]
      /\ status \in {0, 1} /\ id \in Target \ {Session} /\ arg \in Nobody..Torrents
      /\ replaced \subseteq Option
  BY TakeFacts DEF Inv, TypeOK
<1>00. \A k : Take(k) => phase = "options"
  BY DEF Take
<1>1. CASE add
  <2>1. Number \in Option /\ work = <<>> /\ top.n = 0 /\ phase = "options"
    BY <1>0, <1>00, <1>1 DEF add, AllKinds
  <2>2. tadd' = [n |-> Number, file |-> 0, with |-> {}] /\ UNCHANGED <<phase, work, id, sset, tset, top, replaced, status>>
    BY <1>1 DEF add
  <2> QED
    BY <1>0, <2>1, <2>2, CarriedAfter
<1>2. CASE file
  <2>1. Number \in Option /\ work = <<>> /\ top.n = 0 /\ phase = "options"
    BY <1>0, <1>00, <1>2 DEF file, AllKinds
  <2>2. /\ tadd' \in {tadd, [tadd EXCEPT !.file = Number]} /\ status' \in {status, 1}
        /\ UNCHANGED <<phase, work, id, sset, tset, top, replaced>>
    BY <1>2 DEF file
  <2> QED
    BY <1>0, <2>1, <2>2, CarriedAfter
<1>3. CASE torrent
  <2>1. work = <<>> /\ top.n = 0 /\ phase = "options"
    BY <1>0, <1>00, <1>3 DEF torrent, AllKinds
  <2>2. id' = arg /\ UNCHANGED <<phase, work, sset, tset, tadd, top, replaced, status>>
    BY <1>3 DEF torrent
  <2>3. arg \in Target \ {Session}
    BY <1>0, RemoteAssumption DEF Target, Session, Nobody
  <2> QED
    BY <1>0, <2>1, <2>2, <2>3, CarriedAfter
<1>4. CASE Gathers
  <2>1. PICK k \in GatherKinds, r \in {"sset", "tset", "tadd"} :
           Take(k) /\ Gather(r) /\ GoesTo(k, r)
    BY <1>4 DEF Gathers
  <2>2. k \in AllKinds
    BY DEF GatherKinds, AllKinds
  <2>3. Number \in Option /\ work = <<>> /\ top.n = 0 /\ phase = "options"
    BY <1>0, <1>00, <2>1, <2>2
  <2>4. /\ sset' \subseteq sset \cup {Number} /\ tset' \subseteq tset \cup {Number}
        /\ tadd' \in [n : Option \cup {0}, file : Option \cup {0}, with : SUBSET Option]
        /\ replaced' \subseteq Option
        /\ UNCHANGED <<phase, work, id, top, status>>
    BY <2>1, <2>2, GatherFacts
  <2> QED
    BY <1>0, <2>3, <2>4, CarriedAfter
<1>5. CASE Sends
  <2>1. PICK k \in SendKinds, target \in {Session, id} : Take(k) /\ Send(target)
    BY <1>5 DEF Sends
  <2>2. Number \in Option /\ Number # 0 /\ phase = "options"
    BY <1>0, <1>00, <2>1 DEF SendKinds, AllKinds
  <2>3. /\ top' = [n |-> Number, target |-> target] /\ work' = <<"top">>
        /\ UNCHANGED <<phase, id, sset, tset, tadd, replaced, status>>
    BY <2>1 DEF Send
  <2>4. target \in Target
    BY <1>0 DEF Target
  <2>5. Pending("top")'
    BY <2>2, <2>3, CarriedAfter
  <2> QED
    BY <1>0, <2>2, <2>3, <2>4, <2>5
<1>6. CASE leave
  <2>1. work = <<>> /\ top.n = 0
    BY <1>0, <1>6 DEF leave, AllKinds
  <2>2. phase' = "exit" /\ status' \in {0, 1} /\ UNCHANGED <<work, id, sset, tset, tadd, top, replaced>>
    BY <1>6 DEF leave
  <2> QED
    BY <1>0, <2>1, <2>2, CarriedAfter
<1>7. CASE Finds
  <2>1. id \in Target
    BY <1>0
  <2> QED
    BY <1>0, <1>7, <2>1, FindWork
<1> QED
  BY <1>1, <1>2, <1>3, <1>4, <1>5, <1>6, <1>7 DEF Takes

LEMMA TypeStep == Inv /\ [Next]_vars => TypeOK'
<1> SUFFICES ASSUME Inv, [Next]_vars PROVE TypeOK'
  OBVIOUS
<1> USE DEF requestVars, serverVars
<1>1. CASE Idle
  <2>1. /\ phase' \in {"options", "last", "done", "exit"} /\ opt' \in Kind \cup {"none"}
        /\ arg' \in Nobody..Torrents
    BY <1>1, RemoteAssumption
    DEF Idle, getopt, finish, end, refused, rotate, vars, Inv, TypeOK, Nobody
  <2>2. sessionId' \in 0..serverId' /\ serverId' \in 1..MaxTrouble + 1 /\ trouble' \in 0..MaxTrouble
    <3>1. CASE rotate
      BY <3>1, RemoteAssumption DEF rotate, Inv, TypeOK, CountInv
    <3>2. CASE refused
      BY <3>2 DEF refused, Inv, TypeOK
    <3>3. CASE UNCHANGED <<sessionId, serverId, trouble>>
      BY <3>3 DEF Inv, TypeOK
    <3> QED
      BY <1>1, <3>1, <3>2, <3>3 DEF Idle, getopt, finish, end, vars
  <2>3. work' \in Seq(Requests) /\ Len(work') <= 3 /\ Listed'
    <3>1. /\ work' \in Seq(Requests) /\ Len(work') <= 3
          /\ \A i \in DOMAIN work' : Pending(work'[i])
      <4>1. CASE work' = work
        BY <4>1 DEF Inv, TypeOK, Requests
      <4>2. ASSUME NEW k \in Kind, NEW t, getopt(k, t)
            PROVE  /\ work' \in Seq(Requests) /\ Len(work') <= 3
                   /\ \A i \in DOMAIN work' : Pending(work'[i])
        BY <4>2, DueLists, RemoteAssumption DEF getopt, Lists
      <4>3. CASE finish
        BY <4>3, DueLists DEF finish, Lists
      <4> QED
        BY <1>1, <4>1, <4>2, <4>3 DEF Idle, end, refused, rotate, vars
    <3>2. \A r \in Requests : InWork(r)' => Pending(r)'
      BY <1>1, <3>1, IdleFacts DEF InWork
    <3> QED
      BY <3>1, <3>2, ListedAfter
  <2>4. UNCHANGED <<id, sset, tset, tadd, top, replaced, status, torrents, reached, given>>
    BY <1>1, IdleFacts
  <2> QED
    BY <2>1, <2>2, <2>3, <2>4 DEF Inv, TypeOK, Requests, Listed
<1>2. CASE Takes
  <2>1. /\ given' \in Seq([kind : Kind, cur : Target, add : Option \cup {0}])
        /\ Len(given') <= MaxOptions /\ opt' = "none" /\ arg' = Nobody
        /\ UNCHANGED <<sessionId, serverId, torrents, reached, trouble>>
    BY <1>2, TakesFacts, TakeFacts
  <2>2. work' \in Seq(Requests) /\ Len(work') <= 3 /\ Listed'
    <3>1. CASE work' = <<>>
      BY <3>1, ListedAfter DEF InWork
    <3>2. CASE work' = <<"top">> /\ Pending("top")'
      <4>1. "top" \in Requests
        BY DEF Requests
      <4>2. /\ work' \in Seq(Requests) /\ Len(work') = 1
            /\ \A i \in DOMAIN work' : work'[i] = "top"
        BY <3>2, <4>1
      <4>3. \A r \in Requests : InWork(r)' => Pending(r)'
        BY <3>2, <4>2 DEF InWork
      <4> QED
        BY <4>2, <4>3, ListedAfter
    <3>3. CASE Finds
      BY <3>3, FindWork, ListedAfter
    <3> QED
      BY <1>2, <3>1, <3>2, <3>3, TakesTypes
  <2>3. Nobody \in Nobody..Torrents
    BY RemoteAssumption DEF Nobody
  <2> QED
    BY <1>2, <2>1, <2>2, <2>3, TakesTypes DEF Inv, TypeOK, Requests, Listed
<1>3. ASSUME NEW r, Delivers(r) \/ Fails(r) PROVE TypeOK'
  <2>1. work # <<>> /\ r = Head(work) /\ Free(r)
    BY <1>3 DEF Delivers, Fails
  <2>2. /\ r \in Requests /\ Pending(r) /\ work' \in Seq(Requests) /\ Len(work') <= 3
        /\ sset' \subseteq sset /\ tset' \subseteq tset /\ UNCHANGED replaced
        /\ tadd' \in {tadd, NoAdd} /\ top' \in {top, NoTop}
    BY <2>1, FreeFacts
  <2>3. Listed'
    <3>1. ASSUME NEW s \in Requests, InWork(s)' PROVE Pending(s)'
      <4>1. s # r /\ InWork(s)
        BY <2>1, <3>1, FreeFacts
      <4>2. Pending(s)
        BY <4>1 DEF InWork, Inv, TypeOK
      <4> QED
        BY <2>1, <4>1, <4>2, FreeFacts
    <3> QED
      BY <2>2, <3>1, ListedAfter
  <2>4. /\ sset' \subseteq Option /\ tset' \subseteq Option /\ replaced' \subseteq Option
        /\ tadd' \in [n : Option \cup {0}, file : Option \cup {0}, with : SUBSET Option]
        /\ top' \in [n : Option \cup {0}, target : Target]
    <3>1. /\ sset \subseteq Option /\ tset \subseteq Option /\ replaced \subseteq Option
          /\ tadd \in [n : Option \cup {0}, file : Option \cup {0}, with : SUBSET Option]
          /\ top \in [n : Option \cup {0}, target : Target]
      BY DEF Inv, TypeOK
    <3>2. NoAdd \in [n : Option \cup {0}, file : Option \cup {0}, with : SUBSET Option]
      BY DEF NoAdd
    <3>3. NoTop \in [n : Option \cup {0}, target : Target]
      BY RemoteAssumption DEF NoTop, Target, Nobody
    <3>4. replaced' = replaced
      BY <2>2
    <3> QED
      BY <2>2, <3>1, <3>2, <3>3, <3>4
  <2>5. /\ status' \in {0, 1} /\ trouble' \in 0..MaxTrouble
        /\ UNCHANGED <<phase, opt, arg, sessionId, serverId, given>>
    BY <1>3, RemoteAssumption DEF Delivers, Fails, Inv, TypeOK
  <2>6. /\ reached' \in [Option -> Seq(Target)]
        /\ torrents' \in Torrents..Torrents + MaxOptions
        /\ id' \in Target \ {Session}
    <3>1. CASE Fails(r)
      BY <3>1 DEF Fails, Inv, TypeOK
    <3>2. CASE Delivers(r)
      <4>1. Apply(r)
        BY <3>2 DEF Delivers
      <4>2. r = "tadd" => torrents + 1 \in Torrents..Torrents + MaxOptions
        <5>1. r = "tadd" => torrents + 1 <= Torrents + Len(given)
          BY <2>2, <4>1, ApplyFacts
        <5>2. /\ torrents \in Torrents..Torrents + MaxOptions
              /\ Len(given) \in Nat /\ Len(given) <= MaxOptions
          BY DEF Inv, TypeOK
        <5> QED
          BY <5>1, <5>2, RemoteAssumption
      <4>3. id' = id \/ (r = "tadd" /\ id' = torrents + 1)
        BY <3>2 DEF Delivers
      <4>4. id' \in Target \ {Session}
        BY <4>2, <4>3, RemoteAssumption DEF Inv, TypeOK, Target, Session, Nobody
      <4> QED
        BY <2>2, <4>1, <4>2, <4>4, ApplyFacts DEF Inv, TypeOK
    <3> QED
      BY <1>3, <3>1, <3>2
  <2> QED
    BY <2>2, <2>3, <2>4, <2>5, <2>6 DEF Inv, TypeOK, Requests, Listed
<1> QED
  BY <1>1, <1>2, <1>3, NextCases

LEMMA WaitStep == Inv /\ [Next]_vars => WaitInv'
<1> SUFFICES ASSUME Inv, [Next]_vars PROVE WaitInv'
  OBVIOUS
<1>1. CASE Idle
  BY <1>1, IdleFacts DEF Inv, WaitInv, Taken
<1>2. CASE Takes
  <2>1. PICK k \in AllKinds : Take(k)
    BY <1>2, TakesFacts
  <2>2. PICK q \in Requests \cup {"none"} : Extends(q)
    BY <1>2, TakesFacts
  <2>3. /\ Number \in Option \ Taken /\ reached' = reached
        /\ Taken' = Taken \cup {Number}
    BY <2>1, TakeFacts DEF Taken
  <2>4. ASSUME NEW r \in Requests, NEW n \in Carried(r)' \ {0}
        PROVE  /\ n \in Taken' /\ reached'[n] = <<>> /\ Pending(r)'
               /\ \A s \in Requests : n \in Carried(s)' => s = r
    <3>1. CASE n = Number
      <4>1. \A s \in Requests : n \in Carried(s)' => s = q
        BY <2>2, <2>3, <3>1 DEF Extends, Inv, WaitInv
      <4> QED
        BY <2>2, <2>3, <2>4, <3>1, <4>1 DEF Extends, Inv, WaitInv
    <3>2. CASE n # Number
      <4>1. \A s \in Requests : n \in Carried(s)' => n \in Carried(s)
        BY <2>2, <2>4, <3>2 DEF Extends
      <4>2. Pending(r)'
        BY <2>2, <2>4, <4>1 DEF Extends, Inv, WaitInv
      <4> QED
        BY <2>3, <2>4, <4>1, <4>2 DEF Inv, WaitInv
    <3> QED
      BY <3>1, <3>2
  <2> QED
    BY <2>3, <2>4 DEF Inv, WaitInv
<1>3. ASSUME NEW r, Delivers(r) \/ Fails(r) PROVE WaitInv'
  <2>1. work # <<>> /\ r = Head(work) /\ Free(r) /\ given' = given
    BY <1>3 DEF Delivers, Fails
  <2>2. /\ r \in Requests /\ Pending(r) /\ Carried(r)' \subseteq {0}
        /\ \A s \in Requests \ {r} : Carried(s)' = Carried(s) /\ (Pending(s)' <=> Pending(s))
    BY <2>1, FreeFacts
  <2>3. \A n \in Option : reached'[n] = reached[n] \/ (n \in Carried(r) /\ Len(reached'[n]) = 1)
    <3>1. CASE Fails(r)
      BY <3>1 DEF Fails
    <3>2. CASE Delivers(r)
      <4>1. Apply(r)
        BY <3>2 DEF Delivers
      <4>2. \A n \in Option : reached'[n] = IF n \in Carried(r) THEN <<Goal(r)>> ELSE reached[n]
        BY <2>2, <4>1, ApplyFacts
      <4> QED
        BY <4>2
    <3> QED
      BY <1>3, <3>1, <3>2
  <2>4. Taken' = Taken
    BY <2>1 DEF Taken
  <2>5. ASSUME NEW s \in Requests, NEW n \in Carried(s)' \ {0}
        PROVE  /\ n \in Taken' /\ reached'[n] = <<>> /\ Pending(s)'
               /\ \A u \in Requests : n \in Carried(u)' => u = s
    <3>1. s # r /\ n \in Carried(s) /\ (Pending(s)' <=> Pending(s))
      BY <2>2, <2>5
    <3>2. n \in Option /\ n \notin Carried(r)
      BY <2>2, <2>5, <3>1, CarriedAre DEF Inv, WaitInv
    <3>3. reached'[n] = reached[n]
      BY <2>3, <3>2
    <3>4. \A u \in Requests : n \in Carried(u)' => n \in Carried(u)
      BY <2>2, <2>5
    <3> QED
      BY <2>4, <2>5, <3>1, <3>3, <3>4 DEF Inv, WaitInv
  <2>6. ASSUME NEW n \in Option \ Taken' PROVE reached'[n] = <<>>
    <3>1. n \notin Carried(r)
      BY <2>2, <2>4, CarriedAre DEF Inv, WaitInv
    <3> QED
      BY <2>3, <2>4, <3>1 DEF Inv, WaitInv
  <2>7. ASSUME NEW n \in Option PROVE Len(reached'[n]) <= 1
    <3>1. Len(reached[n]) <= 1
      BY DEF Inv, WaitInv
    <3>2. CASE reached'[n] = reached[n]
      BY <3>1, <3>2
    <3>3. CASE Len(reached'[n]) = 1
      BY <3>3
    <3> QED
      BY <2>3, <3>2, <3>3
  <2> QED
    BY <2>5, <2>6, <2>7 DEF WaitInv
<1> QED
  BY <1>1, <1>2, <1>3, NextCases

LEMMA WorkStep == Inv /\ [Next]_vars => WorkInv'
<1> SUFFICES ASSUME Inv, [Next]_vars PROVE WorkInv'
  OBVIOUS
<1> USE DEF requestVars, serverVars
<1>0. work = <<>> => ~Pending("top") /\ \A r : ~InWork(r)
  BY DEF Inv, WorkInv, InWork
<1>1. CASE Idle
  <2>0. /\ \A r \in Requests : Pending(r)' <=> Pending(r)
        /\ UNCHANGED given
    BY <1>1, IdleFacts
  <2>1. ASSUME NEW k \in Kind, NEW t, getopt(k, t) PROVE WorkInv'
    <3>1. /\ work = <<>> /\ Len(given) < MaxOptions /\ opt' = k /\ phase' = "options"
          /\ work' = DueBefore(k)
      BY <2>1 DEF getopt
    <3>2. Lists(work', DueOf(k))
      BY <3>1, DueLists, RemoteAssumption
    <3>3. \A r \in DueOf(k) : Pending(r) => InWork(r)'
      BY <3>2 DEF Lists, InWork
    <3>4. k \in {"add", "torrent"} => "tset" \in DueOf(k) /\ "tadd" \in DueOf(k)
      BY DEF DueOf
    <3>5. k \in Asks => "tset" \in DueOf(k)
      BY DEF DueOf, Asks
    <3>6. \A i, j \in DOMAIN work' : work'[i] = work'[j] => i = j
      BY <3>2 DEF Lists
    <3>7. ~Pending("top")'
      BY <1>0, <2>0, <3>1 DEF Requests
    <3>8. /\ k \in {"add", "torrent"} => \A r \in {"tset", "tadd"} : Pending(r)' => InWork(r)'
          /\ k \in Asks => (Pending("tset")' => InWork("tset")')
      BY <2>0, <3>3, <3>4, <3>5 DEF Requests
    <3> QED
      BY <2>0, <3>1, <3>6, <3>7, <3>8 DEF WorkInv
  <2>2. CASE finish
    <3>1. work = <<>> /\ opt' = "none" /\ phase' = "last"
      BY <2>2 DEF finish, Inv, TypeOK
    <3>2. Lists(work', {"tadd", "tset", "sset"})
      BY <2>2, DueLists DEF finish
    <3>3. \A r \in {"tadd", "tset", "sset"} : Pending(r) => InWork(r)'
      BY <3>2 DEF Lists, InWork
    <3>4. \A i, j \in DOMAIN work' : work'[i] = work'[j] => i = j
      BY <3>2 DEF Lists
    <3>5. ~Pending("top")'
      BY <1>0, <2>0, <3>1 DEF Requests
    <3>6. \A r \in Requests : Pending(r)' => InWork(r)'
      BY <2>0, <3>3, <3>5 DEF Requests
    <3> QED
      BY <3>1, <3>4, <3>5, <3>6 DEF WorkInv, Asks
  <2>3. CASE end
    <3>1. work = <<>> /\ work' = work /\ opt' = opt /\ phase = "last" /\ phase' = "done"
      BY <2>3 DEF end
    <3>2. \A r \in Requests : ~Pending(r)'
      BY <1>0, <2>0, <3>1 DEF Inv, WorkInv
    <3>3. opt' = "none"
      BY <3>1 DEF Inv, WorkInv
    <3> QED
      BY <3>1, <3>2, <3>3 DEF WorkInv, Asks, Requests
  <2>4. CASE refused \/ rotate \/ UNCHANGED vars
    <3>1. UNCHANGED <<phase, opt, work, given>>
      BY <2>4 DEF refused, rotate, vars
    <3>2. \A r : InWork(r)' <=> InWork(r)
      BY <3>1 DEF InWork
    <3> QED
      BY <2>0, <3>1, <3>2 DEF Inv, WorkInv, Requests
  <2> QED
    BY <1>1, <2>1, <2>2, <2>3, <2>4 DEF Idle
<1>2. CASE Takes
  <2>1. opt' = "none"
    BY <1>2, TakesFacts, TakeFacts
  <2>2. phase' \in {"options", "exit", "last"}
    BY <1>2, TakesTypes
  <2>3. \A i, j \in DOMAIN work' : work'[i] = work'[j] => i = j
    BY <1>2, TakesTypes, FindWork
  <2>4. Pending("top")' => work' # <<>> /\ Head(work') = "top"
    BY <1>2, TakesTypes, FindWork
  <2>5. phase' = "last" => \A r \in Requests : Pending(r)' => InWork(r)'
    BY <1>2, TakesTypes, FindWork
  <2> QED
    BY <2>1, <2>2, <2>3, <2>4, <2>5 DEF WorkInv, Asks
<1>3. ASSUME NEW r, Delivers(r) \/ Fails(r) PROVE WorkInv'
  <2>1. /\ work # <<>> /\ r = Head(work) /\ Free(r)
        /\ UNCHANGED <<phase, opt, given>>
    BY <1>3 DEF Delivers, Fails
  <2>2. \A s \in Requests : Pending(s)' => s # r /\ Pending(s)
    BY <2>1, FreeFacts
  <2>3. \A s \in Requests : Pending(s)' /\ (Pending(s) => InWork(s)) => InWork(s)'
    BY <2>1, <2>2, FreeFacts
  <2>4. ~Pending("top")'
    <3>1. Pending("top") => r = "top"
      BY <2>1 DEF Inv, WorkInv
    <3> QED
      BY <2>2, <3>1 DEF Requests
  <2>5. \A i, j \in DOMAIN work' : work'[i] = work'[j] => i = j
    BY <2>1, FreeFacts
  <2>6. phase # "done"
    BY <2>1 DEF Inv, WorkInv
  <2> QED
    BY <2>1, <2>3, <2>4, <2>5, <2>6 DEF Inv, WorkInv, Requests
<1> QED
  BY <1>1, <1>2, <1>3, NextCases

LEMMA CountStep == Inv /\ [Next]_vars => CountInv'
<1> SUFFICES ASSUME Inv, [Next]_vars PROVE CountInv'
  OBVIOUS
<1>0. /\ torrents \in Nat /\ Len(given) \in Nat /\ Torrents \in Nat /\ serverId \in Nat /\ trouble \in Nat
      /\ torrents + (IF tadd.n # 0 THEN 1 ELSE 0) <= Torrents + Len(given)
      /\ serverId <= trouble + 1
  BY RemoteAssumption DEF Inv, TypeOK, CountInv
<1>1. CASE Idle
  <2>1. UNCHANGED <<torrents, tadd, given>>
    BY <1>1, IdleFacts
  <2>2. \/ UNCHANGED <<serverId, trouble>>
        \/ serverId' = serverId + 1 /\ trouble' = trouble + 1
    BY <1>1 DEF Idle, getopt, finish, end, refused, rotate, vars, serverVars
  <2> QED
    BY <1>0, <2>1, <2>2 DEF CountInv
<1>2. CASE Takes
  <2>1. Len(given') = Len(given) + 1 /\ UNCHANGED <<torrents, serverId, trouble>>
    BY <1>2, TakesFacts, TakeFacts
  <2> QED
    BY <1>0, <2>1 DEF CountInv
<1>3. ASSUME NEW r, Delivers(r) \/ Fails(r) PROVE CountInv'
  <2>1. /\ work # <<>> /\ r = Head(work) /\ Free(r)
        /\ UNCHANGED <<serverId, given>>
    BY <1>3 DEF Delivers, Fails
  <2>2. /\ r \in Requests /\ Pending(r)
        /\ r = "tadd" => tadd'.n = 0 /\ tadd.n # 0
        /\ r # "tadd" => (tadd'.n # 0 <=> tadd.n # 0)
    <3>1. r \in Requests /\ Pending(r) /\ ~Pending(r)'
      BY <2>1, FreeFacts
    <3>2. "tadd" # r => (Pending("tadd")' <=> Pending("tadd"))
      BY <2>1, FreeFacts DEF Requests
    <3> QED
      BY <3>1, <3>2, CarriedTypes, CarriedAfter
  <2>3. torrents' = torrents \/ (r = "tadd" /\ torrents' = torrents + 1)
    BY <1>3 DEF Delivers, Fails, Apply
  <2>4. serverId' <= trouble' + 1
    <3>1. serverId' = serverId /\ (trouble' = trouble \/ trouble' = trouble + 1)
      BY <1>3 DEF Delivers, Fails
    <3> QED
      BY <1>0, <3>1
  <2>5. torrents' + (IF tadd'.n # 0 THEN 1 ELSE 0) <= Torrents + Len(given)
    <3>1. CASE r = "tadd"
      BY <1>0, <2>2, <2>3, <3>1
    <3>2. CASE r # "tadd"
      BY <1>0, <2>2, <2>3, <3>2
    <3> QED
      BY <3>1, <3>2
  <2> QED
    BY <2>1, <2>4, <2>5 DEF CountInv
<1> QED
  BY <1>1, <1>2, <1>3, NextCases

\* The options of the pending requests were taken.
LEMMA WaitingTaken ==
  ASSUME Inv
  PROVE  /\ \A n \in sset \cup tset \cup tadd.with : n \in Taken /\ n \in Option /\ reached[n] = <<>>
         /\ \A n \in {tadd.n, tadd.file, top.n} \ {0} : n \in Taken /\ n \in Option /\ reached[n] = <<>>
         /\ Number \notin Taken => Number \notin sset \cup tset \cup tadd.with
<1>1. \A r \in Requests : \A n \in Carried(r) \ {0} : n \in Taken /\ n \in Option /\ reached[n] = <<>>
  BY CarriedAre DEF Inv, WaitInv
<1>2. 0 \notin sset \cup tset \cup tadd.with
  BY RemoteAssumption DEF Inv, TypeOK, Option
<1> QED
  BY <1>1, <1>2, CarriedTypes DEF Requests

LEMMA GivenTypes ==
  ASSUME Inv, NEW n \in Taken
  PROVE  given[n] \in [kind : Kind, cur : Target, add : Option \cup {0}]
<1> DEFINE Entry == [kind : Kind, cur : Target, add : Option \cup {0}]
<1>1. given \in Seq(Entry)
  BY DEF Inv, TypeOK
<1> HIDE DEF Entry
<1>2. given[n] \in Entry
  BY <1>1 DEF Taken
<1> QED
  BY <1>2 DEF Entry

\* When an option is taken that makes requests due, they were sent.
LEMMA DueSent ==
  ASSUME Inv
  PROVE  /\ Take("add") \/ Take("torrent") => tset = {} /\ tadd.n = 0
         /\ \A k \in Asks : Take(k) => tset = {}
<1>1. \A k : Take(k) => opt = k /\ \A r : ~InWork(r)
  BY DEF Take, InWork
<1> QED
  BY <1>1, CarriedTypes DEF Inv, WorkInv

LEMMA OriginStep == Inv /\ [Next]_vars => OriginInv'
<1> SUFFICES ASSUME Inv, [Next]_vars PROVE OriginInv'
  OBVIOUS
<1> USE DEF requestVars
<1>1. CASE Idle
  BY <1>1, IdleFacts DEF Inv, OriginInv
<1>2. ASSUME NEW k \in AllKinds, Take(k)
      PROVE  /\ UNCHANGED reached /\ top.n = 0
             /\ \A n \in Taken : given'[n] = given[n]
             /\ given'[Number].kind = k /\ given'[Number].cur = id /\ given'[Number].add = tadd.n
             /\ Number # 0 /\ Number \notin Taken
  <2>1. given'[Number] = [kind |-> k, cur |-> id, add |-> tadd.n]
    BY <1>2, TakeFacts
  <2>2. UNCHANGED reached /\ top.n = 0 /\ Number # 0 /\ Number \notin Taken
    BY <1>2, TakeFacts
  <2>3. \A n \in Taken : given'[n] = given[n]
    BY <1>2, TakeFacts
  <2> QED
    BY <2>1, <2>2, <2>3
<1>3. CASE add
  <2>1. Take("add") /\ "add" \in AllKinds
    BY <1>3 DEF add, AllKinds
  <2>2. tadd' = [n |-> Number, file |-> 0, with |-> {}] /\ UNCHANGED <<id, sset, tset, top>>
    BY <1>3 DEF add
  <2>3. tset = {}
    BY <2>1, DueSent
  <2> QED
    BY <1>2, <2>1, <2>2, <2>3, WaitingTaken DEF Inv, OriginInv
<1>4. CASE file
  <2>1. Take("file") /\ "file" \in AllKinds
    BY <1>4 DEF file, AllKinds
  <2>2. /\ \/ tadd.n # 0 /\ tadd' = [tadd EXCEPT !.file = Number]
           \/ tadd' = tadd
        /\ UNCHANGED <<id, sset, tset, top>>
    BY <1>4 DEF file
  <2>3. /\ tadd'.n = tadd.n /\ tadd'.with = tadd.with
        /\ tadd'.file = tadd.file \/ (tadd.n # 0 /\ tadd'.file = Number)
    BY <2>2 DEF Inv, TypeOK
  <2> QED
    BY <1>2, <2>1, <2>2, <2>3, WaitingTaken DEF Inv, OriginInv
<1>5. CASE torrent
  <2>1. Take("torrent") /\ "torrent" \in AllKinds
    BY <1>5 DEF torrent, AllKinds
  <2>2. UNCHANGED <<sset, tset, tadd, top>>
    BY <1>5 DEF torrent
  <2>3. tset = {}
    BY <2>1, DueSent
  <2> QED
    BY <1>2, <2>1, <2>2, <2>3, WaitingTaken DEF Inv, OriginInv
<1>6. CASE Gathers
  <2>1. PICK k \in GatherKinds, r \in {"sset", "tset", "tadd"} :
           Take(k) /\ Gather(r) /\ GoesTo(k, r)
    BY <1>6 DEF Gathers
  <2>2. k \in AllKinds /\ k \notin Asks \cup {"add"}
    BY DEF GatherKinds, AllKinds, Asks
  <2>3. /\ sset' \subseteq sset \cup {Number} /\ tset' \subseteq tset \cup {Number}
        /\ tadd'.n = tadd.n /\ tadd'.file = tadd.file /\ tadd'.with \subseteq tadd.with \cup {Number}
        /\ UNCHANGED <<id, top>>
    BY <2>1, <2>2, GatherFacts
  <2>4. /\ UNCHANGED reached /\ top.n = 0
        /\ \A n \in Taken : given'[n] = given[n]
        /\ given'[Number].kind = k /\ given'[Number].cur = id /\ given'[Number].add = tadd.n
    BY <1>2, <2>1, <2>2
  <2>5. \A n \in sset' \cup tset' \cup tadd'.with : given'[n].kind \notin Asks \cup {"add"}
    BY <2>2, <2>3, <2>4, WaitingTaken DEF Inv, OriginInv
  <2>6. /\ \A n \in tadd'.with : given'[n].add = tadd'.n
        /\ \A n \in tset' : tadd'.n # 0 => given'[n].add = tadd'.n
    BY <2>3, <2>4, WaitingTaken DEF Inv, OriginInv
  <2>7. \A n \in tset' : given'[n].cur = id' \/ (given'[n].add # 0 /\ reached'[given'[n].add] = <<id'>>)
    BY <2>3, <2>4, WaitingTaken DEF Inv, OriginInv
  <2>8. /\ tadd'.n # 0 => given'[tadd'.n].kind = "add"
        /\ tadd'.file # 0 => given'[tadd'.file].kind = "file" /\ given'[tadd'.file].add = tadd'.n
    BY <2>3, <2>4, WaitingTaken DEF Inv, OriginInv
  <2> QED
    BY <2>3, <2>4, <2>5, <2>6, <2>7, <2>8 DEF OriginInv
<1>7. CASE Sends
  <2>1. PICK k \in SendKinds, target \in {Session, id} : Take(k) /\ Send(target)
    BY <1>7 DEF Sends
  <2>2. k \in AllKinds /\ k # "add"
    BY DEF SendKinds, AllKinds
  <2>3. /\ top'.n = Number /\ top'.target = target
        /\ UNCHANGED <<id, sset, tset, tadd>>
    BY <2>1 DEF Send
  <2>4. k \in Asks => tset = {}
    BY <2>1, DueSent
  <2>5. /\ UNCHANGED reached
        /\ \A n \in Taken : given'[n] = given[n]
        /\ given'[Number].kind = k /\ given'[Number].cur = id
    BY <1>2, <2>1, <2>2
  <2>6. /\ \A n \in sset \cup tset \cup tadd.with : given'[n] = given[n]
        /\ \A n \in {tadd.n, tadd.file} \ {0} : given'[n] = given[n]
    BY <2>5, WaitingTaken
  <2>7. /\ \A n \in sset' \cup tset' \cup tadd'.with : given'[n].kind \notin Asks \cup {"add"}
        /\ tadd'.n # 0 => given'[tadd'.n].kind = "add"
        /\ tadd'.file # 0 => given'[tadd'.file].kind = "file" /\ given'[tadd'.file].add = tadd'.n
        /\ \A n \in tadd'.with : given'[n].add = tadd'.n
        /\ \A n \in tset' :
              /\ tadd'.n # 0 => given'[n].add = tadd'.n
              /\ given'[n].cur = id' \/ (given'[n].add # 0 /\ reached'[given'[n].add] = <<id'>>)
    BY <2>3, <2>5, <2>6 DEF Inv, OriginInv
  <2>8. /\ given'[top'.n].kind # "add" /\ top'.target \in {Session, given'[top'.n].cur}
        /\ given'[top'.n].kind \in Asks => tset' = {}
    BY <2>1, <2>2, <2>3, <2>4, <2>5
  <2> QED
    BY <2>7, <2>8 DEF OriginInv
<1>10. CASE Finds
  <2>1. Take("find") /\ "find" \in AllKinds
    BY <1>10 DEF Finds, find, AllKinds
  <2>2. top' = [n |-> Number, target |-> id] /\ UNCHANGED <<id, sset, tset, tadd>>
    BY <1>10, FindWork
  <2>3. top'.n = Number /\ top'.target = id
    BY <2>2
  <2>4. /\ UNCHANGED reached
        /\ \A n \in Taken : given'[n] = given[n]
        /\ given'[Number].kind = "find" /\ given'[Number].cur = id
    BY <1>2, <2>1
  <2>5. /\ \A n \in sset \cup tset \cup tadd.with : given'[n] = given[n]
        /\ \A n \in {tadd.n, tadd.file} \ {0} : given'[n] = given[n]
    BY <2>4, WaitingTaken
  <2>6. /\ \A n \in sset' \cup tset' \cup tadd'.with : given'[n].kind \notin Asks \cup {"add"}
        /\ tadd'.n # 0 => given'[tadd'.n].kind = "add"
        /\ tadd'.file # 0 => given'[tadd'.file].kind = "file" /\ given'[tadd'.file].add = tadd'.n
        /\ \A n \in tadd'.with : given'[n].add = tadd'.n
        /\ \A n \in tset' :
              /\ tadd'.n # 0 => given'[n].add = tadd'.n
              /\ given'[n].cur = id' \/ (given'[n].add # 0 /\ reached'[given'[n].add] = <<id'>>)
    BY <2>2, <2>4, <2>5 DEF Inv, OriginInv
  <2>7. /\ given'[top'.n].kind # "add" /\ top'.target \in {Session, given'[top'.n].cur}
        /\ given'[top'.n].kind \in Asks => tset' = {}
    BY <2>3, <2>4 DEF Asks, SendKinds
  <2> QED
    BY <2>6, <2>7 DEF OriginInv
<1>8. CASE leave
  <2>1. PICK k \in AllKinds : Take(k)
    BY <1>8 DEF leave, AllKinds
  <2>2. UNCHANGED <<id, sset, tset, tadd, top>>
    BY <1>8 DEF leave
  <2> QED
    BY <1>2, <2>1, <2>2, WaitingTaken DEF Inv, OriginInv
<1>9. ASSUME NEW r, Delivers(r) \/ Fails(r) PROVE OriginInv'
  <2>1. work # <<>> /\ r = Head(work) /\ Free(r) /\ UNCHANGED given
    BY <1>9 DEF Delivers, Fails
  <2>2. /\ r \in Requests /\ Pending(r)
        /\ sset' \subseteq sset /\ tset' \subseteq tset
        /\ tadd' \in {tadd, NoAdd} /\ top' \in {top, NoTop}
    BY <2>1, FreeFacts
  <2>3. NoAdd.n = 0 /\ NoAdd.file = 0 /\ NoAdd.with = {} /\ NoTop.n = 0
    BY DEF NoAdd, NoTop
  <2>4. ASSUME NEW n \in tset', id' = id, tset' \subseteq tset
        PROVE  given[n].cur = id \/ (given[n].add # 0 /\ reached'[given[n].add] = <<id>>)
    <3>1. given[n].cur = id \/ (given[n].add # 0 /\ reached[given[n].add] = <<id>>)
      BY <2>4, WaitingTaken DEF Inv, OriginInv
    <3>2. CASE given[n].add # 0 /\ reached[given[n].add] = <<id>>
      <4>1. given[n].add \in Option
        <5>1. n \in Taken
          BY <2>4, WaitingTaken
        <5>2. given[n] \in [kind : Kind, cur : Target, add : Option \cup {0}]
          BY <5>1, GivenTypes
        <5> QED
          BY <3>2, <5>2
      <4>2. CASE Fails(r)
        BY <3>2, <4>2 DEF Fails
      <4>3. CASE Delivers(r)
        <5>1. Apply(r)
          BY <4>3 DEF Delivers
        <5>2. given[n].add \notin Carried(r)
          <6>1. reached[given[n].add] # <<>> /\ given[n].add # 0
            BY <3>2
          <6> QED
            BY <2>2, <6>1 DEF Inv, WaitInv
        <5> QED
          BY <2>2, <3>2, <4>1, <5>1, <5>2, ApplyFacts
      <4> QED
        BY <1>9, <4>2, <4>3
    <3> QED
      BY <3>1, <3>2
  <2>5. ASSUME NEW n \in tset', id' # id
        PROVE  given[n].add # 0 /\ reached'[given[n].add] = <<id'>>
    <3>1. r = "tadd" /\ id' = torrents + 1 /\ Apply(r)
      BY <1>9, <2>5 DEF Delivers, Fails
    <3>2. tadd.n # 0 /\ tadd.n \in Option /\ given[n].add = tadd.n
      BY <2>2, <2>5, <3>1, CarriedTypes, WaitingTaken DEF Inv, OriginInv
    <3>3. tadd.n \in Carried(r)
      BY <3>1, CarriedTypes
    <3> QED
      BY <2>2, <3>1, <3>2, <3>3, ApplyFacts
  <2>6. \A n \in tset' :
           given'[n].cur = id' \/ (given'[n].add # 0 /\ reached'[given'[n].add] = <<id'>>)
    BY <2>1, <2>2, <2>4, <2>5
  <2>7. /\ \A n \in sset' \cup tset' \cup tadd'.with : given'[n].kind \notin Asks \cup {"add"}
        /\ \A n \in tadd'.with : given'[n].add = tadd'.n
        /\ \A n \in tset' : tadd'.n # 0 => given'[n].add = tadd'.n
    BY <2>1, <2>2, <2>3 DEF Inv, OriginInv
  <2>8. /\ tadd'.n # 0 => given'[tadd'.n].kind = "add"
        /\ tadd'.file # 0 => given'[tadd'.file].kind = "file" /\ given'[tadd'.file].add = tadd'.n
    BY <2>1, <2>2, <2>3 DEF Inv, OriginInv
  <2>9. top'.n # 0 =>
           /\ given'[top'.n].kind # "add" /\ top'.target \in {Session, given'[top'.n].cur}
           /\ given'[top'.n].kind \in Asks => tset' = {}
       BY <2>1, <2>2, <2>3 DEF Inv, OriginInv
  <2> QED
    BY <2>6, <2>7, <2>8, <2>9 DEF OriginInv
<1> QED
  BY <1>1, <1>3, <1>4, <1>5, <1>6, <1>7, <1>8, <1>9, <1>10, NextCases DEF Takes

\* ForTorrent of an option that was taken before.
LEMMA ForStays ==
  ASSUME NEW n, given'[n] = given[n], ~ForTorrent(n)
  PROVE  ~ForTorrent(n)'
BY DEF ForTorrent

LEMMA PlaceStep == Inv /\ [Next]_vars => PlaceInv'
<1> SUFFICES ASSUME Inv, [Next]_vars PROVE PlaceInv'
  OBVIOUS
<1> USE DEF requestVars
<1>0. /\ \A n \in sset \cup tadd.with : n \in Taken /\ ~ForTorrent(n)
      /\ top.n # 0 => top.n \in Taken /\ given[top.n].kind \in SendKinds
  BY WaitingTaken DEF Inv, PlaceInv
<1>1. CASE Idle
  BY <1>1, IdleFacts DEF Inv, PlaceInv, ForTorrent
<1>2. ASSUME NEW k \in AllKinds, Take(k)
      PROVE  /\ given'[Number].kind = k /\ given'[Number].cur = id /\ given'[Number].add = tadd.n
             /\ \A n \in Taken : given'[n] = given[n]
             /\ top.n = 0 /\ Number \notin sset \cup tadd.with
  <2>1. /\ given'[Number] = [kind |-> k, cur |-> id, add |-> tadd.n]
        /\ \A n \in Taken : given'[n] = given[n] /\ top.n = 0 /\ Number \notin Taken
    BY <1>2, TakeFacts
  <2>2. top.n = 0 /\ Number \notin Taken
    BY <1>2, TakeFacts
  <2> QED
    BY <1>0, <2>1, <2>2
<1>3. CASE Gathers
  <2>1. PICK k \in GatherKinds, r \in {"sset", "tset", "tadd"} :
           Take(k) /\ Gather(r) /\ GoesTo(k, r)
    BY <1>3 DEF Gathers
  <2>2. k \in AllKinds
    BY DEF GatherKinds, AllKinds
  <2>3. ASSUME NEW n \in sset \cup tadd.with PROVE ~ForTorrent(n)'
    BY <1>0, <1>2, <2>1, <2>2, <2>3, ForStays
  <2>4. CASE r = "tset"
    <3>1. UNCHANGED <<sset, tadd, top>> /\ top.n = 0
      BY <1>2, <2>1, <2>2, <2>4, GatherFacts
    <3> QED
      BY <2>3, <3>1 DEF PlaceInv
  <2>5. CASE r # "tset"
    <3>1. ASSUME NEW n, n = Number PROVE ~ForTorrent(n)'
      BY <1>2, <2>1, <2>2, <2>5, <3>1 DEF GoesTo, ForTorrent
    <3>2. /\ sset' \subseteq sset \cup {Number} /\ tadd'.with \subseteq tadd.with \cup {Number}
          /\ top' = top /\ top.n = 0
      BY <1>2, <2>1, <2>2, GatherFacts
    <3>3. ASSUME NEW n \in sset' \cup tadd'.with PROVE ~ForTorrent(n)'
      <4>1. CASE n = Number
        BY <3>1, <4>1
      <4>2. CASE n \in sset \cup tadd.with
        BY <2>3, <4>2
      <4> QED
        BY <3>2, <4>1, <4>2
    <3> QED
      BY <3>2, <3>3 DEF PlaceInv
  <2> QED
    BY <2>4, <2>5
<1>4. ASSUME NEW k \in SendKinds, Take(k), top'.n = Number, UNCHANGED <<sset, tadd>>
      PROVE  PlaceInv'
  <2>1. k \in AllKinds
    BY DEF SendKinds, AllKinds
  <2>2. ASSUME NEW n \in sset \cup tadd.with PROVE ~ForTorrent(n)'
    BY <1>0, <1>2, <1>4, <2>1, <2>2, ForStays
  <2>3. given'[top'.n].kind \in SendKinds
    BY <1>2, <1>4, <2>1
  <2> QED
    BY <1>4, <2>2, <2>3 DEF PlaceInv
<1>5. CASE Sends
  <2>1. PICK k \in SendKinds, target \in {Session, id} : Take(k) /\ Send(target)
    BY <1>5 DEF Sends
  <2>2. top'.n = Number /\ UNCHANGED <<sset, tadd>>
    BY <2>1 DEF Send
  <2> QED
    BY <1>4, <2>1, <2>2
<1>6. CASE Finds
  <2>1. Take("find") /\ "find" \in SendKinds
    BY <1>6 DEF Finds, find, SendKinds
  <2>2. top' = [n |-> Number, target |-> id] /\ UNCHANGED <<sset, tadd>>
    BY <1>6, FindWork
  <2>3. top'.n = Number
    BY <2>2
  <2> QED
    BY <1>4, <2>1, <2>2, <2>3
<1>7. CASE add \/ file \/ torrent \/ leave
  <2>1. PICK k \in AllKinds : Take(k)
    BY <1>7 DEF add, file, torrent, leave, AllKinds
  <2>2. tadd'.with \subseteq tadd.with
    <3>1. tadd' \in {tadd, [tadd EXCEPT !.file = Number], [n |-> Number, file |-> 0, with |-> {}]}
      BY <1>7 DEF add, file, torrent, leave
    <3>2. tadd \in [n : Option \cup {0}, file : Option \cup {0}, with : SUBSET Option]
      BY DEF Inv, TypeOK
    <3>3. [n |-> Number, file |-> 0, with |-> {}].with = {}
      OBVIOUS
    <3>4. [tadd EXCEPT !.file = Number].with = tadd.with
      BY <3>2
    <3> QED
      BY <3>1, <3>3, <3>4
  <2>3. UNCHANGED <<sset, top>>
    BY <1>7 DEF add, file, torrent, leave
  <2>4. ASSUME NEW n \in sset \cup tadd.with PROVE ~ForTorrent(n)'
    BY <1>0, <1>2, <2>1, <2>4, ForStays
  <2>5. top'.n = 0
    BY <1>2, <2>1, <2>3
  <2> QED
    BY <2>2, <2>3, <2>4, <2>5 DEF PlaceInv
<1>8. ASSUME NEW r, Delivers(r) \/ Fails(r) PROVE PlaceInv'
  <2>1. work # <<>> /\ r = Head(work) /\ Free(r) /\ UNCHANGED given
    BY <1>8 DEF Delivers, Fails
  <2>2. sset' \subseteq sset /\ tadd' \in {tadd, NoAdd} /\ top' \in {top, NoTop}
    BY <2>1, FreeFacts
  <2>3. NoAdd.with = {} /\ NoTop.n = 0
    BY DEF NoAdd, NoTop
  <2>4. ASSUME NEW n \in sset' \cup tadd'.with PROVE ~ForTorrent(n)'
    BY <1>0, <2>1, <2>2, <2>3, <2>4, ForStays
  <2>5. top'.n # 0 => given'[top'.n].kind \in SendKinds
    BY <1>0, <2>1, <2>2, <2>3
  <2> QED
    BY <2>4, <2>5 DEF PlaceInv
<1> QED
  BY <1>1, <1>3, <1>5, <1>6, <1>7, <1>8, NextCases DEF Takes

LEMMA InitInv == Init => Inv /\ DoneInv
<1> SUFFICES ASSUME Init PROVE Inv /\ DoneInv
  OBVIOUS
<1>1. TypeOK
  <2>1. reached \in [Option -> Seq(Target)]
    BY DEF Init
  <2> QED
    BY <2>1, RemoteAssumption DEF Init, TypeOK, NoAdd, NoTop, Target, Nobody, Session
<1>2. /\ \A r \in Requests : Carried(r) \subseteq {0}
      /\ \A r \in Requests : ~Pending(r)
      /\ sset = {} /\ tset = {} /\ tadd.n = 0 /\ tadd.file = 0 /\ tadd.with = {} /\ top.n = 0
  <2>1. sset = {} /\ tset = {} /\ tadd.n = 0 /\ tadd.file = 0 /\ tadd.with = {} /\ top.n = 0
    BY DEF Init, NoAdd, NoTop
  <2> QED
    BY <2>1, CarriedTypes DEF Requests
<1>3. Taken = {} /\ \A n \in Option : reached[n] = <<>>
  BY DEF Init, Taken
<1>4. WaitInv
  BY <1>2, <1>3 DEF WaitInv
<1>5. WorkInv
  BY <1>2 DEF Init, WorkInv, Asks, Requests
<1>6. CountInv
  BY <1>2, RemoteAssumption DEF Init, CountInv
<1>7. OriginInv
  BY <1>2 DEF OriginInv
<1>8. DoneInv
  BY <1>3 DEF DoneInv
<1>9. PlaceInv
  BY <1>2 DEF PlaceInv
<1> QED
  BY <1>1, <1>4, <1>5, <1>6, <1>7, <1>8, <1>9 DEF Inv

LEMMA Invariance == Spec => []Inv
<1>1. Init => Inv
  BY InitInv
<1>2. Inv /\ [Next]_vars => Inv'
  BY TypeStep, WaitStep, WorkStep, CountStep, OriginStep, PlaceStep DEF Inv
<1> QED
  BY <1>1, <1>2, PTL DEF Spec

-----------------------------------------------------------------------------
(* Where a change arrives. *)

Adder(n) == IF given[n].kind = "add" THEN n ELSE given[n].add

MeantFor(n, x) ==
  \/ x = Session \/ x = given[n].cur
  \/ Adder(n) # 0 /\ \E j \in DOMAIN reached[Adder(n)] : reached[Adder(n)][j] = x

LEMMA MeantIs ==
  /\ ChangeReachesItsTorrent <=>
        \A n \in Taken : \A i \in DOMAIN reached[n] : MeantFor(n, reached[n][i])
  /\ ChangeReachesItsTorrent' <=>
        \A n \in Taken' : \A i \in DOMAIN reached'[n] : \A x : x = reached'[n][i] => MeantFor(n, x)'
<1>1. ChangeReachesItsTorrent <=>
        \A n \in Taken : \A i \in DOMAIN reached[n] : MeantFor(n, reached[n][i])
  BY DEF ChangeReachesItsTorrent, MeantFor, Adder
<1>2. ChangeReachesItsTorrent' <=>
        \A n \in Taken' : \A i \in DOMAIN reached'[n] : \A x : x = reached'[n][i] => MeantFor(n, x)'
  BY DEF ChangeReachesItsTorrent, MeantFor, Adder
<1> QED
  BY <1>1, <1>2

\* What reached something stays as it is when another request is applied.
LEMMA ReachedStays ==
  ASSUME Inv, NEW r \in Requests, Pending(r), Apply(r), NEW n \in Option, reached[n] # <<>>
  PROVE  reached'[n] = reached[n]
<1>1. n \notin Carried(r)
  BY CarriedAre DEF Inv, WaitInv
<1> QED
  BY <1>1, ApplyFacts

LEMMA MeantStep == Inv /\ ChangeReachesItsTorrent /\ [Next]_vars => ChangeReachesItsTorrent'
<1> SUFFICES ASSUME Inv, ChangeReachesItsTorrent, [Next]_vars PROVE ChangeReachesItsTorrent'
  OBVIOUS
<1>0. \A n \in Taken : \A i \in DOMAIN reached[n] : MeantFor(n, reached[n][i])
  BY MeantIs
<1>1. CASE UNCHANGED <<given, reached>>
  BY <1>1 DEF ChangeReachesItsTorrent, Taken
<1>2. CASE Takes
  <2>1. /\ Taken' = Taken \cup {Number} /\ reached' = reached /\ Number \in Option \ Taken
        /\ \A n \in Taken : given'[n] = given[n]
    BY <1>2, TakesFacts, TakeFacts DEF Taken
  <2>2. reached[Number] = <<>>
    BY <2>1 DEF Inv, WaitInv
  <2>3. ASSUME NEW n \in Taken', NEW i \in DOMAIN reached'[n], NEW x, x = reached'[n][i]
        PROVE  MeantFor(n, x)'
    <3>1. n \in Taken /\ MeantFor(n, x) /\ given'[n] = given[n]
      BY <1>0, <2>1, <2>2, <2>3
    <3> QED
      BY <2>1, <3>1, Zenon DEF MeantFor, Adder
  <2> QED
    BY <2>3, MeantIs
<1>3. ASSUME NEW r, Delivers(r) PROVE ChangeReachesItsTorrent'
  <2>1. /\ work # <<>> /\ r = Head(work) /\ Free(r) /\ Apply(r) /\ UNCHANGED given
    BY <1>3 DEF Delivers
  <2>2. r \in Requests /\ Pending(r)
    BY <2>1, FreeFacts
  <2>3. Taken' = Taken /\ \A n \in Taken : n \in Option /\ Adder(n) \in Option \cup {0}
    <3>1. \A n \in Taken : n \in Option
      BY RemoteAssumption DEF Taken, Inv, TypeOK, Option
    <3>2. \A n \in Taken : given[n].add \in Option \cup {0}
      BY GivenTypes
    <3> QED
      BY <2>1, <3>1, <3>2 DEF Taken, Adder
  <2>4. ASSUME NEW n \in Taken, NEW x, MeantFor(n, x) PROVE MeantFor(n, x)'
    <3>1. CASE x = Session \/ x = given[n].cur
      BY <2>1, <3>1 DEF MeantFor
    <3>2. CASE Adder(n) # 0 /\ \E j \in DOMAIN reached[Adder(n)] : reached[Adder(n)][j] = x
      <4>1. Adder(n) \in Option /\ reached[Adder(n)] # <<>>
        BY <2>3, <3>2
      <4>2. reached'[Adder(n)] = reached[Adder(n)]
        BY <2>1, <2>2, <4>1, ReachedStays
      <4> QED
        BY <2>1, <3>2, <4>2, Zenon DEF MeantFor, Adder
    <3> QED
      BY <2>4, <3>1, <3>2 DEF MeantFor
  <2>5. ASSUME NEW n \in Taken, n \in Carried(r), NEW g, g = Goal(r) PROVE MeantFor(n, g)'
    <3>0. n # 0
      BY <2>3, RemoteAssumption DEF Option
    <3>1. CASE r = "sset"
      BY <2>4, <2>5, <3>1 DEF Goal, MeantFor
    <3>2. CASE r = "tset"
      <4>1. n \in tset /\ Goal(r) = id
        BY <2>5, <3>2, CarriedTypes DEF Goal
      <4>2. given[n].cur = id \/ (Adder(n) = given[n].add /\ Adder(n) # 0 /\ reached[Adder(n)] = <<id>>)
        BY <4>1 DEF Inv, OriginInv, Adder
      <4>3. MeantFor(n, id)
        BY <4>2 DEF MeantFor
      <4> QED
        BY <2>4, <2>5, <4>1, <4>3
    <3>3. CASE r = "tadd"
      <4>1. n \in ({tadd.n, tadd.file} \cup tadd.with) /\ tadd.n # 0 /\ tadd.n \in Carried("tadd")
        BY <2>2, <2>5, <3>3, CarriedTypes
      <4>2. given[tadd.n].kind = "add"
        BY <4>1 DEF Inv, OriginInv
      <4>3. Adder(n) = tadd.n
        BY <3>0, <4>1, <4>2 DEF Inv, OriginInv, Adder
      <4>4. Adder(n)' = tadd.n
        BY <2>1, <4>3 DEF Adder
      <4>5. reached'[tadd.n] = <<Goal(r)>>
        BY <2>1, <2>2, <2>3, <3>3, <4>1, <4>3, ApplyFacts
      <4>6. tadd.n \in Option
        BY <4>1, WaitingTaken
      <4> QED
        BY <2>5, <4>1, <4>4, <4>5 DEF MeantFor
    <3>4. CASE r = "top"
      <4>1. n = top.n /\ top.n # 0 /\ Goal(r) = top.target
        BY <2>2, <2>5, <3>4, CarriedTypes DEF Goal
      <4>2. MeantFor(n, top.target)
        BY <4>1 DEF Inv, OriginInv, MeantFor
      <4> QED
        BY <2>4, <2>5, <4>1, <4>2
    <3> QED
      BY <2>2, <3>1, <3>2, <3>3, <3>4 DEF Requests
  <2>6. ASSUME NEW n \in Taken', NEW i \in DOMAIN reached'[n], NEW x, x = reached'[n][i]
        PROVE  MeantFor(n, x)'
    <3>1. n \in Taken /\ n \in Option
      BY <2>3, <2>6
    <3>2. CASE n \in Carried(r)
      <4>1. reached'[n] = <<Goal(r)>>
        BY <2>1, <2>2, <3>1, <3>2, ApplyFacts
      <4>2. x = Goal(r)
        BY <2>6, <4>1
      <4> QED
        BY <2>5, <3>1, <3>2, <4>2
    <3>3. CASE n \notin Carried(r)
      <4>1. reached'[n] = reached[n]
        BY <2>1, <2>2, <3>1, <3>3, ApplyFacts
      <4> QED
        BY <1>0, <2>4, <2>6, <3>1, <4>1
    <3> QED
      BY <3>2, <3>3
  <2> QED
    BY <2>6, MeantIs
<1> QED
  BY <1>1, <1>2, <1>3, NextCases, IdleFacts DEF Fails

-----------------------------------------------------------------------------
(* Once, and not forgotten. *)

LEMMA SilentStays ==
  ASSUME NEW n \in Taken, Silent(n), Taken \subseteq Taken', \A m \in Taken : given'[m] = given[m],
         replaced \subseteq replaced'
  PROVE  Silent(n)'
<1>1. CASE given[n].kind \in {"torrent", "number", "version"}
  BY <1>1 DEF Silent
<1>3. CASE n \in replaced /\ \E m \in Taken : m > n /\ Key(given[m].kind) = Key(given[n].kind)
  <2>1. PICK m \in Taken : m > n /\ Key(given[m].kind) = Key(given[n].kind)
    BY <1>3
  <2>2. /\ m \in Taken' /\ m > n /\ Key(given'[m].kind) = Key(given'[n].kind)
        /\ n \in replaced'
    BY <1>3, <2>1
  <2> QED
    BY <2>2 DEF Silent
<1>2. CASE given[n].kind = "file" /\ \E m \in Taken : m > n /\ given[m].kind = "file" /\ given[m].add = given[n].add
  <2>1. PICK m \in Taken : m > n /\ given[m].kind = "file" /\ given[m].add = given[n].add
    BY <1>2
  <2>2. /\ m \in Taken' /\ m > n /\ given'[m].kind = "file" /\ given'[m].add = given'[n].add
        /\ given'[n].kind = "file"
    BY <1>2, <2>1
  <2> QED
    BY <2>2 DEF Silent
<1> QED
  BY <1>1, <1>2, <1>3 DEF Silent

\* An option that waited still waits when another one is taken, but for a file that
\* the other one replaces.
LEMMA StillWaits ==
  ASSUME Inv, Takes, ~leave, NEW r \in Requests, NEW n \in Carried(r) \ {0}
  PROVE  Silent(n)' \/ \E s \in Requests : n \in Carried(s)'
<1> USE DEF requestVars
<1>0. n \in Taken /\ n \in Option /\ Pending(r)
  BY CarriedAre DEF Inv, WaitInv
<1>1. CASE file /\ tadd.n # 0 /\ r = "tadd"
  <2>1. Take("file") /\ "file" \in AllKinds
    BY <1>1 DEF file, AllKinds
  <2>2. tadd' = [tadd EXCEPT !.file = Number]
    BY <1>1 DEF file
  <2>3. tadd'.n = tadd.n /\ tadd'.file = Number /\ tadd'.with = tadd.with
    BY <2>2 DEF Inv, TypeOK
  <2>4. CASE n \in {tadd.n} \cup tadd.with
    BY <1>1, <2>3, <2>4, CarriedAfter DEF Requests
  <2>5. CASE n = tadd.file
    <3>1. /\ given'[n] = given[n] /\ n < Number /\ Number \in Taken' /\ n \in Taken'
          /\ given'[Number] = [kind |-> "file", cur |-> id, add |-> tadd.n]
          /\ Number = Len(given) + 1 /\ Number \in Option
      BY <1>0, <2>1, TakeFacts DEF Taken, Number
    <3>2. given[n].kind = "file" /\ given[n].add = tadd.n
      BY <1>0, <2>5, RemoteAssumption DEF Inv, OriginInv, Option
    <3>3. /\ given'[n].kind = "file" /\ given'[Number].kind = "file"
          /\ given'[Number].add = given'[n].add /\ Number > n
      BY <1>0, <3>1, <3>2 DEF Option
    <3> QED
      BY <3>1, <3>3 DEF Silent
  <2> QED
    BY <1>1, <2>4, <2>5, CarriedTypes
<1>2. CASE file /\ (tadd.n = 0 \/ r # "tadd")
  <2>1. UNCHANGED <<sset, tset, top>> /\ (tadd.n = 0 => UNCHANGED tadd)
    BY <1>2 DEF file
  <2> QED
    BY <1>2, <2>1, CarriedTypes, CarriedAfter DEF Requests
<1>3. CASE add
  <2>1. UNCHANGED <<sset, tset, top>>
    BY <1>3 DEF add
  <2>2. tadd.n = 0
    BY <1>3, DueSent DEF add
  <2>3. r # "tadd"
    BY <1>0, <2>2, CarriedTypes
  <2> QED
    BY <2>1, <2>3, CarriedTypes, CarriedAfter DEF Requests
<1>4. CASE torrent
  BY <1>4, CarriedTypes, CarriedAfter DEF torrent, Requests
<1>5. CASE Gathers
  <2>1. PICK k \in GatherKinds, q \in {"sset", "tset", "tadd"} :
           Take(k) /\ Gather(q) /\ GoesTo(k, q)
    BY <1>5 DEF Gathers
  <2>2. k \in AllKinds
    BY DEF GatherKinds, AllKinds
  <2>3. /\ tadd'.n = tadd.n /\ tadd'.file = tadd.file /\ top' = top
        /\ \A m \in (sset \ sset') \cup (tset \ tset') \cup (tadd.with \ tadd'.with) :
              m \in replaced' /\ Key(given[m].kind) = Key(k)
    BY <2>1, <2>2, GatherFacts
  <2>4. CASE n \in (sset \ sset') \cup (tset \ tset') \cup (tadd.with \ tadd'.with)
    <3>1. /\ given'[n] = given[n] /\ n < Number /\ Number \in Taken' /\ n \in Taken'
          /\ given'[Number] = [kind |-> k, cur |-> id, add |-> tadd.n]
          /\ Number = Len(given) + 1 /\ Number \in Option
      BY <1>0, <2>1, <2>2, TakeFacts DEF Taken, Number
    <3>2. given'[Number].kind = k /\ Number > n
      BY <1>0, <3>1 DEF Option
    <3> QED
      BY <2>3, <2>4, <3>1, <3>2 DEF Silent
  <2>5. CASE n \notin (sset \ sset') \cup (tset \ tset') \cup (tadd.with \ tadd'.with)
    BY <2>3, <2>5, CarriedTypes, CarriedAfter DEF Requests
  <2> QED
    BY <2>4, <2>5
<1>6. CASE Sends
  <2>1. PICK k \in SendKinds, target \in {Session, id} : Take(k) /\ Send(target)
    BY <1>6 DEF Sends
  <2>2. UNCHANGED <<sset, tset, tadd>>
    BY <2>1 DEF Send
  <2>3. top.n = 0
    BY <2>1, TakeFacts DEF SendKinds, AllKinds
  <2>4. r # "top"
    BY <2>3, CarriedTypes
  <2> QED
    BY <2>2, <2>4, CarriedTypes, CarriedAfter DEF Requests
<1>7. CASE Finds
  <2>1. UNCHANGED <<sset, tset, tadd>>
    BY <1>7, FindWork
  <2>2. top.n = 0
    BY <1>7, TakeFacts DEF Finds, find, AllKinds
  <2>3. r # "top"
    BY <1>0, <2>2, CarriedTypes
  <2> QED
    BY <2>1, <2>3, CarriedTypes, CarriedAfter DEF Requests
<1> QED
  BY <1>1, <1>2, <1>3, <1>4, <1>5, <1>6, <1>7 DEF Takes

\* The option taken waits, has nothing to do at the server, or is an error.
LEMMA TakenWaits ==
  ASSUME Inv, Takes, ~leave, status' = 0, NEW n, n = Number
  PROVE  Silent(n)' \/ \E s \in Requests : n \in Carried(s)'
<1> USE DEF requestVars
<1>1. CASE add
  <2>1. tadd' = [n |-> Number, file |-> 0, with |-> {}]
    BY <1>1 DEF add
  <2>2. tadd'.n = Number
    BY <2>1
  <2> QED
    BY <2>2, CarriedAfter DEF Requests
<1>2. CASE file
  <2>1. tadd' = [tadd EXCEPT !.file = Number]
    BY <1>2 DEF file
  <2>2. tadd'.file = Number
    BY <2>1 DEF Inv, TypeOK
  <2> QED
    BY <2>2, CarriedAfter DEF Requests
<1>3. CASE torrent
  <2>1. given'[Number] = [kind |-> "torrent", cur |-> id, add |-> tadd.n]
    BY <1>3, TakeFacts DEF torrent, AllKinds
  <2>2. given'[Number].kind = "torrent"
    BY <2>1
  <2> QED
    BY <2>2 DEF Silent
<1>4. CASE Gathers
  <2>1. PICK k \in GatherKinds, q \in {"sset", "tset", "tadd"} :
           Take(k) /\ Gather(q) /\ GoesTo(k, q)
    BY <1>4 DEF Gathers
  <2>2. k \in AllKinds
    BY DEF GatherKinds, AllKinds
  <2>3. Number \in sset' \/ Number \in tset' \/ Number \in tadd'.with
    BY <2>1, <2>2, GatherFacts
  <2> QED
    BY <2>3, CarriedAfter DEF Requests
<1>5. CASE Sends
  <2>1. PICK k \in SendKinds, target \in {Session, id} : Take(k) /\ Send(target)
    BY <1>5 DEF Sends
  <2>2. top' = [n |-> Number, target |-> target]
    BY <2>1 DEF Send
  <2>3. top'.n = Number
    BY <2>2
  <2> QED
    BY <2>3, CarriedAfter DEF Requests
<1>6. CASE Finds
  <2>1. top' = [n |-> Number, target |-> id]
    BY <1>6, FindWork
  <2>2. top'.n = Number
    BY <2>1
  <2> QED
    BY <2>2, CarriedAfter DEF Requests
<1> QED
  BY <1>1, <1>2, <1>3, <1>4, <1>5, <1>6 DEF Takes

\* What another option has replaced stays replaced.
LEMMA TakesReplaced ==
  ASSUME Inv, Takes
  PROVE  replaced \subseteq replaced'
<1> USE DEF requestVars
<1>1. CASE Gathers
  <2>1. PICK k \in GatherKinds, r \in {"sset", "tset", "tadd"} :
           Take(k) /\ Gather(r) /\ GoesTo(k, r)
    BY <1>1 DEF Gathers
  <2>2. k \in AllKinds
    BY DEF GatherKinds, AllKinds
  <2> QED
    BY <2>1, <2>2, GatherFacts
<1>2. CASE ~Gathers
  BY <1>2, FindWork DEF Takes, add, file, torrent, Sends, Send, leave
<1> QED
  BY <1>1, <1>2

LEMMA DoneStep == Inv /\ DoneInv /\ [Next]_vars => DoneInv'
<1> SUFFICES ASSUME Inv, DoneInv, [Next]_vars, status' = 0, phase' # "exit", NEW n \in Taken'
             PROVE  \/ Len(reached'[n]) = 1 \/ Silent(n)'
                    \/ \E r \in Requests : n \in Carried(r)'
  BY Zenon DEF DoneInv
<1> DEFINE Fine == Len(reached[n]) = 1 \/ Silent(n) \/ \E r \in Requests : n \in Carried(r)
<1>0. n \in Taken /\ status = 0 /\ phase # "exit" => Fine
  BY DEF DoneInv
<1>1. CASE Idle
  <2>1. /\ UNCHANGED <<status, reached, given, replaced>>
        /\ \A r \in Requests : Carried(r)' = Carried(r)
    BY <1>1, IdleFacts
  <2>2. phase # "exit"
    BY <1>1 DEF Idle, getopt, finish, end, refused, rotate, vars
  <2>3. Fine
    BY <1>0, <2>1, <2>2 DEF Taken
  <2>4. CASE Silent(n)
    BY <2>1, <2>4 DEF Silent, Taken
  <2> QED
    BY <2>1, <2>3, <2>4
<1>2. CASE Takes
  <2>1. ~leave
    BY DEF leave
  <2>2. /\ Taken' = Taken \cup {Number} /\ reached' = reached
        /\ \A m \in Taken : given'[m] = given[m]
    BY <1>2, TakesFacts, TakeFacts DEF Taken
  <2>8. replaced \subseteq replaced'
    BY <1>2, TakesReplaced
  <2>3. status = 0 /\ phase # "exit"
    <3>1. phase = "options"
      BY <1>2, TakesFacts DEF Take
    <3>2. status' = status \/ status' = 1
      BY <1>2, <2>1 DEF Takes, add, file, torrent, Gathers, Gather, Sends, Send, Finds, find
    <3> QED
      BY <3>1, <3>2
  <2>4. CASE n = Number
    BY <1>2, <2>1, <2>4, TakenWaits
  <2>5. CASE n \in Taken /\ Silent(n)
    BY <2>2, <2>5, <2>8, SilentStays
  <2>6. CASE n \in Taken /\ \E r \in Requests : n \in Carried(r)
    <3>1. n # 0
      BY <2>6, RemoteAssumption DEF Taken, Inv, TypeOK
    <3> QED
      BY <1>2, <2>1, <2>6, <3>1, StillWaits
  <2>7. CASE n \in Taken /\ Len(reached[n]) = 1
    BY <2>2, <2>7
  <2> QED
    BY <1>0, <2>2, <2>3, <2>4, <2>5, <2>6, <2>7
<1>3. ASSUME NEW r, Delivers(r)
      PROVE  \/ Len(reached'[n]) = 1 \/ Silent(n)'
             \/ \E s \in Requests : n \in Carried(s)'
  <2>1. /\ work # <<>> /\ r = Head(work) /\ Free(r) /\ Apply(r)
        /\ UNCHANGED <<given, phase>> /\ status = 0
    BY <1>3 DEF Delivers
  <2>2. /\ r \in Requests /\ Pending(r) /\ UNCHANGED replaced
        /\ \A s \in Requests \ {r} : Carried(s)' = Carried(s)
    BY <2>1, FreeFacts
  <2>3. n \in Taken /\ n \in Option /\ Fine
    BY <1>0, <2>1, RemoteAssumption DEF Taken, Inv, TypeOK, Option
  <2>4. CASE n \in Carried(r)
    <3>1. reached'[n] = <<Goal(r)>>
      BY <2>1, <2>2, <2>3, <2>4, ApplyFacts
    <3> QED
      BY <3>1
  <2>5. CASE n \notin Carried(r) /\ Len(reached[n]) = 1
    <3>1. reached'[n] = reached[n]
      BY <2>1, <2>2, <2>3, <2>5, ApplyFacts
    <3> QED
      BY <2>5, <3>1
  <2>6. CASE Silent(n)
    BY <2>1, <2>2, <2>6 DEF Silent, Taken
  <2> QED
    BY <2>2, <2>3, <2>4, <2>5, <2>6
<1>4. ASSUME NEW r, Fails(r) PROVE FALSE
  BY <1>4 DEF Fails
<1> QED
  BY <1>1, <1>2, <1>3, <1>4, NextCases

-----------------------------------------------------------------------------
(* Set before get. *)

\* No change of a torrent that was given before it was asked about still waits.
NoneWaits ==
  \A m \in Taken : given[m].kind \in Asks /\ reached[m] # <<>> => \A n \in tset : n > m

LEMMA GetStep == Inv /\ NoneWaits /\ [Next]_vars => NoneWaits'
<1> SUFFICES ASSUME Inv, NoneWaits, [Next]_vars,
                    NEW m \in Taken', given'[m].kind \in Asks, reached'[m] # <<>>, NEW n \in tset'
             PROVE  n > m
  BY Zenon DEF NoneWaits
<1>0. m \in Taken /\ given[m].kind \in Asks /\ reached[m] # <<>> /\ n \in tset => n > m
  BY DEF NoneWaits
<1>1. CASE Idle
  BY <1>0, <1>1, IdleFacts DEF Taken
<1>2. CASE Takes
  <2>1. /\ Taken' = Taken \cup {Number} /\ reached' = reached /\ Number \in Option \ Taken
        /\ \A k \in Taken : given'[k] = given[k] /\ k < Number
    BY <1>2, TakesFacts, TakeFacts DEF Taken
  <2>2. m \in Taken
    BY <2>1 DEF Inv, WaitInv
  <2>3. n \in tset \cup {Number}
    <3>1. PICK q \in Requests \cup {"none"} : Extends(q)
      BY <1>2, TakesFacts
    <3>2. Carried("tset")' \subseteq Carried("tset") \cup {Number, 0}
      BY <3>1 DEF Extends, Requests
    <3>3. n # 0
      BY <1>2, TakesTypes, RemoteAssumption DEF Option
    <3> QED
      BY <3>2, <3>3, CarriedTypes, CarriedAfter
  <2>4. m < Number /\ m \in Int /\ Number \in Int
    BY <2>1, <2>2 DEF Taken, Option, Inv, TypeOK
  <2> QED
    BY <1>0, <2>1, <2>2, <2>3, <2>4
<1>3. ASSUME NEW r, Delivers(r) \/ Fails(r) PROVE n > m
  <2>1. work # <<>> /\ r = Head(work) /\ Free(r) /\ UNCHANGED given
    BY <1>3 DEF Delivers, Fails
  <2>2. r \in Requests /\ Pending(r) /\ n \in tset /\ m \in Taken /\ m \in Option /\ m # 0
    <3>1. r \in Requests /\ Pending(r) /\ tset' \subseteq tset
      BY <2>1, FreeFacts
    <3>2. m \in Taken
      BY <2>1 DEF Taken
    <3>3. m \in Option /\ m # 0
      BY <3>2, RemoteAssumption DEF Taken, Option, Inv, TypeOK
    <3> QED
      BY <3>1, <3>2, <3>3
  <2>3. CASE reached[m] # <<>>
    BY <1>0, <2>1, <2>2, <2>3
  <2>4. CASE reached[m] = <<>>
    <3>1. Apply(r)
      BY <1>3, <2>4 DEF Delivers, Fails
    <3>2. m \in Carried(r)
      BY <2>2, <2>4, <3>1, ApplyFacts
    <3>3. m = top.n
      <4>1. given[m].kind \in Asks /\ given[m].kind # "add" /\ given[m].kind # "file"
        BY <2>1 DEF Asks
      <4>2. m \notin sset \cup tset \cup tadd.with \cup {tadd.n, tadd.file}
        BY <2>2, <4>1 DEF Inv, OriginInv
      <4> QED
        BY <2>2, <3>2, <4>2, CarriedTypes DEF Requests
    <3>4. tset = {}
      BY <2>1, <2>2, <3>3 DEF Inv, OriginInv
    <3> QED
      BY <2>2, <3>4
  <2> QED
    BY <2>3, <2>4
<1> QED
  BY <1>1, <1>2, <1>3, NextCases

-----------------------------------------------------------------------------
(* The theorems. *)

\* Every change that was applied went to the session, to the torrent current when its
\* option was given, or to the one then being added, though torrents are added and
\* become current while it waits (ChangeReachesItsTorrent).
THEOREM ReachesItsTorrent == Spec => []ChangeReachesItsTorrent
<1>1. Init => ChangeReachesItsTorrent
  BY DEF Init, ChangeReachesItsTorrent, Taken
<1> QED
  BY <1>1, MeantStep, Invariance, PTL DEF Spec

\* A change is applied at most once however often requests are refused and sent again,
\* and when the tool returns EXIT_SUCCESS all of them were (OnceInv).
THEOREM OnceKept == Spec => []OnceInv
<1>1. Init => DoneInv
  BY InitInv
<1>2. Inv /\ DoneInv => OnceInv
  <2> SUFFICES ASSUME Inv, DoneInv PROVE ExactlyOnce
    BY DEF Inv, OnceInv
  <2>1. \A n \in Taken : n \in Option /\ n # 0
    BY RemoteAssumption DEF Taken, Option, Inv, TypeOK
  <2>2. \A n \in Taken : Len(reached[n]) <= 1
    BY <2>1 DEF Inv, WaitInv
  <2>3. phase = "done" => \A r \in Requests : ~Pending(r)
    BY DEF Inv, WorkInv, InWork
  <2>4. ASSUME phase = "done", status = 0, NEW n \in Taken PROVE Len(reached[n]) = 1 \/ Silent(n)
    BY <2>1, <2>3, <2>4 DEF DoneInv, Inv, WaitInv
  <2> QED
    BY <2>2, <2>4, Zenon DEF ExactlyOnce
<1> QED
  BY <1>1, <1>2, DoneStep, Invariance, PTL DEF Spec

\* Once the server was asked about a torrent, none of the changes of the current torrent
\* given before waits, and unless a request has failed until now each of them was applied,
\* or its key was taken by a later option (SetBeforeGet).
THEOREM AsksAfterSetting == Spec => []SetBeforeGet
<1>1. Init => NoneWaits /\ DoneInv
  BY InitInv DEF Init, NoneWaits, Taken
<1>2. Inv /\ DoneInv /\ NoneWaits => SetBeforeGet
  <2> SUFFICES ASSUME Inv, DoneInv, NoneWaits,
                      NEW m \in Taken, given[m].kind \in Asks, reached[m] # <<>>,
                      NEW n \in Taken, n < m, ForTorrent(n)
               PROVE  /\ n \notin tset
                      /\ status = 0 /\ phase # "exit" => Len(reached[n]) = 1 \/ Silent(n)
    BY DEF SetBeforeGet, Asks
  <2>1. m \in Int /\ n \in Int /\ n # 0
    BY RemoteAssumption DEF Taken, Inv, TypeOK
  <2>2. n \notin tset
    BY <2>1 DEF NoneWaits
  <2>3. \A r \in Requests : n \notin Carried(r)
    <3>1. n \notin sset \cup tadd.with
      BY DEF Inv, PlaceInv
    <3>2. given[n].kind \in {"tset", "limit", "files"}
      BY DEF ForTorrent
    <3>3. n # tadd.n /\ n # tadd.file /\ n # top.n
      BY <2>1, <3>2 DEF Inv, OriginInv, PlaceInv, SendKinds
    <3> QED
      BY <2>1, <2>2, <3>1, <3>3, CarriedTypes DEF Requests
  <2> QED
    BY <2>2, <2>3 DEF DoneInv
<1> QED
  BY <1>1, <1>2, GetStep, DoneStep, Invariance, PTL DEF Spec
=============================================================================
