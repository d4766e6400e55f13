--------------------------- MODULE WebListProofs ---------------------------
(***************************************************************************)
(* Theorems about WebList, for any number of torrents, any delays, losses  *)
(* and changes: the page comes to have what the server has within the      *)
(* window in which a change is told of, names are asked for, refiltering   *)
(* the dirty rows gives what sorting the whole list would, and what the    *)
(* page has come to have it also shows.                                    *)
(***************************************************************************)
EXTENDS WebList, FiniteSetTheorems, WellFoundedInduction, TLAPS

-----------------------------------------------------------------------------
(* Types *)

Pages == UNION {[ids -> Known] : ids \in SUBSET Id}
Message ==
  [kind : {"all", "recent", "info"}, ids : SUBSET Id, sent : Nat, answered : BOOLEAN,
   torrents : Pages, removed : SUBSET Id]
Entry == [status : Status, meta : BOOLEAN, there : {"absent", "present", "removed"}]

\* The types of what goes between server and page; the rows have no part in it.
ViewTypes ==
  /\ server \in [Id -> Entry]
  /\ since \in [Id -> Int] /\ now \in Nat /\ \A id \in Id : since[id] <= now
  /\ torrents \in Pages
  /\ net \subseteq Message
  /\ polled \in BOOLEAN /\ listLost \in BOOLEAN /\ slow \in BOOLEAN
  /\ lost \in Nat

LEMMA Bounds == Window \in Nat /\ MaxDelay \in Nat /\ N \in Nat
BY BoundsAssumption

\* A page is a function from some of the torrents to what is known of them.
LEMMA PageElement ==
  ASSUME NEW f \in Pages
  PROVE  f = [id \in DOMAIN f |-> f[id]] /\ DOMAIN f \subseteq Id
         /\ \A id \in DOMAIN f : f[id] \in Known
<1>1. PICK ids \in SUBSET Id : f \in [ids -> Known]
  BY DEF Pages
<1>2. QED BY <1>1

LEMMA PageMade ==
  ASSUME NEW ids \in SUBSET Id, NEW f, f = [id \in ids |-> f[id]], \A id \in ids : f[id] \in Known
  PROVE  f \in Pages
<1>1. f \in [ids -> Known]
  OBVIOUS
<1>2. QED BY <1>1 DEF Pages

LEMMA EmptyPage == <<>> \in Pages /\ DOMAIN <<>> = {}
<1>1. <<>> \in [{} -> Known] /\ DOMAIN <<>> = {}
  OBVIOUS
<1>2. QED BY <1>1 DEF Pages

\* A new request waits for its answer.
LEMMA RequestType ==
  ASSUME now \in Nat, NEW kind \in {"all", "recent", "info"}, NEW ids \in SUBSET Id
  PROVE  /\ Request(kind, ids) \in Message
         /\ Request(kind, ids).kind = kind /\ Request(kind, ids).ids = ids
         /\ Request(kind, ids).sent = now /\ ~Request(kind, ids).answered
         /\ Request(kind, ids).torrents = <<>> /\ Request(kind, ids).removed = {}
<1>1. <<>> \in Pages
  BY EmptyPage
<1> HIDE DEF Pages
<1>2. QED BY <1>1 DEF Request, Message

\* What the server tells of a torrent it has.
LEMMA ToldType ==
  ASSUME ViewTypes, NEW kind \in {"all", "recent", "info"}, NEW id \in Id
  PROVE  /\ Told(kind, id) \in Known
         /\ Told(kind, id).status = server[id].status /\ Told(kind, id).meta = server[id].meta
         /\ Told(kind, id).name = "none" <=> kind = "recent"
         /\ Told(kind, id).name = "link" => ~Told(kind, id).meta
<1>1. server[id] \in Entry
  BY DEF ViewTypes
<1>2. server[id].status \in Status /\ server[id].meta \in BOOLEAN
  BY <1>1 DEF Entry
<1> DEFINE n == CASE kind = "recent" -> "none"
                  [] kind # "recent" -> IF server[id].meta THEN "real" ELSE "link"
<1>3. /\ n \in {"none", "link", "real"}
      /\ n = "none" <=> kind = "recent"
      /\ n = "link" => ~server[id].meta
  OBVIOUS
<1>4. Told(kind, id) = [status |-> server[id].status, meta |-> server[id].meta, name |-> n]
  BY DEF Told
<1> HIDE DEF n
<1>5. QED BY <1>2, <1>3, <1>4 DEF Known

-----------------------------------------------------------------------------
(* What the actions do to what goes between server and page *)

LEMMA ChangeEffect ==
  ASSUME ViewTypes, NEW id \in Id, NEW there \in {"present", "removed"}, NEW status \in Status,
         NEW meta \in BOOLEAN, change(id, there, status, meta)
  PROVE  /\ server' \in [Id -> Entry]
         /\ since' \in [Id -> Int] /\ since'[id] = now
         /\ \A i \in Id : i # id => server'[i] = server[i] /\ since'[i] = since[i]
         /\ server[id].there # "removed" /\ server'[id].there # "absent"
         /\ server[id].there = "absent" => server'[id].there = "present"
         /\ UNCHANGED <<now, net, polled, torrents, lost, unnamed, listLost, slow>>
<1>1. [status |-> status, meta |-> meta, there |-> there] \in Entry
  BY DEF Entry
<1>2. server' = [server EXCEPT ![id] = [status |-> status, meta |-> meta, there |-> there]]
      /\ since' = [since EXCEPT ![id] = now]
      /\ UNCHANGED <<now, net, polled, torrents, lost, unnamed, listLost, slow>>
  BY DEF change, pageVars, historyVars
<1>3. <<server[id].there, there>> \in
        {<<"absent", "present">>, <<"present", "present">>, <<"present", "removed">>}
  BY DEF change
<1>4. server' \in [Id -> Entry] /\ since' \in [Id -> Int]
  BY <1>1, <1>2 DEF ViewTypes
<1>5. server'[id].there = there /\ since'[id] = now
  BY <1>2 DEF ViewTypes
<1>6. \A i \in Id : i # id => server'[i] = server[i] /\ since'[i] = since[i]
  BY <1>2 DEF ViewTypes
<1>7. server[id].there # "removed" /\ there # "absent"
      /\ (server[id].there = "absent" => there = "present")
  BY <1>3
<1>8. QED BY <1>2, <1>4, <1>5, <1>6, <1>7

\* The answer a to a request m: what the server has and, to a poll, had removed lately.
Answers(a, m) ==
  /\ a \in Message /\ a.answered
  /\ a.kind = m.kind /\ a.ids = m.ids /\ a.sent = m.sent
  /\ DOMAIN a.torrents = IF m.kind = "recent" THEN {id \in Present : Lately(id)}
                                             ELSE m.ids \cap Present
  /\ \A id \in DOMAIN a.torrents : a.torrents[id] = Told(m.kind, id)
  /\ a.removed = IF m.kind = "recent"
                 THEN {id \in Id : server[id].there = "removed" /\ Lately(id)} ELSE {}

LEMMA AnswerEffect ==
  ASSUME ViewTypes, NEW m \in net, answer(m)
  PROVE  /\ ~m.answered
         /\ \E a : Answers(a, m) /\ net' = (net \ {m}) \cup {a}
         /\ UNCHANGED <<server, since, now, polled, torrents, lost, unnamed, listLost, slow>>
<1> DEFINE told == IF m.kind = "recent" THEN {id \in Present : Lately(id)} ELSE m.ids \cap Present
           ts == [id \in told |-> Told(m.kind, id)]
           gone == IF m.kind = "recent"
                   THEN {id \in Id : server[id].there = "removed" /\ Lately(id)} ELSE {}
           a == [m EXCEPT !.answered = TRUE, !.torrents = ts, !.removed = gone]
<1>1. m \in Message
  BY DEF ViewTypes
<1>2. m.kind \in {"all", "recent", "info"} /\ told \in SUBSET Id /\ gone \in SUBSET Id
  BY <1>1 DEF Message, Present
<1>3. ~m.answered /\ net' = (net \ {m}) \cup {a}
  BY DEF answer
<1>4. ts \in Pages /\ DOMAIN ts = told /\ \A id \in told : ts[id] = Told(m.kind, id)
  <2>1. \A id \in told : Told(m.kind, id) \in Known
    BY <1>2, ToldType
  <2> HIDE DEF told
  <2>2. DOMAIN ts = told /\ (\A id \in told : ts[id] \in Known) /\ ts = [id \in told |-> ts[id]]
    BY <2>1
  <2> HIDE DEF ts
  <2>3. ts \in Pages
    BY <1>2, <2>2, PageMade
  <2>4. QED BY <2>2, <2>3 DEF ts
<1>5. Answers(a, m)
  <2> HIDE DEF Pages, Known, told, gone
  <2>1. ts \in Pages /\ gone \in SUBSET Id
    BY <1>2, <1>4
  <2> HIDE DEF ts
  <2>2. a \in Message /\ a.answered /\ a.kind = m.kind /\ a.ids = m.ids /\ a.sent = m.sent
        /\ a.torrents = ts /\ a.removed = gone
    BY <1>1, <2>1 DEF Message
  <2> HIDE DEF a
  <2>3. DOMAIN a.torrents = told /\ \A id \in DOMAIN a.torrents : a.torrents[id] = Told(m.kind, id)
    BY <1>4, <2>2
  <2>4. QED BY <2>2, <2>3 DEF Answers, told, gone
<1>6. UNCHANGED <<server, since, now, polled, torrents, lost, unnamed, listLost, slow>>
  BY DEF answer, serverVars, pageVars, historyVars
<1> HIDE DEF a
<1>7. QED BY <1>3, <1>5, <1>6

\* What an answer that arrives does to the page.
LEMMA UpdateEffect ==
  ASSUME ViewTypes, NEW m \in net, updateFromTorrentGet(m)
  PROVE  /\ m.answered
         /\ torrents' \in Pages
         /\ DOMAIN torrents' = (Has \cup DOMAIN m.torrents) \ m.removed
         /\ \A id \in DOMAIN torrents' :
              torrents'[id] = IF id \notin DOMAIN m.torrents THEN torrents[id]
                              ELSE IF id \in Has THEN Refreshed(torrents[id], m.torrents[id])
                              ELSE m.torrents[id]
         /\ NeedInfo(m.torrents) \in SUBSET Id
         /\ net' = (net \ {m}) \cup (IF NeedInfo(m.torrents) = {} THEN {}
                                     ELSE {Request("info", NeedInfo(m.torrents))})
         /\ UNCHANGED <<server, since, now, polled, lost, unnamed, listLost, slow>>
<1> DEFINE told == m.torrents
           updated == [id \in Has \cup DOMAIN told |->
                         IF id \notin DOMAIN told THEN torrents[id]
                         ELSE IF id \in Has THEN Refreshed(torrents[id], told[id]) ELSE told[id]]
<1>1. m \in Message
  BY DEF ViewTypes
<1>2. told \in Pages /\ torrents \in Pages
  BY <1>1 DEF ViewTypes, Message
<1>3. /\ DOMAIN told \subseteq Id /\ Has \subseteq Id
      /\ \A id \in DOMAIN told : told[id] \in Known
      /\ \A id \in Has : torrents[id] \in Known
  BY <1>2, PageElement DEF Has
<1>4. \A old, new \in Known : Refreshed(old, new) \in Known
  BY DEF Refreshed, Known
<1>5. torrents' = deleted(updated, m.removed)
  BY DEF updateFromTorrentGet
<1>6. DOMAIN updated = Has \cup DOMAIN told /\ \A id \in DOMAIN updated : updated[id] \in Known
  BY <1>3, <1>4
<1>7. \A id \in DOMAIN updated :
        updated[id] = IF id \notin DOMAIN told THEN torrents[id]
                      ELSE IF id \in Has THEN Refreshed(torrents[id], told[id]) ELSE told[id]
  OBVIOUS
<1> HIDE DEF updated
<1>8. torrents' = [id \in DOMAIN updated \ m.removed |-> updated[id]]
  BY <1>5 DEF deleted
<1>9. /\ DOMAIN torrents' = DOMAIN updated \ m.removed
      /\ \A id \in DOMAIN torrents' : torrents'[id] = updated[id]
  BY <1>8
<1>10. torrents' \in Pages
  <2>1. DOMAIN updated \ m.removed \in SUBSET Id
    BY <1>3, <1>6
  <2>2. torrents' \in [DOMAIN updated \ m.removed -> Known]
    BY <1>6, <1>8
  <2>3. QED BY <2>1, <2>2 DEF Pages
<1>11. NeedInfo(m.torrents) \in SUBSET Id
  BY <1>3 DEF NeedInfo
<1>12. /\ m.answered
       /\ net' = (net \ {m}) \cup (IF NeedInfo(m.torrents) = {} THEN {}
                                   ELSE {Request("info", NeedInfo(m.torrents))})
       /\ UNCHANGED <<server, since, now, polled, lost, unnamed, listLost, slow>>
  BY DEF updateFromTorrentGet, serverVars, historyVars
<1>13. \A id \in DOMAIN torrents' :
         torrents'[id] = IF id \notin DOMAIN told THEN torrents[id]
                         ELSE IF id \in Has THEN Refreshed(torrents[id], told[id]) ELSE told[id]
  BY <1>7, <1>9
<1>14. QED BY <1>6, <1>9, <1>10, <1>11, <1>12, <1>13

\* The steps by what they do to what goes between server and page.
Changes(id) ==
  /\ server' \in [Id -> Entry]
  /\ since' \in [Id -> Int] /\ since'[id] = now
  /\ \A i \in Id : i # id => server'[i] = server[i] /\ since'[i] = since[i]
  /\ server[id].there # "removed" /\ server'[id].there # "absent"
  /\ server[id].there = "absent" => server'[id].there = "present"
  /\ UNCHANGED <<now, net, polled, torrents, lost, unnamed, listLost, slow>>

IsAnswered(m, a) ==
  /\ ~m.answered /\ Answers(a, m) /\ net' = (net \ {m}) \cup {a}
  /\ UNCHANGED <<server, since, now, polled, torrents, lost, unnamed, listLost, slow>>

IsLost(m) ==
  /\ lost' = lost + 1 /\ net' = net \ {m}
  /\ unnamed' = IF m.kind = "recent" THEN unnamed ELSE unnamed \cup m.ids
  /\ listLost' = (listLost \/ m.kind = "all")
  /\ UNCHANGED <<server, since, now, polled, torrents, slow>>

Polls ==
  /\ ~polled /\ polled' = TRUE
  /\ net' = net \cup {Request("recent", {})}
  /\ UNCHANGED <<server, since, now, torrents, lost, unnamed, listLost, slow>>

Ticks ==
  /\ polled /\ polled' = FALSE /\ now' = now + 1
  /\ Delayed => slow' = TRUE
  /\ ~Delayed => slow' = slow
  /\ UNCHANGED <<server, since, net, torrents, lost, unnamed, listLost>>

LEMMA StepKinds ==
  ASSUME ViewTypes, [Next]_vars
  PROVE  \/ \E id \in Id : Changes(id)
         \/ \E m \in net, a \in Message : IsAnswered(m, a)
         \/ \E m \in net : IsLost(m)
         \/ \E m \in net : updateFromTorrentGet(m)
         \/ Polls
         \/ Ticks
         \/ UNCHANGED <<server, since, now, net, polled, torrents, lost, unnamed, listLost, slow>>
<1>1. ASSUME NEW id \in Id, NEW there \in {"present", "removed"}, NEW status \in Status,
             NEW meta \in BOOLEAN, change(id, there, status, meta)
      PROVE  Changes(id)
  BY <1>1, ChangeEffect DEF Changes
<1>2. ASSUME NEW m \in net, answer(m)
      PROVE  \E a \in Message : IsAnswered(m, a)
  <2>1. PICK a : Answers(a, m) /\ net' = (net \ {m}) \cup {a}
    BY <1>2, AnswerEffect
  <2>2. ~m.answered /\ UNCHANGED <<server, since, now, polled, torrents, lost, unnamed, listLost, slow>>
    BY <1>2, AnswerEffect
  <2>3. a \in Message
    BY <2>1 DEF Answers
  <2>4. QED BY <2>1, <2>2, <2>3 DEF IsAnswered
<1>3. ASSUME NEW m \in net, lose(m)
      PROVE  IsLost(m)
  BY <1>3 DEF lose, IsLost, serverVars, pageVars
<1>4. refreshTorrents => Polls
  BY DEF refreshTorrents, Polls, serverVars, pageVars, historyVars
<1>5. tick => Ticks
  BY DEF tick, Ticks, pageVars
<1>6. refilter \/ (\E f \in Filter : setFilterMode(f)) \/ UNCHANGED vars =>
        UNCHANGED <<server, since, now, net, polled, torrents, lost, unnamed, listLost, slow>>
  BY DEF refilter, setFilterMode, vars, serverVars, historyVars
<1>7. QED BY <1>1, <1>2, <1>3, <1>4, <1>5, <1>6 DEF Next

LEMMA TypesStep ==
  ASSUME ViewTypes, [Next]_vars
  PROVE  ViewTypes'
<1>1. ASSUME NEW id \in Id, Changes(id)
      PROVE  ViewTypes'
  <2>1. \A i \in Id : since'[i] <= now'
    BY <1>1 DEF ViewTypes, Changes
  <2> HIDE DEF Pages, Message, Entry
  <2>2. QED BY <1>1, <2>1 DEF ViewTypes, Changes
<1>2. ASSUME NEW m \in net, NEW a \in Message, IsAnswered(m, a)
      PROVE  ViewTypes'
  BY <1>2 DEF ViewTypes, IsAnswered
<1>3. ASSUME NEW m \in net, IsLost(m)
      PROVE  ViewTypes'
  BY <1>3, Bounds DEF ViewTypes, IsLost
<1>4. ASSUME NEW m \in net, updateFromTorrentGet(m)
      PROVE  ViewTypes'
  <2>1. NeedInfo(m.torrents) \in SUBSET Id => Request("info", NeedInfo(m.torrents)) \in Message
    BY RequestType DEF ViewTypes
  <2>2. net' \subseteq Message
    BY <1>4, <2>1, UpdateEffect DEF ViewTypes
  <2>3. QED BY <1>4, <2>2, UpdateEffect DEF ViewTypes
<1>5. CASE Polls
  <2>1. Request("recent", {}) \in Message
    BY RequestType DEF ViewTypes
  <2>2. QED BY <1>5, <2>1 DEF ViewTypes, Polls
<1>6. CASE Ticks
  <2>1. now' \in Nat /\ \A id \in Id : since'[id] <= now'
    BY <1>6 DEF ViewTypes, Ticks
  <2> HIDE DEF Pages, Message, Entry
  <2>2. QED BY <1>6, <2>1 DEF ViewTypes, Ticks
<1>7. CASE UNCHANGED <<server, since, now, net, polled, torrents, lost, unnamed, listLost, slow>>
  BY <1>7 DEF ViewTypes
<1>8. QED BY <1>1, <1>2, <1>3, <1>4, <1>5, <1>6, <1>7, StepKinds

-----------------------------------------------------------------------------
(* Names are asked for *)

\* No message is older than the delay unless something was slow. An answer tells of torrents the server has had,
\* of their names if it is not one to a poll, and of a link's name only without metadata.
MessageInv ==
  \A m \in net :
    /\ m.sent <= now /\ (~slow => now <= m.sent + MaxDelay)
    /\ \A id \in DOMAIN m.torrents :
         /\ server[id].there # "absent"
         /\ m.torrents[id].name = "none" <=> m.kind = "recent"
         /\ m.torrents[id].name = "link" => ~m.torrents[id].meta

\* The page has only torrents the server has had.
PageInv == \A id \in Has : server[id].there # "absent"

Missing(ts, id) == ts[id].name = "none" \/ (ts[id].meta /\ ts[id].name = "link")

\* The request for names has not met the server yet, or its answer has this one: of NameIsAsked
\* this is what no answer of before the torrent was added can spoil.
WillTell(m, id) ==
  m.kind # "recent" /\ id \in m.ids /\ (m.answered => id \in DOMAIN m.torrents)

AskedInv ==
  \A id \in Has \cap Present :
    Missing(torrents, id) => id \in unnamed \/ \E m \in net : WillTell(m, id)

LEMMA MessageStep ==
  ASSUME ViewTypes, MessageInv, [Next]_vars
  PROVE  MessageInv'
<1>1. ASSUME NEW id \in Id, Changes(id)
      PROVE  MessageInv'
  <2>1. \A i \in Id : server[i].there # "absent" => server'[i].there # "absent"
    BY <1>1 DEF Changes
  <2>2. \A m \in net : DOMAIN m.torrents \subseteq Id
    BY PageElement DEF ViewTypes, Message
  <2>3. QED BY <1>1, <2>1, <2>2 DEF MessageInv, Changes
<1>2. ASSUME NEW m \in net, NEW a \in Message, IsAnswered(m, a)
      PROVE  MessageInv'
  <2>1. m.kind \in {"all", "recent", "info"} /\ m \in Message
    BY DEF ViewTypes, Message
  <2>2. \A id \in DOMAIN a.torrents : id \in Present /\ id \in Id
    BY <1>2 DEF IsAnswered, Answers, Present
  <2>3. \A id \in DOMAIN a.torrents :
          /\ a.torrents[id].name = "none" <=> a.kind = "recent"
          /\ a.torrents[id].name = "link" => ~a.torrents[id].meta
    BY <1>2, <2>1, <2>2, ToldType DEF IsAnswered, Answers
  <2>4. QED BY <1>2, <2>2, <2>3 DEF MessageInv, IsAnswered, Answers, Present
<1>3. ASSUME NEW m \in net, IsLost(m)
      PROVE  MessageInv'
  BY <1>3 DEF MessageInv, IsLost
<1>4. ASSUME NEW kind \in {"all", "recent", "info"}, NEW ids \in SUBSET Id, NEW m,
             net' \subseteq net \cup {m}, m = Request(kind, ids),
             UNCHANGED <<server, now, slow>>
      PROVE  MessageInv'
  <2>1. m.sent = now /\ DOMAIN m.torrents = {} /\ now \in Nat
    BY <1>4, RequestType, EmptyPage DEF ViewTypes
  <2>2. m.sent <= now /\ now <= m.sent + MaxDelay
    BY <2>1, Bounds
  <2>3. QED BY <1>4, <2>1, <2>2 DEF MessageInv
<1>5. ASSUME NEW m \in net, updateFromTorrentGet(m)
      PROVE  MessageInv'
  BY <1>4, <1>5, UpdateEffect
<1>6. CASE Polls
  BY <1>4, <1>6 DEF Polls
<1>7. CASE Ticks
  <2>1. \A m \in net : m.sent \in Nat /\ now \in Nat /\ MaxDelay \in Nat
    BY Bounds DEF ViewTypes, Message
  <2>2. now' = now + 1 /\ net' = net /\ server' = server
    BY <1>7 DEF Ticks
  <2>3. ~slow' => ~slow /\ ~Delayed
    BY <1>7 DEF Ticks
  <2>4. ~Delayed => \A m \in net : now' <= m.sent + MaxDelay
    BY <2>1, <2>2 DEF Delayed
  <2>5. \A m \in net : m.sent <= now'
    BY <2>1, <2>2 DEF MessageInv
  <2>6. QED BY <2>2, <2>3, <2>4, <2>5 DEF MessageInv
<1>8. CASE UNCHANGED <<server, since, now, net, polled, torrents, lost, unnamed, listLost, slow>>
  BY <1>8 DEF MessageInv
<1>9. QED BY <1>1, <1>2, <1>3, <1>5, <1>6, <1>7, <1>8, StepKinds

LEMMA PageStep ==
  ASSUME ViewTypes, MessageInv, PageInv, [Next]_vars
  PROVE  PageInv'
<1>1. Has \subseteq Id
  BY PageElement DEF ViewTypes, Has
<1>2. ASSUME NEW id \in Id, Changes(id)
      PROVE  PageInv'
  BY <1>1, <1>2 DEF PageInv, Has, Changes
<1>3. ASSUME NEW m \in net, updateFromTorrentGet(m)
      PROVE  PageInv'
  <2>1. DOMAIN torrents' \subseteq Has \cup DOMAIN m.torrents /\ server' = server
    BY <1>3, UpdateEffect
  <2>2. QED BY <2>1 DEF PageInv, Has, MessageInv
<1>4. CASE UNCHANGED <<server, torrents>>
  BY <1>4 DEF PageInv, Has
<1>5. QED
  BY <1>2, <1>3, <1>4, StepKinds DEF IsAnswered, IsLost, Polls, Ticks

LEMMA AskedStep ==
  ASSUME ViewTypes, MessageInv, PageInv, AskedInv, [Next]_vars
  PROVE  AskedInv'
<1>1. Has \subseteq Id /\ \A m \in net : m \in Message /\ DOMAIN m.torrents \subseteq Id
  BY PageElement DEF ViewTypes, Message, Has
<1>2. ASSUME NEW id \in Id, Changes(id)
      PROVE  AskedInv'
  <2>1. \A i \in Has : i \in Present' => i \in Present
    BY <1>1, <1>2 DEF PageInv, Present, Changes, ViewTypes, Entry
  <2>2. QED BY <1>2, <2>1 DEF AskedInv, Has, Missing, WillTell, Changes
<1>3. ASSUME NEW m \in net, NEW a \in Message, IsAnswered(m, a)
      PROVE  AskedInv'
  <2>1. \A id \in Present : WillTell(m, id) => WillTell(a, id)
    BY <1>3 DEF IsAnswered, Answers, WillTell
  <2>2. \A id \in Present :
          (\E n \in net : WillTell(n, id)) => \E n \in net' : WillTell(n, id)
    BY <1>3, <2>1 DEF IsAnswered
  <2>3. Has' = Has /\ Present' = Present /\ UNCHANGED <<torrents, unnamed>>
    BY <1>3 DEF Has, Present, IsAnswered
  <2>4. QED BY <2>2, <2>3 DEF AskedInv, Missing, WillTell
<1>4. ASSUME NEW m \in net, IsLost(m)
      PROVE  AskedInv'
  <2>1. \A id \in Present :
          (\E n \in net : WillTell(n, id)) => id \in unnamed' \/ \E n \in net' : WillTell(n, id)
    BY <1>4 DEF IsLost, WillTell
  <2>2. Has' = Has /\ Present' = Present /\ torrents' = torrents /\ unnamed \subseteq unnamed'
    BY <1>4 DEF Has, Present, IsLost
  <2>3. QED BY <2>1, <2>2 DEF AskedInv, Missing, WillTell
<1>5. ASSUME NEW m \in net, updateFromTorrentGet(m)
      PROVE  AskedInv'
  <2> DEFINE told == m.torrents
             needed == NeedInfo(m.torrents)
  <2>1. /\ m.answered /\ needed \in SUBSET Id
        /\ DOMAIN torrents' \subseteq Has \cup DOMAIN told
        /\ \A id \in DOMAIN torrents' :
             torrents'[id] = IF id \notin DOMAIN told THEN torrents[id]
                             ELSE IF id \in Has THEN Refreshed(torrents[id], told[id]) ELSE told[id]
        /\ net' = (net \ {m}) \cup (IF needed = {} THEN {} ELSE {Request("info", needed)})
        /\ UNCHANGED <<server, unnamed>>
    BY <1>5, UpdateEffect
  <2>2. \A id \in needed : \E n \in net' : WillTell(n, id)
    <3>1. \A id \in needed : WillTell(Request("info", needed), id)
      BY <2>1, RequestType DEF WillTell, ViewTypes
    <3>2. QED BY <2>1, <3>1
  <2>3. /\ \A id \in DOMAIN told : told[id] \in Known
        /\ \A id \in DOMAIN told : told[id].name = "none" <=> m.kind = "recent"
        /\ \A id \in DOMAIN told : told[id].name = "link" => ~told[id].meta
    BY <1>1, PageElement DEF MessageInv, Message
  <2>4. \A id \in needed : id \in DOMAIN told
    BY DEF NeedInfo
  <2>5. \A id \in DOMAIN told :
          id \in needed <=> IF id \in Has THEN ~torrents[id].meta /\ told[id].meta
                                          ELSE told[id].name = "none"
    BY DEF NeedInfo
  <2> HIDE DEF told, needed
  <2>6. SUFFICES ASSUME NEW id \in DOMAIN torrents', id \in Present, Missing(torrents', id)
                 PROVE  id \in unnamed \/ \E n \in net' : WillTell(n, id)
    BY <2>1 DEF AskedInv, Has, Present, WillTell
  <2>7. ASSUME id \in Has, Missing(torrents, id), id \notin DOMAIN told \/ m.kind = "recent"
        PROVE  id \in unnamed \/ \E n \in net' : WillTell(n, id)
    <3>1. id \in unnamed \/ \E n \in net : WillTell(n, id)
      BY <2>6, <2>7 DEF AskedInv
    <3>2. ~WillTell(m, id)
      BY <2>1, <2>7 DEF WillTell, told
    <3>3. QED BY <2>1, <3>1, <3>2
  <2>8. CASE id \notin DOMAIN told
    <3>1. id \in Has /\ torrents'[id] = torrents[id]
      BY <2>1, <2>8
    <3>2. QED BY <2>6, <2>7, <2>8, <3>1 DEF Missing
  <2>9. CASE id \in DOMAIN told /\ m.kind # "recent"
    <3>1. torrents'[id] = told[id]
      BY <2>1, <2>3, <2>9 DEF Refreshed
    <3>2. QED BY <2>3, <2>6, <2>9, <3>1 DEF Missing
  <2>10. CASE id \in DOMAIN told /\ m.kind = "recent" /\ id \in Has /\ id \notin needed
    <3>1. torrents'[id] = [told[id] EXCEPT !.name = torrents[id].name]
      BY <2>1, <2>3, <2>10 DEF Refreshed
    <3>2. torrents'[id].name = torrents[id].name /\ torrents'[id].meta = told[id].meta
      BY <2>3, <2>10, <3>1 DEF Known
    <3>3. told[id].meta => torrents[id].meta
      BY <2>5, <2>10
    <3>4. Missing(torrents, id)
      BY <2>6, <3>2, <3>3 DEF Missing
    <3>5. QED BY <2>7, <2>10, <3>4
  <2>11. CASE id \in needed
    BY <2>2, <2>11
  <2>12. id \in DOMAIN told /\ id \notin Has /\ m.kind = "recent" => id \in needed
    BY <2>3, <2>5
  <2>13. QED BY <2>8, <2>9, <2>10, <2>11, <2>12
<1>6. CASE net \subseteq net' /\ UNCHANGED <<server, torrents, unnamed>>
  BY <1>6 DEF AskedInv, Has, Present, Missing, WillTell
<1>7. QED
  BY <1>2, <1>3, <1>4, <1>5, <1>6, StepKinds DEF Polls, Ticks

LEMMA InitSince == Init => since \in [Id -> Int] /\ \A id \in Id : since[id] <= 0
<1>1. \A age \in Ages : -age \in Int /\ -age <= 0
  BY BoundsAssumption
<1>2. \A x \in {-age : age \in Ages} : x \in Int /\ x <= 0
  BY <1>1
<1> HIDE DEF Id
<1> QED
  BY <1>2 DEF Init

LEMMA InitView ==
  ASSUME Init
  PROVE  ViewTypes /\ MessageInv /\ PageInv /\ net = {Request("all", Id)} /\ torrents = <<>>
<1>1. Request("all", Id) \in Message /\ Request("all", Id).sent = 0
      /\ DOMAIN Request("all", Id).torrents = {}
  <2>1. now \in Nat /\ now = 0
    BY DEF Init
  <2> DEFINE ids == Id
  <2>2. ids \in SUBSET Id
    OBVIOUS
  <2> HIDE DEF ids
  <2>3. Request("all", ids) \in Message /\ Request("all", ids).sent = 0
        /\ Request("all", ids).torrents = <<>>
    BY <2>1, <2>2, RequestType
  <2>4. QED BY <2>3, EmptyPage DEF ids
<1>2. server \in [Id -> Entry]
  BY DEF Init, Entry, Status
<1>3. torrents \in Pages /\ Has = {}
  BY EmptyPage DEF Init, Has
<1>4. net = {Request("all", Id)} /\ now = 0 /\ lost = 0
      /\ polled = FALSE /\ torrents = <<>> /\ listLost = FALSE /\ slow = FALSE
  BY DEF Init
<1> HIDE DEF Pages, Message, Entry
<1>5. ViewTypes
  <2>1. since \in [Id -> Int] /\ now \in Nat /\ \A id \in Id : since[id] <= now
    BY InitSince, <1>4
  <2>2. polled \in BOOLEAN /\ listLost \in BOOLEAN /\ slow \in BOOLEAN
    BY <1>4, Zenon
  <2>3. lost \in Nat
    <3>1. lost = 0
      BY <1>4, Zenon
    <3>2. QED BY <3>1
  <2>4. net \subseteq Message
    BY <1>1, <1>4
  <2>5. QED BY <1>2, <1>3, <2>1, <2>2, <2>3, <2>4 DEF ViewTypes
<1>6. MessageInv /\ PageInv
  BY <1>1, <1>3, <1>4, Bounds DEF MessageInv, PageInv
<1>7. QED BY <1>4, <1>5, <1>6

\* A torrent the page has without its name is asked about, or the request was lost, whatever
\* answers of before it was added are still on their way.
THEOREM NamesAreAsked == Spec => []NameIsAsked
<1>1. Init => ViewTypes /\ MessageInv /\ PageInv /\ AskedInv
  <2>1. Init => ViewTypes /\ MessageInv /\ PageInv /\ torrents = <<>>
    BY InitView
  <2>2. torrents = <<>> => AskedInv
    BY EmptyPage DEF AskedInv, Has
  <2>3. QED BY <2>1, <2>2
<1>2. ViewTypes /\ MessageInv /\ PageInv /\ AskedInv /\ [Next]_vars
        => (ViewTypes /\ MessageInv /\ PageInv /\ AskedInv)'
  BY TypesStep, MessageStep, PageStep, AskedStep
<1>3. AskedInv => NameIsAsked
  BY DEF AskedInv, NameIsAsked, Missing, WillTell
<1>4. QED BY <1>1, <1>2, <1>3, PTL DEF Spec

-----------------------------------------------------------------------------
(* The page comes to have what the server has *)

LEMMA OneMoreLost ==
  ASSUME NEW a \in Nat, NEW b \in Nat, b = a \/ b = a + 1, NEW d \in Int, NEW w \in Nat,
         w >= d + 1 + b
  PROVE  w >= d + 1 + a
OBVIOUS

\* What the page can rely on it could rely on before.
LEMMA TimelyBefore ==
  ASSUME ViewTypes, [Next]_vars
  PROVE  (Timely' => Timely) /\ (listLost => listLost')
<1>1. /\ lost' = lost \/ lost' = lost + 1
      /\ slow => slow'
      /\ listLost => listLost'
  <2>1. ASSUME NEW m \in net, updateFromTorrentGet(m)
        PROVE  UNCHANGED <<lost, slow, listLost>>
    BY <2>1, UpdateEffect
  <2>2. ASSUME Ticks
        PROVE  lost' = lost /\ (slow => slow') /\ listLost' = listLost
    BY <2>2 DEF Ticks
  <2>3. ASSUME NEW m \in net, IsLost(m)
        PROVE  lost' = lost + 1 /\ slow' = slow /\ (listLost => listLost')
    BY <2>3 DEF IsLost
  <2>4. ASSUME \/ \E id \in Id : Changes(id)
               \/ \E m \in net, a \in Message : IsAnswered(m, a)
               \/ Polls
               \/ UNCHANGED <<server, since, now, net, polled, torrents, lost, unnamed, listLost, slow>>
        PROVE  UNCHANGED <<lost, slow, listLost>>
    BY <2>4 DEF Changes, IsAnswered, Polls
  <2>5. QED BY <2>1, <2>2, <2>3, <2>4, StepKinds
<1>2. lost \in Nat /\ lost' \in Nat
  BY TypesStep DEF ViewTypes
<1>3. lost' = lost \/ lost' = lost + 1
  BY <1>1
<1>4. Window >= 2 * MaxDelay + 1 + lost' => Window >= 2 * MaxDelay + 1 + lost
  <2>1. 2 * MaxDelay \in Int /\ Window \in Nat
    BY Bounds
  <2>2. QED BY <1>2, <1>3, <2>1, OneMoreLost
<1>5. QED BY <1>1, <1>4 DEF Timely

\* When a torrent last changed, or the page was loaded.
Base(id) == IF since[id] < 0 THEN 0 ELSE since[id]

LEMMA BaseIs ==
  ASSUME ViewTypes, NEW id \in Id
  PROVE  /\ Base(id) \in Nat /\ Base(id) >= since[id] /\ Base(id) <= now
         /\ since[id] >= 0 => Base(id) = since[id]
         /\ Settled(id) => now > Base(id) + Window /\ (since[id] < 0 => ~listLost)
BY Bounds DEF Base, ViewTypes, Settled

\* An answer that says nothing of a torrent the server would not say now, and one that says all.
Agrees(m, id) ==
  /\ id \in DOMAIN m.torrents => id \in Present /\ m.torrents[id].status = server[id].status
  /\ id \in m.removed => server[id].there = "removed"

Tells(m, id) ==
  /\ id \in Present => id \in DOMAIN m.torrents
  /\ server[id].there = "removed" => id \in m.removed

\* An answer to a request of after the last change of a torrent agrees with the server, and to a
\* poll, while the change is still told of, it is all there is to know.
LateInv ==
  \A m \in net, id \in Id :
    m.answered /\ m.sent > since[id] =>
      /\ Agrees(m, id)
      /\ m.kind = "recent" /\ now <= since[id] + Window => Tells(m, id)

\* The periods in which a poll was sent that meets no answer of before the change, and of which
\* nothing is under way any more. Each of these polls has been heard of, or is lost.
Gone(id) ==
  {q \in Base(id) + MaxDelay + 1 .. now :
     (q < now \/ polled) /\ ~\E m \in net : m.kind = "recent" /\ m.sent = q}

FreshInv ==
  \A id \in Id :
    Timely /\ since[id] >= 0 /\ now > since[id] + MaxDelay =>
      InView(id) \/ Cardinality(Gone(id)) <= lost

\* A torrent that has not changed since the page was loaded is on it as it is, unless the request
\* for all is under way or was lost; the answer to that request tells of it.
IdleInv ==
  /\ \A m \in net : m.kind = "all" => m.sent = 0 /\ m.ids = Id
  /\ \A id \in Id : since[id] < 0 =>
       /\ server[id].there # "removed"
       /\ listLost \/ InView(id) \/ \E m \in net : m.kind = "all"
       /\ \A m \in net : m.kind = "all" /\ m.answered /\ id \in Present => id \in DOMAIN m.torrents

LEMMA GoneFinite ==
  ASSUME ViewTypes, NEW id \in Id
  PROVE  IsFiniteSet(Gone(id)) /\ Gone(id) \subseteq Nat
<1>1. Base(id) + MaxDelay + 1 \in Nat /\ now \in Nat
  BY Bounds, BaseIs DEF ViewTypes
<1>2. IsFiniteSet(Base(id) + MaxDelay + 1 .. now)
  BY <1>1, FS_Interval
<1>3. Gone(id) \in SUBSET (Base(id) + MaxDelay + 1 .. now)
  BY DEF Gone
<1>4. QED BY <1>1, <1>2, <1>3, FS_Subset

\* More polls than can be lost fit between the last answer of before a change and the end of its
\* window: once it has passed, one of them has been heard of.
LEMMA Overdue ==
  ASSUME ViewTypes, MessageInv, Timely, NEW id \in Id, now > Base(id) + Window
  PROVE  Cardinality(Gone(id)) > lost
<1> DEFINE lo == Base(id) + MaxDelay + 1
           hi == now - MaxDelay - 1
           G == Gone(id)
<1>1. Base(id) \in Nat /\ now \in Nat /\ lost \in Nat
  BY BaseIs DEF ViewTypes
<1>2. lo \in Int /\ hi \in Int /\ hi - lo + 1 > lost /\ hi < now /\ lo <= hi
  <2>1. Window >= 2 * MaxDelay + 1 + lost
    BY DEF Timely
  <2>2. QED BY <1>1, <2>1, Bounds
<1>3. \A q \in lo .. hi : ~\E m \in net : m.kind = "recent" /\ m.sent = q
  <2>1. \A m \in net : m.sent \in Nat /\ now <= m.sent + MaxDelay
    BY DEF ViewTypes, Message, MessageInv, Timely
  <2>2. QED BY <1>1, <1>2, <2>1, Bounds
<1>4. lo .. hi \in SUBSET G
  BY <1>1, <1>2, <1>3, Bounds DEF Gone
<1>5. IsFiniteSet(G)
  BY GoneFinite
<1>6. Cardinality(lo .. hi) = hi - lo + 1
  BY <1>2, FS_Interval
<1> HIDE DEF G, lo, hi
<1>7. Cardinality(lo .. hi) <= Cardinality(G)
  BY <1>4, <1>5, FS_Subset
<1>8. Cardinality(G) \in Nat
  BY <1>5, FS_CardinalityType
<1>9. Cardinality(G) > lost
  BY <1>1, <1>2, <1>6, <1>7, <1>8
<1>10. QED BY <1>9 DEF G

LEMMA LateStep ==
  ASSUME ViewTypes, MessageInv, LateInv, [Next]_vars
  PROVE  LateInv'
<1>1. now \in Nat /\ (\A id \in Id : since[id] \in Int) /\ Window \in Nat
      /\ \A m \in net : m \in Message /\ m.sent \in Nat
  BY Bounds DEF ViewTypes, Message
<1>2. ASSUME NEW id \in Id, Changes(id)
      PROVE  LateInv'
  <2>1. \A m \in net : ~(m.sent > since'[id])
    BY <1>1, <1>2 DEF Changes, MessageInv
  <2>2. \A i \in Id : i # id => (i \in Present <=> i \in Present')
    BY <1>2 DEF Present, Changes
  <2>3. QED BY <1>2, <2>1, <2>2 DEF LateInv, Agrees, Tells, Changes
<1>3. ASSUME NEW m \in net, NEW a \in Message, IsAnswered(m, a)
      PROVE  LateInv'
  <2>1. m.kind \in {"all", "recent", "info"}
    BY <1>1 DEF Message
  <2>2. \A id \in DOMAIN a.torrents :
          id \in Present /\ a.torrents[id].status = server[id].status
    <3>1. \A id \in DOMAIN a.torrents : id \in Present /\ id \in Id
      BY <1>3 DEF IsAnswered, Answers, Present
    <3>2. \A id \in DOMAIN a.torrents : a.torrents[id] = Told(m.kind, id)
      BY <1>3 DEF IsAnswered, Answers
    <3>3. \A id \in Id : Told(m.kind, id).status = server[id].status
      BY <2>1, ToldType
    <3>4. QED BY <3>1, <3>2, <3>3
  <2>3. \A id \in Id : Agrees(a, id)
    BY <1>3, <2>2 DEF Agrees, IsAnswered, Answers
  <2>4. \A id \in Id : a.kind = "recent" /\ now <= since[id] + Window => Tells(a, id)
    <3>1. \A id \in Id : now <= since[id] + Window => Lately(id)
      BY <1>1 DEF Lately
    <3>2. QED BY <1>3, <3>1 DEF Tells, IsAnswered, Answers, Present
  <2>5. \A id \in Id : id \in Present <=> id \in Present'
    BY <1>3 DEF Present, IsAnswered
  <2>6. \A n \in net' : n \in net \/ n = a
    BY <1>3 DEF IsAnswered
  <2>7. UNCHANGED <<server, since, now>>
    BY <1>3 DEF IsAnswered
  <2>8. \A id \in Id, n \in net' :
          n.answered /\ n.sent > since[id] =>
            Agrees(n, id) /\ (n.kind = "recent" /\ now <= since[id] + Window => Tells(n, id))
    BY <2>3, <2>4, <2>6 DEF LateInv
  <2>9. QED BY <2>5, <2>7, <2>8 DEF LateInv, Agrees, Tells
<1>4. ASSUME \A n \in net' : n \in net \/ ~n.answered, UNCHANGED <<server, since, now>>
      PROVE  LateInv'
  BY <1>4 DEF LateInv, Agrees, Tells, Present
<1>5. ASSUME NEW m \in net, IsLost(m)
      PROVE  LateInv'
  BY <1>4, <1>5 DEF IsLost
<1>6. ASSUME NEW m \in net, updateFromTorrentGet(m)
      PROVE  LateInv'
  <2>1. ~Request("info", NeedInfo(m.torrents)).answered
    BY <1>1, <1>6, UpdateEffect, RequestType
  <2>2. QED BY <1>4, <1>6, <2>1, UpdateEffect
<1>7. CASE Polls
  <2>1. ~Request("recent", {}).answered
    BY <1>1, RequestType
  <2>2. QED BY <1>4, <1>7, <2>1 DEF Polls
<1>8. CASE Ticks
  <2>1. \A id \in Id : now' <= since'[id] + Window => now <= since[id] + Window
    BY <1>1, <1>8 DEF Ticks
  <2>2. QED BY <1>8, <2>1 DEF LateInv, Agrees, Tells, Present, Ticks
<1>9. CASE UNCHANGED <<server, since, now, net, polled, torrents, lost, unnamed, listLost, slow>>
  BY <1>4, <1>9
<1>10. QED BY <1>2, <1>3, <1>5, <1>6, <1>7, <1>8, <1>9, StepKinds

\* Fewer periods are gone, and the page is not behind.
LEMMA GoneLess ==
  ASSUME ViewTypes, NEW id \in Id, Gone(id)' \subseteq Gone(id), Cardinality(Gone(id)) <= lost,
         lost' = lost
  PROVE  Cardinality(Gone(id)') <= lost'
<1> DEFINE G == Gone(id)
           H == Gone(id)'
<1>1. IsFiniteSet(G) /\ H \in SUBSET G
  BY GoneFinite
<1> HIDE DEF G, H
<1>2. Cardinality(H) <= Cardinality(G) /\ IsFiniteSet(H)
  BY <1>1, FS_Subset
<1>3. Cardinality(H) \in Nat /\ Cardinality(G) \in Nat
  BY <1>1, <1>2, FS_CardinalityType
<1>4. Cardinality(G) <= lost /\ lost \in Nat
  BY DEF G, ViewTypes
<1>5. Cardinality(H) <= lost
  BY <1>2, <1>3, <1>4
<1>6. QED BY <1>5 DEF H

\* A step other than the arrival of a poll's answer.
NoPollArrives ==
  \/ \E i \in Id : Changes(i)
  \/ \E m \in net, a \in Message : IsAnswered(m, a)
  \/ \E m \in net : IsLost(m)
  \/ \E m \in net : m.kind # "recent" /\ updateFromTorrentGet(m)
  \/ Polls
  \/ Ticks
  \/ UNCHANGED <<server, since, now, net, polled, torrents, lost, unnamed, listLost, slow>>

\* With such a step no more polls are gone than are lost, if that was so.
LEMMA FewAreGone ==
  ASSUME ViewTypes, NEW id \in Id, NoPollArrives, now' > Base(id)' + MaxDelay,
         now > Base(id) + MaxDelay => Cardinality(Gone(id)) <= lost
  PROVE  Cardinality(Gone(id)') <= lost'
<1>1. now \in Nat /\ (\A i \in Id : since[i] \in Int) /\ MaxDelay \in Nat /\ Base(id) \in Nat
  BY Bounds, BaseIs DEF ViewTypes
<1>2. ASSUME now > Base(id) + MaxDelay, Gone(id)' \subseteq Gone(id), lost' = lost
      PROVE  Cardinality(Gone(id)') <= lost'
  BY <1>2, GoneLess
<1>3. ASSUME NEW i \in Id, Changes(i)
      PROVE  Cardinality(Gone(id)') <= lost'
  <2>1. id # i /\ Base(id)' = Base(id)
    BY <1>1, <1>3 DEF Changes, Base
  <2>2. now > Base(id) + MaxDelay /\ Gone(id)' \subseteq Gone(id) /\ lost' = lost
    BY <1>3, <2>1 DEF Gone, Changes
  <2>3. QED BY <1>2, <2>2
<1>4. ASSUME NEW m \in net, NEW a \in Message, IsAnswered(m, a)
      PROVE  Cardinality(Gone(id)') <= lost'
  <2>1. \A n \in net : \E k \in net' : k.kind = n.kind /\ k.sent = n.sent
    BY <1>4 DEF IsAnswered, Answers
  <2>2. UNCHANGED <<since, now, polled, lost>>
    BY <1>4 DEF IsAnswered
  <2>3. QED BY <1>2, <2>1, <2>2 DEF Gone, Base
<1>5. ASSUME NEW m \in net, IsLost(m)
      PROVE  Cardinality(Gone(id)') <= lost'
  <2> DEFINE G == Gone(id)
             H == Gone(id)'
             U == G \cup {m.sent}
  <2>1. lost' = lost + 1 /\ net' = net \ {m} /\ UNCHANGED <<since, now, polled>>
    BY <1>5 DEF IsLost
  <2>2. H \subseteq U
    BY <2>1 DEF Gone, Base
  <2>3. IsFiniteSet(G) /\ Cardinality(G) <= lost
    BY <2>1, GoneFinite DEF Base
  <2> HIDE DEF G, H, U
  <2>4. Cardinality(G) \in Nat
    BY <2>3, FS_CardinalityType
  <2>5. IsFiniteSet(U) /\ Cardinality(U) <= Cardinality(G) + 1
    <3>1. IsFiniteSet(G \cup {m.sent})
          /\ Cardinality(G \cup {m.sent}) = IF m.sent \in G THEN Cardinality(G) ELSE Cardinality(G) + 1
      BY <2>3, FS_AddElement, Zenon
    <3>2. IsFiniteSet(G \cup {m.sent}) /\ Cardinality(G \cup {m.sent}) <= Cardinality(G) + 1
      BY <2>4, <3>1
    <3>3. QED BY <3>2 DEF U, G
  <2>6. Cardinality(H) <= Cardinality(U) /\ IsFiniteSet(H)
    BY <2>2, <2>5, FS_Subset
  <2>7. Cardinality(H) \in Nat /\ Cardinality(U) \in Nat /\ lost \in Nat
    BY <2>5, <2>6, FS_CardinalityType DEF ViewTypes
  <2>8. Cardinality(H) <= lost'
    BY <2>1, <2>3, <2>4, <2>5, <2>6, <2>7
  <2>9. QED BY <2>8 DEF H
<1>6. ASSUME NEW m \in net, m.kind # "recent", updateFromTorrentGet(m)
      PROVE  Cardinality(Gone(id)') <= lost'
  <2>1. net \ {m} \subseteq net' /\ UNCHANGED <<since, now, polled, lost>>
    BY <1>6, UpdateEffect
  <2>2. QED BY <1>2, <1>6, <2>1 DEF Gone, Base
<1>7. CASE Polls
  <2>1. Request("recent", {}) \in net' /\ Request("recent", {}).kind = "recent"
        /\ Request("recent", {}).sent = now
    BY <1>1, <1>7, RequestType DEF Polls
  <2>2. net \subseteq net' /\ UNCHANGED <<since, now, lost>>
    BY <1>7 DEF Polls
  <2>3. Gone(id)' \subseteq Gone(id)
    <3>1. SUFFICES ASSUME NEW q \in Gone(id)'
                   PROVE  q \in Gone(id)
      OBVIOUS
    <3>2. q \in Base(id) + MaxDelay + 1 .. now /\ ~\E m \in net' : m.kind = "recent" /\ m.sent = q
      BY <2>2, <3>1 DEF Gone, Base
    <3>3. q # now
      BY <2>1, <3>2
    <3>4. q < now
      BY <1>1, <3>2, <3>3
    <3>5. QED BY <2>2, <3>2, <3>4 DEF Gone
  <2>4. QED BY <1>2, <2>2, <2>3 DEF Base
<1>8. CASE Ticks
  <2>1. polled /\ ~polled' /\ now' = now + 1 /\ UNCHANGED <<since, net, lost>>
    BY <1>8 DEF Ticks
  <2>2. \A q \in Gone(id)' : q \in Base(id) + MaxDelay + 1 .. now + 1 /\ q < now + 1
    BY <2>1 DEF Gone, Base
  <2>3. Gone(id)' \subseteq Gone(id)
    <3>1. SUFFICES ASSUME NEW q \in Gone(id)'
                   PROVE  q \in Gone(id)
      OBVIOUS
    <3>2. q \in Base(id) + MaxDelay + 1 .. now
      BY <1>1, <2>2
    <3>3. ~\E m \in net : m.kind = "recent" /\ m.sent = q
      BY <2>1 DEF Gone
    <3>4. QED BY <2>1, <3>2, <3>3 DEF Gone
  <2>4. CASE now > Base(id) + MaxDelay
    BY <1>2, <2>1, <2>3, <2>4
  <2>5. CASE ~(now > Base(id) + MaxDelay)
    <3>1. Gone(id)' = {}
      BY <1>1, <2>2, <2>5
    <3>2. Cardinality(Gone(id)') = 0
      BY <3>1, FS_EmptySet
    <3>3. lost' \in Nat
      BY <2>1 DEF ViewTypes
    <3>4. QED BY <3>2, <3>3
  <2>6. QED BY <2>4, <2>5
<1>9. CASE UNCHANGED <<server, since, now, net, polled, torrents, lost, unnamed, listLost, slow>>
  BY <1>2, <1>9 DEF Gone, Base
<1>10. QED BY <1>3, <1>4, <1>5, <1>6, <1>7, <1>8, <1>9 DEF NoPollArrives

\* An answer that agrees with the server leaves a torrent in view, and one that tells of it
\* brings it there.
LEMMA UpdatedView ==
  ASSUME ViewTypes, MessageInv, PageInv, NEW m \in net, updateFromTorrentGet(m), NEW id \in Id,
         Agrees(m, id), InView(id) \/ Tells(m, id)
  PROVE  InView(id)'
<1> DEFINE told == m.torrents
<1>1. /\ DOMAIN torrents' = (Has \cup DOMAIN told) \ m.removed
      /\ \A i \in DOMAIN torrents' :
           torrents'[i] = IF i \notin DOMAIN told THEN torrents[i]
                          ELSE IF i \in Has THEN Refreshed(torrents[i], told[i]) ELSE told[i]
      /\ server' = server
  BY UpdateEffect
<1>2. \A i \in DOMAIN told \cap DOMAIN torrents' : torrents'[i].status = told[i].status
  <2>1. \A i \in DOMAIN told : told[i] \in Known
    BY PageElement DEF ViewTypes, Message
  <2>2. \A old, new \in Known : Refreshed(old, new).status = new.status
    BY DEF Refreshed, Known
  <2>3. \A i \in Has : torrents[i] \in Known
    BY PageElement DEF ViewTypes, Has
  <2> HIDE DEF told
  <2>4. QED BY <1>1, <2>1, <2>2, <2>3
<1>3. /\ id \in Has' <=> (id \in Has \/ id \in DOMAIN told) /\ id \notin m.removed
      /\ id \in DOMAIN told => id \in Present /\ told[id].status = server[id].status
      /\ id \in m.removed => server[id].there = "removed"
      /\ Present' = Present
  BY <1>1 DEF Agrees, Has, Present
<1>4. id \in Present => id \notin m.removed
  BY <1>3 DEF Present
<1>5. id \in Has' =>
        /\ id \in DOMAIN told => torrents'[id].status = told[id].status
        /\ id \notin DOMAIN told => torrents'[id] = torrents[id]
  BY <1>1, <1>2 DEF Has
<1>6. CASE InView(id)
  <2>1. id \in Has' <=> id \in Present'
    BY <1>3, <1>4, <1>6 DEF InView
  <2>2. id \in Present' => torrents'[id].status = server'[id].status
    BY <1>1, <1>3, <1>5, <1>6, <2>1 DEF InView
  <2>3. QED BY <2>1, <2>2 DEF InView
<1>7. CASE Tells(m, id)
  <2>1. server[id].there \in {"absent", "present", "removed"}
    BY DEF ViewTypes, Entry
  <2>2. server[id].there = "absent" => id \notin Has /\ id \notin DOMAIN told
    BY DEF PageInv, MessageInv
  <2>3. id \in Has' <=> id \in Present'
    BY <1>3, <1>4, <1>7, <2>1, <2>2 DEF Tells, Present
  <2>4. id \in Present' => torrents'[id].status = server'[id].status
    BY <1>1, <1>3, <1>5, <1>7, <2>3 DEF Tells
  <2>5. QED BY <2>3, <2>4 DEF InView
<1>8. QED BY <1>6, <1>7

LEMMA FreshStep ==
  ASSUME ViewTypes, MessageInv, PageInv, LateInv, FreshInv, [Next]_vars
  PROVE  FreshInv'
<1>1. now \in Nat /\ (\A id \in Id : since[id] \in Int) /\ Window \in Nat /\ MaxDelay \in Nat
      /\ \A m \in net : m \in Message /\ m.sent \in Nat
  BY Bounds DEF ViewTypes, Message
<1>2. SUFFICES ASSUME NEW id \in Id, Timely', Timely, since'[id] >= 0, now' > since'[id] + MaxDelay
               PROVE  InView(id)' \/ Cardinality(Gone(id)') <= lost'
  BY TimelyBefore DEF FreshInv
<1>3. Base(id)' = since'[id] /\ (since[id] >= 0 => Base(id) = since[id])
  BY <1>1, <1>2, TypesStep DEF Base, ViewTypes
<1>4. ASSUME NoPollArrives, InView(id) => InView(id)', since[id] = since'[id]
      PROVE  InView(id)' \/ Cardinality(Gone(id)') <= lost'
  BY <1>2, <1>3, <1>4, FewAreGone DEF FreshInv
<1>5. ASSUME NEW i \in Id, Changes(i)
      PROVE  InView(id)' \/ Cardinality(Gone(id)') <= lost'
  <2>1. id # i
    BY <1>1, <1>2, <1>5 DEF Changes
  <2>2. since'[id] = since[id] /\ (InView(id) => InView(id)')
    BY <1>5, <2>1 DEF InView, Has, Present, Changes
  <2>3. NoPollArrives
    BY <1>5 DEF NoPollArrives
  <2>4. QED BY <1>4, <2>2, <2>3
<1>6. ASSUME NoPollArrives, UNCHANGED <<server, torrents, since>>
      PROVE  InView(id)' \/ Cardinality(Gone(id)') <= lost'
  <2>1. InView(id) => InView(id)'
    BY <1>6 DEF InView, Has, Present
  <2>2. QED BY <1>4, <1>6, <2>1
<1>7. ASSUME NEW m \in net, updateFromTorrentGet(m)
      PROVE  InView(id)' \/ Cardinality(Gone(id)') <= lost'
  <2>1. m.answered /\ UNCHANGED <<since, now, slow>>
    BY <1>7, UpdateEffect
  <2>2. m.sent > since[id] /\ now > since[id] + MaxDelay /\ since[id] >= 0
    BY <1>1, <1>2, <2>1 DEF MessageInv, Timely
  <2>3. Agrees(m, id)
    BY <2>1, <2>2 DEF LateInv
  <2>4. InView(id) => InView(id)'
    BY <1>7, <2>3, UpdatedView
  <2>5. CASE InView(id) \/ m.kind # "recent"
    <3>1. CASE m.kind # "recent"
      BY <1>4, <1>7, <2>1, <2>4, <3>1 DEF NoPollArrives
    <3>2. QED BY <2>4, <2>5, <3>1
  <2>6. CASE ~InView(id) /\ m.kind = "recent"
    <3>1. Cardinality(Gone(id)) <= lost
      BY <1>2, <2>2, <2>6 DEF FreshInv
    <3>2. Cardinality(Gone(id)) \in Nat /\ lost \in Nat
      BY GoneFinite, FS_CardinalityType DEF ViewTypes
    <3>3. ~(now > Base(id) + Window)
      BY <1>2, <3>1, <3>2, Overdue
    <3>4. now <= since[id] + Window
      BY <1>1, <1>3, <2>2, <3>3
    <3>5. Tells(m, id)
      BY <2>1, <2>2, <2>6, <3>4 DEF LateInv
    <3>6. QED BY <1>7, <2>3, <3>5, UpdatedView
  <2>7. QED BY <2>5, <2>6
<1>8. (\E m \in net, a \in Message : IsAnswered(m, a)) \/ (\E m \in net : IsLost(m)) \/ Polls \/ Ticks
        \/ UNCHANGED <<server, since, now, net, polled, torrents, lost, unnamed, listLost, slow>>
      => NoPollArrives /\ UNCHANGED <<server, torrents, since>>
  BY DEF NoPollArrives, IsAnswered, IsLost, Polls, Ticks
<1>9. QED BY <1>5, <1>6, <1>7, <1>8, StepKinds

LEMMA IdleStep ==
  ASSUME ViewTypes, MessageInv, PageInv, LateInv, IdleInv, [Next]_vars
  PROVE  IdleInv'
<1>1. now \in Nat /\ (\A id \in Id : since[id] \in Int)
      /\ \A m \in net : m \in Message /\ m.sent \in Nat
  BY DEF ViewTypes, Message
<1>2. ASSUME NEW i \in Id, Changes(i)
      PROVE  IdleInv'
  <2>1. ASSUME NEW id \in Id, since'[id] < 0
        PROVE  /\ since[id] < 0 /\ server'[id] = server[id]
               /\ InView(id) => InView(id)'
               /\ id \in Present' => id \in Present
    <3>1. id # i
      BY <1>1, <1>2, <2>1 DEF Changes
    <3>2. server'[id] = server[id] /\ since'[id] = since[id] /\ torrents' = torrents
      BY <1>2, <3>1 DEF Changes
    <3>3. id \in Present' <=> id \in Present
      BY <3>2 DEF Present
    <3>4. QED BY <2>1, <3>2, <3>3 DEF InView, Has
  <2>2. net' = net /\ listLost' = listLost
    BY <1>2 DEF Changes
  <2>3. \A m \in net' : m.kind = "all" => m.sent = 0 /\ m.ids = Id
    BY <2>2 DEF IdleInv
  <2>4. ASSUME NEW id \in Id, since'[id] < 0
        PROVE  /\ server'[id].there # "removed"
               /\ listLost' \/ InView(id)' \/ \E m \in net' : m.kind = "all"
               /\ \A m \in net' : m.kind = "all" /\ m.answered /\ id \in Present' => id \in DOMAIN m.torrents
    <3>1. /\ since[id] < 0 /\ server'[id] = server[id]
          /\ InView(id) => InView(id)'
          /\ id \in Present' => id \in Present
      BY <2>1, <2>4, Zenon
    <3>2. /\ server[id].there # "removed"
          /\ listLost \/ InView(id) \/ \E m \in net : m.kind = "all"
          /\ \A m \in net : m.kind = "all" /\ m.answered /\ id \in Present => id \in DOMAIN m.torrents
      BY <3>1 DEF IdleInv
    <3>3. QED BY <2>2, <3>1, <3>2
  <2>5. QED BY <2>3, <2>4 DEF IdleInv
<1>3. ASSUME NEW m \in net, NEW a \in Message, IsAnswered(m, a)
      PROVE  IdleInv'
  <2>1. net' = (net \ {m}) \cup {a} /\ a.kind = m.kind /\ a.ids = m.ids /\ a.sent = m.sent
        /\ (m.kind # "recent" => DOMAIN a.torrents = m.ids \cap Present)
    BY <1>3 DEF IsAnswered, Answers
  <2>2. UNCHANGED <<server, since, torrents, listLost>>
    BY <1>3 DEF IsAnswered
  <2>3. \A id \in Id : (InView(id) => InView(id)') /\ (id \in Present' <=> id \in Present)
    BY <2>2 DEF InView, Has, Present
  <2>4. \A n \in net' : n.kind = "all" => n.sent = 0 /\ n.ids = Id
    BY <2>1 DEF IdleInv
  <2>5. (\E n \in net : n.kind = "all") => \E n \in net' : n.kind = "all"
    BY <2>1
  <2>6. \A n \in net', id \in Id :
          since[id] < 0 /\ n.kind = "all" /\ n.answered /\ id \in Present => id \in DOMAIN n.torrents
    BY <2>1 DEF IdleInv
  <2>7. QED BY <2>2, <2>3, <2>4, <2>5, <2>6 DEF IdleInv
<1>4. ASSUME NEW m \in net, IsLost(m)
      PROVE  IdleInv'
  <2>1. net' = net \ {m} /\ listLost' = (listLost \/ m.kind = "all")
        /\ UNCHANGED <<server, since, torrents>>
    BY <1>4 DEF IsLost
  <2>2. \A id \in Id : (InView(id) => InView(id)') /\ (id \in Present' <=> id \in Present)
    BY <2>1 DEF InView, Has, Present
  <2>3. (\E n \in net : n.kind = "all") => listLost' \/ \E n \in net' : n.kind = "all"
    BY <2>1
  <2>4. QED BY <2>1, <2>2, <2>3 DEF IdleInv
<1>5. ASSUME NEW m \in net, updateFromTorrentGet(m)
      PROVE  IdleInv'
  <2>1. /\ m.answered /\ UNCHANGED <<server, since, listLost>>
        /\ net \ {m} \subseteq net'
        /\ \A n \in net' : n \in net \/ n = Request("info", NeedInfo(m.torrents))
        /\ NeedInfo(m.torrents) \in SUBSET Id
    BY <1>5, UpdateEffect
  <2>2. Request("info", NeedInfo(m.torrents)).kind # "all"
    BY <1>1, <2>1, RequestType
  <2>3. \A n \in net' : n.kind = "all" => n \in net
    BY <2>1, <2>2
  <2>4. Present' = Present
    BY <2>1 DEF Present
  <2>5. ASSUME NEW id \in Id, since[id] < 0
        PROVE  listLost' \/ InView(id)' \/ \E n \in net' : n.kind = "all"
    <3>1. Agrees(m, id)
      BY <1>1, <2>1, <2>5 DEF LateInv
    <3>2. CASE InView(id)
      BY <1>5, <3>1, <3>2, UpdatedView
    <3>3. CASE m.kind = "all"
      <4>1. Tells(m, id)
        BY <2>1, <2>5, <3>3 DEF IdleInv, Tells
      <4>2. QED BY <1>5, <3>1, <4>1, UpdatedView
    <3>4. CASE ~InView(id) /\ m.kind # "all"
      BY <2>1, <2>5, <3>4 DEF IdleInv
    <3>5. QED BY <3>2, <3>3, <3>4
  <2>6. QED BY <2>1, <2>3, <2>4, <2>5 DEF IdleInv
<1>6. ASSUME net \subseteq net', \A n \in net' : n.kind = "all" => n \in net,
             UNCHANGED <<server, since, torrents, listLost>>
      PROVE  IdleInv'
  <2>1. \A id \in Id : (InView(id) => InView(id)') /\ (id \in Present' <=> id \in Present)
    BY <1>6 DEF InView, Has, Present
  <2>2. QED BY <1>6, <2>1 DEF IdleInv
<1>7. CASE Polls
  <2>1. Request("recent", {}).kind = "recent"
    BY <1>1, RequestType
  <2>2. QED BY <1>6, <1>7, <2>1 DEF Polls
<1>8. CASE Ticks
  BY <1>6, <1>8 DEF Ticks
<1>9. CASE UNCHANGED <<server, since, now, net, polled, torrents, lost, unnamed, listLost, slow>>
  BY <1>6, <1>9
<1>10. QED BY <1>2, <1>3, <1>4, <1>5, <1>7, <1>8, <1>9, StepKinds

LEMMA InitFresh ==
  ASSUME Init
  PROVE  ViewTypes /\ MessageInv /\ PageInv /\ LateInv /\ FreshInv /\ IdleInv
<1>1. ViewTypes /\ MessageInv /\ PageInv /\ net = {Request("all", Id)}
  BY InitView
<1> DEFINE ids == Id
<1>2. ~Request("all", ids).answered /\ Request("all", ids).sent = now
      /\ Request("all", ids).ids = ids /\ Request("all", ids).kind = "all"
  <2>1. now \in Nat /\ ids \in SUBSET Id
    BY <1>1 DEF ViewTypes
  <2> HIDE DEF ids
  <2>2. QED BY <2>1, RequestType
<1>3. LateInv
  BY <1>1, <1>2 DEF LateInv
<1>4. FreshInv
  <2>1. now = 0 /\ \A id \in Id : since[id] <= 0 /\ since[id] \in Int
    BY InitSince DEF Init
  <2>2. QED BY <2>1, Bounds DEF FreshInv
<1>5. IdleInv
  <2>1. \A id \in Id : server[id].there # "removed"
    BY DEF Init
  <2>2. now = 0
    BY DEF Init
  <2>3. QED BY <1>1, <1>2, <2>1, <2>2 DEF IdleInv
<1>6. QED BY <1>1, <1>3, <1>4, <1>5

\* The request for all is no more under way once the page is older than MaxDelay.
LEMMA IdleIsInView ==
  ASSUME ViewTypes, MessageInv, IdleInv, Timely, NEW id \in Id, since[id] < 0, ~listLost,
         now > MaxDelay
  PROVE  InView(id)
<1>1. \A m \in net : m.kind # "all"
  BY Bounds DEF MessageInv, IdleInv, Timely, ViewTypes
<1>2. QED BY <1>1 DEF IdleInv

LEMMA FreshIsInView ==
  ASSUME ViewTypes, MessageInv, FreshInv, IdleInv, Timely, NEW id \in Id, Settled(id)
  PROVE  InView(id)
<1>1. now \in Nat /\ since[id] \in Int /\ lost \in Nat /\ Window > MaxDelay
  BY Bounds DEF ViewTypes, Timely
<1>2. CASE since[id] < 0
  BY <1>1, <1>2, IdleIsInView, Bounds DEF Settled
<1>3. CASE since[id] >= 0
  <2>1. now > since[id] + MaxDelay /\ now > Base(id) + Window
    BY <1>1, <1>3, Bounds, BaseIs DEF Settled
  <2>2. Cardinality(Gone(id)) > lost
    BY <2>1, Overdue
  <2>3. Cardinality(Gone(id)) \in Nat /\ lost \in Nat
    BY GoneFinite, FS_CardinalityType DEF ViewTypes
  <2>4. QED BY <1>3, <2>1, <2>2, <2>3 DEF FreshInv
<1>4. QED BY <1>1, <1>2, <1>3

\* A change at the server is on the page before the server stops telling of it, and a torrent
\* that does not change is on it unless the request for all was lost, whatever answers are late,
\* overtaken or lost, as long as what the page can rely on (Timely) holds.
THEOREM ViewComesFresh == Spec => []ViewIsFresh
<1> DEFINE IInv == ViewTypes /\ MessageInv /\ PageInv /\ LateInv /\ FreshInv /\ IdleInv
<1>1. Init => IInv
  BY InitFresh
<1>2. IInv /\ [Next]_vars => IInv'
  BY TypesStep, MessageStep, PageStep, LateStep, FreshStep, IdleStep
<1>3. IInv => ViewIsFresh
  BY FreshIsInView DEF ViewIsFresh
<1> HIDE DEF IInv
<1>4. QED BY <1>1, <1>2, <1>3, PTL DEF Spec

-----------------------------------------------------------------------------
(* Sorting *)

LEMMA LeastNumber ==
  ASSUME NEW T, T \subseteq Nat, T # {}
  PROVE  \E x \in T : \A y \in T : x <= y
<1> DEFINE R == {ss \in Nat \X Nat : ss[1] < ss[2]}
<1>1. IsWellFoundedOn(R, Nat)
  <2>1. R = OpToRel(<, Nat)
    BY Zenon DEF OpToRel
  <2>2. QED BY <2>1, NatLessThanWellFounded, Zenon
<1>2. \A x, y \in T : <<y, x>> \in R <=> y < x
  OBVIOUS
<1>3. \E x \in T : \A y \in T : ~(y < x)
  <2> HIDE DEF R
  <2>1. PICK x \in T : \A y \in T : ~(<<y, x>> \in R)
    BY <1>1, WFMin
  <2>2. QED BY <1>2, <2>1, Zenon
<1>4. QED BY <1>3

\* A function of the numbers up to n into them that grows is the identity.
LEMMA GrowingIsIdentity ==
  ASSUME NEW n \in Nat, NEW f \in [1..n -> 1..n], \A i, j \in 1..n : i < j => f[i] < f[j]
  PROVE  \A k \in 1..n : f[k] = k
<1>1. ASSUME NEW k \in 1..n, f[k] < k
      PROVE  FALSE
  <2> DEFINE Wrong == {i \in 1..n : f[i] < i}
  <2>1. Wrong \subseteq Nat /\ Wrong # {}
    BY <1>1
  <2> HIDE DEF Wrong
  <2>2. PICK i \in Wrong : \A j \in Wrong : i <= j
    BY <2>1, LeastNumber
  <2>3. i \in 1..n /\ f[i] < i
    BY <2>2 DEF Wrong
  <2>4. f[i] \in 1..n /\ f[f[i]] < f[i]
    BY <2>3
  <2>5. f[i] \in Wrong
    BY <2>4 DEF Wrong
  <2>6. QED BY <2>2, <2>3, <2>4, <2>5
<1>2. ASSUME NEW k \in 1..n, f[k] > k
      PROVE  FALSE
  <2> DEFINE Wrong == {d \in 0..n - 1 : f[n - d] > n - d}
  <2>1. Wrong \subseteq Nat /\ n - k \in Wrong
    BY <1>2
  <2> HIDE DEF Wrong
  <2>2. PICK d \in Wrong : \A e \in Wrong : d <= e
    BY <2>1, LeastNumber
  <2>3. d \in 0..n - 1 /\ f[n - d] > n - d
    BY <2>2 DEF Wrong
  <2> DEFINE i == n - d
  <2>4. i \in 1..n /\ f[i] \in 1..n /\ f[i] > i
    BY <2>3
  <2>5. f[f[i]] > f[i]
    BY <2>4
  <2>6. n - f[i] \in 0..n - 1 /\ n - (n - f[i]) = f[i]
    BY <2>4
  <2>7. n - f[i] \in Wrong
    BY <2>4, <2>5, <2>6 DEF Wrong
  <2>8. QED BY <2>2, <2>3, <2>4, <2>7
<1>3. QED BY <1>1, <1>2

\* A page, whatever it is for, orders the torrents it has.
Orders(ts, ids) == ids \subseteq Id /\ \A id \in ids : ts[id].status \in Status

LEMMA BeforeOrders ==
  ASSUME NEW ts, NEW ids, Orders(ts, ids)
  PROVE  /\ \A a \in ids : ~Before(ts, a, a)
         /\ \A a, b \in ids : a = b \/ Before(ts, a, b) \/ Before(ts, b, a)
         /\ \A a, b, c \in ids : Before(ts, a, b) /\ Before(ts, b, c) => Before(ts, a, c)
<1>1. \A a \in ids : a \in Int /\ ts[a].status \in {0, 4}
  <2>1. \A a \in Id : a \in Int
    BY Bounds DEF Id
  <2>2. Status = {0, 4}
    BY DEF Status, Stopped, Download
  <2>3. QED BY <2>1, <2>2 DEF Orders
<1>2. QED BY <1>1 DEF Before

LEMMA SomeIdsFinite ==
  ASSUME NEW ids, ids \subseteq Id
  PROVE  IsFiniteSet(ids) /\ Cardinality(ids) \in Nat
<1>1. IsFiniteSet(Id)
  BY Bounds, FS_Interval DEF Id
<1>2. QED BY <1>1, FS_Subset, FS_CardinalityType

\* The place of a torrent among others.
UpTo(ts, ids, id) == {x \in ids : x = id \/ Before(ts, x, id)}
Place(ts, ids, id) == Cardinality(UpTo(ts, ids, id))

LEMMA PlaceGrows ==
  ASSUME NEW ts, NEW ids, Orders(ts, ids), NEW a \in ids, NEW b \in ids, Before(ts, a, b)
  PROVE  Place(ts, ids, a) < Place(ts, ids, b)
<1> DEFINE A == UpTo(ts, ids, a)
           B == UpTo(ts, ids, b)
<1>1. A \in SUBSET B /\ b \in B /\ b \notin A
  BY BeforeOrders DEF UpTo
<1>2. IsFiniteSet(B)
  BY SomeIdsFinite DEF UpTo, Orders
<1> HIDE DEF A, B
<1>3. IsFiniteSet(A) /\ Cardinality(A) <= Cardinality(B) /\ Cardinality(A) # Cardinality(B)
  BY <1>1, <1>2, FS_Subset
<1>4. Cardinality(A) \in Nat /\ Cardinality(B) \in Nat
  BY <1>2, <1>3, FS_CardinalityType
<1>5. Cardinality(A) < Cardinality(B)
  BY <1>3, <1>4
<1>6. QED BY <1>5 DEF A, B, Place

LEMMA PlacesNumber ==
  ASSUME NEW ts, NEW ids, Orders(ts, ids)
  PROVE  /\ \A a \in ids : Place(ts, ids, a) \in 1..Cardinality(ids)
         /\ \A a, b \in ids : Place(ts, ids, a) = Place(ts, ids, b) => a = b
         /\ \A k \in 1..Cardinality(ids) : \E a \in ids : Place(ts, ids, a) = k
<1> DEFINE n == Cardinality(ids)
<1>1. IsFiniteSet(ids) /\ n \in Nat
  BY SomeIdsFinite DEF Orders
<1>2. ASSUME NEW a \in ids
      PROVE  Place(ts, ids, a) \in 1..n
  <2> DEFINE A == UpTo(ts, ids, a)
  <2>1. A \in SUBSET ids /\ a \in A
    BY DEF UpTo
  <2> HIDE DEF A
  <2>2. IsFiniteSet(A) /\ Cardinality(A) <= n
    BY <1>1, <2>1, FS_Subset
  <2>3. Cardinality(A) \in Nat /\ Cardinality(A) # 0
    BY <2>1, <2>2, FS_CardinalityType, FS_EmptySet
  <2>4. Cardinality(A) \in 1..n
    BY <1>1, <2>2, <2>3
  <2>5. QED BY <2>4 DEF A, Place
<1>3. ASSUME NEW a \in ids, NEW b \in ids, Place(ts, ids, a) = Place(ts, ids, b)
      PROVE  a = b
  <2>1. a = b \/ Before(ts, a, b) \/ Before(ts, b, a)
    BY BeforeOrders
  <2>2. Place(ts, ids, a) \in 1..n
    BY <1>2
  <2>3. ~(Place(ts, ids, a) < Place(ts, ids, b)) /\ ~(Place(ts, ids, b) < Place(ts, ids, a))
    BY <1>1, <1>3, <2>2
  <2>4. QED BY <2>1, <2>3, PlaceGrows
<1>4. \A k \in 1..n : \E a \in ids : Place(ts, ids, a) = k
  <2> DEFINE f == [a \in ids |-> Place(ts, ids, a)]
  <2>1. f \in [ids -> 1..n] /\ \A a, b \in ids : f[a] = f[b] => a = b
    BY <1>2, <1>3
  <2>2. \A a \in ids : f[a] = Place(ts, ids, a)
    OBVIOUS
  <2> HIDE DEF f
  <2>3. f \in Injection(ids, 1..n)
    BY <2>1 DEF Injection, IsInjective
  <2>4. IsFiniteSet(1..n) /\ Cardinality(1..n) = n
    BY <1>1, FS_Interval
  <2> DEFINE top == 1..n
  <2>5. f \in Injection(ids, top) /\ IsFiniteSet(top) /\ Cardinality(ids) = Cardinality(top)
    BY <2>3, <2>4
  <2> HIDE DEF top
  <2>6. f \in Surjection(ids, top)
    BY <2>5, FS_Injection
  <2>7. \A k \in top : \E a \in ids : f[a] = k
    BY <2>6, Zenon DEF Surjection
  <2>8. QED BY <2>2, <2>7 DEF top
<1>5. QED BY <1>2, <1>3, <1>4

IsSorting(ts, ids, q) ==
  /\ q \in [1..Cardinality(ids) -> ids]
  /\ \A i, j \in 1..Cardinality(ids) : i < j => Before(ts, q[i], q[j])

\* There is a way to sort: each torrent at its place.
LEMMA SortedIs ==
  ASSUME NEW ts, NEW ids, Orders(ts, ids)
  PROVE  IsSorting(ts, ids, Sorted(ts, ids))
<1> DEFINE n == Cardinality(ids)
           q == [k \in 1..n |-> CHOOSE a \in ids : Place(ts, ids, a) = k]
<1>1. n \in Nat
  BY SomeIdsFinite DEF Orders
<1>2. \A k \in 1..n : q[k] \in ids /\ Place(ts, ids, q[k]) = k
  BY PlacesNumber
<1>3. q \in [1..n -> ids]
  BY <1>2
<1> HIDE DEF q
<1>4. ASSUME NEW i \in 1..n, NEW j \in 1..n, i < j
      PROVE  Before(ts, q[i], q[j])
  <2>1. q[i] \in ids /\ q[j] \in ids /\ Place(ts, ids, q[i]) = i /\ Place(ts, ids, q[j]) = j
    BY <1>2
  <2>2. q[i] # q[j] /\ ~(Place(ts, ids, q[j]) < Place(ts, ids, q[i]))
    BY <1>1, <1>4, <2>1
  <2>3. QED BY <2>1, <2>2, BeforeOrders, PlaceGrows
<1>5. IsSorting(ts, ids, q)
  BY <1>3, <1>4 DEF IsSorting
<1>6. \E p \in [1..Cardinality(ids) -> ids] :
        \A i, j \in 1..Cardinality(ids) : i < j => Before(ts, p[i], p[j])
  BY <1>5 DEF IsSorting
<1>7. QED BY <1>6, Zenon DEF Sorted, IsSorting

\* There is no other: what is sorted has each torrent at its place.
LEMMA SortingPlaces ==
  ASSUME NEW ts, NEW ids, Orders(ts, ids), NEW q, IsSorting(ts, ids, q)
  PROVE  /\ \A k \in 1..Cardinality(ids) : q[k] \in ids /\ Place(ts, ids, q[k]) = k
         /\ \A a \in ids : \E k \in 1..Cardinality(ids) : q[k] = a
<1> DEFINE n == Cardinality(ids)
           f == [k \in 1..n |-> Place(ts, ids, q[k])]
<1>1. n \in Nat
  BY SomeIdsFinite DEF Orders
<1>2. \A k \in 1..n : q[k] \in ids
  BY DEF IsSorting
<1>3. f \in [1..n -> 1..n]
  BY <1>2, PlacesNumber
<1>4. \A i, j \in 1..n : i < j => f[i] < f[j]
  BY <1>2, PlaceGrows DEF IsSorting
<1>5. \A k \in 1..n : f[k] = Place(ts, ids, q[k])
  OBVIOUS
<1> HIDE DEF f
<1>6. \A k \in 1..n : f[k] = k
  BY <1>1, <1>3, <1>4, GrowingIsIdentity
<1>7. \A k \in 1..n : q[k] \in ids /\ Place(ts, ids, q[k]) = k
  BY <1>2, <1>5, <1>6
<1>8. ASSUME NEW a \in ids
      PROVE  \E k \in 1..n : q[k] = a
  <2>1. Place(ts, ids, a) \in 1..n
    BY PlacesNumber
  <2>2. q[Place(ts, ids, a)] \in ids /\ Place(ts, ids, q[Place(ts, ids, a)]) = Place(ts, ids, a)
    BY <1>7, <2>1
  <2>3. q[Place(ts, ids, a)] = a
    BY <2>2, PlacesNumber
  <2>4. QED BY <2>1, <2>3
<1>9. QED BY <1>7, <1>8

\* A sequence in which each torrent is before all that follow.
Increasing(ts, s) == \A i, j \in DOMAIN s : i < j => Before(ts, s[i], s[j])

LEMMA IncreasingIsSorted ==
  ASSUME NEW ts, NEW s \in Seq(Id), Orders(ts, ToSet(s)), Increasing(ts, s)
  PROVE  /\ s = Sorted(ts, ToSet(s))
         /\ Cardinality(ToSet(s)) = Len(s)
         /\ \A i, j \in DOMAIN s : s[i] = s[j] => i = j
<1> DEFINE ids == ToSet(s)
           n == Len(s)
<1>1. n \in Nat /\ DOMAIN s = 1..n
  OBVIOUS
<1>2. ids = {s[i] : i \in 1..n}
  BY <1>1 DEF ToSet
<1>3. ASSUME NEW i \in 1..n, NEW j \in 1..n, s[i] = s[j]
      PROVE  i = j
  <2>1. s[i] \in ids
    BY <1>2
  <2>2. ~Before(ts, s[i], s[i])
    BY <2>1, BeforeOrders
  <2>3. i < j \/ j < i \/ i = j
    BY <1>1
  <2>4. QED BY <1>1, <1>3, <2>2, <2>3 DEF Increasing
<1>4. Cardinality(ids) = n
  <2> DEFINE top == 1..n
  <2>1. IsFiniteSet(top) /\ Cardinality(top) = n
    BY <1>1, FS_Interval
  <2>2. s \in [top -> ids]
    BY <1>1, <1>2
  <2>3. s \in Surjection(top, ids) /\ s \in Injection(top, ids)
    BY <1>2, <1>3, <2>2 DEF Surjection, Injection, IsInjective
  <2> HIDE DEF top, ids
  <2>4. Cardinality(ids) = Cardinality(top)
    BY <2>1, <2>3, FS_Surjection
  <2>5. QED BY <2>1, <2>4
<1>5. IsSorting(ts, ids, s)
  <2>1. s \in [1..n -> ids]
    BY <1>1, <1>2
  <2>2. \A i, j \in 1..n : i < j => Before(ts, s[i], s[j])
    BY <1>1 DEF Increasing
  <2> HIDE DEF ids, n
  <2>3. QED BY <1>4, <2>1, <2>2 DEF IsSorting
<1> DEFINE q == Sorted(ts, ids)
<1>6. IsSorting(ts, ids, q)
  BY SortedIs
<1> HIDE DEF q, ids
<1>7. \A k \in 1..n : s[k] = q[k]
  <2>1. SUFFICES ASSUME NEW k \in 1..n PROVE s[k] = q[k]
    OBVIOUS
  <2>2. s[k] \in ids /\ Place(ts, ids, s[k]) = k
    BY <1>4, <1>5, SortingPlaces DEF ids
  <2>3. q[k] \in ids /\ Place(ts, ids, q[k]) = k
    BY <1>4, <1>6, SortingPlaces DEF ids
  <2>4. QED BY <2>2, <2>3, PlacesNumber DEF ids
<1>8. s = q
  <2>1. q \in [1..n -> ids]
    BY <1>4, <1>6 DEF IsSorting
  <2>2. s = [k \in 1..n |-> s[k]] /\ q = [k \in 1..n |-> q[k]]
    BY <1>1, <2>1
  <2>3. QED BY <1>7, <2>2
<1>9. QED BY <1>1, <1>3, <1>4, <1>8 DEF q, ids

\* What sortRows gives is in order and has all it was given.
LEMMA SortedIncreases ==
  ASSUME NEW ts, NEW ids, Orders(ts, ids)
  PROVE  /\ Sorted(ts, ids) \in Seq(Id) /\ Len(Sorted(ts, ids)) = Cardinality(ids)
         /\ ToSet(Sorted(ts, ids)) = ids /\ Increasing(ts, Sorted(ts, ids))
<1> DEFINE q == Sorted(ts, ids)
           n == Cardinality(ids)
<1>1. n \in Nat /\ ids \subseteq Id
  BY SomeIdsFinite DEF Orders
<1>2. IsSorting(ts, ids, q)
  BY SortedIs
<1>3. \A a \in ids : \E k \in 1..n : q[k] = a
  BY <1>2, SortingPlaces
<1> HIDE DEF q, n
<1>4. q \in [1..n -> ids]
  BY <1>2 DEF IsSorting, n
<1>5. q \in Seq(Id) /\ Len(q) = n /\ DOMAIN q = 1..n
  BY <1>1, <1>4
<1>6. ToSet(q) = ids
  BY <1>3, <1>4, <1>5 DEF ToSet
<1>7. Increasing(ts, q)
  BY <1>2, <1>5 DEF IsSorting, Increasing, n
<1>8. QED BY <1>5, <1>6, <1>7 DEF q, n

-----------------------------------------------------------------------------
(* The merge and the clean rows, which the code computes in loops *)

LEMMA SubsetOrders ==
  ASSUME NEW ts, NEW ids, Orders(ts, ids), NEW sub, sub \subseteq ids
  PROVE  Orders(ts, sub)
BY DEF Orders

First(m, q) == <<m>> \o q
Final(q, m) == Append(q, m)

\* A torrent before all others comes first.
LEMMA Prepended ==
  ASSUME NEW ts, NEW ids, Orders(ts, ids), NEW m \in ids, \A x \in ids \ {m} : Before(ts, m, x)
  PROVE  Sorted(ts, ids) = First(m, Sorted(ts, ids \ {m}))
<1> DEFINE q == Sorted(ts, ids \ {m})
           s == <<m>> \o q
<1>1. q \in Seq(Id) /\ ToSet(q) = ids \ {m} /\ Increasing(ts, q)
  BY SubsetOrders, SortedIncreases
<1>2. m \in Id
  BY DEF Orders
<1> HIDE DEF q
<1>3. s \in Seq(Id) /\ Len(s) = Len(q) + 1 /\ s[1] = m
      /\ \A i \in 2..Len(s) : i - 1 \in 1..Len(q) /\ s[i] = q[i - 1]
  BY <1>1, <1>2
<1>4. ToSet(s) = ids
  <2>1. \A i \in 1..Len(q) : i + 1 \in 2..Len(s) /\ s[i + 1] = q[i]
    BY <1>1, <1>3
  <2>2. \A x \in ids \ {m} : \E i \in DOMAIN q : q[i] = x
    BY <1>1 DEF ToSet
  <2>3. \A i \in DOMAIN q : q[i] \in ids
    BY <1>1 DEF ToSet
  <2>4. DOMAIN q = 1..Len(q) /\ DOMAIN s = 1..Len(s) /\ Len(q) \in Nat
    BY <1>1, <1>3
  <2> HIDE DEF s
  <2>5. \A x \in ids : \E i \in DOMAIN s : s[i] = x
    <3>1. SUFFICES ASSUME NEW x \in ids, x # m PROVE \E i \in DOMAIN s : s[i] = x
      BY <1>3, <2>4
    <3>2. PICK i \in DOMAIN q : q[i] = x
      BY <2>2, <3>1
    <3>3. i + 1 \in DOMAIN s /\ s[i + 1] = x
      BY <1>3, <2>1, <2>4, <3>2
    <3>4. QED BY <3>3
  <2>6. \A i \in DOMAIN s : s[i] \in ids
    <3>1. SUFFICES ASSUME NEW i \in DOMAIN s, i # 1 PROVE s[i] \in ids
      BY <1>3
    <3>2. i \in 2..Len(s)
      BY <1>3, <2>4, <3>1
    <3>3. QED BY <1>3, <2>3, <2>4, <3>2
  <2>7. QED BY <2>5, <2>6 DEF ToSet
<1>5. Increasing(ts, s)
  <2>1. SUFFICES ASSUME NEW i \in DOMAIN s, NEW j \in DOMAIN s, i < j
                 PROVE  Before(ts, s[i], s[j])
    BY DEF Increasing
  <2>2. i \in 1..Len(s) /\ j \in 2..Len(s)
    BY <1>3, <2>1
  <2>3. s[j] = q[j - 1] /\ j - 1 \in DOMAIN q
    BY <1>1, <1>3, <2>2
  <2>4. q[j - 1] \in ids \ {m}
    BY <1>1, <2>3 DEF ToSet
  <2>5. CASE i = 1
    BY <1>3, <2>3, <2>4, <2>5
  <2>6. CASE i # 1
    <3>1. i \in 2..Len(s)
      BY <2>2, <2>6
    <3>2. s[i] = q[i - 1] /\ i - 1 \in DOMAIN q /\ i - 1 < j - 1
      BY <1>1, <1>3, <2>1, <2>2, <3>1
    <3>3. QED BY <1>1, <2>3, <3>2 DEF Increasing
  <2>7. QED BY <2>5, <2>6
<1> HIDE DEF s
<1>6. s = Sorted(ts, ToSet(s))
  BY <1>3, <1>4, <1>5, IncreasingIsSorted
<1>7. QED BY <1>4, <1>6 DEF s, q, First

\* A torrent after all others comes last.
LEMMA Appended ==
  ASSUME NEW ts, NEW ids, NEW m, Orders(ts, ids \cup {m}), \A x \in ids : Before(ts, x, m)
  PROVE  Sorted(ts, ids \cup {m}) = Final(Sorted(ts, ids), m)
<1> DEFINE q == Sorted(ts, ids)
           s == Append(q, m)
<1>1. q \in Seq(Id) /\ ToSet(q) = ids /\ Increasing(ts, q)
  BY SubsetOrders, SortedIncreases
<1>2. m \in Id
  BY DEF Orders
<1> HIDE DEF q
<1>3. s \in Seq(Id) /\ Len(s) = Len(q) + 1 /\ s[Len(q) + 1] = m /\ Len(q) \in Nat
      /\ \A i \in 1..Len(q) : s[i] = q[i]
  BY <1>1, <1>2
<1>4. DOMAIN q = 1..Len(q) /\ DOMAIN s = 1..Len(q) + 1
  BY <1>1, <1>3
<1> HIDE DEF s
<1>5. ToSet(s) = ids \cup {m}
  <2>1. \A i \in DOMAIN s : i \in DOMAIN q \/ i = Len(q) + 1
    BY <1>3, <1>4
  <2>2. \A i \in DOMAIN q : i \in DOMAIN s
    BY <1>3, <1>4
  <2>3. Len(q) + 1 \in DOMAIN s
    BY <1>3, <1>4
  <2>4. QED BY <1>1, <1>3, <1>4, <2>1, <2>2, <2>3 DEF ToSet
<1>6. Increasing(ts, s)
  <2>1. SUFFICES ASSUME NEW i \in DOMAIN s, NEW j \in DOMAIN s, i < j
                 PROVE  Before(ts, s[i], s[j])
    BY DEF Increasing
  <2>2. i \in DOMAIN q /\ s[i] = q[i] /\ q[i] \in ids
    BY <1>1, <1>3, <1>4, <2>1 DEF ToSet
  <2>3. CASE j = Len(q) + 1
    BY <1>3, <2>2, <2>3
  <2>4. CASE j # Len(q) + 1
    <3>1. j \in DOMAIN q
      BY <1>3, <1>4, <2>4
    <3>2. QED BY <1>1, <1>3, <1>4, <2>1, <2>2, <3>1 DEF Increasing
  <2>5. QED BY <2>3, <2>4
<1>7. s = Sorted(ts, ToSet(s))
  BY <1>3, <1>5, <1>6, IncreasingIsSorted
<1>8. QED BY <1>5, <1>7 DEF s, q, Final

\* What a sequence has from a place on.
From(s, i) == {s[k] : k \in i..Len(s)}

LEMMA SuffixSorted ==
  ASSUME NEW ts, NEW s \in Seq(Id), Orders(ts, ToSet(s)), Increasing(ts, s),
         NEW i \in 1..Len(s) + 1
  PROVE  SubSeq(s, i, Len(s)) = Sorted(ts, From(s, i))
<1> DEFINE u == SubSeq(s, i, Len(s))
<1>1. Len(s) \in Nat /\ DOMAIN s = 1..Len(s) /\ i \in Nat
  OBVIOUS
<1>2. u \in Seq(Id) /\ Len(u) = Len(s) - i + 1
      /\ \A k \in 1..Len(s) - i + 1 : u[k] = s[i + k - 1]
  BY <1>1
<1>3. DOMAIN u = 1..Len(s) - i + 1
  BY <1>2
<1> HIDE DEF u
<1>4. ToSet(u) = From(s, i)
  <2>1. \A k \in i..Len(s) : k - i + 1 \in DOMAIN u /\ u[k - i + 1] = s[k]
    BY <1>1, <1>2, <1>3
  <2>2. \A k \in DOMAIN u : i + k - 1 \in i..Len(s) /\ u[k] = s[i + k - 1]
    BY <1>1, <1>2, <1>3
  <2>3. \A k \in i..Len(s) : \E j \in DOMAIN u : u[j] = s[k]
    BY <2>1
  <2>4. \A k \in DOMAIN u : \E j \in i..Len(s) : s[j] = u[k]
    BY <2>2
  <2>5. \A x \in From(s, i) : x \in ToSet(u)
    BY <2>3 DEF ToSet, From
  <2>6. \A x \in ToSet(u) : x \in From(s, i)
    BY <2>4 DEF ToSet, From
  <2>7. QED BY <2>5, <2>6
<1>5. From(s, i) \subseteq ToSet(s)
  BY <1>1 DEF From, ToSet
<1>6. Increasing(ts, u)
  <2>1. SUFFICES ASSUME NEW j \in DOMAIN u, NEW k \in DOMAIN u, j < k
                 PROVE  Before(ts, u[j], u[k])
    BY DEF Increasing
  <2>2. /\ i + j - 1 \in DOMAIN s /\ i + k - 1 \in DOMAIN s /\ i + j - 1 < i + k - 1
        /\ u[j] = s[i + j - 1] /\ u[k] = s[i + k - 1]
    <3>1. j \in 1..Len(s) - i + 1 /\ k \in 1..Len(s) - i + 1
      BY <1>3
    <3>2. u[j] = s[i + j - 1] /\ u[k] = s[i + k - 1]
      BY <1>2, <3>1
    <3>3. i + j - 1 \in 1..Len(s) /\ i + k - 1 \in 1..Len(s) /\ i + j - 1 < i + k - 1
      BY <1>1, <2>1, <3>1
    <3>4. QED BY <1>1, <3>2, <3>3
  <2>3. \A a, b \in DOMAIN s : a < b => Before(ts, s[a], s[b])
    BY DEF Increasing
  <2> DEFINE a == i + j - 1
             b == i + k - 1
  <2>4. a \in DOMAIN s /\ b \in DOMAIN s /\ a < b
    BY <2>2
  <2> HIDE DEF a, b
  <2>5. Before(ts, s[a], s[b])
    BY <2>3, <2>4
  <2>6. QED BY <2>2, <2>5 DEF a, b
<1>7. Orders(ts, ToSet(u))
  BY <1>4, <1>5, SubsetOrders
<1>8. QED BY <1>2, <1>4, <1>6, <1>7, IncreasingIsSorted DEF u

\* The loop of the merge, as Merge has it.
Merges(ts, clean, fresh, g) ==
  g = [p \in (1..Len(clean) + 1) \X (1..Len(fresh) + 1) |->
         LET i == p[1] j == p[2]
         IN  IF i > Len(clean) THEN SubSeq(fresh, j, Len(fresh))
             ELSE IF j > Len(fresh) THEN SubSeq(clean, i, Len(clean))
             ELSE IF Before(ts, clean[i], fresh[j]) THEN <<clean[i]>> \o g[<<i + 1, j>>]
             ELSE <<fresh[j]>> \o g[<<i, j + 1>>]]

Mergeable(ts, clean, fresh) ==
  /\ clean \in Seq(Id) /\ fresh \in Seq(Id)
  /\ Increasing(ts, clean) /\ Increasing(ts, fresh)
  /\ Orders(ts, ToSet(clean) \cup ToSet(fresh))
  /\ ToSet(clean) \cap ToSet(fresh) = {}

\* What is to come at a pair of places, sorted.
Rest(ts, clean, fresh, i, j) == Sorted(ts, From(clean, i) \cup From(fresh, j))

LEMMA FromParts ==
  ASSUME NEW ts, NEW s \in Seq(Id), Orders(ts, ToSet(s)), Increasing(ts, s)
  PROVE  /\ From(s, 1) = ToSet(s) /\ From(s, Len(s) + 1) = {}
         /\ \A i \in 1..Len(s) + 1 : From(s, i) \subseteq ToSet(s)
         /\ \A i \in 1..Len(s) :
              /\ s[i] \in From(s, i) /\ From(s, i + 1) = From(s, i) \ {s[i]}
              /\ \A x \in From(s, i) \ {s[i]} : Before(ts, s[i], x)
<1>1. Len(s) \in Nat /\ DOMAIN s = 1..Len(s)
  OBVIOUS
<1>2. From(s, 1) = ToSet(s)
  BY <1>1 DEF From, ToSet
<1>3. From(s, Len(s) + 1) = {}
  BY <1>1 DEF From
<1>4. \A i \in 1..Len(s) + 1 : From(s, i) \subseteq ToSet(s)
  BY <1>1 DEF From, ToSet
<1>5. ASSUME NEW i \in 1..Len(s)
      PROVE  /\ s[i] \in From(s, i) /\ From(s, i + 1) = From(s, i) \ {s[i]}
             /\ \A x \in From(s, i) \ {s[i]} : Before(ts, s[i], x)
  <2>1. i..Len(s) = {i} \cup i + 1..Len(s) /\ i \notin i + 1..Len(s) /\ i..Len(s) \subseteq DOMAIN s
    BY <1>1
  <2>2. \A k \in i + 1..Len(s) : i < k
    BY <1>1
  <2>3. \A k \in i + 1..Len(s) : s[k] # s[i]
    BY <1>1, <2>1, <2>2, IncreasingIsSorted
  <2>4. \A k \in i + 1..Len(s) : Before(ts, s[i], s[k])
    BY <1>1, <2>1, <2>2 DEF Increasing
  <2>5. QED BY <2>1, <2>3, <2>4 DEF From
<1>6. QED BY <1>2, <1>3, <1>4, <1>5

LEMMA MergeStep ==
  ASSUME NEW ts, NEW clean, NEW fresh, Mergeable(ts, clean, fresh),
         NEW i \in 1..Len(clean) + 1, NEW j \in 1..Len(fresh) + 1
  PROVE  Rest(ts, clean, fresh, i, j) =
           IF i > Len(clean) THEN SubSeq(fresh, j, Len(fresh))
           ELSE IF j > Len(fresh) THEN SubSeq(clean, i, Len(clean))
           ELSE IF Before(ts, clean[i], fresh[j])
                THEN First(clean[i], Rest(ts, clean, fresh, i + 1, j))
                ELSE First(fresh[j], Rest(ts, clean, fresh, i, j + 1))
<1> DEFINE A == From(clean, i)
           B == From(fresh, j)
<1>1. /\ clean \in Seq(Id) /\ fresh \in Seq(Id)
      /\ Len(clean) \in Nat /\ Len(fresh) \in Nat
      /\ Orders(ts, ToSet(clean)) /\ Orders(ts, ToSet(fresh))
      /\ Increasing(ts, clean) /\ Increasing(ts, fresh)
  BY SubsetOrders DEF Mergeable
<1>2. A \subseteq ToSet(clean) /\ B \subseteq ToSet(fresh)
  BY <1>1, FromParts
<1>3. A \cap B = {} /\ Orders(ts, A \cup B)
  BY <1>2, SubsetOrders DEF Mergeable
<1>4. CASE i > Len(clean)
  <2>1. i = Len(clean) + 1
    BY <1>1, <1>4
  <2>2. A = {}
    BY <1>1, <2>1, FromParts
  <2>3. SubSeq(fresh, j, Len(fresh)) = Sorted(ts, B)
    BY <1>1, SuffixSorted
  <2>4. Rest(ts, clean, fresh, i, j) = Sorted(ts, B)
    BY <2>2 DEF Rest
  <2>5. QED BY <1>4, <2>3, <2>4
<1>5. CASE ~(i > Len(clean)) /\ j > Len(fresh)
  <2>1. j = Len(fresh) + 1
    BY <1>1, <1>5
  <2>2. B = {}
    BY <1>1, <2>1, FromParts
  <2>3. SubSeq(clean, i, Len(clean)) = Sorted(ts, A)
    BY <1>1, SuffixSorted
  <2>4. Rest(ts, clean, fresh, i, j) = Sorted(ts, A)
    BY <2>2 DEF Rest
  <2>5. QED BY <1>5, <2>3, <2>4
<1>6. CASE ~(i > Len(clean)) /\ ~(j > Len(fresh))
  <2>1. i \in 1..Len(clean) /\ j \in 1..Len(fresh)
    BY <1>1, <1>6
  <2>2. /\ clean[i] \in A /\ From(clean, i + 1) = A \ {clean[i]}
        /\ \A x \in A \ {clean[i]} : Before(ts, clean[i], x)
    BY <1>1, <2>1, FromParts
  <2>3. /\ fresh[j] \in B /\ From(fresh, j + 1) = B \ {fresh[j]}
        /\ \A x \in B \ {fresh[j]} : Before(ts, fresh[j], x)
    BY <1>1, <2>1, FromParts
  <2> HIDE DEF A, B
  <2>4. CASE Before(ts, clean[i], fresh[j])
    <3>1. \A x \in (A \cup B) \ {clean[i]} : Before(ts, clean[i], x)
      BY <1>3, <2>2, <2>3, <2>4, BeforeOrders
    <3> DEFINE U == A \cup B
               m == clean[i]
    <3>2. Orders(ts, U) /\ m \in U /\ \A x \in U \ {m} : Before(ts, m, x)
      BY <1>3, <2>2, <2>3, <3>1
    <3> HIDE DEF U, m
    <3>3. Sorted(ts, U) = First(m, Sorted(ts, U \ {m}))
      BY <3>2, Prepended
    <3>4. Sorted(ts, A \cup B) = First(clean[i], Sorted(ts, (A \cup B) \ {clean[i]}))
      BY <3>3 DEF U, m
    <3>5. (A \cup B) \ {clean[i]} = From(clean, i + 1) \cup B
      BY <1>3, <2>2
    <3>6. QED BY <1>6, <2>4, <3>4, <3>5 DEF Rest, A, B
  <2>5. CASE ~Before(ts, clean[i], fresh[j])
    <3>0. Before(ts, fresh[j], clean[i])
      BY <1>3, <2>2, <2>3, <2>5, BeforeOrders
    <3>1. \A x \in (A \cup B) \ {fresh[j]} : Before(ts, fresh[j], x)
      BY <1>3, <2>2, <2>3, <3>0, BeforeOrders
    <3> DEFINE U == A \cup B
               m == fresh[j]
    <3>2. Orders(ts, U) /\ m \in U /\ \A x \in U \ {m} : Before(ts, m, x)
      BY <1>3, <2>2, <2>3, <3>1
    <3> HIDE DEF U, m
    <3>3. Sorted(ts, U) = First(m, Sorted(ts, U \ {m}))
      BY <3>2, Prepended
    <3>4. Sorted(ts, A \cup B) = First(fresh[j], Sorted(ts, (A \cup B) \ {fresh[j]}))
      BY <3>3 DEF U, m
    <3>5. (A \cup B) \ {fresh[j]} = A \cup From(fresh, j + 1)
      BY <1>3, <2>3
    <3>6. QED BY <1>6, <2>5, <3>4, <3>5 DEF Rest, A, B
  <2>6. QED BY <2>4, <2>5
<1>7. QED BY <1>4, <1>5, <1>6

\* The merge of sorted rows is the sorted whole.
LEMMA MergeSorts ==
  ASSUME NEW ts, NEW clean, NEW fresh, Mergeable(ts, clean, fresh)
  PROVE  Merge(ts, clean, fresh) = Sorted(ts, ToSet(clean) \cup ToSet(fresh))
<1> DEFINE I == 1..Len(clean) + 1
           J == 1..Len(fresh) + 1
<1>1. /\ clean \in Seq(Id) /\ fresh \in Seq(Id) /\ Len(clean) \in Nat /\ Len(fresh) \in Nat
      /\ 1 \in I /\ 1 \in J
  BY DEF Mergeable
<1> DEFINE whole == [p \in I \X J |-> Rest(ts, clean, fresh, p[1], p[2])]
<1>2. Merges(ts, clean, fresh, whole)
  <2>1. \A i \in I, j \in J : whole[<<i, j>>] = Rest(ts, clean, fresh, i, j)
    OBVIOUS
  <2>2. \A i \in I : ~(i > Len(clean)) => i + 1 \in I
    BY <1>1
  <2>3. \A j \in J : ~(j > Len(fresh)) => j + 1 \in J
    BY <1>1
  <2> DEFINE body(i, j) ==
               IF i > Len(clean) THEN SubSeq(fresh, j, Len(fresh))
               ELSE IF j > Len(fresh) THEN SubSeq(clean, i, Len(clean))
               ELSE IF Before(ts, clean[i], fresh[j]) THEN First(clean[i], whole[<<i + 1, j>>])
               ELSE First(fresh[j], whole[<<i, j + 1>>])
  <2>4. ASSUME NEW i \in I, NEW j \in J
        PROVE  Rest(ts, clean, fresh, i, j) = body(i, j)
    <3>1. ~(i > Len(clean)) => whole[<<i + 1, j>>] = Rest(ts, clean, fresh, i + 1, j)
      BY <2>1, <2>2
    <3>2. ~(j > Len(fresh)) => whole[<<i, j + 1>>] = Rest(ts, clean, fresh, i, j + 1)
      BY <2>1, <2>3
    <3> HIDE DEF whole
    <3>3. QED BY <3>1, <3>2, MergeStep
  <2>5. whole = [p \in I \X J |-> body(p[1], p[2])]
    <3>1. \A p \in I \X J : p[1] \in I /\ p[2] \in J
      OBVIOUS
    <3> HIDE DEF body
    <3>2. QED BY <2>4, <3>1
  <2> HIDE DEF whole
  <2>6. QED BY <2>5 DEF Merges, First
<1> HIDE DEF whole
<1>3. ASSUME NEW g, Merges(ts, clean, fresh, g)
      PROVE  g[<<1, 1>>] = Rest(ts, clean, fresh, 1, 1)
  <2>1. ASSUME NEW i \in I, NEW j \in J
        PROVE  g[<<i, j>>] =
                 IF i > Len(clean) THEN SubSeq(fresh, j, Len(fresh))
                 ELSE IF j > Len(fresh) THEN SubSeq(clean, i, Len(clean))
                 ELSE IF Before(ts, clean[i], fresh[j]) THEN First(clean[i], g[<<i + 1, j>>])
                 ELSE First(fresh[j], g[<<i, j + 1>>])
    <3>1. <<i, j>> \in I \X J /\ <<i, j>>[1] = i /\ <<i, j>>[2] = j
      OBVIOUS
    <3>2. QED BY <1>3, <3>1 DEF Merges, First
  <2> DEFINE Left(i, j) == Len(clean) + 1 - i + (Len(fresh) + 1 - j)
             Wrong == {n \in Nat : \E i \in I, j \in J :
                         n = Left(i, j) /\ g[<<i, j>>] # Rest(ts, clean, fresh, i, j)}
  <2>2. ASSUME Wrong # {}
        PROVE  FALSE
    <3>1. PICK n \in Wrong : \A k \in Wrong : n <= k
      <4> HIDE DEF Wrong
      <4>1. Wrong \subseteq Nat
        BY DEF Wrong
      <4>2. QED BY <2>2, <4>1, LeastNumber
    <3>2. PICK i \in I, j \in J : n = Left(i, j) /\ g[<<i, j>>] # Rest(ts, clean, fresh, i, j)
      BY <3>1
    <3>3. ~(i > Len(clean)) /\ ~(j > Len(fresh))
      <4> DEFINE here == g[<<i, j>>]
                 there == Rest(ts, clean, fresh, i, j)
      <4>1. i > Len(clean) => here = SubSeq(fresh, j, Len(fresh))
        BY <2>1
      <4>2. i > Len(clean) => there = SubSeq(fresh, j, Len(fresh))
        BY MergeStep
      <4>3. ~(i > Len(clean)) /\ j > Len(fresh) => here = SubSeq(clean, i, Len(clean))
        BY <2>1
      <4>4. ~(i > Len(clean)) /\ j > Len(fresh) => there = SubSeq(clean, i, Len(clean))
        BY MergeStep
      <4>5. here # there
        BY <3>2
      <4> HIDE DEF here, there
      <4>6. ~(i > Len(clean))
        BY <4>1, <4>2, <4>5
      <4>7. ~(j > Len(fresh))
        BY <4>3, <4>4, <4>5, <4>6
      <4>8. QED BY <4>6, <4>7
    <3>4. i + 1 \in I /\ j + 1 \in J
      BY <1>1, <3>3
    <3>5. Left(i + 1, j) \in Nat /\ Left(i + 1, j) < n /\ Left(i, j + 1) \in Nat /\ Left(i, j + 1) < n
      BY <1>1, <3>2, <3>3
    <3>6. Left(i + 1, j) \notin Wrong /\ Left(i, j + 1) \notin Wrong
      <4> HIDE DEF Wrong, Left
      <4>1. n \in Nat
        BY <3>1 DEF Wrong
      <4>2. QED BY <3>1, <3>5, <4>1
    <3> HIDE DEF Left
    <3>7. g[<<i + 1, j>>] = Rest(ts, clean, fresh, i + 1, j)
      BY <3>4, <3>5, <3>6
    <3>8. g[<<i, j + 1>>] = Rest(ts, clean, fresh, i, j + 1)
      BY <3>4, <3>5, <3>6
    <3> HIDE DEF Wrong
    <3> DEFINE next == IF Before(ts, clean[i], fresh[j])
                       THEN First(clean[i], Rest(ts, clean, fresh, i + 1, j))
                       ELSE First(fresh[j], Rest(ts, clean, fresh, i, j + 1))
    <3>9. g[<<i, j>>] = next
      BY <2>1, <3>3, <3>7, <3>8
    <3>10. Rest(ts, clean, fresh, i, j) = next
      BY <3>3, MergeStep
    <3> HIDE DEF next
    <3>11. QED BY <3>2, <3>9, <3>10
  <2>3. Left(1, 1) \in Nat
    BY <1>1
  <2> HIDE DEF Left
  <2>4. QED BY <1>1, <2>2, <2>3
<1>4. Merge(ts, clean, fresh) = (CHOOSE g : Merges(ts, clean, fresh, g))[<<1, 1>>]
  BY Zenon DEF Merge, Merges
<1>5. Merges(ts, clean, fresh, CHOOSE g : Merges(ts, clean, fresh, g))
  BY <1>2, Zenon
<1>6. Merge(ts, clean, fresh) = Rest(ts, clean, fresh, 1, 1)
  BY <1>3, <1>4, <1>5, Zenon
<1>7. From(clean, 1) = ToSet(clean) /\ From(fresh, 1) = ToSet(fresh)
  BY SubsetOrders, FromParts DEF Mergeable
<1>8. QED BY <1>6, <1>7 DEF Rest

\* The loop over the old rows, as CleanRows has it.
Cleans(old, dirtied, g) ==
  g = [i \in 0..Len(old) |->
         IF i = 0 THEN <<>>
         ELSE IF old[i] \in dirtied THEN g[i - 1] ELSE Append(g[i - 1], old[i])]

\* The clean ones of the first rows.
CleanUpTo(old, dirtied, i) == {old[k] : k \in 1..i} \ dirtied

\* The rows that are not dirty are in order.
CleanOrder(ts, old, dirtied) ==
  /\ old \in Seq(Id) /\ Orders(ts, ToSet(old) \ dirtied)
  /\ \A i, j \in DOMAIN old :
       i < j /\ old[i] \notin dirtied /\ old[j] \notin dirtied => Before(ts, old[i], old[j])

LEMMA CleanStep ==
  ASSUME NEW ts, NEW old, NEW dirtied, CleanOrder(ts, old, dirtied), NEW i \in 1..Len(old)
  PROVE  Sorted(ts, CleanUpTo(old, dirtied, i)) =
           IF old[i] \in dirtied THEN Sorted(ts, CleanUpTo(old, dirtied, i - 1))
           ELSE Append(Sorted(ts, CleanUpTo(old, dirtied, i - 1)), old[i])
<1> DEFINE C == CleanUpTo(old, dirtied, i - 1)
           m == old[i]
<1>1. Len(old) \in Nat /\ DOMAIN old = 1..Len(old)
  BY DEF CleanOrder
<1>2. 1..i = 1..i - 1 \cup {i} /\ 1..i \subseteq DOMAIN old /\ \A k \in 1..i - 1 : k < i
  BY <1>1
<1>3. CleanUpTo(old, dirtied, i) = (C \cup {m}) \ dirtied
  BY <1>2 DEF CleanUpTo
<1>4. C \cap dirtied = {}
  BY DEF CleanUpTo
<1>5. CASE m \in dirtied
  <2>1. CleanUpTo(old, dirtied, i) = C
    BY <1>3, <1>4, <1>5
  <2>2. QED BY <1>5, <2>1
<1>6. CASE m \notin dirtied
  <2>1. CleanUpTo(old, dirtied, i) = C \cup {m}
    BY <1>3, <1>4, <1>6
  <2>2. C \cup {m} \subseteq ToSet(old) \ dirtied
    BY <1>1, <1>2, <1>6 DEF CleanUpTo, ToSet
  <2>3. Orders(ts, C \cup {m})
    BY <2>2, SubsetOrders DEF CleanOrder
  <2>4. \A x \in C : Before(ts, x, m)
    <3>1. SUFFICES ASSUME NEW k \in 1..i - 1, old[k] \notin dirtied PROVE Before(ts, old[k], old[i])
      BY DEF CleanUpTo
    <3>2. k \in DOMAIN old /\ i \in DOMAIN old /\ k < i
      BY <1>1, <1>2
    <3>3. QED BY <1>6, <3>1, <3>2 DEF CleanOrder
  <2> HIDE DEF C, m
  <2>5. Sorted(ts, C \cup {m}) = Final(Sorted(ts, C), m)
    BY <2>3, <2>4, Appended
  <2>6. QED BY <1>6, <2>1, <2>5 DEF C, m, Final
<1>7. QED BY <1>5, <1>6

LEMMA CleanRowsAre ==
  ASSUME NEW ts, NEW old, NEW dirtied, CleanOrder(ts, old, dirtied)
  PROVE  CleanRows(old, dirtied) = Sorted(ts, ToSet(old) \ dirtied)
<1> DEFINE n == Len(old)
           Part(i) == Sorted(ts, CleanUpTo(old, dirtied, i))
           whole == [i \in 0..n |-> Part(i)]
<1>1. n \in Nat /\ DOMAIN old = 1..n
  BY DEF CleanOrder
<1>2. Part(0) = <<>>
  <2>1. CleanUpTo(old, dirtied, 0) = {}
    BY DEF CleanUpTo
  <2>2. Orders(ts, {})
    BY DEF Orders
  <2> DEFINE q == Sorted(ts, {})
  <2>3. q \in Seq(Id) /\ Len(q) = 0
    BY <2>2, SortedIncreases, FS_EmptySet
  <2> HIDE DEF q
  <2>4. q = <<>>
    BY <2>3
  <2>5. QED BY <2>1, <2>4 DEF q
<1>3. \A i \in 1..n : Part(i) = IF old[i] \in dirtied THEN Part(i - 1) ELSE Append(Part(i - 1), old[i])
  BY CleanStep
<1>4. Cleans(old, dirtied, whole)
  <2>1. \A i \in 0..n : whole[i] = Part(i)
    OBVIOUS
  <2> HIDE DEF Part
  <2>2. \A i \in 0..n : i # 0 => i \in 1..n /\ i - 1 \in 0..n
    BY <1>1
  <2>3. \A i \in 0..n :
          Part(i) = IF i = 0 THEN <<>>
                    ELSE IF old[i] \in dirtied THEN whole[i - 1] ELSE Append(whole[i - 1], old[i])
    <3> HIDE DEF whole, n
    <3>1. QED BY <1>2, <1>3, <2>1, <2>2
  <2>4. QED BY <2>3 DEF Cleans
<1> HIDE DEF whole
<1>5. ASSUME NEW g, Cleans(old, dirtied, g)
      PROVE  g[n] = Part(n)
  <2>1. \A i \in 0..n :
          g[i] = IF i = 0 THEN <<>>
                 ELSE IF old[i] \in dirtied THEN g[i - 1] ELSE Append(g[i - 1], old[i])
    BY <1>5 DEF Cleans
  <2> HIDE DEF Part
  <2> DEFINE Wrong == {i \in 0..n : g[i] # Part(i)}
  <2>2. ASSUME Wrong # {}
        PROVE  FALSE
    <3>1. PICK i \in Wrong : \A j \in Wrong : i <= j
      <4>1. Wrong \subseteq Nat
        BY <1>1
      <4> HIDE DEF Wrong
      <4>2. QED BY <2>2, <4>1, LeastNumber
    <3>2. i \in 0..n /\ g[i] # Part(i)
      BY <3>1
    <3>3. i # 0
      BY <1>2, <2>1, <3>2
    <3>4. i \in 1..n /\ i - 1 \in 0..n /\ ~(i <= i - 1)
      BY <1>1, <3>2, <3>3
    <3>5. g[i - 1] = Part(i - 1)
      BY <3>1, <3>4
    <3>6. Part(i) = IF old[i] \in dirtied THEN Part(i - 1) ELSE Append(Part(i - 1), old[i])
      BY <1>3, <3>4
    <3>7. g[i] = IF old[i] \in dirtied THEN g[i - 1] ELSE Append(g[i - 1], old[i])
      BY <2>1, <3>2, <3>3
    <3>8. QED BY <3>2, <3>5, <3>6, <3>7
  <2>3. QED BY <1>1, <2>2
<1>6. CleanRows(old, dirtied) = (CHOOSE g : Cleans(old, dirtied, g))[n]
  BY Zenon DEF CleanRows, Cleans
<1>7. Cleans(old, dirtied, CHOOSE g : Cleans(old, dirtied, g))
  BY <1>4, Zenon
<1>8. CleanRows(old, dirtied) = Part(n)
  BY <1>5, <1>6, <1>7, Zenon
<1>9. CleanUpTo(old, dirtied, n) = ToSet(old) \ dirtied
  BY <1>1 DEF CleanUpTo, ToSet
<1>10. QED BY <1>8, <1>9

\* The torrents that pass the filter.
Passing(ts, f) == {id \in DOMAIN ts : passes(ts[id], f)}

\* refilter gives what rebuilding the list would, if the clean rows are right and in order.
LEMMA RefilteredIs ==
  ASSUME NEW ts, NEW dirtied, NEW old, NEW f, Orders(ts, DOMAIN ts), CleanOrder(ts, old, dirtied),
         ToSet(old) \ dirtied = Passing(ts, f) \ dirtied
  PROVE  Refiltered(ts, dirtied, old, f) = Sorted(ts, Passing(ts, f))
<1> DEFINE fresh == {id \in dirtied \cap DOMAIN ts : passes(ts[id], f)}
           clean == Passing(ts, f) \ dirtied
<1>1. fresh \cup clean = Passing(ts, f) /\ fresh \cap clean = {} /\ Passing(ts, f) \subseteq DOMAIN ts
  BY DEF Passing
<1>2. Orders(ts, fresh \cup clean) /\ Orders(ts, fresh) /\ Orders(ts, clean)
  BY <1>1, SubsetOrders
<1>3. CleanRows(old, dirtied) = Sorted(ts, clean)
  BY CleanRowsAre
<1>4. Refiltered(ts, dirtied, old, f) = Merge(ts, Sorted(ts, clean), Sorted(ts, fresh))
  BY <1>3 DEF Refiltered
<1> HIDE DEF fresh, clean
<1>5. /\ Sorted(ts, clean) \in Seq(Id) /\ ToSet(Sorted(ts, clean)) = clean
      /\ Increasing(ts, Sorted(ts, clean))
      /\ Sorted(ts, fresh) \in Seq(Id) /\ ToSet(Sorted(ts, fresh)) = fresh
      /\ Increasing(ts, Sorted(ts, fresh))
  BY <1>2, SortedIncreases
<1>6. Mergeable(ts, Sorted(ts, clean), Sorted(ts, fresh))
  BY <1>1, <1>2, <1>5 DEF Mergeable
<1>7. Merge(ts, Sorted(ts, clean), Sorted(ts, fresh)) = Sorted(ts, clean \cup fresh)
  BY <1>5, <1>6, MergeSorts
<1>8. QED BY <1>1, <1>4, <1>7

-----------------------------------------------------------------------------
(* The rows *)

\* The types of the rest, with the bounds.
RestTypes ==
  /\ now <= MaxTime
  /\ dirty \in SUBSET Id /\ filter \in Filter /\ refilterTimer \in BOOLEAN
  /\ unnamed \in SUBSET Id
  /\ events \in Nat /\ events + lost <= MaxEvents

\* What RowsInv says, in the words of the sorting lemmas.
RowsPart ==
  /\ CleanOrder(torrents, rows, dirty)
  /\ ToSet(rows) \ dirty = Passing(torrents, filter) \ dirty
  /\ Len(rows) = Cardinality(ToSet(rows))

LEMMA PageOrders ==
  ASSUME NEW ts \in Pages
  PROVE  Orders(ts, DOMAIN ts)
<1>1. DOMAIN ts \subseteq Id /\ \A id \in DOMAIN ts : ts[id] \in Known
  BY PageElement
<1>2. QED BY <1>1 DEF Orders, Known

\* Rows that are rebuilt are right, and none is dirty.
LEMMA Rebuilt ==
  ASSUME NEW ts \in Pages, NEW f, NEW r, r = Sorted(ts, Passing(ts, f))
  PROVE  /\ CleanOrder(ts, r, {}) /\ ToSet(r) = Passing(ts, f)
         /\ Len(r) = Cardinality(ToSet(r))
<1> DEFINE ids == Passing(ts, f)
<1>1. Orders(ts, ids)
  BY PageOrders, SubsetOrders DEF Passing
<1> HIDE DEF ids
<1>2. r \in Seq(Id) /\ Len(r) = Cardinality(ids) /\ ToSet(r) = ids /\ Increasing(ts, r)
  BY <1>1, SortedIncreases DEF ids
<1>3. CleanOrder(ts, r, {})
  BY <1>1, <1>2 DEF CleanOrder, Increasing
<1>4. QED BY <1>2, <1>3 DEF ids

\* Two pages that differ in these torrents only.
DifferIn(ts, new, more) ==
  /\ \A id \in DOMAIN new \ more : id \in DOMAIN ts /\ new[id] = ts[id]
  /\ DOMAIN ts \ more \subseteq DOMAIN new

\* Rows that were right among the clean ones are so if all that is different is dirty.
LEMMA StillClean ==
  ASSUME NEW ts, NEW new, NEW old, NEW dirtied, NEW more, NEW f,
         Orders(new, DOMAIN new), CleanOrder(ts, old, dirtied),
         ToSet(old) \ dirtied = Passing(ts, f) \ dirtied,
         dirtied \subseteq more, DifferIn(ts, new, more)
  PROVE  /\ CleanOrder(new, old, more)
         /\ ToSet(old) \ more = Passing(new, f) \ more
<1>1. /\ \A id \in DOMAIN new \ more : id \in DOMAIN ts /\ new[id] = ts[id]
      /\ \A id \in DOMAIN ts \ more : id \in DOMAIN new /\ new[id] = ts[id]
  BY DEF DifferIn
<1>2. ToSet(old) \ more = Passing(new, f) \ more
  BY <1>1 DEF Passing
<1>3. \A id \in ToSet(old) \ more : id \in DOMAIN new /\ new[id] = ts[id]
  BY <1>1 DEF Passing
<1>4. Orders(new, ToSet(old) \ more)
  BY <1>3, SubsetOrders
<1>5. ASSUME NEW i \in DOMAIN old, NEW j \in DOMAIN old,
             i < j, old[i] \notin more, old[j] \notin more
      PROVE  Before(new, old[i], old[j])
  <2>1. Before(ts, old[i], old[j])
    BY <1>5 DEF CleanOrder
  <2>2. old[i] \in ToSet(old) \ more /\ old[j] \in ToSet(old) \ more
    BY <1>5 DEF ToSet
  <2>3. QED BY <1>3, <2>1, <2>2 DEF Before
<1>6. QED BY <1>2, <1>4, <1>5 DEF CleanOrder

\* What an answer that arrives does to the rows.
LEMMA UpdateRows ==
  ASSUME ViewTypes, NEW m \in net, updateFromTorrentGet(m)
  PROVE  \E changed \in SUBSET Id :
           /\ \A id \in DOMAIN torrents' \ changed : id \in Has /\ torrents'[id] = torrents[id]
           /\ Has \ (changed \cup m.removed) \subseteq DOMAIN torrents'
           /\ changed \ Has \subseteq DOMAIN m.torrents
           /\ IF m.removed # {}
              THEN rows' = Refiltered(torrents', dirty \cup changed \cup m.removed, rows, filter)
                   /\ dirty' = {}
              ELSE rows' = rows /\ dirty' = dirty \cup changed
           /\ refilterTimer' = (soon(m, changed, NeedInfo(m.torrents)) \/ refilterTimer)
           /\ filter' = filter
<1> DEFINE told == m.torrents
           updated == [id \in Has \cup DOMAIN told |->
                         IF id \notin DOMAIN told THEN torrents[id]
                         ELSE IF id \in Has THEN Refreshed(torrents[id], told[id]) ELSE told[id]]
           changed == {id \in DOMAIN updated : id \notin Has \/ updated[id] # torrents[id]}
<1>1. DOMAIN updated \subseteq Id
  <2>1. told \in Pages /\ torrents \in Pages
    BY DEF ViewTypes, Message
  <2>2. QED BY <2>1, PageElement DEF Has
<1>2. /\ torrents' = deleted(updated, m.removed)
      /\ IF m.removed # {}
         THEN rows' = Refiltered(deleted(updated, m.removed), dirty \cup changed \cup m.removed,
                                 rows, filter)
              /\ dirty' = {}
         ELSE rows' = rows /\ dirty' = dirty \cup changed
      /\ refilterTimer' = (soon(m, changed, NeedInfo(m.torrents)) \/ refilterTimer)
      /\ filter' = filter
  BY DEF updateFromTorrentGet
<1>3. DOMAIN updated = Has \cup DOMAIN told
  OBVIOUS
<1>4. changed \in SUBSET Id /\ changed \ Has \subseteq DOMAIN m.torrents
  BY <1>1, <1>3
<1>5. \A id \in DOMAIN updated \ changed : id \in Has /\ updated[id] = torrents[id]
  OBVIOUS
<1> HIDE DEF updated, changed
<1>6. /\ DOMAIN torrents' = DOMAIN updated \ m.removed
      /\ \A id \in DOMAIN torrents' : torrents'[id] = updated[id]
  BY <1>2 DEF deleted
<1>7. \A id \in DOMAIN torrents' \ changed : id \in Has /\ torrents'[id] = torrents[id]
  BY <1>5, <1>6
<1>8. Has \ (changed \cup m.removed) \subseteq DOMAIN torrents'
  BY <1>3, <1>6
<1>9. IF m.removed # {}
      THEN rows' = Refiltered(torrents', dirty \cup changed \cup m.removed, rows, filter)
           /\ dirty' = {}
      ELSE rows' = rows /\ dirty' = dirty \cup changed
  BY <1>2
<1>10. QED BY <1>2, <1>4, <1>7, <1>8, <1>9

LEMMA RestStep ==
  ASSUME ViewTypes, RestTypes, [Next]_vars
  PROVE  RestTypes'
<1>1. now \in Nat /\ lost \in Nat /\ events \in Nat /\ MaxTime \in Nat /\ MaxEvents \in Nat
  BY BoundsAssumption DEF ViewTypes, RestTypes
<1>2. ASSUME NEW id \in Id, NEW there, NEW status, NEW meta, change(id, there, status, meta)
      PROVE  RestTypes'
  BY <1>1, <1>2 DEF RestTypes, change, pageVars, historyVars
<1>3. ASSUME NEW m \in net, answer(m)
      PROVE  RestTypes'
  BY <1>3 DEF RestTypes, answer, pageVars, serverVars, historyVars
<1>4. ASSUME NEW m \in net, lose(m)
      PROVE  RestTypes'
  <2>1. m.ids \in SUBSET Id
    BY DEF ViewTypes, Message
  <2>2. QED BY <1>1, <1>4, <2>1 DEF RestTypes, lose, pageVars, serverVars
<1>5. ASSUME NEW m \in net, updateFromTorrentGet(m)
      PROVE  RestTypes'
  <2>1. UNCHANGED <<now, events, lost, unnamed>>
    BY <1>5 DEF updateFromTorrentGet, serverVars, historyVars
  <2>2. dirty' \in SUBSET Id /\ filter' \in Filter
    BY <1>5, UpdateRows DEF RestTypes
  <2>3. refilterTimer' \in BOOLEAN
    <3>1. \E b \in BOOLEAN : refilterTimer' = b
      BY <1>5, UpdateRows
    <3>2. QED BY <3>1
  <2>4. QED BY <2>1, <2>2, <2>3 DEF RestTypes
<1>6. CASE refilter
  BY <1>6 DEF RestTypes, refilter, serverVars, historyVars
<1>7. ASSUME NEW f \in Filter, setFilterMode(f)
      PROVE  RestTypes'
  <2>1. events' \in Nat /\ events' + lost' <= MaxEvents
    BY <1>1, <1>7 DEF setFilterMode
  <2>2. QED BY <1>7, <2>1 DEF RestTypes, setFilterMode, historyVars
<1>8. CASE refreshTorrents
  BY <1>8 DEF RestTypes, refreshTorrents, pageVars, serverVars, historyVars
<1>9. CASE tick
  <2>1. /\ now < MaxTime /\ now' = now + 1 /\ lost' = lost
        /\ events' = events \/ (events + lost < MaxEvents /\ events' = events + 1)
    BY <1>9 DEF tick
  <2>2. now' <= MaxTime /\ events' \in Nat /\ events' + lost' <= MaxEvents
    BY <1>1, <2>1 DEF RestTypes
  <2>3. QED BY <1>9, <2>2 DEF RestTypes, tick, pageVars
<1>10. CASE UNCHANGED vars
  BY <1>10 DEF RestTypes, vars
<1>11. QED BY <1>2, <1>3, <1>4, <1>5, <1>6, <1>7, <1>8, <1>9, <1>10 DEF Next

\* The steps by what they do to the page.
LEMMA PageKinds ==
  ASSUME [Next]_vars
  PROVE  \/ UNCHANGED pageVars
         \/ refilter
         \/ \E f \in Filter : setFilterMode(f)
         \/ \E m \in net : updateFromTorrentGet(m)
<1>1. \A id, there, status, meta : change(id, there, status, meta) => UNCHANGED pageVars
  BY DEF change
<1>2. \A m : answer(m) \/ lose(m) => UNCHANGED pageVars
  BY DEF answer, lose
<1>3. refreshTorrents \/ tick \/ UNCHANGED vars => UNCHANGED pageVars
  BY DEF refreshTorrents, tick, vars, pageVars
<1>4. QED BY <1>1, <1>2, <1>3 DEF Next

\* The rows are rebuilt, by the incremental refilter.
Rebuilds == rows' = Sorted(torrents', Passing(torrents', filter')) /\ dirty' = {}

LEMMA RebuiltRows ==
  ASSUME ViewTypes', Rebuilds
  PROVE  RowsPart'
<1>1. torrents' \in Pages
  BY DEF ViewTypes
<1> DEFINE ts == torrents'
           f == filter'
           r == rows'
<1>2. ts \in Pages /\ r = Sorted(ts, Passing(ts, f))
  BY <1>1 DEF Rebuilds
<1> HIDE DEF ts, f, r
<1>3. CleanOrder(ts, r, {}) /\ ToSet(r) = Passing(ts, f) /\ Len(r) = Cardinality(ToSet(r))
  BY <1>2, Rebuilt
<1>4. dirty' = {}
  BY DEF Rebuilds
<1>5. QED BY <1>3, <1>4 DEF RowsPart, ts, f, r

LEMMA RefilterRebuilds ==
  ASSUME ViewTypes, RowsPart
  PROVE  /\ refilter => Rebuilds
         /\ \A f \in Filter : setFilterMode(f) => Rebuilds
<1>1. torrents \in Pages /\ Orders(torrents, DOMAIN torrents)
  BY PageOrders DEF ViewTypes
<1>2. Refiltered(torrents, dirty, rows, filter) = Sorted(torrents, Passing(torrents, filter))
  BY <1>1, RefilteredIs DEF RowsPart
<1>3. \A f : Refiltered(torrents, Has, <<>>, f) = Sorted(torrents, Passing(torrents, f))
  <2>1. ToSet(<<>>) = {} /\ <<>> \in Seq(Id) /\ DOMAIN <<>> = {}
    BY DEF ToSet
  <2>2. CleanOrder(torrents, <<>>, Has)
    BY <2>1 DEF CleanOrder, Orders
  <2>3. \A f : ToSet(<<>>) \ Has = Passing(torrents, f) \ Has
    BY <2>1 DEF Passing, Has
  <2>4. QED BY <1>1, <2>2, <2>3, RefilteredIs
<1>4. refilter => Rebuilds
  BY <1>2 DEF refilter, Rebuilds
<1>5. \A f \in Filter : setFilterMode(f) => Rebuilds
  BY <1>3 DEF setFilterMode, Rebuilds
<1>6. QED BY <1>4, <1>5

LEMMA RowsStep ==
  ASSUME ViewTypes, RowsPart, [Next]_vars
  PROVE  RowsPart'
<1>1. CASE UNCHANGED pageVars
  BY <1>1 DEF RowsPart, pageVars
<1>2. ViewTypes'
  BY TypesStep
<1>3. CASE refilter \/ \E f \in Filter : setFilterMode(f)
  BY <1>2, <1>3, RefilterRebuilds, RebuiltRows
<1>4. ASSUME NEW m \in net, updateFromTorrentGet(m)
      PROVE  RowsPart'
  <2>1. PICK changed \in SUBSET Id :
           /\ \A id \in DOMAIN torrents' \ changed : id \in Has /\ torrents'[id] = torrents[id]
           /\ Has \ (changed \cup m.removed) \subseteq DOMAIN torrents'
           /\ IF m.removed # {}
              THEN rows' = Refiltered(torrents', dirty \cup changed \cup m.removed, rows, filter)
                   /\ dirty' = {}
              ELSE rows' = rows /\ dirty' = dirty \cup changed
           /\ filter' = filter
    BY <1>4, UpdateRows
  <2> DEFINE new == torrents'
             more == dirty \cup changed \cup m.removed
  <2>2. Orders(new, DOMAIN new)
    <3>1. new \in Pages
      BY <1>2 DEF ViewTypes
    <3> HIDE DEF new
    <3>2. QED BY <3>1, PageOrders
  <2>3. DifferIn(torrents, new, more) /\ dirty \subseteq more
    BY <2>1 DEF Has, DifferIn
  <2> HIDE DEF new, more
  <2>4. CleanOrder(new, rows, more) /\ ToSet(rows) \ more = Passing(new, filter) \ more
    <3>1. CleanOrder(torrents, rows, dirty)
          /\ ToSet(rows) \ dirty = Passing(torrents, filter) \ dirty
      BY DEF RowsPart
    <3>2. QED BY <2>2, <2>3, <3>1, StillClean
  <2>5. CASE m.removed # {}
    <3>1. rows' = Refiltered(new, more, rows, filter) /\ dirty' = {} /\ filter' = filter
      BY <2>1, <2>5 DEF new, more
    <3>2. rows' = Sorted(new, Passing(new, filter))
      BY <2>2, <2>4, <3>1, RefilteredIs
    <3>3. Rebuilds
      BY <3>1, <3>2 DEF Rebuilds, new
    <3>4. QED BY <1>2, <3>3, RebuiltRows
  <2>6. CASE m.removed = {}
    <3>1. rows' = rows /\ dirty' = more /\ filter' = filter /\ torrents' = new
      BY <2>1, <2>6 DEF new, more
    <3>2. QED BY <2>4, <3>1 DEF RowsPart
  <2>7. QED BY <2>5, <2>6
<1>5. QED BY <1>1, <1>3, <1>4, PageKinds

LEMMA InitRows ==
  ASSUME Init
  PROVE  ViewTypes /\ MessageInv /\ PageInv /\ RestTypes /\ RowsPart /\ dirty = {}
<1>1. ViewTypes /\ MessageInv /\ PageInv
  BY InitView
<1>2. /\ now = 0 /\ torrents = <<>> /\ dirty = {} /\ rows = <<>> /\ filter = "all"
      /\ refilterTimer = FALSE /\ events = 0 /\ lost = 0 /\ unnamed = {}
  <2>1. lost = 0
    BY DEF Init
  <2>2. QED BY <2>1 DEF Init
<1>3. RestTypes
  <2>1. MaxTime \in Nat /\ MaxEvents \in Nat
    BY BoundsAssumption
  <2>2. now <= MaxTime /\ events + lost <= MaxEvents /\ events \in Nat
    BY <1>2, <2>1
  <2>3. QED BY <1>2, <2>2 DEF RestTypes, Filter
<1>4. RowsPart
  <2>1. ToSet(<<>>) = {} /\ <<>> \in Seq(Id) /\ DOMAIN <<>> = {} /\ Len(<<>>) = 0
    BY DEF ToSet
  <2>2. CleanOrder(torrents, rows, dirty)
    BY <1>2, <2>1 DEF CleanOrder, Orders
  <2>3. Passing(torrents, filter) = {}
    BY <1>2, <2>1 DEF Passing
  <2>4. Cardinality({}) = 0
    BY FS_EmptySet
  <2>5. QED BY <1>2, <2>1, <2>2, <2>3, <2>4 DEF RowsPart
<1>5. QED BY <1>1, <1>2, <1>3, <1>4

\* Refiltering only the dirty rows gives what rebuilding the list would.
THEOREM RowsKept == Spec => []RowsInv
<1> DEFINE IInv == ViewTypes /\ MessageInv /\ PageInv /\ RestTypes /\ RowsPart
<1>1. Init => IInv
  BY InitRows
<1>2. IInv /\ [Next]_vars => IInv'
  BY TypesStep, MessageStep, PageStep, RestStep, RowsStep
<1>3. IInv => RowsInv
  <2>1. SUFFICES ASSUME IInv
                 PROVE  RowsInv
    OBVIOUS
  <2>2. rows \in Seq(Id) /\ Len(rows) = Cardinality(ToSet(rows))
    BY <2>1 DEF RowsPart, CleanOrder
  <2>3. ToSet(rows) \subseteq Id
    BY <2>2 DEF ToSet
  <2>4. Has \subseteq Id /\ \A id \in Has : torrents[id] \in Known
    BY <2>1, PageElement DEF ViewTypes, Has
  <2>5. \A m \in net :
          m.kind \in {"all", "recent", "info"} /\ m.ids \subseteq Id /\ m.sent \in 0..now
    <3>1. SUFFICES ASSUME NEW m \in net
                   PROVE  m.kind \in {"all", "recent", "info"} /\ m.ids \subseteq Id
                          /\ m.sent \in 0..now
      OBVIOUS
    <3>2. m \in Message /\ now \in Nat /\ m.sent <= now
      BY <2>1 DEF ViewTypes, MessageInv
    <3>3. m.kind \in {"all", "recent", "info"} /\ m.ids \subseteq Id /\ m.sent \in Nat
      BY <3>2 DEF Message
    <3>4. m.sent \in 0..now
      BY <3>2, <3>3
    <3>5. QED BY <3>3, <3>4
  <2>6. /\ since \in [Id -> Int] /\ (\A id \in Id : since[id] <= now) /\ now \in 0..MaxTime
        /\ lost \in 0..MaxEvents /\ events \in 0..MaxEvents
    <3>1. MaxTime \in Nat /\ MaxEvents \in Nat
      BY BoundsAssumption
    <3>2. /\ since \in [Id -> Int] /\ now \in Nat /\ now <= MaxTime
          /\ \A id \in Id : since[id] <= now
      BY <2>1 DEF ViewTypes, RestTypes
    <3>3. lost \in Nat /\ events \in Nat /\ events + lost <= MaxEvents
      BY <2>1 DEF ViewTypes, RestTypes
    <3>4. now \in 0..MaxTime
      BY <3>1, <3>2
    <3>5. lost \in 0..MaxEvents /\ events \in 0..MaxEvents
      BY <3>1, <3>3
    <3>6. QED BY <3>2, <3>4, <3>5
  <2>7. TypeOK
    BY <2>1, <2>2, <2>3, <2>4, <2>5, <2>6 DEF TypeOK, ViewTypes, Entry, RestTypes
  <2>8. ToSet(rows) \ dirty = {id \in Has \ dirty : passes(torrents[id], filter)}
    BY <2>1 DEF RowsPart, Passing, Has
  <2>9. \A i, j \in DOMAIN rows :
          i < j /\ {rows[i], rows[j]} \cap dirty = {} => Before(torrents, rows[i], rows[j])
    BY <2>1 DEF RowsPart, CleanOrder
  <2>10. QED BY <2>7, <2>8, <2>9 DEF RowsInv
<1> HIDE DEF IInv
<1>4. QED BY <1>1, <1>2, <1>3, PTL DEF Spec

-----------------------------------------------------------------------------
(* What is known is shown *)

\* A row that is dirty is refiltered soon, or its torrent is one the page may not have as it is:
\* refilterSoon is not called for a torrent that is new and told of with its name.
DirtyInv ==
  \A id \in dirty :
    Timely /\ (since[id] < 0 => ~listLost) /\ now > Base(id) + MaxDelay =>
      refilterTimer \/ Cardinality(Gone(id)) <= lost

\* An answer after which no refilter is due: not one to a poll, and only new torrents are dirty.
LEMMA QuietUpdate ==
  ASSUME ViewTypes, NEW m \in net, updateFromTorrentGet(m), ~refilterTimer'
  PROVE  /\ m.kind # "recent" /\ ~refilterTimer
         /\ \A id \in dirty' : id \in dirty \/ (id \notin Has /\ id \in DOMAIN m.torrents)
<1>1. PICK changed \in SUBSET Id :
        /\ changed \ Has \subseteq DOMAIN m.torrents
        /\ IF m.removed # {}
           THEN rows' = Refiltered(torrents', dirty \cup changed \cup m.removed, rows, filter)
                /\ dirty' = {}
           ELSE rows' = rows /\ dirty' = dirty \cup changed
        /\ refilterTimer' = (soon(m, changed, NeedInfo(m.torrents)) \/ refilterTimer)
  BY UpdateRows
<1>2. ~soon(m, changed, NeedInfo(m.torrents)) /\ ~refilterTimer
  BY <1>1
<1>3. changed \cap Has = {} /\ m.kind # "recent"
  BY <1>2 DEF soon
<1>4. dirty' \subseteq dirty \cup changed
  BY <1>1
<1>5. QED BY <1>1, <1>2, <1>3, <1>4

LEMMA DirtyStep ==
  ASSUME ViewTypes, MessageInv, LateInv, FreshInv, IdleInv, RestTypes, RowsPart, DirtyInv,
         [Next]_vars
  PROVE  DirtyInv'
<1>1. SUFFICES ASSUME NEW id \in dirty', Timely', Timely, since'[id] < 0 => ~listLost', 
                      now' > Base(id)' + MaxDelay, ~refilterTimer'
               PROVE  Cardinality(Gone(id)') <= lost'
  BY TimelyBefore DEF DirtyInv
<1>2. id \in Id
  BY RestStep DEF RestTypes
<1>3. ASSUME NoPollArrives, id \in dirty, ~refilterTimer
      PROVE  Cardinality(Gone(id)') <= lost'
  <2>1. since'[id] = since[id] \/ since'[id] = now
    BY <1>2, <1>3, UpdateEffect DEF NoPollArrives, Changes, IsAnswered, IsLost, Polls, Ticks
  <2>2. CASE since'[id] = since[id]
    <3>1. since[id] < 0 => ~listLost
      BY <1>1, <2>2, TimelyBefore
    <3>2. now > Base(id) + MaxDelay => Cardinality(Gone(id)) <= lost
      BY <1>1, <1>3, <3>1 DEF DirtyInv
    <3>3. QED BY <1>1, <1>2, <1>3, <3>2, FewAreGone
  <2>3. CASE since'[id] # since[id]
    <3>1. PICK i \in Id : Changes(i)
      BY <1>2, <1>3, <2>3, UpdateEffect DEF NoPollArrives, IsAnswered, IsLost, Polls, Ticks
    <3>2. since'[id] = now /\ now' = now /\ now \in Nat
      BY <2>1, <2>3, <3>1 DEF Changes, ViewTypes
    <3>3. QED BY <1>1, <3>2, Bounds DEF Base
  <2>4. QED BY <2>2, <2>3
<1>4. ASSUME NEW m \in net, updateFromTorrentGet(m)
      PROVE  Cardinality(Gone(id)') <= lost'
  <2>1. m.kind # "recent" /\ ~refilterTimer
        /\ (id \in dirty \/ (id \notin Has /\ id \in DOMAIN m.torrents))
    BY <1>1, <1>4, QuietUpdate
  <2>2. NoPollArrives
    BY <1>4, <2>1 DEF NoPollArrives
  <2>3. CASE id \in dirty
    BY <1>3, <2>1, <2>2, <2>3
  <2>4. CASE id \notin Has /\ id \in DOMAIN m.torrents
    <3>1. m.answered /\ UNCHANGED <<since, now, listLost>>
      BY <1>4, UpdateEffect
    <3>2. now > Base(id) + MaxDelay
      BY <1>1, <3>1 DEF Base
    <3>3. m.sent > since[id] /\ (since[id] >= 0 => now > since[id] + MaxDelay) /\ now > MaxDelay
      <4>1. m.sent \in Nat /\ now \in Nat /\ since[id] \in Int /\ now <= m.sent + MaxDelay
        BY <1>1, <1>2 DEF ViewTypes, Message, MessageInv, Timely
      <4>2. QED BY <1>2, <3>2, <4>1, Bounds, BaseIs
    <3>4. Agrees(m, id)
      BY <1>2, <3>1, <3>3 DEF LateInv
    <3>5. ~InView(id)
      BY <2>4, <3>4 DEF Agrees, InView
    <3>6. since[id] \in Int /\ (since[id] < 0 => ~listLost)
      BY <1>1, <1>2, <3>1 DEF ViewTypes
    <3>7. since[id] >= 0
      BY <1>1, <1>2, <3>3, <3>5, <3>6, IdleIsInView
    <3>8. Cardinality(Gone(id)) <= lost
      BY <1>1, <1>2, <3>3, <3>5, <3>7 DEF FreshInv
    <3>9. QED BY <1>1, <1>2, <2>2, <3>8, FewAreGone
  <2>5. QED BY <2>1, <2>3, <2>4
<1>5. ASSUME refilter \/ \E f \in Filter : setFilterMode(f)
      PROVE  FALSE
  <2>1. dirty' = {}
    BY <1>5 DEF refilter, setFilterMode
  <2>2. QED BY <2>1
<1>6. ASSUME UNCHANGED pageVars, ~\E m \in net : updateFromTorrentGet(m)
      PROVE  Cardinality(Gone(id)') <= lost'
  <2>1. NoPollArrives
    BY <1>6, StepKinds DEF NoPollArrives
  <2>2. id \in dirty /\ ~refilterTimer
    BY <1>1, <1>6 DEF pageVars
  <2>3. QED BY <1>3, <2>1, <2>2
<1>7. QED BY <1>4, <1>5, <1>6, PageKinds

\* Once the window of a torrent's last change has passed and no refilter is due, it has a row if
\* and only if the server has it and it passes the filter.
THEOREM ViewComesShown == Spec => []ViewIsShown
<1> DEFINE IInv == /\ ViewTypes /\ MessageInv /\ PageInv /\ LateInv /\ FreshInv /\ IdleInv
                   /\ RestTypes /\ RowsPart /\ DirtyInv
<1>1. Init => IInv
  <2>1. Init => ViewTypes /\ MessageInv /\ PageInv /\ LateInv /\ FreshInv /\ IdleInv
    BY InitFresh
  <2>2. Init => RestTypes /\ RowsPart /\ DirtyInv
    BY InitRows DEF DirtyInv
  <2>3. QED BY <2>1, <2>2
<1>2. IInv /\ [Next]_vars => IInv'
  BY TypesStep, MessageStep, PageStep, LateStep, FreshStep, IdleStep, RestStep, RowsStep, DirtyStep
<1>3. IInv => ViewIsShown
  <2>1. SUFFICES ASSUME IInv, Timely, ~refilterTimer, NEW id \in Id, Settled(id)
                 PROVE  id \in ToSet(rows)
                          <=> id \in Present /\ (filter = "all" \/ server[id].status = Stopped)
    BY DEF ViewIsShown
  <2>2. InView(id)
    BY <2>1, FreshIsInView
  <2>3. now > Base(id) + Window /\ (since[id] < 0 => ~listLost)
    BY <2>1, BaseIs
  <2>4. id \notin dirty
    <3>1. Cardinality(Gone(id)) > lost /\ now > Base(id) + MaxDelay
      <4>1. Cardinality(Gone(id)) > lost
        BY <2>1, <2>3, Overdue
      <4>2. now \in Nat /\ lost \in Nat /\ Base(id) \in Nat
        BY <2>1, BaseIs DEF ViewTypes
      <4>3. now > Base(id) + MaxDelay
        BY <2>1, <2>3, <4>2, Bounds DEF Timely
      <4>4. QED BY <4>1, <4>3
    <3>2. Cardinality(Gone(id)) \in Nat /\ lost \in Nat
      BY <2>1, GoneFinite, FS_CardinalityType DEF ViewTypes
    <3>3. QED BY <2>1, <2>3, <3>1, <3>2 DEF DirtyInv
  <2>5. id \in ToSet(rows) <=> id \in Passing(torrents, filter)
    BY <2>1, <2>4 DEF RowsPart
  <2>6. QED BY <2>2, <2>5 DEF InView, Passing, Has, passes
<1> HIDE DEF IInv
<1>4. QED BY <1>1, <1>2, <1>3, PTL DEF Spec
=============================================================================
