------------------------------- MODULE WebList -------------------------------
(***************************************************************************)
(* The transfer list of the web interface (transmission.js, torrent.js,    *)
(* remote.js): a page that polls the RPC server with asynchronous          *)
(* requests. Answers may come late, in any order, or not at all. The       *)
(* server only tells of the torrents that changed or were removed lately,  *)
(* and the page only refilters the rows it knows to be dirty. Of a torrent *)
(* at which nothing happens it hears once, in the answer to the request    *)
(* for all torrents that is made when the page is loaded.                  *)
(*                                                                         *)
(* Time is counted in refresh periods. A torrent has a status, by which    *)
(* the list is sorted here (Torrent.compareByState) and filtered, and a    *)
(* name, which a magnet link has only once its metadata is there.          *)
(***************************************************************************)
EXTENDS Integers, FiniteSets, Sequences, SequencesExt

CONSTANTS
  N,          \* torrents are 1..N, in the order of the queue
  Window,     \* how long a change or removal is told of ("recently-active", 60 seconds)
  MaxDelay,   \* within that time a request is answered or lost, if the network is not slow
  Magnets,    \* those of them added by a magnet link
  Ages,       \* how long ago torrents have changed when the page is loaded
  MaxEvents,  \* bound: changes at the server or of the filter, requests lost, slow periods
  MaxTime     \* bound: the clock

ASSUME BoundsAssumption ==
  /\ {N, Window, MaxDelay, MaxEvents, MaxTime} \subseteq Nat
  /\ Magnets \subseteq 1..N /\ Ages \subseteq Nat

Id == 1..N
Stopped == 0
Download == 4
Status == {Stopped, Download}
Filter == {"all", "paused"}

\* What a page knows of a torrent: the statistics, and the name: not asked for, that of the
\* magnet link, or the one the metadata has.
Known == [status : Status, meta : BOOLEAN, name : {"none", "link", "real"}]

VARIABLES
  server,    \* for each torrent, whether it is absent, present or removed, and its data
  since,     \* when that last changed, negative if before the page was loaded
  now,
  net,       \* requests and answers under way
  polled,    \* the poll of this period has been sent
  torrents,  \* the page: what it knows, for the torrents it has
  dirty,     \* dirtyTorrents
  rows,      \* the ids of _rows
  filter,
  refilterTimer,
  events, lost,
  \* History variables; no step reads them.
  unnamed,   \* torrents for which a request for the name was lost
  listLost,  \* the request for all torrents was lost
  slow       \* some request was under way for more than MaxDelay

serverVars == <<server, since, events>>
historyVars == <<unnamed, listLost, slow>>
pageVars == <<torrents, dirty, rows, filter, refilterTimer>>
vars == <<server, since, now, net, polled, torrents, dirty, rows, filter, refilterTimer,
          events, lost, unnamed, listLost, slow>>

Has == DOMAIN torrents
Present == {id \in Id : server[id].there = "present"}

Request(kind, ids) == [kind |-> kind, ids |-> ids, sent |-> now, answered |-> FALSE,
                       torrents |-> <<>>, removed |-> {}]

TypeOK ==
  /\ server \in [Id -> [status : Status, meta : BOOLEAN, there : {"absent", "present", "removed"}]]
  /\ since \in [Id -> Int] /\ (\A id \in Id : since[id] <= now) /\ now \in 0..MaxTime
  /\ Has \subseteq Id /\ \A id \in Has : torrents[id] \in Known
  /\ dirty \subseteq Id
  /\ Len(rows) = Cardinality(ToSet(rows)) /\ ToSet(rows) \subseteq Id
  /\ filter \in Filter
  /\ polled \in BOOLEAN /\ refilterTimer \in BOOLEAN
  /\ \A m \in net : m.kind \in {"all", "recent", "info"} /\ m.ids \subseteq Id /\ m.sent \in 0..now
  /\ unnamed \subseteq Id /\ listLost \in BOOLEAN /\ slow \in BOOLEAN
  /\ lost \in 0..MaxEvents /\ events \in 0..MaxEvents

\* initialize: the page asks for all torrents and then polls.
Init ==
  /\ \E present \in SUBSET Id :
       server = [id \in Id |-> [there |-> IF id \in present THEN "present" ELSE "absent",
                                status |-> Stopped, meta |-> id \notin Magnets]]
  /\ since \in [Id -> {-age : age \in Ages}] /\ now = 0
  /\ net = {Request("all", Id)} /\ polled = FALSE
  /\ torrents = <<>> /\ dirty = {} /\ rows = <<>>
  /\ filter = "all" /\ refilterTimer = FALSE
  /\ events = 0 /\ lost = 0 /\ unnamed = {} /\ listLost = FALSE /\ slow = FALSE

-----------------------------------------------------------------------------
(* The server *)

\* A torrent is added, starts or stops, gets its metadata, or is removed.
change(id, there, status, meta) ==
  /\ events + lost < MaxEvents
  /\ <<server[id].there, there>> \in
       {<<"absent", "present">>, <<"present", "present">>, <<"present", "removed">>}
  /\ there = "removed" => status = server[id].status /\ meta = server[id].meta
  /\ id \notin Magnets \/ (server[id].there = "present" /\ server[id].meta) => meta
  /\ server' = [server EXCEPT ![id] = [status |-> status, meta |-> meta, there |-> there]]
  /\ server' # server /\ since' = [since EXCEPT ![id] = now] /\ events' = events + 1
  /\ UNCHANGED <<now, net, polled, pageVars, lost, historyVars>>

Lately(id) == now - since[id] <= Window

\* What the server tells of a torrent: a poll has no names.
Told(kind, id) ==
  [status |-> server[id].status, meta |-> server[id].meta,
   name |-> CASE kind = "recent" -> "none"
              [] kind # "recent" -> IF server[id].meta THEN "real" ELSE "link"]

answer(m) ==
  /\ m \in net /\ ~m.answered
  /\ LET told == IF m.kind = "recent" THEN {id \in Present : Lately(id)} ELSE m.ids \cap Present
     IN  net' = (net \ {m}) \cup
           {[m EXCEPT !.answered = TRUE,
                      !.torrents = [id \in told |-> Told(m.kind, id)],
                      !.removed = IF m.kind = "recent"
                                  THEN {id \in Id : server[id].there = "removed" /\ Lately(id)}
                                  ELSE {}]}
  /\ UNCHANGED <<serverVars, now, polled, pageVars, lost, historyVars>>

\* A request or its answer is lost: ajaxError stops the session's refresh, not the torrents'.
lose(m) ==
  /\ m \in net /\ events + lost < MaxEvents
  /\ net' = net \ {m} /\ lost' = lost + 1
  /\ unnamed' = IF m.kind = "recent" THEN unnamed ELSE unnamed \cup m.ids
  /\ listLost' = (listLost \/ m.kind = "all")
  /\ UNCHANGED <<serverVars, now, polled, pageVars, slow>>

-----------------------------------------------------------------------------
(* The rows *)

passes(t, f) == f = "all" \/ t.status = Stopped

\* Torrent.compareByState, then by queue: those that run first.
Before(ts, a, b) ==
  IF ts[a].status # ts[b].status THEN ts[a].status > ts[b].status ELSE a < b

\* Mutant: the dirty rows stay in the order of their ids.
SortedMut(ts, ids) ==
  CHOOSE q \in [1..Cardinality(ids) -> ids] :
    \A i, j \in 1..Cardinality(ids) : i < j => q[i] < q[j]

\* sortRows
Sorted(ts, ids) ==
  CHOOSE q \in [1..Cardinality(ids) -> ids] :
    \A i, j \in 1..Cardinality(ids) : i < j => Before(ts, q[i], q[j])

\* The rows that are not dirty, in the order they have.
CleanRows(old, dirtied) ==
  LET clean[i \in 0..Len(old)] ==
        IF i = 0 THEN <<>>
        ELSE IF old[i] \in dirtied THEN clean[i - 1] ELSE Append(clean[i - 1], old[i])
  IN  clean[Len(old)]

\* The two-way merge of two sorted arrays of rows; a clean row goes first only if it is before.
Merge(ts, clean, fresh) ==
  LET merged[p \in (1..Len(clean) + 1) \X (1..Len(fresh) + 1)] ==
        LET i == p[1] j == p[2]
        IN  IF i > Len(clean) THEN SubSeq(fresh, j, Len(fresh))
            ELSE IF j > Len(fresh) THEN SubSeq(clean, i, Len(clean))
            ELSE IF Before(ts, clean[i], fresh[j]) THEN <<clean[i]>> \o merged[<<i + 1, j>>]
            ELSE <<fresh[j]>> \o merged[<<i, j + 1>>]
  IN  merged[<<1, 1>>]

\* refilter: clean rows stay, dirty ones that pass are sorted and merged with them.
Refiltered(ts, dirtied, old, f) ==
  Merge(ts, CleanRows(old, dirtied),
        Sorted(ts, {id \in dirtied \cap DOMAIN ts : passes(ts[id], f)}))

refilter ==
  /\ refilterTimer /\ refilterTimer' = FALSE
  /\ rows' = Refiltered(torrents, dirty, rows, filter) /\ dirty' = {}
  /\ UNCHANGED <<serverVars, now, net, polled, torrents, filter, lost, historyVars>>

\* setFilterMode: everything is rebuilt.
setFilterMode(f) ==
  /\ f # filter /\ events + lost < MaxEvents /\ filter' = f /\ events' = events + 1
  /\ rows' = Refiltered(torrents, Has, <<>>, f) /\ dirty' = {} /\ refilterTimer' = FALSE
  /\ UNCHANGED <<server, since, now, net, polled, torrents, lost, historyVars>>

-----------------------------------------------------------------------------
(* The page *)

\* Torrent.refreshFields: the fields an answer has replace those known.
Refreshed(old, new) == IF new.name = "none" THEN [new EXCEPT !.name = old.name] ELSE new

\* Mutant: only new torrents are asked about.
NeedInfoMut(told) == {id \in DOMAIN told : id \notin Has /\ told[id].name = "none"}

\* The torrents whose name is to be asked for: new ones without, and magnets that got their data.
NeedInfo(told) ==
  {id \in DOMAIN told : IF id \in Has THEN ~torrents[id].meta /\ told[id].meta
                                      ELSE told[id].name = "none"}

\* Mutant: the rows go, the torrents stay.
deletedMut(ts, removed) == ts

deleted(ts, removed) == [id \in DOMAIN ts \ removed |-> ts[id]]

\* Mutant: a list of removed torrents without any does not count.
soonMut(m, changed, needed) == changed \cap Has # {} \/ needed # {} \/ m.removed # {}

\* refilterSoon is called if a torrent the page has has changed, if names are missing, and with
\* the answer to any poll: its list of removed torrents may be empty, but is there.
soon(m, changed, needed) == changed \cap Has # {} \/ needed # {} \/ m.kind = "recent"

\* updateFromTorrentGet. If some torrents were removed, rows are refiltered at once too.
updateFromTorrentGet(m) ==
  LET told == m.torrents
      updated == [id \in Has \cup DOMAIN told |->
                    IF id \notin DOMAIN told THEN torrents[id]
                    ELSE IF id \in Has THEN Refreshed(torrents[id], told[id]) ELSE told[id]]
      changed == {id \in DOMAIN updated : id \notin Has \/ updated[id] # torrents[id]}
      needed == NeedInfo(told)
      kept == deleted(updated, m.removed)
  IN
  /\ m \in net /\ m.answered
  /\ torrents' = kept
  /\ net' = (net \ {m}) \cup (IF needed = {} THEN {} ELSE {Request("info", needed)})
  /\ IF m.removed # {}
     THEN rows' = Refiltered(kept, dirty \cup changed \cup m.removed, rows, filter) /\ dirty' = {}
     ELSE rows' = rows /\ dirty' = dirty \cup changed
  /\ refilterTimer' = (soon(m, changed, needed) \/ refilterTimer)
  /\ UNCHANGED <<serverVars, now, polled, filter, lost, historyVars>>

\* refreshTorrents, by its own timeout.
refreshTorrents ==
  /\ ~polled /\ polled' = TRUE
  /\ net' = net \cup {Request("recent", {})}
  /\ UNCHANGED <<serverVars, now, pageVars, lost, historyVars>>

\* A period passes: what the page has to do by then is done. Requests may take any time.
Delayed == \E m \in net : now - m.sent >= MaxDelay

tick ==
  /\ now < MaxTime /\ polled /\ ~refilterTimer
  /\ now' = now + 1 /\ polled' = FALSE
  /\ IF Delayed THEN events + lost < MaxEvents /\ events' = events + 1 /\ slow' = TRUE
                ELSE UNCHANGED <<events, slow>>
  /\ UNCHANGED <<server, since, net, pageVars, lost, unnamed, listLost>>

-----------------------------------------------------------------------------

Next ==
  \/ \E id \in Id, there \in {"present", "removed"}, status \in Status, meta \in BOOLEAN :
       change(id, there, status, meta)
  \/ \E m \in net : answer(m) \/ lose(m) \/ updateFromTorrentGet(m)
  \/ refilter
  \/ \E f \in Filter : setFilterMode(f)
  \/ refreshTorrents
  \/ tick

Spec == Init /\ [][Next]_vars

-----------------------------------------------------------------------------
(* Properties *)

\* Refiltering the dirty rows alone gives what rebuilding the list would: among the torrents that
\* are not dirty, the rows are those that pass the filter, each once, in order (refilter).
RowsInv ==
  /\ TypeOK
  /\ ToSet(rows) \ dirty = {id \in Has \ dirty : passes(torrents[id], filter)}
  /\ \A i, j \in DOMAIN rows :
       i < j /\ {rows[i], rows[j]} \cap dirty = {} => Before(torrents, rows[i], rows[j])

\* What the page can rely on: no request has taken longer than MaxDelay, and the server tells of
\* a change for long enough that a poll later than all answers of before it gets through.
Timely == ~slow /\ Window >= 2 * MaxDelay + 1 + lost

\* The window of a torrent's last change has passed, or the page is as old as that if the torrent
\* has not changed since it was loaded; then the page was told of it by the one request for all.
Settled(id) ==
  IF since[id] >= 0 THEN now > since[id] + Window ELSE now > Window /\ ~listLost

\* What the page has of a torrent is what the server has.
InView(id) ==
  /\ id \in Has <=> id \in Present
  /\ id \in Present => torrents[id].status = server[id].status

\* A change at the server is on the page before the server stops telling of it, and a torrent at
\* which nothing happens is on it unless the first request was lost, however answers are late,
\* overtaken or lost within what the page can rely on: the page has the torrent as it is, or no
\* longer has it (initializeTorrents, refreshTorrents, updateFromTorrentGet).
ViewIsFresh == Timely => \A id \in Id : Settled(id) => InView(id)

\* What the page has come to know so is also shown, and what it shows is so: no row is left dirty
\* for want of a refilter (refilterSoon).
ViewIsShown ==
  Timely /\ ~refilterTimer =>
    \A id \in Id : Settled(id) =>
      (id \in ToSet(rows) <=> id \in Present /\ (filter = "all" \/ server[id].status = Stopped))

\* "new torrents! get their initial information" (transmission.js:745): a torrent without its
\* name, or with that of a link though its metadata is there, has been asked about, and the
\* answer is under way or was lost, unless the server has it no more.
NameIsAsked ==
  \A id \in Has \cap Present :
    torrents[id].name = "none" \/ (torrents[id].meta /\ torrents[id].name = "link") =>
      id \in unnamed \/ \E m \in net : m.kind # "recent" /\ id \in m.ids
=============================================================================
