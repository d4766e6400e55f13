------------------------------- MODULE Remote -------------------------------
(***************************************************************************)
(* The remote control tool (remote.c): it takes its options one by one and *)
(* gathers changes in up to three requests, one that sets the session, one *)
(* that sets the current torrents and one that adds a torrent, which it    *)
(* sends when a later option makes it, or at the end; other options send a *)
(* request of their own at once. The answer to an addition makes the torrent *)
(* added the current one. The server refuses a request without its session *)
(* id (HTTP status 409) and the tool sends it again with the new one.      *)
(*                                                                         *)
(* Options are told apart by what they do to the requests; an option's     *)
(* place among those taken stands for its argument.                        *)
(***************************************************************************)
EXTENDS Integers, Sequences, FiniteSets

CONSTANTS
  Torrents,    \* the torrents 1..Torrents are there when the tool starts
  Kind,        \* the kinds of options the user gives
  MaxOptions,  \* bound: options taken
  MaxTrouble   \* bound: requests or answers lost or refused, and changes of the session id

Nobody == 0     \* the torrent -1, which nothing has, and no current torrent
Session == -1   \* where a change of the session goes

\* add, TR_OPT_UNK, torrent, find, and one kind for each mode of getOptMode. "start" is also for
\* stop, "remove" for move, "verify" for reannounce, "session" for the requests of the session;
\* "number" has an argument that is none, "version" also stands for authenv without TR_AUTH.
AllKinds == {"add", "file", "torrent", "sset", "limit", "tset", "files", "dir", "find", "start",
             "get", "list", "verify", "remove", "session", "number", "version"}

ASSUME RemoteAssumption ==
  /\ Torrents \in Nat \ {0} /\ Kind \subseteq AllKinds
  /\ MaxOptions \in Nat /\ MaxTrouble \in Nat

Option == 1..MaxOptions
Target == {Session} \cup (Nobody..Torrents + MaxOptions)

VARIABLES
  phase,      \* taking options, sending what is left, or ended, by an exit or at the end
  opt,        \* the option being processed, "none" between options
  arg,        \* the torrent the option names
  work,       \* requests to be sent, in this order, before anything else
  id,         \* the current torrent
  sset, tset, \* options in the pending requests; an empty set for a null pointer
  tadd,       \* the pending addition: its option (0 for none), file and other options
  top,        \* a request of an option of its own
  status,     \* the exit status
  sessionId,  \* the session id the tool has; 0 for none
  serverId,   \* the server's
  torrents,   \* how many torrents the server has had
  trouble,
  given,      \* history: the options taken, each with the state it was given in
  replaced,   \* history: the options whose key another one of the same request has taken
  reached     \* history: for each option, the targets its change was applied to

requestVars == <<sset, tset, tadd, top, replaced>>
serverVars == <<serverId, torrents, reached>>
vars == <<phase, opt, arg, work, id, requestVars, status, sessionId, serverVars, trouble, given>>

NoAdd == [n |-> 0, file |-> 0, with |-> {}]
NoTop == [n |-> 0, target |-> Nobody]
Taken == DOMAIN given

Pending(r) ==
  \/ r = "sset" /\ sset # {}
  \/ r = "tset" /\ tset # {}
  \/ r = "tadd" /\ tadd.n # 0
  \/ r = "top" /\ top.n # 0

TypeOK ==
  /\ phase \in {"options", "last", "done", "exit"}
  /\ opt \in Kind \cup {"none"} /\ arg \in Nobody..Torrents
  /\ work \in Seq({"sset", "tset", "tadd", "top"}) /\ Len(work) <= 3
  /\ \A i \in DOMAIN work : Pending(work[i])
  /\ id \in Target \ {Session}
  /\ sset \subseteq Option /\ tset \subseteq Option
  /\ tadd \in [n : Option \cup {0}, file : Option \cup {0}, with : SUBSET Option]
  /\ top \in [n : Option \cup {0}, target : Target]
  /\ status \in {0, 1} /\ sessionId \in 0..serverId /\ serverId \in 1..MaxTrouble + 1
  /\ torrents \in Torrents..Torrents + MaxOptions /\ trouble \in 0..MaxTrouble
  /\ given \in Seq([kind : Kind, cur : Target, add : Option \cup {0}]) /\ Len(given) <= MaxOptions
  /\ replaced \subseteq Option /\ reached \in [Option -> Seq(Target)]

Init ==
  /\ phase = "options" /\ opt = "none" /\ arg = Nobody /\ work = <<>> /\ id = Nobody
  /\ sset = {} /\ tset = {} /\ tadd = NoAdd /\ top = NoTop
  /\ status = 0 /\ sessionId = 0 /\ serverId = 1 /\ torrents = Torrents /\ trouble = 0
  /\ given = <<>> /\ replaced = {} /\ reached = [n \in Option |-> <<>>]

-----------------------------------------------------------------------------
(* Options: what is sent before one takes effect, and its effect *)

Due(r) == IF Pending(r) THEN <<r>> ELSE <<>>

\* Mutant: the changes of the current torrent are not sent before another becomes current.
DueBeforeMutTorrent(k) ==
  CASE k = "add" -> Due("sset") \o Due("tadd") \o Due("tset")
    [] k = "torrent" -> Due("tadd")
    [] k \in {"get", "list", "verify"} -> Due("tset")
    [] OTHER -> <<>>

\* Mutant: the changes of the current torrent are not sent before it is asked about.
DueBeforeMutGet(k) ==
  CASE k = "add" -> Due("sset") \o Due("tadd") \o Due("tset")
    [] k = "torrent" -> Due("tadd") \o Due("tset")
    [] k \in {"list", "verify"} -> Due("tset")
    [] OTHER -> <<>>

DueBefore(k) ==
  CASE k = "add" -> Due("sset") \o Due("tadd") \o Due("tset")
    [] k = "torrent" -> Due("tadd") \o Due("tset")
    [] k \in {"get", "list", "verify"} -> Due("tset")
    [] OTHER -> <<>>

\* tr_getopt has another option.
getopt(k, t) ==
  /\ phase = "options" /\ opt = "none" /\ work = <<>> /\ Len(given) < MaxOptions
  /\ k # "torrent" => t = Nobody
  /\ opt' = k /\ arg' = t /\ work' = DueBefore(k)
  /\ UNCHANGED <<phase, id, requestVars, status, sessionId, serverVars, trouble, given>>

\* The option's number while it takes effect.
Number == Len(given) + 1

Take(k) ==
  /\ phase = "options" /\ opt = k /\ work = <<>>
  /\ opt' = "none" /\ arg' = Nobody
  /\ given' = Append(given, [kind |-> k, cur |-> id, add |-> tadd.n])
  /\ UNCHANGED <<sessionId, serverVars, trouble>>

add ==
  /\ Take("add") /\ tadd' = [n |-> Number, file |-> 0, with |-> {}]
  /\ UNCHANGED <<phase, work, id, sset, tset, top, replaced, status>>

\* TR_OPT_UNK: a file or URL to add; without an addition, an unknown option. A second one of an
\* addition replaces the first.
file ==
  /\ Take("file")
  /\ IF tadd.n # 0 THEN tadd' = [tadd EXCEPT !.file = Number] /\ status' = status
                   ELSE tadd' = tadd /\ status' = 1
  /\ UNCHANGED <<phase, work, id, sset, tset, top, replaced>>

torrent ==
  /\ Take("torrent") /\ id' = arg
  /\ UNCHANGED <<phase, work, requestVars, status>>

\* Options that may have the same key in a request: the kinds stand for several keys each, but
\* for those of the download directory (-w and --find) and of "paused" (-s and -S).
Key(k) == IF k = "find" THEN "dir" ELSE k

Earlier(r) ==
  {m \in IF r = "sset" THEN sset ELSE IF r = "tset" THEN tset ELSE tadd.with :
     Key(given[m].kind) = Key(opt)}

SameKey(r) ==
  IF opt \in {"dir", "find", "start"} THEN {Earlier(r)} ELSE {{}} \cup {{m} : m \in Earlier(r)}

\* The pending request an option's change goes to. The request is a dictionary: an option with
\* the key of an earlier one takes its place, also where the value is a list (files, trackers).
Gather(r) ==
  \E same \in SameKey(r) :
    /\ sset' = IF r = "sset" THEN (sset \ same) \cup {Number} ELSE sset
    /\ tset' = IF r = "tset" THEN (tset \ same) \cup {Number} ELSE tset
    /\ tadd' = IF r = "tadd" THEN [tadd EXCEPT !.with = (@ \ same) \cup {Number}] ELSE tadd
    /\ replaced' = replaced \cup same
    /\ UNCHANGED <<phase, work, id, top, status>>

sessionSet == Take("sset") /\ Gather("sset")

torrentSet == Take("tset") /\ Gather("tset")

\* The limits of speed and peers: of the current torrent, or global.
limit == Take("limit") /\ Gather(IF id # Nobody THEN "tset" ELSE "sset")

\* Files wanted and their priorities, the torrent's own, trackers.
filesSet == Take("files") /\ Gather(IF tadd.n # 0 THEN "tadd" ELSE "tset")

downloadDir == Take("dir") /\ Gather(IF tadd.n # 0 THEN "tadd" ELSE "sset")

\* A request of its own.
Send(target) ==
  /\ top' = [n |-> Number, target |-> target] /\ work' = <<"top">>
  /\ UNCHANGED <<phase, id, sset, tset, tadd, replaced, status>>

\* start and stop are of the torrent being added, if there is one.
start ==
  /\ Take("start")
  /\ IF tadd.n # 0 THEN Gather("tadd") ELSE Send(id)

\* --find is the directory of the torrent being added, or a request of its own whose "break"
\* leaves the loop over the options: those that follow are never looked at.
find ==
  /\ Take("find")
  /\ IF tadd.n # 0 THEN Gather("tadd")
     ELSE /\ top' = [n |-> Number, target |-> id]
          /\ phase' = "last" /\ work' = <<"top">> \o (Due("tset") \o Due("sset"))
          /\ UNCHANGED <<id, sset, tset, tadd, replaced, status>>

\* torrent-get of the current torrent, verify and reannounce, remove and move.
ask == \E k \in {"get", "verify", "remove"} : Take(k) /\ Send(id)

sessionAsk == \E k \in {"list", "session"} : Take(k) /\ Send(Session)

\* numarg: exit with what is pending not sent. "version" leaves with 0.
leave ==
  \E k \in {"number", "version"} :
    /\ Take(k) /\ phase' = "exit" /\ status' = IF k = "number" THEN 1 ELSE 0
    /\ UNCHANGED <<work, id, requestVars>>

\* Mutant: the session's changes are sent by options only.
finishMut ==
  /\ phase = "options" /\ opt = "none" /\ work = <<>>
  /\ phase' = "last" /\ work' = Due("tadd") \o Due("tset")
  /\ UNCHANGED <<opt, arg, id, requestVars, status, sessionId, serverVars, trouble, given>>

\* There are no more options: the end of processArgs.
finish ==
  /\ phase = "options" /\ opt = "none" /\ work = <<>>
  /\ phase' = "last" /\ work' = Due("tadd") \o Due("tset") \o Due("sset")
  /\ UNCHANGED <<opt, arg, id, requestVars, status, sessionId, serverVars, trouble, given>>

end ==
  /\ phase = "last" /\ work = <<>> /\ phase' = "done"
  /\ UNCHANGED <<opt, arg, work, id, requestVars, status, sessionId, serverVars, trouble, given>>

-----------------------------------------------------------------------------
(* flush: sending the first request due *)

\* The request is freed whatever came of it.
Free(r) ==
  /\ work' = Tail(work)
  /\ sset' = IF r = "sset" THEN {} ELSE sset
  /\ tset' = IF r = "tset" THEN {} ELSE tset
  /\ tadd' = IF r = "tadd" THEN NoAdd ELSE tadd
  /\ top' = IF r = "top" THEN NoTop ELSE top
  /\ replaced' = replaced

\* Mutant: the header of the refusal is not looked at.
refusedMut ==
  /\ work # <<>> /\ sessionId # serverId
  /\ UNCHANGED vars

\* 409, and parseResponseHeader: the request stays and is sent again.
refused ==
  /\ work # <<>> /\ sessionId # serverId /\ sessionId' = serverId
  /\ UNCHANGED <<phase, opt, arg, work, id, requestVars, status, serverVars, trouble, given>>

\* The options whose changes a request has, and where the server applies them; addIdArg gives the
\* current torrent.
Carried(r) == CASE r = "sset" -> sset
                [] r = "tset" -> tset
                [] r = "tadd" -> {tadd.n, tadd.file} \cup tadd.with
                [] r = "top" -> {top.n}
Goal(r) == CASE r = "sset" -> Session
             [] r = "tset" -> id
             [] r = "tadd" -> torrents + 1
             [] r = "top" -> top.target

\* The server applies the request.
Apply(r) ==
  /\ reached' = [n \in Option |-> IF n \in Carried(r) THEN Append(reached[n], Goal(r)) ELSE reached[n]]
  /\ torrents' = IF r = "tadd" THEN torrents + 1 ELSE torrents

\* It says so, and processResponse takes the torrent added as the current one.
served ==
  /\ work # <<>> /\ sessionId = serverId
  /\ Head(work) = "tadd" => tadd.file # 0
  /\ Apply(Head(work)) /\ Free(Head(work))
  /\ id' = IF Head(work) = "tadd" THEN torrents + 1 ELSE id
  /\ UNCHANGED <<phase, opt, arg, status, sessionId, serverId, trouble, given>>

\* The answer is lost or comes after the timeout.
unanswered ==
  /\ work # <<>> /\ sessionId = serverId /\ trouble < MaxTrouble
  /\ Head(work) = "tadd" => tadd.file # 0
  /\ Apply(Head(work)) /\ Free(Head(work)) /\ status' = 1 /\ trouble' = trouble + 1
  /\ UNCHANGED <<phase, opt, arg, id, sessionId, serverId, given>>

\* The request is lost, or the server says it failed: always so for an addition without a file.
failed ==
  /\ work # <<>>
  /\ IF Head(work) = "tadd" /\ tadd.file = 0
     THEN sessionId = serverId /\ trouble' = trouble
     ELSE trouble < MaxTrouble /\ trouble' = trouble + 1
  /\ Free(Head(work)) /\ status' = 1
  /\ UNCHANGED <<phase, opt, arg, id, sessionId, serverVars, given>>

flush == refused \/ served \/ unanswered \/ failed

\* The server's session id changes every hour.
rotate ==
  /\ phase \in {"options", "last"} /\ trouble < MaxTrouble
  /\ serverId' = serverId + 1 /\ trouble' = trouble + 1
  /\ UNCHANGED <<phase, opt, arg, work, id, requestVars, status, sessionId, torrents, reached, given>>

-----------------------------------------------------------------------------

processArgs ==
  \/ \E k \in Kind, t \in Nobody..Torrents : getopt(k, t)
  \/ add \/ file \/ torrent \/ sessionSet \/ torrentSet \/ limit \/ filesSet \/ downloadDir
  \/ find \/ start \/ ask \/ sessionAsk \/ leave \/ finish \/ end
  \/ flush

Next == processArgs \/ rotate

Spec == Init /\ [][Next]_vars

FairSpec == Spec /\ WF_vars(processArgs)

-----------------------------------------------------------------------------
(* Properties *)

\* A change goes to the session, or to the torrent that was current when its option was given or
\* the one that was then being added, and to no other, whatever becomes current before it is sent
\* (processArgs and flush, with the id that processResponse sets).
ChangeReachesItsTorrent ==
  \A n \in Taken : \A i \in DOMAIN reached[n] :
    \/ reached[n][i] \in {Session, given[n].cur}
    \/ LET a == IF given[n].kind = "add" THEN n ELSE given[n].add
       IN  a # 0 /\ reached[n][i] \in {reached[a][j] : j \in DOMAIN reached[a]}

\* Options without an effect at the server, those whose key a later one of the request has
\* taken, and files that another of the same addition replaced.
Silent(n) ==
  \/ given[n].kind \in {"torrent", "number", "version"}
  \/ /\ n \in replaced
     /\ \E m \in Taken : m > n /\ Key(given[m].kind) = Key(given[n].kind)
  \/ /\ given[n].kind = "file"
     /\ \E m \in Taken : m > n /\ given[m].kind = "file" /\ given[m].add = given[n].add

\* No change is applied twice, though requests are sent again; and when processArgs returns
\* EXIT_SUCCESS every change of an option it has taken was applied, unless a later option with
\* the same key took its place before the request was sent (flush). Options that follow a --find
\* are not among those taken.
ExactlyOnce ==
  \A n \in Taken :
    /\ Len(reached[n]) <= 1
    /\ phase = "done" /\ status = 0 => Len(reached[n]) = 1 \/ Silent(n)

\* The requests that wait are those that flush was given, each change waits in one of them
\* (TypeOK), and no change that was taken is applied twice or forgotten (flush).
OnceInv == TypeOK /\ ExactlyOnce

\* The change of an option that goes to torrent-set of the current torrent.
ForTorrent(n) ==
  \/ given[n].kind = "tset"
  \/ given[n].kind = "limit" /\ given[n].cur # Nobody
  \/ given[n].kind = "files" /\ given[n].add = 0

\* What is shown or verified is the torrent with the changes given before: once the server has
\* been asked none of them is pending, and as long as the tool has met no failure each has been
\* applied, or its key was taken by another ("if( tset != 0 )" before MODE_TORRENT_GET,
\* reannounce and verify).
SetBeforeGet ==
  \A m \in Taken :
    given[m].kind \in {"get", "list", "verify"} /\ reached[m] # <<>> =>
      \A n \in Taken : n < m /\ ForTorrent(n) =>
        /\ n \notin tset
        /\ status = 0 /\ phase # "exit" => Len(reached[n]) = 1 \/ Silent(n)

\* The tool ends, with the server's id changing now and then: a request that is refused is sent
\* with the id the refusal came with (parseResponseHeader).
Ends == <>(phase \in {"done", "exit"})
=============================================================================
