---------------------------- MODULE SessionList ----------------------------
(***************************************************************************)
(* What the transfer list promises, without threads, queues, files or      *)
(* table: libtransmission's session has torrents, at most one for each     *)
(* info hash, and the program lists them. A torrent is known to the        *)
(* session before it is listed, never listed without being known, and a    *)
(* listed one leaves both at the same moment. Transfers implements this    *)
(* module.                                                                 *)
(***************************************************************************)
CONSTANTS Torrent, HashOf

VARIABLES
  known,   \* torrents of the session
  listed   \* torrents of the list

Init == known = {} /\ listed = {}

\* A torrent is made, by the program or by somebody else.
Learn(t) ==
  /\ t \notin known
  /\ \A u \in known : HashOf[u] # HashOf[t]
  /\ known' = known \cup {t}
  /\ UNCHANGED listed

\* The program lists a torrent it has made or learns of one somebody else added.
List(t) ==
  /\ t \in known \ listed
  /\ listed' = listed \cup {t}
  /\ UNCHANGED known

\* Before the program lists any torrent, others may remove what they have added.
Withdraw(t) ==
  /\ t \in known /\ listed = {}
  /\ known' = known \ {t}
  /\ UNCHANGED listed

Forget(t) ==
  /\ t \in listed
  /\ known' = known \ {t}
  /\ listed' = listed \ {t}

Restart == known' = {} /\ listed' = {}

Next ==
  \/ \E t \in Torrent : Learn(t) \/ List(t) \/ Withdraw(t) \/ Forget(t)
  \/ Restart

Spec == Init /\ [][Next]_<<known, listed>>
=============================================================================
