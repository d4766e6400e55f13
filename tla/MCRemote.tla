------------------------------ MODULE MCRemote ------------------------------
(* Instances of Remote. Left out are the kinds that do to the requests and to the torrents what    *)
(* another one does: "verify" (as "get") and "session" (as "list", with nothing to flush before).  *)
EXTENDS Remote
MCKind == AllKinds \ {"verify", "session"}
=============================================================================
