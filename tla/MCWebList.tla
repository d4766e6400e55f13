------------------------------ MODULE MCWebList ------------------------------
(* Instances of WebList: a torrent has last changed long before the page was loaded. *)
EXTENDS WebList

MCAges == {5}
=============================================================================
