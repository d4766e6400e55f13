------------------------------ MODULE MCDaemon ------------------------------
(* Instances of Daemon: three values, so that file, option and request can differ. *)
EXTENDS Daemon

CONSTANTS v1, v2, v3

MCValue == {v1, v2, v3}
=============================================================================
