---------------------------- MODULE MCTaskStart ----------------------------
(* TaskStart on a small instance. *)
EXTENDS TaskStart
=============================================================================
