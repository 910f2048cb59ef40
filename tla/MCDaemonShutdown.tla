-------------------------- MODULE MCDaemonShutdown --------------------------
(* DaemonShutdown on a small instance; the .cfg file gives the constants. *)
EXTENDS DaemonShutdown, TLC

Symmetry == Permutations(Ids) \cup Permutations(Clients)
=============================================================================
