----------------------------- MODULE MCChildReap -----------------------------
(***************************************************************************)
(* An instance of ChildReap for TLC.                                       *)
(***************************************************************************)
EXTENDS ChildReap
=============================================================================
