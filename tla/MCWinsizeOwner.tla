--------------------------- MODULE MCWinsizeOwner ---------------------------
(* TLC instances of WinsizeOwner.  Connections and sessions are symmetric: no *)
(* action orders them.                                                        *)
EXTENDS WinsizeOwner, TLC

(* Without failed writes no action reads the files or what the poll remembers  *)
(* of them, nor the history in unseen, so the run that says nothing about them *)
(* identifies states that differ only there.  What the host was shown, what is  *)
(* published and what lapsed since matter only to a lease that is not stale.   *)
ToReclaim(s) ==
    IF held[s].exact THEN <<TRUE, held[s], adapter[s], s \in lapsed>>
    ELSE <<FALSE, held[s].shown # {}>>
WithoutFiles == <<ownerVars, conn, op, linkVars, [s \in Sess |-> ToReclaim(s)], wrong>>

Symmetry == Permutations(Conn) \cup Permutations(Sess)
=============================================================================
