------------------------------ MODULE MCDaemon ------------------------------
(* Daemon on a small instance; MCDaemon.cfg gives the constants. *)
EXTENDS Daemon, TLC

Symmetry == Permutations(Ids) \cup Permutations(Clients)
            \cup Permutations(Tokens) \cup Permutations(OpTokens)

HandoffTokenUsed ==
    \E g \in Gens : retired[g] # << >> \/ \E t \in Tokens : pending[g][t] # None
StartTokenUsed ==
    \/ reopened # {}
    \/ \E o \in OpTokens : ledger[o] # NoEntry
    \/ \E c \in Clients : startRefused[c] # None
    \/ \E g \in Gens : origin[g] # None

(* The handoffs of the fence and the start ledger share the session map and  *)
(* the guards, and nothing else: TLC explores the behaviours that use tokens *)
(* of one kind, and stops at the first state that has used both.             *)
OneKindOfToken == ~ (HandoffTokenUsed /\ StartTokenUsed)
=============================================================================
