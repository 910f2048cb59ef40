---------------------------- MODULE CandidateLink ----------------------------
(***************************************************************************)
(* What the signalling service promises each party about the ICE           *)
(* candidates of the other: a link that delivers what was accepted, once   *)
(* each and in the order in which it was accepted, however often posts and *)
(* reads are retried.  Signaling.tla implements it with a log and a cursor *)
(* per reader.                                                             *)
(***************************************************************************)
EXTENDS Naturals, Sequences

CONSTANTS Links, Candidates

VARIABLES accepted, delivered

Init ==
    /\ accepted = [l \in Links |-> << >>]
    /\ delivered = [l \in Links |-> << >>]

\* A candidate is accepted once.
Accept(l, c) ==
    /\ \A i \in DOMAIN accepted[l] : accepted[l][i] # c
    /\ accepted' = [accepted EXCEPT ![l] = Append(@, c)]
    /\ UNCHANGED delivered

\* A batch of what follows is delivered.
Deliver(l) ==
    \E n \in (Len(delivered[l]) + 1) .. Len(accepted[l]) :
        /\ delivered' = [delivered EXCEPT ![l] = SubSeq(accepted[l], 1, n)]
        /\ UNCHANGED accepted

Next == \E l \in Links : Deliver(l) \/ \E c \in Candidates : Accept(l, c)

Spec == Init /\ [][Next]_<<accepted, delivered>>
=============================================================================
