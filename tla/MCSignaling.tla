----------------------------- MODULE MCSignaling -----------------------------
(***************************************************************************)
(* Instances of Signaling for TLC.                                         *)
(***************************************************************************)
EXTENDS Signaling, TLC

CONSTANTS c1, c2, c3

\* Two candidates of the desktop and one of the browser.
ThreeBlobs == {[from |-> "desktop", cand |-> c1], [from |-> "desktop", cand |-> c2],
               [from |-> "browser", cand |-> c3]}
\* The desktop's candidates and a browser's slots are interchangeable.
Symmetry == Permutations({c1, c2}) \cup Permutations(Slots)
\* No poll has a wake source: the listener and its hints touch nothing it reads.
NoHints == ~ available
\* Only answers matter.
NoBlobs == {}
=============================================================================
