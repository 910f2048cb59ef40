--------------------------- MODULE MCSessionStream ---------------------------
(* SessionStream on small instances.  The .cfg files give the bounds. *)
EXTENDS SessionStream

CONSTANTS size1, size2, look1, look2

OneSize == {size1}
TwoSizes == {size1, size2}
TwoLooks == {look1, look2}
Blank == [size |-> size1, look |-> look1]
==============================================================================
