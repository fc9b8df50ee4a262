--------------------------- MODULE MCSearchIndex ---------------------------
(* The instance of SearchIndex for TLC: all writes are of one profile.  The  *)
(* first sets all its fields, the second has no bio, the third is empty but  *)
(* for the common fields; what a profile omits its $set leaves alone.        *)
EXTENDS SearchIndex

CONSTANTS r1, r2, r3, d1, bio, tags

OneDoc == [r \in Requests |-> d1]

Filled == [r \in Requests |-> CASE r = r1 -> Fields [] r = r2 -> {tags} [] r = r3 -> {}]

Omitted == [r \in Requests |-> Fields \ Filled[r]]
=============================================================================
