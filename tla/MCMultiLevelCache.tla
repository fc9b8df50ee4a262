------------------------- MODULE MCMultiLevelCache -------------------------
(* Instances of MultiLevelCache for TLC.                                    *)
EXTENDS MultiLevelCache, TLC

CONSTANTS p1, p2, r1, w1, w2, v1, v2

OnePod  == [x \in {r1, w1} |-> p1]
TwoPods == (r1 :> p1) @@ (w1 :> p1) @@ (w2 :> p2)
=============================================================================
