--------------------------- MODULE MCOrderService ---------------------------
(* Two orders in one process and a third in another, the first and the     *)
(* third of one user: the two processes draw the same random digits, so    *)
(* these two have the same number if they get the same digits of the       *)
(* sequence.                                                               *)
EXTENDS OrderService, TLC

CONSTANTS o1, o2, o3, p1, p2

MCUsers == o1 :> 1 @@ o2 :> 2 @@ o3 :> 1
MCProcs == o1 :> p1 @@ o2 :> p1 @@ o3 :> p2
=============================================================================
