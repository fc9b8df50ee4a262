---------------------------- MODULE MCResilience ----------------------------
(***************************************************************************)
(* The instance of package internal/resilience for TLC.  The circuit       *)
(* breaker and the write rate limiter share no variable and neither calls  *)
(* the other, so a behaviour follows one of them from the start to the end *)
(* while the other rests.                                                  *)
(***************************************************************************)
EXTENDS CircuitBreaker, WriteRateLimiter, TLC

CONSTANTS c1, c2

VARIABLE part  \* the component this behaviour follows

PartInit == Init /\ BucketInit /\ part \in {"breaker", "limiter"}

PartNext ==
    /\ \/ part = "breaker" /\ Next /\ UNCHANGED bucketVars
       \/ part = "limiter" /\ BucketNext /\ UNCHANGED vars
    /\ UNCHANGED part

PartSpec ==
    /\ PartInit /\ [][PartNext]_<<vars, bucketVars, part>>
    /\ part = "breaker" => Fairness /\ Traffic
=============================================================================
