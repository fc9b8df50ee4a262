-------------------------- MODULE MCCircuitBreaker --------------------------
(* CircuitBreaker with a history of its probes, for TLC.                    *)
EXTENDS CircuitBreaker, TLC

CONSTANTS c1, c2, c3

VARIABLE probes  \* the requests Allow has let through to MySQL since the
                 \* breaker is half open

ProbesInit == Init /\ probes = {}

\* The requests that are sent to Kafka after all.
Diverted == {c \in Callers : pc[c] = "call" /\ pc'[c] = "idle"}

ProbesNext ==
    \/ \E c \in Callers :
           /\ Allow(c)
           /\ probes' = IF state = "HALF_OPEN" THEN probes \cup {c} ELSE probes
    \/ NextOther /\ probes' = IF state' = state THEN probes \ Diverted ELSE {}

ProbesSpec == ProbesInit /\ [][ProbesNext]_<<vars, probes>>

\* A half-open breaker lets at most maxRequests requests through, as the comment
\* on maxRequests and the documentation have it (Allow).  A request that finishes
\* and comes again is counted once, so this is the weakest form of the claim.
HalfOpenLimit == Cardinality(probes) <= MaxRequests
=============================================================================
