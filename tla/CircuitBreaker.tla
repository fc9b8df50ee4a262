--------------------------- MODULE CircuitBreaker ---------------------------
(***************************************************************************)
(* The circuit breaker of the write path, at the granularity of its atomic *)
(* counters and critical sections.  Request goroutines call Allow, write   *)
(* to MySQL and record the outcome; windowResetLoop clears the counters    *)
(* one at a time; stateTransitionLoop holds mu while it reads counters     *)
(* that the others keep changing without it.                               *)
(*                                                                         *)
(* Source: internal/resilience/circuit_breaker.go; the callers are         *)
(* CreateOrder, createSync and CreateOrderForceSync of                     *)
(* internal/service/order_service.go; ReadinessHandler of                  *)
(* internal/health/health.go decides whether requests come.                *)
(*                                                                         *)
(* successCount, slowCount and lastFailureTime feed Metrics only and are   *)
(* left out.  Time is counted in ticks and age stops at Timeout + 1.       *)
(***************************************************************************)
EXTENDS Naturals, FiniteSets

CONSTANTS
    Callers,      \* request goroutines
    MaxRequests,  \* maxRequests
    Timeout,      \* timeout, in ticks
    FailNum,      \* failureRate = FailNum / FailDen
    FailDen,
    MaxCount      \* bound: calls counted in one window

ASSUME BreakerAssumption ==
    /\ IsFiniteSet(Callers)
    /\ MaxRequests \in Nat \ {0}
    /\ Timeout \in Nat
    /\ FailNum \in Nat \ {0} /\ FailDen \in Nat \ {0}
    /\ MaxCount \in Nat

VARIABLES
    state,          \* cb.state
    halfOpenCount,  \* cb.halfOpenCount
    age,            \* time.Since(lastStateChange)
    failureCount,   \* cb.failureCount
    totalCount,     \* cb.totalCount
    pc,             \* where each request goroutine is
    resetPc,        \* windowResetLoop: "wait", "total", "done"
    loopPc,         \* stateTransitionLoop: "wait", "failure", "decide", "done"
    seenTotal,      \* the first load of currentFailureRate
    seenFailure,    \* its second load
    stopped,        \* stopCh is closed
    dbUp            \* environment: MySQL accepts writes

breaker  == <<state, halfOpenCount, age>>
counters == <<failureCount, totalCount>>
loops    == <<resetPc, loopPc, seenTotal, seenFailure, stopped>>
vars     == <<state, halfOpenCount, age, failureCount, totalCount, pc, resetPc,
              loopPc, seenTotal, seenFailure, stopped, dbUp>>

States == {"CLOSED", "OPEN", "HALF_OPEN"}

\* stateTransitionLoop keeps mu from its tick to its decision.
MuFree == loopPc \notin {"failure", "decide"}

Init ==
    /\ state = "CLOSED"
    /\ halfOpenCount = 0
    /\ age = 0
    /\ failureCount = 0
    /\ totalCount = 0
    /\ pc = [c \in Callers |-> "idle"]
    /\ resetPc = "wait"
    /\ loopPc = "wait"
    /\ seenTotal = 0
    /\ seenFailure = 0
    /\ stopped = FALSE
    /\ dbUp = TRUE

\* transitionTo; the window counters are not cleared.
transitionTo(newState) ==
    /\ state' = newState
    /\ age' = 0
    /\ halfOpenCount' = 0

-----------------------------------------------------------------------------
(* Request goroutines.                                                     *)

InFlight == {c \in Callers : pc[c] # "idle"}

\* The bound of the model: a request starts only if the window can count it.
Countable == totalCount + Cardinality(InFlight) < MaxCount

Goto(c, label) == pc' = [pc EXCEPT ![c] = label]

Allowed ==
    \/ state = "CLOSED"
    \/ state = "OPEN" /\ age > Timeout
    \/ state = "HALF_OPEN" /\ halfOpenCount < MaxRequests

\* Allow returns true.  When it returns false the order goes to Kafka and the
\* breaker is not touched.
Allow(c) ==
    /\ pc[c] = "idle"
    /\ Countable
    /\ MuFree
    /\ Allowed
    /\ Goto(c, "call")
    /\ UNCHANGED <<breaker, counters, loops, dbUp>>

\* CreateOrderForceSync writes and records without asking the breaker.
ForceSync(c) ==
    /\ pc[c] = "idle"
    /\ Countable
    /\ Goto(c, "call")
    /\ UNCHANGED <<breaker, counters, loops, dbUp>>

\* After Allow: no token, or no distributed lock.  The order goes to Kafka
\* and nothing is recorded.
Divert(c) ==
    /\ pc[c] = "call"
    /\ Goto(c, "idle")
    /\ UNCHANGED <<breaker, counters, loops, dbUp>>

\* dbWrite succeeds; RecordSuccess has added to totalCount.
WriteOK(c) ==
    /\ pc[c] = "call"
    /\ dbUp
    /\ totalCount' = totalCount + 1
    /\ Goto(c, "success")
    /\ UNCHANGED <<breaker, failureCount, loops, dbUp>>

\* Mutant of Succeed: successes are counted in every state.
SucceedAnyState(c) ==
    /\ pc[c] = "success"
    /\ MuFree
    /\ Goto(c, "idle")
    /\ IF state = "HALF_OPEN" /\ halfOpenCount + 1 >= MaxRequests
       THEN transitionTo("CLOSED")
       ELSE halfOpenCount' = halfOpenCount + 1 /\ UNCHANGED <<state, age>>
    /\ UNCHANGED <<counters, loops, dbUp>>

\* The critical section of RecordSuccess.
Succeed(c) ==
    /\ pc[c] = "success"
    /\ MuFree
    /\ Goto(c, "idle")
    /\ IF state # "HALF_OPEN" THEN UNCHANGED breaker
       ELSE IF halfOpenCount + 1 >= MaxRequests THEN transitionTo("CLOSED")
       ELSE halfOpenCount' = halfOpenCount + 1 /\ UNCHANGED <<state, age>>
    /\ UNCHANGED <<counters, loops, dbUp>>

\* dbWrite fails; RecordFailure has added to failureCount.
WriteFailed(c) ==
    /\ pc[c] = "call"
    /\ ~dbUp
    /\ failureCount' = failureCount + 1
    /\ Goto(c, "failing")
    /\ UNCHANGED <<breaker, totalCount, loops, dbUp>>

\* RecordFailure adds to totalCount.
CountFailure(c) ==
    /\ pc[c] = "failing"
    /\ totalCount' = totalCount + 1
    /\ Goto(c, "failure")
    /\ UNCHANGED <<breaker, failureCount, loops, dbUp>>

\* The last critical section of RecordFailure.
Fail(c) ==
    /\ pc[c] = "failure"
    /\ MuFree
    /\ Goto(c, "idle")
    /\ IF state = "HALF_OPEN" THEN transitionTo("OPEN") ELSE UNCHANGED breaker
    /\ UNCHANGED <<counters, loops, dbUp>>

-----------------------------------------------------------------------------
(* windowResetLoop.                                                        *)

\* The ticker fires: failureCount is stored first ...
ResetFailures ==
    /\ resetPc = "wait"
    /\ failureCount' = 0
    /\ resetPc' = "total"
    /\ UNCHANGED <<breaker, totalCount, pc, loopPc, seenTotal, seenFailure, stopped, dbUp>>

\* ... and totalCount last.
ResetTotal ==
    /\ resetPc = "total"
    /\ totalCount' = 0
    /\ resetPc' = "wait"
    /\ UNCHANGED <<breaker, failureCount, pc, loopPc, seenTotal, seenFailure, stopped, dbUp>>

-----------------------------------------------------------------------------
(* stateTransitionLoop.                                                    *)

\* A tick in CLOSED: lock mu and load totalCount for currentFailureRate.
LoadTotal ==
    /\ loopPc = "wait"
    /\ state = "CLOSED"
    /\ seenTotal' = totalCount
    /\ loopPc' = "failure"
    /\ UNCHANGED <<breaker, counters, pc, resetPc, seenFailure, stopped, dbUp>>

\* Load failureCount, unless the rate is 0 already.
LoadFailure ==
    /\ loopPc = "failure"
    /\ seenFailure' = IF seenTotal = 0 THEN 0 ELSE failureCount
    /\ loopPc' = "decide"
    /\ UNCHANGED <<breaker, counters, pc, resetPc, seenTotal, stopped, dbUp>>

\* rate >= cb.failureRate, with rate = 0 when no call was counted.
RateExceeded ==
    /\ seenTotal > 0
    /\ seenFailure * FailDen >= FailNum * seenTotal

\* Load totalCount again, trip or not, and unlock mu.
Decide ==
    /\ loopPc = "decide"
    /\ IF totalCount > 0 /\ RateExceeded THEN transitionTo("OPEN") ELSE UNCHANGED breaker
    /\ loopPc' = "wait"
    /\ seenTotal' = 0
    /\ seenFailure' = 0
    /\ UNCHANGED <<counters, pc, resetPc, stopped, dbUp>>

\* Mutant of Cool: the timeout is not waited for.
CoolEarly ==
    /\ loopPc = "wait"
    /\ state = "OPEN"
    /\ transitionTo("HALF_OPEN")
    /\ UNCHANGED <<counters, pc, loops, dbUp>>

\* A tick in OPEN after the timeout.  Other ticks do nothing.
Cool ==
    /\ loopPc = "wait"
    /\ state = "OPEN"
    /\ age > Timeout
    /\ transitionTo("HALF_OPEN")
    /\ UNCHANGED <<counters, pc, loops, dbUp>>

-----------------------------------------------------------------------------
(* Lifecycle and environment.                                              *)

\* close(stopCh); requests are still served until the HTTP server drains.
Stop ==
    /\ ~stopped
    /\ stopped' = TRUE
    /\ UNCHANGED <<breaker, counters, pc, resetPc, loopPc, seenTotal, seenFailure, dbUp>>

\* A loop sees stopCh in its select and returns.
EndReset ==
    /\ stopped /\ resetPc = "wait"
    /\ resetPc' = "done"
    /\ UNCHANGED <<breaker, counters, pc, loopPc, seenTotal, seenFailure, stopped, dbUp>>

EndTransitions ==
    /\ stopped /\ loopPc = "wait"
    /\ loopPc' = "done"
    /\ UNCHANGED <<breaker, counters, pc, resetPc, seenTotal, seenFailure, stopped, dbUp>>

\* The clock.
Tick ==
    /\ age <= Timeout
    /\ age' = age + 1
    /\ UNCHANGED <<state, halfOpenCount, counters, pc, loops, dbUp>>

Outage ==
    /\ dbUp' = ~dbUp
    /\ UNCHANGED <<breaker, counters, pc, loops>>

Reset       == ResetFailures \/ ResetTotal
Transitions == LoadTotal \/ LoadFailure \/ Decide \/ Cool
Record(c)   == Succeed(c) \/ CountFailure(c) \/ Fail(c)

NextOther ==
    \/ \E c \in Callers : \/ ForceSync(c) \/ Divert(c)
                          \/ WriteOK(c) \/ WriteFailed(c) \/ Record(c)
    \/ Reset \/ Transitions
    \/ Stop \/ EndReset \/ EndTransitions
    \/ Tick \/ Outage

Next == (\E c \in Callers : Allow(c)) \/ NextOther

Spec == Init /\ [][Next]_vars

\* Mutant of Ready: readiness waits for the breaker to close.
ReadyWhenClosed == state = "CLOSED"

\* ReadinessHandler, while Redis and Kafka answer: Kubernetes sends the pod no
\* requests while the breaker is open.
Ready == state # "OPEN"

\* Time passes, tickers fire and goroutines that record an outcome get mu.
\* A loop's step is enabled again and again rather than for ever because the
\* mutex comes and goes.  Traffic: requests keep coming to a pod that is ready
\* and not every one of them is diverted, an assumption on the clients.
Fairness ==
    /\ WF_vars(Tick)
    /\ WF_vars(ResetFailures) /\ WF_vars(ResetTotal)
    /\ WF_vars(LoadTotal) /\ WF_vars(LoadFailure) /\ WF_vars(Decide)
    /\ SF_vars(Cool)
    /\ \A c \in Callers : SF_vars(Record(c))

Traffic ==
    \A c \in Callers : SF_vars(Ready /\ Allow(c)) /\ SF_vars(WriteOK(c) \/ WriteFailed(c))

FairSpec == Spec /\ Fairness /\ Traffic

-----------------------------------------------------------------------------
(* Properties.                                                             *)

\* The state is well-formed.
TypeOK ==
    /\ state \in States
    /\ halfOpenCount \in 0..MaxRequests
    /\ age \in 0..(Timeout + 1)
    /\ failureCount \in Nat
    /\ totalCount \in Nat
    /\ pc \in [Callers -> {"idle", "call", "success", "failing", "failure"}]
    /\ resetPc \in {"wait", "total", "done"}
    /\ loopPc \in {"wait", "failure", "decide", "done"}
    /\ seenTotal \in Nat
    /\ seenFailure \in Nat
    /\ stopped \in BOOLEAN
    /\ dbUp \in BOOLEAN

\* A half-open breaker has counted fewer than maxRequests successes: the one
\* that completes the number closes it in the same critical section
\* (RecordSuccess).
ProbesPending == state = "HALF_OPEN" => halfOpenCount < MaxRequests

\* The counter of probes belongs to the current half-open period: it is zero
\* in every other state, also when outcomes of requests admitted in an earlier
\* state are recorded late (transitionTo, RecordSuccess, RecordFailure).
ProbesOnlyInHalfOpen == halfOpenCount > 0 => state = "HALF_OPEN"

\* stateTransitionLoop decides about the state it saw when it took mu.
LoopSeesClosed == ~MuFree => state = "CLOSED"

\* The inductive invariant of the proofs.
Inv == TypeOK /\ ProbesPending /\ ProbesOnlyInHalfOpen /\ LoopSeesClosed

\* The breaker keeps the promise of BreakerSpec: every step of the goroutines,
\* in every interleaving, is a step that BreakerSpec allows or none at all.
Abstract == INSTANCE BreakerSpec WITH
    phase <- state, wins <- halfOpenCount, waited <- age

BreakerPromise == Abstract!Promise

\* Once MySQL stays up and the breaker is not stopped, it closes for good,
\* although transitionTo keeps the old window and may reopen it for a while,
\* and although ReadinessHandler keeps the requests away that could close it.
Recovery == (<>[]dbUp /\ []~stopped) => <>[](state = "CLOSED")
=============================================================================
