-------------------------- MODULE Resilience_proofs --------------------------
(***************************************************************************)
(* TLAPS proofs about package internal/resilience.                         *)
(*                                                                         *)
(* CircuitBreaker: its invariants, and that it keeps the promise of        *)
(* BreakerSpec, for any number of request goroutines, any thresholds and   *)
(* any timeout.  WriteRateLimiter: its invariants, for every capacity,     *)
(* rate, number of goroutines and length of time.                          *)
(***************************************************************************)
EXTENDS CircuitBreaker, WriteRateLimiter, TLAPS

-----------------------------------------------------------------------------
(* The inductive invariant of the breaker.                                 *)

LEMMA InitInv == Init => Inv
<1> SUFFICES ASSUME Init PROVE Inv
  OBVIOUS
<1>1. TypeOK
  <2>1. stopped \in BOOLEAN /\ dbUp \in BOOLEAN
    BY DEF Init
  <2> QED
    BY <2>1, BreakerAssumption DEF Init, TypeOK, States
<1>2. ProbesPending /\ ProbesOnlyInHalfOpen
  BY DEF Init, ProbesPending, ProbesOnlyInHalfOpen
<1>3. LoopSeesClosed
  BY DEF Init, LoopSeesClosed
<1> QED
  BY <1>1, <1>2, <1>3 DEF Inv

\* A step that leaves state and halfOpenCount alone keeps the parts of the
\* invariant that speak of them; only the loop's own position matters.
LEMMA QuietInv ==
    ASSUME Inv, TypeOK', state' = state, halfOpenCount' = halfOpenCount,
           MuFree' \/ state = "CLOSED"
    PROVE  Inv'
BY BreakerAssumption
   DEF Inv, TypeOK, ProbesPending, ProbesOnlyInHalfOpen, LoopSeesClosed

\* transitionTo establishes the invariant when mu is given up with the step.
LEMMA TransitionInv ==
    ASSUME Inv, TypeOK', NEW s \in States, transitionTo(s), MuFree'
    PROVE  Inv'
BY BreakerAssumption
   DEF Inv, TypeOK, ProbesPending, ProbesOnlyInHalfOpen,
       LoopSeesClosed, transitionTo, States

LEMMA NextType == TypeOK /\ [Next]_vars => TypeOK'
<1> SUFFICES ASSUME TypeOK, [Next]_vars PROVE TypeOK'
  OBVIOUS
<1> USE BreakerAssumption DEF TypeOK, breaker, counters, loops, States
<1>1. ASSUME NEW c \in Callers, Allow(c) \/ ForceSync(c) \/ Divert(c)
      PROVE TypeOK'
  BY <1>1 DEF Allow, ForceSync, Divert, Goto
<1>2. ASSUME NEW c \in Callers, WriteOK(c) \/ WriteFailed(c) \/ CountFailure(c)
      PROVE TypeOK'
  BY <1>2 DEF WriteOK, WriteFailed, CountFailure, Goto
<1>3. ASSUME NEW c \in Callers, Succeed(c) PROVE TypeOK'
  BY <1>3 DEF Succeed, Goto, transitionTo
<1>4. ASSUME NEW c \in Callers, Fail(c) PROVE TypeOK'
  BY <1>4 DEF Fail, Goto, transitionTo
<1>5. CASE Reset
  BY <1>5 DEF Reset, ResetFailures, ResetTotal
<1>6. CASE LoadTotal \/ LoadFailure
  BY <1>6 DEF LoadTotal, LoadFailure
<1>7. CASE Decide
  BY <1>7 DEF Decide, transitionTo
<1>8. CASE Cool
  BY <1>8 DEF Cool, transitionTo
<1>9. CASE Stop \/ EndReset \/ EndTransitions
  BY <1>9 DEF Stop, EndReset, EndTransitions
<1>10. CASE Tick
  BY <1>10 DEF Tick
<1>11. CASE Outage
  <2>1. dbUp' \in BOOLEAN
    BY <1>11 DEF Outage
  <2> QED
    BY <1>11, <2>1 DEF Outage
<1>12. CASE UNCHANGED vars
  BY <1>12 DEF vars
<1> QED
  BY <1>1, <1>2, <1>3, <1>4, <1>5, <1>6, <1>7, <1>8, <1>9, <1>10, <1>11, <1>12
     DEF Next, NextOther, Record, Transitions

LEMMA NextInv == Inv /\ [Next]_vars => Inv'
<1> SUFFICES ASSUME Inv, [Next]_vars PROVE Inv'
  OBVIOUS
<1>0. TypeOK /\ TypeOK'
  BY NextType DEF Inv
<1> USE BreakerAssumption, <1>0 DEF breaker, counters, loops
<1>1. ASSUME NEW c \in Callers,
             Allow(c) \/ ForceSync(c) \/ Divert(c) \/ WriteOK(c) \/ WriteFailed(c)
                \/ CountFailure(c)
      PROVE Inv'
  BY <1>1, QuietInv
     DEF Allow, ForceSync, Divert, WriteOK, WriteFailed, CountFailure, MuFree,
         Inv, LoopSeesClosed
<1>2. ASSUME NEW c \in Callers, Succeed(c) PROVE Inv'
  <2>1. MuFree'
    BY <1>2 DEF Succeed, MuFree
  <2>2. CASE state # "HALF_OPEN"
    BY <1>2, <2>1, <2>2, QuietInv DEF Succeed
  <2>3. CASE state = "HALF_OPEN" /\ halfOpenCount + 1 >= MaxRequests
    BY <1>2, <2>1, <2>3, TransitionInv DEF Succeed, States
  <2>4. CASE state = "HALF_OPEN" /\ ~(halfOpenCount + 1 >= MaxRequests)
    <3>1. state' = "HALF_OPEN" /\ halfOpenCount' = halfOpenCount + 1
      BY <1>2, <2>4 DEF Succeed
    <3> QED
      BY <3>1, <2>1, <2>4
         DEF Inv, TypeOK, ProbesPending, ProbesOnlyInHalfOpen, LoopSeesClosed
  <2> QED
    BY <2>2, <2>3, <2>4
<1>3. ASSUME NEW c \in Callers, Fail(c) PROVE Inv'
  <2>1. MuFree'
    BY <1>3 DEF Fail, MuFree
  <2>2. CASE state = "HALF_OPEN"
    BY <1>3, <2>1, <2>2, TransitionInv DEF Fail, States
  <2>3. CASE state # "HALF_OPEN"
    BY <1>3, <2>1, <2>3, QuietInv DEF Fail
  <2> QED
    BY <2>2, <2>3
<1>4. CASE Reset
  BY <1>4, QuietInv DEF Reset, ResetFailures, ResetTotal, MuFree, Inv, LoopSeesClosed
<1>5. CASE LoadTotal \/ LoadFailure
  BY <1>5, QuietInv DEF LoadTotal, LoadFailure, MuFree, Inv, LoopSeesClosed
<1>6. CASE Decide
  <2>1. MuFree'
    BY <1>6 DEF Decide, MuFree
  <2>2. CASE totalCount > 0 /\ RateExceeded
    BY <1>6, <2>1, <2>2, TransitionInv DEF Decide, States
  <2>3. CASE ~(totalCount > 0 /\ RateExceeded)
    BY <1>6, <2>1, <2>3, QuietInv DEF Decide
  <2> QED
    BY <2>2, <2>3
<1>7. CASE Cool
  <2>1. MuFree'
    BY <1>7 DEF Cool, MuFree
  <2> QED
    BY <1>7, <2>1, TransitionInv DEF Cool, States
<1>8. CASE Stop \/ EndReset \/ EndTransitions \/ Tick \/ Outage
  BY <1>8, QuietInv
     DEF Stop, EndReset, EndTransitions, Tick, Outage, MuFree, Inv, LoopSeesClosed
<1>9. CASE UNCHANGED vars
  BY <1>9, QuietInv DEF vars, MuFree, Inv, LoopSeesClosed
<1> QED
  BY <1>1, <1>2, <1>3, <1>4, <1>5, <1>6, <1>7, <1>8, <1>9
     DEF Next, NextOther, Record, Transitions

LEMMA SpecInv == Spec => []Inv
<1> QED
  BY InitInv, NextInv, PTL DEF Spec

-----------------------------------------------------------------------------
(* Theorems about the breaker.                                             *)

\* Every counter of the breaker stays in its range.
THEOREM TypeCorrect == Spec => []TypeOK
<1>1. Inv => TypeOK
  BY DEF Inv
<1> QED
  BY <1>1, SpecInv, PTL

\* The comparison of Allow with maxRequests never refuses a request, whatever
\* the number of callers: halfOpenCount counts successes that were recorded, and
\* the one that would reach maxRequests closes the breaker (Allow,
\* RecordSuccess).  So a half-open breaker is never stuck, and neither does it
\* limit its probes: HalfOpenLimit of MCCircuitBreaker is violated for that reason.
THEOREM AllowNeverLimits == Spec => [](state = "HALF_OPEN" => Allowed)
<1>1. Inv => (state = "HALF_OPEN" => Allowed)
  BY DEF Inv, ProbesPending, Allowed
<1> QED
  BY <1>1, SpecInv, PTL

\* A probe count never leaks out of the half-open period it was counted in.
THEOREM ProbesDoNotLeak == Spec => []ProbesOnlyInHalfOpen
<1>1. Inv => ProbesOnlyInHalfOpen
  BY DEF Inv
<1> QED
  BY <1>1, SpecInv, PTL

-----------------------------------------------------------------------------
(* Refinement.                                                             *)

\* A transition the code makes is a step of the promise if the promise knows
\* a transition from the current phase to that one.
LEMMA StepRefines ==
    ASSUME Inv, [Next]_vars
    PROVE  [Abstract!SpecNext]_Abstract!specVars
<1> USE BreakerAssumption
    DEF Abstract!SpecNext, Abstract!specVars, breaker
<1>0. /\ TypeOK
      /\ halfOpenCount \in Nat
      /\ state = "HALF_OPEN" => halfOpenCount < MaxRequests
      /\ LoopSeesClosed
  BY DEF Inv, TypeOK, ProbesPending
<1>1. ASSUME NEW c \in Callers,
             Allow(c) \/ ForceSync(c) \/ Divert(c) \/ WriteOK(c) \/ WriteFailed(c)
                \/ CountFailure(c)
      PROVE UNCHANGED breaker
  BY <1>1 DEF Allow, ForceSync, Divert, WriteOK, WriteFailed, CountFailure
<1>2. ASSUME NEW c \in Callers, Succeed(c)
      PROVE  UNCHANGED breaker \/ Abstract!Win \/ Abstract!Heal
  <2>1. CASE state # "HALF_OPEN"
    BY <1>2, <2>1 DEF Succeed
  <2>2. CASE state = "HALF_OPEN" /\ halfOpenCount + 1 >= MaxRequests
    <3>1. halfOpenCount + 1 = MaxRequests
      BY <2>2, <1>0
    <3> QED
      BY <1>2, <2>2, <3>1 DEF Succeed, transitionTo, Abstract!Heal, Abstract!Enter
  <2>3. CASE state = "HALF_OPEN" /\ ~(halfOpenCount + 1 >= MaxRequests)
    BY <1>2, <2>3, <1>0 DEF Succeed, Abstract!Win
  <2> QED
    BY <2>1, <2>2, <2>3
<1>3. ASSUME NEW c \in Callers, Fail(c)
      PROVE  UNCHANGED breaker \/ Abstract!Relapse
  BY <1>3 DEF Fail, transitionTo, Abstract!Relapse, Abstract!Enter
<1>4. ASSUME Reset \/ LoadTotal \/ LoadFailure PROVE UNCHANGED breaker
  BY <1>4 DEF Reset, ResetFailures, ResetTotal, LoadTotal, LoadFailure
<1>5. ASSUME Decide PROVE UNCHANGED breaker \/ Abstract!Trip
  <2>1. state = "CLOSED"
    BY <1>0, <1>5 DEF Decide, LoopSeesClosed, MuFree
  <2> QED
    BY <1>5, <2>1 DEF Decide, transitionTo, Abstract!Trip, Abstract!Enter
<1>6. ASSUME Cool PROVE Abstract!Cool
  BY <1>6 DEF Cool, transitionTo, Abstract!Cool, Abstract!Enter
<1>7. ASSUME Stop \/ EndReset \/ EndTransitions \/ Outage PROVE UNCHANGED breaker
  BY <1>7 DEF Stop, EndReset, EndTransitions, Outage
<1>8. ASSUME Tick PROVE Abstract!Elapse
  BY <1>8 DEF Tick, Abstract!Elapse
<1>9. ASSUME UNCHANGED vars PROVE UNCHANGED breaker
  BY <1>9 DEF vars
<1> QED
  BY <1>1, <1>2, <1>3, <1>4, <1>5, <1>6, <1>7, <1>8, <1>9
     DEF Next, NextOther, Record, Transitions

\* The breaker, driven by any number of request goroutines and its two loops,
\* implements BreakerSpec: it cools down after every trip and closes only
\* after maxRequests successes reported in one half-open period.
THEOREM KeepsPromise == Spec => BreakerPromise
<1>1. Init => Abstract!SpecInit
  BY DEF Init, Abstract!SpecInit
<1>2. Inv /\ [Next]_vars => [Abstract!SpecNext]_Abstract!specVars
  BY StepRefines
<1> QED
  BY <1>1, <1>2, SpecInv, PTL DEF Spec, BreakerPromise, Abstract!Promise


-----------------------------------------------------------------------------
(* Facts about the refill.                                                 *)

\* Products that occur in the proofs are integers and distribute over sums.
LEMMA Products ==
    ASSUME NEW a \in Int, NEW b \in Int, NEW k \in Int
    PROVE  /\ k * a \in Int
           /\ a * k = k * a
           /\ k * (a + b) = k * a + k * b
           /\ k * (a - b) = k * a - k * b
OBVIOUS

\* A natural rate never takes tokens away as time passes.
LEMMA Accrual ==
    ASSUME NEW a \in Int, NEW b \in Int, a <= b, NEW k \in Nat
    PROVE  k * a <= k * b
OBVIOUS

\* refill leaves between what was there and the capacity.
LEMMA RefilledRange ==
    ASSUME BucketOK, lastRefill <= now
    PROVE  /\ Refilled \in 0..Full
           /\ Refilled <= tokens + RefillRate * (now - lastRefill)
           /\ Refilled # Full => Refilled = tokens + RefillRate * (now - lastRefill)
<1>1. now - lastRefill \in Nat
  BY DEF BucketOK
<1>2. /\ (now - lastRefill) * RefillRate \in Nat
      /\ (now - lastRefill) * RefillRate = RefillRate * (now - lastRefill)
  BY <1>1, LimiterAssumption
<1>3. Full \in Nat
  BY LimiterAssumption DEF Full
<1> QED
  BY <1>2, <1>3 DEF Refilled, BucketOK

-----------------------------------------------------------------------------
(* The inductive invariant of the bucket.                                  *)

LEMMA FullNat == Full \in Nat
BY LimiterAssumption DEF Full

LEMMA BucketInitInv == BucketInit => BucketInv
<1> SUFFICES ASSUME BucketInit PROVE BucketInv
  OBVIOUS
<1> USE LimiterAssumption, FullNat
<1>1. BucketOK
  BY DEF BucketInit, BucketOK
<1>2. RefillRate * 0 = 0 /\ 0 * Scale = 0
  OBVIOUS
<1> QED
  BY <1>1, <1>2 DEF BucketInit, BucketInv, ClockOrder, Budget, NoTokenLost

\* What TryAcquire, WaitAcquire and Tokens have in common: a refill that takes
\* n tokens, which the bucket holds, keeps every part of the invariant.
LEMMA RefillAndTakeInv ==
    ASSUME BucketInv, NEW n \in {0, 1}, n * Scale <= Refilled, RefillAndTake(n),
           UNCHANGED <<now, mark>>, waiting' \subseteq Goroutines
    PROVE  BucketInv'
<1> USE LimiterAssumption, FullNat
<1>0. BucketOK /\ ClockOrder /\ Budget /\ NoTokenLost
  BY DEF BucketInv
<1>1. /\ Refilled \in 0..Full
      /\ Refilled <= tokens + RefillRate * (now - lastRefill)
      /\ Refilled # Full => Refilled = tokens + RefillRate * (now - lastRefill)
  BY <1>0, RefilledRange DEF ClockOrder
<1>2. n \in Nat /\ n * Scale \in Nat
  OBVIOUS
<1>3. /\ now \in Nat /\ lastRefill \in Nat /\ mark \in Nat /\ fullAt \in Nat
      /\ tokens \in Nat /\ granted \in Nat /\ spent \in Nat
  BY <1>0 DEF BucketOK
<1>4. /\ tokens' = Refilled - n * Scale
      /\ lastRefill' = now
      /\ granted' = granted + n
      /\ now' = now /\ mark' = mark
  BY DEF RefillAndTake
<1>5. \/ Refilled = Full /\ fullAt' = now /\ spent' = n
      \/ Refilled # Full /\ fullAt' = fullAt /\ spent' = spent + n
  BY DEF RefillAndTake
<1>6. BucketOK'
  BY <1>0, <1>1, <1>2, <1>3, <1>4, <1>5 DEF BucketOK, Full
<1>7. ClockOrder'
  BY <1>0, <1>3, <1>4, <1>5 DEF ClockOrder
<1>8. /\ (granted + n) * Scale = granted * Scale + n * Scale
      /\ (spent + n) * Scale = spent * Scale + n * Scale
      /\ granted * Scale \in Int /\ spent * Scale \in Int
  BY <1>2, <1>3
<1>9. Budget'
  <2>1. now >= mark
    BY <1>0 DEF ClockOrder
  <2>2. RefillRate * (now - mark) \in Nat
    BY <2>1, <1>3
  <2>3. CASE lastRefill < mark
    <3>1. granted = 0
      BY <1>0, <2>3 DEF Budget
    <3>2. granted' * Scale + tokens' = Refilled
      BY <3>1, <1>1, <1>2, <1>4
    <3>3. granted' * Scale + tokens' <= Full + RefillRate * (now - mark)
      BY <3>2, <2>2, <1>1
    <3> QED
      BY <3>3, <2>1, <1>3, <1>4 DEF Budget, Full
  <2>4. CASE lastRefill >= mark
    <3>1. granted * Scale + tokens <= Full + RefillRate * (lastRefill - mark)
      BY <1>0, <2>4 DEF Budget
    <3>2. /\ RefillRate * (lastRefill - mark) \in Int
          /\ RefillRate * (now - lastRefill) \in Int
          /\ RefillRate * (now - mark)
                = RefillRate * (lastRefill - mark) + RefillRate * (now - lastRefill)
      BY <1>3, Products
    <3>3. granted' * Scale + tokens' = granted * Scale + Refilled
      BY <1>1, <1>2, <1>4, <1>8
    <3>4. granted' * Scale + tokens' <= Full + RefillRate * (now - mark)
      BY <3>1, <3>2, <3>3, <1>1, <1>3, <1>8
    <3> QED
      BY <3>4, <2>1, <1>3, <1>4 DEF Budget, Full
  <2> QED
    BY <2>3, <2>4, <1>3
<1>10. NoTokenLost'
  <2>1. CASE Refilled = Full /\ fullAt' = now /\ spent' = n
    <3>1. RefillRate * (now - now) = 0
      BY <1>3
    <3> QED
      BY <3>1, <2>1, <1>2, <1>4 DEF NoTokenLost, Full
  <2>2. CASE Refilled # Full /\ fullAt' = fullAt /\ spent' = spent + n
    <3>1. /\ RefillRate * (lastRefill - fullAt) \in Int
          /\ RefillRate * (now - lastRefill) \in Int
          /\ RefillRate * (now - fullAt)
                = RefillRate * (lastRefill - fullAt) + RefillRate * (now - lastRefill)
      BY <1>3, Products
    <3>2. Refilled = Full + RefillRate * (lastRefill - fullAt) - spent * Scale
                       + RefillRate * (now - lastRefill)
      BY <2>2, <1>0, <1>1 DEF NoTokenLost
    <3> QED
      BY <3>1, <3>2, <2>2, <1>2, <1>4, <1>8 DEF NoTokenLost, Full
  <2> QED
    BY <2>1, <2>2, <1>5
<1> QED
  BY <1>6, <1>7, <1>9, <1>10 DEF BucketInv

LEMMA BucketNextInv == BucketInv /\ [BucketNext]_bucketVars => BucketInv'
<1> USE LimiterAssumption, FullNat
<1> SUFFICES ASSUME BucketInv, [BucketNext]_bucketVars PROVE BucketInv'
  OBVIOUS
<1>0. /\ BucketOK /\ ClockOrder /\ Budget /\ NoTokenLost
      /\ waiting \subseteq Goroutines
      /\ Refilled \in Nat
      /\ 0 * Scale = 0 /\ 1 * Scale = Scale
  BY RefilledRange DEF BucketInv, BucketOK, ClockOrder
<1>1. CASE TryAcquire
  BY <1>0, <1>1, RefillAndTakeInv DEF TryAcquire, Acquire, Refuse
<1>2. CASE Tokens
  BY <1>0, <1>2, RefillAndTakeInv DEF Tokens
<1>3. ASSUME NEW c \in Goroutines, WaitAcquired(c) PROVE BucketInv'
  BY <1>0, <1>3, RefillAndTakeInv DEF WaitAcquired, Acquire
<1>4. ASSUME NEW c \in Goroutines, WaitPoll(c) PROVE BucketInv'
  BY <1>0, <1>4, RefillAndTakeInv DEF WaitPoll, Refuse
<1>5. ASSUME NEW c \in Goroutines, WaitCancelled(c) PROVE BucketInv'
  BY <1>0, <1>5 DEF WaitCancelled, bucket, observer, BucketInv, BucketOK, ClockOrder,
                    Budget, NoTokenLost, Full
<1>6. CASE ClockTick
  BY <1>0, <1>6 DEF ClockTick, bucket, observer, BucketInv, BucketOK, ClockOrder, Budget,
                    NoTokenLost, Full
<1>7. CASE Observe
  <2>1. BucketOK' /\ ClockOrder' /\ NoTokenLost'
    BY <1>0, <1>7 DEF Observe, bucket, BucketOK, ClockOrder, NoTokenLost, Full
  <2>2. /\ 0 * Scale = 0
        /\ now \in Nat => RefillRate * (now - now) = 0
    OBVIOUS
  <2>3. Budget'
    BY <1>0, <1>7, <2>2 DEF Observe, bucket, BucketOK, ClockOrder, Budget, Full
  <2> QED
    BY <2>1, <2>3 DEF BucketInv
<1>8. CASE UNCHANGED bucketVars
  BY <1>0, <1>8 DEF bucketVars, BucketInv, BucketOK, ClockOrder, Budget, NoTokenLost, Full
<1> QED
  BY <1>1, <1>2, <1>3, <1>4, <1>5, <1>6, <1>7, <1>8 DEF BucketNext

LEMMA BucketSpecInv == BucketSpec => []BucketInv
<1> QED
  BY BucketInitInv, BucketNextInv, PTL DEF BucketSpec

-----------------------------------------------------------------------------
(* Theorems about the bucket.                                              *)

\* The bucket never goes into debt and never exceeds its capacity.
THEOREM BucketCorrect == BucketSpec => []BucketOK
<1>1. BucketInv => BucketOK
  BY DEF BucketInv
<1> QED
  BY <1>1, BucketSpecInv, PTL

\* From any moment on, TryAcquire and WaitAcquire together grant at most the
\* capacity plus what refillRate yields until now.
THEOREM GrantsBounded == BucketSpec => []BurstBound
<1> USE LimiterAssumption, FullNat
<1>1. ASSUME BucketInv PROVE BurstBound
  <2>1. /\ BucketOK /\ ClockOrder /\ Budget
    BY <1>1 DEF BucketInv
  <2>2. /\ now \in Nat /\ lastRefill \in Nat /\ mark \in Nat
        /\ tokens \in Nat /\ granted \in Nat
    BY <2>1 DEF BucketOK
  <2>3. now - mark \in Nat /\ RefillRate * (now - mark) \in Nat
    BY <2>1, <2>2 DEF ClockOrder
  <2>4. CASE lastRefill < mark
    <3>1. granted * Scale = 0
      BY <2>1, <2>2, <2>4 DEF Budget
    <3> QED
      BY <3>1, <2>3 DEF BurstBound
  <2>5. CASE lastRefill >= mark
    <3>1. granted * Scale + tokens <= Full + RefillRate * (lastRefill - mark)
      BY <2>1, <2>5 DEF Budget
    <3>2. RefillRate * (lastRefill - mark) <= RefillRate * (now - mark)
      BY <2>1, <2>2, Accrual DEF ClockOrder
    <3>3. granted * Scale \in Int /\ RefillRate * (lastRefill - mark) \in Int
      BY <2>2
    <3> QED
      BY <3>1, <3>2, <3>3, <2>2, <2>3 DEF BurstBound
  <2> QED
    BY <2>4, <2>5, <2>2
<1> QED
  BY <1>1, BucketSpecInv, PTL

\* refill conserves tokens: the bucket's content is determined by the grants
\* and the time since it was last full, whatever was polled in between.
THEOREM TokensConserved == BucketSpec => []NoTokenLost
<1>1. BucketInv => NoTokenLost
  BY DEF BucketInv
<1> QED
  BY <1>1, BucketSpecInv, PTL

\* What refill yields depends only on the time and the grants since the bucket
\* was last full: the decision of TryAcquire and WaitAcquire is that of an ideal
\* token bucket, whatever the polling.
THEOREM IdealBucket == BucketSpec => []AdmissionExact
<1>1. ASSUME BucketInv PROVE AdmissionExact
  <2> USE LimiterAssumption, FullNat
  <2>1. BucketOK /\ ClockOrder /\ NoTokenLost
    BY <1>1 DEF BucketInv
  <2>2. now \in Nat /\ lastRefill \in Nat /\ fullAt \in Nat /\ spent \in Nat /\ tokens \in Nat
    BY <2>1 DEF BucketOK
  <2>3. /\ RefillRate * (lastRefill - fullAt) \in Int
        /\ RefillRate * (now - lastRefill) \in Int
        /\ (now - lastRefill) * RefillRate = RefillRate * (now - lastRefill)
        /\ RefillRate * (now - fullAt)
              = RefillRate * (lastRefill - fullAt) + RefillRate * (now - lastRefill)
        /\ spent * Scale \in Int
    BY <2>2, Products
  <2>4. tokens + (now - lastRefill) * RefillRate = Due
    BY <2>1, <2>2, <2>3 DEF NoTokenLost, Due
  <2> QED
    BY <2>4 DEF Refilled, AdmissionExact
<1> QED
  BY <1>1, BucketSpecInv, PTL
=============================================================================
