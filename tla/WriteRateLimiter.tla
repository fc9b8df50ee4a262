-------------------------- MODULE WriteRateLimiter --------------------------
(***************************************************************************)
(* The token bucket that splits writes between MySQL and Kafka.            *)
(*                                                                         *)
(* tokens is a float64 in the code.  Here the clock counts ticks of        *)
(* 1/Scale second and tokens counts 1/Scale-ths of a token, so that a      *)
(* refill of elapsed * refillRate is exact; float rounding is not          *)
(* modelled.  Every method runs under mu from its first line to its last,  *)
(* except WaitAcquire, which gives mu up between two polls.                *)
(*                                                                         *)
(* Source: internal/resilience/rate_limiter.go.                            *)
(***************************************************************************)
EXTENDS Integers

CONSTANTS
    Goroutines,     \* goroutines that use the limiter
    Capacity,    \* capacity
    RefillRate,  \* refillRate, tokens per second
    Scale,       \* ticks per second
    MaxTime      \* bound: ticks in a behaviour

ASSUME LimiterAssumption ==
    /\ Capacity \in Nat
    /\ RefillRate \in Nat
    /\ Scale \in Nat \ {0}
    /\ MaxTime \in Nat

VARIABLES
    now,         \* time.Now()
    tokens,      \* rl.tokens, in 1/Scale-ths
    lastRefill,  \* rl.lastRefill
    waiting,     \* the callers between two polls of WaitAcquire
    mark,        \* observer: a moment chosen freely
    granted,     \* observer: tokens granted since mark
    fullAt,      \* observer: the last refill that left the bucket full
    spent        \* observer: tokens granted since fullAt

bucket     == <<tokens, lastRefill>>
observer   == <<granted, fullAt, spent>>
bucketVars == <<now, tokens, lastRefill, waiting, mark, granted, fullAt, spent>>

Full == Capacity * Scale

BucketInit ==
    /\ now = 0
    /\ tokens = Full
    /\ lastRefill = 0
    /\ waiting = {}
    /\ mark = 0
    /\ granted = 0
    /\ fullAt = 0
    /\ spent = 0

\* Mutant of Refilled: the bucket is not capped.
RefilledUncapped == tokens + (now - lastRefill) * RefillRate

\* Mutant of Refilled: whole tokens only, the fraction is forgotten.
RefilledWhole ==
    LET sum == tokens + (((now - lastRefill) * RefillRate) \div Scale) * Scale
    IN  IF sum > Full THEN Full ELSE sum

\* refill: rl.tokens after it; lastRefill becomes now in every caller.
Refilled ==
    LET sum == tokens + (now - lastRefill) * RefillRate
    IN  IF sum > Full THEN Full ELSE sum

\* The refill of a call that takes n tokens, n = 0 or 1.
RefillAndTake(n) ==
    /\ tokens' = Refilled - n * Scale
    /\ lastRefill' = now
    /\ granted' = granted + n
    /\ IF Refilled = Full
       THEN fullAt' = now /\ spent' = n
       ELSE spent' = spent + n /\ UNCHANGED fullAt

\* Mutant of Acquire: the bucket may go into debt.
AcquireInDebt == Refilled > 0 /\ RefillAndTake(1)

\* The common part of TryAcquire and of one poll of WaitAcquire.
Acquire == Refilled >= Scale /\ RefillAndTake(1)
Refuse  == Refilled < Scale /\ RefillAndTake(0)

\* TryAcquire returns true or false.
TryAcquire ==
    /\ Acquire \/ Refuse
    /\ UNCHANGED <<now, waiting, mark>>

\* WaitAcquire gets its token at the first or at a later poll ...
WaitAcquired(c) ==
    /\ Acquire
    /\ waiting' = waiting \ {c}
    /\ UNCHANGED <<now, mark>>

\* ... polls in vain and sleeps ...
WaitPoll(c) ==
    /\ Refuse
    /\ waiting' = waiting \cup {c}
    /\ UNCHANGED <<now, mark>>

\* ... or returns the error of its context.
WaitCancelled(c) ==
    /\ c \in waiting
    /\ waiting' = waiting \ {c}
    /\ UNCHANGED <<now, bucket, mark, observer>>

\* Tokens refills and reports.
Tokens ==
    /\ RefillAndTake(0)
    /\ UNCHANGED <<now, waiting, mark>>

ClockTick ==
    /\ now < MaxTime
    /\ now' = now + 1
    /\ UNCHANGED <<bucket, waiting, mark, observer>>

\* The observer starts counting grants at an arbitrary moment.
Observe ==
    /\ mark' = now
    /\ granted' = 0
    /\ UNCHANGED <<now, bucket, waiting, fullAt, spent>>

BucketNext ==
    \/ TryAcquire \/ Tokens \/ ClockTick \/ Observe
    \/ \E c \in Goroutines : WaitAcquired(c) \/ WaitPoll(c) \/ WaitCancelled(c)

BucketSpec == BucketInit /\ [][BucketNext]_bucketVars

-----------------------------------------------------------------------------
(* Properties.                                                             *)

\* The state is well-formed: no debt, never more than the capacity.
BucketOK ==
    /\ now \in Nat /\ lastRefill \in Nat /\ mark \in Nat /\ fullAt \in Nat
    /\ tokens \in 0..Full
    /\ waiting \subseteq Goroutines
    /\ granted \in Nat /\ spent \in Nat

\* Between any two moments no more tokens are granted than the bucket holds
\* plus what the rate yields in between, however many goroutines try, wait
\* and read the gauge in between (TryAcquire, WaitAcquire, refill).
BurstBound == granted * Scale <= Full + RefillRate * (now - mark)

\* No token is lost: since the bucket was last full, what it holds is exactly
\* what it held, plus the refill, minus what was granted.  Frequent polling by
\* WaitAcquire and Tokens does not eat fractions of tokens (refill).
NoTokenLost == tokens = Full + RefillRate * (lastRefill - fullAt) - spent * Scale

-----------------------------------------------------------------------------
(* The inductive invariant of the proofs.                                  *)

\* The clock is monotonic.
ClockOrder == lastRefill <= now /\ mark <= now /\ fullAt <= lastRefill

\* BurstBound sharpened by what is still in the bucket, which an observer can
\* only account for from the first refill after the mark on.
Budget ==
    /\ lastRefill < mark => granted = 0
    /\ lastRefill >= mark =>
           granted * Scale + tokens <= Full + RefillRate * (lastRefill - mark)

\* What the time and the grants since the bucket was last full leave in it.
Due == Full + RefillRate * (now - fullAt) - spent * Scale

\* TryAcquire and a poll of WaitAcquire decide by that law and nothing else: who
\* polled when, who gave up and who read the gauge make no difference, so nobody
\* is refused a token that has accrued (refill).
AdmissionExact == Refilled = IF Due > Full THEN Full ELSE Due

BucketInv == BucketOK /\ ClockOrder /\ Budget /\ NoTokenLost
=============================================================================
