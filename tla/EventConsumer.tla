---------------------------- MODULE EventConsumer ----------------------------
(***************************************************************************)
(* The asynchronous write path: EventProducer.Send appends an order event  *)
(* to a Kafka topic, and the consumeLoop goroutines of EventConsumer take  *)
(* events from it, run OrderService.HandleOrderEvent with retries, write   *)
(* what keeps failing to a dead-letter topic and commit the offset.        *)
(*                                                                         *)
(* One partition of the topic is modelled; Kafka itself (append, fetch,    *)
(* last commit wins) is external.  An offset is the 1-based index of an    *)
(* event in log; position and committed count the events delivered to the  *)
(* current process and the events covered by the committed offset.         *)
(*                                                                         *)
(* Sources: internal/mq/consumer.go, internal/mq/producer.go, and the      *)
(* wiring of both in cmd/server/main.go.                                   *)
(***************************************************************************)
EXTENDS Naturals, Sequences, FiniteSets

CONSTANTS
    Orders,         \* the orders clients create
    Poison,         \* orders no call of the handler can ever store
    Workers,        \* the consumeLoop goroutines (concurrency)
    MaxRetries,     \* EventConsumer.maxRetries
    WriteAttempts,  \* kafka.Writer.MaxAttempts: copies one Send can append
    MaxLog,         \* bound: events ever appended to the partition
    MaxRestarts,    \* bound: process exits (crash or shutdown) in a behaviour
    DBFaults,       \* TRUE iff MySQL may fail a write
    KafkaFaults,    \* TRUE iff a Kafka request may fail or lose its answer
    OpsTopics       \* topics that exist although no constructor creates them

ASSUME ConsumerAssumption ==
    /\ Poison \subseteq Orders
    /\ IsFiniteSet(Workers) /\ Workers # {}
    /\ MaxRetries \in Nat
    /\ WriteAttempts \in Nat \ {0}
    /\ MaxLog \in Nat
    /\ MaxRestarts \in Nat
    /\ DBFaults \in BOOLEAN
    /\ KafkaFaults \in BOOLEAN

VARIABLES
    log,        \* the partition: a sequence of orders
    committed,  \* the group's committed offset, kept by Kafka
    ack,        \* what Send answered for each order
    db,         \* the orders stored in MySQL
    dlq,        \* the dead letters: records [topic, order]
    position,   \* how far kafka.Reader of this process has delivered
    pc,         \* where each worker is in consumeLoop
    off,        \* the offset each worker holds
    attempt,    \* processWithRetry's loop counter
    cancelled,  \* whether the worker's context has been cancelled
    stop,       \* EventConsumer.Stop: "running", "stopping", "closed"
    dropped,    \* history: orders whose dead-letter write was refused
    skipped,    \* history: orders given up at a process exit
    restarts    \* how often the process has been replaced

broker  == <<log, committed>>
store   == <<db, dlq, dropped>>
worker  == <<pc, off, attempt, cancelled>>
process == <<stop, skipped, restarts>>
vars    == <<log, committed, ack, db, dlq, position, pc, off, attempt,
             cancelled, stop, dropped, skipped, restarts>>

-----------------------------------------------------------------------------
(* Topic names: a base name followed by the suffixes appended to it.        *)

Topic      == <<"order-create">>
DLQTopic   == <<"order-create", "dlq">>
Suffixed(topic) == Append(topic, "dlq")

\* The dlqWriter of the producer the consumer is given: main builds that
\* producer on the dead-letter topic, and NewEventProducer appends ".dlq".
DeadLetterTopic == Suffixed(DLQTopic)

\* Topics createTopicIfNotExist has made by the time the workers run: the
\* topic of each producer and of the consumer, never a producer's dlqTopic.
Topics == {Topic, DLQTopic} \cup OpsTopics

DeadLetters == {d.order : d \in dlq}

-----------------------------------------------------------------------------
Handling == {"handle", "backoff", "dlq"}
Busy(w)  == pc[w] \in Handling \cup {"commit"}
Event(w) == log[off[w]]

Init ==
    /\ log = << >>
    /\ committed = 0
    /\ ack = [o \in Orders |-> "none"]
    /\ db = {}
    /\ dlq = {}
    /\ position = 0
    /\ pc = [w \in Workers |-> "new"]
    /\ off = [w \in Workers |-> 0]
    /\ attempt = [w \in Workers |-> 0]
    /\ cancelled = [w \in Workers |-> FALSE]
    /\ stop = "running"
    /\ dropped = {}
    /\ skipped = {}
    /\ restarts = 0

-----------------------------------------------------------------------------
(* Producer.                                                               *)

AppendCopies(n, o) ==
    /\ Len(log) + n <= MaxLog
    /\ log' = log \o [i \in 1..n |-> o]

\* WriteMessages succeeded.  The writer is synchronous with acks=all but not
\* idempotent, so an attempt whose answer was lost leaves another copy.
SendOK(o) ==
    /\ ack[o] = "none"
    /\ \E n \in 1..(IF KafkaFaults THEN WriteAttempts ELSE 1) : AppendCopies(n, o)
    /\ ack' = [ack EXCEPT ![o] = "accepted"]
    /\ UNCHANGED <<committed, store, position, worker, process>>

\* WriteMessages failed: the order goes to the compensation log and the
\* caller gets an error; earlier attempts may still have been appended.
SendFailed(o) ==
    /\ KafkaFaults
    /\ ack[o] = "none"
    /\ \E n \in 0..WriteAttempts : AppendCopies(n, o)
    /\ ack' = [ack EXCEPT ![o] = "rejected"]
    /\ UNCHANGED <<committed, store, position, worker, process>>

-----------------------------------------------------------------------------
(* consumeLoop.                                                            *)

Goto(w, label) == pc' = [pc EXCEPT ![w] = label]

\* Start's go statement.
Start(w) ==
    /\ pc[w] = "new"
    /\ Goto(w, "top")
    /\ UNCHANGED <<broker, ack, store, position, off, attempt, cancelled, process>>

\* The context check and rateLimiter.Wait let the worker through.
Admit(w) ==
    /\ pc[w] = "top"
    /\ ~cancelled[w]
    /\ Goto(w, "fetch")
    /\ UNCHANGED <<broker, ack, store, position, off, attempt, cancelled, process>>

\* The context is done at the check, in Wait or in FetchMessage: the loop
\* returns and its defer reports on doneCh, which has room for every worker.
Return(w) ==
    /\ pc[w] \in {"top", "fetch"}
    /\ cancelled[w]
    /\ Goto(w, "done")
    /\ UNCHANGED <<broker, ack, store, position, off, attempt, cancelled, process>>

\* Mutant of Fetch: ReadMessage in place of FetchMessage, which commits the
\* offset before the event is handled.
FetchAutoCommit(w) ==
    /\ pc[w] = "fetch"
    /\ stop # "closed"
    /\ position < Len(log)
    /\ position' = position + 1
    /\ committed' = position + 1
    /\ off' = [off EXCEPT ![w] = position + 1]
    /\ Goto(w, "handle")
    /\ UNCHANGED <<log, ack, store, attempt, cancelled, process>>

\* FetchMessage delivers the next event.  It selects between the context and
\* the reader's channel, so a cancelled worker may still be given an event.
Fetch(w) ==
    /\ pc[w] = "fetch"
    /\ stop # "closed"
    /\ position < Len(log)
    /\ position' = position + 1
    /\ off' = [off EXCEPT ![w] = position + 1]
    /\ Goto(w, "handle")
    /\ UNCHANGED <<broker, ack, store, attempt, cancelled, process>>

\* FetchMessage fails although the context is live: sleep and go round again.
FetchFailed(w) ==
    /\ pc[w] = "fetch"
    /\ ~cancelled[w]
    /\ KafkaFaults \/ stop = "closed"
    /\ Goto(w, "top")
    /\ UNCHANGED <<broker, ack, store, position, off, attempt, cancelled, process>>

\* HandleOrderEvent returns nil: the upsert is done.
HandleOK(w) ==
    /\ pc[w] = "handle"
    /\ ~cancelled[w]
    /\ Event(w) \notin Poison
    /\ db' = db \cup {Event(w)}
    /\ Goto(w, "commit")
    /\ UNCHANGED <<broker, ack, dlq, dropped, position, off, attempt, cancelled, process>>

\* Mutant of AfterFailure: exhausted retries skip the dead-letter write.
AfterFailureNoDLQ(w) == IF attempt[w] < MaxRetries THEN "backoff" ELSE "commit"

\* Mutant of AfterFailure: one attempt too many.
AfterFailureOneMore(w) == IF attempt[w] <= MaxRetries THEN "backoff" ELSE "dlq"

\* The loop condition attempt <= maxRetries after a failed attempt.
AfterFailure(w) == IF attempt[w] < MaxRetries THEN "backoff" ELSE "dlq"

\* HandleOrderEvent returns an error: the event cannot be stored, the context
\* is done, or MySQL failed, before or after the row was written.
HandleFailed(w) ==
    /\ pc[w] = "handle"
    /\ \/ Event(w) \in Poison /\ UNCHANGED db
       \/ /\ Event(w) \notin Poison
          /\ cancelled[w] \/ DBFaults
          /\ db' \in {db, db \cup {Event(w)}}
    /\ attempt' = [attempt EXCEPT ![w] = @ + 1]
    /\ Goto(w, AfterFailure(w))
    /\ UNCHANGED <<broker, ack, dlq, dropped, position, off, cancelled, process>>

\* Mutant of Retry: every retry starts counting again.
RetryForgetful(w) ==
    /\ pc[w] = "backoff"
    /\ attempt' = [attempt EXCEPT ![w] = 0]
    /\ Goto(w, "handle")
    /\ UNCHANGED <<broker, ack, store, position, off, cancelled, process>>

\* time.After(backoff) fires and the handler is called again.  Go's select
\* may choose it even when the context is done as well.
Retry(w) ==
    /\ pc[w] = "backoff"
    /\ Goto(w, "handle")
    /\ UNCHANGED <<broker, ack, store, position, off, attempt, cancelled, process>>

\* ctx.Done() ends the backoff: processWithRetry returns the context's error.
BackoffCancelled(w) ==
    /\ pc[w] = "backoff"
    /\ cancelled[w]
    /\ Goto(w, "dlq")
    /\ UNCHANGED <<broker, ack, store, position, off, attempt, cancelled, process>>

\* SendToDLQ with the worker's context succeeds.
DeadLetter(w) ==
    /\ pc[w] = "dlq"
    /\ ~cancelled[w]
    /\ DeadLetterTopic \in Topics
    /\ dlq' = dlq \cup {[topic |-> DeadLetterTopic, order |-> Event(w)]}
    /\ Goto(w, "commit")
    /\ UNCHANGED <<broker, ack, db, dropped, position, off, attempt, cancelled, process>>

\* SendToDLQ fails; the error is logged and the loop goes on to the commit.
DeadLetterFailed(w) ==
    /\ pc[w] = "dlq"
    /\ cancelled[w] \/ KafkaFaults \/ DeadLetterTopic \notin Topics
    /\ dropped' = dropped \cup {Event(w)}
    /\ Goto(w, "commit")
    /\ UNCHANGED <<broker, ack, db, dlq, position, off, attempt, cancelled, process>>

\* The end of the loop body: msg and the loop counter go out of scope.
NextRound(w) ==
    /\ Goto(w, "top")
    /\ off' = [off EXCEPT ![w] = 0]
    /\ attempt' = [attempt EXCEPT ![w] = 0]

\* CommitMessages, with a context of its own: whatever became of the event.
\* The last commit wins, also when another worker is still at a lower offset.
Commit(w) ==
    /\ pc[w] = "commit"
    /\ stop # "closed"
    /\ committed' = off[w]
    /\ NextRound(w)
    /\ UNCHANGED <<log, ack, store, position, cancelled, process>>

CommitFailed(w) ==
    /\ pc[w] = "commit"
    /\ KafkaFaults \/ stop = "closed"
    /\ NextRound(w)
    /\ UNCHANGED <<broker, ack, store, position, cancelled, process>>

-----------------------------------------------------------------------------
(* Stop and the end of the process.                                        *)

\* close(stopCh)
Stop ==
    /\ stop = "running"
    /\ restarts < MaxRestarts
    /\ stop' = "stopping"
    /\ UNCHANGED <<broker, ack, store, position, worker, skipped, restarts>>

\* The goroutine that joins stopCh to the worker's context.
Cancel(w) ==
    /\ stop # "running"
    /\ pc[w] # "new"
    /\ ~cancelled[w]
    /\ cancelled' = [cancelled EXCEPT ![w] = TRUE]
    /\ UNCHANGED <<broker, ack, store, position, pc, off, attempt, process>>

\* Every worker reported on doneCh, or 30 seconds passed: reader.Close().
CloseReader ==
    /\ stop = "stopping"
    /\ stop' = "closed"
    /\ UNCHANGED <<broker, ack, store, position, worker, skipped, restarts>>

\* Events held by a worker although the committed offset already covers them.
Behind == {w \in Workers : pc[w] \in Handling /\ off[w] <= committed}

\* The process ends and a new one joins the group at the committed offset.
NewProcess ==
    /\ position' = committed
    /\ pc' = [w \in Workers |-> "new"]
    /\ off' = [w \in Workers |-> 0]
    /\ attempt' = [w \in Workers |-> 0]
    /\ cancelled' = [w \in Workers |-> FALSE]
    /\ stop' = "running"
    /\ skipped' = skipped \cup {Event(w) : w \in Behind}
    /\ restarts' = restarts + 1
    /\ UNCHANGED <<broker, ack, store>>

Crash ==
    /\ stop # "closed"
    /\ restarts < MaxRestarts
    /\ NewProcess

\* main returns after Stop, which ends whatever worker is still running.
Exit ==
    /\ stop = "closed"
    /\ NewProcess

WorkerStep(w) ==
    \/ Start(w) \/ Admit(w) \/ Return(w) \/ Fetch(w) \/ FetchFailed(w)
    \/ HandleOK(w) \/ HandleFailed(w) \/ Retry(w) \/ BackoffCancelled(w)
    \/ DeadLetter(w) \/ DeadLetterFailed(w) \/ Commit(w) \/ CommitFailed(w)

Next ==
    \/ \E o \in Orders : SendOK(o) \/ SendFailed(o)
    \/ \E w \in Workers : WorkerStep(w) \/ Cancel(w)
    \/ Stop \/ CloseReader \/ Crash \/ Exit

Spec == Init /\ [][Next]_vars

\* Goroutines are scheduled, timers fire, and a reader that keeps asking is
\* eventually given the next event.  Nothing is assumed of the environment's
\* faults, of Send or of the decision to stop.
Fairness ==
    /\ \A w \in Workers : WF_vars(WorkerStep(w)) /\ SF_vars(Fetch(w)) /\ WF_vars(Cancel(w))
    /\ WF_vars(CloseReader)
    /\ WF_vars(Exit)

FairSpec == Spec /\ Fairness

-----------------------------------------------------------------------------
(* Properties.                                                             *)

\* The state is well-formed: in particular a worker never calls the handler
\* more than maxRetries + 1 times for one delivery (processWithRetry).
TypeOK ==
    /\ log \in Seq(Orders)
    /\ committed \in Nat
    /\ ack \in [Orders -> {"none", "accepted", "rejected"}]
    /\ db \subseteq Orders
    /\ dlq \subseteq [topic : {DeadLetterTopic}, order : Orders]
    /\ position \in Nat
    /\ pc \in [Workers -> {"new", "top", "fetch", "commit", "done"} \cup Handling]
    /\ off \in [Workers -> Nat]
    /\ attempt \in [Workers -> 0..(MaxRetries + 1)]
    /\ cancelled \in [Workers -> BOOLEAN]
    /\ stop \in {"running", "stopping", "closed"}
    /\ dropped \subseteq Orders
    /\ skipped \subseteq Orders
    /\ restarts \in Nat

\* What has become of an order is known: stored, dead-lettered, or given up
\* in one of the two ways the code has of giving up.
Settled(o) == o \in db \cup DeadLetters \cup dropped \cup skipped

\* No event disappears: whatever offset has been delivered or committed, over
\* all restarts and redeliveries, its order is settled or a worker of the
\* current process is still handling exactly that offset (consumeLoop).
Accounted ==
    \A i \in 1..Len(log) :
        i <= position \/ i <= committed =>
            \/ Settled(log[i])
            \/ \E w \in Workers : pc[w] \in Handling /\ off[w] = i

\* Workers commit out of order, so a process exit can skip events that are
\* still being handled below the committed offset; but each exit skips fewer
\* events than there are workers, and a single worker never skips one.
SkipBound == Cardinality(skipped) <= restarts * (Cardinality(Workers) - 1)

\* Offsets are in order, and a busy worker holds one that was delivered.
OffsetsOrdered ==
    /\ committed <= position
    /\ position <= Len(log)
    /\ \A w \in Workers : Busy(w) => off[w] \in 1..position

\* The loop counter passes maxRetries only when the loop is left.
RetriesBounded ==
    \A w \in Workers : attempt[w] > MaxRetries => pc[w] \in {"dlq", "commit"}

\* Whoever committed last has since fetched nothing below its commit.
SomeoneAhead == \E w \in Workers : w \notin Behind

\* The inductive invariant of the proofs.
Inv ==
    /\ TypeOK /\ OffsetsOrdered /\ RetriesBounded /\ Accounted
    /\ SomeoneAhead /\ IsFiniteSet(skipped) /\ SkipBound

\* Every accepted order is eventually settled (consumeLoop always moves on).
AcceptedEventuallySettled ==
    \A o \in Orders : ack[o] = "accepted" ~> Settled(o)

\* The comment above CommitMessages, "the DLQ guarantees that failed messages
\* are not lost": an event covered by the committed offset is stored, in the
\* dead-letter queue, or still being handled.
FailedMessagesNotLost ==
    \A i \in 1..committed :
        \/ log[i] \in db \cup DeadLetters
        \/ \E w \in Workers : pc[w] \in Handling /\ off[w] = i

\* Nothing has interfered with the workers: no stop, no crash, no refused write.
Undisturbed ==
    /\ stop = "running" /\ restarts = 0
    /\ \A w \in Workers : ~cancelled[w]
    /\ dropped = {} /\ skipped = {}

\* How many steps of its own a worker can still take on the event it holds.
Remaining(w) ==
    CASE pc[w] = "handle"  -> 2 * (MaxRetries + 1 - attempt[w]) + 2
      [] pc[w] = "backoff" -> 2 * (MaxRetries + 1 - attempt[w]) + 3
      [] pc[w] = "dlq"     -> 2
      [] OTHER             -> 1

\* What AcceptedEventuallySettled rests on: whatever fails and whatever the other
\* workers, producers and Stop do, each step of a worker brings the delivery it
\* holds nearer to its end, and no step of anybody else takes that back, short of
\* the end of the process (processWithRetry, consumeLoop).
DeliveryAdvances ==
    [][restarts' = restarts =>
          \A w \in Workers : Busy(w) =>
              \/ UNCHANGED <<pc[w], off[w], attempt[w]>>
              \/ Busy(w)' /\ off'[w] = off[w] /\ Remaining(w)' < Remaining(w)
              \/ pc[w] = "commit" /\ ~Busy(w)']_vars

\* A delivery starts with at most that many steps.
RemainingBounded == \A w \in Workers : Busy(w) => Remaining(w) \in 1..(2 * MaxRetries + 4)
=============================================================================
