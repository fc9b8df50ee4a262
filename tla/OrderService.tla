---------------------------- MODULE OrderService ----------------------------
(***************************************************************************)
(* The creation of orders by the processes of the deployment: the order    *)
(* number, the choice between MySQL and Kafka, the distributed lock around *)
(* the synchronous write, the upsert, and the consumer that stores what    *)
(* Kafka holds.  Processes crash, requests to Redis, MySQL and Kafka fail  *)
(* or are executed although they seem to fail, and the lock may expire     *)
(* under its holder.                                                       *)
(*                                                                         *)
(* Sources: internal/service/order_service.go,                             *)
(* internal/lock/distributed_lock.go, SendAsync of                         *)
(* internal/mq/producer.go.                                                *)
(*                                                                         *)
(* The breaker and the bucket have modules of their own, here their        *)
(* answers are free; so have the cache steps and the consumer's offsets.   *)
(***************************************************************************)
EXTENDS Integers, FiniteSets

CONSTANTS
    Orders,      \* the requests, one order each
    UserOf,      \* the user of each order
    Processes,   \* the processes of the deployment, restarted ones included
    ProcOf,      \* the process that serves each request
    SeqMod,      \* how many numbers the five digits of the sequence tell apart
    RandMod,     \* how many processes the three random digits tell apart
    MaxStart,    \* the sequence starts between 0 and MaxStart
    NoOrder,     \* neither a token nor a row
    MaxFaults    \* bound: exits and failing requests to Redis, MySQL and Kafka

ASSUME OrderAssumption ==
    /\ UserOf \in [Orders -> Nat]
    /\ ProcOf \in [Orders -> Processes]
    /\ SeqMod \in Nat \ {0} /\ RandMod \in Nat \ {0} /\ MaxStart \in Nat
    /\ NoOrder \notin Orders
    /\ MaxFaults \in Nat

VARIABLES
    seq, rand,   \* processes: orderSeq, and the digits taken from orderRandID
    up,          \* processes: running
    pc,          \* requests: where they are
    raw,         \* orders: the value of orderSeq they were given
    locked,      \* requests: Lock returned a token
    outcome,     \* requests: what the caller is told
    pending,     \* orders whose event is in a goroutine of SendAsync
    events,      \* orders in Kafka, to be delivered
    dead,        \* orders in the dead-letter topic
    passed,      \* history: events the committed offset passed, neither stored
                 \* nor dead-lettered
    rows,        \* the table orders: by number, who owns the row, whose data
    redis, expired,
    faults

-----------------------------------------------------------------------------
(* Order numbers.                                                          *)

\* Mutant of OrderNo: the number does not contain the user.
OrderNoAnyUser(u, s, r) == s * RandMod + r

\* The decimal digits of the number: the user's, then a fixed number of digits
\* for the sequence, then a fixed number for the process.
OrderNo(u, s, r) == (u * SeqMod + s) * RandMod + r

Numbers == {OrderNo(UserOf[o], s, r) : o \in Orders, s \in 0..SeqMod-1, r \in 0..RandMod-1}

\* generateOrderNo, from the value of the sequence the order was given.
Number(o) == OrderNo(UserOf[o], raw[o] % SeqMod, rand[ProcOf[o]])

INSTANCE DistributedLock WITH Keys <- Numbers, Tokens <- Orders, NoToken <- NoOrder

numbering == <<seq, raw>>
requests  == <<pc, locked, outcome>>
consumed  == <<dead, passed>>
kafka     == <<pending, events, dead, passed>>
fixed     == <<rand, up>>
vars      == <<seq, rand, up, pc, raw, locked, outcome, pending, events, dead, passed, rows,
               redis, expired, faults>>

NoRow == [user |-> 0, order |-> NoOrder]

Init ==
    /\ seq \in [Processes -> 0..MaxStart]
    /\ rand \in [Processes -> 0..RandMod-1]
    /\ up = [p \in Processes |-> TRUE]
    /\ pc = [o \in Orders |-> "new"]
    /\ raw = [o \in Orders |-> 0]
    /\ locked = [o \in Orders |-> FALSE]
    /\ outcome = [o \in Orders |-> "none"]
    /\ pending = {} /\ events = {} /\ dead = {} /\ passed = {}
    /\ rows = [n \in Numbers |-> NoRow]
    /\ faults = 0
    /\ LockInit

-----------------------------------------------------------------------------
(* Requests.                                                               *)

Fault == faults < MaxFaults /\ faults' = faults + 1
NoFault == UNCHANGED faults

Goto(o, from, to) == pc[o] = from /\ pc' = [pc EXCEPT ![o] = to]

\* atomic.AddUint64 returns the new value.
generateOrderNo(o) ==
    LET p == ProcOf[o] IN
    /\ seq' = [seq EXCEPT ![p] = @ + 1]
    /\ raw' = [raw EXCEPT ![o] = seq[p] + 1]

\* CreateOrder: the synchronous channel if the breaker allows it and the bucket
\* has a token, the asynchronous one otherwise.
CreateOrder(o) ==
    /\ up[ProcOf[o]]
    /\ \E channel \in {"lock", "send"} : Goto(o, "new", channel)
    /\ generateOrderNo(o)
    /\ UNCHANGED <<locked, outcome, kafka, rows, fixed, redis, expired, faults>>

CreateOrderForceSync(o) ==
    /\ up[ProcOf[o]]
    /\ Goto(o, "new", "flock")
    /\ generateOrderNo(o)
    /\ UNCHANGED <<locked, outcome, kafka, rows, fixed, redis, expired, faults>>

LockOK(o) ==
    /\ \E from \in {"lock", "flock"} : Goto(o, from, "write")
    /\ locked' = [locked EXCEPT ![o] = TRUE]
    /\ SetNX(Number(o), o)
    /\ UNCHANGED <<numbering, outcome, kafka, rows, fixed, faults>>

\* Mutant of LockFailed: Lock waits for ever.
LockFailedNever(o) == FALSE /\ UNCHANGED vars

\* Mutant of LockFailed: Unlock is deferred before the error is looked at.
LockFailedDeferred(o) ==
    /\ Goto(o, "lock", "send") \/ Goto(o, "flock", "write")
    /\ \/ Timeout(Number(o)) /\ NoFault
       \/ LockError(Number(o), o) /\ Fault
    /\ locked' = [locked EXCEPT ![o] = TRUE]
    /\ UNCHANGED <<numbering, outcome, kafka, rows, fixed>>

\* Without the lock createSync turns to Kafka and a forced write goes on.
LockFailed(o) ==
    /\ Goto(o, "lock", "send") \/ Goto(o, "flock", "write")
    /\ \/ Timeout(Number(o)) /\ NoFault
       \/ LockError(Number(o), o) /\ Fault
    /\ UNCHANGED <<numbering, locked, outcome, kafka, rows, fixed>>

\* dbWrite: INSERT ... ON DUPLICATE KEY UPDATE leaves user_id as it was.
Upserted(o) ==
    LET n == Number(o) IN
    [rows EXCEPT ![n] =
        [user |-> IF rows[n] = NoRow THEN UserOf[o] ELSE rows[n].user, order |-> o]]

AfterWrite(o, result) ==
    /\ Goto(o, "write", IF locked[o] THEN "unlock" ELSE "done")
    /\ outcome' = [outcome EXCEPT ![o] = result]

\* The row is there; publishOrderEvent starts a goroutine for the event.
WriteOK(o) ==
    /\ AfterWrite(o, "stored")
    /\ rows' = Upserted(o)
    /\ pending' = pending \cup {o}
    /\ UNCHANGED <<numbering, locked, events, consumed, fixed, redis, expired, faults>>

\* An error, although the row may be there.
WriteFailed(o) ==
    /\ Fault
    /\ AfterWrite(o, "failed")
    /\ rows' \in {rows, Upserted(o)}
    /\ UNCHANGED <<numbering, locked, kafka, fixed, redis, expired>>

\* The deferred Unlock, whose error is ignored; then the caller is answered.
UnlockAndAnswer(o) ==
    /\ Goto(o, "unlock", "done")
    /\ \/ Unlock(Number(o), o) /\ NoFault
       \/ UnlockError(Number(o), o) /\ Fault
    /\ UNCHANGED <<numbering, locked, outcome, kafka, rows, fixed>>

\* Mutant of SendOK: the caller is answered before the broker has the event.
SendEarly(o) ==
    /\ Goto(o, "send", "done")
    /\ outcome' = [outcome EXCEPT ![o] = "queued"]
    /\ pending' = pending \cup {o}
    /\ UNCHANGED <<numbering, locked, events, consumed, rows, fixed, redis, expired, faults>>

\* createAsync: the broker has acknowledged the event ...
SendOK(o) ==
    /\ Goto(o, "send", "done")
    /\ outcome' = [outcome EXCEPT ![o] = "queued"]
    /\ events' = events \cup {o}
    /\ UNCHANGED <<numbering, locked, pending, consumed, rows, fixed, redis, expired, faults>>

\* ... or the send fails, although the broker may have it.
SendFailed(o) ==
    /\ Fault
    /\ Goto(o, "send", "done")
    /\ outcome' = [outcome EXCEPT ![o] = "failed"]
    /\ events' \in {events, events \cup {o}}
    /\ UNCHANGED <<numbering, locked, pending, consumed, rows, fixed, redis, expired>>

RequestStep(o) ==
    \/ LockOK(o) \/ LockFailed(o) \/ WriteOK(o) \/ WriteFailed(o)
    \/ UnlockAndAnswer(o) \/ SendOK(o) \/ SendFailed(o)

-----------------------------------------------------------------------------
(* Kafka, time and crashes.                                                *)

\* SendAsync: the goroutine's send succeeds, or its error is logged.
SendAsync(o) ==
    /\ o \in pending
    /\ pending' = pending \ {o}
    /\ \/ events' = events \cup {o} /\ NoFault
       \/ events' = events /\ Fault
    /\ UNCHANGED <<numbering, requests, consumed, rows, fixed, redis, expired>>

\* HandleOrderEvent returns nil: the order is stored.  The event stays when its
\* commit is lost or the broker has it twice.
HandleOrderEvent(o) ==
    /\ o \in events
    /\ rows' = Upserted(o)
    /\ events' \in {events, events \ {o}}
    /\ UNCHANGED <<numbering, requests, pending, consumed, fixed, redis, expired, faults>>

\* It returns the error of dbWrite, which MySQL may have executed; the events of
\* createAsync and publishOrderEvent can be decoded.  The consumer tries again,
\* or has done so often enough: it writes the event to the dead-letter topic, or
\* fails to, and commits its offset in either case.
HandleFailed(o) ==
    /\ o \in events
    /\ Fault
    /\ rows' \in {rows, Upserted(o)}
    /\ \/ UNCHANGED kafka
       \/ /\ dead' = dead \cup {o} /\ events' \in {events, events \ {o}}
          /\ UNCHANGED <<pending, passed>>
       \/ /\ passed' = passed \cup {o} /\ events' = events \ {o}
          /\ UNCHANGED <<pending, dead>>
    /\ UNCHANGED <<numbering, requests, fixed, redis, expired>>

ExpireLock(n) ==
    /\ Expire(n)
    /\ UNCHANGED <<numbering, requests, kafka, rows, fixed, faults>>

\* A process dies with its requests and goroutines; its locks stay in Redis.
\* Events its workers were handling are delivered again, except below an offset
\* another worker had committed (EventConsumer bounds how many).
Crash(p) ==
    /\ Fault
    /\ up[p]
    /\ up' = [up EXCEPT ![p] = FALSE]
    /\ pc' = [o \in Orders |-> IF ProcOf[o] = p /\ pc[o] \notin {"new", "done"}
                               THEN "gone" ELSE pc[o]]
    /\ pending' = {o \in pending : ProcOf[o] # p}
    /\ \E skipped \in SUBSET events :
          events' = events \ skipped /\ passed' = passed \cup skipped
    /\ UNCHANGED <<numbering, rand, locked, outcome, dead, rows, redis, expired>>

Next ==
    \/ \E o \in Orders : \/ CreateOrder(o) \/ CreateOrderForceSync(o)
                         \/ RequestStep(o) \/ SendAsync(o)
                         \/ HandleOrderEvent(o) \/ HandleFailed(o)
    \/ \E n \in Numbers : ExpireLock(n)
    \/ \E p \in Processes : Crash(p)

Spec == Init /\ [][Next]_vars

\* Requests run; a call of Lock ends by its deadline at the latest.
FairSpec == Spec /\ \A o \in Orders : WF_vars(RequestStep(o))

-----------------------------------------------------------------------------
(* Properties.                                                             *)

Numbered(o) == pc[o] # "new"
RowOf(o) == rows[Number(o)]

\* The state is well-formed; only a request past Lock has a lock to release, and
\* no caller is answered without an outcome.
TypeOK ==
    /\ seq \in [Processes -> Nat] /\ rand \in [Processes -> 0..RandMod-1]
    /\ up \in [Processes -> BOOLEAN]
    /\ pc \in [Orders -> {"new", "lock", "flock", "write", "unlock", "send", "done", "gone"}]
    /\ raw \in [Orders -> Nat]
    /\ locked \in [Orders -> BOOLEAN]
    /\ \A o \in Orders : locked[o] => pc[o] \in {"write", "unlock", "done", "gone"}
    /\ outcome \in [Orders -> {"none", "stored", "queued", "failed"}]
    /\ \A o \in Orders : pc[o] = "done" => outcome[o] # "none"
    /\ pending \subseteq {o \in Orders : Numbered(o)}
    /\ events \cup dead \cup passed \subseteq {o \in Orders : Numbered(o)}
    /\ rows \in [Numbers -> [user : Nat, order : Orders \cup {NoOrder}]]
    /\ redis \in [Numbers -> Orders \cup {NoOrder}]
    /\ expired \subseteq Orders
    /\ faults \in 0..MaxFaults

SameNumber(a, b) == Numbered(a) /\ Numbered(b) /\ Number(a) = Number(b)

\* When two orders can have one number: they are of the same user, and either a
\* whole period of the sequence apart in one process, or in two processes
\* with the same random digits (generateOrderNo).
NumbersClash ==
    \A a, b \in Orders : a # b /\ SameNumber(a, b) =>
        /\ UserOf[a] = UserOf[b]
        /\ rand[ProcOf[a]] = rand[ProcOf[b]]
        /\ ProcOf[a] = ProcOf[b] => raw[a] - raw[b] >= SeqMod \/ raw[b] - raw[a] >= SeqMod

\* The upsert does not give one user's row another user's order.
RowsKeepTheirUser ==
    \A n \in Numbers : rows[n] # NoRow =>
        /\ rows[n].order \in Orders
        /\ rows[n].user = UserOf[rows[n].order]

\* The row of its number is the order's own, or an order of the same number was
\* created too.
Stored(o) ==
    \/ RowOf(o).order = o
    \/ \E q \in Orders \ {o} : SameNumber(o, q)

Kept(o) ==
    \/ Stored(o)
    \/ outcome[o] = "queued" /\ o \in events \cup dead \cup passed

\* An order answered as stored is in MySQL, and one answered as queued is in
\* MySQL, in Kafka or in the dead-letter topic, whatever crashes, expires or
\* fails on its way, with two exceptions: an order of the same number took its
\* row, or the consumer passed its event over, which takes an exit or a
\* dead-letter write that failed too (createSync, createAsync,
\* HandleOrderEvent, consumeLoop).
AnsweredKept ==
    \A o \in Orders : pc[o] = "done" /\ outcome[o] # "failed" => Kept(o)

\* The lock protects what it can: whoever writes with it still owns the key, or
\* its TTL has ended, so two writers of one number that both got the lock are
\* possible only after an expiry.
LockProtects ==
    \A o \in Orders : locked[o] /\ pc[o] \in {"write", "unlock"} =>
        redis[Number(o)] = o \/ o \in expired

\* Nobody releases the lock of another request (the token check of Unlock).
Releasing(o) == pc[o] = "unlock" /\ pc'[o] = "done"
OnlyOwnerReleases == [][LeavesOnlyBy(Releasing)]_vars

-----------------------------------------------------------------------------
(* The inductive invariant of the proofs.                                  *)

\* The sequence of a process is ahead of the values it has given out, which
\* are all different.
SeqAhead ==
    \A a \in Orders : Numbered(a) =>
        /\ raw[a] <= seq[ProcOf[a]]
        /\ \A b \in Orders \ {a} : Numbered(b) /\ ProcOf[a] = ProcOf[b] => raw[a] # raw[b]

\* A row holds an order of its number, and of its user.
RowsOwn ==
    \A n \in Numbers : rows[n] # NoRow =>
        \E o \in Orders : /\ rows[n].order = o /\ rows[n].user = UserOf[o]
                          /\ Numbered(o) /\ Number(o) = n

\* AnsweredKept, from the moment the outcome is decided.
DecidedKept ==
    \A o \in Orders : outcome[o] \in {"stored", "queued"} => Numbered(o) /\ Kept(o)

\* A request that is about to release its lock has been decided.
Decided == \A o \in Orders : pc[o] = "unlock" => outcome[o] # "none"

Inv == TypeOK /\ Decided /\ SeqAhead /\ RowsOwn /\ DecidedKept /\ LockProtects

-----------------------------------------------------------------------------
(* Consequences.                                                           *)

Writing(o) == locked[o] /\ pc[o] \in {"write", "unlock"}

\* Mutual exclusion, as far as the lock gives it: two requests between their Lock
\* and their Unlock of one number mean that the TTL of one of them has ended.
OneWriterPerNumber ==
    \A a, b \in Orders : a # b /\ SameNumber(a, b) /\ Writing(a) /\ Writing(b) =>
        a \in expired \/ b \in expired

\* No two processes drew the same random digits, and no process has come round
\* to a value of the sequence whose order is still at issue.
NumbersApart ==
    /\ \A p, q \in Processes : p # q => rand[p] # rand[q]
    /\ \A a, b \in Orders : Numbered(a) /\ Numbered(b) /\ ProcOf[a] = ProcOf[b] =>
           raw[a] - raw[b] < SeqMod

\* AnsweredKept without its first exception: then the row of an order that was
\* answered as stored is its own, and a queued one has its own row, is on its way
\* to it or dead-lettered, or was passed over.
AnsweredStored ==
    NumbersApart =>
        \A o \in Orders : pc[o] = "done" /\ outcome[o] # "failed" =>
            \/ RowOf(o).order = o
            \/ outcome[o] = "queued" /\ o \in events \cup dead \cup passed

-----------------------------------------------------------------------------
\* Every request ends, unless its process dies: none hangs behind the lock of a
\* process that crashed, even if its TTL were very long.
RequestsEnd ==
    \A o \in Orders : Numbered(o) ~> pc[o] \in {"done", "gone"}
=============================================================================
