--------------------------- MODULE MultiLevelCache ---------------------------
(***************************************************************************)
(* One key of the three-level cache: an L1 in every pod, the L2 in Redis   *)
(* and the database behind them, with the services that read and write the *)
(* key.  Every Redis command, L1 operation and database statement is a     *)
(* step of its own, so reads, writes, the delayed second delete, expiry    *)
(* and pod restarts interleave between any two of them.                    *)
(*                                                                         *)
(* Sources: internal/cache/multi_level_cache.go; GetOrder, dbQuery,        *)
(* createSync, CreateOrderForceSync, createAsync and HandleOrderEvent of   *)
(* internal/service/order_service.go; GetProfile and UpsertProfile of      *)
(* internal/service/user_profile_service.go; newDataLoader of              *)
(* cmd/server/main.go.                                                     *)
(*                                                                         *)
(* The hit counters, the JSON encoding of values and the amount of TTL     *)
(* jitter are left out: an entry may expire at any moment, so that a set   *)
(* ristretto drops looks like an early expiry.  Whether the key is hot,    *)
(* which HotKeyDetector decides, is a free choice here.                    *)
(***************************************************************************)
EXTENDS Naturals, FiniteSets

CONSTANTS
    Pods, Readers, Writers,
    PodOf,         \* the pod each reader and writer runs in
    Kind,          \* "order" or "profile": which service owns the key
    Rows,          \* the contents writers give the row, each written once
    Miss,          \* no entry
    Null,          \* NullMarker in a cache, no row in the database
    Lag,           \* TRUE iff reads go to a replica that may lag
    RedisFaults,   \* TRUE iff a Redis command may fail
    MaxRestarts,   \* bound: pod restarts in a behaviour
    MaxDBErrors    \* bound: database statements that fail in a behaviour

ASSUME CacheAssumption ==
    /\ PodOf \in [Readers \cup Writers -> Pods]
    /\ Kind \in {"order", "profile"}
    /\ Miss # Null /\ Miss \notin Rows /\ Null \notin Rows
    /\ Lag \in BOOLEAN /\ RedisFaults \in BOOLEAN
    /\ MaxRestarts \in Nat /\ MaxDBErrors \in Nat

VARIABLES
    db, replica,   \* the row in the primary, and as a replica shows it
    l1, l2,        \* the cache entries
    lock,          \* the key "cache:lock:..." exists in Redis
    rpc, rval,     \* readers: position, and the value in hand or returned
    holds,         \* readers: SETNX succeeded
    wpc, wrow,     \* writers: position, and the row in hand
    delayed,       \* writers: position of the goroutine of the second delete
    unwritten,     \* rows no writer has taken up yet
    events,        \* rows published to Kafka and not consumed yet
    restarts, dbErrors,
    clean,         \* observer: see DelayedDelete2
    healed         \* observer: see DelayedDelete1

dbVars == <<db, replica>>
rVars  == <<rpc, rval, holds>>
faults == <<restarts, dbErrors>>
marks  == <<clean, healed>>
wVars  == <<wpc, wrow, delayed, unwritten, events>>
vars   == <<db, replica, l1, l2, lock, rpc, rval, holds, wpc, wrow, delayed,
            unwritten, events, restarts, dbErrors, clean, healed>>

Contents == Rows \cup {Null}

Init ==
    /\ db = Null /\ replica = Null
    /\ l1 = [p \in Pods |-> Miss] /\ l2 = Miss
    /\ lock = FALSE
    /\ rpc = [r \in Readers |-> "idle"]
    /\ rval = [r \in Readers |-> Miss]
    /\ holds = [r \in Readers |-> FALSE]
    /\ wpc = [w \in Writers |-> "idle"]
    /\ wrow = [w \in Writers |-> Null]
    /\ delayed = [w \in Writers |-> "none"]
    /\ unwritten = Rows
    /\ events = {}
    /\ restarts = 0 /\ dbErrors = 0
    /\ clean = FALSE /\ healed = {}

-----------------------------------------------------------------------------
(* Redis.                                                                  *)

\* SET and DEL: the caller ignores the error of a command that failed.
L2Becomes(v) == l2' = v \/ (RedisFaults /\ l2' = l2)

L1Becomes(p, v) == l1' = [l1 EXCEPT ![p] = v]

-----------------------------------------------------------------------------
(* Readers: GetOrder or GetProfile, and MultiLevelCache.Get under it.      *)

Step(r, from, to) == rpc[r] = from /\ rpc' = [rpc EXCEPT ![r] = to]
Take(r, v) == rval' = [rval EXCEPT ![r] = v]
L1Of(r) == l1[PodOf[r]]

\* A statement fails, or its answer is lost.
DBError == dbErrors < MaxDBErrors /\ dbErrors' = dbErrors + 1

\* Get looks in L1; a hit is the answer.
GetL1(r) ==
    /\ Step(r, "idle", IF L1Of(r) = Miss THEN "l2" ELSE "idle")
    /\ Take(r, L1Of(r))
    /\ UNCHANGED <<dbVars, l1, l2, lock, holds, wVars, faults, marks>>

\* Then in L2: a hit is taken back to L1.
GetL2Hit(r) ==
    /\ l2 # Miss
    /\ Step(r, "l2", "backfill")
    /\ Take(r, l2)
    /\ UNCHANGED <<dbVars, l1, l2, lock, holds, wVars, faults, marks>>

Backfill(r) ==
    /\ Step(r, "backfill", "idle")
    /\ L1Becomes(PodOf[r], rval[r])
    /\ UNCHANGED <<dbVars, l2, lock, rval, holds, wVars, faults, marks>>

\* A miss, or an error that is logged: load, under the lock if the key is hot.
GetL2Miss(r) ==
    /\ l2 = Miss \/ RedisFaults
    /\ \E next \in {"load", "lock"} : Step(r, "l2", next)
    /\ UNCHANGED <<dbVars, l1, l2, lock, rval, holds, wVars, faults, marks>>

\* loadWithLock: SETNX.
Locked(r) ==
    /\ ~lock
    /\ Step(r, "lock", "load")
    /\ lock' = TRUE
    /\ holds' = [holds EXCEPT ![r] = TRUE]
    /\ UNCHANGED <<dbVars, l1, l2, rval, wVars, faults, marks>>

\* Somebody else loads: sleep, then look in L2 once more.
NotLocked(r) ==
    /\ lock
    /\ Step(r, "lock", "again")
    /\ UNCHANGED <<dbVars, l1, l2, lock, rval, holds, wVars, faults, marks>>

\* SETNX fails: Get returns the error and the service passes it on.
LockFailed(r) ==
    /\ RedisFaults
    /\ Step(r, "lock", "idle")
    /\ UNCHANGED <<dbVars, l1, l2, lock, rval, holds, wVars, faults, marks>>

\* The second look: a hit is the answer, without L1; a miss is reported as
\* not found in the cache, and the service asks its database itself.
AgainHit(r) ==
    /\ l2 # Miss
    /\ Step(r, "again", "idle")
    /\ Take(r, l2)
    /\ UNCHANGED <<dbVars, l1, l2, lock, holds, wVars, faults, marks>>

AgainMiss(r) ==
    /\ l2 = Miss \/ RedisFaults
    /\ Step(r, "again", "query")
    /\ UNCHANGED <<dbVars, l1, l2, lock, rval, holds, wVars, faults, marks>>

\* newDataLoader: orders are read from a replica.  The profile case compares
\* the first 12 bytes of the key with a literal of 13 and never applies, so a
\* profile key falls to the default, which returns nil.
LoaderResult == IF Kind = "order" THEN replica ELSE Null

\* loadFromDB: the loader, then L2, then L1.
Load(r) ==
    /\ Step(r, "load", "fill2")
    /\ Take(r, LoaderResult)
    /\ UNCHANGED <<dbVars, l1, l2, lock, holds, wVars, faults, marks>>

\* An error of the order query is swallowed: the loader returns nil for it,
\* and the caches are told that the order does not exist.
LoadFailed(r) ==
    /\ Kind = "order"
    /\ DBError
    /\ Step(r, "load", "fill2")
    /\ Take(r, Null)
    /\ clean' = FALSE /\ healed' = {}
    /\ UNCHANGED <<dbVars, l1, l2, lock, holds, wVars, restarts>>

Fill2(r) ==
    /\ Step(r, "fill2", "fill1")
    /\ L2Becomes(rval[r])
    /\ UNCHANGED <<dbVars, l1, lock, rval, holds, wVars, faults, marks>>

\* Mutant of Fill1: the lock is not released.
Fill1NoUnlock(r) ==
    /\ Step(r, "fill1", "idle")
    /\ L1Becomes(PodOf[r], rval[r])
    /\ UNCHANGED <<dbVars, l2, lock, rval, holds, wVars, faults, marks>>

Fill1(r) ==
    /\ Step(r, "fill1", IF holds[r] THEN "unlock" ELSE "idle")
    /\ L1Becomes(PodOf[r], rval[r])
    /\ UNCHANGED <<dbVars, l2, lock, rval, holds, wVars, faults, marks>>

\* The deferred DEL of the lock: whoever holds it by now.
Unlock(r) ==
    /\ Step(r, "unlock", "idle")
    /\ lock' = FALSE \/ (RedisFaults /\ lock' = lock)
    /\ holds' = [holds EXCEPT ![r] = FALSE]
    /\ UNCHANGED <<dbVars, l1, l2, rval, wVars, faults, marks>>

\* The service's own query: dbQuery on a replica, loadFromMongo on MongoDB.
ServiceResult == IF Kind = "order" THEN replica ELSE db

\* It fills with Set or SetNull: L1 first, then L2.
Query(r) ==
    /\ Step(r, "query", "set1")
    /\ Take(r, ServiceResult)
    /\ UNCHANGED <<dbVars, l1, l2, lock, holds, wVars, faults, marks>>

\* An error of the service's own query is returned and nothing is cached.
QueryFailed(r) ==
    /\ DBError
    /\ Step(r, "query", "idle")
    /\ UNCHANGED <<dbVars, l1, l2, lock, rval, holds, wVars, restarts, marks>>

Set1(r) ==
    /\ Step(r, "set1", "set2")
    /\ L1Becomes(PodOf[r], rval[r])
    /\ UNCHANGED <<dbVars, l2, lock, rval, holds, wVars, faults, marks>>

Set2(r) ==
    /\ Step(r, "set2", "idle")
    /\ L2Becomes(rval[r])
    /\ UNCHANGED <<dbVars, l1, lock, rval, holds, wVars, faults, marks>>

ReaderStep(r) ==
    \/ GetL2Hit(r) \/ Backfill(r) \/ GetL2Miss(r)
    \/ Locked(r) \/ NotLocked(r) \/ LockFailed(r) \/ AgainHit(r) \/ AgainMiss(r)
    \/ Load(r) \/ LoadFailed(r) \/ Fill2(r) \/ Fill1(r) \/ Unlock(r)
    \/ Query(r) \/ QueryFailed(r) \/ Set1(r) \/ Set2(r)

-----------------------------------------------------------------------------
(* Writers.                                                                *)

WStep(w, from, to) == wpc[w] = from /\ wpc' = [wpc EXCEPT ![w] = to]

\* The row becomes v in the primary, and in the replicas unless they lag.  If
\* that changes it, the caches are not known to be clean any more.
WriteRow(v) ==
    /\ db' = v
    /\ replica' = IF Lag THEN replica ELSE v
    /\ clean' = (clean /\ v = db)
    /\ healed' = IF v = db THEN healed ELSE {}

\* The database statement of a synchronous write.  An order is then warmed
\* up in the cache (dbWrite); a profile is not (UpsertProfile).
WriteDB(w, v) ==
    /\ v \in unwritten
    /\ delayed[w] = "none"
    /\ WStep(w, "idle", IF Kind = "order" THEN "warm1" ELSE "del2")
    /\ WriteRow(v)
    /\ wrow' = [wrow EXCEPT ![w] = v]
    /\ unwritten' = unwritten \ {v}
    /\ UNCHANGED <<l1, l2, lock, rVars, delayed, events, faults>>

\* The write fails although its row may be there: a synchronous write answers
\* the error and leaves the caches alone; Kafka keeps the event for a retry.
WriteFailed(v) ==
    /\ v \in unwritten \cup events
    /\ DBError
    /\ WriteRow(v) \/ WriteRow(db)
    /\ unwritten' = unwritten \ {v}
    /\ UNCHANGED <<l1, l2, lock, rVars, wpc, wrow, delayed, events, restarts>>

\* Set: L1, then L2.
Warm1(w) ==
    /\ WStep(w, "warm1", "warm2")
    /\ L1Becomes(PodOf[w], wrow[w])
    /\ UNCHANGED <<dbVars, l2, lock, rVars, wrow, delayed, unwritten, events, faults, marks>>

Warm2(w) ==
    /\ WStep(w, "warm2", "del2")
    /\ L2Becomes(wrow[w])
    /\ UNCHANGED <<dbVars, l1, lock, rVars, wrow, delayed, unwritten, events, faults, marks>>

\* InvalidateWithDelay, the first delete: L2, then L1.
Delete2(w) ==
    /\ WStep(w, "del2", "del1")
    /\ L2Becomes(Miss)
    /\ UNCHANGED <<dbVars, l1, lock, rVars, wrow, delayed, unwritten, events, faults, marks>>

\* The delayed goroutine starts, an order is published, the caller answered.
Delete1(w) ==
    /\ WStep(w, "del1", "idle")
    /\ L1Becomes(PodOf[w], Miss)
    /\ delayed' = [delayed EXCEPT ![w] = "wait"]
    /\ events' = IF Kind = "order" THEN events \cup {wrow[w]} ELSE events
    /\ UNCHANGED <<dbVars, l2, lock, rVars, wrow, unwritten, faults, marks>>

\* Nobody is about to put anything but the row into a cache.
Filling(r) == rpc[r] \in {"backfill", "fill2", "fill1", "set1", "set2"}
Warming(w) == wpc[w] \in {"warm1", "warm2", "ewarm1", "ewarm2"}

NothingStaleUnderWay ==
    /\ replica = db
    /\ \A r \in Readers : Filling(r) => rval[r] = db
    /\ \A w \in Writers : Warming(w) => wrow[w] = db

\* The second delete, after the delay: L2, then L1 of this pod.  clean notes
\* that Redis executed it when the delay had outlasted replication and the
\* loads and warm-ups that were under way, which nothing guarantees.
DelayedDelete2(w) ==
    /\ delayed[w] = "wait"
    /\ L2Becomes(Miss)
    /\ delayed' = [delayed EXCEPT ![w] = "del1"]
    /\ clean' = (clean \/ (NothingStaleUnderWay /\ l2' = Miss))
    /\ UNCHANGED <<dbVars, l1, lock, rVars, wpc, wrow, unwritten, events, faults, healed>>

\* Mutant of DelayedDelete1: the second delete leaves L1 alone.
DelayedDelete1L2Only(w) ==
    /\ delayed[w] = "del1"
    /\ delayed' = [delayed EXCEPT ![w] = "done"]
    /\ healed' = IF clean THEN healed \cup {PodOf[w]} ELSE healed
    /\ UNCHANGED <<dbVars, l1, l2, lock, rVars, wpc, wrow, unwritten, events, faults, clean>>

\* healed notes the pods whose L1 was deleted after L2 had become clean.
DelayedDelete1(w) ==
    /\ delayed[w] = "del1"
    /\ L1Becomes(PodOf[w], Miss)
    /\ delayed' = [delayed EXCEPT ![w] = "done"]
    /\ healed' = IF clean THEN healed \cup {PodOf[w]} ELSE healed
    /\ UNCHANGED <<dbVars, l2, lock, rVars, wpc, wrow, unwritten, events, faults, clean>>

\* createAsync: the order is only published.
Publish(v) ==
    /\ Kind = "order"
    /\ v \in unwritten
    /\ unwritten' = unwritten \ {v}
    /\ events' = events \cup {v}
    /\ UNCHANGED <<dbVars, l1, l2, lock, rVars, wpc, wrow, delayed, faults, marks>>

\* HandleOrderEvent: upsert and warm up like dbWrite, then Invalidate.
Consume(w, v) ==
    /\ v \in events
    /\ WStep(w, "idle", "ewarm1")
    /\ WriteRow(v)
    /\ wrow' = [wrow EXCEPT ![w] = v]
    /\ events' = events \ {v}
    /\ UNCHANGED <<l1, l2, lock, rVars, delayed, unwritten, faults>>

EventWarm1(w) ==
    /\ WStep(w, "ewarm1", "ewarm2")
    /\ L1Becomes(PodOf[w], wrow[w])
    /\ UNCHANGED <<dbVars, l2, lock, rVars, wrow, delayed, unwritten, events, faults, marks>>

EventWarm2(w) ==
    /\ WStep(w, "ewarm2", "inv1")
    /\ L2Becomes(wrow[w])
    /\ UNCHANGED <<dbVars, l1, lock, rVars, wrow, delayed, unwritten, events, faults, marks>>

\* Invalidate: L1, then L2.
Invalidate1(w) ==
    /\ WStep(w, "inv1", "inv2")
    /\ L1Becomes(PodOf[w], Miss)
    /\ UNCHANGED <<dbVars, l2, lock, rVars, wrow, delayed, unwritten, events, faults, marks>>

Invalidate2(w) ==
    /\ WStep(w, "inv2", "idle")
    /\ L2Becomes(Miss)
    /\ UNCHANGED <<dbVars, l1, lock, rVars, wrow, delayed, unwritten, events, faults, marks>>

WriterStep(w) ==
    \/ Warm1(w) \/ Warm2(w) \/ Delete2(w) \/ Delete1(w)
    \/ DelayedDelete2(w) \/ DelayedDelete1(w)
    \/ (\E v \in Rows : Consume(w, v))
    \/ EventWarm1(w) \/ EventWarm2(w) \/ Invalidate1(w) \/ Invalidate2(w)

-----------------------------------------------------------------------------
(* Time and failures.                                                      *)

Replicate ==
    /\ replica # db
    /\ replica' = db
    /\ UNCHANGED <<db, l1, l2, lock, rVars, wVars, faults, marks>>

\* Mutant of ExpireL2: entries are stored without a TTL.
ExpireL2Never == FALSE /\ UNCHANGED vars

ExpireL2 ==
    /\ l2 # Miss
    /\ l2' = Miss
    /\ UNCHANGED <<dbVars, l1, lock, rVars, wVars, faults, marks>>

ExpireL1(p) ==
    /\ l1[p] # Miss
    /\ L1Becomes(p, Miss)
    /\ UNCHANGED <<dbVars, l2, lock, rVars, wVars, faults, marks>>

ExpireLock ==
    /\ lock
    /\ lock' = FALSE
    /\ UNCHANGED <<dbVars, l1, l2, rVars, wVars, faults, marks>>

\* A pod restarts: its L1, its requests and its delayed deletes are gone, and
\* Kafka delivers the event a consumer of the pod had not finished again.
Restart(p) ==
    /\ restarts < MaxRestarts
    /\ restarts' = restarts + 1
    /\ L1Becomes(p, Miss)
    /\ rpc' = [r \in Readers |-> IF PodOf[r] = p THEN "idle" ELSE rpc[r]]
    /\ rval' = [r \in Readers |-> IF PodOf[r] = p THEN Miss ELSE rval[r]]
    /\ holds' = [r \in Readers |-> IF PodOf[r] = p THEN FALSE ELSE holds[r]]
    /\ wpc' = [w \in Writers |-> IF PodOf[w] = p THEN "idle" ELSE wpc[w]]
    /\ delayed' = [w \in Writers |-> IF PodOf[w] = p THEN "none" ELSE delayed[w]]
    /\ events' = events \cup {wrow[w] : w \in {u \in Writers :
                     PodOf[u] = p /\ wpc[u] \in {"ewarm1", "ewarm2", "inv1", "inv2"}}}
    /\ UNCHANGED <<dbVars, l2, lock, wrow, unwritten, dbErrors, marks>>

Next ==
    \/ \E r \in Readers : GetL1(r) \/ ReaderStep(r)
    \/ \E w \in Writers : WriterStep(w) \/ \E v \in Rows : WriteDB(w, v)
    \/ \E v \in Rows : Publish(v) \/ WriteFailed(v)
    \/ Replicate \/ ExpireL2 \/ ExpireLock
    \/ \E p \in Pods : ExpireL1(p) \/ Restart(p)

Spec == Init /\ [][Next]_vars

\* Goroutines run, entries expire, the replica follows.
Fairness ==
    /\ \A r \in Readers : WF_vars(ReaderStep(r))
    /\ \A w \in Writers : WF_vars(WriterStep(w))
    /\ WF_vars(Replicate) /\ WF_vars(ExpireL2)
    /\ \A p \in Pods : WF_vars(ExpireL1(p))

FairSpec == Spec /\ Fairness

-----------------------------------------------------------------------------
(* Properties.                                                             *)

\* The state is well-formed; only a reader that is loading, or about to run its
\* deferred DEL, believes to hold the lock (loadWithLock).
TypeOK ==
    /\ \A r \in Readers : holds[r] => rpc[r] \in {"load", "fill2", "fill1", "unlock"}
    /\ db \in Contents /\ replica \in Contents
    /\ l1 \in [Pods -> Contents \cup {Miss}] /\ l2 \in Contents \cup {Miss}
    /\ lock \in BOOLEAN
    /\ rpc \in [Readers -> {"idle", "l2", "backfill", "lock", "again", "load",
                            "fill2", "fill1", "unlock", "query", "set1", "set2"}]
    /\ rval \in [Readers -> Contents \cup {Miss}]
    /\ holds \in [Readers -> BOOLEAN]
    /\ wpc \in [Writers -> {"idle", "warm1", "warm2", "del2", "del1",
                            "ewarm1", "ewarm2", "inv1", "inv2"}]
    /\ wrow \in [Writers -> Contents]
    /\ delayed \in [Writers -> {"none", "wait", "del1", "done"}]
    /\ unwritten \subseteq Rows /\ events \subseteq Rows
    /\ restarts \in 0..MaxRestarts /\ dbErrors \in 0..MaxDBErrors
    /\ clean \in BOOLEAN /\ healed \subseteq Pods

Fresh(entry) == entry \in {Miss, db}

\* What the delayed double delete is for (InvalidateWithDelay): from a second
\* delete that Redis executed when nothing stale was under way, and until the
\* row changes or a failing load is swallowed, L2 holds nothing but the row,
\* and neither does the L1 of a pod whose second delete is over, however
\* reads, hot-key locks, other writers' warm-ups and deletes, consumers,
\* expiry, failing Redis commands and restarts interleave with it.
DoubleDeleteHeals ==
    Kind = "order" =>
        /\ clean => Fresh(l2)
        /\ \A p \in healed : Fresh(l1[p])

\* Without any assumption on delays, with failing Redis commands, failing
\* statements, swallowed loader errors and lost second deletes: the TTLs make
\* every copy in every pod converge to the database.
EventuallyFresh == <>[](Fresh(l2) /\ \A p \in Pods : Fresh(l1[p]))

\* Nothing stale is left for pod p: not in its L1, not in L2, and not in the hands
\* of anybody who might put it there.
CoherentIn(p) == NothingStaleUnderWay /\ Fresh(l2) /\ Fresh(l1[p])

\* What EventuallyFresh rests on, without fairness and without the second delete:
\* a pod that has become coherent, by expiry, deletes or restarts, stays so until
\* the row changes or an error of the loader is cached as "not found".
FreshnessStable ==
    [][\A p \in Pods :
          /\ Kind = "order" /\ CoherentIn(p)
          /\ db' = db /\ ~\E r \in Readers : LoadFailed(r)
          => CoherentIn(p)']_vars
=============================================================================
