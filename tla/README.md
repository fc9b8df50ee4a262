# TLA+ models of high-concurrency-framework

The framework is a Go service that takes orders under high load. A write goes
synchronously to MySQL while a token bucket and a circuit breaker allow it, and
to Kafka otherwise; a Kafka consumer stores those orders later. Reads go through
a three-level cache. Profiles live in MongoDB, behaviour logs in PostgreSQL, and
orders and profiles are searched in Elasticsearch.

This directory models the parts whose correctness depends on interleavings,
failures and time, model-checks them with TLC on small instances, and proves the
main safety properties with TLAPS for every value of the constants. All paths
below are relative to the repository.

## Inventory

| Component | State | Operations | What makes it correct |
|---|---|---|---|
| Kafka consumer, `internal/mq/consumer.go` | workers, their message and attempt, stop and done channels, the group's offset | fetch, handle with retries, dead-letter, commit, stop | no event disappears; a stop or crash gives up a bounded number; every event is dealt with |
| Kafka producer, `internal/mq/producer.go` | two writers | Send, SendAsync, SendToDLQ | what is acknowledged is in the log; dead letters are where operators look |
| Circuit breaker, `internal/resilience/circuit_breaker.go` | state, window counters, probe counter, time of the last change | Allow, RecordSuccess, RecordFailure, two loops, Stop | opens and heals by rule, recovers; admits a few probes when half open (it does not: see below) |
| Rate limiter, `internal/resilience/rate_limiter.go` | tokens, time of the last refill | TryAcquire, WaitAcquire, Tokens | burst and rate bound; no token lost |
| Multi-level cache, `internal/cache/multi_level_cache.go` | L1 per pod, L2 in Redis, hot-key lock | Get, Set, SetNull, Invalidate, InvalidateWithDelay | the second delete removes stale copies; copies converge |
| Order service, `internal/service/order_service.go` | a sequence and random digits per process, the table orders | CreateOrder, CreateOrderForceSync, HandleOrderEvent, generateOrderNo | an answered order is kept, or its loss has a known cause; two orders rarely meet in a row; the order of database, cache and Kafka steps |
| Profile service, `internal/service/user_profile_service.go` | the indexing slots | GetProfile, UpsertProfile, SearchUsers | a stored profile can be read and found |
| Analytics service, `internal/service/analytics_service.go` | channel, batch, INSERT goroutines | LogOrderCreated, batchWriter, Close | an entry is in one place; Close flushes; nothing waits for ever |
| Hot key detector, `internal/cache/hot_key_detector.go` | a slot ring per key, hot set | RecordAccess, cleanup, Stop | counts neither miss recent accesses nor outlive their window by more than a bound; keys that are busy when tested keep their ring, quiet ones lose it |
| Search, `internal/database/elasticsearch.go` with `indexProfileToES`, `indexOrderToES` | two indexes and their mapping, goroutines under a semaphore | index a document, EnsureSearchIndexes, SearchOrders, SearchUsers | only documents of executed writes are found; the last write is found in the end; no slot is lost |
| Readiness, `internal/health/health.go` | a start-up flag | liveness, readiness, start-up probes | taking traffic away does not keep the breaker open |
| Distributed lock, `internal/lock/distributed_lock.go` | a Redis key with a token | Lock, Unlock | only the owner releases; nobody waits for ever |
| Auth service, `internal/service/auth_service.go`, `internal/middleware/auth.go` | the table users, tokens | Register, Login, GetMe | one user per name; races are not answered as internal errors; only duplicates are refused (they are not: see below); disabled users stay out |
| main, `cmd/server/main.go` | wiring, data loader, shutdown | start, load, stop | loader routes keys; shutdown loses nothing |
| RWDB, repositories, schema, middleware, handlers, config | connections | I/O | - |

How they interact: handlers call the order service, which asks the breaker, then
the bucket, then takes the distributed lock, writes MySQL, warms up and deletes
the cache entry and publishes an event; when any of the first three says no it
only publishes. The consumer calls back into the order service
(`HandleOrderEvent`), which writes the same row again (an upsert) and invalidates
the cache. After every write a goroutine sends the order or profile to
Elasticsearch. The handler then logs to the analytics service. Every cache miss is
counted by the hot key detector, and Kubernetes sends a pod no requests while its
readiness probe finds the breaker open. Redis and Kafka are
shared by all pods; L1, the breaker, the bucket and the analytics channel are per
pod.

Hard behaviours: eight workers that commit offsets of one partition out of
order; a stop that cancels contexts in the middle of a delivery; a breaker whose
counters are atomics while its state is under a mutex; caches filled by readers
that loaded before a write; deletes that run half a second later in a goroutine
that a restart loses; a shutdown that closes services while requests run; a lock
that expires under its holder; requests that Redis, MySQL or Kafka executes
although they seem to fail; registrations that check a lagging replica before
they write the primary; a sliding window that several goroutines move, count in and
sum in separate critical sections; and documents that goroutines send to the search
index in any order.
`PROJECT.json` lists each hazard at its line.

## Modules

| Module | Models | State and actions |
|---|---|---|
| `EventConsumer` | producer and consumer on one partition | `pc`, `off`, `attempt`, `cancelled` per worker are the locals of `consumeLoop` and `processWithRetry`; one action per call the loop makes; `Stop`, `Cancel`, `CloseReader`, `Exit` are the graceful stop, `Crash` the other one |
| `BreakerSpec` | the promise of a circuit breaker | phase, wins, waited |
| `CircuitBreaker` | the breaker's code | request goroutines move through `call`, `success` or `failing`, `failure`, one step per atomic operation or critical section; the two loops are processes; `Ready` is the readiness probe; implements `BreakerSpec` |
| `WriteRateLimiter` | the token bucket | tokens and time in fractions of 1/Scale, with two observers (since any moment, since the bucket was full) |
| `MultiLevelCache` | one key in all pods, with the services that use it | a step per Redis command, L1 operation and statement; `clean` and `healed` observe what the second deletes have achieved |
| `HotKeyDetector` | one key of the detector | `pc` and `mine` are the position in `RecordAccess` and the ring it looked up; one step per section under the map's or a ring's lock; `cleaner` is `cleanupLoop`, whose `Test` and `Delete` are two steps under one hold of the map's lock, because `sum` gives the ring's back in between; `seen` and `late` observe what is counted between them; an observer follows one access, any of them, from its advance until its slot is cleared |
| `SearchIndex` | one of the two search indexes | per request the position in `UpsertProfile`, `slots` the semaphore, `running` the goroutines, `net` the documents on their way, `index` and `visible` what Elasticsearch holds and shows; `Ensure...` is the initialisation goroutine; `tidy` and `raced` observe undisturbed writes and index creation |
| `BehaviourLog` | the promise of a buffered log | entries waiting, tried or lost; the phases of a shutdown |
| `AnalyticsService` | the behaviour log and the shutdown around it | requests, `batchWriter`, one goroutine per batch, `main`; implements `BehaviourLog` with the entries in channel, batch and goroutines as those waiting |
| `DistributedLock` | the Redis lock | operators for SETNX, the script of `Unlock`, the deadline, the TTL and lost answers; instantiated by `OrderService` with order numbers as keys and requests as tokens |
| `OrderService` | the creation of orders in several processes | per request the call it is at, per process the sequence; `rows` is the table, `events` the topic, `dead` the dead-letter topic, `passed` the events the consumer gave up and could not dead-letter, `pending` the goroutines of `SendAsync`; `Crash` ends a process with its requests |
| `AuthService` | registration, login, tokens | `log` is the primary's table as its sequence of changes, `pos` how much of it each replica has; a step per statement of a request; `long` are the registrations whose password has more than 72 bytes, which `bcrypt.GenerateFromPassword` refuses |
| `*_proofs` | theorems | extend the module they are about; `Resilience_proofs` is about both modules of `internal/resilience` |
| `MC*` | instances | model values and the few constants a cfg cannot write; `MCCircuitBreaker` adds a history of the probes |
| `MCResilience`, `MCCache` | the instances of packages `internal/resilience` and `internal/cache` | two components that share no variable; `part`, chosen initially, is the one a behaviour follows, so that their states add up and do not multiply. The names of the bucket's and the detector's specification carry theirs for this reason |

Definitions named "Mutant of ..." are wrong variants of the definition that
follows. No specification uses them; each shows that a property notices the
mistake it stands for.

### Abstractions

* Kafka, Redis, MySQL, PostgreSQL and MongoDB are modelled by what the code sees
  of them: an append may be repeated when its answer was lost, the last commit
  wins, a command may fail and the caller may ignore it. One partition is enough,
  because offsets of different partitions do not interact. With
  `start_from_latest: false` (the configured value) a group without a commit
  starts at the first offset, which is what `NewProcess` does.
* A message is the order it carries. The JSON encoding, headers and trace ids are
  left out. `Poison` orders are those that HandleOrderEvent can never store, such
  as a payload that does not decode.
* Time is a tick counter where a comparison depends on it (breaker, bucket) and
  nondeterminism elsewhere: an entry may expire, a timer may fire at any moment.
* In `MultiLevelCache` nothing bounds the delay of the second delete. What it relies
  on, that 500 ms outlast replication and the loads under way, is the condition
  `NothingStaleUnderWay` at the moment Redis executes it: `DoubleDeleteHeals` says
  what the delete then achieves, `EventuallyFresh` what is left without it.
* `HotKeyDetector` has one key, because keys share only the lock of the map. A ring
  that nobody refers to any more may be used again, so as many as there are
  accessors are enough. The ticker of `cleanupLoop` may fire at any moment.
* `SearchIndex` has one index and searches for one document; orders and profiles
  take the same steps with 100 and 50 slots. A document on its way arrives in any
  order, may be repeated by the client library, and arrives even if its goroutine
  gave up or its process died. A search sees the last refresh.
  Contents are the write that set the common fields and, for each field that not
  every write sets, the write its value is from. An upsert merges: `Keeps` are the
  fields that a statement leaves alone in a document that exists. For profiles they
  are those the request omits (`mongo.go:53` is a `$set` of a struct whose `id`,
  `bio` and `tags` are `omitempty`, `models.go:25-36`), for orders `user_id` and
  `created_at`, which `ON DUPLICATE KEY UPDATE` does not name
  (`order_service.go:312`). Elasticsearch is sent the request's own document and
  replaces the old one. The instance of `search` is that of profiles.
* In `OrderService` the answers of breaker and bucket are free choices and the
  cache steps are left to `MultiLevelCache`. The processes of the deployment have
  MySQL, Redis and Kafka; the degraded modes without one of them, and `WithLock`,
  which nobody calls, are left out. The consumer is its outcome: `HandleOrderEvent`
  stores the order, or `HandleFailed` has it fail, after which the event is tried
  again, dead-lettered, or passed over, with or without its offset committed; the
  detail is in `EventConsumer`. A number is the value of its decimal digits:
  the user's, five of the sequence (`SeqMod`), three of the process (`RandMod`).
* In `AuthService` a row is named after the registration that inserted it, and a
  token is the user in its claims. Passwords compare equal or not, freely, and may
  be longer than bcrypt takes: validation lets 128 bytes through
  (`models.go:86`), and 73 or more are answered with a 500. The
  column `last_login_at` is read by no decision. Disabling a user is an operator's
  UPDATE, because no handler does it.
* `AnalyticsService` has a PostgreSQL that was connected at the start. In the degraded
  mode without it (`r.db == nil`, `postgres.go:127`) `LogBehaviorBatch` returns nil
  at once: every batch is discarded as if it had been written. None of the module's
  properties is about that mode.
* L1 is a cell per pod. Ristretto may also drop or evict an entry, which is an
  early `ExpireL1`.

## Runs

| Run | Instance | Shows |
|---|---|---|
| `consumer` | 2 orders, one poison, 2 workers, 1 retry, up to 2 appends per Send and 2 events, 1 restart, all faults | `TypeOK`, `Accounted`, `SkipBound`, `AcceptedEventuallySettled` hold |
| `consumer_stop_loss` | no faults, 1 restart | `FailedMessagesNotLost` fails |
| `resilience` | breaker: 2 callers, 2 probes, rate 1/3, 3 calls per window; bucket: capacity 2, 2/3 token per tick, 8 ticks, 2 waiters | `TypeOK`, refinement `BreakerPromise`, `Recovery` of the breaker, `BucketOK`, `BurstBound`, `NoTokenLost` of the bucket hold |
| `half_open_limit` | 3 callers, 2 probes | `HalfOpenLimit` fails |
| `cache` | cache: a reader and a writer in one pod, a writer in another, one row, lagging replica, failing Redis commands, one failing statement, one restart; detector: 2 accessors, 3 accesses, rings of 2 slots of 2 ticks, 4 ticks, threshold 2, cleanup at 1 | `TypeOK`, `DoubleDeleteHeals`, `EventuallyFresh` of the cache, `DetectorOK`, `OldForgotten`, `RecentCounted`, `BusyRingStays`, `LowKeysCleaned` of the detector hold |
| `profile_readable` | one pod, a profile key | `EventuallyFresh` fails |
| `analytics` | 3 requests, channel of 1, batches of 2, failing INSERTs, shutdown at any moment | `TypeOK`, `OnePlace`, refinement `LogPromise`, `LoggedEventuallySettled` hold |
| `order` | 3 orders of 2 users in 2 processes with the same random digits, a sequence of period 2, 1 fault, which may be a failed delivery | `TypeOK`, `NumbersClash`, `RowsKeepTheirUser`, `AnsweredKept`, `LockProtects`, `OnlyOwnerReleases`, `RequestsEnd` hold |
| `auth` | 3 clients (two of one name; two without e-mail), any of them with a long password, a lagging replica, 1 fault | `TypeOK`, `OneIdentityPerName`, `RacesAnswered`, `NotFoundMeansLag`, `DisabledStaysOut` hold |
| `optional_email` | the same clients, no replica, no faults | `RefusedOnlyDuplicates` fails |
| `search` | 3 writes of one profile (with all fields, without bio, without bio and tags), 2 slots, 2 faults | `TypeOK`, `OnlyStoredFound`, `LastWriteIndexed`, `SearchSettles` hold |
| `analytics_loss` | 2 requests, room for both, no faults | `NothingLost` fails |

Why the bounds are enough: two workers and two events are the least that can
commit out of order, skip an event at a crash and be given one twice; one retry
has a first, a last and no attempt left; two probes have one that does not close
the breaker and one that does; 2/3 of a token per tick makes every refill
fractional; a channel of one slot is full with one entry and a batch of two is
exceeded by three; processes that cannot be told apart by their digits are the
worst case for order numbers, and one crash or lost answer is what the code sets
out to survive; the three clients of `auth` race for a name, for an e-mail, and
for the empty e-mail; two slots have a current one and one behind it, and four ticks
move a ring past both; three writes and two slots have one too many, and leave a
write to repair what two have disordered; two writers and a reader are the least for
one write's second delete to meet another's warm-up and a fill. The safety
properties are proved without these bounds. The proof also covers what an instance
leaves out: in `order` no user has two orders in one process, so the third way of
`NumbersClash` for two orders to share a number, a whole period apart, is covered by
`NumbersClashRarely` alone.
Deadlock checking is off where the system may stop: an idle consumer waits for events
for ever, and a process that exited does nothing.

### What fails, and why

* `consumer_stop_loss`: `Stop` cancels the context that `SendToDLQ` is given, but
  not the one of the commit, so an event that is between two attempts at a
  graceful stop is neither stored nor dead-lettered, and is never delivered again.
* `profile_readable`: the loader compares 12 bytes with a literal of 13.
* `analytics_loss`: `main` closes the analytics service before `srv.Shutdown`.
* `half_open_limit`: `maxRequests` is to limit the probes (`circuit_breaker.go:38`,
  `docs/需求文档.md:290`, `docs/API-接口文档.md:692`), but `halfOpenCount` counts
  successes, not admissions, so requests pass `Allow` until `maxRequests` have
  succeeded. `AllowNeverLimits` proves that the comparison in `Allow` never refuses.
* `optional_email`: an e-mail is optional (`auth_service.go:56`, `models.go:87`), but
  stored as `''` under the unique index `uk_email` (`sql/mysql_init.sql:16`), so
  the second user without one is refused, and told that the name exists.
  `RefusalCauses` proves that this is the only refusal of somebody who is no
  duplicate.

### Remarks on the code

* Dead letters. `main` gives the consumer a producer on `order-create.dlq`, whose
  own dead-letter topic is `order-create.dlq.dlq`, not the one of
  `config.yaml:84`. No constructor creates it; `consumer` assumes that it was made
  by hand (`OpsTopics`), otherwise every dead letter is refused. `SendToDLQ` also
  encodes the bytes it is given as JSON, so that the payload is base64.
* Orders "readable at once" (`order_service.go:93`). The entry warmed up by a
  synchronous write is deleted again, and a replica that lags makes the next read
  cache a null marker. `EventuallyFresh` says that this heals.
* Order numbers are not globally unique as `order_service.go:406` says.
  `NumbersClash` states when two orders share one, `RowsKeepTheirUser` that the
  upsert then at least stays within one user, and `AnsweredKept` exempts exactly
  these orders.
* Delivery is at-least-once according to `docs/需求文档.md:363`. It is not: workers
  commit out of order, and an exit skips the events that workers below the highest
  commit still hold. `SkipBound` says how many that can be, and
  `SingleWorkerSkipsNothing` that one worker makes the claim true of commits.
* A token of a disabled user works until it expires: `GetMe` does not look at the
  status. `DisabledStaysOut` is about new tokens.
* `cleanup` sums a ring without advancing it. A key that is not accessed any more
  keeps the counts it had, so one with more than a tenth of the threshold is never
  removed and stays marked hot, although `hot_key_detector.go:145` speaks of expired
  keys. `LowKeysCleaned` is about the keys whose count is low. The double-check under
  the write lock is not one with the delete: an access that looked the ring up before
  may count in it in between, so a ring may go with more than a tenth of the threshold
  in it. `BusyRingStays` bounds that by one for each such access. A mark set after
  `cleanup` removed the ring stays until the key is accessed and cleaned again.
* The window of the detector is longer than `windowSize` under sparse traffic:
  `advance` drops the rest of a slot whenever it moves. `OldForgotten` gives the
  bound, nearly twice the window.
* L1 entries of other pods live until their TTL. `docs/需求文档.md:277` promises a
  broadcast; nobody calls `BroadcastEviction` or `ReceiveEviction`.
* The search index is not eventually consistent as `docs/需求文档.md:360` has it:
  concurrent writes of a document may be indexed in the wrong order, a skipped,
  refused or cut off one is not tried again, and the index stays behind until the
  document is written once more. Even an undisturbed write leaves the two different
  in the fields it omits: MongoDB keeps an old bio and tags, Elasticsearch drops
  them. `LastWriteIndexed` states when, and in what, index and database agree.
* A search while Elasticsearch is down answers 500, and 200 without hits if it
  answers with an error status, where `docs/需求文档.md:328` has 503; 503 is the
  answer of a process that could not connect when it started, for as long as it runs.

## Fairness

* `EventConsumer`: weak fairness of every worker and of its cancellation (the Go
  scheduler, timers), strong fairness of `Fetch` (a broker that is up answers a
  reader that keeps asking; failures may come in between), weak fairness of the
  end of `Stop`. No fairness of producers, faults or the decision to stop.
* `CircuitBreaker`: time passes, both tickers fire, a goroutine waiting for `mu`
  gets it (Go's mutexes do not starve). `Traffic` is an assumption on clients:
  requests keep coming to a pod that is ready and are not all diverted; nothing is
  assumed to reach one that is not. Without it nothing records an
  outcome and the breaker rightly stays half open.
* `MultiLevelCache`: goroutines run, TTLs end, the replica catches up. No fairness
  of reads, which are up to clients, and only finitely many failing statements.
* `HotKeyDetector`: a call of `RecordAccess` goes on and the ticker fires. No fairness
  of accesses, of the clock or of `Stop`.
* `SearchIndex`: goroutines run, and Elasticsearch deals with every document it was
  sent and refreshes (the calls have no timeout of their own: without an answer a
  slot is rightly never given back). No fairness of writes, searches or faults.
* `OrderService`: weak fairness of the steps of a request. A call of `Lock` ends by
  its deadline at the latest. No fairness of the TTL, the consumer or the
  goroutines of `SendAsync`: `RequestsEnd` does not need them.
* `AuthService`: none, it has safety properties only.
* `AnalyticsService`: `batchWriter` runs, its ticker fires, and every INSERT ends.

## Proofs

| Module | Theorems |
|---|---|
| `EventConsumer_proofs` | `TypeCorrect`, `NothingUnaccounted`, `SkipsBounded`, `SingleWorkerSkipsNothing`, `DLQGuarantee`, `DeliveriesAdvance`, `DeliveryIsShort` |
| `Resilience_proofs`, breaker | `TypeCorrect`, `AllowNeverLimits`, `ProbesDoNotLeak`, `KeepsPromise` |
| `Resilience_proofs`, limiter | `BucketCorrect`, `GrantsBounded`, `TokensConserved`, `IdealBucket` |
| `AnalyticsService_proofs` | `TypeCorrect`, `EntriesInOnePlace`, `BatchesBounded`, `CloseWaits`, `OnlyLateEntriesLost`, `KeepsLogPromise` |
| `OrderService_proofs` | `TypeCorrect`, `NumbersClashRarely`, `RowsStayWithTheirUser`, `AnswersKept`, `LockHeld`, `OwnersRelease`, `MutualExclusion`, `NothingOverwritten` |
| `MultiLevelCache_proofs` | `TypeCorrect`, `DoubleDelete`, `CoherenceIsStable` |
| `SearchIndex_proofs` | `TypeCorrect`, `OnlyStoredShown`, `LastWriteWins`, `MappingExplicit` |
| `HotKeyDetector_proofs` | `TypeCorrect`, `NoOverCount`, `NoUnderCount`, `RingKept` |
| `AuthService_proofs` | `TypeCorrect`, `IdentitiesUnique`, `RefusalCauses`, `RacesTold`, `NotFoundIsLag`, `DisabledOut` |

They rest on the named assumptions of each module only (finite sets of workers,
callers and requests, positive sizes). Each has an inductive invariant, in the module
or with its proofs, which show that it holds initially, that each action keeps
it, and that it implies the property.

* Consumer. `Accounted` needs `OffsetsOrdered` (a commit never overtakes the
  deliveries) so that a new process starts below everything accounted for.
  `SkipBound` needs `SomeoneAhead`: not all workers hold events below the
  committed offset. It is kept because a worker that commits is itself ahead
  afterwards, and whoever fetches gets an offset above the position and hence
  above the commit. `DLQGuarantee` is the positive side of the finding of
  `consumer_stop_loss`: with no stop or crash, no failing Kafka request and an
  existing dead-letter topic, `Undisturbed` holds, and `Accounted` leaves an event
  no fate but the database, the dead-letter queue or a worker's hands.
  `DeliveriesAdvance` and `DeliveryIsShort` give `Remaining`, a measure that each
  step of a worker decreases and nobody else increases.
* Breaker. `LoopSeesClosed` carries the state the transition loop saw over its
  unlocked reads of the counters; with `ProbesOnlyInHalfOpen` every step is one
  of `BreakerSpec`, or changes none of its variables.
* Limiter. `Budget` is `BurstBound` sharpened by the tokens still in the bucket,
  stated at the last refill, because an observer may start between two refills.
  `IdealBucket` follows from `NoTokenLost`: what a refill yields is a function of the
  time and the grants since the bucket was full.
* Analytics. `Ended` says how far the shutdown has come; together with `OnePlace`
  it leaves an early entry no place but PostgreSQL or the dropped ones. The refinement
  maps every movement between channel, batch and goroutine to a stutter and the end of
  an INSERT to the moment its batch has been tried; `OnePlace` makes that moment unique
  for each entry. `OnlyLateEntriesLost` confines what `analytics_loss` shows.
* Orders. `Digits` (fixed-width digits determine what they were made of) turns equal
  numbers into equal users, sequence digits and process digits; `SeqAhead` (the
  values a process has given out differ, and are not above its sequence) makes the
  distance a whole period. `RowsOwn` ties a row to an order of its number, so an
  upsert can only meet an order of the same user. `AnsweredKept` needs
  `DecidedKept`, its strengthening from the write or send on, because the lock is
  released and the caller answered later; its exceptions are an order of the same
  number and an event that the consumer passed over, which is the loss that
  `consumer_stop_loss` shows. `NothingOverwritten` and `MutualExclusion`
  are what the two say to somebody who runs the service: the conditions, on the random
  digits, the period of the sequence and the TTL, under which the clash in
  `AnsweredKept` and the second writer in `LockProtects` do not arise.
* Auth. `Indexed` says that names and e-mails are unique and only rows are disabled.
  `Own` says that tokens, and rows that logins are about to be given a token for,
  are committed rows of the client's name: what a replica has read stays true of
  the primary because the log only grows. `DisabledOut` adds that replicas only
  move forward and that a disabled row makes its re-registration clash.

* Cache. `HealInv`: once clean, nothing stale is under way any more, so that every
  fill, backfill and warm-up that follows puts the row itself into the caches, and a
  pod is healed only while L2 is clean. A reader can only turn what a cache or the
  replica holds into a fill, and both hold the row. `CoherenceIsStable` says the same
  of every single pod without reference to the second delete, as an action property.
* Search. `HandedOver` keeps a request from taking two slots, so that the channel's
  length is the number of goroutines. `Provenance` follows contents from the database
  over the network into the index and to the reader, as the documents of executed writes. `UpsertReflected` says that a merge and the document sent differ in kept fields only. `LastOnItsWay` strengthens
  `LastWriteIndexed` to the time before the indexing is over: for a tidy document only
  what reflects the database's contents is on its way, and the index has it from its
  arrival on, although the goroutine may still wait for the answer, send again or give
  up. An older document that a dead process sent would break it, which is why `tidy`
  looks at `net` and not at the goroutines alone.
* Hot keys. `WindowInv` bounds, for the watched access, the time the ring was last
  moved by the number of slots it is behind, from both sides: each slot adds at
  least an interval and, because of the dropped remainders, at most two less a tick.
  `FallsBehind` says that moving a ring clears exactly the slots that would fall
  `Slots` behind, and `Drift` what the steps add to the bounds. `TestInv` carries what
  cleanup's test found to the delete, with one late count for each goroutine that held
  the ring.

`ProbesOnlyInHalfOpen`, `BatchBound`, `CloseFlushes` and `MappingFirst` are proved
only: the first two and the last are conjuncts of inductive invariants, and
`CloseFlushes` is part of what `LogPromise` says. So are the action properties
`DeliveryAdvances` and `FreshnessStable` and the consequences `LossWindow`,
`AdmissionExact`, `RemainingBounded`, `OneWriterPerNumber` and `AnsweredStored`.

Every safety property and every refinement the passing runs check is proved. Only
model-checked: everything temporal under fairness
(`AcceptedEventuallySettled`, `Recovery`, `EventuallyFresh`,
`LoggedEventuallySettled`, `RequestsEnd`, `LowKeysCleaned`, `SearchSettles`), which is
out of reach of the prover. Of some the safety half is proved:
`DeliveriesAdvance`, `CoherenceIsStable` and `MappingExplicit`.

## Plan

Done: consumer and producer, breaker with its abstract specification and the
readiness probe, limiter, cache with the services around it, hot key detector,
analytics with the shutdown, order creation with the distributed lock, search,
registration and login; the proofs above.

Next, in this order:

1. `MultiLevelCache`: an abstract specification of a cache that is stale for a
   bounded number of steps, and the detailed one shown to implement it.
2. `OrderService` with the breaker and the bucket instantiated in place of free
   choices, and with the degraded modes (no MySQL, no Redis, no Kafka).

## Not modelled

Schema creation, the liveness and start-up probes, the middleware other than
`JWTAuth`, configuration, tracing and the generated API description have no state a
property could be about. `BroadcastEviction` and `ReceiveEviction` are called from
nowhere. Floating-point rounding, bcrypt, JWT and the text of queries are library
matters.
