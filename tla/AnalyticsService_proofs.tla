----------------------- MODULE AnalyticsService_proofs -----------------------
(***************************************************************************)
(* Proofs about AnalyticsService: for every number of requests and every   *)
(* size of the channel and of a batch, an entry is in one place, batches   *)
(* are small enough for one INSERT, and Close flushes what was logged.     *)
(***************************************************************************)
EXTENDS AnalyticsService, FiniteSetTheorems, TLAPS

-----------------------------------------------------------------------------
(* Finite sets of entries.                                                 *)

\* A set of entries is finite and its size is a number.
LEMMA EntrySets ==
    ASSUME NEW S \in SUBSET Entries
    PROVE  IsFiniteSet(S) /\ Cardinality(S) \in Nat
  BY AnalyticsAssumption, FS_Subset, FS_CardinalityType

\* Adding an entry adds at most one, removing one adds none.
LEMMA AddEntry ==
    ASSUME NEW S \in SUBSET Entries, NEW e \in Entries
    PROVE  /\ Cardinality(S \cup {e}) <= Cardinality(S) + 1
           /\ Cardinality(S \ {e}) <= Cardinality(S)
<1>1. IsFiniteSet(S) /\ Cardinality(S) \in Nat
  BY EntrySets
<1>2. Cardinality(S \cup {e}) = IF e \in S THEN Cardinality(S) ELSE Cardinality(S) + 1
  BY <1>1, FS_AddElement
<1>3. Cardinality(S \ {e}) = IF e \in S THEN Cardinality(S) - 1 ELSE Cardinality(S)
  BY <1>1, FS_RemoveElement
<1> QED
  BY <1>1, <1>2, <1>3

\* Cardinality({}) = 0 < BatchSize.
LEMMA EmptyBatch == Cardinality({}) = 0 /\ 0 < BatchSize
  BY AnalyticsAssumption, FS_EmptySet

\* One more batch adds its entries to those in flight.
LEMMA UnionAdd ==
    ASSUME NEW W, NEW b
    PROVE  UNION (W \cup {b}) = (UNION W) \cup b
<1>1. ASSUME NEW x \in UNION (W \cup {b}) PROVE x \in (UNION W) \cup b
  BY <1>1
<1>2. ASSUME NEW x \in (UNION W) \cup b PROVE x \in UNION (W \cup {b})
  BY <1>2
<1> QED
  BY <1>1, <1>2

-----------------------------------------------------------------------------
(* What a step of batchWriter does to the batches.                         *)

\* flush moves the batch to a goroutine of its own.
LEMMA FlushMoves ==
    ASSUME NEW b \in SUBSET Entries, flush(b)
    PROVE  /\ batch' = {}
           /\ InFlight' = InFlight \cup b
           /\ \A c \in writers' : c \in writers \/ (c = b /\ b # {})
<1>1. CASE b = {}
  BY <1>1 DEF flush, InFlight
<1>2. CASE b # {}
  BY <1>2, UnionAdd DEF flush, InFlight
<1> QED
  BY <1>1, <1>2

\* Receive takes an entry from the channel, and it is then in the batch or in
\* the batch that was flushed.
LEMMA ReceiveMoves ==
    ASSUME TypeOK, NEW e \in Entries, Receive(e)
    PROVE  /\ e \in bufCh /\ bufCh' = bufCh \ {e}
           /\ batch' \in SUBSET Entries /\ Cardinality(batch') < BatchSize
           /\ batch' \cup InFlight' = batch \cup InFlight \cup {e}
           /\ \/ batch' = batch \cup {e} /\ writers' = writers
              \/ batch' = {} /\ writers' = writers \cup {batch \cup {e}}
           /\ \A c \in writers' :
                  c \in writers \/ (c = batch \cup {e} /\ Cardinality(c) <= BatchSize)
<1> DEFINE b == batch \cup {e}
<1>1. b \in SUBSET Entries /\ b # {} /\ batch \in SUBSET Entries
  BY DEF TypeOK
<1>2. Cardinality(b) \in Nat /\ Cardinality(b) <= BatchSize /\ Cardinality(batch) \in Nat
  <2>1. Cardinality(b) <= Cardinality(batch) + 1
    BY <1>1, AddEntry
  <2>2. Cardinality(b) \in Nat /\ Cardinality(batch) \in Nat
    BY <1>1, EntrySets
  <2> QED
    BY <2>1, <2>2, AnalyticsAssumption DEF TypeOK
<1>3. e \in bufCh /\ bufCh' = bufCh \ {e}
  BY DEF Receive
<1>4. CASE Cardinality(b) >= BatchSize
  <2>1. batch' = {} /\ writers' = writers \cup {b}
    BY <1>1, <1>4 DEF Receive, flush
  <2>2. Cardinality(batch') < BatchSize
    BY <2>1, EmptyBatch
  <2>3. InFlight' = InFlight \cup b
    BY <2>1, UnionAdd DEF InFlight
  <2>4. batch' \cup InFlight' = batch \cup InFlight \cup {e}
    BY <2>1, <2>3
  <2>5. \A c \in writers' : c \in writers \/ (c = b /\ Cardinality(c) <= BatchSize)
    BY <1>2, <2>1
  <2> QED
    BY <1>1, <1>3, <2>1, <2>2, <2>4, <2>5
<1>5. CASE ~(Cardinality(b) >= BatchSize)
  <2>1. batch' = b /\ writers' = writers
    BY <1>5 DEF Receive
  <2>2. Cardinality(batch') < BatchSize
    BY <1>2, <1>5, <2>1, AnalyticsAssumption
  <2>3. batch' \cup InFlight' = batch \cup InFlight \cup {e}
    BY <2>1 DEF InFlight
  <2> QED
    BY <1>1, <1>3, <2>1, <2>2, <2>3
<1> QED
  BY <1>4, <1>5

\* The goroutine of a batch ends and its entries are no longer in flight.
LEMMA BatchEnds ==
    ASSUME OnePlace, NEW b \in writers, writers' = writers \ {b}
    PROVE  InFlight' = InFlight \ b /\ b \subseteq InFlight
<1>1. ASSUME NEW x, NEW c \in writers, x \in c, c # b PROVE x \notin b
  BY <1>1 DEF OnePlace
<1> QED
  BY <1>1 DEF InFlight

-----------------------------------------------------------------------------
(* The steps, by what they do.                                             *)

\* The steps of a request that has not finished logging.
Logging(e) == Serve(e) \/ LogFull(e) \/ signalFlush(e)

\* A request that is still logging changes nothing the invariant speaks of.
LEMMA LoggingInv ==
    ASSUME Inv, NEW e \in Entries, Logging(e)
    PROVE  Inv'
<1>1. /\ Logged' = Logged
      /\ rpc' \in [Entries -> {"new", "log", "full", "again", "done"}]
      /\ flushCh' \in BOOLEAN
  BY DEF Inv, TypeOK, Logging, Serve, LogFull, signalFlush, RStep, Logged, batcher
<1>2. UNCHANGED <<bufCh, batch, wpc, writers, written, failed, dropped, main, early>>
  BY DEF Logging, Serve, LogFull, signalFlush, batcher, postgres, ending
<1>3. TypeOK'
  BY <1>1, <1>2 DEF Inv, TypeOK
<1>4. OnePlace' /\ BatchBound' /\ Ended'
  BY <1>1, <1>2 DEF Inv, OnePlace, OnTheWay, InFlight, Settled, BatchBound, Ended
<1> QED
  BY <1>3, <1>4 DEF Inv

\* A request finishes logging: its entry is in the channel or dropped.
LEMMA LoggedInv ==
    ASSUME Inv, NEW e \in Entries, LogOrderCreated(e) \/ LogAgain(e)
    PROVE  Inv'
<1>1. e \notin Logged /\ Logged' = Logged \cup {e}
  BY DEF Inv, TypeOK, LogOrderCreated, LogAgain, RStep, Logged
<1>2. UNCHANGED <<flushCh, batch, wpc, writers, written, failed, main, early>>
  BY DEF LogOrderCreated, LogAgain, batcher, postgres, ending
<1>3. \/ Room /\ bufCh' = bufCh \cup {e} /\ dropped' = dropped
      \/ bufCh' = bufCh /\ dropped' = dropped \cup {e}
  BY DEF LogOrderCreated, LogAgain
<1>4. rpc' \in [Entries -> {"new", "log", "full", "again", "done"}]
  BY DEF Inv, TypeOK, LogOrderCreated, LogAgain, RStep
<1>5. bufCh' \subseteq Entries /\ Cardinality(bufCh') <= BufSize
  <2>1. bufCh \in SUBSET Entries
    BY DEF Inv, TypeOK
  <2>2. Cardinality(bufCh \cup {e}) <= Cardinality(bufCh) + 1 /\ Cardinality(bufCh) \in Nat
        /\ Cardinality(bufCh \cup {e}) \in Nat
    BY <2>1, AddEntry, EntrySets
  <2> QED
    <3>1. CASE Room /\ bufCh' = bufCh \cup {e}
      BY <3>1, <2>1, <2>2, AnalyticsAssumption DEF Room
    <3>2. CASE bufCh' = bufCh
      BY <3>2 DEF Inv, TypeOK
    <3> QED
      BY <1>3, <3>1, <3>2
<1>6. TypeOK'
  BY <1>2, <1>3, <1>4, <1>5 DEF Inv, TypeOK
<1>7. OnePlace'
  BY <1>1, <1>2, <1>3 DEF Inv, OnePlace, OnTheWay, InFlight, Settled
<1>8. BatchBound'
  BY <1>2 DEF Inv, BatchBound
<1>9. Ended'
  BY <1>1, <1>2, <1>3 DEF Inv, Ended
<1> QED
  BY <1>6, <1>7, <1>8, <1>9 DEF Inv

\* batchWriter receives an entry.
LEMMA ReceiveInv ==
    ASSUME Inv, NEW e \in Entries, TakeEntry(e) \/ DrainEntry(e)
    PROVE  Inv'
<1>1. Receive(e) /\ wpc # "done"
  BY DEF TakeEntry, DrainEntry
<1>2. UNCHANGED <<rpc, dropped, flushCh, wpc, written, failed, main, early>>
  BY DEF TakeEntry, DrainEntry, requests, postgres, ending
<1>3. /\ e \in bufCh /\ bufCh' = bufCh \ {e}
      /\ batch' \in SUBSET Entries /\ Cardinality(batch') < BatchSize
      /\ batch' \cup InFlight' = batch \cup InFlight \cup {e}
      /\ \/ batch' = batch \cup {e} /\ writers' = writers
         \/ batch' = {} /\ writers' = writers \cup {batch \cup {e}}
      /\ \A c \in writers' :
             c \in writers \/ (c = batch \cup {e} /\ Cardinality(c) <= BatchSize)
  BY <1>1, ReceiveMoves DEF Inv
<1>4. TypeOK'
  <2>1. bufCh' \subseteq Entries /\ Cardinality(bufCh') <= BufSize
    <3>1. bufCh \in SUBSET Entries /\ bufCh' \in SUBSET Entries
      BY <1>3 DEF Inv, TypeOK
    <3>2. Cardinality(bufCh) \in Nat /\ Cardinality(bufCh') \in Nat
      BY <3>1, EntrySets
    <3>3. Cardinality(bufCh') <= Cardinality(bufCh)
      BY <1>3, <3>1, AddEntry
    <3> QED
      BY <3>1, <3>2, <3>3, AnalyticsAssumption DEF Inv, TypeOK
  <2>2. writers' \subseteq SUBSET Entries
    BY <1>3 DEF Inv, TypeOK
  <2> QED
    BY <1>2, <1>3, <2>1, <2>2 DEF Inv, TypeOK
<1>5. OnePlace'
  <2>1. Logged' = Logged /\ Settled' = Settled
    BY <1>2 DEF Logged, Settled
  <2>2. OnTheWay' = OnTheWay
    BY <1>3 DEF OnTheWay
  <2>3. e \notin batch /\ e \notin InFlight
    BY <1>3 DEF Inv, OnePlace
  <2>4. bufCh' \cap batch' = {} /\ bufCh' \cap InFlight' = {}
    BY <1>3 DEF Inv, OnePlace
  <2>5. /\ batch' \cap InFlight' = {}
        /\ \A b1, b2 \in writers' : b1 # b2 => b1 \cap b2 = {}
    <3>1. CASE batch' = batch \cup {e} /\ writers' = writers
      BY <3>1, <2>3 DEF Inv, OnePlace, InFlight
    <3>2. CASE batch' = {} /\ writers' = writers \cup {batch \cup {e}}
      <4>1. \A c \in writers : c \cap (batch \cup {e}) = {}
        BY <2>3 DEF Inv, OnePlace, InFlight
      <4> QED
        BY <3>2, <4>1 DEF Inv, OnePlace
    <3> QED
      BY <1>3, <3>1, <3>2
  <2> QED
    BY <1>2, <2>1, <2>2, <2>4, <2>5 DEF Inv, OnePlace
<1>6. BatchBound'
  BY <1>3 DEF Inv, BatchBound
<1>7. Ended'
  BY <1>1, <1>2 DEF Inv, Ended, Logged
<1> QED
  BY <1>4, <1>5, <1>6, <1>7 DEF Inv

\* batchWriter flushes what it has, on a tick or at the end of a drain.
LEMMA FlushInv ==
    ASSUME Inv, TickFlush \/ DrainEnd
    PROVE  Inv'
<1>1. flush(batch) /\ batch \in SUBSET Entries
  BY DEF Inv, TypeOK, TickFlush, DrainEnd
<1>2. UNCHANGED <<rpc, bufCh, dropped, flushCh, written, failed, main, early>>
  BY DEF TickFlush, DrainEnd, requests, postgres, ending
<1>3. /\ batch' = {} /\ InFlight' = InFlight \cup batch
      /\ \A c \in writers' : c \in writers \/ (c = batch /\ batch # {})
  BY <1>1, FlushMoves
<1>4. \/ wpc' = wpc /\ wpc # "done"
      \/ wpc = "drain" /\ wpc' = "select"
      \/ wpc = "closing" /\ wpc' = "done" /\ bufCh = {}
  BY DEF TickFlush, DrainEnd
<1>5. TypeOK'
  <2>1. writers' \subseteq SUBSET Entries
    BY <1>3 DEF Inv, TypeOK
  <2>2. wpc' \in {"select", "drain", "closing", "done"}
    BY <1>4 DEF Inv, TypeOK
  <2>3. Cardinality(batch') < BatchSize
    BY <1>3, EmptyBatch
  <2> QED
    BY <1>2, <1>3, <2>1, <2>2, <2>3 DEF Inv, TypeOK
<1>6. OnePlace'
  <2>1. Logged' = Logged /\ Settled' = Settled /\ OnTheWay' = OnTheWay
    BY <1>2, <1>3 DEF Logged, Settled, OnTheWay
  <2>2. \A c \in writers : c \cap batch = {}
    BY DEF Inv, OnePlace, InFlight
  <2>3. \A b1, b2 \in writers' : b1 # b2 => b1 \cap b2 = {}
    BY <1>3, <2>2 DEF Inv, OnePlace
  <2> QED
    BY <1>2, <1>3, <2>1, <2>3 DEF Inv, OnePlace
<1>7. BatchBound'
  <2>1. Cardinality(batch) \in Nat
    BY <1>1, EntrySets
  <2> QED
    BY <1>3, <2>1, AnalyticsAssumption DEF Inv, TypeOK, BatchBound
<1>8. Ended'
  BY <1>2, <1>3, <1>4 DEF Inv, Ended, Logged
<1> QED
  BY <1>5, <1>6, <1>7, <1>8 DEF Inv

\* batchWriter leaves its select for a drain.
LEMMA SelectInv ==
    ASSUME Inv, TakeFlush \/ TakeClose
    PROVE  Inv'
<1>1. UNCHANGED <<rpc, bufCh, dropped, batch, writers, written, failed, main, early>>
  BY DEF TakeFlush, TakeClose, requests, postgres, ending
<1>2. /\ flushCh' \in BOOLEAN
      /\ wpc' = "drain" \/ (wpc' = "closing" /\ main # "serving")
      /\ wpc = "select"
  BY DEF Inv, TypeOK, TakeFlush, TakeClose
<1>3. TypeOK'
  BY <1>1, <1>2 DEF Inv, TypeOK
<1>4. OnePlace' /\ BatchBound'
  BY <1>1 DEF Inv, OnePlace, OnTheWay, InFlight, Settled, Logged, BatchBound
<1>5. Ended'
  BY <1>1, <1>2 DEF Inv, Ended, Logged
<1> QED
  BY <1>3, <1>4, <1>5 DEF Inv

\* The goroutine of a batch ends, whatever PostgreSQL did.
LEMMA InsertInv ==
    ASSUME Inv, NEW b \in writers, Insert(b) \/ InsertFailed(b)
    PROVE  Inv'
<1>1. UNCHANGED <<rpc, bufCh, dropped, flushCh, batch, wpc, main, early>>
  BY DEF Insert, InsertFailed, requests, ending
<1>2. writers' = writers \ {b} /\ Settled' = Settled \cup b
  BY DEF Insert, InsertFailed, Settled
<1>3. InFlight' = InFlight \ b /\ b \subseteq InFlight
  BY <1>2, BatchEnds DEF Inv
<1>4. TypeOK'
  <2>1. written' \subseteq Entries /\ failed' \subseteq Entries
    BY DEF Inv, TypeOK, Insert, InsertFailed
  <2> QED
    BY <1>1, <1>2, <2>1 DEF Inv, TypeOK
<1>5. OnePlace'
  <2>1. Logged' = Logged
    BY <1>1 DEF Logged
  <2>2. OnTheWay' = OnTheWay \ b /\ b \subseteq OnTheWay
    BY <1>1, <1>3 DEF Inv, OnePlace, OnTheWay
  <2> QED
    BY <1>1, <1>2, <1>3, <2>1, <2>2 DEF Inv, OnePlace
<1>6. BatchBound'
  BY <1>2 DEF Inv, BatchBound
<1>7. Ended'
  BY <1>1, <1>2 DEF Inv, Ended, Logged
<1> QED
  BY <1>4, <1>5, <1>6, <1>7 DEF Inv

\* A step of main.
LEMMA ShutdownInv ==
    ASSUME Inv, Close \/ Closed \/ Exit
    PROVE  Inv'
<1>1. UNCHANGED <<rpc, bufCh, dropped, flushCh, batch, wpc, writers, written, failed>>
  BY DEF Close, Closed, Exit, requests, batcher, postgres
<1>2. Logged' = Logged /\ Logged \subseteq Entries
  BY <1>1 DEF Logged
<1>3. TypeOK'
  BY <1>1, <1>2 DEF Inv, TypeOK, Close, Closed, Exit
<1>4. OnePlace' /\ BatchBound'
  BY <1>1, <1>2 DEF Inv, OnePlace, OnTheWay, InFlight, Settled, BatchBound
<1>5. Ended'
  BY <1>1, <1>2 DEF Inv, TypeOK, Ended, Close, Closed, Exit
<1> QED
  BY <1>3, <1>4, <1>5 DEF Inv

-----------------------------------------------------------------------------
(* The theorems.                                                           *)

LEMMA InitInv == Init => Inv
<1> SUFFICES ASSUME Init PROVE Inv
  OBVIOUS
<1>1. Cardinality({}) = 0 /\ 0 < BatchSize /\ 0 <= BufSize
  BY EmptyBatch, AnalyticsAssumption
<1>2. TypeOK
  BY <1>1 DEF Init, TypeOK
<1>3. Logged = {} /\ InFlight = {}
  BY DEF Init, Logged, InFlight
<1>4. OnePlace /\ BatchBound /\ Ended
  BY <1>3 DEF Init, OnePlace, OnTheWay, Settled, BatchBound, Ended
<1> QED
  BY <1>2, <1>4 DEF Inv

LEMMA NextInv == Inv /\ [Next]_vars => Inv'
<1> SUFFICES ASSUME Inv, [Next]_vars PROVE Inv'
  OBVIOUS
<1>1. ASSUME NEW e \in Entries, Serve(e) \/ LogFull(e) \/ signalFlush(e) PROVE Inv'
  BY <1>1, LoggingInv DEF Logging
<1>2. ASSUME NEW e \in Entries, LogOrderCreated(e) \/ LogAgain(e) PROVE Inv'
  BY <1>2, LoggedInv
<1>3. ASSUME NEW e \in Entries, TakeEntry(e) \/ DrainEntry(e) PROVE Inv'
  BY <1>3, ReceiveInv
<1>4. CASE TickFlush \/ DrainEnd
  BY <1>4, FlushInv
<1>5. CASE TakeFlush \/ TakeClose
  BY <1>5, SelectInv
<1>6. ASSUME NEW b \in writers, Insert(b) \/ InsertFailed(b) PROVE Inv'
  BY <1>6, InsertInv
<1>7. CASE Close \/ Closed \/ Exit
  BY <1>7, ShutdownInv
<1>8. CASE UNCHANGED vars
  BY <1>8 DEF vars, Inv, TypeOK, OnePlace, OnTheWay, InFlight, Settled, Logged,
              BatchBound, Ended
<1> QED
  BY <1>1, <1>2, <1>3, <1>4, <1>5, <1>6, <1>7, <1>8 DEF Next, BatchStep

LEMMA SpecInv == Spec => []Inv
  BY InitInv, NextInv, PTL DEF Spec

\* The state of the service is well-formed for any number of requests, and
\* neither the channel nor the batch outgrows its size.
THEOREM TypeCorrect == Spec => []TypeOK
<1>1. Inv => TypeOK
  BY DEF Inv
<1> QED
  BY <1>1, SpecInv, PTL

\* No entry is lost between the channel, the batch and the INSERT, and none is
\* inserted by two goroutines (LogOrderCreated, batchWriter, flush).
THEOREM EntriesInOnePlace == Spec => []OnePlace
<1>1. Inv => OnePlace
  BY DEF Inv
<1> QED
  BY <1>1, SpecInv, PTL

\* LogBehaviorBatch is given what its comment says the caller guarantees.
THEOREM BatchesBounded == Spec => []BatchBound
<1>1. Inv => BatchBound
  BY DEF Inv
<1> QED
  BY <1>1, SpecInv, PTL

\* Close returns only after everything logged before it was tried.
THEOREM CloseWaits == Spec => []CloseFlushes
<1>1. Inv => CloseFlushes
  BY DEF Inv, Ended, OnePlace, OnTheWay, InFlight, CloseFlushes
<1> QED
  BY <1>1, SpecInv, PTL

\* The loss at the end of main is confined to entries logged after Close was
\* called; with CloseWaits it is the whole of it (the shutdown in main).
THEOREM OnlyLateEntriesLost == Spec => []LossWindow
<1>1. Inv => LossWindow
  BY DEF Inv, Ended, OnePlace, OnTheWay, InFlight, LossWindow
<1> QED
  BY <1>1, SpecInv, PTL

-----------------------------------------------------------------------------
(* Refinement.                                                             *)

\* BehaviourLog counts with the same operator.
LEMMA SameSize == \A S : Log!Cardinality(S) = Cardinality(S)
BY Zenon DEF Log!Cardinality, Cardinality, Log!IsFiniteSet, IsFiniteSet

\* Moving entries between the channel, the batch and the goroutines is nothing
\* the callers see.
LEMMA QuietRefines ==
    ASSUME OnTheWay' = OnTheWay, Settled' = Settled,
           UNCHANGED <<dropped, main, early>>
    PROVE  UNCHANGED Log!logVars
BY DEF Log!logVars

\* A request logs its entry, or gives it up in front of a full channel.
LEMMA LoggedRefines ==
    ASSUME Inv, NEW e \in Entries, LogOrderCreated(e) \/ LogAgain(e)
    PROVE  Log!Accept(e) \/ Log!GiveUp(e)
<1>1. e \notin Logged /\ main # "exited"
  BY DEF LogOrderCreated, LogAgain, RStep, Logged
<1>2. e \notin Log!Known
  BY <1>1 DEF Inv, OnePlace, Log!Known
<1>3. UNCHANGED <<batch, writers, written, failed, main, early>>
  BY DEF LogOrderCreated, LogAgain, batcher, postgres, ending
<1>4. CASE bufCh' = bufCh \cup {e} /\ dropped' = dropped
  <2>1. OnTheWay' = OnTheWay \cup {e}
    BY <1>3, <1>4 DEF OnTheWay, InFlight
  <2>2. Settled' = Settled
    BY <1>3 DEF Settled
  <2> QED
    BY <1>1, <1>2, <1>3, <1>4, <2>1, <2>2 DEF Log!Accept
<1>5. CASE ~Room /\ dropped' = dropped \cup {e} /\ bufCh' = bufCh
  <2>1. OnTheWay' = OnTheWay /\ Settled' = Settled
    BY <1>3, <1>5 DEF OnTheWay, InFlight, Settled
  <2>2. bufCh \subseteq OnTheWay /\ OnTheWay \in SUBSET Entries /\ bufCh \in SUBSET Entries
    BY DEF Inv, TypeOK, OnTheWay, InFlight
  <2>3. /\ Cardinality(bufCh) <= Cardinality(OnTheWay)
        /\ Cardinality(bufCh) \in Nat /\ Cardinality(OnTheWay) \in Nat
    BY <2>2, EntrySets, FS_Subset
  <2>4. Cardinality(OnTheWay) >= BufSize
    BY <1>5, <2>3, AnalyticsAssumption DEF Room
  <2> QED
    BY <1>1, <1>2, <1>3, <1>5, <2>1, <2>4, SameSize DEF Log!GiveUp
<1> QED
  BY <1>4, <1>5 DEF LogOrderCreated, LogAgain, requests

\* The end of an INSERT is the moment its batch has been tried.
LEMMA InsertRefines ==
    ASSUME Inv, NEW b \in writers, Insert(b) \/ InsertFailed(b)
    PROVE  b \in SUBSET OnTheWay /\ Log!Try(b)
<1>1. UNCHANGED <<bufCh, dropped, batch, main, early>>
  BY DEF Insert, InsertFailed, requests, ending
<1>2. writers' = writers \ {b} /\ Settled' = Settled \cup b
  BY DEF Insert, InsertFailed, Settled
<1>3. InFlight' = InFlight \ b /\ b \subseteq InFlight
  BY <1>2, BatchEnds DEF Inv
<1>4. OnTheWay' = OnTheWay \ b /\ b \subseteq OnTheWay
  BY <1>1, <1>3 DEF Inv, OnePlace, OnTheWay
<1>5. main \in {"serving", "closing"}
  BY DEF Inv, TypeOK, Ended
<1>6. b # {} /\ Cardinality(b) <= BatchSize
  BY DEF Inv, BatchBound
<1> QED
  BY <1>1, <1>2, <1>4, <1>5, <1>6, SameSize DEF Log!Try

LEMMA ShutdownRefines ==
    ASSUME Inv, Close \/ Closed \/ Exit
    PROVE  Log!BeginClose \/ Log!EndClose \/ Log!Leave
<1>1. UNCHANGED <<rpc, bufCh, dropped, batch, writers, written, failed>>
  BY DEF Close, Closed, Exit, requests, batcher, postgres
<1>2. OnTheWay' = OnTheWay /\ Settled' = Settled /\ dropped' = dropped
  BY <1>1 DEF OnTheWay, InFlight, Settled
<1>3. CASE Close
  <2>1. Logged = Log!Known
    BY DEF Inv, OnePlace, Log!Known
  <2> QED
    BY <1>2, <1>3, <2>1 DEF Close, Log!BeginClose
<1>4. CASE Closed
  <2>1. early \cap OnTheWay = {}
    BY <1>4 DEF Closed, Inv, Ended, OnTheWay, InFlight
  <2> QED
    BY <1>2, <1>4, <2>1 DEF Closed, Log!EndClose
<1>5. CASE Exit
  BY <1>2, <1>5 DEF Exit, Log!Leave
<1> QED
  BY <1>3, <1>4, <1>5

LEMMA StepRefines ==
    ASSUME Inv, [Next]_vars
    PROVE  [Log!LogNext]_Log!logVars
<1>1. ASSUME NEW e \in Entries, Serve(e) \/ LogFull(e) \/ signalFlush(e)
      PROVE  UNCHANGED Log!logVars
  BY <1>1, QuietRefines
     DEF Serve, LogFull, signalFlush, batcher, postgres, ending, OnTheWay, InFlight, Settled
<1>2. ASSUME NEW e \in Entries, LogOrderCreated(e) \/ LogAgain(e) PROVE Log!LogNext
  BY <1>2, LoggedRefines DEF Log!LogNext
<1>3. ASSUME NEW e \in Entries, TakeEntry(e) \/ DrainEntry(e)
      PROVE  UNCHANGED Log!logVars
  <2>1. Receive(e) /\ UNCHANGED <<dropped, written, failed, main, early>>
    BY <1>3 DEF TakeEntry, DrainEntry, requests, postgres, ending
  <2>2. /\ e \in bufCh /\ bufCh' = bufCh \ {e}
        /\ batch' \cup InFlight' = batch \cup InFlight \cup {e}
    BY <2>1, ReceiveMoves DEF Inv
  <2>3. OnTheWay' = OnTheWay
    BY <2>2 DEF OnTheWay
  <2> QED
    BY <2>1, <2>3, QuietRefines DEF Settled
<1>4. ASSUME TickFlush \/ DrainEnd PROVE UNCHANGED Log!logVars
  <2>1. flush(batch) /\ batch \in SUBSET Entries
    BY <1>4 DEF Inv, TypeOK, TickFlush, DrainEnd
  <2>2. UNCHANGED <<bufCh, dropped, written, failed, main, early>>
    BY <1>4 DEF TickFlush, DrainEnd, requests, postgres, ending
  <2>3. batch' = {} /\ InFlight' = InFlight \cup batch
    BY <2>1, FlushMoves
  <2> QED
    BY <2>2, <2>3, QuietRefines DEF OnTheWay, Settled
<1>5. ASSUME TakeFlush \/ TakeClose PROVE UNCHANGED Log!logVars
  BY <1>5, QuietRefines
     DEF TakeFlush, TakeClose, requests, postgres, ending, OnTheWay, InFlight, Settled
<1>6. ASSUME NEW b \in writers, Insert(b) \/ InsertFailed(b) PROVE Log!LogNext
  BY <1>6, InsertRefines DEF Log!LogNext
<1>7. ASSUME Close \/ Closed \/ Exit PROVE Log!LogNext
  BY <1>7, ShutdownRefines DEF Log!LogNext
<1>8. ASSUME UNCHANGED vars PROVE UNCHANGED Log!logVars
  BY <1>8, QuietRefines DEF vars, OnTheWay, InFlight, Settled
<1> QED
  BY <1>1, <1>2, <1>3, <1>4, <1>5, <1>6, <1>7, <1>8 DEF Next, BatchStep

\* The service implements BehaviourLog: channel, batches, INSERT goroutines and
\* main together behave like one log that tries each entry once, gives up none
\* while the channel has room, and touches PostgreSQL no more after Close.
THEOREM KeepsLogPromise == Spec => LogPromise
<1>1. Init => Log!LogInit
  BY DEF Init, Log!LogInit, OnTheWay, InFlight, Settled
<1>2. Inv /\ [Next]_vars => [Log!LogNext]_Log!logVars
  BY StepRefines
<1> QED
  BY <1>1, <1>2, SpecInv, PTL DEF Spec, LogPromise, Log!LogSpec
=============================================================================
