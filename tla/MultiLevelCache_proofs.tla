----------------------- MODULE MultiLevelCache_proofs -----------------------
(***************************************************************************)
(* The delayed double delete, for any number of pods, readers, writers and *)
(* rows, any lag, any failing Redis commands and any restarts.             *)
(***************************************************************************)
EXTENDS MultiLevelCache, TLAPS

-----------------------------------------------------------------------------
(* Types.                                                                  *)

\* A writer that is under way has a row in hand: what Delete1 publishes, and
\* what Kafka delivers again after a restart, is a row.
TypeInv ==
    /\ TypeOK
    /\ \A w \in Writers : wpc[w] # "idle" => wrow[w] \in Rows

LEMMA TypeInit == Init => TypeInv
<1> SUFFICES ASSUME Init PROVE TypeInv  OBVIOUS
<1>1. restarts \in 0..MaxRestarts /\ dbErrors \in 0..MaxDBErrors
  BY CacheAssumption DEF Init
<1> QED  BY <1>1, CacheAssumption DEF Init, TypeInv, TypeOK, Contents

\* The bound on failing statements.
LEMMA ErrorsBounded ==
    ASSUME dbErrors \in 0..MaxDBErrors, DBError
    PROVE  dbErrors' \in 0..MaxDBErrors
BY CacheAssumption DEF DBError

\* MultiLevelCache.Get and the services' own queries.
LEMMA TypeReader ==
    ASSUME TypeInv, NEW r \in Readers, GetL1(r) \/ ReaderStep(r)
    PROVE  TypeInv'
<1> USE CacheAssumption DEF TypeInv, TypeOK, Contents, dbVars, wVars, faults, marks,
        Step, Take, L1Of, L1Becomes, L2Becomes
<1>1. CASE GetL1(r)  BY <1>1 DEF GetL1
<1>2. CASE GetL2Hit(r) \/ Backfill(r) \/ GetL2Miss(r)
  BY <1>2 DEF GetL2Hit, Backfill, GetL2Miss
<1>3. CASE Locked(r) \/ NotLocked(r) \/ LockFailed(r)
  BY <1>3 DEF Locked, NotLocked, LockFailed
<1>4. CASE AgainHit(r) \/ AgainMiss(r)
  BY <1>4 DEF AgainHit, AgainMiss
<1>5. CASE Load(r)
  BY <1>5 DEF Load, LoaderResult
<1>6. CASE LoadFailed(r)
  <2>1. dbErrors' \in 0..MaxDBErrors  BY <1>6, ErrorsBounded DEF LoadFailed
  <2> QED  BY <1>6, <2>1 DEF LoadFailed
<1>7. CASE Fill2(r) \/ Fill1(r) \/ Unlock(r)
  <2>1. CASE Fill2(r)  BY <2>1 DEF Fill2
  <2>2. CASE Fill1(r)  BY <2>2 DEF Fill1
  <2>3. CASE Unlock(r)  BY <2>3 DEF Unlock
  <2> QED  BY <1>7, <2>1, <2>2, <2>3
<1>8. CASE Query(r)
  BY <1>8 DEF Query, ServiceResult
<1>9. CASE QueryFailed(r)
  <2>1. dbErrors' \in 0..MaxDBErrors  BY <1>9, ErrorsBounded DEF QueryFailed
  <2> QED  BY <1>9, <2>1 DEF QueryFailed
<1>10. CASE Set1(r) \/ Set2(r)
  BY <1>10 DEF Set1, Set2
<1> QED
  BY <1>1, <1>2, <1>3, <1>4, <1>5, <1>6, <1>7, <1>8, <1>9, <1>10 DEF ReaderStep

\* Writes, warm-ups and deletes.
LEMMA TypeWriter ==
    ASSUME TypeInv, NEW w \in Writers,
           WriterStep(w) \/ \E v \in Rows : WriteDB(w, v)
    PROVE  TypeInv'
<1> USE CacheAssumption DEF TypeInv, TypeOK, Contents, dbVars, rVars, faults, marks,
        WStep, L1Becomes, L2Becomes
<1>1. ASSUME NEW v \in Rows, WriteDB(w, v) PROVE TypeInv'
  BY <1>1 DEF WriteDB, WriteRow
<1>2. CASE Warm1(w) \/ Warm2(w)  BY <1>2 DEF Warm1, Warm2
<1>3. CASE Delete2(w)  BY <1>3 DEF Delete2
<1>4. CASE Delete1(w)  BY <1>4 DEF Delete1
<1>5. CASE DelayedDelete2(w)  BY <1>5 DEF DelayedDelete2
<1>6. CASE DelayedDelete1(w)  BY <1>6 DEF DelayedDelete1
<1>7. ASSUME NEW v \in Rows, Consume(w, v) PROVE TypeInv'
  BY <1>7 DEF Consume, WriteRow
<1>8. CASE EventWarm1(w) \/ EventWarm2(w)  BY <1>8 DEF EventWarm1, EventWarm2
<1>9. CASE Invalidate1(w) \/ Invalidate2(w)  BY <1>9 DEF Invalidate1, Invalidate2
<1> QED
  BY <1>1, <1>2, <1>3, <1>4, <1>5, <1>6, <1>7, <1>8, <1>9 DEF WriterStep

\* Publishing, replication, expiry and restarts.
LEMMA TypeRest ==
    ASSUME TypeInv,
           \/ \E v \in Rows : Publish(v) \/ WriteFailed(v)
           \/ Replicate \/ ExpireL2 \/ ExpireLock
           \/ \E p \in Pods : ExpireL1(p) \/ Restart(p)
    PROVE  TypeInv'
<1> USE CacheAssumption DEF TypeInv, TypeOK, Contents, dbVars, rVars, wVars, faults, marks,
        L1Becomes
<1>1. ASSUME NEW v \in Rows, Publish(v) PROVE TypeInv'  BY <1>1 DEF Publish
<1>2. ASSUME NEW v \in Rows, WriteFailed(v) PROVE TypeInv'
  <2>1. dbErrors' \in 0..MaxDBErrors  BY <1>2, ErrorsBounded DEF WriteFailed
  <2> QED  BY <1>2, <2>1 DEF WriteFailed, WriteRow
<1>3. CASE Replicate \/ ExpireL2 \/ ExpireLock  BY <1>3 DEF Replicate, ExpireL2, ExpireLock
<1>4. ASSUME NEW p \in Pods, ExpireL1(p) PROVE TypeInv'  BY <1>4 DEF ExpireL1
<1>5. ASSUME NEW p \in Pods, Restart(p) PROVE TypeInv'
  <2>1. restarts' \in 0..MaxRestarts  BY <1>5 DEF Restart
  <2>2. events' \subseteq Rows  BY <1>5 DEF Restart
  <2>3. /\ rpc' \in [Readers -> {"idle", "l2", "backfill", "lock", "again", "load",
                            "fill2", "fill1", "unlock", "query", "set1", "set2"}]
        /\ rval' \in [Readers -> Contents \cup {Miss}]
        /\ holds' \in [Readers -> BOOLEAN]
        /\ \A r \in Readers : holds'[r] => rpc'[r] \in {"load", "fill2", "fill1", "unlock"}
    BY <1>5 DEF Restart
  <2>4. /\ wpc' \in [Writers -> {"idle", "warm1", "warm2", "del2", "del1",
                            "ewarm1", "ewarm2", "inv1", "inv2"}]
        /\ delayed' \in [Writers -> {"none", "wait", "del1", "done"}]
        /\ \A w \in Writers : wpc'[w] # "idle" => wrow'[w] \in Rows
    BY <1>5 DEF Restart
  <2>5. l1' \in [Pods -> Contents \cup {Miss}]  BY <1>5 DEF Restart
  <2> QED  BY <1>5, <2>1, <2>2, <2>3, <2>4, <2>5 DEF Restart
<1> QED  BY <1>1, <1>2, <1>3, <1>4, <1>5

LEMMA TypeStep == TypeInv /\ [Next]_vars => TypeInv'
<1> SUFFICES ASSUME TypeInv, [Next]_vars PROVE TypeInv'  OBVIOUS
<1>1. CASE UNCHANGED vars
  BY <1>1 DEF vars, TypeInv, TypeOK
<1>2. CASE Next
  BY <1>2, TypeReader, TypeWriter, TypeRest DEF Next
<1> QED  BY <1>1, <1>2

LEMMA TypeInvariant == Spec => []TypeInv
BY TypeInit, TypeStep, PTL DEF Spec

\* The state stays well-formed, and only a reader inside loadWithLock believes
\* to hold the lock of the key.
THEOREM TypeCorrect == Spec => []TypeOK
<1>1. TypeInv => TypeOK  BY DEF TypeInv
<1> QED  BY <1>1, TypeInvariant, PTL

-----------------------------------------------------------------------------
(* The double delete.                                                      *)

\* Once clean, no step can bring anything but the row back: whoever fills or
\* warms a cache holds the row, whoever loads reads it from a replica that
\* has it, and whoever finds an entry of L2 finds the row.
HealInv ==
    Kind = "order" =>
        /\ clean => NothingStaleUnderWay /\ Fresh(l2)
        /\ healed # {} => clean
        /\ \A p \in healed : Fresh(l1[p])

\* What a step must respect that leaves the row and the marks alone.
LEMMA HealKept ==
    ASSUME TypeInv, HealInv, UNCHANGED <<db, marks>>,
           clean /\ Kind = "order" =>
               /\ NothingStaleUnderWay'
               /\ l2' \in {Miss, l2, db}
               /\ \A p \in Pods : l1'[p] \in {Miss, l1[p], db}
    PROVE  HealInv'
BY DEF TypeInv, TypeOK, HealInv, Fresh, marks

LEMMA HealReader ==
    ASSUME TypeInv, HealInv, NEW r \in Readers, GetL1(r) \/ ReaderStep(r)
    PROVE  HealInv'
<1> USE DEF TypeInv, TypeOK, dbVars, wVars, faults, marks, Step, Take, L1Of, L1Becomes,
        L2Becomes, NothingStaleUnderWay, Filling, Warming
<1>1. CASE GetL1(r)  BY <1>1, HealKept DEF GetL1, HealInv
<1>2. CASE GetL2Hit(r)  BY <1>2, HealKept DEF GetL2Hit, HealInv, Fresh
<1>3. CASE Backfill(r)  BY <1>3, HealKept, CacheAssumption DEF Backfill, HealInv
<1>4. CASE GetL2Miss(r)  BY <1>4, HealKept DEF GetL2Miss, HealInv
<1>5. CASE Locked(r) \/ NotLocked(r) \/ LockFailed(r)
  BY <1>5, HealKept DEF Locked, NotLocked, LockFailed, HealInv
<1>6. CASE AgainHit(r) \/ AgainMiss(r)  BY <1>6, HealKept DEF AgainHit, AgainMiss, HealInv
<1>7. CASE Load(r)  BY <1>7, HealKept DEF Load, LoaderResult, HealInv
<1>8. CASE LoadFailed(r)  BY <1>8 DEF LoadFailed, HealInv
<1>9. CASE Fill2(r)  BY <1>9, HealKept DEF Fill2, HealInv
<1>10. CASE Fill1(r)  BY <1>10, HealKept, CacheAssumption DEF Fill1, HealInv
<1>11. CASE Unlock(r)  BY <1>11, HealKept DEF Unlock, HealInv
<1>12. CASE Query(r)  BY <1>12, HealKept DEF Query, ServiceResult, HealInv
<1>13. CASE QueryFailed(r)  BY <1>13, HealKept DEF QueryFailed, HealInv
<1>14. CASE Set1(r)  BY <1>14, HealKept, CacheAssumption DEF Set1, HealInv
<1>15. CASE Set2(r)  BY <1>15, HealKept DEF Set2, HealInv
<1> QED
  BY <1>1, <1>2, <1>3, <1>4, <1>5, <1>6, <1>7, <1>8, <1>9, <1>10, <1>11, <1>12, <1>13,
     <1>14, <1>15 DEF ReaderStep

\* A statement that changes the row clears the marks.
LEMMA HealWriteRow ==
    ASSUME TypeInv, HealInv, NEW v, WriteRow(v), UNCHANGED <<l1, l2, rVars>>,
           \A u \in Writers : Warming(u)' => wrow'[u] = v \/ (Warming(u) /\ wrow'[u] = wrow[u])
    PROVE  HealInv'
<1>1. CASE v = db
  BY <1>1 DEF WriteRow, HealInv, NothingStaleUnderWay, Filling, Fresh, rVars
<1>2. CASE v # db
  BY <1>2 DEF WriteRow, HealInv
<1> QED  BY <1>1, <1>2

LEMMA HealWriter ==
    ASSUME TypeInv, HealInv, NEW w \in Writers,
           WriterStep(w) \/ \E v \in Rows : WriteDB(w, v)
    PROVE  HealInv'
<1> USE DEF TypeInv, TypeOK, dbVars, rVars, faults, marks, WStep, L1Becomes, L2Becomes,
        NothingStaleUnderWay, Filling, Warming
<1>1. ASSUME NEW v \in Rows, WriteDB(w, v) PROVE HealInv'
  BY <1>1, HealWriteRow DEF WriteDB
<1>2. CASE Warm1(w)  BY <1>2, HealKept, CacheAssumption DEF Warm1, HealInv
<1>3. CASE Warm2(w)  BY <1>3, HealKept DEF Warm2, HealInv
<1>4. CASE Delete2(w)  BY <1>4, HealKept DEF Delete2, HealInv
<1>5. CASE Delete1(w)  BY <1>5, HealKept, CacheAssumption DEF Delete1, HealInv
<1>6. CASE DelayedDelete2(w)  BY <1>6 DEF DelayedDelete2, HealInv, Fresh
<1>7. CASE DelayedDelete1(w)
  <2>1. UNCHANGED <<db, replica, l2, rpc, rval, wpc, wrow, clean>>  BY <1>7 DEF DelayedDelete1
  <2>2. NothingStaleUnderWay' = NothingStaleUnderWay  BY <2>1
  <2>3. \A p \in Pods : l1'[p] = IF p = PodOf[w] THEN Miss ELSE l1[p]
    BY <1>7 DEF DelayedDelete1
  <2>4. healed' = IF clean THEN healed \cup {PodOf[w]} ELSE healed  BY <1>7 DEF DelayedDelete1
  <2>5. PodOf[w] \in Pods  BY CacheAssumption
  <2> QED  BY <2>1, <2>2, <2>3, <2>4, <2>5, Zenon DEF HealInv, Fresh
<1>8. ASSUME NEW v \in Rows, Consume(w, v) PROVE HealInv'
  BY <1>8, HealWriteRow DEF Consume
<1>9. CASE EventWarm1(w)  BY <1>9, HealKept, CacheAssumption DEF EventWarm1, HealInv
<1>10. CASE EventWarm2(w)  BY <1>10, HealKept DEF EventWarm2, HealInv
<1>11. CASE Invalidate1(w)  BY <1>11, HealKept, CacheAssumption DEF Invalidate1, HealInv
<1>12. CASE Invalidate2(w)  BY <1>12, HealKept DEF Invalidate2, HealInv
<1> QED
  BY <1>1, <1>2, <1>3, <1>4, <1>5, <1>6, <1>7, <1>8, <1>9, <1>10, <1>11, <1>12 DEF WriterStep

LEMMA HealRest ==
    ASSUME TypeInv, HealInv,
           \/ \E v \in Rows : Publish(v) \/ WriteFailed(v)
           \/ Replicate \/ ExpireL2 \/ ExpireLock
           \/ \E p \in Pods : ExpireL1(p) \/ Restart(p)
    PROVE  HealInv'
<1> USE DEF TypeInv, TypeOK, dbVars, rVars, wVars, faults, marks, L1Becomes,
        NothingStaleUnderWay, Filling, Warming
<1>1. ASSUME NEW v \in Rows, Publish(v) PROVE HealInv'  BY <1>1, HealKept DEF Publish, HealInv
<1>2. ASSUME NEW v \in Rows, WriteFailed(v) PROVE HealInv'
  BY <1>2, HealWriteRow DEF WriteFailed
<1>3. CASE Replicate \/ ExpireL2 \/ ExpireLock
  BY <1>3, HealKept DEF Replicate, ExpireL2, ExpireLock, HealInv
<1>4. ASSUME NEW p \in Pods, ExpireL1(p) PROVE HealInv'  BY <1>4, HealKept DEF ExpireL1, HealInv
<1>5. ASSUME NEW p \in Pods, Restart(p) PROVE HealInv'
  BY <1>5, HealKept DEF Restart, HealInv
<1> QED  BY <1>1, <1>2, <1>3, <1>4, <1>5

LEMMA HealInvariant == Spec => []HealInv
<1>1. Init => HealInv
  BY DEF Init, HealInv
<1>2. TypeInv /\ HealInv /\ [Next]_vars => HealInv'
  <2> SUFFICES ASSUME TypeInv, HealInv, [Next]_vars PROVE HealInv'  OBVIOUS
  <2>1. CASE UNCHANGED vars
    BY <2>1 DEF vars, HealInv, NothingStaleUnderWay, Filling, Warming, Fresh
  <2>2. CASE Next
    BY <2>2, HealReader, HealWriter, HealRest DEF Next
  <2> QED  BY <2>1, <2>2
<1> QED  BY <1>1, <1>2, TypeInvariant, PTL DEF Spec

\* After a second delete that nothing stale outlasted, L2 and the writer's L1
\* hold nothing but the row until the row changes, whatever readers, writers,
\* consumers, Redis and restarts do (InvalidateWithDelay).
THEOREM DoubleDelete == Spec => []DoubleDeleteHeals
<1>1. HealInv => DoubleDeleteHeals  BY DEF HealInv, DoubleDeleteHeals
<1> QED  BY <1>1, HealInvariant, PTL

-----------------------------------------------------------------------------
(* Coherence.                                                              *)

\* What a step must respect that leaves the row alone.
LEMMA CoherentKept ==
    ASSUME NEW p \in Pods, CoherentIn(p), db' = db, NothingStaleUnderWay',
           l2' \in {Miss, l2, db}, l1'[p] \in {Miss, l1[p], db}
    PROVE  CoherentIn(p)'
BY DEF CoherentIn, Fresh

LEMMA CoherentReader ==
    ASSUME TypeInv, Kind = "order", NEW p \in Pods, CoherentIn(p),
           NEW r \in Readers, GetL1(r) \/ ReaderStep(r), ~LoadFailed(r)
    PROVE  CoherentIn(p)'
<1> USE DEF TypeInv, TypeOK, dbVars, wVars, faults, marks, Step, Take, L1Of, L1Becomes,
        L2Becomes, NothingStaleUnderWay, Filling, Warming
<1>1. CASE GetL1(r)  BY <1>1, CoherentKept DEF GetL1, CoherentIn
<1>2. CASE GetL2Hit(r)  BY <1>2, CoherentKept DEF GetL2Hit, CoherentIn, Fresh
<1>3. CASE Backfill(r)  BY <1>3, CoherentKept, CacheAssumption DEF Backfill, CoherentIn
<1>4. CASE GetL2Miss(r)  BY <1>4, CoherentKept DEF GetL2Miss, CoherentIn
<1>5. CASE Locked(r) \/ NotLocked(r) \/ LockFailed(r)
  BY <1>5, CoherentKept DEF Locked, NotLocked, LockFailed, CoherentIn
<1>6. CASE AgainHit(r) \/ AgainMiss(r)
  BY <1>6, CoherentKept DEF AgainHit, AgainMiss, CoherentIn
<1>7. CASE Load(r)  BY <1>7, CoherentKept DEF Load, LoaderResult, CoherentIn
<1>8. CASE Fill2(r)  BY <1>8, CoherentKept DEF Fill2, CoherentIn
<1>9. CASE Fill1(r)  BY <1>9, CoherentKept, CacheAssumption DEF Fill1, CoherentIn
<1>10. CASE Unlock(r)  BY <1>10, CoherentKept DEF Unlock, CoherentIn
<1>11. CASE Query(r)  BY <1>11, CoherentKept DEF Query, ServiceResult, CoherentIn
<1>12. CASE QueryFailed(r)  BY <1>12, CoherentKept DEF QueryFailed, CoherentIn
<1>13. CASE Set1(r)  BY <1>13, CoherentKept, CacheAssumption DEF Set1, CoherentIn
<1>14. CASE Set2(r)  BY <1>14, CoherentKept DEF Set2, CoherentIn
<1> QED
  BY <1>1, <1>2, <1>3, <1>4, <1>5, <1>6, <1>7, <1>8, <1>9, <1>10, <1>11, <1>12, <1>13,
     <1>14 DEF ReaderStep

\* A statement that writes the row as it was, the redelivery of an event for one.
LEMMA CoherentRewrite ==
    ASSUME NEW p \in Pods, CoherentIn(p), NEW v, WriteRow(v), v = db,
           UNCHANGED <<l1, l2, rVars>>,
           \A u \in Writers : Warming(u)' => wrow'[u] = v \/ (Warming(u) /\ wrow'[u] = wrow[u])
    PROVE  CoherentIn(p)'
BY DEF WriteRow, CoherentIn, NothingStaleUnderWay, Filling, Fresh, rVars

LEMMA CoherentWriter ==
    ASSUME TypeInv, NEW p \in Pods, CoherentIn(p), db' = db,
           NEW w \in Writers, WriterStep(w) \/ \E v \in Rows : WriteDB(w, v)
    PROVE  CoherentIn(p)'
<1> USE DEF TypeInv, TypeOK, dbVars, rVars, faults, marks, WStep, L1Becomes, L2Becomes,
        NothingStaleUnderWay, Filling, Warming
<1>1. ASSUME NEW v \in Rows, WriteDB(w, v) PROVE CoherentIn(p)'
  <2>1. v = db  BY <1>1 DEF WriteDB, WriteRow
  <2> QED  BY <1>1, <2>1, CoherentRewrite DEF WriteDB
<1>2. CASE Warm1(w)  BY <1>2, CoherentKept, CacheAssumption DEF Warm1, CoherentIn
<1>3. CASE Warm2(w)  BY <1>3, CoherentKept DEF Warm2, CoherentIn
<1>4. CASE Delete2(w)  BY <1>4, CoherentKept DEF Delete2, CoherentIn
<1>5. CASE Delete1(w)  BY <1>5, CoherentKept, CacheAssumption DEF Delete1, CoherentIn
<1>6. CASE DelayedDelete2(w)  BY <1>6, CoherentKept DEF DelayedDelete2, CoherentIn
<1>7. CASE DelayedDelete1(w)
  BY <1>7, CoherentKept, CacheAssumption DEF DelayedDelete1, CoherentIn
<1>8. ASSUME NEW v \in Rows, Consume(w, v) PROVE CoherentIn(p)'
  <2>1. v = db  BY <1>8 DEF Consume, WriteRow
  <2> QED  BY <1>8, <2>1, CoherentRewrite DEF Consume
<1>9. CASE EventWarm1(w)  BY <1>9, CoherentKept, CacheAssumption DEF EventWarm1, CoherentIn
<1>10. CASE EventWarm2(w)  BY <1>10, CoherentKept DEF EventWarm2, CoherentIn
<1>11. CASE Invalidate1(w)
  BY <1>11, CoherentKept, CacheAssumption DEF Invalidate1, CoherentIn
<1>12. CASE Invalidate2(w)  BY <1>12, CoherentKept DEF Invalidate2, CoherentIn
<1> QED
  BY <1>1, <1>2, <1>3, <1>4, <1>5, <1>6, <1>7, <1>8, <1>9, <1>10, <1>11, <1>12 DEF WriterStep

LEMMA CoherentRest ==
    ASSUME TypeInv, NEW p \in Pods, CoherentIn(p), db' = db,
           \/ \E v \in Rows : Publish(v) \/ WriteFailed(v)
           \/ Replicate \/ ExpireL2 \/ ExpireLock
           \/ \E q \in Pods : ExpireL1(q) \/ Restart(q)
    PROVE  CoherentIn(p)'
<1> USE DEF TypeInv, TypeOK, dbVars, rVars, wVars, faults, marks, L1Becomes,
        NothingStaleUnderWay, Filling, Warming
<1>1. ASSUME NEW v \in Rows, Publish(v) PROVE CoherentIn(p)'
  BY <1>1, CoherentKept DEF Publish, CoherentIn
<1>2. ASSUME NEW v \in Rows, WriteFailed(v) PROVE CoherentIn(p)'
  <2>1. WriteRow(db)
    BY <1>2 DEF WriteFailed, WriteRow
  <2> QED
    BY <1>2, <2>1, CoherentRewrite DEF WriteFailed
<1>3. CASE Replicate \/ ExpireL2 \/ ExpireLock
  BY <1>3, CoherentKept DEF Replicate, ExpireL2, ExpireLock, CoherentIn
<1>4. ASSUME NEW q \in Pods, ExpireL1(q) PROVE CoherentIn(p)'
  BY <1>4, CoherentKept DEF ExpireL1, CoherentIn
<1>5. ASSUME NEW q \in Pods, Restart(q) PROVE CoherentIn(p)'
  BY <1>5, CoherentKept DEF Restart, CoherentIn
<1> QED  BY <1>1, <1>2, <1>3, <1>4, <1>5

\* Between two changes of the row a pod that is coherent stays coherent, whatever
\* readers, writers, consumers, expiry, failing Redis commands and restarts do: every
\* path into a cache, of the loader, of the service's own query, of a warm-up and of a
\* backfill, passes on only what was fresh where it came from.
THEOREM CoherenceIsStable == Spec => FreshnessStable
<1>1. TypeInv /\ [Next]_vars =>
          [\A p \in Pods :
              /\ Kind = "order" /\ CoherentIn(p)
              /\ db' = db /\ ~\E r \in Readers : LoadFailed(r)
              => CoherentIn(p)']_vars
  <2> SUFFICES ASSUME TypeInv, Next, NEW p \in Pods, Kind = "order", CoherentIn(p), db' = db,
                      ~\E r \in Readers : LoadFailed(r)
               PROVE  CoherentIn(p)'
    OBVIOUS
  <2>1. ASSUME NEW r \in Readers, GetL1(r) \/ ReaderStep(r) PROVE CoherentIn(p)'
    BY <2>1, CoherentReader
  <2>2. ASSUME NEW w \in Writers, WriterStep(w) \/ \E v \in Rows : WriteDB(w, v)
        PROVE  CoherentIn(p)'
    BY <2>2, CoherentWriter
  <2> QED
    BY <2>1, <2>2, CoherentRest DEF Next
<1> QED  BY <1>1, TypeInvariant, PTL DEF Spec, FreshnessStable
=============================================================================
