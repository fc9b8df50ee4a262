--------------------------- MODULE HotKeyDetector ---------------------------
(***************************************************************************)
(* The sliding-window counter that decides whether a key is hot, and the   *)
(* goroutine that removes the counters of keys with few accesses.          *)
(*                                                                         *)
(* Source: internal/cache/hot_key_detector.go.                             *)
(*                                                                         *)
(* One key: keys share nothing but the map's lock.  Each section under     *)
(* that lock or under the lock of a ring is one step, and the clock may    *)
(* move between any two.  Only cleanup takes the lock of a ring while it   *)
(* holds the map's: its test of the sum and its delete are two steps with  *)
(* the map locked, and rings that were looked up before go on counting in  *)
(* between.  The ticker of cleanupLoop may fire at any moment: its phase   *)
(* relative to the accesses is arbitrary.  IsHot and GetHotKeys only read  *)
(* hotKeys.                                                                *)
(***************************************************************************)
EXTENDS Integers, FiniteSets, Functions

CONSTANTS
    Accessors,   \* goroutines that call RecordAccess for the key
    MaxRings,    \* bound: rings at a time; as many as accessors are enough
    None,        \* no ring, or nobody
    Slots,       \* slots of a ring
    Interval,    \* slotInterval, in ticks of the clock
    Threshold,   \* more accesses than this make the key hot
    Divisor,     \* cleanup removes counts up to Threshold / Divisor: 10
    MaxTime,     \* bound: the last tick of the clock
    MaxAccesses  \* bound: calls of RecordAccess

ASSUME HotKeyAssumption ==
    /\ IsFiniteSet(Accessors)
    /\ MaxRings \in Nat /\ None \notin Accessors /\ None \notin 1..MaxRings
    /\ Slots \in Nat \ {0} /\ Interval \in Nat \ {0}
    /\ Threshold \in Nat /\ Divisor \in Nat \ {0}
    /\ MaxTime \in Nat /\ MaxAccesses \in Nat

VARIABLES
    now,
    ring, hot,       \* keyCounters[key] and hotKeys[key]
    counters, slotIdx, lastTick,   \* per ring
    pc, mine,        \* accessors: position, and the ring looked up
    cleaner,         \* the goroutine of cleanupLoop
    accesses,
    watched,         \* observer: who made the access that is watched, or None
    home, place,     \*           the ring and the slot that count it
    began, counted,  \*           when it ran advance, and inc
    seen, late       \* observer: the counts cleanup tested, and who has added
                     \*           to each of them since

mapVars  == <<ring, hot>>
ringVars == <<counters, slotIdx, lastTick>>
callVars == <<pc, mine, accesses>>
watch    == <<watched, home, place, began, counted>>
test     == <<seen, late>>
detectorVars == <<now, ring, hot, counters, slotIdx, lastTick, pc, mine, cleaner, accesses,
              watched, home, place, began, counted, seen, late>>

Rings     == 1 .. MaxRings
SlotIndex == 0 .. Slots - 1
Low       == Threshold \div Divisor

Zeros  == [i \in SlotIndex |-> 0]
Nobody == [i \in SlotIndex |-> {}]

\* place of an access that was not counted yet.
Nowhere == -1

DetectorInit ==
    /\ now = 0
    /\ ring = None /\ hot = FALSE
    /\ counters = [s \in Rings |-> Zeros]
    /\ slotIdx = [s \in Rings |-> 0]
    /\ lastTick = [s \in Rings |-> 0]
    /\ pc = [a \in Accessors |-> "idle"]
    /\ mine = [a \in Accessors |-> None]
    /\ cleaner = "wait"
    /\ accesses = 0
    /\ watched = None /\ home = None /\ place = Nowhere /\ began = 0 /\ counted = 0
    /\ seen = Zeros /\ late = Nobody

-----------------------------------------------------------------------------
(* slotRing.                                                               *)

\* Slots the ring s moves on by.
Steps(s) ==
    LET steps == (now - lastTick[s]) \div Interval
    IN  IF steps > Slots THEN Slots ELSE steps

\* How many steps ago slot i of the ring was the current one.
Behind(s, i) == IF i <= slotIdx[s] THEN slotIdx[s] - i ELSE slotIdx[s] - i + Slots

\* Mutant of Cleared: the loop takes one step too many.
ClearedOneMore(s, i) == Behind(s, i) + Steps(s) + 1 >= Slots

\* The loop of advance clears the slots it comes to: the ones that would fall
\* Slots steps behind.
Cleared(s, i) == Behind(s, i) + Steps(s) >= Slots

\* Mutant of advance: the index runs past the end of the ring.
advancePastEnd(s) ==
    IF Steps(s) = 0 THEN UNCHANGED ringVars
    ELSE /\ slotIdx' = [slotIdx EXCEPT ![s] = @ + Steps(s)]
         /\ counters' = [counters EXCEPT ![s] =
                            [i \in SlotIndex |-> IF Cleared(s, i) THEN 0 ELSE @[i]]]
         /\ lastTick' = [lastTick EXCEPT ![s] = now]

\* Mutant of advance: a ring moves on by one slot, however long it was idle.
advanceByOne(s) ==
    IF Steps(s) = 0 THEN UNCHANGED ringVars
    ELSE /\ slotIdx' = [slotIdx EXCEPT ![s] = (@ + 1) % Slots]
         /\ counters' = [counters EXCEPT ![s][(slotIdx[s] + 1) % Slots] = 0]
         /\ lastTick' = [lastTick EXCEPT ![s] = now]

\* The remainder of the elapsed time is dropped with lastTick = now.
advance(s) ==
    IF Steps(s) = 0 THEN UNCHANGED ringVars
    ELSE /\ slotIdx' = [slotIdx EXCEPT ![s] = (@ + Steps(s)) % Slots]
         /\ counters' = [counters EXCEPT ![s] =
                            [i \in SlotIndex |-> IF Cleared(s, i) THEN 0 ELSE @[i]]]
         /\ lastTick' = [lastTick EXCEPT ![s] = now]

sum(s) == SumFunction(counters[s])

-----------------------------------------------------------------------------
(* The watched access: at any time one that has run advance, and has not   *)
(* been cleared since.                                                     *)

Unwatch == watched' = None /\ home' = None /\ place' = Nowhere /\ began' = 0 /\ counted' = 0

\* Accessor a has run advance on its ring s.
WatchAdvance(a, s) ==
    \/ /\ watched = None
       /\ watched' = a /\ home' = s /\ began' = now
       /\ UNCHANGED <<place, counted>>
    \/ IF home = s /\ place # Nowhere /\ counters'[s][place] = 0
         THEN Unwatch ELSE UNCHANGED watch

-----------------------------------------------------------------------------
(* RecordAccess.                                                           *)

\* cleanup is not between its test and its delete, where it keeps h.mu.
MapFree == cleaner # "remove"

Goto(a, from, to) == pc[a] = from /\ pc' = [pc EXCEPT ![a] = to]
Hold(a, s) == mine' = [mine EXCEPT ![a] = s]

\* The look-up under the read lock.
Lookup(a) ==
    /\ MapFree
    /\ accesses < MaxAccesses /\ accesses' = accesses + 1
    /\ Goto(a, "idle", IF ring = None THEN "create" ELSE "advance")
    /\ Hold(a, ring)
    /\ UNCHANGED <<now, mapVars, ringVars, watch, cleaner, test>>

\* A new ring: the first name that nobody refers to any more.
Free(s) == s # ring /\ \A a \in Accessors : mine[a] # s

newSlotRing(s) ==
    /\ Free(s) /\ \A t \in 1 .. s - 1 : ~Free(t)
    /\ counters' = [counters EXCEPT ![s] = Zeros]
    /\ slotIdx' = [slotIdx EXCEPT ![s] = 0]
    /\ lastTick' = [lastTick EXCEPT ![s] = now]
    /\ IF home = s THEN Unwatch ELSE UNCHANGED watch

\* Unless somebody else has put one there meanwhile.
Create(a) ==
    /\ MapFree
    /\ Goto(a, "create", "advance")
    /\ IF ring = None
         THEN \E s \in Rings : newSlotRing(s) /\ ring' = s /\ Hold(a, s)
         ELSE Hold(a, ring) /\ UNCHANGED <<ring, ringVars, watch>>
    /\ UNCHANGED <<now, hot, cleaner, accesses, test>>

Advance(a) ==
    /\ Goto(a, "advance", "inc")
    /\ advance(mine[a])
    /\ WatchAdvance(a, mine[a])
    /\ UNCHANGED <<now, mapVars, mine, cleaner, accesses, test>>

Inc(a) ==
    /\ Goto(a, "inc", "sum")
    /\ counters' = [counters EXCEPT ![mine[a]][slotIdx[mine[a]]] = @ + 1]
    /\ IF watched = a /\ place = Nowhere
         THEN /\ place' = slotIdx[mine[a]] /\ counted' = now
              /\ UNCHANGED <<watched, home, began>>
         ELSE UNCHANGED watch
    /\ late' = IF cleaner = "remove" /\ mine[a] = ring
                 THEN [late EXCEPT ![slotIdx[ring]] = @ \cup {a}] ELSE late
    /\ UNCHANGED <<now, mapVars, slotIdx, lastTick, mine, cleaner, accesses, seen>>

Sum(a) ==
    /\ pc[a] = "sum"
    /\ IF sum(mine[a]) > Threshold
         THEN Goto(a, "sum", "mark") /\ UNCHANGED mine
         ELSE Goto(a, "sum", "idle") /\ Hold(a, None)
    /\ UNCHANGED <<now, mapVars, ringVars, watch, cleaner, accesses, test>>

\* The ring may have left the map by now.
Mark(a) ==
    /\ MapFree
    /\ Goto(a, "mark", "idle")
    /\ hot' = TRUE
    /\ Hold(a, None)
    /\ UNCHANGED <<now, ring, ringVars, watch, cleaner, accesses, test>>

Serve(a) == Create(a) \/ Advance(a) \/ Inc(a) \/ Sum(a) \/ Mark(a)

-----------------------------------------------------------------------------
(* cleanupLoop.                                                            *)

\* The keys with few accesses are collected under the read lock ...
Collect ==
    /\ cleaner = "wait"
    /\ ring # None /\ sum(ring) <= Low
    /\ cleaner' = "delete"
    /\ UNCHANGED <<now, mapVars, ringVars, callVars, watch, test>>

\* The ring has passed the second test: the map stays locked.
Passed == cleaner' = "remove" /\ seen' = counters[ring] /\ UNCHANGED late
Spared == cleaner' = "wait" /\ UNCHANGED test

\* Mutant of Test: what was collected is deleted.
TestNothing ==
    /\ cleaner = "delete"
    /\ IF ring # None THEN Passed ELSE Spared
    /\ UNCHANGED <<now, mapVars, ringVars, callVars, watch>>

\* Mutant of Test: the second comparison is strict.
TestBelow ==
    /\ cleaner = "delete"
    /\ IF ring # None /\ sum(ring) < Low THEN Passed ELSE Spared
    /\ UNCHANGED <<now, mapVars, ringVars, callVars, watch>>

\* ... tested again under the write lock, when sum takes and returns the lock
\* of the ring ...
Test ==
    /\ cleaner = "delete"
    /\ IF ring # None /\ sum(ring) <= Low THEN Passed ELSE Spared
    /\ UNCHANGED <<now, mapVars, ringVars, callVars, watch>>

\* ... and deleted, whatever was counted since.
Delete ==
    /\ cleaner = "remove"
    /\ cleaner' = "wait"
    /\ ring' = None /\ hot' = FALSE
    /\ seen' = Zeros /\ late' = Nobody
    /\ UNCHANGED <<now, ringVars, callVars, watch>>

\* Stop closes stopCh, and the select of cleanupLoop takes it.
Stop ==
    /\ cleaner = "wait"
    /\ cleaner' = "stopped"
    /\ UNCHANGED <<now, mapVars, ringVars, callVars, watch, test>>

Tick ==
    /\ now < MaxTime
    /\ now' = now + 1
    /\ UNCHANGED <<mapVars, ringVars, callVars, watch, cleaner, test>>

DetectorNext ==
    \/ \E a \in Accessors : Lookup(a) \/ Serve(a)
    \/ Collect \/ Test \/ Delete \/ Stop \/ Tick

DetectorSpec == DetectorInit /\ [][DetectorNext]_detectorVars

\* Calls are served and the ticker fires again and again; nobody has to make a
\* call or to stop the detector, and the clock owes nothing to anybody.
DetectorFairness ==
    /\ \A a \in Accessors : WF_detectorVars(Serve(a))
    /\ WF_detectorVars(Collect) /\ WF_detectorVars(Test) /\ WF_detectorVars(Delete)

DetectorFairSpec == DetectorSpec /\ DetectorFairness

-----------------------------------------------------------------------------
(* Properties.                                                             *)

\* The state is well-formed; an accessor past its look-up refers to a ring,
\* which nobody replaces under it, and the watched access has its count.
DetectorOK ==
    /\ now \in 0..MaxTime /\ accesses \in 0..MaxAccesses
    /\ ring \in Rings \cup {None} /\ hot \in BOOLEAN
    /\ counters \in [Rings -> [SlotIndex -> Nat]]
    /\ slotIdx \in [Rings -> SlotIndex] /\ lastTick \in [Rings -> 0..now]
    /\ pc \in [Accessors -> {"idle", "create", "advance", "inc", "sum", "mark"}]
    /\ mine \in [Accessors -> Rings \cup {None}]
    /\ \A a \in Accessors : pc[a] \notin {"idle", "create"} => mine[a] \in Rings
    /\ cleaner \in {"wait", "delete", "remove", "stopped"}
    /\ cleaner = "remove" => ring # None
    /\ seen \in [SlotIndex -> Nat] /\ late \in [SlotIndex -> SUBSET Accessors]
    /\ watched \in Accessors \cup {None} /\ began \in 0..now /\ counted \in 0..now
    /\ watched # None => home \in Rings
    /\ watched # None /\ place = Nowhere => pc[watched] = "inc" /\ mine[watched] = home
    /\ place # Nowhere => watched # None /\ place \in SlotIndex /\ counters[home][place] > 0

\* No under-count (advance): the ring that counts an access clears it only
\* more than Slots - 1 intervals after the access began, whatever the scheduler
\* did between its advance, inc and sum and those of others.
RecentCounted ==
    [][place # Nowhere /\ place' = Nowhere /\ ring' = ring
       => now > began + (Slots - 1) * Interval]_detectorVars

\* advance drops up to an interval less a tick each time it moves, so that the
\* slots behind the current one may reach back nearly twice as far.
Stretch == (Slots - 1) * (2 * Interval - 1)

\* No over-count: what is dropped adds up to no more than that, however the
\* accesses are spaced, and a ring counts nothing older.
OldForgotten ==
    place # Nowhere => lastTick[home] <= counted + Stretch

\* Since cleanup has tested the ring and found it low, only goroutines that had
\* looked it up before have counted in it, and each of them once: none can come
\* back while the map is locked.
SinceTest ==
    cleaner = "remove" =>
        /\ SumFunction(seen) <= Low
        /\ \A i \in SlotIndex : counters[ring][i] <= seen[i] + Cardinality(late[i])
        /\ \A i, j \in SlotIndex : i # j => late[i] \cap late[j] = {}

\* The two double-checks of RecordAccess and cleanup: first accesses that race
\* create one ring, and a ring leaves the map only if it counted at most
\* threshold / 10 when cleanup tested it under the write lock.  It may count
\* more when it goes, since sum gives the ring's lock back before the delete, but
\* by no more than one for each goroutine that had looked it up before.
BusyRingStays ==
    [][ring # None /\ ring' # ring => ring' = None /\ cleaner = "remove" /\ SinceTest]_detectorVars

\* A key whose ring counts at most threshold / 10 does not stay in the map while
\* cleanupLoop runs.  The count is what cleanup sees: it does not advance the
\* ring, so that a key which is not accessed any more keeps its last counts, and
\* with more than threshold / 10 of them is never removed.
LowKeysCleaned ==
    <>[](cleaner = "stopped" \/ ring = None \/ sum(ring) > Low)
=============================================================================
