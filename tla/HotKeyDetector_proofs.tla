----------------------- MODULE HotKeyDetector_proofs -----------------------
(***************************************************************************)
(* The sliding window, for any number of slots, any interval, any number   *)
(* of goroutines and any time between their steps.                         *)
(***************************************************************************)
EXTENDS HotKeyDetector, FiniteSetTheorems, TLAPS

-----------------------------------------------------------------------------
(* Arithmetic of the ring.                                                 *)

\* A remainder of a number below twice the modulus.
LEMMA Around ==
    ASSUME NEW M \in Nat \ {0}, NEW x \in 0 .. 2 * M - 1
    PROVE  x % M = IF x < M THEN x ELSE x - M
<1>0. x \in Nat  BY SMT
<1>1. x = (M * (x \div M)) + (x % M) /\ x \div M \in Nat /\ x % M \in 0..M-1
  <2>1. x = (M * (x \div M)) + (x % M) /\ x \div M \in Nat  BY <1>0, SMT
  <2>2. x % M \in 0..M-1  BY <1>0, SMT
  <2> QED  BY <2>1, <2>2
<1>2. CASE x < M  BY <1>2, SMT
<1>3. CASE x >= M
  <2>1. x \div M = 1
    <3>1. CASE x \div M <= 0
      <4>1. M * (x \div M) <= 0  BY <1>1, <3>1, SMT
      <4> QED  BY <1>1, <1>3, <4>1, SMT
    <3>2. CASE x \div M >= 2
      <4>1. M * (x \div M) >= M * 2  BY <1>1, <3>2, SMT
      <4> QED  BY <1>1, <4>1, SMT
    <3> QED  BY <1>1, <3>1, <3>2, SMT
  <2> QED  BY <1>1, <1>3, <2>1, SMT
<1> QED  BY <1>2, <1>3, SMT

\* What advance makes of the elapsed time.
LEMMA Elapsed ==
    ASSUME NEW n \in Nat, NEW t \in 0..n, NEW I \in Nat \ {0}
    PROVE  /\ (n - t) \div I \in Nat
           /\ n >= t + I * ((n - t) \div I)
           /\ n < t + I * ((n - t) \div I) + I
BY SMT

\* Steps of a ring: at most Slots; lastTick + Steps intervals have passed, and
\* unless the ring has been passed altogether less than one more.
LEMMA StepsBound ==
    ASSUME DetectorOK, NEW s \in Rings
    PROVE  /\ Steps(s) \in 0..Slots
           /\ now >= lastTick[s] + Interval * Steps(s)
           /\ Steps(s) < Slots => now < lastTick[s] + Interval * Steps(s) + Interval
<1> DEFINE q == (now - lastTick[s]) \div Interval
<1>1. now \in Nat /\ lastTick[s] \in 0..now  BY HotKeyAssumption DEF DetectorOK
<1>2. Interval \in Nat \ {0} /\ Slots \in Nat \ {0}  BY HotKeyAssumption
<1>3. q \in Nat /\ now >= lastTick[s] + Interval * q /\ now < lastTick[s] + Interval * q + Interval
  BY <1>1, <1>2, Elapsed
<1>4. Steps(s) = IF q > Slots THEN Slots ELSE q  BY DEF Steps
<1> HIDE DEF q
<1>5. CASE q > Slots
  <2>1. Interval * q >= Interval * Slots  BY <1>2, <1>3, <1>5, SMT
  <2> QED  BY <1>1, <1>2, <1>3, <1>4, <1>5, <2>1, SMT
<1>6. CASE q <= Slots
  <2>1. Steps(s) = q  BY <1>2, <1>3, <1>4, <1>6, SMT
  <2> QED  BY <1>2, <1>3, <1>6, <2>1, SMT
<1> QED  BY <1>2, <1>3, <1>5, <1>6, SMT

\* A slot that is not cleared falls behind by as many steps as the ring takes.
LEMMA FallsBehind ==
    ASSUME DetectorOK, NEW s \in Rings, NEW i \in SlotIndex, ~Cleared(s, i),
           NEW p, p = (slotIdx[s] + Steps(s)) % Slots
    PROVE  /\ Behind(s, i) \in Nat /\ Behind(s, i) + Steps(s) < Slots
           /\ Behind(s, i) + Steps(s) = IF i <= p THEN p - i ELSE p - i + Slots
<1>1. slotIdx[s] \in 0..Slots-1 /\ i \in 0..Slots-1 /\ Slots \in Nat \ {0}
  BY HotKeyAssumption DEF DetectorOK, SlotIndex
<1>2. Steps(s) \in 0..Slots  BY StepsBound
<1>3. Behind(s, i) = IF i <= slotIdx[s] THEN slotIdx[s] - i ELSE slotIdx[s] - i + Slots
  BY DEF Behind
<1>4. ~(Behind(s, i) + Steps(s) >= Slots)  BY DEF Cleared
<1>5. Behind(s, i) \in Nat /\ Behind(s, i) + Steps(s) < Slots
  BY <1>1, <1>2, <1>3, <1>4
<1>6. slotIdx[s] + Steps(s) \in 0 .. 2 * Slots - 1  BY <1>1, <1>2, <1>3, <1>5
<1>7. PICK x \in 0 .. 2 * Slots - 1 : x = slotIdx[s] + Steps(s)  BY <1>6
<1>8. \A y \in 0 .. 2 * Slots - 1 : y % Slots = IF y < Slots THEN y ELSE y - Slots
  BY <1>1, Around, Zenon
<1>9. p = x % Slots  BY <1>7, Zenon
<1>10. p = IF x < Slots THEN x ELSE x - Slots  BY <1>8, <1>9, Zenon
<1>11. Behind(s, i) + Steps(s) = IF i <= p THEN p - i ELSE p - i + Slots
  BY <1>1, <1>2, <1>3, <1>5, <1>7, <1>10
<1> QED  BY <1>5, <1>11

-----------------------------------------------------------------------------
(* Types.                                                                  *)

LEMMA TypeInit == DetectorInit => DetectorOK
<1> SUFFICES ASSUME DetectorInit PROVE DetectorOK  OBVIOUS
<1>1. now \in 0..MaxTime /\ accesses \in 0..MaxAccesses  BY HotKeyAssumption DEF DetectorInit
<1>2. 0 \in SlotIndex /\ 0 \in 0..now /\ 0 \in Nat  BY HotKeyAssumption DEF DetectorInit, SlotIndex
<1> QED  BY <1>1, <1>2, Zenon DEF DetectorInit, DetectorOK, Zeros, Nobody

\* advance keeps a ring well-formed, and a slot it changes is cleared.
LEMMA TypeAdvance ==
    ASSUME DetectorOK, NEW s \in Rings, advance(s)
    PROVE  /\ counters' \in [Rings -> [SlotIndex -> Nat]]
           /\ slotIdx' \in [Rings -> SlotIndex] /\ lastTick' \in [Rings -> 0..now]
           /\ \A t \in Rings \ {s} : counters'[t] = counters[t]
           /\ \A i \in SlotIndex : counters'[s][i] \in {0, counters[s][i]}
<1>1. CASE Steps(s) = 0  BY <1>1 DEF advance, ringVars, DetectorOK
<1>2. CASE Steps(s) # 0
  <2>1. slotIdx[s] \in Nat /\ Steps(s) \in Nat /\ Slots \in Nat \ {0}
    <3>1. slotIdx[s] \in SlotIndex  BY DEF DetectorOK
    <3>2. Steps(s) \in 0..Slots  BY StepsBound
    <3> QED  BY <3>1, <3>2, HotKeyAssumption DEF SlotIndex
  <2>2. (slotIdx[s] + Steps(s)) % Slots \in SlotIndex  BY <2>1 DEF SlotIndex
  <2>3. slotIdx' \in [Rings -> SlotIndex]  BY <1>2, <2>2, Zenon DEF advance, DetectorOK
  <2>4. now \in 0..now  BY HotKeyAssumption DEF DetectorOK
  <2>5. lastTick' \in [Rings -> 0..now]  BY <1>2, <2>4 DEF advance, DetectorOK
  <2>6. counters' = [counters EXCEPT ![s] =
                       [i \in SlotIndex |-> IF Cleared(s, i) THEN 0 ELSE counters[s][i]]]
    BY <1>2 DEF advance, DetectorOK
  <2> QED  BY <2>3, <2>5, <2>6 DEF DetectorOK
<1> QED  BY <1>1, <1>2

\* RecordAccess.
LEMMA TypeAccess ==
    ASSUME DetectorOK, NEW a \in Accessors, Lookup(a) \/ Serve(a)
    PROVE  DetectorOK'
<1> USE HotKeyAssumption DEF mapVars, ringVars, callVars, watch, test, Goto, Hold, MapFree
<1>1. CASE Lookup(a)
  <2>1. accesses' \in 0..MaxAccesses  BY <1>1 DEF Lookup, DetectorOK
  <2> QED  BY <1>1, <2>1, Zenon DEF Lookup, DetectorOK
<1>2. CASE Create(a)
  <2>1. CASE ring # None  BY <1>2, <2>1 DEF Create, DetectorOK
  <2>2. CASE ring = None
    <3>1. PICK s \in Rings : newSlotRing(s) /\ ring' = s /\ mine' = [mine EXCEPT ![a] = s]
      BY <1>2, <2>2 DEF Create
    <3>2. 0 \in SlotIndex /\ now \in 0..now  BY DEF SlotIndex, DetectorOK
    <3>3. counters' \in [Rings -> [SlotIndex -> Nat]] /\ slotIdx' \in [Rings -> SlotIndex]
            /\ lastTick' \in [Rings -> 0..now]
      BY <3>1, <3>2 DEF newSlotRing, Zeros, DetectorOK
    <3>4. s # None /\ UNCHANGED <<now, hot, cleaner, accesses, seen, late>>
      BY <1>2, <3>1 DEF Create, Rings
    <3>5. pc' = [pc EXCEPT ![a] = "advance"] /\ pc[a] = "create"  BY <1>2 DEF Create
    <3>6. mine' \in [Accessors -> Rings \cup {None}] /\ pc' \in [Accessors ->
            {"idle", "create", "advance", "inc", "sum", "mark"}]
      BY <3>1, <3>5 DEF DetectorOK
    <3>7. \A b \in Accessors : pc'[b] \notin {"idle", "create"} => mine'[b] \in Rings
      BY <3>1, <3>5 DEF DetectorOK
    <3>8. CASE home = s
      <4>1. Unwatch  BY <3>1, <3>8 DEF newSlotRing
      <4>2. 0 \in 0..now  BY DEF DetectorOK
      <4> QED  BY <3>1, <3>3, <3>4, <3>6, <3>7, <4>1, <4>2 DEF Unwatch, DetectorOK
    <3>9. CASE home # s
      <4>1. UNCHANGED <<watched, home, place, began, counted>>
        BY <3>1, <3>9 DEF newSlotRing
      <4>2. watched # None => counters'[home] = counters[home]
        BY <3>1, <3>9 DEF newSlotRing, DetectorOK
      <4>3. watched # None /\ place = Nowhere => pc'[watched] = "inc" /\ mine'[watched] = home
        BY <3>1, <3>5 DEF DetectorOK
      <4> QED  BY <3>1, <3>3, <3>4, <3>6, <3>7, <4>1, <4>2, <4>3 DEF DetectorOK
    <3> QED  BY <3>8, <3>9
  <2> QED  BY <2>1, <2>2
<1>3. CASE Advance(a)
  <2>1. mine[a] \in Rings /\ advance(mine[a])  BY <1>3 DEF Advance, DetectorOK
  <2>2. /\ counters' \in [Rings -> [SlotIndex -> Nat]]
        /\ slotIdx' \in [Rings -> SlotIndex] /\ lastTick' \in [Rings -> 0..now]
        /\ \A t \in Rings \ {mine[a]} : counters'[t] = counters[t]
        /\ \A i \in SlotIndex : counters'[mine[a]][i] \in {0, counters[mine[a]][i]}
    BY <2>1, TypeAdvance
  <2>3. CASE watched = None /\ watched' = a /\ home' = mine[a] /\ began' = now
             /\ UNCHANGED <<place, counted>>
    <3>1. now \in 0..now  BY DEF DetectorOK
    <3> QED  BY <1>3, <2>1, <2>2, <2>3, <3>1 DEF Advance, DetectorOK
  <2>4. CASE Unwatch
    <3>1. 0 \in 0..now  BY DEF DetectorOK
    <3> QED  BY <1>3, <2>1, <2>2, <2>4, <3>1 DEF Advance, Unwatch, DetectorOK
  <2>5. CASE UNCHANGED watch /\ ~(home = mine[a] /\ place # Nowhere /\ counters'[mine[a]][place] = 0)
    BY <1>3, <2>1, <2>2, <2>5 DEF Advance, DetectorOK
  <2>6. WatchAdvance(a, mine[a])  BY <1>3 DEF Advance
  <2> QED  BY <2>3, <2>4, <2>5, <2>6, Zenon DEF WatchAdvance
<1>4. CASE Inc(a)
  <2> DEFINE s == mine[a]
  <2>1. s \in Rings /\ slotIdx[s] \in SlotIndex  BY <1>4 DEF Inc, DetectorOK
  <2>2. counters' = [counters EXCEPT ![s][slotIdx[s]] = counters[s][slotIdx[s]] + 1]
    BY <1>4 DEF Inc
  <2>3. counters' \in [Rings -> [SlotIndex -> Nat]]  BY <2>1, <2>2 DEF DetectorOK
  <2>4. counters'[s][slotIdx[s]] > 0  BY <2>1, <2>2 DEF DetectorOK
  <2>5. \A t \in Rings, i \in SlotIndex : counters[t][i] > 0 => counters'[t][i] > 0
    BY <2>1, <2>2 DEF DetectorOK
  <2>6. pc[a] = "inc" /\ pc' = [pc EXCEPT ![a] = "sum"]  BY <1>4 DEF Inc
  <2>7. UNCHANGED <<now, ring, hot, slotIdx, lastTick, mine, cleaner, accesses, seen>>
    BY <1>4 DEF Inc
  <2>8. late' \in [SlotIndex -> SUBSET Accessors]
    <3>1. late' = late \/ late' = [late EXCEPT ![slotIdx[s]] = late[slotIdx[s]] \cup {a}]
      BY <1>4 DEF Inc
    <3> QED  BY <2>1, <3>1 DEF DetectorOK
  <2> HIDE DEF s
  <2>9. CASE watched = a /\ place = Nowhere
    <3>1. place' = slotIdx[s] /\ counted' = now /\ UNCHANGED <<watched, home, began>>
      BY <1>4, <2>9 DEF Inc, s
    <3>2. home = s  BY <2>9 DEF DetectorOK, s
    <3>3. now \in 0..now  BY DEF DetectorOK
    <3>4. -1 \notin SlotIndex  BY DEF SlotIndex
    <3> QED  BY <2>1, <2>3, <2>4, <2>6, <2>7, <2>9, <2>8, <3>1, <3>2, <3>3, <3>4
          DEF DetectorOK, Nowhere
  <2>10. CASE ~(watched = a /\ place = Nowhere)
    <3>1. UNCHANGED watch  BY <1>4, <2>10 DEF Inc
    <3> QED  BY <2>1, <2>3, <2>5, <2>6, <2>7, <2>10, <2>8, <3>1 DEF DetectorOK
  <2> QED  BY <2>9, <2>10
<1>5. CASE Sum(a)  BY <1>5 DEF Sum, DetectorOK
<1>6. CASE Mark(a)  BY <1>6 DEF Mark, DetectorOK
<1> QED  BY <1>1, <1>2, <1>3, <1>4, <1>5, <1>6 DEF Serve

\* cleanupLoop and the clock.
LEMMA TypeRest ==
    ASSUME DetectorOK, Collect \/ Test \/ Delete \/ Stop \/ Tick
    PROVE  DetectorOK'
<1> USE HotKeyAssumption DEF mapVars, ringVars, callVars, watch, test
<1>1. CASE Collect \/ Stop  BY <1>1 DEF Collect, Stop, DetectorOK
<1>2. CASE Test
  <2>1. seen' \in [SlotIndex -> Nat] /\ late' = late
    BY <1>2 DEF Test, Passed, Spared, DetectorOK
  <2>2. cleaner' \in {"wait", "remove"} /\ (cleaner' = "remove" => ring # None)
    BY <1>2 DEF Test, Passed, Spared
  <2> QED  BY <1>2, <2>1, <2>2 DEF Test, DetectorOK
<1>3. CASE Delete
  <2>1. seen' \in [SlotIndex -> Nat] /\ late' \in [SlotIndex -> SUBSET Accessors]
    BY <1>3 DEF Delete, Zeros, Nobody
  <2> QED  BY <1>3, <2>1 DEF Delete, DetectorOK
<1>4. CASE Tick
  <2>1. now' \in 0..MaxTime /\ \A t \in 0..now : t \in 0..now'  BY <1>4 DEF Tick, DetectorOK
  <2> QED  BY <1>4, <2>1 DEF Tick, DetectorOK
<1> QED  BY <1>1, <1>2, <1>3, <1>4

LEMMA TypeStep == DetectorOK /\ [DetectorNext]_detectorVars => DetectorOK'
<1> SUFFICES ASSUME DetectorOK, [DetectorNext]_detectorVars PROVE DetectorOK'  OBVIOUS
<1>1. CASE UNCHANGED detectorVars  BY <1>1 DEF detectorVars, DetectorOK
<1>2. CASE DetectorNext  BY <1>2, TypeAccess, TypeRest DEF DetectorNext
<1> QED  BY <1>1, <1>2

\* The state stays well-formed: no index leaves its ring, an accessor refers
\* to a ring from its look-up on, and nobody takes that ring from under it.
THEOREM TypeCorrect == DetectorSpec => []DetectorOK
BY TypeInit, TypeStep, PTL DEF DetectorSpec

-----------------------------------------------------------------------------
(* The window.                                                             *)

\* A slot that is b steps behind was left at least b and, with what advance
\* drops, less than 2 b intervals before the last one was opened.  Only the
\* access that is between advance and inc has no slot yet, and its ring has
\* been moved to less than an interval before it began, or later.
WindowInv ==
    /\ watched # None /\ place = Nowhere => lastTick[home] + Interval > began
    /\ place # Nowhere =>
        /\ lastTick[home] <= counted + Behind(home, place) * (2 * Interval - 1)
        /\ lastTick[home] + Interval > began + Behind(home, place) * Interval

\* What st steps add to the two bounds.
LEMMA Drift ==
    ASSUME NEW I \in Nat \ {0}, NEW b \in Nat, NEW st \in Nat \ {0},
           NEW t \in Nat, NEW n \in Nat, NEW c \in Nat, NEW g \in Nat,
           t <= c + b * (2 * I - 1), t + I > g + b * I,
           n >= t + I * st, n < t + I * st + I
    PROVE  /\ n <= c + (b + st) * (2 * I - 1)
           /\ n + I > g + (b + st) * I
<1>1. (b + st) * (2 * I - 1) = b * (2 * I - 1) + st * (2 * I - 1)  BY SMT
<1>2. (b + st) * I = b * I + st * I  BY SMT
<1>3. st * I = I * st  BY SMT
<1>4. I * st + I - 1 <= st * (2 * I - 1)
  <2>1. PICK k \in Nat : st = k + 1
    <3>1. st - 1 \in Nat /\ st = (st - 1) + 1  BY SMT
    <3> QED  BY <3>1
  <2>2. I * (k + 1) = I * k + I /\ (k + 1) * (2 * I - 1) = 2 * (I * k) - k + 2 * I - 1  BY SMT
  <2>3. I * k >= k  BY SMT
  <2>4. I * k \in Nat  BY SMT
  <2> QED  BY <2>1, <2>2, <2>3, <2>4, SMT
<1>5. b * (2 * I - 1) \in Int /\ st * (2 * I - 1) \in Int /\ b * I \in Int /\ I * st \in Int
  BY SMT
<1> QED  BY <1>1, <1>2, <1>3, <1>4, <1>5, SMT

\* A slot never falls further behind than Slots - 1.
LEMMA BehindBound ==
    ASSUME DetectorOK, NEW s \in Rings, NEW i \in SlotIndex
    PROVE  Behind(s, i) \in 0..Slots-1
<1>1. slotIdx[s] \in 0..Slots-1 /\ i \in 0..Slots-1 /\ Slots \in Nat \ {0}
  BY HotKeyAssumption DEF DetectorOK, SlotIndex
<1> QED  BY <1>1 DEF Behind

\* advance moves no ring back, and moves it to less than an interval from now.
LEMMA AdvanceTick ==
    ASSUME DetectorOK, NEW s \in Rings, advance(s)
    PROVE  /\ lastTick'[s] + Interval > now
           /\ \A t \in Rings : lastTick'[t] >= lastTick[t]
           /\ \A t \in Rings \ {s} : lastTick'[t] = lastTick[t] /\ slotIdx'[t] = slotIdx[t]
<1>1. now \in Nat /\ lastTick \in [Rings -> 0..now] /\ slotIdx \in [Rings -> SlotIndex]
  BY HotKeyAssumption DEF DetectorOK
<1>2. Interval \in Nat \ {0} /\ Slots \in Nat \ {0}  BY HotKeyAssumption
<1>3. CASE Steps(s) = 0
  <2>1. now < lastTick[s] + Interval
    <3>1. Steps(s) < Slots  BY <1>2, <1>3
    <3>2. now < lastTick[s] + Interval * Steps(s) + Interval  BY <3>1, StepsBound
    <3>3. Interval * Steps(s) = 0  BY <1>2, <1>3
    <3> QED  BY <1>1, <1>2, <3>2, <3>3
  <2> QED  BY <1>1, <1>2, <1>3, <2>1 DEF advance, ringVars
<1>4. CASE Steps(s) # 0
  <2>1. lastTick' = [lastTick EXCEPT ![s] = now]
         /\ slotIdx' = [slotIdx EXCEPT ![s] = (slotIdx[s] + Steps(s)) % Slots]
    BY <1>1, <1>4 DEF advance
  <2> QED  BY <1>1, <1>2, <2>1
<1> QED  BY <1>3, <1>4

\* An access that its ring keeps stays within the bounds ...
LEMMA WindowKept ==
    ASSUME DetectorOK, WindowInv, place # Nowhere, advance(home), counters'[home][place] # 0,
           UNCHANGED watch
    PROVE  WindowInv'
<1>1. home \in Rings /\ place \in SlotIndex  BY DEF DetectorOK
<1>2. UNCHANGED <<watched, home, place, began, counted>>  BY DEF watch
<1>3. CASE Steps(home) = 0
  BY <1>2, <1>3 DEF advance, ringVars, WindowInv, Behind
<1>4. CASE Steps(home) # 0
  <2> DEFINE st == Steps(home)
  <2> DEFINE b == Behind(home, place)
  <2>1. counters' = [counters EXCEPT ![home] =
                       [i \in SlotIndex |-> IF Cleared(home, i) THEN 0 ELSE counters[home][i]]]
    BY <1>4 DEF advance, DetectorOK
  <2>2. ~Cleared(home, place)  BY <1>1, <2>1 DEF DetectorOK
  <2>3. PICK p : p = (slotIdx[home] + st) % Slots  OBVIOUS
  <2>4. /\ b \in Nat /\ b + st < Slots
        /\ b + st = IF place <= p THEN p - place ELSE p - place + Slots
    BY <1>1, <2>2, <2>3, FallsBehind
  <2>5. lastTick' = [lastTick EXCEPT ![home] = now]
         /\ slotIdx' = [slotIdx EXCEPT ![home] = (slotIdx[home] + st) % Slots]
    BY <1>4 DEF advance, DetectorOK
  <2>6. lastTick'[home] = now /\ slotIdx'[home] = p  BY <1>1, <2>3, <2>5 DEF DetectorOK
  <2>7. Behind(home, place)' = b + st
    BY <1>2, <2>4, <2>6 DEF Behind
  <2>8. /\ st \in 0..Slots /\ now >= lastTick[home] + Interval * st
        /\ st < Slots => now < lastTick[home] + Interval * st + Interval
    BY <1>1, StepsBound
  <2>9. /\ lastTick[home] <= counted + b * (2 * Interval - 1)
        /\ lastTick[home] + Interval > began + b * Interval
    BY DEF WindowInv
  <2>10. /\ now \in Nat /\ lastTick[home] \in Nat /\ counted \in Nat /\ began \in Nat
         /\ Interval \in Nat \ {0} /\ Slots \in Nat \ {0}
    BY <1>1, HotKeyAssumption DEF DetectorOK
  <2> HIDE DEF st, b
  <2>11. st \in Nat \ {0} /\ st < Slots  BY <1>4, <2>4, <2>8, <2>10 DEF st
  <2>12. /\ now <= counted + (b + st) * (2 * Interval - 1)
         /\ now + Interval > began + (b + st) * Interval
    BY <2>4, <2>8, <2>9, <2>10, <2>11, Drift
  <2> QED  BY <1>2, <2>6, <2>7, <2>12 DEF WindowInv
<1> QED  BY <1>3, <1>4

\* ... and one that it clears is old.
LEMMA ClearedIsOld ==
    ASSUME DetectorOK, WindowInv, place # Nowhere, advance(home), counters'[home][place] = 0
    PROVE  now > began + (Slots - 1) * Interval
<1> DEFINE st == Steps(home)
<1> DEFINE b == Behind(home, place)
<1>1. home \in Rings /\ place \in SlotIndex /\ counters[home][place] > 0  BY DEF DetectorOK
<1>2. st # 0  BY <1>1 DEF advance, ringVars
<1>3. counters' = [counters EXCEPT ![home] =
                     [i \in SlotIndex |-> IF Cleared(home, i) THEN 0 ELSE counters[home][i]]]
  BY <1>2 DEF advance, DetectorOK
<1>4. Cleared(home, place)  BY <1>1, <1>3 DEF DetectorOK
<1>5. b + st >= Slots  BY <1>4 DEF Cleared
<1>6. st \in 0..Slots /\ now >= lastTick[home] + Interval * st  BY <1>1, StepsBound
<1>7. b \in 0..Slots-1  BY <1>1, BehindBound
<1>8. lastTick[home] + Interval > began + b * Interval  BY DEF WindowInv
<1>9. /\ now \in Nat /\ lastTick[home] \in Nat /\ began \in Nat
      /\ Interval \in Nat \ {0} /\ Slots \in Nat \ {0}
  BY <1>1, HotKeyAssumption DEF DetectorOK
<1> HIDE DEF st, b
<1>10. (b + st) * Interval = b * Interval + Interval * st  BY <1>6, <1>7, <1>9, SMT
<1>11. (b + st) * Interval >= Slots * Interval  BY <1>5, <1>6, <1>7, <1>9, SMT
<1>12. (Slots - 1) * Interval = Slots * Interval - Interval  BY <1>9, SMT
<1>13. b * Interval \in Int /\ Interval * st \in Int /\ Slots * Interval \in Int
  BY <1>6, <1>7, <1>9, SMT
<1> QED  BY <1>6, <1>8, <1>9, <1>10, <1>11, <1>12, <1>13, SMT

\* RecordAccess keeps the bounds; it drops the watched access only if that is
\* old, unless its ring had left the map and is forgotten altogether.
LEMMA WindowAccess ==
    ASSUME DetectorOK, WindowInv, NEW a \in Accessors, Lookup(a) \/ Serve(a)
    PROVE  /\ WindowInv'
           /\ place # Nowhere /\ place' = Nowhere /\ ring' = ring
                => now > began + (Slots - 1) * Interval
<1> USE DEF mapVars, ringVars, callVars
<1>1. CASE Lookup(a) \/ Sum(a) \/ Mark(a)
  <2>1. UNCHANGED <<lastTick, slotIdx, watch>>  BY <1>1 DEF Lookup, Sum, Mark
  <2> QED  BY <2>1 DEF WindowInv, Behind, watch
<1>2. CASE Create(a)
  <2>1. CASE ring # None
    <3>1. UNCHANGED <<lastTick, slotIdx, watch>>  BY <1>2, <2>1 DEF Create
    <3> QED  BY <3>1 DEF WindowInv, Behind, watch
  <2>2. CASE ring = None
    <3>1. PICK s \in Rings : newSlotRing(s) /\ ring' = s  BY <1>2, <2>2 DEF Create
    <3>2. ring' # ring  BY <2>2, <3>1, HotKeyAssumption DEF Rings
    <3>3. CASE home = s
      <4>1. Unwatch  BY <3>1, <3>3 DEF newSlotRing
      <4> QED  BY <3>2, <4>1 DEF Unwatch, WindowInv
    <3>4. CASE home # s
      <4>1. UNCHANGED watch  BY <3>1, <3>4 DEF newSlotRing
      <4>2. watched # None => lastTick'[home] = lastTick[home] /\ slotIdx'[home] = slotIdx[home]
        BY <3>1, <3>4 DEF newSlotRing, DetectorOK
      <4>3. place # Nowhere => watched # None  BY DEF DetectorOK
      <4> QED  BY <3>2, <4>1, <4>2, <4>3 DEF WindowInv, Behind, watch
    <3> QED  BY <3>3, <3>4
  <2> QED  BY <2>1, <2>2
<1>3. CASE Advance(a)
  <2> DEFINE s == mine[a]
  <2>1. s \in Rings /\ advance(s) /\ now' = now  BY <1>3 DEF Advance, Goto, DetectorOK
  <2>2. /\ lastTick'[s] + Interval > now
        /\ \A t \in Rings : lastTick'[t] >= lastTick[t]
        /\ \A t \in Rings \ {s} : lastTick'[t] = lastTick[t] /\ slotIdx'[t] = slotIdx[t]
    BY <2>1, AdvanceTick
  <2>3. CASE watched = None /\ watched' = a /\ home' = s /\ began' = now
             /\ UNCHANGED <<place, counted>>
    <3>1. place' = Nowhere /\ place = Nowhere  BY <2>3 DEF DetectorOK
    <3> QED  BY <2>2, <2>3, <3>1 DEF WindowInv
  <2>4. CASE home = s /\ place # Nowhere /\ counters'[s][place] = 0 /\ Unwatch
    <3>1. now > began + (Slots - 1) * Interval  BY <2>1, <2>4, ClearedIsOld
    <3> QED  BY <2>4, <3>1 DEF Unwatch, WindowInv
  <2>5. CASE UNCHANGED watch /\ ~(home = s /\ place # Nowhere /\ counters'[s][place] = 0)
    <3>1. CASE home = s /\ place # Nowhere
      <4>1. WindowInv'  BY <2>1, <2>5, <3>1, WindowKept
      <4> QED  BY <2>5, <3>1, <4>1 DEF watch
    <3>2. CASE place = Nowhere
      <4>1. UNCHANGED <<watched, home, place, began, counted>>  BY <2>5 DEF watch
      <4>2. CASE watched = None  BY <3>2, <4>1, <4>2 DEF WindowInv
      <4>3. CASE watched # None
        <5>1. home \in Rings  BY <4>3 DEF DetectorOK
        <5>2. lastTick'[home] >= lastTick[home]  BY <2>2, <5>1
        <5>3. lastTick[home] + Interval > began  BY <3>2, <4>3 DEF WindowInv
        <5>4. lastTick[home] \in Nat /\ lastTick'[home] \in Nat /\ began \in Nat /\ Interval \in Nat
          <6>1. lastTick' \in [Rings -> 0..now] /\ now \in Nat
            BY <2>1, TypeAdvance, HotKeyAssumption DEF DetectorOK
          <6> QED  BY <5>1, <6>1, HotKeyAssumption DEF DetectorOK
        <5>5. lastTick'[home] + Interval > began  BY <5>2, <5>3, <5>4
        <5> QED  BY <3>2, <4>1, <5>5 DEF WindowInv
      <4> QED  BY <4>2, <4>3
    <3>3. CASE home # s /\ place # Nowhere
      <4>1. UNCHANGED <<watched, home, place, began, counted>>  BY <2>5 DEF watch
      <4>2. home \in Rings  BY <3>3 DEF DetectorOK
      <4>3. lastTick'[home] = lastTick[home] /\ slotIdx'[home] = slotIdx[home]
        BY <2>2, <3>3, <4>2
      <4> QED  BY <3>3, <4>1, <4>3 DEF WindowInv, Behind
    <3> QED  BY <3>1, <3>2, <3>3
  <2>6. WatchAdvance(a, s)  BY <1>3 DEF Advance
  <2> QED  BY <2>3, <2>4, <2>5, <2>6, Zenon DEF WatchAdvance
<1>4. CASE Inc(a)
  <2>1. UNCHANGED <<lastTick, slotIdx>>  BY <1>4 DEF Inc
  <2>2. CASE watched = a /\ place = Nowhere
    <3> DEFINE s == mine[a]
    <3>1. place' = slotIdx[s] /\ counted' = now /\ UNCHANGED <<watched, home, began>>
      BY <1>4, <2>2 DEF Inc
    <3>2. home = s /\ s \in Rings
      <4>1. watched # None  BY <2>2, HotKeyAssumption
      <4> QED  BY <2>2, <4>1 DEF DetectorOK
    <3>3. slotIdx[s] \in Int /\ slotIdx[s] # Nowhere
      BY <3>2, HotKeyAssumption DEF DetectorOK, SlotIndex, Nowhere
    <3>4. Behind(home, place)' = 0  BY <2>1, <3>1, <3>2, <3>3 DEF Behind
    <3>5. /\ lastTick[s] \in 0..now /\ now \in Nat /\ began \in Nat
          /\ Interval \in Nat \ {0}
      BY <3>2, HotKeyAssumption DEF DetectorOK
    <3>6. lastTick[s] + Interval > began  BY <2>2, <3>2, HotKeyAssumption DEF WindowInv
    <3>7. 0 * (2 * Interval - 1) = 0 /\ 0 * Interval = 0  BY <3>5
    <3>8. lastTick[s] <= now + 0 * (2 * Interval - 1) /\ lastTick[s] + Interval > began + 0 * Interval
      BY <3>5, <3>6, <3>7
    <3> QED  BY <2>1, <2>2, <3>1, <3>2, <3>3, <3>4, <3>8 DEF WindowInv
  <2>3. CASE ~(watched = a /\ place = Nowhere)
    <3>1. UNCHANGED watch  BY <1>4, <2>3 DEF Inc
    <3> QED  BY <2>1, <3>1 DEF WindowInv, Behind, watch
  <2> QED  BY <2>2, <2>3
<1> QED  BY <1>1, <1>2, <1>3, <1>4 DEF Serve

\* And nothing else touches a ring.
LEMMA WindowStep ==
    ASSUME DetectorOK, WindowInv, [DetectorNext]_detectorVars
    PROVE  /\ WindowInv'
           /\ place # Nowhere /\ place' = Nowhere /\ ring' = ring
                => now > began + (Slots - 1) * Interval
<1>1. CASE Collect \/ Test \/ Delete \/ Stop \/ Tick \/ UNCHANGED detectorVars
  <2>1. UNCHANGED <<lastTick, slotIdx, watched, home, place, began, counted>>
    BY <1>1 DEF Collect, Test, Passed, Spared, Delete, Stop, Tick, detectorVars, ringVars, watch
  <2> QED  BY <2>1 DEF WindowInv, Behind
<1> QED  BY <1>1, WindowAccess DEF DetectorNext

LEMMA WindowInvariant == DetectorSpec => []WindowInv
<1>1. DetectorInit => WindowInv  BY DEF DetectorInit, WindowInv
<1>2. DetectorOK /\ WindowInv /\ [DetectorNext]_detectorVars => WindowInv'  BY WindowStep
<1> QED  BY <1>1, <1>2, TypeCorrect, PTL DEF DetectorSpec

\* A ring counts nothing older than the stretched window: what advance drops
\* of the elapsed time adds up to less than another window.
THEOREM NoOverCount == DetectorSpec => []OldForgotten
<1>1. DetectorOK /\ WindowInv => OldForgotten
  <2> SUFFICES ASSUME DetectorOK, WindowInv, place # Nowhere
               PROVE  lastTick[home] <= counted + Stretch
    BY DEF OldForgotten
  <2> DEFINE b == Behind(home, place)
  <2>1. home \in Rings /\ place \in SlotIndex  BY DEF DetectorOK
  <2>2. b \in 0..Slots-1  BY <2>1, BehindBound
  <2>3. lastTick[home] <= counted + b * (2 * Interval - 1)  BY DEF WindowInv
  <2>4. /\ lastTick[home] \in Nat /\ counted \in Nat
        /\ Interval \in Nat \ {0} /\ Slots \in Nat \ {0}
    BY <2>1, HotKeyAssumption DEF DetectorOK
  <2> HIDE DEF b
  <2>5. b * (2 * Interval - 1) <= (Slots - 1) * (2 * Interval - 1)
    <3>1. 2 * Interval - 1 \in Nat  BY <2>4, SMT
    <3>2. \A x \in Nat, y \in Nat, z \in Nat : x <= y => x * z <= y * z  BY SMT
    <3> QED  BY <2>2, <2>4, <3>1, <3>2
  <2>6. b * (2 * Interval - 1) \in Int /\ (Slots - 1) * (2 * Interval - 1) \in Int
    BY <2>2, <2>4, SMT
  <2> QED  BY <2>3, <2>4, <2>5, <2>6, SMT DEF Stretch
<1> QED  BY <1>1, TypeCorrect, WindowInvariant, PTL

\* A ring that counts an access clears it only more than Slots - 1 intervals
\* after the access began, whatever time passed between its steps.
THEOREM NoUnderCount == DetectorSpec => RecentCounted
<1>1. DetectorOK /\ WindowInv /\ [DetectorNext]_detectorVars
        => [place # Nowhere /\ place' = Nowhere /\ ring' = ring
              => now > began + (Slots - 1) * Interval]_detectorVars
  BY WindowStep
<1> QED  BY <1>1, TypeCorrect, WindowInvariant, PTL DEF DetectorSpec, RecentCounted

-----------------------------------------------------------------------------
(* cleanup.                                                                *)

\* SinceTest, and that whoever has counted since the test is past its inc and
\* cannot come back to it while the map is locked.
TestInv ==
    /\ SinceTest
    /\ cleaner = "remove" =>
          \A i \in SlotIndex : \A a \in late[i] : pc[a] \in {"sum", "mark", "idle"}
    /\ cleaner # "remove" => late = Nobody

\* One more goroutine.
LEMMA OneMore ==
    ASSUME NEW S \in SUBSET Accessors, NEW a \in Accessors, a \notin S
    PROVE  /\ Cardinality(S) \in Nat
           /\ Cardinality(S \cup {a}) = Cardinality(S) + 1
<1>1. IsFiniteSet(S)  BY HotKeyAssumption, FS_Subset
<1>2. Cardinality(S) \in Nat  BY <1>1, FS_CardinalityType
<1>3. Cardinality(S \cup {a}) = Cardinality(S) + 1  BY <1>1, FS_AddElement
<1> QED  BY <1>2, <1>3

LEMMA LateNat ==
    ASSUME DetectorOK, NEW i \in SlotIndex
    PROVE  Cardinality(late[i]) \in Nat
<1>1. late[i] \in SUBSET Accessors  BY DEF DetectorOK
<1>2. IsFiniteSet(late[i])  BY <1>1, HotKeyAssumption, FS_Subset
<1> QED  BY <1>2, FS_CardinalityType

\* Until cleanup is in its critical section there is nothing to keep.
LEMMA TestOpen ==
    ASSUME cleaner' # "remove", late' = Nobody
    PROVE  TestInv'
BY DEF TestInv, SinceTest

\* RecordAccess.
LEMMA TestAccess ==
    ASSUME DetectorOK, TestInv, NEW a \in Accessors, Lookup(a) \/ Serve(a)
    PROVE  TestInv'
<1> USE DEF mapVars, ringVars, callVars, watch, test, Goto
<1>1. CASE Lookup(a) \/ Create(a) \/ Mark(a)
  BY <1>1, TestOpen DEF Lookup, Create, Mark, MapFree, TestInv
<1>2. CASE Sum(a)
  <2>1. UNCHANGED <<ring, counters, cleaner, seen, late>>
    BY <1>2 DEF Sum
  <2>2. \A b \in Accessors : pc'[b] = pc[b] \/ pc'[b] \in {"mark", "idle"}
    BY <1>2 DEF Sum, DetectorOK
  <2>3. \A i \in SlotIndex : late[i] \subseteq Accessors  BY DEF DetectorOK
  <2> QED  BY <2>1, <2>2, <2>3 DEF TestInv, SinceTest
<1>3. CASE Advance(a)
  <2>1. UNCHANGED <<ring, cleaner, seen, late>>  BY <1>3 DEF Advance
  <2>2. CASE cleaner # "remove"  BY <2>1, <2>2, TestOpen DEF TestInv
  <2>3. CASE cleaner = "remove"
    <3>1. mine[a] \in Rings /\ advance(mine[a])  BY <1>3 DEF Advance, DetectorOK
    <3>2. ring \in Rings  BY <2>3 DEF DetectorOK
    <3>3. /\ \A t \in Rings \ {mine[a]} : counters'[t] = counters[t]
          /\ \A i \in SlotIndex : counters'[mine[a]][i] \in {0, counters[mine[a]][i]}
      BY <3>1, TypeAdvance
    <3>4. ASSUME NEW i \in SlotIndex
          PROVE  counters'[ring][i] <= seen[i] + Cardinality(late[i])
      <4>1. counters'[ring][i] \in {0, counters[ring][i]}  BY <3>2, <3>3
      <4>2. counters[ring][i] \in Nat /\ seen[i] \in Nat  BY <3>2 DEF DetectorOK
      <4>3. Cardinality(late[i]) \in Nat  BY LateNat
      <4>4. counters[ring][i] <= seen[i] + Cardinality(late[i])
        BY <2>3 DEF TestInv, SinceTest
      <4> QED  BY <4>1, <4>2, <4>3, <4>4
    <3>5. \A b \in Accessors : pc'[b] = pc[b] \/ b = a  BY <1>3 DEF Advance, DetectorOK
    <3>6. \A i \in SlotIndex : late[i] \subseteq Accessors /\ a \notin late[i]
      BY <1>3, <2>3 DEF Advance, DetectorOK, TestInv
    <3> QED  BY <2>1, <2>3, <3>4, <3>5, <3>6 DEF TestInv, SinceTest
  <2> QED  BY <2>2, <2>3
<1>4. CASE Inc(a)
  <2>1. UNCHANGED <<ring, slotIdx, cleaner, seen>>  BY <1>4 DEF Inc
  <2>2. CASE cleaner # "remove"
    <3>1. late' = late  BY <1>4, <2>2 DEF Inc
    <3> QED  BY <2>1, <2>2, <3>1, TestOpen DEF TestInv
  <2>3. CASE cleaner = "remove"
    <3> DEFINE s == mine[a]
    <3> DEFINE k == slotIdx[s]
    <3>1. s \in Rings /\ k \in SlotIndex /\ ring \in Rings
      BY <1>4, <2>3 DEF Inc, DetectorOK
    <3>2. counters' = [counters EXCEPT ![s][k] = counters[s][k] + 1]  BY <1>4 DEF Inc
    <3>3. pc[a] = "inc" /\ pc' = [pc EXCEPT ![a] = "sum"]  BY <1>4 DEF Inc
    <3>4. \A i \in SlotIndex : late[i] \subseteq Accessors /\ a \notin late[i]
      BY <2>3, <3>3 DEF DetectorOK, TestInv
    <3>5. pc'[a] = "sum" /\ \A b \in Accessors \ {a} : pc'[b] = pc[b]
      BY <3>3 DEF DetectorOK
    <3>6. late' = IF s = ring THEN [late EXCEPT ![k] = late[k] \cup {a}] ELSE late
      BY <1>4, <2>3 DEF Inc
    <3> HIDE DEF s, k
    <3>7. CASE s # ring
      <4>1. counters'[ring] = counters[ring]  BY <3>1, <3>2, <3>7 DEF DetectorOK
      <4>2. late' = late  BY <3>6, <3>7
      <4> QED  BY <2>1, <2>3, <3>4, <3>5, <4>1, <4>2 DEF TestInv, SinceTest
    <3>8. CASE s = ring
      <4>1. late' = [late EXCEPT ![k] = late[k] \cup {a}]  BY <3>6, <3>8
      <4>2. \A i \in SlotIndex : late'[i] = IF i = k THEN late[k] \cup {a} ELSE late[i]
        BY <3>1, <4>1 DEF DetectorOK
      <4>3. \A i \in SlotIndex :
               counters'[ring][i] = IF i = k THEN counters[ring][k] + 1 ELSE counters[ring][i]
        BY <3>1, <3>2, <3>8 DEF DetectorOK
      <4>4. ASSUME NEW i \in SlotIndex
            PROVE  counters'[ring][i] <= seen[i] + Cardinality(late'[i])
        <5>1. counters[ring][i] \in Nat /\ seen[i] \in Nat  BY <3>1 DEF DetectorOK
        <5>2. counters[ring][i] <= seen[i] + Cardinality(late[i])
          BY <2>3 DEF TestInv, SinceTest
        <5>3. CASE i # k  BY <4>2, <4>3, <5>2, <5>3
        <5>4. CASE i = k
          <6>1. /\ Cardinality(late[i]) \in Nat
                /\ Cardinality(late[i] \cup {a}) = Cardinality(late[i]) + 1
            BY <3>4, OneMore
          <6>2. late'[i] = late[i] \cup {a} /\ counters'[ring][i] = counters[ring][i] + 1
            BY <4>2, <4>3, <5>4
          <6> QED  BY <5>1, <5>2, <6>1, <6>2
        <5> QED  BY <5>3, <5>4
      <4>5. \A i, j \in SlotIndex : i # j => late[i] \cap late[j] = {}
        BY <2>3 DEF TestInv, SinceTest
      <4>6. \A i, j \in SlotIndex : i # j => late'[i] \cap late'[j] = {}
        BY <3>4, <4>2, <4>5
      <4>7. \A i \in SlotIndex : \A b \in late'[i] : pc'[b] \in {"sum", "mark", "idle"}
        <5>1. \A i \in SlotIndex : \A b \in late[i] : pc[b] \in {"sum", "mark", "idle"}
          BY <2>3 DEF TestInv
        <5> QED  BY <3>4, <3>5, <4>2, <5>1
      <4>8. SumFunction(seen) <= Low  BY <2>3 DEF TestInv, SinceTest
      <4> QED  BY <2>1, <2>3, <4>4, <4>6, <4>7, <4>8 DEF TestInv, SinceTest
    <3> QED  BY <3>7, <3>8
  <2> QED  BY <2>2, <2>3
<1> QED  BY <1>1, <1>2, <1>3, <1>4 DEF Serve

LEMMA TestStep == DetectorOK /\ TestInv /\ [DetectorNext]_detectorVars => TestInv'
<1> SUFFICES ASSUME DetectorOK, TestInv, [DetectorNext]_detectorVars PROVE TestInv'
  OBVIOUS
<1> USE DEF mapVars, ringVars, callVars, watch, test
<1>1. ASSUME NEW a \in Accessors, Lookup(a) \/ Serve(a) PROVE TestInv'
  BY <1>1, TestAccess
<1>2. CASE Collect \/ Stop  BY <1>2, TestOpen DEF Collect, Stop, TestInv
<1>3. CASE Test
  <2>1. cleaner = "delete" /\ late' = late /\ late = Nobody /\ UNCHANGED <<ring, counters, pc>>
    BY <1>3 DEF Test, Passed, Spared, TestInv
  <2>2. CASE ~(ring # None /\ sum(ring) <= Low)
    BY <1>3, <2>1, <2>2, TestOpen DEF Test, Spared
  <2>3. CASE ring # None /\ sum(ring) <= Low
    <3>1. seen' = counters[ring] /\ cleaner' = "remove"  BY <1>3, <2>3 DEF Test, Passed
    <3>2. ring \in Rings  BY <2>3 DEF DetectorOK
    <3>3. \A i \in SlotIndex : late'[i] = {} /\ counters[ring][i] \in Nat
      BY <2>1, <3>2 DEF Nobody, DetectorOK
    <3>4. Cardinality({}) = 0  BY FS_EmptySet
    <3>5. \A i \in SlotIndex : counters'[ring'][i] <= seen'[i] + Cardinality(late'[i])
      BY <2>1, <3>1, <3>3, <3>4
    <3>6. SumFunction(seen') <= Low  BY <2>3, <3>1 DEF sum
    <3> QED  BY <3>1, <3>3, <3>5, <3>6 DEF TestInv, SinceTest
  <2> QED  BY <2>2, <2>3
<1>4. CASE Delete  BY <1>4, TestOpen DEF Delete
<1>5. CASE Tick \/ UNCHANGED detectorVars
  <2>1. UNCHANGED <<ring, counters, pc, cleaner, seen, late>>
    BY <1>5 DEF Tick, detectorVars
  <2> QED  BY <2>1 DEF TestInv, SinceTest
<1> QED  BY <1>1, <1>2, <1>3, <1>4, <1>5 DEF DetectorNext

LEMMA TestInvariant == DetectorSpec => []TestInv
<1>1. DetectorInit => TestInv  BY DEF DetectorInit, TestInv, SinceTest
<1> QED  BY <1>1, TestStep, TypeCorrect, PTL DEF DetectorSpec

\* Racing first accesses create one ring, and a ring leaves the map only if it
\* counted little when cleanup tested it under the map's lock; what it counts more
\* when it goes are single accesses of goroutines that had looked it up before.
THEOREM RingKept == DetectorSpec => BusyRingStays
<1>1. DetectorOK /\ TestInv /\ [DetectorNext]_detectorVars
        => [ring # None /\ ring' # ring
              => ring' = None /\ cleaner = "remove" /\ SinceTest]_detectorVars
  <2> SUFFICES ASSUME TestInv, [DetectorNext]_detectorVars, ring # None, ring' # ring
               PROVE  ring' = None /\ cleaner = "remove" /\ SinceTest
    OBVIOUS
  <2>1. ASSUME NEW a \in Accessors, Lookup(a) \/ Serve(a) PROVE FALSE
    BY <2>1 DEF Serve, Lookup, Create, Advance, Inc, Sum, Mark, mapVars
  <2>2. CASE Delete  BY <2>2 DEF Delete, TestInv
  <2>3. CASE Collect \/ Test \/ Stop \/ Tick \/ UNCHANGED detectorVars
    BY <2>3 DEF Collect, Test, Stop, Tick, detectorVars, mapVars
  <2> QED  BY <2>1, <2>2, <2>3 DEF DetectorNext
<1> QED  BY <1>1, TypeCorrect, TestInvariant, PTL DEF DetectorSpec, BusyRingStays
=============================================================================
