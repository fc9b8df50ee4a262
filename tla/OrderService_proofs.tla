------------------------ MODULE OrderService_proofs ------------------------
(***************************************************************************)
(* Order numbers, rows, answers and locks, for any number of orders, users *)
(* and processes and any period of the sequence.                           *)
(***************************************************************************)
EXTENDS OrderService, TLAPS

-----------------------------------------------------------------------------
(* Arithmetic: what fixed-width digits determine.                          *)

\* Multiplication is strictly monotonic.
LEMMA OneMore ==
    ASSUME NEW M \in Nat \ {0}, NEW a \in Nat, NEW c \in Nat, a < c
    PROVE  M * c >= M * a + M
<1>1. c >= a + 1  OBVIOUS
<1>2. M * c >= M * (a + 1)  BY <1>1, SMT
<1>3. M * (a + 1) = M * a + M  BY SMT
<1> QED  BY <1>2, <1>3, SMT

\* A numeral with digits b below M determines b and what stands before it.
LEMMA Digits ==
    ASSUME NEW M \in Nat \ {0}, NEW a \in Nat, NEW c \in Nat,
           NEW b \in 0..M-1, NEW d \in 0..M-1, a * M + b = c * M + d
    PROVE  a = c /\ b = d
<1>1. CASE a < c
  <2>1. M * c >= M * a + M  BY <1>1, OneMore
  <2> QED  BY <2>1, SMT
<1>2. CASE c < a
  <2>1. M * a >= M * c + M  BY <1>2, OneMore
  <2> QED  BY <2>1, SMT
<1>3. CASE a = c  BY <1>3, SMT
<1> QED  BY <1>1, <1>2, <1>3, SMT

\* Two numbers with the same remainder are equal or a whole period apart.
LEMMA PeriodApart ==
    ASSUME NEW M \in Nat \ {0}, NEW x \in Nat, NEW y \in Nat, x < y, x % M = y % M
    PROVE  y - x >= M
<1>1. x = (M * (x \div M)) + (x % M) /\ x \div M \in Nat  BY SMT
<1>2. y = (M * (y \div M)) + (y % M) /\ y \div M \in Nat  BY SMT
<1>3. x \div M < y \div M
  <2>1. SUFFICES ASSUME x \div M >= y \div M PROVE FALSE  BY <1>1, <1>2, SMT
  <2>2. CASE x \div M = y \div M  BY <1>1, <1>2, <2>2, SMT
  <2>3. CASE y \div M < x \div M
    <3>1. M * (x \div M) >= (M * (y \div M)) + M  BY <1>1, <1>2, <2>3, OneMore
    <3> QED  BY <1>1, <1>2, <3>1, SMT
  <2> QED  BY <1>1, <1>2, <2>1, <2>2, <2>3, SMT
<1>4. M * (y \div M) >= (M * (x \div M)) + M  BY <1>1, <1>2, <1>3, OneMore
<1> QED  BY <1>1, <1>2, <1>4, SMT

LEMMA Remainder ==
    ASSUME NEW M \in Nat \ {0}, NEW x \in Nat
    PROVE  x % M \in 0..M-1
BY SMT

-----------------------------------------------------------------------------
(* Order numbers.                                                          *)

\* Every order has a number the table can hold.
LEMMA NumberIsNumber ==
    ASSUME TypeOK, NEW o \in Orders
    PROVE  Number(o) \in Numbers
<1>1. raw[o] % SeqMod \in 0..SeqMod-1
  BY OrderAssumption, Remainder DEF TypeOK
<1>2. rand[ProcOf[o]] \in 0..RandMod-1
  BY OrderAssumption DEF TypeOK
<1> QED  BY <1>1, <1>2 DEF Number, Numbers

\* A number determines the user, the digits of the sequence and of the process.
LEMMA NumberDetermines ==
    ASSUME TypeOK, NEW a \in Orders, NEW b \in Orders, Number(a) = Number(b)
    PROVE  /\ UserOf[a] = UserOf[b]
           /\ raw[a] % SeqMod = raw[b] % SeqMod
           /\ rand[ProcOf[a]] = rand[ProcOf[b]]
<1> DEFINE s(o) == raw[o] % SeqMod
<1> DEFINE r(o) == rand[ProcOf[o]]
<1> DEFINE high(o) == UserOf[o] * SeqMod + s(o)
<1>1. \A o \in Orders : s(o) \in 0..SeqMod-1
  BY OrderAssumption, Remainder DEF TypeOK
<1>2. \A o \in Orders : r(o) \in 0..RandMod-1
  BY OrderAssumption DEF TypeOK
<1>3. \A o \in Orders : UserOf[o] \in Nat /\ SeqMod \in Nat \ {0} /\ RandMod \in Nat \ {0}
  BY OrderAssumption
<1>4. high(a) * RandMod + r(a) = high(b) * RandMod + r(b)
  BY DEF Number, OrderNo
<1> HIDE DEF s, r
<1>5. high(a) \in Nat /\ high(b) \in Nat
  BY <1>1, <1>3, SMT
<1> HIDE DEF high
<1>6. high(a) = high(b) /\ r(a) = r(b)
  <2>1. r(a) \in 0..RandMod-1 /\ r(b) \in 0..RandMod-1  BY <1>2
  <2> QED  BY <1>3, <1>4, <1>5, <2>1, Digits
<1>7. UserOf[a] * SeqMod + s(a) = UserOf[b] * SeqMod + s(b)
  BY <1>6 DEF high
<1>8. UserOf[a] = UserOf[b] /\ s(a) = s(b)
  <2>1. s(a) \in 0..SeqMod-1 /\ s(b) \in 0..SeqMod-1  BY <1>1
  <2> QED  BY <1>3, <1>7, <2>1, Digits
<1> QED  BY <1>6, <1>8 DEF s, r

\* A numbered order keeps its number.
LEMMA NumbersStay ==
    ASSUME TypeOK, [Next]_vars, NEW o \in Orders, Numbered(o)
    PROVE  Numbered(o)' /\ Number(o)' = Number(o)
<1>1. rand' = rand /\ raw'[o] = raw[o] /\ pc'[o] # "new"
  BY DEF TypeOK, Next, vars, Numbered, CreateOrder, CreateOrderForceSync, generateOrderNo,
         Goto, RequestStep, LockOK, LockFailed, WriteOK, WriteFailed, AfterWrite,
         UnlockAndAnswer, SendOK, SendFailed, SendAsync, HandleOrderEvent, HandleFailed, ExpireLock,
         Crash, numbering, requests, kafka, consumed, fixed
<1> QED  BY <1>1 DEF Numbered, Number

\* The upsert, if the rows are owned.
LEMMA UpsertOwns ==
    ASSUME TypeOK, RowsOwn, NEW o \in Orders, Numbered(o)
    PROVE  /\ Upserted(o) \in [Numbers -> [user : Nat, order : Orders \cup {NoOrder}]]
           /\ \A n \in Numbers : n # Number(o) => Upserted(o)[n] = rows[n]
           /\ Upserted(o)[Number(o)] = [user |-> UserOf[o], order |-> o]
<1> DEFINE n == Number(o)
<1>1. n \in Numbers  BY NumberIsNumber
<1>2. ASSUME rows[n] # NoRow PROVE rows[n].user = UserOf[o]
  BY <1>1, <1>2, NumberDetermines DEF RowsOwn
<1>3. UserOf[o] \in Nat  BY OrderAssumption
<1> HIDE DEF n
<1> QED  BY <1>1, <1>2, <1>3 DEF Upserted, TypeOK, n

-----------------------------------------------------------------------------
(* The invariant.                                                          *)

LEMMA InvInit == Init => Inv
<1> SUFFICES ASSUME Init PROVE Inv  OBVIOUS
<1>1. NoRow \in [user : Nat, order : Orders \cup {NoOrder}]  BY DEF NoRow
<1>2. TypeOK  BY <1>1, OrderAssumption DEF Init, LockInit, TypeOK, Numbered
<1>3. Decided /\ SeqAhead /\ RowsOwn /\ DecidedKept /\ LockProtects
  BY DEF Init, LockInit, Decided, SeqAhead, RowsOwn, DecidedKept, LockProtects, Numbered
<1> QED  BY <1>2, <1>3 DEF Inv

\* One step keeps the types.
LEMMA TypeStep ==
    ASSUME Inv, [Next]_vars
    PROVE  TypeOK'
<1> USE DEF Inv, TypeOK, Numbered, numbering, requests, kafka, consumed, fixed
<1>0. \A o \in Orders : Number(o) \in Numbers  BY NumberIsNumber
<1>a. 0..MaxFaults \subseteq Nat /\ (Fault => faults' \in 0..MaxFaults)
  BY OrderAssumption, SMT DEF Fault
<1>1. ASSUME NEW o \in Orders, CreateOrder(o) \/ CreateOrderForceSync(o) PROVE TypeOK'
  <2>1. PICK to \in {"lock", "send", "flock"} :
          pc[o] = "new" /\ pc' = [pc EXCEPT ![o] = to]
    BY <1>1 DEF CreateOrder, CreateOrderForceSync, Goto
  <2>2. ProcOf[o] \in Processes /\ seq[ProcOf[o]] \in Nat  BY OrderAssumption
  <2>3. seq' \in [Processes -> Nat] /\ raw' \in [Orders -> Nat]
    BY <1>1, <2>2 DEF CreateOrder, CreateOrderForceSync, generateOrderNo
  <2>4. UNCHANGED <<locked, outcome, kafka, rows, fixed, redis, expired, faults>>
    BY <1>1 DEF CreateOrder, CreateOrderForceSync
  <2> QED  BY <2>1, <2>3, <2>4
<1>2. ASSUME NEW o \in Orders, LockOK(o) PROVE TypeOK'
  BY <1>0, <1>2 DEF LockOK, Goto, SetNX
<1>3. ASSUME NEW o \in Orders, LockFailed(o) PROVE TypeOK'
  <2>1. redis' \in [Numbers -> Orders \cup {NoOrder}] /\ expired' = expired
    BY <1>0, <1>3 DEF LockFailed, Timeout, LockError, SetNX
  <2>2. faults' \in 0..MaxFaults
    BY <1>3, <1>a DEF LockFailed, NoFault
  <2> QED  BY <1>3, <2>1, <2>2 DEF LockFailed, Goto
<1>4. ASSUME NEW o \in Orders, WriteOK(o) PROVE TypeOK'
  <2>1. rows' \in [Numbers -> [user : Nat, order : Orders \cup {NoOrder}]]
    BY <1>4, UpsertOwns DEF WriteOK, AfterWrite, Goto
  <2> QED  BY <1>4, <2>1 DEF WriteOK, AfterWrite, Goto
<1>5. ASSUME NEW o \in Orders, WriteFailed(o) PROVE TypeOK'
  <2>1. rows' \in [Numbers -> [user : Nat, order : Orders \cup {NoOrder}]]
    <3>1. Numbered(o)  BY <1>5 DEF WriteFailed, AfterWrite, Goto
    <3>2. Upserted(o) \in [Numbers -> [user : Nat, order : Orders \cup {NoOrder}]]
      BY <3>1, UpsertOwns
    <3> QED  BY <1>5, <3>2 DEF WriteFailed
  <2> QED  BY <1>5, <1>a, <2>1 DEF WriteFailed, AfterWrite, Goto
<1>6. ASSUME NEW o \in Orders, UnlockAndAnswer(o) PROVE TypeOK'
  <2>1. redis' \in [Numbers -> Orders \cup {NoOrder}] /\ expired' = expired
    BY <1>0, <1>6 DEF UnlockAndAnswer, Unlock, UnlockError
  <2>2. faults' \in 0..MaxFaults
    BY <1>6, <1>a DEF UnlockAndAnswer, NoFault
  <2>3. outcome[o] # "none"
    BY <1>6 DEF UnlockAndAnswer, Goto, Decided
  <2> QED  BY <1>6, <2>1, <2>2, <2>3 DEF UnlockAndAnswer, Goto
<1>7. ASSUME NEW o \in Orders, SendOK(o) \/ SendFailed(o) PROVE TypeOK'
  BY <1>7, <1>a DEF SendOK, SendFailed, Goto
<1>8. ASSUME NEW o \in Orders, SendAsync(o) PROVE TypeOK'
  BY <1>8, <1>a DEF SendAsync, NoFault
<1>9. ASSUME NEW o \in Orders, HandleOrderEvent(o) PROVE TypeOK'
  <2>1. rows' \in [Numbers -> [user : Nat, order : Orders \cup {NoOrder}]]
    BY <1>9, UpsertOwns DEF HandleOrderEvent
  <2> QED  BY <1>9, <2>1 DEF HandleOrderEvent
<1>13. ASSUME NEW o \in Orders, HandleFailed(o) PROVE TypeOK'
  <2>1. rows' \in [Numbers -> [user : Nat, order : Orders \cup {NoOrder}]]
    <3>1. Numbered(o)  BY <1>13 DEF HandleFailed
    <3>2. Upserted(o) \in [Numbers -> [user : Nat, order : Orders \cup {NoOrder}]]
      BY <3>1, UpsertOwns
    <3> QED  BY <1>13, <3>2 DEF HandleFailed
  <2>2. faults' \in 0..MaxFaults  BY <1>13, <1>a DEF HandleFailed
  <2>3. events' \cup dead' \cup passed' \subseteq events \cup dead \cup passed
    BY <1>13 DEF HandleFailed
  <2> QED  BY <1>13, <2>1, <2>2, <2>3 DEF HandleFailed
<1>10. ASSUME NEW n \in Numbers, ExpireLock(n) PROVE TypeOK'
  BY <1>10 DEF ExpireLock, Expire, Taken
<1>11. ASSUME NEW p \in Processes, Crash(p) PROVE TypeOK'
  BY <1>11, <1>a DEF Crash
<1>12. CASE UNCHANGED vars  BY <1>12 DEF vars
<1> QED
  BY <1>1, <1>2, <1>3, <1>4, <1>5, <1>6, <1>7, <1>8, <1>9, <1>10, <1>11, <1>12, <1>13
     DEF Next, RequestStep

\* One step keeps the sequence ahead of the values it has given out.
LEMMA SeqStep ==
    ASSUME Inv, [Next]_vars
    PROVE  SeqAhead'
<1> USE DEF Inv, TypeOK, SeqAhead, Numbered, numbering, requests, kafka, consumed, fixed
<1>1. ASSUME NEW o \in Orders, CreateOrder(o) \/ CreateOrderForceSync(o) PROVE SeqAhead'
  <2>1. pc[o] = "new" /\ \A q \in Orders \ {o} : pc'[q] = pc[q] /\ raw'[q] = raw[q]
    BY <1>1 DEF CreateOrder, CreateOrderForceSync, Goto, generateOrderNo
  <2>2. /\ raw'[o] = seq[ProcOf[o]] + 1 /\ seq'[ProcOf[o]] = seq[ProcOf[o]] + 1
        /\ \A p \in Processes : seq'[p] >= seq[p] /\ seq'[p] \in Nat /\ seq[p] \in Nat
    BY <1>1, OrderAssumption DEF CreateOrder, CreateOrderForceSync, generateOrderNo
  <2>3. \A q \in Orders : ProcOf[q] \in Processes /\ raw[q] \in Nat  BY OrderAssumption
  <2> QED  BY <2>1, <2>2, <2>3
<1>2. ASSUME UNCHANGED <<seq, raw>>, \A q \in Orders : pc'[q] # "new" => pc[q] # "new"
      PROVE SeqAhead'
  BY <1>2
<1>3. CASE \E o \in Orders : RequestStep(o)
  BY <1>2, <1>3 DEF RequestStep, LockOK, LockFailed, WriteOK, WriteFailed, AfterWrite,
                    UnlockAndAnswer, SendOK, SendFailed, Goto
<1>4. CASE \/ \E o \in Orders : SendAsync(o) \/ HandleOrderEvent(o) \/ HandleFailed(o)
           \/ \E n \in Numbers : ExpireLock(n)
           \/ \E p \in Processes : Crash(p)
           \/ UNCHANGED vars
  BY <1>2, <1>4 DEF SendAsync, HandleOrderEvent, HandleFailed, ExpireLock, Crash, vars
<1> QED  BY <1>1, <1>3, <1>4 DEF Next

\* One step leaves no request undecided when it releases its lock.
LEMMA DecidedStep ==
    ASSUME Inv, [Next]_vars
    PROVE  Decided'
<1> USE DEF Inv, TypeOK, Decided, numbering, requests, kafka, consumed, fixed
<1>1. CASE \E o \in Orders : CreateOrder(o) \/ CreateOrderForceSync(o)
  BY <1>1 DEF CreateOrder, CreateOrderForceSync, Goto
<1>2. CASE \E o \in Orders : RequestStep(o)
  BY <1>2 DEF RequestStep, LockOK, LockFailed, WriteOK, WriteFailed, AfterWrite,
              UnlockAndAnswer, SendOK, SendFailed, Goto
<1>3. CASE \/ \E o \in Orders : SendAsync(o) \/ HandleOrderEvent(o) \/ HandleFailed(o)
           \/ \E n \in Numbers : ExpireLock(n)
           \/ \E p \in Processes : Crash(p)
           \/ UNCHANGED vars
  BY <1>3 DEF SendAsync, HandleOrderEvent, HandleFailed, ExpireLock, Crash, vars
<1> QED  BY <1>1, <1>2, <1>3 DEF Next

\* What a step does to the table: nothing, or the upsert of a numbered order.
LEMMA RowsChange ==
    ASSUME Inv, [Next]_vars
    PROVE  rows' = rows \/ \E o \in Orders : Numbered(o) /\ rows' = Upserted(o)
<1> USE DEF Inv, TypeOK, Numbered, numbering, requests, kafka, consumed, fixed
<1>1. CASE \E o \in Orders : CreateOrder(o) \/ CreateOrderForceSync(o)
  BY <1>1 DEF CreateOrder, CreateOrderForceSync
<1>2. CASE \E o \in Orders : RequestStep(o)
  BY <1>2 DEF RequestStep, LockOK, LockFailed, WriteOK, WriteFailed, AfterWrite,
              UnlockAndAnswer, SendOK, SendFailed, Goto
<1>3. CASE \/ \E o \in Orders : SendAsync(o) \/ HandleOrderEvent(o) \/ HandleFailed(o)
           \/ \E n \in Numbers : ExpireLock(n)
           \/ \E p \in Processes : Crash(p)
           \/ UNCHANGED vars
  BY <1>3 DEF SendAsync, HandleOrderEvent, HandleFailed, ExpireLock, Crash, vars
<1> QED  BY <1>1, <1>2, <1>3 DEF Next

\* One step leaves every row with an order of its number and its user.
LEMMA RowsStep ==
    ASSUME Inv, [Next]_vars
    PROVE  RowsOwn'
<1> SUFFICES ASSUME NEW n \in Numbers, rows'[n] # NoRow
             PROVE  \E o \in Orders : /\ rows'[n].order = o /\ rows'[n].user = UserOf[o]
                                      /\ Numbered(o)' /\ Number(o)' = n
  BY DEF RowsOwn, NoRow, Numbers, OrderNo
<1> USE DEF Inv
<1>1. CASE rows'[n] = rows[n]
  <2>1. PICK o \in Orders : o = rows[n].order /\ Numbered(o) /\ Number(o) = n
                            /\ rows[n].user = UserOf[o]
    BY <1>1 DEF RowsOwn
  <2>2. Numbered(o)' /\ Number(o)' = n  BY <2>1, NumbersStay
  <2> QED  BY <1>1, <2>1, <2>2
<1>2. CASE rows'[n] # rows[n]
  <2>1. PICK o \in Orders : Numbered(o) /\ rows' = Upserted(o)  BY <1>2, RowsChange
  <2>2. n = Number(o) /\ rows'[n] = [user |-> UserOf[o], order |-> o]
    BY <1>2, <2>1, UpsertOwns
  <2>3. Numbered(o)' /\ Number(o)' = n  BY <2>1, <2>2, NumbersStay
  <2> QED  BY <2>2, <2>3
<1> QED  BY <1>1, <1>2

\* A row changes hands only between orders of one number.
LEMMA StoredStays ==
    ASSUME Inv, [Next]_vars, NEW o \in Orders, Numbered(o), Stored(o)
    PROVE  Stored(o)'
<1> USE DEF Inv
<1>0. Numbered(o)' /\ Number(o)' = Number(o) /\ Number(o) \in Numbers
  BY NumbersStay, NumberIsNumber
<1>1. CASE \E q \in Orders \ {o} : SameNumber(o, q)
  <2>1. PICK q \in Orders \ {o} : SameNumber(o, q)  BY <1>1
  <2>2. Numbered(q)' /\ Number(q)' = Number(q)  BY <2>1, NumbersStay DEF SameNumber
  <2> QED  BY <1>0, <2>1, <2>2 DEF Stored, SameNumber
<1>2. CASE RowOf(o).order = o
  <2>1. CASE rows' = rows  BY <1>0, <1>2, <2>1 DEF Stored, RowOf
  <2>2. ASSUME NEW q \in Orders, Numbered(q), rows' = Upserted(q) PROVE Stored(o)'
    <3>0. Numbered(q)' /\ Number(q)' = Number(q)  BY <2>2, NumbersStay
    <3>1. CASE q = o \/ Number(q) # Number(o)
      <4>0. /\ \A n \in Numbers : n # Number(q) => Upserted(q)[n] = rows[n]
            /\ Upserted(q)[Number(q)] = [user |-> UserOf[q], order |-> q]
        BY <2>2, UpsertOwns
      <4>1. rows'[Number(o)].order = o
        BY <1>0, <1>2, <2>2, <3>1, <4>0 DEF RowOf
      <4> QED  BY <1>0, <4>1 DEF Stored, RowOf
    <3>2. CASE q # o /\ Number(q) = Number(o)
      BY <1>0, <3>0, <3>2 DEF Stored, SameNumber
    <3> QED  BY <3>1, <3>2
  <2> QED  BY <2>1, <2>2, RowsChange
<1> QED  BY <1>1, <1>2 DEF Stored

\* An order whose row is written is stored.
LEMMA UpsertStores ==
    ASSUME Inv, [Next]_vars, NEW o \in Orders, Numbered(o), rows' = Upserted(o)
    PROVE  Stored(o)'
<1>1. Number(o)' = Number(o)  BY NumbersStay DEF Inv
<1>2. rows'[Number(o)] = [user |-> UserOf[o], order |-> o]  BY UpsertOwns DEF Inv
<1> QED  BY <1>1, <1>2 DEF Stored, RowOf

\* A step loses nothing that is kept: an event leaves Kafka for the table, for
\* the dead-letter topic, or because it is passed over.
LEMMA KeptStays ==
    ASSUME Inv, [Next]_vars, NEW o \in Orders, Numbered(o), Kept(o), outcome'[o] = outcome[o]
    PROVE  Kept(o)'
<1>1. CASE Stored(o)  BY <1>1, StoredStays DEF Kept
<1>2. CASE outcome[o] = "queued" /\ o \in events \cup dead \cup passed
  <2>1. o \in events' \cup dead' \cup passed' \/ HandleOrderEvent(o)
    BY <1>2 DEF Next, RequestStep, CreateOrder, CreateOrderForceSync, LockOK, LockFailed,
                WriteOK, WriteFailed, UnlockAndAnswer, SendOK, SendFailed, SendAsync,
                HandleOrderEvent, HandleFailed, ExpireLock, Crash, kafka, consumed, vars
  <2>2. CASE HandleOrderEvent(o)
    BY <2>2, UpsertStores DEF HandleOrderEvent, Kept
  <2> QED  BY <1>2, <2>1, <2>2 DEF Kept
<1> QED  BY <1>1, <1>2 DEF Kept

\* One step leaves every favourable outcome kept.
LEMMA DecidedKeptStep ==
    ASSUME Inv, [Next]_vars
    PROVE  DecidedKept'
<1> SUFFICES ASSUME NEW o \in Orders, outcome'[o] \in {"stored", "queued"}
             PROVE  Numbered(o)' /\ Kept(o)'
  BY DEF DecidedKept
<1> USE DEF Inv
<1>1. CASE outcome'[o] = outcome[o]
  BY <1>1, NumbersStay, KeptStays DEF DecidedKept
<1>2. CASE outcome'[o] # outcome[o]
  <2>1. WriteOK(o) \/ SendOK(o)
    BY <1>2 DEF TypeOK, Next, RequestStep, CreateOrder, CreateOrderForceSync, LockOK, LockFailed,
                WriteOK, WriteFailed, AfterWrite, UnlockAndAnswer, SendOK, SendFailed, SendAsync,
                HandleOrderEvent, HandleFailed, ExpireLock, Crash, requests, vars
  <2>2. Numbered(o)  BY <2>1 DEF WriteOK, AfterWrite, SendOK, Goto, Numbered
  <2>3. Numbered(o)' /\ Number(o)' = Number(o)  BY <2>2, NumbersStay
  <2>4. CASE WriteOK(o)
    <3>1. rows' = Upserted(o)  BY <2>4 DEF WriteOK
    <3> QED  BY <2>2, <2>3, <3>1, UpsertStores DEF Kept
  <2>5. CASE SendOK(o)  BY <2>3, <2>5 DEF SendOK, Kept, TypeOK
  <2> QED  BY <2>1, <2>4, <2>5
<1> QED  BY <1>1, <1>2

\* One step takes the lock of a writer away only by expiry.
LEMMA LockStep ==
    ASSUME Inv, [Next]_vars
    PROVE  LockProtects'
<1> SUFFICES ASSUME NEW o \in Orders, locked'[o], pc'[o] \in {"write", "unlock"}
             PROVE  redis'[Number(o)'] = o \/ o \in expired'
  BY DEF LockProtects
<1> USE DEF Inv, TypeOK, numbering, requests, kafka, consumed, fixed
<1>0. o # NoOrder /\ \A q \in Orders : Number(q) \in Numbers  BY OrderAssumption, NumberIsNumber
<1>1. CASE LockOK(o)
  <2>1. Numbered(o)  BY <1>1 DEF LockOK, Goto, Numbered
  <2>2. Number(o)' = Number(o)  BY <2>1, NumbersStay
  <2> QED  BY <1>0, <1>1, <2>2 DEF LockOK, SetNX
<1>2. CASE ~LockOK(o)
  <2>1. locked[o] /\ pc[o] \in {"write", "unlock"} /\ Numbered(o)
    BY <1>2 DEF Next, RequestStep, CreateOrder, CreateOrderForceSync, LockOK, LockFailed,
                WriteOK, WriteFailed, AfterWrite, UnlockAndAnswer, SendOK, SendFailed, SendAsync,
                HandleOrderEvent, HandleFailed, ExpireLock, Crash, vars, Goto, Numbered
  <2>2. Number(o)' = Number(o)  BY <2>1, NumbersStay
  <2>3. redis[Number(o)] = o \/ o \in expired  BY <2>1 DEF LockProtects
  <2>4. expired \subseteq expired'
    BY DEF Next, RequestStep, CreateOrder, CreateOrderForceSync, LockOK, LockFailed,
           WriteOK, WriteFailed, UnlockAndAnswer, SendOK, SendFailed, SendAsync,
           HandleOrderEvent, HandleFailed, ExpireLock, Crash, vars, SetNX, Timeout, LockError, Unlock,
           UnlockError, Expire
  <2>5. ASSUME redis[Number(o)] = o, redis'[Number(o)] # o PROVE o \in expired'
    <3>1. PICK q \in Orders : LockOK(q) \/ LockFailed(q) \/ UnlockAndAnswer(q)
                              \/ \E n \in Numbers : ExpireLock(n)
      BY <2>5 DEF Next, RequestStep, CreateOrder, CreateOrderForceSync,
                  WriteOK, WriteFailed, SendOK, SendFailed, SendAsync,
                  HandleOrderEvent, HandleFailed, Crash, vars
    <3>2. CASE LockOK(q) \/ LockFailed(q)
      BY <1>0, <2>5, <3>2 DEF LockOK, LockFailed, SetNX, Timeout, LockError, Taken
    <3>3. CASE UnlockAndAnswer(q)
      <4>1. q # o  BY <2>1, <3>3 DEF UnlockAndAnswer, Goto
      <4> QED  BY <1>0, <2>5, <3>3, <4>1 DEF UnlockAndAnswer, Unlock, UnlockError
    <3>4. CASE \E n \in Numbers : ExpireLock(n)
      BY <1>0, <2>5, <3>4 DEF ExpireLock, Expire
    <3> QED  BY <3>1, <3>2, <3>3, <3>4
  <2> QED  BY <2>2, <2>3, <2>4, <2>5
<1> QED  BY <1>1, <1>2

LEMMA InvStep == Inv /\ [Next]_vars => Inv'
BY TypeStep, DecidedStep, SeqStep, RowsStep, DecidedKeptStep, LockStep DEF Inv

\* The invariant holds in every reachable state.
THEOREM Invariant == Spec => []Inv
BY InvInit, InvStep, PTL DEF Spec

-----------------------------------------------------------------------------
(* The properties.                                                         *)

\* The state of the order service is well-formed.
THEOREM TypeCorrect == Spec => []TypeOK
<1>1. Inv => TypeOK  BY DEF Inv
<1> QED  BY Invariant, <1>1, PTL

\* Two orders share a number only if they are of one user and a whole period
\* of the sequence apart, or of processes with the same random digits.
THEOREM NumbersClashRarely == Spec => []NumbersClash
<1>1. Inv => NumbersClash
  <2> SUFFICES ASSUME Inv, NEW a \in Orders, NEW b \in Orders, a # b, SameNumber(a, b)
               PROVE  /\ UserOf[a] = UserOf[b]
                      /\ rand[ProcOf[a]] = rand[ProcOf[b]]
                      /\ ProcOf[a] = ProcOf[b] =>
                            raw[a] - raw[b] >= SeqMod \/ raw[b] - raw[a] >= SeqMod
    BY DEF NumbersClash
  <2>1. /\ UserOf[a] = UserOf[b] /\ rand[ProcOf[a]] = rand[ProcOf[b]]
        /\ raw[a] % SeqMod = raw[b] % SeqMod
    BY NumberDetermines DEF Inv, SameNumber
  <2>2. ASSUME ProcOf[a] = ProcOf[b]
        PROVE  raw[a] - raw[b] >= SeqMod \/ raw[b] - raw[a] >= SeqMod
    <3>1. raw[a] # raw[b]  BY <2>2 DEF Inv, SeqAhead, SameNumber
    <3>2. raw[a] \in Nat /\ raw[b] \in Nat /\ SeqMod \in Nat \ {0}
      BY OrderAssumption DEF Inv, TypeOK
    <3>3. CASE raw[a] < raw[b]  BY <2>1, <3>2, <3>3, PeriodApart
    <3>4. CASE raw[b] < raw[a]  BY <2>1, <3>2, <3>4, PeriodApart
    <3> QED  BY <3>1, <3>2, <3>3, <3>4, SMT
  <2> QED  BY <2>1, <2>2
<1> QED  BY Invariant, <1>1, PTL

\* No upsert gives one user's row another user's order.
THEOREM RowsStayWithTheirUser == Spec => []RowsKeepTheirUser
<1>1. Inv => RowsKeepTheirUser  BY DEF Inv, RowsOwn, RowsKeepTheirUser
<1> QED  BY Invariant, <1>1, PTL

\* An order answered as stored is in MySQL, one answered as queued is there, in
\* Kafka or in the dead-letter topic, whatever fails on its way, unless an order
\* of its number took the row or the consumer passed its event over.
THEOREM AnswersKept == Spec => []AnsweredKept
<1>1. Inv => AnsweredKept  BY DEF Inv, TypeOK, DecidedKept, AnsweredKept
<1> QED  BY Invariant, <1>1, PTL

\* A writer that got the lock has it until its TTL ends.
THEOREM LockHeld == Spec => []LockProtects
<1>1. Inv => LockProtects  BY DEF Inv
<1> QED  BY Invariant, <1>1, PTL

\* No request releases the lock of another, however late it is.
THEOREM OwnersRelease == Spec => OnlyOwnerReleases
<1>1. Inv /\ [Next]_vars => [LeavesOnlyBy(Releasing)]_vars
  <2> SUFFICES ASSUME Inv, [Next]_vars, NEW k \in Numbers, Taken(k), redis'[k] # redis[k]
               PROVE  redis[k] \in expired' \/ Releasing(redis[k])
    BY DEF LeavesOnlyBy
  <2> USE DEF Inv, TypeOK
  <2>1. PICK q \in Orders : LockOK(q) \/ LockFailed(q) \/ UnlockAndAnswer(q)
                            \/ \E n \in Numbers : ExpireLock(n)
    BY DEF Next, RequestStep, CreateOrder, CreateOrderForceSync,
           WriteOK, WriteFailed, SendOK, SendFailed, SendAsync,
           HandleOrderEvent, HandleFailed, Crash, vars, Taken
  <2>2. CASE LockOK(q) \/ LockFailed(q)
    BY <2>2, NumberIsNumber DEF LockOK, LockFailed, SetNX, Timeout, LockError, Taken
  <2>3. CASE UnlockAndAnswer(q)
    BY <2>3, NumberIsNumber DEF UnlockAndAnswer, Unlock, UnlockError, Releasing, Goto
  <2>4. CASE \E n \in Numbers : ExpireLock(n)
    BY <2>4 DEF ExpireLock, Expire
  <2> QED  BY <2>1, <2>2, <2>3, <2>4
<1> QED  BY Invariant, <1>1, PTL DEF Spec, OnlyOwnerReleases

-----------------------------------------------------------------------------
(* Consequences for a deployment.                                          *)

\* Two requests hold the lock of one number at a time only if a TTL has ended
\* (Lock, Unlock and the TTL of DistributedLock as createSync uses them).
THEOREM MutualExclusion == Spec => []OneWriterPerNumber
<1>1. Inv => OneWriterPerNumber
  BY DEF Inv, LockProtects, OneWriterPerNumber, Writing, SameNumber
<1> QED  BY Invariant, <1>1, PTL

\* Where processes differ in their random digits and stay within one period of the
\* sequence, an order answered as stored is in its own row, and a queued one is in
\* its own row, in Kafka or dead-lettered, unless the consumer passed it over.
THEOREM NothingOverwritten == Spec => []AnsweredStored
<1>1. Inv /\ NumbersClash => AnsweredStored
  <2> SUFFICES ASSUME Inv, NumbersClash, NumbersApart,
                      NEW o \in Orders, pc[o] = "done", outcome[o] # "failed"
               PROVE  \/ RowOf(o).order = o
                      \/ outcome[o] = "queued" /\ o \in events \cup dead \cup passed
    BY DEF AnsweredStored
  <2>1. Kept(o)
    BY DEF Inv, TypeOK, DecidedKept
  <2>2. ASSUME NEW q \in Orders \ {o}, SameNumber(o, q) PROVE FALSE
    <3>1. /\ rand[ProcOf[o]] = rand[ProcOf[q]]
          /\ ProcOf[o] = ProcOf[q] => raw[o] - raw[q] >= SeqMod \/ raw[q] - raw[o] >= SeqMod
      BY <2>2 DEF NumbersClash
    <3>2. ProcOf[o] \in Processes /\ ProcOf[q] \in Processes
      BY OrderAssumption
    <3>3. ProcOf[o] = ProcOf[q]
      BY <3>1, <3>2 DEF NumbersApart
    <3>4. raw[o] - raw[q] < SeqMod /\ raw[q] - raw[o] < SeqMod
      BY <2>2, <3>3 DEF NumbersApart, SameNumber
    <3>5. raw[o] \in Nat /\ raw[q] \in Nat /\ SeqMod \in Nat
      BY OrderAssumption DEF Inv, TypeOK
    <3> QED  BY <3>1, <3>3, <3>4, <3>5
  <2> QED  BY <2>1, <2>2 DEF Kept, Stored
<1> QED  BY Invariant, NumbersClashRarely, <1>1, PTL
=============================================================================
