------------------------ MODULE EventConsumer_proofs ------------------------
(***************************************************************************)
(* TLAPS proofs about EventConsumer, for any number of workers, orders,    *)
(* retries and restarts, and with every fault the model knows.             *)
(***************************************************************************)
EXTENDS EventConsumer, FiniteSetTheorems, SequenceTheorems, TLAPS

-----------------------------------------------------------------------------
(* Facts about the log.                                                    *)

\* What Send appends: some copies of one order.
LEMMA Copies ==
    ASSUME NEW o \in Orders, NEW n \in Nat
    PROVE  [i \in 1..n |-> o] \in Seq(Orders)
OBVIOUS

\* Appending keeps what was there.
LEMMA Appended ==
    ASSUME log \in Seq(Orders), NEW o \in Orders, NEW n \in Nat,
           log' = log \o [i \in 1..n |-> o]
    PROVE  /\ log' \in Seq(Orders)
           /\ Len(log) <= Len(log')
           /\ \A i \in 1..Len(log) : log'[i] = log[i]
<1> DEFINE s == [i \in 1..n |-> o]
<1>1. s \in Seq(Orders) /\ Len(s) \in Nat /\ Len(log) \in Nat
  BY Copies
<1> HIDE DEF s
<1>2. /\ log \o s \in Seq(Orders)
      /\ Len(log \o s) = Len(log) + Len(s)
      /\ \A i \in 1 .. Len(log) + Len(s) : (log \o s)[i] =
                     IF i <= Len(log) THEN log[i] ELSE s[i - Len(log)]
  BY <1>1, ConcatProperties
<1>3. log' = log \o s
  BY DEF s
<1> QED
  BY <1>1, <1>2, <1>3

\* Send, acknowledged or not, appends copies of the order and nothing else.
LEMMA SendAppends ==
    ASSUME NEW o \in Orders, SendOK(o) \/ SendFailed(o)
    PROVE  \E n \in Nat : log' = log \o [i \in 1..n |-> o]
<1>1. \A k \in 1..(IF KafkaFaults THEN WriteAttempts ELSE 1) : k \in Nat
  BY ConsumerAssumption
<1>2. \A k \in 0..WriteAttempts : k \in Nat
  BY ConsumerAssumption
<1> QED
  BY <1>1, <1>2 DEF SendOK, SendFailed, AppendCopies

-----------------------------------------------------------------------------
(* Type correctness.                                                       *)

LEMMA InitType == Init => TypeOK
<1> SUFFICES ASSUME Init PROVE TypeOK
  OBVIOUS
<1> USE ConsumerAssumption
<1>1. cancelled \in [Workers -> BOOLEAN]
  BY DEF Init
<1>2. log \in Seq(Orders)
  BY DEF Init
<1> QED
  BY <1>1, <1>2 DEF Init, TypeOK, Handling

\* A busy worker's event is an order.
LEMMA EventType ==
    ASSUME TypeOK, OffsetsOrdered, NEW w \in Workers, Busy(w)
    PROVE  Event(w) \in Orders
<1>1. off[w] \in 1..Len(log)
  BY DEF TypeOK, OffsetsOrdered
<1> QED
  BY <1>1 DEF TypeOK, Event

LEMMA NextType ==
    TypeOK /\ OffsetsOrdered /\ RetriesBounded /\ [Next]_vars => TypeOK'
<1> SUFFICES ASSUME TypeOK, OffsetsOrdered, RetriesBounded, [Next]_vars
             PROVE  TypeOK'
  OBVIOUS
<1> USE ConsumerAssumption DEF broker, store, worker, process
<1>1. ASSUME NEW o \in Orders, SendOK(o) \/ SendFailed(o) PROVE TypeOK'
  <2>1. PICK n \in Nat : log' = log \o [i \in 1..n |-> o]
    BY <1>1, SendAppends
  <2>2. log' \in Seq(Orders)
    BY <2>1, Appended DEF TypeOK
  <2> QED
    BY <1>1, <2>2 DEF SendOK, SendFailed, TypeOK
<1>2. ASSUME NEW w \in Workers,
             Start(w) \/ Admit(w) \/ Return(w) \/ FetchFailed(w) \/ Retry(w)
                \/ BackoffCancelled(w)
      PROVE TypeOK'
  BY <1>2 DEF Start, Admit, Return, FetchFailed, Retry, BackoffCancelled, Goto,
              TypeOK, Handling
<1>3. ASSUME NEW w \in Workers, Fetch(w) PROVE TypeOK'
  BY <1>3 DEF Fetch, Goto, TypeOK, Handling
<1>4. ASSUME NEW w \in Workers, HandleOK(w) PROVE TypeOK'
  <2>1. Event(w) \in Orders
    BY <1>4, EventType DEF HandleOK, Busy, Handling
  <2> QED
    BY <1>4, <2>1 DEF HandleOK, Goto, TypeOK
<1>5. ASSUME NEW w \in Workers, HandleFailed(w) PROVE TypeOK'
  <2>1. Event(w) \in Orders
    BY <1>5, EventType DEF HandleFailed, Busy, Handling
  <2>2. db' \subseteq Orders
    BY <1>5, <2>1 DEF HandleFailed, TypeOK
  <2>3. attempt[w] \in 0..MaxRetries
    <3>1. /\ attempt[w] \in 0..(MaxRetries + 1)
          /\ MaxRetries \in Nat
      BY DEF TypeOK
    <3>2. ~(attempt[w] > MaxRetries)
      BY <1>5 DEF HandleFailed, RetriesBounded
    <3> QED
      BY <3>1, <3>2
  <2>4. attempt' \in [Workers -> 0..(MaxRetries + 1)]
    BY <1>5, <2>3 DEF HandleFailed, TypeOK
  <2>5. AfterFailure(w) \in Handling
    BY DEF AfterFailure, Handling
  <2> QED
    BY <1>5, <2>2, <2>4, <2>5 DEF HandleFailed, Goto, TypeOK
<1>6. ASSUME NEW w \in Workers, DeadLetter(w) \/ DeadLetterFailed(w) PROVE TypeOK'
  <2>1. Event(w) \in Orders
    BY <1>6, EventType DEF DeadLetter, DeadLetterFailed, Busy, Handling
  <2>2. [topic |-> DeadLetterTopic, order |-> Event(w)]
            \in [topic : {DeadLetterTopic}, order : Orders]
    BY <2>1
  <2>3. dlq' \subseteq [topic : {DeadLetterTopic}, order : Orders]
    BY <1>6, <2>2 DEF DeadLetter, DeadLetterFailed, TypeOK
  <2>4. dropped' \subseteq Orders
    BY <1>6, <2>1 DEF DeadLetter, DeadLetterFailed, TypeOK
  <2> QED
    BY <1>6, <2>3, <2>4 DEF DeadLetter, DeadLetterFailed, Goto, TypeOK
<1>7. ASSUME NEW w \in Workers, Commit(w) \/ CommitFailed(w) PROVE TypeOK'
  <2>1. committed' \in Nat
    BY <1>7 DEF Commit, CommitFailed, TypeOK
  <2>2. NextRound(w)
    BY <1>7 DEF Commit, CommitFailed
  <2>3. off' \in [Workers -> Nat]
    BY <2>2 DEF NextRound, TypeOK
  <2>4. attempt' \in [Workers -> 0..(MaxRetries + 1)]
    <3>1. 0 \in 0..(MaxRetries + 1)
      OBVIOUS
    <3> QED
      BY <2>2, <3>1 DEF NextRound, TypeOK
  <2> QED
    BY <1>7, <2>1, <2>2, <2>3, <2>4 DEF Commit, CommitFailed, NextRound, Goto, TypeOK
<1>8. ASSUME NEW w \in Workers, Cancel(w) PROVE TypeOK'
  BY <1>8 DEF Cancel, TypeOK
<1>9. CASE Stop \/ CloseReader
  BY <1>9 DEF Stop, CloseReader, TypeOK
<1>10. ASSUME NewProcess PROVE TypeOK'
  <2>1. \A w \in Behind : Event(w) \in Orders
    BY EventType DEF Behind, Busy
  <2>2. cancelled' \in [Workers -> BOOLEAN]
    BY <1>10 DEF NewProcess
  <2> QED
    BY <1>10, <2>1, <2>2 DEF NewProcess, TypeOK
<1>11. CASE UNCHANGED vars
  BY <1>11 DEF vars, TypeOK
<1> QED
  BY <1>1, <1>2, <1>3, <1>4, <1>5, <1>6, <1>7, <1>8, <1>9, <1>10, <1>11
     DEF Next, WorkerStep, Crash, Exit

-----------------------------------------------------------------------------
(* Offsets.                                                                *)

LEMMA NextOffsets ==
    TypeOK /\ OffsetsOrdered /\ [Next]_vars => OffsetsOrdered'
<1> SUFFICES ASSUME TypeOK, OffsetsOrdered, [Next]_vars PROVE OffsetsOrdered'
  OBVIOUS
<1> USE DEF broker, store, worker, process
<1>0. /\ committed \in Nat /\ position \in Nat /\ Len(log) \in Nat
      /\ off \in [Workers -> Nat]
      /\ pc \in [Workers -> {"new", "top", "fetch", "commit", "done"} \cup Handling]
  BY DEF TypeOK
<1>1. ASSUME NEW o \in Orders, SendOK(o) \/ SendFailed(o) PROVE OffsetsOrdered'
  <2>1. PICK n \in Nat : log' = log \o [i \in 1..n |-> o]
    BY <1>1, SendAppends
  <2>2. Len(log) <= Len(log') /\ Len(log') \in Nat
    BY <2>1, Appended DEF TypeOK
  <2> QED
    BY <1>0, <1>1, <2>2 DEF SendOK, SendFailed, OffsetsOrdered, Busy
<1>2. ASSUME NEW w \in Workers,
             Start(w) \/ Admit(w) \/ Return(w) \/ FetchFailed(w) \/ Retry(w)
                \/ BackoffCancelled(w) \/ HandleOK(w) \/ HandleFailed(w)
                \/ DeadLetter(w) \/ DeadLetterFailed(w)
      PROVE OffsetsOrdered'
  <2>1. /\ UNCHANGED <<log, committed, position, off>>
        /\ \A v \in Workers : Busy(v)' => Busy(v)
    BY <1>0, <1>2
       DEF Start, Admit, Return, FetchFailed, Retry, BackoffCancelled, HandleOK,
           HandleFailed, DeadLetter, DeadLetterFailed, Goto, Busy, Handling
  <2> QED
    BY <2>1 DEF OffsetsOrdered
<1>3. ASSUME NEW w \in Workers, Fetch(w) PROVE OffsetsOrdered'
  <2>1. /\ position' = position + 1 /\ position < Len(log)
        /\ committed' = committed /\ log' = log
        /\ off'[w] = position + 1
        /\ \A v \in Workers \ {w} : off'[v] = off[v] /\ pc'[v] = pc[v]
    BY <1>0, <1>3 DEF Fetch, Goto
  <2> QED
    BY <1>0, <2>1 DEF OffsetsOrdered, Busy
<1>4. ASSUME NEW w \in Workers, Commit(w) \/ CommitFailed(w) PROVE OffsetsOrdered'
  <2>1. off[w] \in 1..position
    BY <1>4 DEF Commit, CommitFailed, OffsetsOrdered, Busy
  <2>2. /\ committed' \in {committed, off[w]}
        /\ position' = position /\ log' = log
        /\ pc'[w] = "top"
        /\ \A v \in Workers \ {w} : off'[v] = off[v] /\ pc'[v] = pc[v]
    BY <1>0, <1>4 DEF Commit, CommitFailed, NextRound, Goto
  <2> QED
    BY <1>0, <2>1, <2>2 DEF OffsetsOrdered, Busy, Handling
<1>5. ASSUME NEW w \in Workers, Cancel(w) PROVE OffsetsOrdered'
  BY <1>5 DEF Cancel, OffsetsOrdered, Busy
<1>6. CASE Stop \/ CloseReader
  BY <1>6 DEF Stop, CloseReader, OffsetsOrdered, Busy
<1>7. ASSUME NewProcess PROVE OffsetsOrdered'
  <2>1. /\ position' = committed /\ committed' = committed /\ log' = log
        /\ \A v \in Workers : pc'[v] = "new"
    BY <1>7 DEF NewProcess
  <2> QED
    BY <1>0, <2>1 DEF OffsetsOrdered, Busy, Handling
<1>8. CASE UNCHANGED vars
  BY <1>8 DEF vars, OffsetsOrdered, Busy
<1> QED
  BY <1>1, <1>2, <1>3, <1>4, <1>5, <1>6, <1>7, <1>8
     DEF Next, WorkerStep, Crash, Exit

LEMMA NextRetries ==
    TypeOK /\ RetriesBounded /\ [Next]_vars => RetriesBounded'
<1> SUFFICES ASSUME TypeOK, RetriesBounded, [Next]_vars,
                    NEW v \in Workers, attempt'[v] > MaxRetries
             PROVE  pc'[v] \in {"dlq", "commit"}
  BY DEF RetriesBounded
<1> USE DEF broker, store, worker, process
<1>0. /\ MaxRetries \in Nat
      /\ attempt \in [Workers -> 0..(MaxRetries + 1)]
      /\ pc \in [Workers -> {"new", "top", "fetch", "commit", "done"} \cup Handling]
      /\ attempt[v] > MaxRetries => pc[v] \in {"dlq", "commit"}
  BY ConsumerAssumption DEF TypeOK, RetriesBounded
<1>1. ASSUME NEW w \in Workers,
             Start(w) \/ Admit(w) \/ Return(w) \/ Fetch(w) \/ FetchFailed(w)
                \/ Retry(w) \/ BackoffCancelled(w) \/ HandleOK(w)
                \/ DeadLetter(w) \/ DeadLetterFailed(w)
      PROVE pc'[v] \in {"dlq", "commit"}
  <2>1. attempt' = attempt
    BY <1>1 DEF Start, Admit, Return, Fetch, FetchFailed, Retry,
                BackoffCancelled, HandleOK, DeadLetter, DeadLetterFailed
  <2>2. \/ pc'[v] = pc[v]
        \/ pc[v] \notin {"dlq", "commit"}
        \/ pc'[v] = "commit"
    BY <1>0, <1>1 DEF Start, Admit, Return, Fetch, FetchFailed, Retry, Goto,
                BackoffCancelled, HandleOK, DeadLetter, DeadLetterFailed
  <2> QED
    BY <1>0, <2>1, <2>2
<1>2. ASSUME NEW w \in Workers, HandleFailed(w) PROVE pc'[v] \in {"dlq", "commit"}
  <2>1. CASE v = w
    <3>1. attempt[v] \in Nat /\ attempt'[v] = attempt[v] + 1
      BY <1>0, <1>2, <2>1 DEF HandleFailed
    <3>2. ~(attempt[v] < MaxRetries)
      BY <1>0, <3>1
    <3> QED
      BY <1>0, <1>2, <2>1, <3>2 DEF HandleFailed, AfterFailure, Goto
  <2>2. CASE v # w
    BY <1>0, <1>2, <2>2 DEF HandleFailed, Goto
  <2> QED
    BY <2>1, <2>2
<1>3. ASSUME NEW w \in Workers, Commit(w) \/ CommitFailed(w)
      PROVE pc'[v] \in {"dlq", "commit"}
  <2>1. NextRound(w)
    BY <1>3 DEF Commit, CommitFailed
  <2> QED
    BY <1>0, <2>1 DEF NextRound, Goto
<1>4. ASSUME NewProcess PROVE pc'[v] \in {"dlq", "commit"}
  BY <1>0, <1>4 DEF NewProcess
<1>5. ASSUME \/ \E o \in Orders : SendOK(o) \/ SendFailed(o)
             \/ \E w \in Workers : Cancel(w)
             \/ Stop \/ CloseReader \/ UNCHANGED vars
      PROVE pc'[v] \in {"dlq", "commit"}
  <2>1. pc' = pc /\ attempt' = attempt
    BY <1>5 DEF SendOK, SendFailed, Cancel, Stop, CloseReader, vars
  <2> QED
    BY <1>0, <2>1
<1> QED
  BY <1>1, <1>2, <1>3, <1>4, <1>5 DEF Next, WorkerStep, Crash, Exit

-----------------------------------------------------------------------------
(* Nobody is forgotten.                                                    *)

\* A step of one worker that settles the event it stops handling, or keeps
\* handling it, and that takes nothing back, keeps every offset accounted for.
LEMMA AccountedKept ==
    ASSUME Accounted, NEW w \in Workers,
           UNCHANGED <<log, position, skipped>>,
           OffsetsOrdered, OffsetsOrdered', TypeOK, TypeOK',
           db \subseteq db', dlq \subseteq dlq', dropped \subseteq dropped',
           \A v \in Workers \ {w} : pc'[v] = pc[v] /\ off'[v] = off[v],
           pc[w] \in Handling =>
               \/ pc'[w] \in Handling /\ off'[w] = off[w]
               \/ Event(w) \in db' \cup DeadLetters' \cup dropped'
    PROVE  Accounted'
<1> SUFFICES ASSUME NEW i \in 1..Len(log), i <= position' \/ i <= committed'
             PROVE  \/ Settled(log[i])'
                    \/ \E v \in Workers : pc'[v] \in Handling /\ off'[v] = i
  BY DEF Accounted
<1>0. /\ position \in Nat /\ position' = position /\ Len(log) \in Nat
      /\ committed' \in Nat /\ committed' <= position'
  BY DEF TypeOK, OffsetsOrdered
<1>1. i <= position
  BY <1>0
<1>2. \/ Settled(log[i])
      \/ \E v \in Workers : pc[v] \in Handling /\ off[v] = i
  BY <1>1 DEF Accounted
<1>3. CASE Settled(log[i])
  <2>1. DeadLetters \subseteq DeadLetters'
    BY DEF DeadLetters
  <2> QED
    BY <1>3, <2>1 DEF Settled
<1>4. ASSUME NEW v \in Workers, pc[v] \in Handling, off[v] = i
      PROVE  \/ Settled(log[i])'
             \/ \E u \in Workers : pc'[u] \in Handling /\ off'[u] = i
  <2>1. CASE v # w
    BY <1>4, <2>1
  <2>2. CASE v = w
    <3>1. CASE pc'[w] \in Handling /\ off'[w] = off[w]
      BY <1>4, <2>2, <3>1
    <3>2. CASE Event(w) \in db' \cup DeadLetters' \cup dropped'
      BY <1>4, <2>2, <3>2 DEF Settled, Event
    <3> QED
      BY <1>4, <2>2, <3>1, <3>2
  <2> QED
    BY <2>1, <2>2
<1> QED
  BY <1>2, <1>3, <1>4

LEMMA NextAccounted ==
    TypeOK /\ OffsetsOrdered /\ RetriesBounded /\ Accounted /\ [Next]_vars => Accounted'
<1> SUFFICES ASSUME TypeOK, OffsetsOrdered, RetriesBounded, Accounted, [Next]_vars
             PROVE  Accounted'
  OBVIOUS
<1> USE DEF broker, store, worker, process
<1>0. TypeOK' /\ OffsetsOrdered'
  BY NextType, NextOffsets
<1>a. /\ committed \in Nat /\ position \in Nat /\ Len(log) \in Nat
      /\ off \in [Workers -> Nat]
      /\ pc \in [Workers -> {"new", "top", "fetch", "commit", "done"} \cup Handling]
  BY DEF TypeOK
<1>1. ASSUME NEW o \in Orders, SendOK(o) \/ SendFailed(o) PROVE Accounted'
  <2>1. PICK n \in Nat : log' = log \o [i \in 1..n |-> o]
    BY <1>1, SendAppends
  <2>2. \A i \in 1..Len(log) : log'[i] = log[i]
    BY <2>1, Appended DEF TypeOK
  <2>3. /\ UNCHANGED <<committed, position, pc, off, db, dlq, dropped, skipped>>
        /\ committed <= Len(log) /\ position <= Len(log)
    BY <1>1, <1>a DEF SendOK, SendFailed, OffsetsOrdered
  <2> SUFFICES ASSUME NEW i \in 1..Len(log'), i <= position \/ i <= committed
               PROVE  \/ Settled(log'[i])
                      \/ \E w \in Workers : pc[w] \in Handling /\ off[w] = i
    BY <2>3 DEF Accounted, Settled, DeadLetters
  <2>4. i \in 1..Len(log)
    BY <2>3, <1>a
  <2> QED
    BY <2>2, <2>4 DEF Accounted
<1>2. ASSUME NEW w \in Workers,
             Start(w) \/ Admit(w) \/ Return(w) \/ FetchFailed(w) \/ Retry(w)
                \/ BackoffCancelled(w) \/ HandleFailed(w) \/ Cancel(w)
      PROVE Accounted'
  <2>1. /\ UNCHANGED <<log, position, skipped, dlq, dropped>>
        /\ off' = off
        /\ \A v \in Workers \ {w} : pc'[v] = pc[v]
        /\ pc[w] \in Handling => pc'[w] \in Handling
    BY <1>a, <1>2
       DEF Start, Admit, Return, FetchFailed, Retry, BackoffCancelled,
           HandleFailed, AfterFailure, Cancel, Goto, Handling
  <2>2. db \subseteq db'
    BY <1>2 DEF Start, Admit, Return, FetchFailed, Retry, BackoffCancelled,
                HandleFailed, Cancel
  <2> QED
    BY <1>0, <2>1, <2>2, AccountedKept
<1>3. ASSUME NEW w \in Workers, HandleOK(w) PROVE Accounted'
  <2>1. /\ UNCHANGED <<log, position, skipped, dlq, dropped>>
        /\ \A v \in Workers \ {w} : pc'[v] = pc[v] /\ off'[v] = off[v]
        /\ db \subseteq db' /\ Event(w) \in db'
    BY <1>a, <1>3 DEF HandleOK, Goto
  <2> QED
    BY <1>0, <2>1, AccountedKept
<1>4. ASSUME NEW w \in Workers, DeadLetter(w) PROVE Accounted'
  <2>1. /\ UNCHANGED <<log, position, skipped, db, dropped>>
        /\ \A v \in Workers \ {w} : pc'[v] = pc[v] /\ off'[v] = off[v]
        /\ dlq \subseteq dlq'
        /\ [topic |-> DeadLetterTopic, order |-> Event(w)] \in dlq'
    BY <1>a, <1>4 DEF DeadLetter, Goto
  <2>2. Event(w) \in DeadLetters'
    BY <2>1 DEF DeadLetters
  <2> QED
    BY <1>0, <2>1, <2>2, AccountedKept
<1>5. ASSUME NEW w \in Workers, DeadLetterFailed(w) PROVE Accounted'
  <2>1. /\ UNCHANGED <<log, position, skipped, db, dlq>>
        /\ \A v \in Workers \ {w} : pc'[v] = pc[v] /\ off'[v] = off[v]
        /\ dropped \subseteq dropped' /\ Event(w) \in dropped'
    BY <1>a, <1>5 DEF DeadLetterFailed, Goto
  <2> QED
    BY <1>0, <2>1, AccountedKept
<1>6. ASSUME NEW w \in Workers, Commit(w) \/ CommitFailed(w) PROVE Accounted'
  <2>1. /\ UNCHANGED <<log, position, skipped, db, dlq, dropped>>
        /\ \A v \in Workers \ {w} : pc'[v] = pc[v] /\ off'[v] = off[v]
        /\ pc[w] \notin Handling
    BY <1>a, <1>6 DEF Commit, CommitFailed, NextRound, Goto, Handling
  <2> QED
    BY <1>0, <2>1, AccountedKept
<1>7. ASSUME NEW w \in Workers, Fetch(w) PROVE Accounted'
  <2>1. /\ UNCHANGED <<log, committed, skipped, db, dlq, dropped>>
        /\ position' = position + 1
        /\ off'[w] = position + 1 /\ pc'[w] \in Handling
        /\ pc[w] \notin Handling
        /\ \A v \in Workers \ {w} : pc'[v] = pc[v] /\ off'[v] = off[v]
    BY <1>a, <1>7 DEF Fetch, Goto, Handling
  <2> SUFFICES ASSUME NEW i \in 1..Len(log), i <= position + 1 \/ i <= committed
               PROVE  \/ Settled(log[i])
                      \/ \E v \in Workers : pc'[v] \in Handling /\ off'[v] = i
    BY <2>1 DEF Accounted, Settled, DeadLetters
  <2>2. CASE i = position + 1
    BY <2>1, <2>2
  <2>3. CASE i # position + 1
    <3>1. i <= position \/ i <= committed
      BY <1>a, <2>3
    <3>2. \/ Settled(log[i])
          \/ \E v \in Workers : pc[v] \in Handling /\ off[v] = i
      BY <3>1 DEF Accounted
    <3> QED
      BY <2>1, <3>2
  <2> QED
    BY <2>2, <2>3
<1>8. ASSUME NewProcess PROVE Accounted'
  <2>1. /\ UNCHANGED <<log, committed, db, dlq, dropped>>
        /\ position' = committed
        /\ skipped' = skipped \cup {Event(w) : w \in Behind}
    BY <1>8 DEF NewProcess
  <2> SUFFICES ASSUME NEW i \in 1..Len(log), i <= committed
               PROVE  log[i] \in db \cup DeadLetters \cup dropped \cup skipped'
    BY <2>1 DEF Accounted, Settled, DeadLetters
  <2>2. CASE Settled(log[i])
    BY <2>1, <2>2 DEF Settled
  <2>3. ASSUME NEW w \in Workers, pc[w] \in Handling, off[w] = i
        PROVE  log[i] \in skipped'
    <3>1. w \in Behind
      BY <2>3 DEF Behind
    <3>2. Event(w) = log[i]
      BY <2>3 DEF Event
    <3> QED
      BY <2>1, <3>1, <3>2
  <2> QED
    BY <2>2, <2>3 DEF Accounted
<1>9. CASE Stop \/ CloseReader \/ UNCHANGED vars
  <2>1. UNCHANGED <<log, committed, position, pc, off, db, dlq, dropped, skipped>>
    BY <1>9 DEF Stop, CloseReader, vars
  <2> QED
    BY <2>1 DEF Accounted, Settled, DeadLetters
<1> QED
  BY <1>1, <1>2, <1>3, <1>4, <1>5, <1>6, <1>7, <1>8, <1>9
     DEF Next, WorkerStep, Crash, Exit

-----------------------------------------------------------------------------
(* How much an exit can skip.                                              *)

LEMMA NextAhead ==
    TypeOK /\ OffsetsOrdered /\ SomeoneAhead /\ [Next]_vars => SomeoneAhead'
<1> SUFFICES ASSUME TypeOK, OffsetsOrdered, SomeoneAhead, [Next]_vars
             PROVE  SomeoneAhead'
  OBVIOUS
<1> USE DEF broker, store, worker, process
<1>0. /\ committed \in Nat /\ position \in Nat /\ committed <= position
      /\ off \in [Workers -> Nat]
      /\ pc \in [Workers -> {"new", "top", "fetch", "commit", "done"} \cup Handling]
  BY DEF TypeOK, OffsetsOrdered
<1>1. PICK a \in Workers : a \notin Behind
  BY DEF SomeoneAhead
<1>2. ASSUME committed' = committed, off' = off,
             pc'[a] \in Handling => pc[a] \in Handling
      PROVE  SomeoneAhead'
  BY <1>1, <1>2 DEF SomeoneAhead, Behind
<1>3. ASSUME NEW w \in Workers,
             Start(w) \/ Admit(w) \/ Return(w) \/ FetchFailed(w) \/ Retry(w)
                \/ BackoffCancelled(w) \/ HandleOK(w) \/ HandleFailed(w)
                \/ DeadLetter(w) \/ DeadLetterFailed(w) \/ Cancel(w)
      PROVE SomeoneAhead'
  BY <1>0, <1>2, <1>3
     DEF Start, Admit, Return, FetchFailed, Retry, BackoffCancelled, HandleOK,
         HandleFailed, DeadLetter, DeadLetterFailed, Cancel, Goto, Handling
<1>4. ASSUME NEW w \in Workers, Fetch(w) PROVE SomeoneAhead'
  <2>1. off'[w] = position + 1 /\ committed' = committed
    BY <1>0, <1>4 DEF Fetch
  <2>2. ~(off'[w] <= committed')
    BY <1>0, <2>1
  <2> QED
    BY <2>2 DEF SomeoneAhead, Behind
<1>5. ASSUME NEW w \in Workers, Commit(w) \/ CommitFailed(w) PROVE SomeoneAhead'
  <2>1. NextRound(w)
    BY <1>5 DEF Commit, CommitFailed
  <2>2. pc'[w] = "top"
    BY <1>0, <2>1 DEF NextRound, Goto
  <2> QED
    BY <2>2 DEF SomeoneAhead, Behind, Handling
<1>6. ASSUME NewProcess PROVE SomeoneAhead'
  BY <1>1, <1>6 DEF NewProcess, SomeoneAhead, Behind, Handling
<1>7. ASSUME \/ \E o \in Orders : SendOK(o) \/ SendFailed(o)
             \/ Stop \/ CloseReader \/ UNCHANGED vars
      PROVE SomeoneAhead'
  <2>1. committed' = committed /\ off' = off /\ pc' = pc
    BY <1>7 DEF SendOK, SendFailed, Stop, CloseReader, vars
  <2> QED
    BY <1>2, <2>1
<1> QED
  BY <1>3, <1>4, <1>5, <1>6, <1>7 DEF Next, WorkerStep, Crash, Exit

\* Somebody is ahead, so the workers behind are fewer than the workers, and
\* they hold at most one event each.
LEMMA FewBehind ==
    ASSUME SomeoneAhead
    PROVE  /\ IsFiniteSet({Event(w) : w \in Behind})
           /\ Cardinality({Event(w) : w \in Behind}) \in Nat
           /\ Cardinality(Workers) \in Nat
           /\ Cardinality({Event(w) : w \in Behind}) <= Cardinality(Workers) - 1
<1> DEFINE E == {Event(w) : w \in Behind}
           f == [w \in Behind |-> Event(w)]
<1>1. IsFiniteSet(Workers) /\ Cardinality(Workers) \in Nat
  BY ConsumerAssumption, FS_CardinalityType
<1>2. PICK a \in Workers : a \notin Behind
  BY DEF SomeoneAhead
<1>3. /\ IsFiniteSet(Workers \ {a})
      /\ Cardinality(Workers \ {a}) = Cardinality(Workers) - 1
  BY <1>1, <1>2, FS_RemoveElement
<1>4. Behind \in SUBSET (Workers \ {a})
  BY <1>2 DEF Behind
<1>5. IsFiniteSet(Behind) /\ Cardinality(Behind) <= Cardinality(Workers \ {a})
  BY <1>3, <1>4, FS_Subset
<1>6. f \in Surjection(Behind, E)
  BY DEF Surjection
<1> HIDE DEF E, f
<1>7. IsFiniteSet(E) /\ Cardinality(E) <= Cardinality(Behind)
  BY <1>5, <1>6, FS_Surjection
<1>8. Cardinality(E) \in Nat /\ Cardinality(Behind) \in Nat
  BY <1>5, <1>7, FS_CardinalityType
<1>9. Cardinality(E) <= Cardinality(Workers) - 1
  BY <1>1, <1>3, <1>5, <1>7, <1>8
<1> QED
  BY <1>1, <1>7, <1>8, <1>9 DEF E

LEMMA NextSkipBound ==
    TypeOK /\ SomeoneAhead /\ IsFiniteSet(skipped) /\ SkipBound /\ [Next]_vars
        => IsFiniteSet(skipped)' /\ SkipBound'
<1> SUFFICES ASSUME TypeOK, SomeoneAhead, IsFiniteSet(skipped), SkipBound, [Next]_vars
             PROVE  IsFiniteSet(skipped)' /\ SkipBound'
  OBVIOUS
<1>1. CASE NewProcess
  <2> DEFINE E == {Event(w) : w \in Behind}
             k == Cardinality(Workers) - 1
  <2>1. /\ IsFiniteSet(E) /\ Cardinality(E) \in Nat
        /\ k \in Int /\ Cardinality(E) <= k
    BY FewBehind
  <2>2. /\ skipped' = skipped \cup E /\ restarts' = restarts + 1
        /\ restarts \in Nat
    BY <1>1 DEF NewProcess, TypeOK
  <2>3. Cardinality(skipped) <= restarts * k
    BY DEF SkipBound
  <2> HIDE DEF E, k
  <2>4. /\ IsFiniteSet(skipped \cup E)
        /\ Cardinality(skipped \cup E)
              = Cardinality(skipped) + Cardinality(E) - Cardinality(skipped \cap E)
    BY <2>1, FS_Union
  <2>5. IsFiniteSet(skipped \cap E)
    BY FS_Subset
  <2>6. Cardinality(skipped \cap E) \in Nat /\ Cardinality(skipped) \in Nat
    BY <2>5, FS_CardinalityType
  <2>7. restarts * k \in Int /\ (restarts + 1) * k = restarts * k + k
    BY <2>1, <2>2
  <2>8. Cardinality(skipped \cup E) <= (restarts + 1) * k
    BY <2>1, <2>3, <2>4, <2>6, <2>7
  <2> QED
    BY <2>2, <2>4, <2>8 DEF SkipBound, k
<1>2. CASE ~NewProcess
  <2>1. UNCHANGED <<skipped, restarts>>
    BY <1>2
       DEF Next, WorkerStep, Crash, Exit, SendOK, SendFailed, Start, Admit,
           Return, Fetch, FetchFailed, HandleOK, HandleFailed, Retry,
           BackoffCancelled, DeadLetter, DeadLetterFailed, Commit, CommitFailed,
           Stop, Cancel, CloseReader, process, vars
  <2> QED
    BY <2>1 DEF SkipBound
<1> QED
  BY <1>1, <1>2

-----------------------------------------------------------------------------
(* The invariant and the theorems.                                         *)

LEMMA InitInv == Init => Inv
<1> SUFFICES ASSUME Init PROVE Inv
  OBVIOUS
<1>1. TypeOK
  BY InitType
<1>2. OffsetsOrdered
  BY DEF Init, OffsetsOrdered, Busy, Handling
<1>3. RetriesBounded
  BY ConsumerAssumption DEF Init, RetriesBounded
<1>4. Accounted
  BY DEF Init, Accounted
<1>5. SomeoneAhead
  <2>1. \A w \in Workers : pc[w] = "new"
    BY DEF Init
  <2> QED
    BY <2>1, ConsumerAssumption DEF SomeoneAhead, Behind, Handling
<1>6. IsFiniteSet(skipped) /\ Cardinality(skipped) = 0
  BY FS_EmptySet DEF Init
<1>7. SkipBound
  <2>1. Cardinality(Workers) \in Nat
    BY ConsumerAssumption, FS_CardinalityType
  <2>2. restarts = 0 /\ 0 * (Cardinality(Workers) - 1) = 0
    BY <2>1 DEF Init
  <2> QED
    BY <1>6, <2>2 DEF SkipBound
<1> QED
  BY <1>1, <1>2, <1>3, <1>4, <1>5, <1>6, <1>7 DEF Inv

LEMMA NextInv == Inv /\ [Next]_vars => Inv'
<1> SUFFICES ASSUME Inv, [Next]_vars PROVE Inv'
  OBVIOUS
<1> QED
  BY NextType, NextOffsets, NextRetries, NextAccounted, NextAhead, NextSkipBound
     DEF Inv

LEMMA SpecInv == Spec => []Inv
<1> QED
  BY InitInv, NextInv, PTL DEF Spec

\* Every variable keeps its type; in particular processWithRetry calls the
\* handler at most maxRetries + 1 times for one delivery.
THEOREM TypeCorrect == Spec => []TypeOK
<1>1. Inv => TypeOK
  BY DEF Inv
<1> QED
  BY <1>1, SpecInv, PTL

\* No event disappears unnoticed: every delivered or committed offset is
\* stored, dead-lettered, given up in one of the two known ways, or in the
\* hands of a worker.
THEOREM NothingUnaccounted == Spec => []Accounted
<1>1. Inv => Accounted
  BY DEF Inv
<1> QED
  BY <1>1, SpecInv, PTL

\* An exit of the process skips fewer events than there are workers.
THEOREM SkipsBounded == Spec => []SkipBound
<1>1. Inv => SkipBound
  BY DEF Inv
<1> QED
  BY <1>1, SpecInv, PTL

\* With a single worker a crash at any point, between any two steps of
\* consumeLoop, skips nothing: commits are in order then.
THEOREM SingleWorkerSkipsNothing ==
    ASSUME Cardinality(Workers) = 1
    PROVE  Spec => [](skipped = {})
<1>1. Inv => skipped = {}
  <2> SUFFICES ASSUME Inv PROVE skipped = {}
    OBVIOUS
  <2>1. /\ IsFiniteSet(skipped) /\ restarts \in Nat
        /\ Cardinality(skipped) <= restarts * (1 - 1)
    BY DEF Inv, SkipBound, TypeOK
  <2>2. restarts * (1 - 1) = 0
    BY <2>1
  <2>3. Cardinality(skipped) = 0
    BY <2>1, <2>2, FS_CardinalityType
  <2> QED
    BY <2>1, <2>3, FS_EmptySet
<1> QED
  BY <1>1, SpecInv, PTL

\* Only a stop, the end of the process, a failing Kafka request or a missing topic
\* make consumeLoop give an event up.
LEMMA UndisturbedStep ==
    ASSUME MaxRestarts = 0, KafkaFaults = FALSE, DeadLetterTopic \in Topics,
           TypeOK, Undisturbed, [Next]_vars
    PROVE  Undisturbed'
<1> USE DEF Undisturbed, store, process, worker
<1>1. ASSUME NEW o \in Orders, SendOK(o) \/ SendFailed(o) PROVE Undisturbed'
  BY <1>1 DEF SendOK, SendFailed
<1>2. ASSUME NEW w \in Workers, Start(w) \/ Admit(w) \/ Return(w) \/ Fetch(w) \/ FetchFailed(w)
      PROVE  Undisturbed'
  BY <1>2 DEF Start, Admit, Return, Fetch, FetchFailed
<1>3. ASSUME NEW w \in Workers,
             HandleOK(w) \/ HandleFailed(w) \/ Retry(w) \/ BackoffCancelled(w) \/ DeadLetter(w)
      PROVE  Undisturbed'
  BY <1>3 DEF HandleOK, HandleFailed, Retry, BackoffCancelled, DeadLetter
<1>4. ASSUME NEW w \in Workers PROVE ~DeadLetterFailed(w)
  BY DEF DeadLetterFailed
<1>5. ASSUME NEW w \in Workers, Commit(w) \/ CommitFailed(w) PROVE Undisturbed'
  BY <1>5 DEF Commit, CommitFailed
<1>6. ASSUME NEW w \in Workers PROVE ~Cancel(w)
  BY DEF Cancel
<1>7. ~Stop /\ ~CloseReader /\ ~Crash /\ ~Exit
  BY DEF Stop, CloseReader, Crash, Exit
<1>8. CASE UNCHANGED vars
  BY <1>8 DEF vars
<1> QED
  BY <1>1, <1>2, <1>3, <1>4, <1>5, <1>6, <1>7, <1>8 DEF Next, WorkerStep

\* Where the comment above CommitMessages is right: while the process is neither
\* stopped nor killed, Kafka executes its requests and the dead-letter topic the
\* producer really writes to exists, no failed event is lost, however MySQL fails
\* and however many workers commit out of order.
THEOREM DLQGuarantee ==
    ASSUME MaxRestarts = 0, KafkaFaults = FALSE, DeadLetterTopic \in Topics
    PROVE  Spec => []FailedMessagesNotLost
<1>1. Init => Undisturbed
  BY DEF Init, Undisturbed
<1>2. Inv /\ Undisturbed /\ [Next]_vars => Undisturbed'
  BY UndisturbedStep DEF Inv
<1>3. ASSUME Inv, Undisturbed PROVE FailedMessagesNotLost
  <2>1. Accounted /\ committed \in Nat /\ Len(log) \in Nat /\ committed <= Len(log)
    BY <1>3 DEF Inv, TypeOK, OffsetsOrdered
  <2> QED
    BY <1>3, <2>1 DEF Accounted, Settled, Undisturbed, FailedMessagesNotLost
<1> QED
  BY <1>1, <1>2, <1>3, SpecInv, PTL DEF Spec

-----------------------------------------------------------------------------
(* Progress of a delivery.                                                 *)

\* The loop counter of a worker that has called the handler and still may again.
LEMMA CounterRange ==
    ASSUME Inv, NEW w \in Workers
    PROVE  /\ attempt[w] \in Nat /\ MaxRetries \in Nat
           /\ attempt[w] <= MaxRetries + 1
           /\ pc[w] \in {"handle", "backoff"} => attempt[w] <= MaxRetries
<1>1. MaxRetries \in Nat
  BY ConsumerAssumption
<1>2. attempt[w] \in 0..(MaxRetries + 1)
  BY DEF Inv, TypeOK
<1>3. attempt[w] > MaxRetries => pc[w] \in {"dlq", "commit"}
  BY DEF Inv, RetriesBounded
<1> QED
  BY <1>1, <1>2, <1>3

\* A step that is not the end of the process is that of one worker, or of nobody.
LEMMA OneAtATime ==
    ASSUME Inv, [Next]_vars, restarts' = restarts, NEW w \in Workers
    PROVE  UNCHANGED <<pc[w], off[w], attempt[w]>> \/ WorkerStep(w)
<1> USE DEF worker, process
<1>0. /\ pc \in [Workers -> {"new", "top", "fetch", "commit", "done"} \cup Handling]
      /\ off \in [Workers -> Nat] /\ attempt \in [Workers -> 0..(MaxRetries + 1)]
      /\ restarts \in Nat
  BY DEF Inv, TypeOK
<1>1. ASSUME NEW o \in Orders, SendOK(o) \/ SendFailed(o) PROVE UNCHANGED <<pc, off, attempt>>
  BY <1>1 DEF SendOK, SendFailed
<1>2. ASSUME NEW u \in Workers, u # w, WorkerStep(u)
      PROVE  UNCHANGED <<pc[w], off[w], attempt[w]>>
  BY <1>0, <1>2
     DEF WorkerStep, Start, Admit, Return, Fetch, FetchFailed, HandleOK, HandleFailed, Retry,
         BackoffCancelled, DeadLetter, DeadLetterFailed, Commit, CommitFailed, NextRound, Goto
<1>3. ASSUME NEW u \in Workers, Cancel(u) PROVE UNCHANGED <<pc, off, attempt>>
  BY <1>3 DEF Cancel
<1>4. ASSUME Stop \/ CloseReader PROVE UNCHANGED <<pc, off, attempt>>
  BY <1>4 DEF Stop, CloseReader
<1>5. ~Crash /\ ~Exit
  BY <1>0 DEF Crash, Exit, NewProcess
<1>6. ASSUME UNCHANGED vars PROVE UNCHANGED <<pc, off, attempt>>
  BY <1>6 DEF vars
<1> QED
  BY <1>1, <1>2, <1>3, <1>4, <1>5, <1>6 DEF Next

\* One step of a worker on the event it holds.
LEMMA StepAdvances ==
    ASSUME Inv, NEW w \in Workers, Busy(w), WorkerStep(w)
    PROVE  \/ Busy(w)' /\ off'[w] = off[w] /\ Remaining(w)' < Remaining(w)
           \/ pc[w] = "commit" /\ ~Busy(w)'
<1>0. /\ pc \in [Workers -> {"new", "top", "fetch", "commit", "done"} \cup Handling]
      /\ off \in [Workers -> Nat] /\ attempt \in [Workers -> 0..(MaxRetries + 1)]
  BY DEF Inv, TypeOK
<1>1. /\ attempt[w] \in Nat /\ MaxRetries \in Nat /\ attempt[w] <= MaxRetries + 1
      /\ pc[w] \in {"handle", "backoff"} => attempt[w] <= MaxRetries
  BY CounterRange
<1>2. pc[w] \in {"handle", "backoff", "dlq", "commit"}
  BY DEF Busy, Handling
<1>3. CASE HandleOK(w)
  <2>1. pc[w] = "handle" /\ pc'[w] = "commit" /\ off' = off
    BY <1>0, <1>3 DEF HandleOK, Goto
  <2> QED
    BY <1>1, <2>1 DEF Remaining, Busy
<1>4. CASE HandleFailed(w)
  <2>1. /\ pc[w] = "handle" /\ off' = off /\ attempt'[w] = attempt[w] + 1
        /\ pc'[w] = AfterFailure(w)
    BY <1>0, <1>4 DEF HandleFailed, Goto
  <2>2. CASE attempt[w] < MaxRetries
    <3>1. pc'[w] = "backoff"
      BY <2>1, <2>2 DEF AfterFailure
    <3>2. Remaining(w)' = 2 * (MaxRetries + 1 - (attempt[w] + 1)) + 3
      BY <2>1, <3>1 DEF Remaining
    <3> QED
      BY <1>1, <2>1, <3>1, <3>2 DEF Remaining, Busy, Handling
  <2>3. CASE ~(attempt[w] < MaxRetries)
    <3>1. pc'[w] = "dlq"
      BY <2>1, <2>3 DEF AfterFailure
    <3> QED
      BY <1>1, <2>1, <3>1 DEF Remaining, Busy, Handling
  <2> QED
    BY <2>2, <2>3
<1>5. CASE Retry(w)
  <2>1. pc[w] = "backoff" /\ pc'[w] = "handle" /\ off' = off /\ attempt' = attempt
    BY <1>0, <1>5 DEF Retry, Goto
  <2> QED
    BY <1>1, <2>1 DEF Remaining, Busy, Handling
<1>6. CASE BackoffCancelled(w)
  <2>1. pc[w] = "backoff" /\ pc'[w] = "dlq" /\ off' = off
    BY <1>0, <1>6 DEF BackoffCancelled, Goto
  <2> QED
    BY <1>1, <2>1 DEF Remaining, Busy, Handling
<1>7. CASE DeadLetter(w) \/ DeadLetterFailed(w)
  <2>1. pc[w] = "dlq" /\ pc'[w] = "commit" /\ off' = off
    BY <1>0, <1>7 DEF DeadLetter, DeadLetterFailed, Goto
  <2> QED
    BY <2>1 DEF Remaining, Busy
<1>8. CASE Commit(w) \/ CommitFailed(w)
  <2>1. pc[w] = "commit" /\ pc'[w] = "top"
    BY <1>0, <1>8 DEF Commit, CommitFailed, NextRound, Goto
  <2> QED
    BY <2>1 DEF Busy, Handling
<1>9. ~(Start(w) \/ Admit(w) \/ Return(w) \/ Fetch(w) \/ FetchFailed(w))
  BY <1>2 DEF Start, Admit, Return, Fetch, FetchFailed
<1> QED
  BY <1>3, <1>4, <1>5, <1>6, <1>7, <1>8, <1>9 DEF WorkerStep

\* The steps of a worker use its delivery up, and nobody else's steps give it back
\* (processWithRetry, consumeLoop): the reason why no event occupies a worker for
\* ever, which AcceptedEventuallySettled needs.
THEOREM DeliveriesAdvance == Spec => DeliveryAdvances
<1>1. Inv /\ [Next]_vars =>
          [restarts' = restarts =>
              \A w \in Workers : Busy(w) =>
                  \/ UNCHANGED <<pc[w], off[w], attempt[w]>>
                  \/ Busy(w)' /\ off'[w] = off[w] /\ Remaining(w)' < Remaining(w)
                  \/ pc[w] = "commit" /\ ~Busy(w)']_vars
  BY OneAtATime, StepAdvances
<1> QED
  BY <1>1, SpecInv, PTL DEF Spec, DeliveryAdvances

\* A worker that waits before a retry has counted the failed attempt.
LEMMA BackoffCounted == Spec => [](\A w \in Workers : pc[w] = "backoff" => attempt[w] >= 1)
<1> DEFINE P == \A w \in Workers : pc[w] = "backoff" => attempt[w] >= 1
<1>1. Init => P
  BY DEF Init
<1>2. Inv /\ P /\ [Next]_vars => P'
  <2> SUFFICES ASSUME Inv, P, [Next]_vars, NEW w \in Workers, pc'[w] = "backoff"
               PROVE  attempt'[w] >= 1
    OBVIOUS
  <2>0. /\ pc \in [Workers -> {"new", "top", "fetch", "commit", "done"} \cup Handling]
        /\ attempt \in [Workers -> 0..(MaxRetries + 1)] /\ restarts \in Nat
    BY DEF Inv, TypeOK
  <2>1. ~Crash /\ ~Exit
    BY <2>0 DEF Crash, Exit, NewProcess
  <2>2. CASE UNCHANGED <<pc[w], off[w], attempt[w]>>
    BY <2>2
  <2>3. CASE HandleFailed(w)
    <3>1. attempt'[w] = attempt[w] + 1 /\ attempt[w] \in Nat
      BY <2>0, <2>3 DEF HandleFailed
    <3> QED
      BY <3>1
  <2>4. ~(\/ Start(w) \/ Admit(w) \/ Return(w) \/ Fetch(w) \/ FetchFailed(w) \/ HandleOK(w)
          \/ Retry(w) \/ BackoffCancelled(w) \/ DeadLetter(w) \/ DeadLetterFailed(w)
          \/ Commit(w) \/ CommitFailed(w))
    BY <2>0 DEF Start, Admit, Return, Fetch, FetchFailed, HandleOK, Retry, BackoffCancelled,
                DeadLetter, DeadLetterFailed, Commit, CommitFailed, NextRound, Goto
  <2>5. restarts' = restarts
    BY <2>1 DEF Next, WorkerStep, SendOK, SendFailed, Start, Admit, Return, Fetch, FetchFailed,
                HandleOK, HandleFailed, Retry, BackoffCancelled, DeadLetter, DeadLetterFailed,
                Commit, CommitFailed, Cancel, Stop, CloseReader, process, vars
  <2> QED
    BY <2>2, <2>3, <2>4, <2>5, OneAtATime DEF WorkerStep
<1> QED
  BY <1>1, <1>2, SpecInv, PTL DEF Spec

\* A delivery is over after at most 2 * maxRetries + 4 steps of its worker.
THEOREM DeliveryIsShort == Spec => []RemainingBounded
<1> DEFINE P == \A w \in Workers : pc[w] = "backoff" => attempt[w] >= 1
<1>1. ASSUME Inv, P PROVE RemainingBounded
  <2> SUFFICES ASSUME NEW w \in Workers, Busy(w)
               PROVE  Remaining(w) \in 1..(2 * MaxRetries + 4)
    BY DEF RemainingBounded
  <2>1. /\ attempt[w] \in Nat /\ MaxRetries \in Nat /\ attempt[w] <= MaxRetries + 1
        /\ pc[w] \in {"handle", "backoff"} => attempt[w] <= MaxRetries
    BY <1>1, CounterRange
  <2>2. pc[w] = "backoff" => attempt[w] >= 1
    BY <1>1
  <2> QED
    BY <2>1, <2>2 DEF Remaining, Busy, Handling
<1> QED
  BY <1>1, SpecInv, BackoffCounted, PTL
=============================================================================
