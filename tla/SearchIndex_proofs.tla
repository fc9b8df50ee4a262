-------------------------- MODULE SearchIndex_proofs --------------------------
(***************************************************************************)
(* TLAPS proofs about SearchIndex, for any writes of any documents, any    *)
(* number of indexing goroutines and any number of faults and restarts.    *)
(***************************************************************************)
EXTENDS SearchIndex, FiniteSetTheorems, TLAPS

-----------------------------------------------------------------------------
(* The parts of the type invariant.                                        *)

SlotsTaken ==
    /\ running \subseteq Requests
    /\ slots = Cardinality(running) /\ slots <= MaxConcurrency

Shape ==
    /\ db \in [Docs -> Contents] /\ stored \subseteq Requests
    /\ pc \in [Requests -> {"new", "index", "done", "skipped"}]
    /\ net \subseteq Requests
    /\ index \in [Docs -> Contents] /\ visible \in [Docs -> Contents]
    /\ mapping \in {"none", "dynamic", "explicit"}
    /\ ensure \in {"check", "create", "done"}
    /\ reply \in [status : {200, 500, 503}, hit : Contents]
    /\ faults \in 0..MaxFaults

Flags == client \in BOOLEAN /\ tidy \in [Docs -> BOOLEAN] /\ raced \in BOOLEAN

LEMMA TypeParts == TypeOK <=> SlotsTaken /\ Shape /\ Flags
BY Zenon DEF TypeOK, SlotsTaken, Shape, Flags

\* The documents of the model: what is sent, and what an upsert makes of it.
LEMMA DocumentTypes ==
    ASSUME NEW r \in Requests
    PROVE  /\ Sent(r) \in Contents \ {None}
           /\ \A old \in Contents : Merged(r, old) \in Contents \ {None}
<1>1. Sent(r) \in [base : Requests, rest : [Fields -> Requests \cup {None}]]
  BY DEF Sent
<1>2. ASSUME NEW old \in Contents, old # None
      PROVE  Merged(r, old) \in [base : Requests, rest : [Fields -> Requests \cup {None}]]
  BY <1>1, <1>2 DEF Merged, Contents
<1>3. ASSUME NEW old \in Contents, old = None PROVE Merged(r, old) = Sent(r)
  BY <1>3 DEF Merged
<1> QED
  BY <1>1, <1>2, <1>3, SearchAssumption DEF Contents

\* What an upsert makes of a document reflects the request's own.
LEMMA UpsertReflected ==
    ASSUME NEW r \in Requests, NEW old \in Contents
    PROVE  Reflects(Sent(r), Merged(r, old))
<1>1. CASE old = None
  BY <1>1 DEF Merged, Reflects
<1>2. CASE old # None
  <2>1. Sent(r) # None /\ Merged(r, old) # None
    BY DocumentTypes
  <2>2. Merged(r, old).base = r /\ Sent(r).base = r
    BY <1>2 DEF Merged, Sent
  <2>3. \A f \in Fields \ Keeps[r] : Sent(r).rest[f] = Merged(r, old).rest[f]
    BY <1>2 DEF Merged
  <2> QED
    BY <2>1, <2>2, <2>3 DEF Reflects
<1> QED
  BY <1>1, <1>2

LEMMA InitType == Init => SlotInv
<1> SUFFICES ASSUME Init PROVE SlotInv
  OBVIOUS
<1>1. SlotsTaken
  BY FS_EmptySet, SearchAssumption DEF Init, SlotsTaken
<1>2. Shape
  BY SearchAssumption DEF Init, Shape, Contents
<1>3. Flags
  BY Zenon DEF Init, Flags
<1>4. HandedOver
  BY DEF Init, HandedOver
<1> QED
  BY <1>1, <1>2, <1>3, <1>4, TypeParts DEF SlotInv

-----------------------------------------------------------------------------
(* Slots.                                                                  *)

LEMMA RunningFinite == SlotsTaken => IsFiniteSet(running)
BY FS_Subset, SearchAssumption DEF SlotsTaken

\* The only steps that take or give back a slot are those of a goroutine's life.
LEMMA NextSlots ==
    ASSUME SlotsTaken, Shape, HandedOver, [Next]_vars
    PROVE  SlotsTaken' /\ HandedOver'
<1>0. IsFiniteSet(running) /\ Cardinality(running) \in Nat
  BY RunningFinite, FS_CardinalityType
<1>1. ASSUME NEW r \in Requests, Acquire(r) PROVE SlotsTaken' /\ HandedOver'
  <2>1. r \notin running
    BY <1>1 DEF Acquire, HandedOver
  <2>2. Cardinality(running \cup {r}) = Cardinality(running) + 1
    BY <2>1, <1>0, FS_AddElement
  <2>3. SlotsTaken'
    BY <1>0, <1>1, <2>2, SearchAssumption DEF Acquire, SlotsTaken
  <2>4. HandedOver'
    BY <1>1 DEF Acquire, HandedOver, Shape, SlotsTaken
  <2> QED
    BY <2>3, <2>4
<1>2. ASSUME NEW r \in Requests, Return(r) \/ TransportError(r)
      PROVE SlotsTaken' /\ HandedOver'
  <2>1. r \in running /\ running' = running \ {r} /\ slots' = slots - 1 /\ pc' = pc
    BY <1>2 DEF Return, TransportError, Release
  <2>2. Cardinality(running \ {r}) = Cardinality(running) - 1
    BY <2>1, <1>0, FS_RemoveElement
  <2>3. SlotsTaken'
    BY <1>0, <2>1, <2>2, SearchAssumption DEF SlotsTaken
  <2> QED
    BY <2>1, <2>3 DEF HandedOver
<1>3. CASE Restart
  BY <1>3, FS_EmptySet, SearchAssumption DEF Restart, SlotsTaken, HandedOver
<1>4. ASSUME NEW r \in Requests, UpsertOK(r) \/ UpsertFailed(r) \/ Skip(r)
      PROVE SlotsTaken' /\ HandedOver'
  <2>1. UNCHANGED goroutines /\ pc[r] \in {"new", "index"}
    BY <1>4 DEF UpsertOK, UpsertFailed, Skip
  <2>2. \A q \in Requests : q # r => pc'[q] = pc[q]
    BY <1>4 DEF UpsertOK, Upserted, UpsertFailed, Skip, Shape
  <2> QED
    BY <2>1, <2>2 DEF goroutines, SlotsTaken, HandedOver
<1>5. ASSUME UNCHANGED <<goroutines, pc>> PROVE SlotsTaken' /\ HandedOver'
  BY <1>5 DEF goroutines, SlotsTaken, HandedOver
<1>6. ASSUME NEW r \in Requests, Index(r) \/ Refuse(r) \/ Resend(r)
      PROVE UNCHANGED <<goroutines, pc>>
  BY <1>6 DEF Index, Refuse, Resend
<1>7. ASSUME Refresh \/ EnsureCheck \/ EnsureCreate \/ EnsureFailed
             \/ (\E d \in Docs : Search(d)) \/ UNCHANGED vars
      PROVE UNCHANGED <<goroutines, pc>>
  BY <1>7 DEF Refresh, EnsureCheck, EnsureCreate, EnsureFailed, Search, vars, goroutines
<1> QED
  BY <1>1, <1>2, <1>3, <1>4, <1>5, <1>6, <1>7 DEF Next, Write, Hand

-----------------------------------------------------------------------------
(* The rest of the type invariant.                                         *)

LEMMA NextShape ==
    ASSUME Shape, SlotsTaken, [Next]_vars PROVE Shape'
<1> USE SearchAssumption DEF Shape, Fault, NoFault, elastic, setup
<1>0. /\ \A r \in Requests : Sent(r) \in Contents /\ Merged(r, db[DocOf[r]]) \in Contents
      /\ None \in Contents
  <2>1. None \in Contents
    BY DEF Contents
  <2>2. ASSUME NEW r \in Requests
        PROVE  Sent(r) \in Contents /\ Merged(r, db[DocOf[r]]) \in Contents
    <3>1. db[DocOf[r]] \in Contents
      OBVIOUS
    <3> QED
      BY <3>1, DocumentTypes
  <2> QED
    BY <2>1, <2>2
<1>1. ASSUME NEW r \in Requests, UpsertOK(r) PROVE Shape'
  BY <1>0, <1>1 DEF UpsertOK, Upserted
<1>2. ASSUME NEW r \in Requests, UpsertFailed(r) PROVE Shape'
  BY <1>0, <1>2 DEF UpsertFailed
<1>3. ASSUME NEW r \in Requests, Acquire(r) PROVE Shape'
  BY <1>3 DEF Acquire
<1>4. ASSUME NEW r \in Requests, Skip(r) PROVE Shape'
  BY <1>4 DEF Skip
<1>5. ASSUME NEW r \in Requests, Return(r) \/ TransportError(r) PROVE Shape'
  BY <1>5 DEF Return, TransportError
<1>6. ASSUME NEW r \in Requests, Index(r) PROVE Shape'
  BY <1>0, <1>6 DEF Index
<1>7. ASSUME NEW r \in Requests, Refuse(r) \/ Resend(r) PROVE Shape'
  BY <1>7 DEF Refuse, Resend
<1>8. CASE Refresh
  BY <1>8 DEF Refresh
<1>9. CASE EnsureCheck \/ EnsureCreate \/ EnsureFailed
  BY <1>9 DEF EnsureCheck, EnsureCreate, EnsureFailed, Created
<1>10. CASE Restart
  BY <1>10 DEF Restart
<1>11. ASSUME NEW d \in Docs, Search(d) PROVE Shape'
  BY <1>0, <1>11 DEF Search, Failed, Found, Unavailable
<1>12. CASE UNCHANGED vars
  BY <1>12 DEF vars
<1> QED
  BY <1>1, <1>2, <1>3, <1>4, <1>5, <1>6, <1>7, <1>8, <1>9, <1>10, <1>11, <1>12
     DEF Next, Write, Hand

LEMMA TidySet ==
    ASSUME NEW d, NEW b, tidy \in [Docs -> BOOLEAN], b \in BOOLEAN,
           tidy' = [tidy EXCEPT ![d] = b]
    PROVE  tidy' \in [Docs -> BOOLEAN]
OBVIOUS

LEMMA NextFlags ==
    ASSUME Flags, [Next]_vars PROVE Flags'
<1>0. client \in BOOLEAN /\ tidy \in [Docs -> BOOLEAN] /\ raced \in BOOLEAN
  BY DEF Flags
<1>1. ASSUME NEW r \in Requests, Write(r) \/ Hand(r) \/ Refuse(r) PROVE Flags'
  <2>1. UNCHANGED <<client, raced>>
    BY <1>1 DEF Write, Hand, UpsertOK, UpsertFailed, Acquire, Skip, Refuse, setup
  <2>2. \/ tidy' = [tidy EXCEPT ![DocOf[r]] = client /\ ~UnderWay(DocOf[r])]
        \/ tidy' = [tidy EXCEPT ![DocOf[r]] = FALSE]
        \/ tidy' = tidy
    BY <1>1 DEF Write, Hand, UpsertOK, Upserted, UpsertFailed, Acquire, Skip, Refuse
  <2>3. (client /\ ~UnderWay(DocOf[r])) \in BOOLEAN /\ FALSE \in BOOLEAN
    BY Zenon
  <2>4. tidy' \in [Docs -> BOOLEAN]
    BY <1>0, <2>2, <2>3, TidySet
  <2> QED
    BY <1>0, <2>1, <2>4, Zenon DEF Flags
<1>2. ASSUME NEW r \in Requests, Index(r) PROVE Flags'
  <2>1. UNCHANGED <<client, tidy>> /\ raced' = (raced \/ mapping = "none")
    BY <1>2 DEF Index, setup
  <2> QED
    BY <1>0, <2>1, Zenon DEF Flags
<1>3. CASE EnsureFailed
  BY <1>0, <1>3, Zenon DEF Flags, EnsureFailed
<1>4. CASE Restart
  <2>1. client' \in BOOLEAN /\ raced' = raced
    BY <1>4, Zenon DEF Restart
  <2>2. tidy' \in [Docs -> BOOLEAN]
    BY <1>4, Zenon DEF Restart
  <2> QED
    BY <1>0, <2>1, <2>2, Zenon DEF Flags
<1>5. ASSUME UNCHANGED <<client, tidy, raced>> PROVE Flags'
  BY <1>0, <1>5, Zenon DEF Flags
<1>6. ASSUME NEW r \in Requests, Return(r) \/ TransportError(r) \/ Resend(r)
      PROVE UNCHANGED <<client, tidy, raced>>
  BY <1>6 DEF Return, TransportError, Resend, setup
<1>7. ASSUME Refresh \/ EnsureCheck \/ EnsureCreate \/ (\E d \in Docs : Search(d))
             \/ UNCHANGED vars
      PROVE UNCHANGED <<client, tidy, raced>>
  BY <1>7 DEF Refresh, EnsureCheck, EnsureCreate, Search, setup, vars
<1> QED
  BY <1>1, <1>2, <1>3, <1>4, <1>5, <1>6, <1>7 DEF Next

LEMMA NextSlotInv == SlotInv /\ [Next]_vars => SlotInv'
<1> SUFFICES ASSUME SlotInv, [Next]_vars PROVE SlotInv'
  OBVIOUS
<1>1. SlotsTaken /\ Shape /\ Flags /\ HandedOver
  BY TypeParts DEF SlotInv
<1>2. SlotsTaken' /\ HandedOver'
  BY <1>1, NextSlots
<1>3. Shape' /\ Flags'
  BY <1>1, NextShape, NextFlags
<1>4. TypeOK'
  BY <1>2, <1>3, Zenon DEF TypeOK, SlotsTaken, Shape, Flags
<1> QED
  BY <1>2, <1>4 DEF SlotInv

-----------------------------------------------------------------------------
(* Where documents come from.                                              *)

\* Nothing gets on its way to the index but by a successful upsert.
LEMMA OnItsWayStep ==
    ASSUME Shape, [Next]_vars, NEW q \in Requests, OnItsWay(q)'
    PROVE  \/ OnItsWay(q)
           \/ q \in stored'
<1> USE DEF OnItsWay, Shape, goroutines
<1>1. ASSUME NEW r \in Requests, Write(r) PROVE OnItsWay(q) \/ q \in stored'
  BY <1>1 DEF Write, UpsertOK, Upserted, UpsertFailed
<1>2. ASSUME NEW r \in Requests, Hand(r) PROVE OnItsWay(q)
  BY <1>2 DEF Hand, Acquire, Skip
<1>3. ASSUME NEW r \in Requests, Return(r) \/ TransportError(r) PROVE OnItsWay(q)
  BY <1>3 DEF Return, TransportError, Release
<1>4. ASSUME NEW r \in Requests, Index(r) \/ Refuse(r) \/ Resend(r) PROVE OnItsWay(q)
  BY <1>4 DEF Index, Refuse, Resend
<1>5. CASE Restart
  BY <1>5 DEF Restart
<1>6. ASSUME Refresh \/ EnsureCheck \/ EnsureCreate \/ EnsureFailed
             \/ (\E d \in Docs : Search(d)) \/ UNCHANGED vars
      PROVE OnItsWay(q)
  BY <1>6 DEF Refresh, EnsureCheck, EnsureCreate, EnsureFailed, Search, vars
<1> QED
  BY <1>1, <1>2, <1>3, <1>4, <1>5, <1>6 DEF Next

\* An executed write stays executed.
LEMMA StoredGrows == ASSUME [Next]_vars PROVE stored \subseteq stored'
BY DEF Next, Write, UpsertOK, Upserted, UpsertFailed, Hand, Acquire, Skip, Return,
       TransportError, Index, Refuse, Resend, Refresh, EnsureCheck, EnsureCreate,
       EnsureFailed, Search, Restart, vars

\* Provenance of one document in the index.
Indexed(d) == {index[d], visible[d]} \subseteq {Sent(r) : r \in stored} \cup {None}

LEMMA NextProvenance ==
    ASSUME Shape, Provenance, [Next]_vars PROVE Provenance'
<1>0. stored \subseteq stored'
  BY StoredGrows
<1>1. \A r \in Requests : OnItsWay(r)' => r \in stored'
  BY <1>0, OnItsWayStep DEF Provenance
<1>2. \A d \in Docs : Indexed(d)'
  <2>1. ASSUME NEW r \in Requests, Index(r)
        PROVE  \A d \in Docs : Indexed(d)'
    <3>1. r \in stored
      BY <2>1 DEF Index, Provenance, OnItsWay
    <3> QED
      BY <2>1, <3>1 DEF Index, Provenance, Indexed, Shape
  <2>2. CASE Refresh
    BY <2>2 DEF Refresh, Provenance, Indexed
  <2>3. CASE UNCHANGED <<index, visible>>
    BY <1>0, <2>3 DEF Provenance, Indexed
  <2>4. (\A r \in Requests : ~Index(r)) /\ ~Refresh => UNCHANGED <<index, visible>>
    BY DEF Next, Write, UpsertOK, UpsertFailed, Hand, Acquire, Skip, Return,
           TransportError, Refuse, Resend, EnsureCheck, EnsureCreate,
           EnsureFailed, Search, Restart, vars, elastic
  <2> QED
    BY <2>1, <2>2, <2>3, <2>4
<1>3. OnlyStoredFound'
  <2>1. ASSUME NEW d \in Docs, Search(d) PROVE OnlyStoredFound'
    BY <2>1 DEF Search, Failed, Found, Unavailable, Provenance, OnlyStoredFound
  <2>2. CASE reply' = reply
    BY <1>0, <2>2 DEF Provenance, OnlyStoredFound
  <2>3. (\A d \in Docs : ~Search(d)) => reply' = reply
    BY DEF Next, Write, UpsertOK, UpsertFailed, Hand, Acquire, Skip, Return,
           TransportError, Index, Refuse, Resend, Refresh, EnsureCheck, EnsureCreate,
           EnsureFailed, Restart, vars
  <2> QED
    BY <2>1, <2>2, <2>3
<1> QED
  BY <1>1, <1>2, <1>3 DEF Provenance, Indexed

-----------------------------------------------------------------------------
(* The last write.                                                         *)

\* LastOnItsWay of one document.
Last(d) ==
    tidy[d] =>
        /\ \A r \in Requests : DocOf[r] = d /\ OnItsWay(r) => Reflects(Sent(r), db[d])
        /\ \/ \E r \in Requests : DocOf[r] = d /\ (pc[r] = "index" \/ r \in net)
           \/ Reflects(index[d], db[d])

\* A step is about one document; what it leaves alone of another stays so.
LEMMA OtherDoc ==
    ASSUME NEW d \in Docs, Last(d),
           tidy'[d] => tidy[d], db'[d] = db[d], index'[d] = index[d],
           \A r \in Requests : DocOf[r] = d =>
               /\ pc'[r] = "index" <=> pc[r] = "index"
               /\ r \in running' => OnItsWay(r)
               /\ r \in net' <=> r \in net
    PROVE  Last(d)'
BY DEF Last, OnItsWay

LEMMA NextLast ==
    ASSUME Shape, Flags, SlotsTaken, NEW d \in Docs, Last(d), [Next]_vars
    PROVE  Last(d)'
<1> USE SearchAssumption DEF goroutines, elastic
<1>0. /\ pc \in [Requests -> {"new", "index", "done", "skipped"}]
      /\ DOMAIN tidy = Docs /\ DOMAIN db = Docs /\ DOMAIN index = Docs
      /\ running \subseteq Requests /\ net \subseteq Requests
  BY DEF Shape, Flags, SlotsTaken
<1>1. ASSUME NEW r \in Requests, UpsertOK(r) PROVE Last(d)'
  <2>1. CASE DocOf[r] = d
    <3>1. SUFFICES ASSUME tidy'[d] PROVE Last(d)'
      BY DEF Last
    <3>2. client /\ ~UnderWay(d)
      BY <1>0, <1>1, <2>1, <3>1 DEF UpsertOK, Upserted
    <3>3. \A q \in Requests : DocOf[q] = d /\ OnItsWay(q)' => q = r
      BY <1>0, <1>1, <3>2 DEF UpsertOK, Upserted, OnItsWay, UnderWay
    <3>4. db'[d] = Merged(r, db[d]) /\ pc'[r] = "index"
      BY <1>0, <1>1, <2>1, <3>2 DEF UpsertOK, Upserted
    <3>5. Reflects(Sent(r), db'[d])
      BY <3>4, UpsertReflected DEF Shape
    <3> QED
      BY <2>1, <3>3, <3>4, <3>5 DEF Last
  <2>2. CASE DocOf[r] # d
    BY <1>0, <1>1, <2>2, OtherDoc DEF UpsertOK, Upserted, OnItsWay
  <2> QED
    BY <2>1, <2>2
<1>2. ASSUME NEW r \in Requests, UpsertFailed(r) PROVE Last(d)'
  <2>1. CASE tidy'[d] = FALSE
    BY <2>1 DEF Last
  <2>2. CASE UNCHANGED <<db, stored, tidy>> \/ DocOf[r] # d
    BY <1>0, <1>2, <2>2, OtherDoc DEF UpsertFailed, OnItsWay
  <2> QED
    BY <1>0, <1>2, <2>1, <2>2 DEF UpsertFailed
<1>3. ASSUME NEW r \in Requests, Acquire(r) PROVE Last(d)'
  <2>1. CASE DocOf[r] = d
    BY <1>0, <1>3, <2>1 DEF Acquire, Last, OnItsWay
  <2>2. CASE DocOf[r] # d
    BY <1>0, <1>3, <2>2, OtherDoc DEF Acquire, OnItsWay
  <2> QED
    BY <2>1, <2>2
<1>4. ASSUME NEW r \in Requests, Skip(r) \/ Refuse(r) PROVE Last(d)'
  <2>1. CASE DocOf[r] = d
    <3>1. tidy'[d] = FALSE
      BY <1>0, <1>4, <2>1 DEF Skip, Refuse
    <3> QED
      BY <3>1 DEF Last
  <2>2. CASE DocOf[r] # d
    BY <1>0, <1>4, <2>2, OtherDoc DEF Skip, Refuse, OnItsWay
  <2> QED
    BY <2>1, <2>2
<1>5. ASSUME NEW r \in Requests, Return(r) \/ TransportError(r) PROVE Last(d)'
  BY <1>0, <1>5, OtherDoc DEF Return, TransportError, Release, OnItsWay
<1>6. ASSUME NEW r \in Requests, Index(r) PROVE Last(d)'
  <2>1. CASE DocOf[r] = d
    <3>1. SUFFICES ASSUME tidy[d] PROVE Last(d)'
      BY <1>6 DEF Index, Last
    <3>2. Reflects(Sent(r), db[d]) /\ index'[d] = Sent(r) /\ db' = db
      BY <1>0, <1>6, <2>1, <3>1 DEF Index, Last, OnItsWay
    <3> QED
      BY <1>6, <3>1, <3>2 DEF Index, Last, OnItsWay
  <2>2. CASE DocOf[r] # d
    BY <1>0, <1>6, <2>2, OtherDoc DEF Index, OnItsWay
  <2> QED
    BY <2>1, <2>2
<1>7. ASSUME NEW r \in Requests, Resend(r) PROVE Last(d)'
  BY <1>0, <1>7 DEF Resend, Last, OnItsWay
<1>8. CASE Restart
  <2>1. SUFFICES ASSUME tidy'[d] PROVE Last(d)'
    BY DEF Last
  <2>2. tidy[d] /\ \A r \in Requests : DocOf[r] = d => pc[r] # "index"
    BY <1>8, <2>1 DEF Restart
  <2> QED
    BY <1>0, <1>8, <2>2 DEF Restart, Last, OnItsWay
<1>9. ASSUME Refresh \/ EnsureCheck \/ EnsureCreate \/ EnsureFailed
             \/ (\E e \in Docs : Search(e)) \/ UNCHANGED vars
      PROVE Last(d)'
  BY <1>9, OtherDoc
     DEF Refresh, EnsureCheck, EnsureCreate, EnsureFailed, Search, vars, OnItsWay
<1> QED
  BY <1>1, <1>2, <1>3, <1>4, <1>5, <1>6, <1>7, <1>8, <1>9 DEF Next, Write, Hand

-----------------------------------------------------------------------------
(* The mapping.                                                            *)

LEMMA NextMapping ==
    ASSUME Shape, Flags, MappingFirst, [Next]_vars PROVE MappingFirst'
<1>1. ASSUME UNCHANGED <<mapping, raced, setup>> PROVE MappingFirst'
  BY <1>1 DEF MappingFirst, setup
<1>2. ASSUME NEW r \in Requests, Index(r) PROVE MappingFirst'
  BY <1>2 DEF Index, MappingFirst, setup, Shape
<1>3. CASE EnsureCheck
  BY <1>3 DEF EnsureCheck, MappingFirst, elastic, Shape
<1>4. CASE EnsureCreate
  BY <1>4 DEF EnsureCreate, Created, MappingFirst, Shape
<1>5. CASE EnsureFailed
  BY <1>5 DEF EnsureFailed, MappingFirst
<1>6. CASE Restart
  BY <1>6 DEF Restart, MappingFirst, elastic
<1>7. ASSUME NEW r \in Requests,
             Write(r) \/ Hand(r) \/ Return(r) \/ TransportError(r) \/ Refuse(r) \/ Resend(r)
      PROVE  UNCHANGED <<mapping, raced, setup>>
  BY <1>7 DEF Write, UpsertOK, UpsertFailed, Hand, Acquire, Skip, Return, TransportError,
              Refuse, Resend, elastic
<1>8. ASSUME Refresh \/ (\E d \in Docs : Search(d)) \/ UNCHANGED vars
      PROVE  UNCHANGED <<mapping, raced, setup>>
  BY <1>8 DEF Refresh, Search, vars, elastic, setup
<1> QED
  BY <1>1, <1>2, <1>3, <1>4, <1>5, <1>6, <1>7, <1>8 DEF Next

-----------------------------------------------------------------------------
(* The inductive invariant.                                                *)

LEMMA InitInv == Init => Inv
<1> SUFFICES ASSUME Init PROVE Inv
  OBVIOUS
<1>1. SlotInv
  BY InitType
<1>2. Provenance
  BY DEF Init, Provenance, OnItsWay, OnlyStoredFound
<1>3. LastOnItsWay
  BY DEF Init, LastOnItsWay, OnItsWay, Reflects
<1>4. MappingFirst
  BY DEF Init, MappingFirst
<1> QED
  BY <1>1, <1>2, <1>3, <1>4 DEF Inv

LEMMA NextInv == Inv /\ [Next]_vars => Inv'
<1> SUFFICES ASSUME Inv, [Next]_vars PROVE Inv'
  OBVIOUS
<1>1. SlotInv /\ SlotInv'
  BY NextSlotInv DEF Inv
<1>2. SlotsTaken /\ Shape /\ Flags
  BY <1>1, TypeParts DEF SlotInv
<1>3. Provenance'
  BY <1>2, NextProvenance DEF Inv
<1>4. \A d \in Docs : Last(d)
  BY Zenon DEF Inv, LastOnItsWay, Last
<1>5. \A d \in Docs : Last(d)'
  BY <1>2, <1>4, NextLast
<1>6. LastOnItsWay'
  BY <1>5, Zenon DEF LastOnItsWay, Last
<1>7. MappingFirst'
  BY <1>2, NextMapping DEF Inv
<1> QED
  BY <1>1, <1>3, <1>6, <1>7 DEF Inv

LEMMA SpecInv == Spec => []Inv
<1> QED
  BY InitInv, NextInv, PTL DEF Spec

-----------------------------------------------------------------------------
(* Theorems.                                                               *)

\* The state is well-formed; in particular every goroutine of indexProfileToES and
\* indexOrderToES gives its slot back exactly once, however it ends.
THEOREM TypeCorrect == Spec => []TypeOK
<1>1. Inv => TypeOK
  BY DEF Inv, SlotInv
<1> QED
  BY <1>1, SpecInv, PTL

\* SearchUsers and SearchOrders show nobody the document of a write that the
\* database has not executed.
THEOREM OnlyStoredShown == Spec => []OnlyStoredFound
<1>1. Inv => OnlyStoredFound
  BY DEF Inv, Provenance
<1> QED
  BY <1>1, SpecInv, PTL

\* A write that nothing older was racing with, and whose own indexing was not
\* disturbed, leaves the index with what the database holds, but for the fields
\* which the write's statement left alone in the database (the $set of a profile
\* with omitted fields, ON DUPLICATE KEY UPDATE of an order), whatever the other
\* documents, the retries of the transport, late answers and restarts do.
THEOREM LastWriteWins == Spec => []LastWriteIndexed
<1>1. ASSUME Inv PROVE LastWriteIndexed
  <2>1. LastOnItsWay
    BY <1>1 DEF Inv
  <2> QED
    BY <2>1 DEF LastOnItsWay, LastWriteIndexed, UnderWay, OnItsWay
<1> QED
  BY <1>1, SpecInv, PTL

\* Once the goroutine of EnsureSearchIndexes is done, the index has its mapping,
\* unless a document arrived in a missing index first or one of its requests failed.
THEOREM MappingExplicit == Spec => []MappingFirst
<1>1. Inv => MappingFirst
  BY DEF Inv
<1> QED
  BY <1>1, SpecInv, PTL
=============================================================================
