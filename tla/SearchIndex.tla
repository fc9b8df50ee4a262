----------------------------- MODULE SearchIndex -----------------------------
(***************************************************************************)
(* The search index in Elasticsearch and the path that fills it: a request *)
(* stores a document in its database and hands it to a goroutine, at most  *)
(* MaxConcurrency of them, that sends it to Elasticsearch.  Nothing orders *)
(* the goroutines and no version travels with the document.  Meanwhile     *)
(* EnsureSearchIndexes creates the index and searches read it.             *)
(*                                                                         *)
(* Sources: internal/database/elasticsearch.go; UpsertProfile,             *)
(* indexProfileToES and SearchUsers of                                     *)
(* internal/service/user_profile_service.go, and their counterparts        *)
(* dbWrite, indexOrderToES and SearchOrders of                             *)
(* internal/service/order_service.go, which take the same steps with a     *)
(* limit of their own; UpsertUserProfile and the search handlers of        *)
(* internal/handler/business_handler.go; cmd/server/main.go.               *)
(*                                                                         *)
(* The text of queries, paging and scores are left out: a search is about  *)
(* one document, which matches.  The cache steps of a write are in         *)
(* MultiLevelCache.                                                        *)
(*                                                                         *)
(* A statement may leave fields of a document that exists alone: the $set  *)
(* of MongoDB those that omitempty drops from an empty profile (id, bio,   *)
(* tags), ON DUPLICATE KEY UPDATE those it does not name (user_id,         *)
(* created_at).  Elasticsearch is sent the request's own document and      *)
(* replaces the old one with it.                                           *)
(***************************************************************************)
EXTENDS Naturals, FiniteSets

CONSTANTS
    Requests,        \* the writes, each with values of its own
    Docs, DocOf,     \* the documents, and the one each request writes
    Fields,          \* the fields that not every write sets
    Carries,         \* of each request, the ones it has a value for
    Keeps,           \* and the ones it leaves alone in a document that exists
    None,            \* no document
    MaxConcurrency,  \* the capacity of esSemaphore
    MaxFaults        \* bound: failing calls and restarts in a behaviour

ASSUME SearchAssumption ==
    /\ IsFiniteSet(Requests) /\ DocOf \in [Requests -> Docs]
    /\ Carries \in [Requests -> SUBSET Fields] /\ Keeps \in [Requests -> SUBSET Fields]
    /\ None \notin [base : Requests, rest : [Fields -> Requests \cup {None}]]
    /\ MaxConcurrency \in Nat \ {0} /\ MaxFaults \in Nat

VARIABLES
    db,        \* documents: the contents in MongoDB or MySQL
    stored,    \* the writes the database has executed
    pc,        \* requests: where they are
    slots,     \* the length of the channel esSemaphore
    running,   \* requests whose indexing goroutine runs
    net,       \* requests whose document is on its way to Elasticsearch
    index,     \* documents: the contents Elasticsearch holds
    visible,   \* documents: as of the last refresh, what searches see
    mapping,   \* the index: "none", or whose mapping it has
    ensure,    \* the goroutine of EnsureSearchIndexes
    client,    \* searchClient # nil
    reply,     \* what the last search was told
    faults,
    tidy,      \* observer: see UpsertOK
    raced      \* observer: see Index

goroutines == <<slots, running>>
elastic    == <<index, visible, mapping>>
setup      == <<ensure, client>>
vars       == <<db, stored, pc, slots, running, net, index, visible, mapping,
                ensure, client, reply, faults, tidy, raced>>

\* Contents are the write that set the common fields, and for every other field
\* the write its value is from, None if it has none.
Contents == [base : Requests, rest : [Fields -> Requests \cup {None}]] \cup {None}

Init ==
    /\ db = [d \in Docs |-> None] /\ stored = {}
    /\ pc = [r \in Requests |-> "new"]
    /\ slots = 0 /\ running = {} /\ net = {}
    /\ index = [d \in Docs |-> None] /\ visible = index
    /\ mapping = "none"
    /\ client \in BOOLEAN
    /\ ensure = IF client THEN "check" ELSE "done"
    /\ reply = [status |-> 200, hit |-> None]
    /\ faults = 0
    /\ tidy = [d \in Docs |-> TRUE] /\ raced = FALSE

Fault == faults < MaxFaults /\ faults' = faults + 1
NoFault == UNCHANGED faults

-----------------------------------------------------------------------------
(* The write.                                                              *)

\* The request's own document, which IndexUserProfile and IndexOrder marshal.
Sent(r) == [base |-> r, rest |-> [f \in Fields |-> IF f \in Carries[r] THEN r ELSE None]]

\* The upsert: a new document is the request's own, an old one keeps some fields.
Merged(r, old) ==
    IF old = None THEN Sent(r)
    ELSE [base |-> r,
          rest |-> [f \in Fields |-> IF f \in Keeps[r] THEN old.rest[f] ELSE Sent(r).rest[f]]]

OnItsWay(r) == pc[r] = "index" \/ r \in running \cup net
UnderWay(d) == \E r \in Requests : DocOf[r] = d /\ OnItsWay(r)

\* Mutant of Upserted: only a new profile is indexed.
UpsertedNewOnly(r) ==
    /\ db' = [db EXCEPT ![DocOf[r]] = Merged(r, @)] /\ stored' = stored \cup {r}
    /\ pc' = [pc EXCEPT ![r] = IF client /\ db[DocOf[r]] = None THEN "index" ELSE "done"]
    /\ tidy' = [tidy EXCEPT ![DocOf[r]] = client /\ ~UnderWay(DocOf[r])]

\* Upsert wrote the document; without a client it is not indexed.  tidy records
\* that nothing older was still on its way into the index.
Upserted(r) ==
    /\ db' = [db EXCEPT ![DocOf[r]] = Merged(r, @)] /\ stored' = stored \cup {r}
    /\ pc' = [pc EXCEPT ![r] = IF client THEN "index" ELSE "done"]
    /\ tidy' = [tidy EXCEPT ![DocOf[r]] = client /\ ~UnderWay(DocOf[r])]

UpsertOK(r) ==
    /\ pc[r] = "new"
    /\ Upserted(r)
    /\ NoFault
    /\ UNCHANGED <<goroutines, net, elastic, setup, reply, raced>>

\* Mutant of UpsertFailed: the error is only logged.
UpsertFailedIndexed(r) ==
    /\ pc[r] = "new"
    /\ pc' = [pc EXCEPT ![r] = "index"]
    /\ Fault
    /\ UNCHANGED <<db, stored, tidy, goroutines, net, elastic, setup, reply, raced>>

\* Upsert returned an error, "not available" included: the request ends.  The
\* database may have executed the statement all the same.
UpsertFailed(r) ==
    /\ pc[r] = "new"
    /\ pc' = [pc EXCEPT ![r] = "done"]
    /\ \/ UNCHANGED <<db, stored, tidy>>
       \/ /\ db' = [db EXCEPT ![DocOf[r]] = Merged(r, @)] /\ stored' = stored \cup {r}
          /\ tidy' = [tidy EXCEPT ![DocOf[r]] = FALSE]
    /\ Fault
    /\ UNCHANGED <<goroutines, net, elastic, setup, reply, raced>>

\* indexProfileToES with a free slot: the goroutine sends the document.
Acquire(r) ==
    /\ pc[r] = "index" /\ slots < MaxConcurrency
    /\ slots' = slots + 1
    /\ running' = running \cup {r} /\ net' = net \cup {r}
    /\ pc' = [pc EXCEPT ![r] = "done"]
    /\ UNCHANGED <<db, stored, elastic, setup, reply, faults, tidy, raced>>

\* The default branch of its select: the document is not indexed.
Skip(r) ==
    /\ pc[r] = "index" /\ slots = MaxConcurrency
    /\ pc' = [pc EXCEPT ![r] = "skipped"]
    /\ tidy' = [tidy EXCEPT ![DocOf[r]] = FALSE]
    /\ UNCHANGED <<db, stored, goroutines, net, elastic, setup, reply, faults, raced>>

\* Mutant of Release: the slot stays taken.
ReleaseNothing(r) ==
    /\ running' = running \ {r} /\ UNCHANGED slots

\* The goroutine ends; its deferred function takes one token from the channel.
Release(r) ==
    /\ running' = running \ {r} /\ slots' = slots - 1

\* Elasticsearch has answered, and any answer will do.
Return(r) ==
    /\ r \in running \ net
    /\ Release(r)
    /\ UNCHANGED <<db, stored, pc, net, elastic, setup, reply, faults, tidy, raced>>

\* Mutant of TransportError: only an answer gives the slot back.
TransportErrorNoRelease(r) ==
    /\ r \in running \cap net
    /\ running' = running \ {r}
    /\ Fault
    /\ UNCHANGED <<db, stored, pc, slots, net, elastic, setup, reply, tidy, raced>>

\* req.Do failed, and the document may still arrive.
TransportError(r) ==
    /\ r \in running \cap net
    /\ Release(r)
    /\ Fault
    /\ UNCHANGED <<db, stored, pc, net, elastic, setup, reply, tidy, raced>>

-----------------------------------------------------------------------------
(* Elasticsearch.                                                          *)

\* The document replaces what the index holds, whichever is newer.  The first
\* one creates a missing index, without the mapping of EnsureSearchIndexes;
\* raced records it.
Index(r) ==
    /\ r \in net
    /\ net' = net \ {r}
    /\ index' = [index EXCEPT ![DocOf[r]] = Sent(r)]
    /\ mapping' = IF mapping = "none" THEN "dynamic" ELSE mapping
    /\ raced' = (raced \/ mapping = "none")
    /\ UNCHANGED <<db, stored, pc, goroutines, visible, setup, reply, faults, tidy>>

\* The document is lost on the way, or refused: an error status is logged for
\* orders and not looked at for profiles.
Refuse(r) ==
    /\ r \in net
    /\ net' = net \ {r}
    /\ tidy' = [tidy EXCEPT ![DocOf[r]] = FALSE]
    /\ Fault
    /\ UNCHANGED <<db, stored, pc, goroutines, elastic, setup, reply, raced>>

\* The transport sends again after a 502, 503 or 504, although the document
\* may have been indexed.
Resend(r) ==
    /\ r \in running \ net
    /\ net' = net \cup {r}
    /\ Fault
    /\ UNCHANGED <<db, stored, pc, goroutines, elastic, setup, reply, tidy, raced>>

\* IndexRequest asks for no refresh, Elasticsearch makes one every second.
Refresh ==
    /\ visible # index
    /\ visible' = index
    /\ UNCHANGED <<db, stored, pc, goroutines, net, index, mapping, setup, reply,
                   faults, tidy, raced>>

-----------------------------------------------------------------------------
(* EnsureSearchIndexes, for one index: a check, then the creation.  The    *)
(* other index goes through the same steps, whatever becomes of the first. *)

\* Any status but 200 leads to the creation.
EnsureCheck ==
    /\ ensure = "check"
    /\ \/ ensure' = (IF mapping = "none" THEN "create" ELSE "done") /\ NoFault
       \/ ensure' = "create" /\ Fault
    /\ UNCHANGED <<db, stored, pc, goroutines, net, elastic, client, reply, tidy, raced>>

Created == mapping' = IF mapping = "none" THEN "explicit" ELSE mapping

\* Creation of an index that exists by now is refused, and logged as created.
EnsureCreate ==
    /\ ensure = "create"
    /\ ensure' = "done"
    /\ Created
    /\ UNCHANGED <<db, stored, pc, goroutines, net, index, visible, client, reply,
                   faults, tidy, raced>>

\* Either request fails: logged, and not tried again.
EnsureFailed ==
    /\ ensure \in {"check", "create"}
    /\ ensure' = "done"
    /\ UNCHANGED mapping \/ (ensure = "create" /\ Created)
    /\ raced' = TRUE
    /\ Fault
    /\ UNCHANGED <<db, stored, pc, goroutines, net, index, visible, client, reply, tidy>>

-----------------------------------------------------------------------------
(* Searches.                                                               *)

\* handleServiceError: "elasticsearch not available" is a 503, other errors are
\* a 500.
Unavailable == [status |-> 503, hit |-> None]
Failed      == [status |-> 500, hit |-> None]
Found(x)    == [status |-> 200, hit |-> x]

\* executeUserSearch: an error status is not looked at, its body, that of a
\* missing index included, decodes to no hits.
Search(d) ==
    /\ IF client
       THEN reply' \in {Failed, Found(None)}
                       \cup (IF mapping = "none" THEN {} ELSE {Found(visible[d])})
       ELSE reply' = Unavailable
    /\ UNCHANGED <<db, stored, pc, goroutines, net, elastic, setup, faults, tidy, raced>>

-----------------------------------------------------------------------------
\* The process dies with its goroutines and starts again; it has a client if
\* the ping of ConnectElasticsearch succeeds.  Documents already sent arrive.
Restart ==
    /\ Fault
    /\ pc' = [r \in Requests |-> IF pc[r] = "index" THEN "done" ELSE pc[r]]
    /\ slots' = 0 /\ running' = {}
    /\ client' \in BOOLEAN
    /\ ensure' = IF client' THEN "check" ELSE "done"
    /\ tidy' = [d \in Docs |-> tidy[d] /\ ~\E r \in Requests : DocOf[r] = d /\ pc[r] = "index"]
    /\ UNCHANGED <<db, stored, net, elastic, reply, raced>>

Write(r) == UpsertOK(r) \/ UpsertFailed(r)
Hand(r)  == Acquire(r) \/ Skip(r)

Next ==
    \/ \E r \in Requests : Write(r) \/ Hand(r) \/ Return(r) \/ TransportError(r)
    \/ \E r \in Requests : Index(r) \/ Refuse(r) \/ Resend(r)
    \/ Refresh \/ EnsureCheck \/ EnsureCreate \/ EnsureFailed \/ Restart
    \/ \E d \in Docs : Search(d)

Spec == Init /\ [][Next]_vars

\* Go runs a ready goroutine, and Elasticsearch answers in the end and refreshes.
Fairness ==
    /\ \A r \in Requests : WF_vars(Hand(r)) /\ WF_vars(Return(r)) /\ WF_vars(Index(r))
    /\ WF_vars(EnsureCheck \/ EnsureCreate) /\ WF_vars(Refresh)

FairSpec == Spec /\ Fairness

-----------------------------------------------------------------------------
\* The state is well-formed; the taken slots are those of running goroutines, on
\* every path out of one, so that a document is skipped only when that many run.
TypeOK ==
    /\ slots = Cardinality(running) /\ slots <= MaxConcurrency
    /\ db \in [Docs -> Contents] /\ stored \subseteq Requests
    /\ pc \in [Requests -> {"new", "index", "done", "skipped"}]
    /\ running \subseteq Requests /\ net \subseteq Requests
    /\ index \in [Docs -> Contents] /\ visible \in [Docs -> Contents]
    /\ mapping \in {"none", "dynamic", "explicit"}
    /\ ensure \in {"check", "create", "done"} /\ client \in BOOLEAN
    /\ reply \in [status : {200, 500, 503}, hit : Contents]
    /\ faults \in 0..MaxFaults
    /\ tidy \in [Docs -> BOOLEAN] /\ raced \in BOOLEAN

\* A search shows nobody the document of a write that the database has not
\* executed, whatever upserts fail or are cut off (UpsertProfile returns before
\* indexProfileToES).
OnlyStoredFound == reply.hit = None \/ \E r \in stored : reply.hit = Sent(r)

\* The indexed document x is that of the row's last write: they differ in fields
\* which that write left alone, if at all.
Reflects(x, row) ==
    \/ x = row
    \/ /\ x # None /\ row # None /\ x.base = row.base
       /\ \A f \in Fields \ Keeps[row.base] : x.rest[f] = row.rest[f]

\* Order is restored: if nothing older was on its way into the index when a
\* document was last stored, and that write's own indexing was neither skipped,
\* refused nor cut off, then as soon as it is over the index holds what the
\* database holds, whatever went wrong before, but for the fields which that
\* write's statement left alone and its document replaced (the bio and tags of a
\* profile sent without them stay in MongoDB and vanish from the index).
LastWriteIndexed == \A d \in Docs : tidy[d] /\ ~UnderWay(d) => Reflects(index[d], db[d])

\* Writes and faults being over, every slot comes back, searches see the last
\* write of each document that was undisturbed by others, and the index has
\* the mapping of EnsureSearchIndexes unless a document came first, which may
\* happen between its check and its creation too, or a request of its own failed.
SearchSettles ==
    <>[](/\ slots = 0
         /\ \A d \in Docs : tidy[d] => Reflects(visible[d], db[d])
         /\ client /\ ~raced => mapping = "explicit")

-----------------------------------------------------------------------------
(* The inductive invariants of the proofs.                                 *)

\* A goroutine belongs to a request that has handed its document over, so that
\* no slot is taken twice for one request.
HandedOver == \A r \in running : pc[r] \notin {"new", "index"}

SlotInv == TypeOK /\ HandedOver

\* Whatever is on its way into the index, in it or shown is of an executed write.
Provenance ==
    /\ \A r \in Requests : OnItsWay(r) => r \in stored
    /\ \A d \in Docs : {index[d], visible[d]} \subseteq {Sent(r) : r \in stored} \cup {None}
    /\ OnlyStoredFound

\* LastWriteIndexed before its indexing is over: what is on its way for a tidy
\* document reflects what the database holds, and the index holds it from its arrival
\* on, although the goroutine still waits for the answer or sends it again.
LastOnItsWay ==
    \A d \in Docs : tidy[d] =>
        /\ \A r \in Requests : DocOf[r] = d /\ OnItsWay(r) => Reflects(Sent(r), db[d])
        /\ \/ \E r \in Requests : DocOf[r] = d /\ (pc[r] = "index" \/ r \in net)
           \/ Reflects(index[d], db[d])

\* The safety part of SearchSettles about the mapping: only a document that came
\* first, or a failed request, leaves the index without that of EnsureSearchIndexes
\* once its goroutine is done.
MappingFirst ==
    /\ mapping = "dynamic" => raced
    /\ client /\ ensure = "done" /\ ~raced => mapping = "explicit"

Inv == SlotInv /\ Provenance /\ LastOnItsWay /\ MappingFirst
=============================================================================
