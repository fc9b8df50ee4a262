-------------------------- MODULE AnalyticsService --------------------------
(***************************************************************************)
(* The buffered behaviour log: request goroutines put entries on bufCh,    *)
(* batchWriter collects them into batches, a goroutine per batch inserts   *)
(* it into PostgreSQL, and main closes the service before it drains the    *)
(* HTTP server.                                                            *)
(*                                                                         *)
(* Sources: internal/service/analytics_service.go; LogBehaviorBatch of     *)
(* internal/database/postgres.go; handleCreateOrder of                     *)
(* internal/handler/business_handler.go; the shutdown in                   *)
(* cmd/server/main.go.                                                     *)
(*                                                                         *)
(* Every entry is the order of one request.  No property depends on the    *)
(* order of entries, so the channel and the batches are sets.              *)
(*                                                                         *)
(* PostgreSQL was connected when the process started.  The degraded mode   *)
(* without it is left out: LogBehaviorBatch then returns nil at once and   *)
(* the batch is discarded as if it had been written.                       *)
(***************************************************************************)
EXTENDS Naturals, FiniteSets

CONSTANTS
    Entries,    \* the orders whose creation is logged
    BufSize,    \* bufChannelSize
    BatchSize,  \* batchSize
    PGFaults    \* TRUE iff PostgreSQL may fail an INSERT

ASSUME AnalyticsAssumption ==
    /\ IsFiniteSet(Entries)
    /\ BufSize \in Nat \ {0}
    /\ BatchSize \in Nat \ {0}
    /\ PGFaults \in BOOLEAN

VARIABLES
    rpc,      \* requests: "new", "log", "full", "again", "done"
    bufCh,    \* the entries in the channel
    flushCh,  \* the one-slot channel holds a signal
    batch,    \* batchWriter's batch
    wpc,      \* batchWriter: "select", "drain", "closing", "done"
    writers,  \* the batches of the goroutines flush has started
    written,  \* the rows in PostgreSQL
    failed,   \* entries of a batch whose INSERT returned an error
    dropped,  \* entries LogOrderCreated gave up
    main,     \* main: "serving", "closing", "draining", "exited"
    early     \* history: what had been logged when closeCh was closed

requests == <<rpc, dropped>>
batcher  == <<flushCh, batch, wpc, writers>>
postgres == <<written, failed>>
ending   == <<main, early>>
vars     == <<rpc, bufCh, flushCh, batch, wpc, writers, written, failed,
              dropped, main, early>>

Logged == {e \in Entries : rpc[e] = "done"}

Init ==
    /\ rpc = [e \in Entries |-> "new"]
    /\ bufCh = {}
    /\ flushCh = FALSE
    /\ batch = {}
    /\ wpc = "select"
    /\ writers = {}
    /\ written = {} /\ failed = {}
    /\ dropped = {}
    /\ main = "serving"
    /\ early = {}

-----------------------------------------------------------------------------
(* Requests.                                                               *)

RStep(e, from, to) ==
    /\ main # "exited"
    /\ rpc[e] = from
    /\ rpc' = [rpc EXCEPT ![e] = to]

Room == Cardinality(bufCh) < BufSize

\* handleCreateOrder has stored or sent the order.  The server accepts
\* requests until main calls Shutdown.
Serve(e) ==
    /\ main \in {"serving", "closing"}
    /\ RStep(e, "new", "log")
    /\ UNCHANGED <<bufCh, dropped, batcher, postgres, ending>>

\* LogOrderCreated: the first attempt to send ...
LogOrderCreated(e) ==
    /\ Room
    /\ RStep(e, "log", "done")
    /\ bufCh' = bufCh \cup {e}
    /\ UNCHANGED <<dropped, batcher, postgres, ending>>

LogFull(e) ==
    /\ ~Room
    /\ RStep(e, "log", "full")
    /\ UNCHANGED <<bufCh, dropped, batcher, postgres, ending>>

\* ... signalFlush, which does not wait for the flush ...
signalFlush(e) ==
    /\ RStep(e, "full", "again")
    /\ flushCh' = TRUE
    /\ UNCHANGED <<bufCh, dropped, batch, wpc, writers, postgres, ending>>

\* ... and the second attempt, after which the entry is dropped.
LogAgain(e) ==
    /\ RStep(e, "again", "done")
    /\ IF Room THEN bufCh' = bufCh \cup {e} /\ UNCHANGED dropped
               ELSE dropped' = dropped \cup {e} /\ UNCHANGED bufCh
    /\ UNCHANGED <<batcher, postgres, ending>>

-----------------------------------------------------------------------------
(* batchWriter.                                                            *)

\* Mutant of flush: the batch is not reset.
flushKeep(b) ==
    /\ batch' = b
    /\ writers' = IF b = {} THEN writers ELSE writers \cup {b}

\* flush with the batch b: start a goroutine for it, unless it is empty.
flush(b) ==
    /\ batch' = {}
    /\ writers' = IF b = {} THEN writers ELSE writers \cup {b}

\* Mutant of Receive: the comparison is off by one.
ReceiveOneMore(e) ==
    LET b == batch \cup {e} IN
    /\ e \in bufCh
    /\ bufCh' = bufCh \ {e}
    /\ IF Cardinality(b) > BatchSize THEN flush(b) ELSE batch' = b /\ UNCHANGED writers

\* An entry moves from the channel to the batch, which is flushed when full.
Receive(e) ==
    LET b == batch \cup {e} IN
    /\ e \in bufCh
    /\ bufCh' = bufCh \ {e}
    /\ IF Cardinality(b) >= BatchSize THEN flush(b) ELSE batch' = b /\ UNCHANGED writers

\* The four cases of the select.
TakeEntry(e) ==
    /\ wpc = "select"
    /\ Receive(e)
    /\ UNCHANGED <<requests, flushCh, wpc, postgres, ending>>

\* Mutant of TickFlush: no ticker.
TickFlushNever == FALSE /\ UNCHANGED vars

TickFlush ==
    /\ wpc = "select"
    /\ batch # {}
    /\ flush(batch)
    /\ UNCHANGED <<requests, bufCh, flushCh, wpc, postgres, ending>>

TakeFlush ==
    /\ wpc = "select"
    /\ flushCh
    /\ flushCh' = FALSE
    /\ wpc' = "drain"
    /\ UNCHANGED <<requests, bufCh, batch, writers, postgres, ending>>

\* Mutant of TakeClose: the channel is not drained.
TakeCloseNoDrain ==
    /\ wpc = "select"
    /\ main # "serving"
    /\ flush(batch)
    /\ wpc' = "done"
    /\ UNCHANGED <<requests, bufCh, flushCh, postgres, ending>>

TakeClose ==
    /\ wpc = "select"
    /\ main # "serving"
    /\ wpc' = "closing"
    /\ UNCHANGED <<requests, bufCh, flushCh, batch, writers, postgres, ending>>

\* drainAndFlush: receive until the channel is empty, then flush the rest.
DrainEntry(e) ==
    /\ wpc \in {"drain", "closing"}
    /\ Receive(e)
    /\ UNCHANGED <<requests, flushCh, wpc, postgres, ending>>

DrainEnd ==
    /\ wpc \in {"drain", "closing"}
    /\ bufCh = {}
    /\ flush(batch)
    /\ wpc' = IF wpc = "drain" THEN "select" ELSE "done"
    /\ UNCHANGED <<requests, bufCh, flushCh, postgres, ending>>

BatchStep ==
    \/ \E e \in Entries : TakeEntry(e) \/ DrainEntry(e)
    \/ TickFlush \/ TakeFlush \/ TakeClose \/ DrainEnd

\* LogBehaviorBatch inserts the rows of a batch in one statement ...
Insert(b) ==
    /\ b \in writers
    /\ writers' = writers \ {b}
    /\ written' = written \cup b
    /\ UNCHANGED <<requests, bufCh, flushCh, batch, wpc, failed, ending>>

\* ... or returns an error, which is logged; the rows may be there all the same.
InsertFailed(b) ==
    /\ PGFaults
    /\ b \in writers
    /\ writers' = writers \ {b}
    /\ failed' = failed \cup b
    /\ written' \in {written, written \cup b}
    /\ UNCHANGED <<requests, bufCh, flushCh, batch, wpc, ending>>

-----------------------------------------------------------------------------
(* Shutdown.                                                               *)

\* A signal arrives and main calls Close, which closes closeCh ...
Close ==
    /\ main = "serving"
    /\ main' = "closing"
    /\ early' = Logged
    /\ UNCHANGED <<requests, bufCh, batcher, postgres>>

\* ... and waits for batchWriter and for every batch.  Then main drains the
\* HTTP server.
Closed ==
    /\ main = "closing"
    /\ wpc = "done" /\ writers = {}
    /\ main' = "draining"
    /\ UNCHANGED <<requests, bufCh, batcher, postgres, early>>

\* Shutdown returns, when the requests are answered or after 30 seconds.
Exit ==
    /\ main = "draining"
    /\ main' = "exited"
    /\ UNCHANGED <<requests, bufCh, batcher, postgres, early>>

Next ==
    \/ \E e \in Entries : \/ Serve(e) \/ LogOrderCreated(e) \/ LogFull(e)
                          \/ signalFlush(e) \/ LogAgain(e)
    \/ BatchStep
    \/ \E b \in writers : Insert(b) \/ InsertFailed(b)
    \/ Close \/ Closed \/ Exit

Spec == Init /\ [][Next]_vars

\* The goroutines are scheduled, the ticker fires, and a select that can take a
\* case again and again is not for ever satisfied with the others.
Fairness ==
    /\ WF_vars(\E e \in Entries : TakeEntry(e)) /\ WF_vars(\E e \in Entries : DrainEntry(e))
    /\ WF_vars(TickFlush) /\ WF_vars(TakeClose) /\ WF_vars(DrainEnd)
    /\ WF_vars(\E b \in writers : Insert(b) \/ InsertFailed(b))

FairSpec == Spec /\ Fairness

-----------------------------------------------------------------------------
(* Properties.                                                             *)

\* The state is well-formed: the channel and the batch stay within bounds.
TypeOK ==
    /\ rpc \in [Entries -> {"new", "log", "full", "again", "done"}]
    /\ bufCh \subseteq Entries /\ Cardinality(bufCh) <= BufSize
    /\ flushCh \in BOOLEAN
    /\ batch \subseteq Entries /\ Cardinality(batch) < BatchSize
    /\ wpc \in {"select", "drain", "closing", "done"}
    /\ writers \subseteq SUBSET Entries
    /\ written \subseteq Entries /\ failed \subseteq Entries
    /\ dropped \subseteq Entries
    /\ main \in {"serving", "closing", "draining", "exited"}
    /\ early \subseteq Entries

Settled == written \cup failed
InFlight == UNION writers
OnTheWay == bufCh \cup batch \cup InFlight

\* An entry is in one place: a logged entry waits, is being inserted, has been
\* tried or was dropped, and no two goroutines ever insert the same entry
\* (flush, drainAndFlush, LogOrderCreated).
OnePlace ==
    /\ Logged = OnTheWay \cup Settled \cup dropped
    /\ bufCh \cap batch = {} /\ bufCh \cap InFlight = {}
    /\ batch \cap InFlight = {}
    /\ \A b1, b2 \in writers : b1 # b2 => b1 \cap b2 = {}
    /\ OnTheWay \cap (Settled \cup dropped) = {}
    /\ Settled \cap dropped = {}

\* The caller of LogBehaviorBatch guarantees the size of a batch.
BatchBound == \A b \in writers : b # {} /\ Cardinality(b) <= BatchSize

\* Close waits for the last batch: when it returns, PostgreSQL has been given
\* everything that had been logged before it was called, although requests
\* keep logging meanwhile.
CloseFlushes ==
    main \in {"draining", "exited"} => early \subseteq Settled \cup dropped

Log == INSTANCE BehaviourLog WITH
           waiting <- OnTheWay, tried <- Settled, lost <- dropped, phase <- main, due <- early

\* The goroutines together keep the promise of BehaviourLog, whatever they do at
\* the same time: every entry is tried once, in a small batch, none is given up
\* while the channel has room, and Close ends the work on PostgreSQL.
LogPromise == Log!LogSpec

-----------------------------------------------------------------------------
(* The inductive invariant of the proofs.                                  *)

\* How far the shutdown has come: batchWriter ends only after closeCh was
\* closed, with nothing of its own left and nothing early in the channel, and
\* Close returns only after batchWriter and its batches.
Ended ==
    /\ wpc \in {"closing", "done"} => main # "serving"
    /\ early \subseteq Logged
    /\ wpc = "done" => batch = {} /\ early \cap bufCh = {}
    /\ main \in {"draining", "exited"} => wpc = "done" /\ writers = {}

Inv == TypeOK /\ OnePlace /\ BatchBound /\ Ended

-----------------------------------------------------------------------------
\* What is logged while the service runs reaches PostgreSQL, even if main
\* shuts down right after.
LoggedEventuallySettled ==
    \A e \in Entries :
        (e \in bufCh /\ main = "serving") ~> e \in Settled

\* What NothingLost can lose: from the return of Close on, an entry that is neither
\* tried nor dropped is in the channel, and was logged after Close was called.
LossWindow ==
    main \in {"draining", "exited"} => Logged \ (Settled \cup dropped) \subseteq bufCh \ early

\* The comment on LogOrderCreated, "batched, asynchronous, nothing is lost":
\* what it put into the channel does not stay there when the process ends.
NothingLost == main = "exited" => Logged \subseteq Settled
=============================================================================
