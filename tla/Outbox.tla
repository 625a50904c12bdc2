------------------------------- MODULE Outbox -------------------------------
(***************************************************************************)
(* The transactional outbox (apps/platform/events): rows written with the  *)
(* domain change, a post-commit doorbell that may be lost, the minutely    *)
(* sweep that rings again, workers that dispatch a row to its handlers,    *)
(* retries with backoff, dead letters, and the cleanup.                    *)
(*                                                                         *)
(* process_single_event is one database transaction around every handler:  *)
(* the row lock, the handlers' writes, their checkpoints and the row's new *)
(* status commit together or not at all.  A handler that raises is caught  *)
(* inside the transaction, so what ran before it commits.  A crash, or a   *)
(* database error that breaks the transaction, undoes all of it.  Because  *)
(* of that the status "processing" is never committed: the other sessions  *)
(* see a row being dispatched as pending and locked, and the reclaim of    *)
(* stuck processing rows in sweep_outbox finds nothing.                    *)
(*                                                                         *)
(* The handlers of an event type are numbered in registration order.       *)
(***************************************************************************)
EXTENDS Integers, FiniteSets

CONSTANTS
    Events,         \* outbox rows
    Workers,        \* worker processes
    NoEvent,        \* a worker that dispatches nothing
    NumHandlers,    \* handlers registered for the event type
    Gated,          \* the handlers that require a product of the tenant
    MaxRetries,     \* OutboxEvent.max_retries
    Batch,          \* rows one sweep takes
    MaxQueue,       \* bound: messages in the broker per row
    MaxFaults       \* bound: crashes, broken transactions and lost messages

ASSUME OutboxAssumption ==
    /\ NoEvent \notin Events
    /\ NumHandlers \in Nat
    /\ Gated \subseteq 1..NumHandlers
    /\ MaxRetries \in Nat \ {0}
    /\ Batch \in Nat \ {0}
    /\ MaxQueue \in Nat \ {0}
    /\ MaxFaults \in Nat

VARIABLES
    status,         \* status[e] of the row; "unwritten" and "deleted" have no row
    retry_count,    \* retry_count[e]
    due,            \* due[e]: next_retry_at is null or past
    checkpoints,    \* checkpoints[e]: handlers with a HandlerCheckpoint row
    queue,          \* queue[e]: process_single_event messages in the broker
    locked,         \* locked[w]: the row worker w dispatches, or NoEvent
    at,             \* at[w]: the handler w is at
    done,           \* done[w]: handlers whose writes and checkpoint w will commit
    skipped,        \* skipped[e]: handlers gated off when the row was dispatched
    applied,        \* applied[e][h]: commits of handler h's writes for e
    product,        \* the tenant has the product
    cache,          \* the 5-minute cache of it: "with", "without" or "empty"
    faults          \* crashes, broken transactions and lost messages so far

vars == <<status, retry_count, due, checkpoints, queue, locked, at, done,
          skipped, applied, product, cache, faults>>

rowVars == <<status, retry_count, due, checkpoints, skipped, applied>>
workVars == <<locked, at, done>>
tenantVars == <<product, cache>>

Handlers == 1..NumHandlers

Init ==
    /\ status = [e \in Events |-> "unwritten"]
    /\ retry_count = [e \in Events |-> 0]
    /\ due = [e \in Events |-> TRUE]
    /\ checkpoints = [e \in Events |-> {}]
    /\ queue = [e \in Events |-> 0]
    /\ locked = [w \in Workers |-> NoEvent]
    /\ at = [w \in Workers |-> 1]
    /\ done = [w \in Workers |-> {}]
    /\ skipped = [e \in Events |-> {}]
    /\ applied = [e \in Events |-> [h \in Handlers |-> 0]]
    /\ product \in BOOLEAN
    /\ cache = "empty"
    /\ faults = 0

-----------------------------------------------------------------------------
\* write_event commits with the domain change.  _dispatch swallows a broker
\* error, so the doorbell may be lost.
write_event(e) ==
    /\ status[e] = "unwritten"
    /\ status' = [status EXCEPT ![e] = "pending"]
    /\ \/ queue' = [queue EXCEPT ![e] = 1]
       \/ UNCHANGED queue
    /\ UNCHANGED <<retry_count, due, checkpoints, skipped, applied,
                   workVars, tenantVars, faults>>

Ring(e) == IF queue[e] < MaxQueue THEN queue[e] + 1 ELSE queue[e]

\* Mutant: only rows that have waited for a backoff are swept.
SweepDueRetried == {e \in Events : status[e] = "pending" /\ due[e] /\ retry_count[e] > 0}

\* The pending rows whose next_retry_at is null or past.
SweepDue == {e \in Events : status[e] = "pending" /\ due[e]}

\* sweep_outbox rings for an arbitrary batch of them ([:100] of an unordered
\* query), whether or not a message for the row is already in the broker and
\* whether or not a worker is dispatching it.
sweep_outbox ==
    \E swept \in SUBSET SweepDue :
        /\ swept # {}
        /\ Cardinality(swept) = Batch \/ (swept = SweepDue /\ Cardinality(swept) < Batch)
        /\ queue' = [e \in Events |-> IF e \in swept THEN Ring(e) ELSE queue[e]]
        /\ UNCHANGED <<rowVars, workVars, tenantVars, faults>>

\* The broker loses a message.
Lose(e) ==
    /\ queue[e] > 0 /\ faults < MaxFaults
    /\ queue' = [queue EXCEPT ![e] = @ - 1]
    /\ faults' = faults + 1
    /\ UNCHANGED <<rowVars, workVars, tenantVars>>

\* The backoff of the last counted failure runs out, however long it is.
BackoffElapses(e) ==
    /\ status[e] = "pending" /\ ~due[e]
    /\ due' = [due EXCEPT ![e] = TRUE]
    /\ UNCHANGED <<status, retry_count, checkpoints, skipped, applied, queue,
                   workVars, tenantVars, faults>>

-----------------------------------------------------------------------------
(* process_single_event.                                                    *)

\* select_for_update(skip_locked) finds the row, and it is pending.  Whether
\* its backoff has run out is not asked.
Takable(e) == status[e] = "pending" /\ \A w \in Workers : locked[w] # e

\* A message whose row is locked, gone or no longer pending is consumed and
\* does nothing.
TakeNothing(w, e) ==
    /\ locked[w] = NoEvent /\ queue[e] > 0 /\ ~Takable(e)
    /\ queue' = [queue EXCEPT ![e] = @ - 1]
    /\ UNCHANGED <<rowVars, workVars, tenantVars, faults>>

Take(w, e) ==
    /\ locked[w] = NoEvent /\ queue[e] > 0 /\ Takable(e)
    /\ queue' = [queue EXCEPT ![e] = @ - 1]
    /\ locked' = [locked EXCEPT ![w] = e]
    /\ UNCHANGED <<rowVars, at, done, tenantVars, faults>>

\* _tenant_has_product: the cached answer, and an empty cache is filled.
HasProduct == IF cache = "empty" THEN product ELSE cache = "with"

ReadProduct == cache' = IF cache = "empty" THEN (IF product THEN "with" ELSE "without")
                                           ELSE cache

Dispatching(w) == locked[w] # NoEvent /\ at[w] <= NumHandlers

\* Mutant: the checkpoint is not looked up before the handler runs.
RunsUnchecked(w) == Dispatching(w) /\ (at[w] \in Gated => HasProduct)

\* dispatch_to_handlers: the handler w is at is neither gated off nor done.
Runs(w) ==
    /\ Dispatching(w)
    /\ at[w] \in Gated => HasProduct
    /\ at[w] \notin checkpoints[locked[w]]

GateCache(w) == IF at[w] \in Gated THEN ReadProduct ELSE UNCHANGED cache

\* Product gating: the handler is skipped and leaves no checkpoint.
GatedOff(w) ==
    /\ Dispatching(w) /\ at[w] \in Gated /\ ~HasProduct
    /\ ReadProduct
    /\ skipped' = [skipped EXCEPT ![locked[w]] = @ \cup {at[w]}]
    /\ at' = [at EXCEPT ![w] = @ + 1]
    /\ UNCHANGED <<status, retry_count, due, checkpoints, applied, queue,
                   locked, done, product, faults>>

\* A handler that an earlier attempt completed is skipped.
AlreadyDone(w) ==
    /\ Dispatching(w) /\ at[w] \in checkpoints[locked[w]]
    /\ at[w] \in Gated => HasProduct
    /\ GateCache(w)
    /\ at' = [at EXCEPT ![w] = @ + 1]
    /\ UNCHANGED <<rowVars, queue, locked, done, product, faults>>

HandlerReturns(w) ==
    /\ Runs(w)
    /\ GateCache(w)
    /\ done' = [done EXCEPT ![w] = @ \cup {at[w]}]
    /\ at' = [at EXCEPT ![w] = @ + 1]
    /\ UNCHANGED <<rowVars, queue, locked, product, faults>>

Leave(w) ==
    /\ locked' = [locked EXCEPT ![w] = NoEvent]
    /\ at' = [at EXCEPT ![w] = 1]
    /\ done' = [done EXCEPT ![w] = {}]

\* Mutant: the handler the attempt stopped at gets its checkpoint too.
CommitWorkStarted(w) ==
    LET e == locked[w]
    IN  /\ checkpoints' = [checkpoints EXCEPT ![e] =
                            @ \cup ((done[w] \cup {at[w]}) \cap Handlers)]
        /\ applied' = [applied EXCEPT ![e] =
                        [h \in Handlers |-> IF h \in done[w] THEN @[h] + 1 ELSE @[h]]]
        /\ Leave(w)

\* What w's transaction leaves behind when it commits.
CommitWork(w) ==
    LET e == locked[w]
    IN  /\ checkpoints' = [checkpoints EXCEPT ![e] = @ \cup done[w]]
        /\ applied' = [applied EXCEPT ![e] =
                        [h \in Handlers |-> IF h \in done[w] THEN @[h] + 1 ELSE @[h]]]
        /\ Leave(w)

Exhausted(n) == n >= MaxRetries

\* A handler raises: the attempt is counted, and the row waits for its backoff
\* or is dead.  There is no savepoint around the handler, so what it wrote
\* before it raised commits with the rest and is met again by the retry; those
\* writes are left out (`applied` counts the handlers that returned).
HandlerRaises(w) ==
    LET e == locked[w]
        n == retry_count[e] + 1
    IN  /\ Runs(w)
        /\ GateCache(w)
        /\ CommitWork(w)
        /\ retry_count' = [retry_count EXCEPT ![e] = n]
        /\ IF Exhausted(n)
           THEN /\ status' = [status EXCEPT ![e] = "failed"]
                /\ UNCHANGED due
           ELSE /\ due' = [due EXCEPT ![e] = FALSE]
                /\ UNCHANGED status
        /\ UNCHANGED <<skipped, queue, product, faults>>

\* Every handler returned, was done before or was gated off.
Processed(w) ==
    /\ locked[w] # NoEvent /\ at[w] > NumHandlers
    /\ CommitWork(w)
    /\ status' = [status EXCEPT ![locked[w]] = "processed"]
    /\ UNCHANGED <<retry_count, due, skipped, queue, tenantVars, faults>>

\* The worker dies, or a database error inside a handler breaks the
\* transaction so that event.save() fails too: nothing of the attempt is kept,
\* not even its count.  The broker may deliver the message again.
Abort(w) ==
    /\ locked[w] # NoEvent /\ faults < MaxFaults
    /\ faults' = faults + 1
    /\ Leave(w)
    /\ \/ queue' = [queue EXCEPT ![locked[w]] = Ring(locked[w])]
       \/ UNCHANGED queue
    /\ UNCHANGED <<rowVars, tenantVars>>

-----------------------------------------------------------------------------
\* Mutant: the cleanup takes dead letters too.
DeletableDead(e) == status[e] \in {"processed", "failed"}

\* cleanup_outbox selects processed rows only, 30 days old.
Deletable(e) == status[e] = "processed"

\* The checkpoints go with the row (ON DELETE CASCADE).
cleanup_outbox(e) ==
    /\ Deletable(e)
    /\ status' = [status EXCEPT ![e] = "deleted"]
    /\ checkpoints' = [checkpoints EXCEPT ![e] = {}]
    /\ UNCHANGED <<retry_count, due, skipped, applied, queue, workVars,
                   tenantVars, faults>>

\* Tenant.save deletes the cache inside the caller's transaction, so a reader
\* may put the old answer back before the new row is committed.
SetProduct ==
    /\ product' = ~product
    /\ cache' \in {"empty", IF product THEN "with" ELSE "without"}
    /\ UNCHANGED <<rowVars, queue, workVars, faults>>

CacheExpires ==
    /\ cache # "empty" /\ cache' = "empty"
    /\ UNCHANGED <<rowVars, queue, workVars, product, faults>>

-----------------------------------------------------------------------------
WorkerStep(w) == GatedOff(w) \/ AlreadyDone(w) \/ HandlerReturns(w)
                 \/ HandlerRaises(w) \/ Processed(w)

Next ==
    \/ \E e \in Events : write_event(e) \/ BackoffElapses(e) \/ cleanup_outbox(e)
                          \/ Lose(e)
    \/ sweep_outbox
    \/ \E w \in Workers, e \in Events : Take(w, e) \/ TakeNothing(w, e)
    \/ \E w \in Workers : GatedOff(w) \/ AlreadyDone(w) \/ HandlerReturns(w)
                          \/ HandlerRaises(w) \/ Processed(w) \/ Abort(w)
    \/ SetProduct
    \/ CacheExpires

Spec == Init /\ [][Next]_vars

\* The beat schedules the sweep every minute, a live worker keeps consuming
\* and finishes what it took, and backoffs run out.
Fairness ==
    /\ WF_vars(sweep_outbox)
    /\ \A e \in Events : WF_vars(BackoffElapses(e))
    /\ \A w \in Workers : WF_vars(WorkerStep(w))
    /\ \A e \in Events : WF_vars(\E w \in Workers : Take(w, e) \/ TakeNothing(w, e))

FairSpec == Spec /\ Fairness

-----------------------------------------------------------------------------
(* Properties.                                                              *)

RowStatuses == {"unwritten", "pending", "processed", "failed", "deleted"}

\* The types of the rows and of what the workers hold.  No row is ever seen
\* "processing", and no attempt is counted past max_retries.
TypeOK ==
    /\ status \in [Events -> RowStatuses]
    /\ retry_count \in [Events -> 0..MaxRetries]
    /\ due \in [Events -> BOOLEAN]
    /\ checkpoints \in [Events -> SUBSET Handlers]
    /\ queue \in [Events -> 0..MaxQueue]
    /\ locked \in [Workers -> Events \cup {NoEvent}]
    /\ at \in [Workers -> 1..(NumHandlers + 1)]
    /\ done \in [Workers -> SUBSET Handlers]
    /\ skipped \in [Events -> SUBSET Handlers]
    /\ applied \in [Events -> [Handlers -> Nat]]
    /\ product \in BOOLEAN
    /\ cache \in {"empty", "with", "without"}
    /\ faults \in 0..MaxFaults

\* The row lock: two workers never dispatch the same row, and the row being
\* dispatched is still pending, however many messages are in the broker.
OneDispatcher ==
    \A w \in Workers : locked[w] # NoEvent =>
        /\ status[locked[w]] = "pending"
        /\ \A v \in Workers : locked[v] = locked[w] => v = w

\* The checkpoint commits with the handler's writes: whatever crashes, raises
\* and duplicate messages there are, the writes of a handler that returned are
\* committed at most once.
AppliedOnce == \A e \in Events, h \in Handlers : applied[e][h] <= 1

\* A row is processed only when each of its handlers either had its writes
\* committed or was gated off: no handler is lost on a retry.
ProcessedCoversHandlers ==
    \A e \in Events : status[e] \in {"processed", "deleted"} =>
        \A h \in Handlers : applied[e][h] = 1 \/ h \in skipped[e]

\* A row is dead exactly when its retries are used up, and a broken attempt
\* never uses one up.
DeadWhenExhausted ==
    \A e \in Events : (status[e] = "failed") <=> (retry_count[e] >= MaxRetries)

\* announcement_status of a row that a signal is stamped with.
announcement_status(e) ==
    CASE status[e] \in {"processed", "deleted"} -> "announced"
      [] status[e] = "failed" -> "unannounced"
      [] OTHER -> "in_flight"

\* announcements.py reads a missing row as announced: sound because a dead
\* letter stays unannounced for ever, and an announced row stays announced.
AnnouncementIsFinal ==
    [][\A e \in Events : announcement_status(e) # "in_flight"
                         => announcement_status(e)' = announcement_status(e)]_vars

\* Every row is delivered or dead-lettered in the end: the sweep makes up for
\* lost doorbells and for workers that died.
EventuallySettled ==
    \A e \in Events : status[e] = "pending" ~> status[e] \in {"processed", "failed", "deleted"}
=============================================================================
