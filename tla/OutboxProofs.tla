---------------------------- MODULE OutboxProofs ----------------------------
(***************************************************************************)
(* Exactly-once application of the handlers' writes, for any number of     *)
(* rows, workers, handlers, retries, messages and faults.                  *)
(***************************************************************************)
EXTENDS Outbox, TLAPS

\* While a row exists, its checkpoints record exactly the handlers whose writes
\* were committed.
CheckpointsExact ==
    \A e \in Events : status[e] # "deleted" =>
        \A h \in Handlers : applied[e][h] = IF h \in checkpoints[e] THEN 1 ELSE 0

\* A worker has run, in the attempt it is in, only handlers before the one it
\* is at that had no checkpoint.
AttemptFresh ==
    \A w \in Workers :
        /\ done[w] \subseteq {h \in Handlers : h < at[w]}
        /\ locked[w] # NoEvent => done[w] \cap checkpoints[locked[w]] = {}

\* A worker that holds no row starts its next one from the first handler.
Idle == \A w \in Workers : locked[w] = NoEvent => at[w] = 1 /\ done[w] = {}

\* Every handler a worker has passed returned, was done before or was gated off.
AttemptCovers ==
    \A w \in Workers : locked[w] # NoEvent =>
        \A h \in Handlers : h < at[w] =>
            h \in done[w] \/ h \in checkpoints[locked[w]] \/ h \in skipped[locked[w]]

Inv ==
    /\ TypeOK
    /\ OneDispatcher
    /\ Idle
    /\ CheckpointsExact
    /\ AttemptFresh
    /\ AttemptCovers
    /\ AppliedOnce
    /\ ProcessedCoversHandlers
    /\ DeadWhenExhausted

-----------------------------------------------------------------------------
\* A commit adds each handler of the attempt once, whatever happens to the row.
LEMMA CommitKeepsExact ==
    ASSUME Inv, NEW w \in Workers, locked[w] # NoEvent, CommitWork(w),
           \A e \in Events : e # locked[w] => status[e]' = status[e]
    PROVE  CheckpointsExact' /\ AppliedOnce'
  <1> DEFINE e == locked[w]
  <1>1. /\ e \in Events /\ status[e] = "pending"
        /\ checkpoints \in [Events -> SUBSET Handlers]
        /\ applied \in [Events -> [Handlers -> Nat]]
        /\ done[w] \subseteq Handlers
        /\ done[w] \cap checkpoints[e] = {}
    BY DEF Inv, TypeOK, OneDispatcher, AttemptFresh
  <1>2. /\ checkpoints' = [checkpoints EXCEPT ![e] = checkpoints[e] \cup done[w]]
        /\ applied' = [applied EXCEPT ![e] = [h \in Handlers |->
                IF h \in done[w] THEN applied[e][h] + 1 ELSE applied[e][h]]]
    BY DEF CommitWork
  <1>3. \A h \in Handlers : applied[e][h] = IF h \in checkpoints[e] THEN 1 ELSE 0
    BY <1>1 DEF Inv, CheckpointsExact
  <1>4. \A h \in Handlers :
            applied'[e][h] = IF h \in checkpoints'[e] THEN 1 ELSE 0
    BY <1>1, <1>2, <1>3
  <1>5. \A f \in Events : f # e =>
            checkpoints'[f] = checkpoints[f] /\ applied'[f] = applied[f]
    BY <1>1, <1>2
  <1>6. CheckpointsExact'
    BY <1>4, <1>5 DEF Inv, CheckpointsExact
  <1>7. AppliedOnce'
    BY <1>4, <1>5 DEF Inv, AppliedOnce
  <1> QED BY <1>6, <1>7

\* After a commit the worker is idle, and the others dispatch other rows.
LEMMA CommitKeepsAttempts ==
    ASSUME Inv, NEW w \in Workers, locked[w] # NoEvent, CommitWork(w), skipped' = skipped,
           \A e \in Events : e # locked[w] => status[e]' = status[e]
    PROVE  AttemptFresh' /\ AttemptCovers' /\ OneDispatcher' /\ Idle'
  <1> DEFINE e == locked[w]
  <1>1. /\ e \in Events /\ status[e] = "pending"
        /\ checkpoints \in [Events -> SUBSET Handlers]
        /\ locked \in [Workers -> Events \cup {NoEvent}]
        /\ at \in [Workers -> 1..(NumHandlers + 1)]
        /\ done \in [Workers -> SUBSET Handlers]
        /\ \A v \in Workers : locked[v] = e => v = w
    BY DEF Inv, TypeOK, OneDispatcher
  <1>2. /\ checkpoints' = [checkpoints EXCEPT ![e] = checkpoints[e] \cup done[w]]
        /\ locked' = [locked EXCEPT ![w] = NoEvent]
        /\ at' = [at EXCEPT ![w] = 1]
        /\ done' = [done EXCEPT ![w] = {}]
    BY DEF CommitWork, Leave
  <1>3. /\ locked'[w] = NoEvent /\ done'[w] = {} /\ at'[w] = 1
        /\ \A v \in Workers : v # w =>
            /\ locked'[v] = locked[v] /\ at'[v] = at[v] /\ done'[v] = done[v]
            /\ locked[v] # NoEvent => /\ checkpoints'[locked[v]] = checkpoints[locked[v]]
                                      /\ status'[locked[v]] = status[locked[v]]
    BY <1>1, <1>2
  <1>4. AttemptFresh'
    BY <1>3 DEF Inv, AttemptFresh
  <1>5. AttemptCovers'
    BY <1>3 DEF Inv, AttemptCovers
  <1>6. OneDispatcher'
    BY <1>3 DEF Inv, OneDispatcher
  <1>7. Idle'
    BY <1>2, <1>3 DEF Inv, Idle
  <1> QED BY <1>4, <1>5, <1>6, <1>7

\* One step keeps the types: an action writes, for one row or one worker, a
\* value of the type it found.
LEMMA TypeStep == Inv /\ [Next]_vars => TypeOK'
  <1> SUFFICES ASSUME Inv, [Next]_vars PROVE TypeOK'
    OBVIOUS
  <1> USE DEF Inv
  <1>1. ASSUME NEW e \in Events, write_event(e) PROVE TypeOK'
    <2>3. 1 \in 0..MaxQueue
      BY OutboxAssumption
    <2>1. queue' \in [Events -> 0..MaxQueue]
      BY <1>1, <2>3 DEF write_event, TypeOK
    <2>2. status' \in [Events -> RowStatuses]
      BY <1>1 DEF write_event, TypeOK, RowStatuses
    <2> QED BY <1>1, <2>1, <2>2 DEF write_event, TypeOK, workVars, tenantVars
  <1>2. ASSUME NEW e \in Events, BackoffElapses(e) PROVE TypeOK'
    BY <1>2 DEF BackoffElapses, TypeOK, workVars, tenantVars
  <1>3. ASSUME NEW e \in Events, cleanup_outbox(e) PROVE TypeOK'
    BY <1>3 DEF cleanup_outbox, TypeOK, RowStatuses, workVars, tenantVars
  <1>4. ASSUME NEW e \in Events, Lose(e) PROVE TypeOK'
    <2>1. queue' \in [Events -> 0..MaxQueue] /\ faults' \in 0..MaxFaults
      BY <1>4, OutboxAssumption DEF Lose, TypeOK
    <2> QED BY <1>4, <2>1 DEF Lose, TypeOK, rowVars, workVars, tenantVars
  <1>5. CASE sweep_outbox
    <2>1. \A e \in Events : Ring(e) \in 0..MaxQueue
      BY OutboxAssumption DEF Ring, TypeOK
    <2>2. queue' \in [Events -> 0..MaxQueue]
      BY <1>5, <2>1 DEF sweep_outbox, TypeOK
    <2> QED BY <1>5, <2>2 DEF sweep_outbox, TypeOK, rowVars, workVars, tenantVars
  <1>6. ASSUME NEW w \in Workers, NEW e \in Events, Take(w, e) PROVE TypeOK'
    <2>1. queue' \in [Events -> 0..MaxQueue]
      BY <1>6, OutboxAssumption DEF Take, TypeOK
    <2> QED BY <1>6, <2>1 DEF Take, TypeOK, rowVars, tenantVars
  <1>7. ASSUME NEW w \in Workers, NEW e \in Events, TakeNothing(w, e) PROVE TypeOK'
    <2>1. queue' \in [Events -> 0..MaxQueue]
      BY <1>7, OutboxAssumption DEF TakeNothing, TypeOK
    <2> QED BY <1>7, <2>1 DEF TakeNothing, TypeOK, rowVars, workVars, tenantVars
  <1>8. ASSUME NEW w \in Workers, GatedOff(w) PROVE TypeOK'
    <2>1. at[w] \in Handlers /\ at[w] + 1 \in 1..(NumHandlers + 1)
      BY <1>8, OutboxAssumption DEF GatedOff, Dispatching, Handlers, TypeOK
    <2>2. at' \in [Workers -> 1..(NumHandlers + 1)] /\ skipped' \in [Events -> SUBSET Handlers]
      BY <1>8, <2>1 DEF GatedOff, TypeOK
    <2>3. cache' \in {"empty", "with", "without"}
      BY <1>8 DEF GatedOff, ReadProduct, TypeOK
    <2> QED BY <1>8, <2>2, <2>3 DEF GatedOff, TypeOK
  <1>9. ASSUME NEW w \in Workers, AlreadyDone(w) PROVE TypeOK'
    <2>1. at[w] + 1 \in 1..(NumHandlers + 1)
      BY <1>9, OutboxAssumption DEF AlreadyDone, Dispatching, TypeOK
    <2>2. at' \in [Workers -> 1..(NumHandlers + 1)]
      BY <1>9, <2>1 DEF AlreadyDone, TypeOK
    <2>3. cache' \in {"empty", "with", "without"}
      BY <1>9 DEF AlreadyDone, GateCache, ReadProduct, TypeOK
    <2> QED BY <1>9, <2>2, <2>3 DEF AlreadyDone, TypeOK, rowVars
  <1>10. ASSUME NEW w \in Workers, HandlerReturns(w) PROVE TypeOK'
    <2>1. at[w] \in Handlers /\ at[w] + 1 \in 1..(NumHandlers + 1)
      BY <1>10, OutboxAssumption DEF HandlerReturns, Runs, Dispatching, Handlers, TypeOK
    <2>2. at' \in [Workers -> 1..(NumHandlers + 1)] /\ done' \in [Workers -> SUBSET Handlers]
      BY <1>10, <2>1 DEF HandlerReturns, TypeOK
    <2>3. cache' \in {"empty", "with", "without"}
      BY <1>10 DEF HandlerReturns, GateCache, ReadProduct, TypeOK
    <2> QED BY <1>10, <2>2, <2>3 DEF HandlerReturns, TypeOK, rowVars
  <1>11. ASSUME NEW w \in Workers, HandlerRaises(w) PROVE TypeOK'
    <2>1. /\ locked[w] \in Events
          /\ retry_count[locked[w]] + 1 \in 1..MaxRetries
      BY <1>11, OutboxAssumption
      DEF HandlerRaises, Runs, Dispatching, OneDispatcher, DeadWhenExhausted, TypeOK
    <2>2. status' \in [Events -> RowStatuses]
      BY <1>11 DEF HandlerRaises, TypeOK, RowStatuses
    <2>3. retry_count' \in [Events -> 0..MaxRetries]
      <3>1. retry_count[locked[w]] + 1 \in 0..MaxRetries
        BY <2>1
      <3>2. retry_count' = [retry_count EXCEPT ![locked[w]] = retry_count[locked[w]] + 1]
        BY <1>11 DEF HandlerRaises
      <3> QED BY <3>1, <3>2 DEF TypeOK
    <2>6. due' \in [Events -> BOOLEAN]
      BY <1>11 DEF HandlerRaises, TypeOK
    <2>4. /\ checkpoints' \in [Events -> SUBSET Handlers]
          /\ applied' \in [Events -> [Handlers -> Nat]]
          /\ locked' \in [Workers -> Events \cup {NoEvent}]
          /\ at' \in [Workers -> 1..(NumHandlers + 1)]
          /\ done' \in [Workers -> SUBSET Handlers]
      BY <1>11, <2>1, OutboxAssumption DEF HandlerRaises, CommitWork, Leave, TypeOK
    <2>5. cache' \in {"empty", "with", "without"}
      BY <1>11 DEF HandlerRaises, GateCache, ReadProduct, TypeOK
    <2> QED BY <1>11, <2>2, <2>3, <2>4, <2>5, <2>6 DEF HandlerRaises, TypeOK
  <1>12. ASSUME NEW w \in Workers, Processed(w) PROVE TypeOK'
    <2>1. locked[w] \in Events
      BY <1>12 DEF Processed, TypeOK
    <2>2. /\ checkpoints' \in [Events -> SUBSET Handlers]
          /\ applied' \in [Events -> [Handlers -> Nat]]
          /\ locked' \in [Workers -> Events \cup {NoEvent}]
          /\ at' \in [Workers -> 1..(NumHandlers + 1)]
          /\ done' \in [Workers -> SUBSET Handlers]
      BY <1>12, <2>1, OutboxAssumption DEF Processed, CommitWork, Leave, TypeOK
    <2> QED BY <1>12, <2>1, <2>2 DEF Processed, TypeOK, RowStatuses, tenantVars
  <1>13. ASSUME NEW w \in Workers, Abort(w) PROVE TypeOK'
    <2>1. locked[w] \in Events /\ queue[locked[w]] \in 0..MaxQueue
      BY <1>13 DEF Abort, TypeOK
    <2>2. Ring(locked[w]) \in 0..MaxQueue
      BY <2>1, OutboxAssumption DEF Ring
    <2>3. queue' \in [Events -> 0..MaxQueue]
      BY <1>13, <2>2 DEF Abort, TypeOK
    <2>5. faults' \in 0..MaxFaults
      BY <1>13, OutboxAssumption DEF Abort, TypeOK
    <2>4. /\ locked' \in [Workers -> Events \cup {NoEvent}]
          /\ at' \in [Workers -> 1..(NumHandlers + 1)]
          /\ done' \in [Workers -> SUBSET Handlers]
      BY <1>13, OutboxAssumption DEF Abort, Leave, TypeOK
    <2> QED BY <1>13, <2>3, <2>4, <2>5 DEF Abort, TypeOK, rowVars, tenantVars
  <1>14. CASE SetProduct
    BY <1>14 DEF SetProduct, TypeOK, rowVars, workVars
  <1>15. CASE CacheExpires
    BY <1>15 DEF CacheExpires, TypeOK, rowVars, workVars
  <1>16. CASE UNCHANGED vars
    BY <1>16 DEF vars, TypeOK
  <1> QED
    BY <1>1, <1>2, <1>3, <1>4, <1>5, <1>6, <1>7, <1>8, <1>9, <1>10, <1>11, <1>12, <1>13,
       <1>14, <1>15, <1>16 DEF Next

-----------------------------------------------------------------------------
\* The invariant holds at the start: nothing is written and no worker works.
LEMMA InvInit == Init => Inv
  <1> SUFFICES ASSUME Init PROVE Inv
    OBVIOUS
  <1>1. TypeOK
    BY OutboxAssumption DEF Init, TypeOK, RowStatuses, Handlers
  <1>2. OneDispatcher /\ Idle /\ AttemptFresh /\ AttemptCovers
    BY DEF Init, OneDispatcher, Idle, AttemptFresh, AttemptCovers
  <1>3. CheckpointsExact /\ AppliedOnce /\ ProcessedCoversHandlers
    BY DEF Init, CheckpointsExact, AppliedOnce, ProcessedCoversHandlers
  <1>4. DeadWhenExhausted
    BY OutboxAssumption DEF Init, DeadWhenExhausted
  <1> QED BY <1>1, <1>2, <1>3, <1>4 DEF Inv

\* Everything but the typing, which one step preserves.
Sound == /\ OneDispatcher /\ Idle /\ CheckpointsExact /\ AttemptFresh /\ AttemptCovers
         /\ AppliedOnce /\ ProcessedCoversHandlers /\ DeadWhenExhausted

\* A worker that finishes: the row is processed and its handlers are covered.
LEMMA ProcessedStep == ASSUME Inv, NEW w \in Workers, Processed(w) PROVE Sound'
  <1> DEFINE e == locked[w]
  <1>1. /\ locked[w] # NoEvent /\ CommitWork(w) /\ skipped' = skipped
        /\ e \in Events /\ status[e] = "pending"
        /\ status' = [status EXCEPT ![e] = "processed"]
        /\ status \in [Events -> RowStatuses]
        /\ retry_count' = retry_count
    BY DEF Processed, Inv, TypeOK, OneDispatcher
  <1>2. status'[e] = "processed" /\ \A f \in Events : f # e => status'[f] = status[f]
    BY <1>1
  <1>3. CheckpointsExact' /\ AppliedOnce'
    BY <1>1, <1>2, CommitKeepsExact
  <1>4. AttemptFresh' /\ AttemptCovers' /\ OneDispatcher' /\ Idle'
    BY <1>1, <1>2, CommitKeepsAttempts
  <1>5. \A h \in Handlers : h \in checkpoints'[e] \/ h \in skipped'[e]
    <2>1. checkpoints' = [checkpoints EXCEPT ![e] = checkpoints[e] \cup done[w]]
      BY DEF Processed, CommitWork
    <2>2. \A h \in Handlers : h \in done[w] \/ h \in checkpoints[e] \/ h \in skipped[e]
      <3>1. \A h \in Handlers : h < at[w]
        BY OutboxAssumption DEF Processed, Inv, TypeOK, Handlers
      <3> QED BY <1>1, <3>1 DEF Inv, AttemptCovers
    <2> QED BY <1>1, <2>1, <2>2 DEF Inv, TypeOK
  <1>6. ProcessedCoversHandlers'
    <2>1. SUFFICES ASSUME NEW f \in Events, status'[f] \in {"processed", "deleted"},
                          NEW h \in Handlers
                   PROVE  applied'[f][h] = 1 \/ h \in skipped'[f]
      BY DEF ProcessedCoversHandlers
    <2>2. CASE f = e
      BY <1>2, <1>3, <1>5, <2>2 DEF CheckpointsExact
    <2>3. CASE f # e
      <3>1. applied'[f] = applied[f]
        BY <1>1, <2>3 DEF CommitWork, Inv, TypeOK
      <3> QED BY <1>1, <1>2, <2>1, <2>3, <3>1 DEF Inv, ProcessedCoversHandlers
    <2> QED BY <2>2, <2>3
  <1>7. DeadWhenExhausted'
    BY <1>1, <1>2 DEF Inv, DeadWhenExhausted
  <1> QED BY <1>3, <1>4, <1>6, <1>7 DEF Sound

\* A handler that raises: what ran before it is committed, and the row dies on
\* the last retry.
LEMMA RaisesStep == ASSUME Inv, NEW w \in Workers, HandlerRaises(w) PROVE Sound'
  <1> DEFINE e == locked[w]
  <1> DEFINE n == retry_count[e] + 1
  <1>1. /\ locked[w] # NoEvent /\ CommitWork(w) /\ skipped' = skipped
        /\ e \in Events /\ status[e] = "pending"
        /\ status' = IF Exhausted(n) THEN [status EXCEPT ![e] = "failed"] ELSE status
        /\ status \in [Events -> RowStatuses]
        /\ retry_count' = [retry_count EXCEPT ![e] = n]
        /\ retry_count \in [Events -> 0..MaxRetries]
    BY DEF HandlerRaises, Runs, Dispatching, Inv, TypeOK, OneDispatcher
  <1>2. /\ status'[e] = IF Exhausted(n) THEN "failed" ELSE "pending"
        /\ \A f \in Events : f # e => status'[f] = status[f]
    BY <1>1
  <1>3. CheckpointsExact' /\ AppliedOnce'
    BY <1>1, <1>2, CommitKeepsExact
  <1>4. AttemptFresh' /\ AttemptCovers' /\ OneDispatcher' /\ Idle'
    BY <1>1, <1>2, CommitKeepsAttempts
  <1>5. ProcessedCoversHandlers'
    <2>1. \A f \in Events : f # e => applied'[f] = applied[f]
      BY <1>1 DEF CommitWork, Inv, TypeOK
    <2> QED BY <1>1, <1>2, <2>1 DEF Inv, ProcessedCoversHandlers
  <1>6. DeadWhenExhausted'
    <2>1. /\ retry_count'[e] = n
          /\ \A f \in Events : f # e => retry_count'[f] = retry_count[f]
      BY <1>1
    <2> QED BY <1>2, <2>1 DEF Inv, DeadWhenExhausted, Exhausted
  <1> QED BY <1>3, <1>4, <1>5, <1>6 DEF Sound

\* A worker passes a handler without finishing the row: nothing is committed.
LEMMA PassStep ==
    ASSUME Inv, NEW w \in Workers, GatedOff(w) \/ AlreadyDone(w) \/ HandlerReturns(w)
    PROVE  Sound'
  <1> DEFINE e == locked[w]
  <1>1. /\ e # NoEvent /\ e \in Events
        /\ at[w] \in Handlers
        /\ at' = [at EXCEPT ![w] = at[w] + 1] /\ locked' = locked
        /\ status' = status /\ checkpoints' = checkpoints
        /\ retry_count' = retry_count /\ applied' = applied
    BY OutboxAssumption
    DEF GatedOff, AlreadyDone, HandlerReturns, Runs, Dispatching, Inv, TypeOK, Handlers, rowVars
  <1>2. /\ \A v \in Workers : v # w => at'[v] = at[v] /\ done'[v] = done[v]
        /\ at'[w] = at[w] + 1
        /\ \A f \in Events : skipped[f] \subseteq skipped'[f]
        /\ done'[w] = done[w] \/ (done'[w] = done[w] \cup {at[w]} /\ at[w] \notin checkpoints[e])
        /\ at[w] \in done'[w] \/ at[w] \in checkpoints[e] \/ at[w] \in skipped'[e]
    <2>1. CASE GatedOff(w)
      BY <1>1, <2>1 DEF GatedOff, Inv, TypeOK
    <2>2. CASE AlreadyDone(w)
      BY <1>1, <2>2 DEF AlreadyDone, Inv, TypeOK, rowVars
    <2>3. CASE HandlerReturns(w)
      BY <1>1, <2>3 DEF HandlerReturns, Runs, Inv, TypeOK, rowVars
    <2> QED BY <2>1, <2>2, <2>3
  <1>3. \A h \in Handlers : h < at[w] + 1 <=> h < at[w] \/ h = at[w]
    BY <1>1, OutboxAssumption DEF Handlers
  <1>4. AttemptFresh'
    <2>1. SUFFICES ASSUME NEW v \in Workers
                   PROVE  /\ done'[v] \subseteq {h \in Handlers : h < at'[v]}
                          /\ locked'[v] # NoEvent => done'[v] \cap checkpoints'[locked'[v]] = {}
      BY DEF AttemptFresh
    <2>2. CASE v = w
      BY <1>1, <1>2, <1>3, <2>2 DEF Inv, AttemptFresh
    <2>3. CASE v # w
      BY <1>1, <1>2, <2>3 DEF Inv, AttemptFresh
    <2> QED BY <2>2, <2>3
  <1>5. AttemptCovers'
    <2>1. SUFFICES ASSUME NEW v \in Workers, locked'[v] # NoEvent,
                          NEW h \in Handlers, h < at'[v]
                   PROVE  \/ h \in done'[v]
                          \/ h \in checkpoints'[locked'[v]]
                          \/ h \in skipped'[locked'[v]]
      BY DEF AttemptCovers
    <2>2. CASE v = w
      BY <1>1, <1>2, <1>3, <2>1, <2>2 DEF Inv, AttemptCovers
    <2>3. CASE v # w
      <3>1. locked[v] \in Events
        BY <1>1, <2>1 DEF Inv, TypeOK
      <3> QED BY <1>1, <1>2, <2>1, <2>3, <3>1 DEF Inv, AttemptCovers
    <2> QED BY <2>2, <2>3
  <1>6. ProcessedCoversHandlers'
    BY <1>1, <1>2 DEF Inv, ProcessedCoversHandlers
  <1>8. Idle'
    BY <1>1, <1>2 DEF Inv, Idle
  <1>7. OneDispatcher' /\ CheckpointsExact' /\ AppliedOnce' /\ DeadWhenExhausted'
    BY <1>1 DEF Inv, OneDispatcher, CheckpointsExact, AppliedOnce, DeadWhenExhausted
  <1> QED BY <1>4, <1>5, <1>6, <1>7, <1>8 DEF Sound

\* A worker takes a message.
LEMMA TakeStep == ASSUME Inv, NEW w \in Workers, NEW e \in Events, Take(w, e) PROVE Sound'
  <1>1. /\ locked' = [locked EXCEPT ![w] = e] /\ locked[w] = NoEvent
        /\ locked \in [Workers -> Events \cup {NoEvent}]
        /\ status[e] = "pending" /\ \A v \in Workers : locked[v] # e
        /\ at' = at /\ done' = done
        /\ status' = status /\ checkpoints' = checkpoints /\ skipped' = skipped
        /\ retry_count' = retry_count /\ applied' = applied
    BY DEF Take, Takable, Inv, TypeOK, rowVars
  <1>2. at[w] = 1 /\ done[w] = {}
    BY <1>1 DEF Inv, Idle
  <1>3. locked'[w] = e /\ \A v \in Workers : v # w => locked'[v] = locked[v]
    BY <1>1
  <1>4. OneDispatcher'
    BY <1>1, <1>3 DEF Inv, OneDispatcher
  <1>5. AttemptFresh'
    BY <1>1, <1>2, <1>3 DEF Inv, AttemptFresh
  <1>6. AttemptCovers'
    <2>1. \A h \in Handlers : ~(h < at'[w])
      BY <1>1, <1>2, OutboxAssumption DEF Handlers
    <2> QED BY <1>1, <1>3, <2>1 DEF Inv, AttemptCovers
  <1>7. CheckpointsExact' /\ AppliedOnce' /\ ProcessedCoversHandlers' /\ DeadWhenExhausted'
    BY <1>1 DEF Inv, CheckpointsExact, AppliedOnce, ProcessedCoversHandlers, DeadWhenExhausted
  <1>8. Idle'
    BY <1>1, <1>3, OutboxAssumption DEF Inv, Idle
  <1> QED BY <1>4, <1>5, <1>6, <1>7, <1>8 DEF Sound

\* A crash or a broken transaction commits nothing.
LEMMA AbortStep == ASSUME Inv, NEW w \in Workers, Abort(w) PROVE Sound'
  <1>1. /\ locked' = [locked EXCEPT ![w] = NoEvent]
        /\ at' = [at EXCEPT ![w] = 1] /\ done' = [done EXCEPT ![w] = {}]
        /\ status' = status /\ checkpoints' = checkpoints /\ skipped' = skipped
        /\ retry_count' = retry_count /\ applied' = applied
    BY DEF Abort, Leave, rowVars
  <1>2. /\ locked'[w] = NoEvent /\ at'[w] = 1 /\ done'[w] = {}
        /\ \A v \in Workers : v # w =>
            locked'[v] = locked[v] /\ at'[v] = at[v] /\ done'[v] = done[v]
    BY <1>1 DEF Inv, TypeOK
  <1>3. OneDispatcher' /\ Idle'
    BY <1>1, <1>2 DEF Inv, OneDispatcher, Idle
  <1>4. AttemptFresh' /\ AttemptCovers'
    BY <1>1, <1>2 DEF Inv, AttemptFresh, AttemptCovers
  <1>5. CheckpointsExact' /\ AppliedOnce' /\ ProcessedCoversHandlers' /\ DeadWhenExhausted'
    BY <1>1 DEF Inv, CheckpointsExact, AppliedOnce, ProcessedCoversHandlers, DeadWhenExhausted
  <1> QED BY <1>3, <1>4, <1>5 DEF Sound

\* A row is written or deleted; no worker dispatches it.
LEMMA RowStep ==
    ASSUME Inv, NEW e \in Events, write_event(e) \/ cleanup_outbox(e)
    PROVE  Sound'
  <1>1. /\ status[e] \in {"unwritten", "processed"}
        /\ status'[e] \in {"pending", "deleted"}
        /\ status'[e] = "deleted" => status[e] = "processed"
        /\ status'[e] # "deleted" => checkpoints' = checkpoints
        /\ \A f \in Events : f # e => status'[f] = status[f] /\ checkpoints'[f] = checkpoints[f]
        /\ retry_count' = retry_count /\ applied' = applied /\ skipped' = skipped
        /\ locked' = locked /\ at' = at /\ done' = done
    <2>1. CASE write_event(e)
      BY <2>1 DEF write_event, Inv, TypeOK, workVars
    <2>2. CASE cleanup_outbox(e)
      BY <2>2 DEF cleanup_outbox, Deletable, Inv, TypeOK, workVars
    <2> QED BY <2>1, <2>2
  <1>2. \A w \in Workers : locked[w] # e
    BY <1>1, OutboxAssumption DEF Inv, OneDispatcher
  <1>3. \A w \in Workers : locked[w] # NoEvent =>
            /\ checkpoints'[locked[w]] = checkpoints[locked[w]]
            /\ status'[locked[w]] = status[locked[w]]
    BY <1>1, <1>2 DEF Inv, TypeOK
  <1>4. OneDispatcher' /\ Idle'
    BY <1>1, <1>3 DEF Inv, OneDispatcher, Idle
  <1>5. AttemptFresh' /\ AttemptCovers'
    BY <1>1, <1>3 DEF Inv, AttemptFresh, AttemptCovers
  <1>6. CheckpointsExact'
    BY <1>1 DEF Inv, CheckpointsExact
  <1>7. AppliedOnce' /\ ProcessedCoversHandlers' /\ DeadWhenExhausted'
    BY <1>1 DEF Inv, AppliedOnce, ProcessedCoversHandlers, DeadWhenExhausted
  <1> QED BY <1>4, <1>5, <1>6, <1>7 DEF Sound

\* Steps of the broker, the clock, the tenant and its cache touch none of it.
LEMMA OtherStep ==
    ASSUME Inv,
           UNCHANGED <<status, retry_count, checkpoints, skipped, applied, locked, at, done>>
    PROVE  Sound'
  <1>1. OneDispatcher' /\ Idle' /\ AttemptFresh' /\ AttemptCovers'
    BY DEF Inv, OneDispatcher, Idle, AttemptFresh, AttemptCovers
  <1>2. CheckpointsExact' /\ AppliedOnce' /\ ProcessedCoversHandlers' /\ DeadWhenExhausted'
    BY DEF Inv, CheckpointsExact, AppliedOnce, ProcessedCoversHandlers, DeadWhenExhausted
  <1> QED BY <1>1, <1>2 DEF Sound

\* One step of process_single_event, the sweep, the cleanup or the environment
\* keeps the rest of the invariant.
LEMMA SoundStep == Inv /\ [Next]_vars => Sound'
  <1> SUFFICES ASSUME Inv, [Next]_vars PROVE Sound'
    OBVIOUS
  <1>1. ASSUME NEW e \in Events, BackoffElapses(e) \/ Lose(e) PROVE Sound'
    BY <1>1, OtherStep DEF BackoffElapses, Lose, rowVars, workVars
  <1>2. CASE sweep_outbox
    BY <1>2, OtherStep DEF sweep_outbox, rowVars, workVars
  <1>3. ASSUME NEW w \in Workers, NEW e \in Events, TakeNothing(w, e) PROVE Sound'
    BY <1>3, OtherStep DEF TakeNothing, rowVars, workVars
  <1>4. CASE SetProduct \/ CacheExpires
    BY <1>4, OtherStep DEF SetProduct, CacheExpires, rowVars, workVars
  <1>5. CASE UNCHANGED vars
    BY <1>5, OtherStep DEF vars
  <1> QED
    BY <1>1, <1>2, <1>3, <1>4, <1>5, RowStep, TakeStep, PassStep, RaisesStep,
       ProcessedStep, AbortStep DEF Next

-----------------------------------------------------------------------------
\* The inductive invariant, for every number of rows, workers, handlers,
\* retries, messages and faults.
THEOREM Invariance == Spec => []Inv
  <1>1. Inv /\ [Next]_vars => Inv'
    BY TypeStep, SoundStep DEF Inv, Sound
  <1> QED BY InvInit, <1>1, PTL DEF Spec

\* Every variable keeps its type.
THEOREM TypeCorrect == Spec => []TypeOK
  <1>1. Inv => TypeOK
    BY DEF Inv
  <1> QED BY <1>1, Invariance, PTL

\* select_for_update(skip_locked) in process_single_event: one dispatcher per
\* row, and only of a pending row.
THEOREM DispatchIsExclusive == Spec => []OneDispatcher
  <1>1. Inv => OneDispatcher
    BY DEF Inv
  <1> QED BY <1>1, Invariance, PTL

\* dispatch_to_handlers commits the checkpoint with the handler's writes: no
\* handler's writes are committed twice for a row.
THEOREM HandlersApplyOnce == Spec => []AppliedOnce
  <1>1. Inv => AppliedOnce
    BY DEF Inv
  <1> QED BY <1>1, Invariance, PTL

\* A row is marked processed only when every handler was applied or gated off.
THEOREM NoHandlerLost == Spec => []ProcessedCoversHandlers
  <1>1. Inv => ProcessedCoversHandlers
    BY DEF Inv
  <1> QED BY <1>1, Invariance, PTL

\* A dead letter is exactly a row whose counted failures reached max_retries.
THEOREM DeadLettersExhausted == Spec => []DeadWhenExhausted
  <1>1. Inv => DeadWhenExhausted
    BY DEF Inv
  <1> QED BY <1>1, Invariance, PTL

\* cleanup_outbox and the workers never change a final announcement, so
\* announcement_status may read a missing row as announced.
THEOREM AnnouncementsFinal == Spec => AnnouncementIsFinal
  <1>1. Inv /\ [Next]_vars =>
            [\A e \in Events : announcement_status(e) # "in_flight"
                => announcement_status(e)' = announcement_status(e)]_vars
    <2> SUFFICES ASSUME Inv, Next, NEW e \in Events, announcement_status(e) # "in_flight"
                 PROVE  announcement_status(e)' = announcement_status(e)
      OBVIOUS
    <2>1. status[e] \in {"processed", "deleted", "failed"}
      BY DEF announcement_status
    <2>2. status'[e] = status[e] \/ (status[e] = "processed" /\ status'[e] = "deleted")
      <3>1. ASSUME NEW f \in Events, write_event(f) \/ BackoffElapses(f) \/ Lose(f)
                                     \/ cleanup_outbox(f)
            PROVE  status'[e] = status[e] \/ (status[e] = "processed" /\ status'[e] = "deleted")
        BY <2>1, <3>1 DEF write_event, BackoffElapses, Lose, cleanup_outbox, Deletable, Inv,
           TypeOK, rowVars
      <3>2. ASSUME NEW w \in Workers, NEW f \in Events, Take(w, f) \/ TakeNothing(w, f)
            PROVE  status' = status
        BY <3>2 DEF Take, TakeNothing, rowVars
      <3>3. ASSUME NEW w \in Workers, GatedOff(w) \/ AlreadyDone(w) \/ HandlerReturns(w)
                                      \/ Abort(w)
            PROVE  status' = status
        BY <3>3 DEF GatedOff, AlreadyDone, HandlerReturns, Abort, rowVars
      <3>4. ASSUME NEW w \in Workers, HandlerRaises(w) \/ Processed(w)
            PROVE  status'[e] = status[e]
        <4>1. locked[w] # e
          BY <2>1, <3>4 DEF HandlerRaises, Runs, Dispatching, Processed, Inv, OneDispatcher
        <4> QED BY <3>4, <4>1 DEF HandlerRaises, Processed, Inv, TypeOK
      <3>5. CASE sweep_outbox \/ SetProduct \/ CacheExpires
        BY <3>5 DEF sweep_outbox, SetProduct, CacheExpires, rowVars
      <3> QED BY <3>1, <3>2, <3>3, <3>4, <3>5 DEF Next
    <2> QED BY <2>1, <2>2 DEF announcement_status
  <1> QED BY <1>1, Invariance, PTL DEF Spec, AnnouncementIsFinal

=============================================================================
