------------------------- MODULE WorkerSystemProofs -------------------------
(***************************************************************************)
(* Proofs about WorkerSystem, for any tasks, workers, processes, limits    *)
(* and bounds.                                                             *)
(***************************************************************************)
EXTENDS WorkerSystem, TLAPS

(***************************************************************************)
(* Task records.                                                           *)
(***************************************************************************)

\* Every operation of the state machine yields a record (state.go:123-200).
LEMMA RecordOps ==
  ASSUME NEW r \in Record, NEW max \in Nat
  PROVE  /\ Start(r) \in Record
         /\ Complete(r) \in Record
         /\ Fail(r) \in Record
         /\ Cancel(r) \in Record
         /\ MoveToDLQ(r) \in Record
         /\ ScheduleRetry(r, max) \in Record
         /\ Retry(r, max) \in Record
         /\ PrepareForRequeue(r, max) \in Record
  <1>1. \A q \in Record, s \in State : Transition(q, s) \in Record
    BY DEF Transition, Record, State
  <1>2. Start(r) \in Record
    BY DEF Start, Record, State
  <1>3. /\ Complete(r) \in Record
        /\ Fail(r) \in Record
        /\ Cancel(r) \in Record
        /\ MoveToDLQ(r) \in Record
        /\ Retry(r, max) \in Record
    BY <1>1 DEF Complete, Fail, Cancel, MoveToDLQ, Retry, State
  <1>a. ScheduleRetry(r, max) \in Record
    BY <1>3 DEF ScheduleRetry
  <1>4. PrepareForRequeue(r, max) \in Record
    BY <1>3 DEF PrepareForRequeue, Record, State
  <1> QED BY <1>2, <1>3, <1>a, <1>4

\* Where the transitions the workers and the API use lead (state.go:87-96).
LEMMA RecordStates ==
  ASSUME NEW r \in Record
  PROVE  /\ CanTransitionTo(r.state, "running") => Start(r).state = "running"
         /\ r.state = "running" => Complete(r).state = "completed"
         /\ r.state = "running" => Fail(r).state = "failed"
         /\ Cancellable(r) => Cancel(r).state = "canceled"
         /\ \A max \in Nat :
              /\ r.state = "running" /\ CanRetry(r, max) =>
                   ScheduleRetry(Fail(r), max).state = "retrying"
              /\ PrepareForRequeue(r, max).state = "pending"
  <1>1. /\ CanTransitionTo(r.state, "running") => Start(r).state = "running"
        /\ r.state = "running" => Complete(r).state = "completed"
        /\ r.state = "running" => Fail(r).state = "failed"
        /\ Cancellable(r) => Cancel(r).state = "canceled"
    BY DEF CanTransitionTo, ValidTransitions, Start, Complete, Fail, Cancel,
           Cancellable, Transition, Record, State
  <1>2. ASSUME NEW max \in Nat, r.state = "running", CanRetry(r, max)
        PROVE  ScheduleRetry(Fail(r), max).state = "retrying"
    <2>1. Fail(r) = [r EXCEPT !.state = "failed"]
      BY <1>2 DEF Fail, Transition, CanTransitionTo, ValidTransitions, State
    <2>2. Fail(r).state = "failed" /\ CanRetry(Fail(r), max) /\ Fail(r) \in Record
      BY <1>2, <2>1 DEF CanRetry, Record, State
    <2> HIDE DEF Fail
    <2> QED
      BY <2>2 DEF ScheduleRetry, Retry, Transition, CanTransitionTo, ValidTransitions, Record, State
  <1>3. ASSUME NEW max \in Nat
        PROVE  PrepareForRequeue(r, max).state = "pending"
    <2>1. Retry(r, max) \in Record
      BY RecordOps
    <2> QED BY <2>1 DEF PrepareForRequeue, Record
  <1> QED BY <1>1, <1>2, <1>3

(***************************************************************************)
(* Types and control.                                                      *)
(***************************************************************************)

\* Initially every variable has its type and every hand is empty.
LEMMA TypeInit == Init => TypeInv
  BY CrashAssumption DEF Init, RedisInit, WorkerInit, RecoveryInit, ApiInit, TypeInv, TypeOK,
     RedisTypeOK, WorkerTypeOK, RecoveryTypeOK, ApiTypeOK, WorkerControl,
     RecoveryControl, StoppedTogether, WorkerPc, RecoveryPc, CreatePc, Entry

\* A step of a worker changes neither the recovery loops nor the requests, and
\* leaves its own variables and Redis well typed (pool.go:281-454).
LEMMA WorkerType ==
  ASSUME TypeInv, NEW w \in Workers, WorkerNext(w)
  PROVE  TypeInv'
  <1> USE DEF WorkerTypeOK, WorkerControl, At, task
  <1>1. UNCHANGED <<recoveryVars, apiVars, crashes>>
    BY DEF WorkerNext
  <1>2. /\ RecoveryTypeOK'
        /\ ApiTypeOK'
        /\ crashes' \in Nat
        /\ RecoveryControl'
    BY <1>1 DEF TypeInv, TypeOK, RecoveryTypeOK, ApiTypeOK, RecoveryControl,
                recoveryVars, apiVars, InBatch
  <1>3. /\ RedisTypeOK
        /\ wpc \in [Workers -> WorkerPc]
        /\ wmsg \in [Workers -> Entry \union {NoEntry}]
        /\ wrec \in [Workers -> Record \union {NoTask}]
        /\ WorkerControl
    BY DEF TypeInv, TypeOK
  <1>a. StoppedTogether'
    <2>1. wpc[w] # "stopped" /\ \E pc \in WorkerPc \ {"stopped"} : Goto(w, pc)
      BY DEF WorkerNext, WorkerStep, Dequeue, GetMissing, Drop, StartRefused, StartTask,
         SetRunning, HandlerReturns, SetCompleted, SetRetrying, SetFailed, FinishWith, ScheduleSet,
         ScheduleZAdd, DlqXAdd, DlqSAdd, Acknowledge, Goto, Return, WorkerPc
    <2>2. StoppedTogether /\ rpc' = rpc
      BY <1>1 DEF TypeInv, recoveryVars
    <2> QED BY <1>3, <2>1, <2>2 DEF StoppedTogether, Goto
  <1>4. SUFFICES RedisTypeOK' /\ WorkerTypeOK' /\ WorkerControl'
    BY <1>2, <1>a DEF TypeInv, TypeOK
  <1>5. wpc[w] \notin {"idle", "stopped"} => task(w) \in Tasks
    BY <1>3 DEF Entry
  <1> USE NoEntryAssumption, NoTaskAssumption
  <1>6. CASE Dequeue(w)
    <2>1. PICK e \in Heads : wmsg' = [wmsg EXCEPT ![w] = e]
      BY <1>6 DEF Dequeue
    <2>2. e \in Entry
      BY <1>3, <2>1 DEF Heads, RedisTypeOK
    <2>3. RedisTypeOK'
      BY <1>3, <1>6 DEF Dequeue, XReadGroup, Heads, RedisTypeOK, dlqVars
    <2>4. WorkerTypeOK' /\ WorkerControl'
      BY <1>3, <1>6, <2>1, <2>2 DEF Dequeue, Goto, WorkerPc
    <2> QED BY <2>3, <2>4
  <1>7. CASE GetMissing(w)
    BY <1>3, <1>7 DEF GetMissing, Goto, WorkerPc, RedisTypeOK, redisVars, dlqVars
  <1>8. CASE Drop(w) \/ Acknowledge(w)
    <2>1. RedisTypeOK'
      BY <1>3, <1>8 DEF Drop, Acknowledge, XAck, RedisTypeOK, dlqVars
    <2>2. WorkerTypeOK' /\ WorkerControl'
      BY <1>3, <1>8 DEF Drop, Acknowledge, Return, WorkerPc
    <2> QED BY <2>1, <2>2
  <1>9. CASE StartRefused(w)
    BY <1>3, <1>9 DEF StartRefused, Return, WorkerPc, RedisTypeOK, redisVars, dlqVars
  <1>10. CASE StartTask(w)
    <2>1. store[task(w)] \in Record
      BY <1>3, <1>5, <1>10 DEF StartTask, Exists, RedisTypeOK
    <2>2. Start(store[task(w)]) \in Record /\ Start(store[task(w)]).state = "running"
      BY <1>10, <2>1, RecordOps, RecordStates DEF StartTask
    <2> QED
      BY <1>3, <1>10, <2>2 DEF StartTask, Hold, Goto, WorkerPc, RedisTypeOK, redisVars, dlqVars
  <1>11. CASE SetRunning(w) \/ ScheduleSet(w)
    <2>1. wrec[w] \in Record
      BY <1>3, <1>11 DEF SetRunning, ScheduleSet
    <2> QED
      BY <1>3, <1>11, <2>1 DEF SetRunning, ScheduleSet, SetTask, Goto, WorkerPc, RedisTypeOK, dlqVars
  <1>12. ASSUME NEW r \in Record, NEW pc \in {"ack", "sched_set", "dlq_xadd"},
                At(w, "execute"), FinishWith(w, r, pc), pc = "sched_set" => r.state = "retrying"
         PROVE  RedisTypeOK' /\ WorkerTypeOK' /\ WorkerControl'
    <2>1. RedisTypeOK'
      BY <1>3, <1>12 DEF FinishWith, SetTask, RedisTypeOK, dlqVars
    <2>2. WorkerTypeOK' /\ WorkerControl'
      BY <1>3, <1>12 DEF FinishWith, Hold, Goto, WorkerPc
    <2> QED BY <2>1, <2>2
  <1>13. At(w, "execute") =>
           /\ Complete(wrec[w]) \in Record
           /\ Fail(wrec[w]) \in Record
           /\ ScheduleRetry(Fail(wrec[w]), MaxRetries[task(w)]) \in Record
           /\ CanRetry(wrec[w], MaxRetries[task(w)]) =>
                ScheduleRetry(Fail(wrec[w]), MaxRetries[task(w)]).state = "retrying"
    <2>1. SUFFICES ASSUME At(w, "execute")
                   PROVE  /\ Complete(wrec[w]) \in Record
                          /\ Fail(wrec[w]) \in Record
                          /\ ScheduleRetry(Fail(wrec[w]), MaxRetries[task(w)]) \in Record
                          /\ CanRetry(wrec[w], MaxRetries[task(w)]) =>
                               ScheduleRetry(Fail(wrec[w]), MaxRetries[task(w)]).state = "retrying"
      OBVIOUS
    <2>2. wrec[w] \in Record /\ wrec[w].state = "running" /\ MaxRetries[task(w)] \in Nat
      BY <1>3, <1>5, <2>1, MaxRetriesAssumption
    <2> QED BY <2>2, RecordOps, RecordStates
  <1>14. CASE SetCompleted(w) \/ SetRetrying(w) \/ SetFailed(w)
    BY <1>12, <1>13, <1>14 DEF HandlerReturns, SetCompleted, SetRetrying, SetFailed
  <1>15. CASE ScheduleZAdd(w)
    BY <1>3, <1>5, <1>15 DEF ScheduleZAdd, Goto, WorkerPc, RedisTypeOK, dlqVars
  <1>16. CASE DlqXAdd(w)
    <2>1. wrec[w] \in Record /\ MoveToDLQ(wrec[w]) \in Record
      BY <1>3, <1>16, RecordOps DEF DlqXAdd
    <2>2. RedisTypeOK'
      BY <1>3, <1>5, <1>16 DEF DlqXAdd, XAddDlq, RedisTypeOK, Entry
    <2>3. WorkerTypeOK' /\ WorkerControl'
      BY <1>3, <1>16, <2>1 DEF DlqXAdd, Hold, Goto, WorkerPc
    <2> QED BY <2>2, <2>3
  <1>17. CASE DlqSAdd(w)
    BY <1>3, <1>5, <1>17 DEF DlqSAdd, Goto, WorkerPc, RedisTypeOK, dlqVars
  <1> QED
    BY <1>6, <1>7, <1>8, <1>9, <1>10, <1>11, <1>14, <1>15, <1>16, <1>17
    DEF WorkerNext, WorkerStep

\* The same for a step of a recovery loop (pool.go:476-506).
LEMMA RecoveryType ==
  ASSUME TypeInv, NEW p \in Pools, RecoveryNext(p)
  PROVE  TypeInv'
  <1> USE NoEntryAssumption, NoTaskAssumption DEF RecoveryTypeOK, RecoveryControl
  <1>1. UNCHANGED <<workerVars, apiVars, crashes>>
    BY DEF RecoveryNext, RecoveryStep, Claim, ReadMissing, ReadClaimed, RequeueSet,
           RequeueXAdd, RequeueAck
  <1>2. WorkerTypeOK' /\ ApiTypeOK' /\ crashes' \in Nat /\ WorkerControl'
    BY <1>1 DEF TypeInv, TypeOK, WorkerTypeOK, ApiTypeOK, WorkerControl, workerVars, apiVars
  <1>3. RedisTypeOK /\ RecoveryTypeOK /\ RecoveryControl
    BY DEF TypeInv, TypeOK
  <1>a. StoppedTogether'
    <2>1. rpc[p] # "stopped" /\ \E pc \in RecoveryPc \ {"stopped"} : rpc' = [rpc EXCEPT ![p] = pc]
      BY DEF RecoveryNext, RecoveryStep, Claim, ReadMissing, ReadClaimed, RequeueSet,
         RequeueXAdd, RequeueAck, AfterItem, RecoveryPc
    <2>2. StoppedTogether /\ wpc' = wpc
      BY <1>1 DEF TypeInv, workerVars
    <2> QED BY <1>3, <2>1, <2>2, CrashAssumption DEF StoppedTogether
  <1>4. SUFFICES RedisTypeOK' /\ RecoveryTypeOK' /\ RecoveryControl'
    BY <1>2, <1>a DEF TypeInv, TypeOK
  <1>5. ASSUME NEW e \in pel, Claim(p, e)
        PROVE  RedisTypeOK' /\ RecoveryTypeOK' /\ RecoveryControl'
    <2>1. e \in Entry
      BY <1>3, <1>5 DEF RedisTypeOK
    <2>2. slow' \in Nat
      BY <1>3, <1>5 DEF Claim
    <2> QED
      BY <1>3, <1>5, <2>1, <2>2 DEF Claim, RecoveryPc, RedisTypeOK, redisVars, dlqVars
  <1>6. CASE ReadMissing(p)
    BY <1>3, <1>6 DEF ReadMissing, RecoveryPc, RedisTypeOK, redisVars, dlqVars
  <1>7. CASE ReadClaimed(p)
    <2>1. rclaim[p] \in Entry /\ store[rclaim[p].task] \in Record
      BY <1>3, <1>7 DEF ReadClaimed, Exists, RedisTypeOK, Entry
    <2>2. [entry |-> rclaim[p], rec |-> store[rclaim[p].task]] \in Claimed
      BY <2>1 DEF Claimed
    <2>3. rbatch' \in [Pools -> SUBSET Claimed]
      BY <1>3, <1>7, <2>2 DEF ReadClaimed
    <2> QED
      BY <1>3, <1>7, <2>3 DEF ReadClaimed, RecoveryPc, RedisTypeOK, redisVars, dlqVars
  <1>8. CASE RequeueSet(p)
    <2>1. PICK b \in rbatch[p] :
            /\ SetTask(b.entry.task, PrepareForRequeue(b.rec, MaxRetries[b.entry.task]))
            /\ rbatch' = [rbatch EXCEPT ![p] = @ \ {b}]
            /\ rcur' = [rcur EXCEPT ![p] = b.entry]
      BY <1>8 DEF RequeueSet
    <2>2. b.entry \in Entry /\ b.entry.task \in Tasks /\ b.rec \in Record
      BY <1>3 DEF Claimed, Entry
    <2>3. PrepareForRequeue(b.rec, MaxRetries[b.entry.task]) \in Record
      BY <2>2, RecordOps, MaxRetriesAssumption
    <2>4. RedisTypeOK'
      BY <1>3, <1>8, <2>1, <2>3 DEF RequeueSet, SetTask, RedisTypeOK, dlqVars
    <2>5. RecoveryTypeOK' /\ RecoveryControl'
      BY <1>3, <1>8, <2>1, <2>2 DEF RequeueSet, RecoveryPc
    <2> QED BY <2>4, <2>5
  <1>9. CASE RequeueXAdd(p)
    <2>1. rcur[p] \in Entry /\ rcur[p].task \in Tasks
      BY <1>3, <1>9 DEF RequeueXAdd, Entry
    <2>2. RedisTypeOK'
      BY <1>3, <1>9, <2>1 DEF RequeueXAdd, XAddTask, RedisTypeOK, Entry, dlqVars
    <2> QED BY <1>3, <1>9, <2>2 DEF RequeueXAdd, RecoveryPc
  <1>10. CASE RequeueAck(p)
    BY <1>3, <1>10 DEF RequeueAck, XAck, AfterItem, RecoveryPc, RedisTypeOK, dlqVars
  <1> QED BY <1>5, <1>6, <1>7, <1>8, <1>9, <1>10 DEF RecoveryNext, RecoveryStep

\* The same for a step of a request (handlers/task.go:44-202).
LEMMA ApiType ==
  ASSUME TypeInv, NEW t \in Tasks, ApiNext(t)
  PROVE  TypeInv'
  <1> USE NoTaskAssumption DEF ApiTypeOK
  <1>1. UNCHANGED <<workerVars, recoveryVars, crashes>>
    BY DEF ApiNext, ApiStep, Submit, EnqueueSet, EnqueueXAdd, CreateScheduledSet,
           CreateScheduledZAdd, AbortCreate, CancelRead, CancelSet, Expire
  <1>2. /\ WorkerTypeOK' /\ RecoveryTypeOK' /\ crashes' \in Nat
        /\ WorkerControl' /\ RecoveryControl' /\ StoppedTogether'
    BY <1>1 DEF TypeInv, TypeOK, WorkerTypeOK, RecoveryTypeOK, WorkerControl,
                RecoveryControl, StoppedTogether, workerVars, recoveryVars
  <1>3. RedisTypeOK /\ ApiTypeOK
    BY DEF TypeInv, TypeOK
  <1>4. SUFFICES RedisTypeOK' /\ ApiTypeOK'
    BY <1>2 DEF TypeInv, TypeOK
  <1>5. CASE Submit(t)
    BY <1>3, <1>5 DEF Submit, CreatePc, RedisTypeOK, redisVars, dlqVars
  <1>6. CASE EnqueueSet(t) \/ CreateScheduledSet(t)
    <2>1. NewRecord("pending") \in Record /\ NewRecord("scheduled") \in Record
      BY DEF NewRecord, Record, State
    <2> QED
      BY <1>3, <1>6, <2>1
      DEF EnqueueSet, CreateScheduledSet, SetTask, CreatePc, RedisTypeOK, dlqVars
  <1>7. CASE EnqueueXAdd(t)
    BY <1>3, <1>7 DEF EnqueueXAdd, XAddTask, CreatePc, RedisTypeOK, Entry, dlqVars
  <1>8. CASE CreateScheduledZAdd(t)
    BY <1>3, <1>8 DEF CreateScheduledZAdd, CreatePc, RedisTypeOK, dlqVars
  <1>9. CASE AbortCreate(t)
    BY <1>3, <1>9 DEF AbortCreate, CreatePc, RedisTypeOK, redisVars, dlqVars
  <1>10. CASE CancelRead(t)
    <2>1. store[t] \in Record
      BY <1>3, <1>10 DEF CancelRead, Exists, RedisTypeOK
    <2>2. Cancel(store[t]) \in Record
      BY <2>1 DEF Cancel, Transition, Record, State
    <2> QED BY <1>3, <1>10, <2>2 DEF CancelRead, RedisTypeOK, redisVars, dlqVars
  <1>11. CASE CancelSet(t)
    BY <1>3, <1>11 DEF CancelSet, SetTask, RedisTypeOK, dlqVars
  <1>12. CASE Expire(t)
    BY <1>3, <1>12 DEF Expire, DelTask, RedisTypeOK, dlqVars
  <1> QED
    BY <1>5, <1>6, <1>7, <1>8, <1>9, <1>10, <1>11, <1>12 DEF ApiNext, ApiStep

\* The same for the death and the restart of a process.
LEMMA CrashType ==
  ASSUME TypeInv, NEW p \in Pools, Crash(p) \/ Restart(p)
  PROVE  TypeInv'
  <1> USE NoEntryAssumption DEF TypeInv, TypeOK, WorkerTypeOK, RecoveryTypeOK
  <1>1. /\ UNCHANGED <<redisVars, apiVars, slow>>
        /\ crashes' \in Nat
    BY DEF Crash, Restart, CrashAssumption
  <1>2. RedisTypeOK' /\ ApiTypeOK' /\ slow' \in Nat
    BY <1>1 DEF RedisTypeOK, ApiTypeOK, redisVars, dlqVars, apiVars
  <1>3. WorkerTypeOK' /\ WorkerControl'
    BY CrashAssumption DEF Crash, Restart, SetPool, WorkerControl, StoppedTogether, WorkerPc
  <1>4. RecoveryTypeOK' /\ RecoveryControl'
    BY <1>2 DEF Crash, Restart, SetPool, RecoveryControl, RecoveryPc
  <1>5. StoppedTogether'
    BY CrashAssumption DEF Crash, Restart, SetPool, StoppedTogether
  <1> QED BY <1>1, <1>2, <1>3, <1>4, <1>5

\* No step breaks the types or takes a hand away from its program counter.
LEMMA TypeStep == TypeInv /\ [Next]_vars => TypeInv'
  <1>1. SUFFICES ASSUME TypeInv, [Next]_vars PROVE TypeInv'
    OBVIOUS
  <1>2. CASE UNCHANGED vars
    BY <1>1, <1>2 DEF TypeInv, TypeOK, RedisTypeOK, WorkerTypeOK, RecoveryTypeOK, ApiTypeOK,
       WorkerControl, RecoveryControl, StoppedTogether, vars, redisVars, dlqVars, workerVars,
       recoveryVars, apiVars
  <1>3. CASE Next
    BY <1>1, <1>3, WorkerType, RecoveryType, ApiType, CrashType DEF Next
  <1> QED BY <1>1, <1>2, <1>3

\* Every variable keeps its type, a worker or recovery loop holds an entry exactly
\* where its code says so, and the record a handler runs on is in state running.
THEOREM TypeCorrect == Spec => []TypeInv
  BY TypeInit, TypeStep, PTL DEF Spec

(***************************************************************************)
(* Hands: without slow claims no entry is in two of them.                  *)
(***************************************************************************)

\* Initially there are no entries.
LEMMA HoldingInit == Init => HoldingInv
  BY DEF Init, RedisInit, WorkerInit, RecoveryInit, HoldingInv, EntriesInv,
     HeldIsPending, HeldOnce, RecoveryHolds, InBatch

\* An entry that is not pending is in nobody's hands.
LEMMA NotPendingNotHeld ==
  ASSUME HoldingInv, NEW e, e # NoEntry, e \notin pel
  PROVE  ~ Held(e)
  BY DEF HoldingInv, HeldIsPending, Held, HeldByWorker, RecoveryHolds, InBatch

\* A worker takes an entry nobody else has, or lets go of its own (Dequeue, XACK
\* and the error return of processNextTask).
LEMMA HoldingWorker ==
  ASSUME TypeInv, HoldingInv, NEW w \in Workers, WorkerNext(w)
  PROVE  HoldingInv'
  <1>1. /\ lastId \in Nat /\ stream \in SUBSET Entry /\ pel \in SUBSET Entry
        /\ wmsg \in [Workers -> Entry \union {NoEntry}]
    BY DEF TypeInv, TypeOK, RedisTypeOK, WorkerTypeOK
  <1>2. UNCHANGED <<rclaim, rbatch, rcur>>
    BY DEF WorkerNext, recoveryVars
  <1>4. EntriesInv /\ HeldIsPending /\ HeldOnce
    BY DEF HoldingInv
  <1>5. CASE UNCHANGED <<stream, pel, lastId, wmsg>>
    BY <1>2, <1>4, <1>5
    DEF HoldingInv, EntriesInv, HeldIsPending, HeldOnce, RecoveryHolds, InBatch
  <1>6. CASE Dequeue(w)
    <2>1. PICK e \in Heads : wmsg' = [wmsg EXCEPT ![w] = e]
      BY <1>6 DEF Dequeue
    <2>2. /\ stream' = stream \ Heads
          /\ pel' = pel \union Heads
          /\ lastId' = lastId
          /\ Heads \subseteq stream
      BY <1>6 DEF Dequeue, XReadGroup, Heads
    <2>3. e \in Entry /\ e # NoEntry /\ e \in pel'
      BY <1>1, <2>1, <2>2, NoEntryAssumption
    <2>4. \A f \in Heads : f \notin pel /\ f # NoEntry /\ ~ Held(f)
      BY <1>1, <1>4, <2>2, NotPendingNotHeld, NoEntryAssumption DEF EntriesInv
    <2>5. EntriesInv'
      BY <1>1, <1>4, <2>2 DEF EntriesInv
    <2>6. HeldIsPending'
      BY <1>1, <1>2, <1>4, <2>1, <2>2, <2>3 DEF HeldIsPending
    <2>7. HeldOnce'
      <3>1. \A u \in Workers : wmsg[u] # e
        BY <2>4 DEF Held, HeldByWorker
      <3>2. \A f \in Heads, p \in Pools : ~ RecoveryHolds(p, f)
        BY <2>4 DEF Held
      <3>3. \A u, v \in Workers : wmsg'[u] = wmsg'[v] => u = v \/ wmsg'[v] = NoEntry
        BY <1>1, <1>4, <2>1, <3>1 DEF HeldOnce
      <3>4. \A v \in Workers, p \in Pools :
              wmsg'[v] # NoEntry => ~ RecoveryHolds(p, wmsg'[v])
        BY <1>1, <1>4, <2>1, <3>2 DEF HeldOnce
      <3>5. \A p, q \in Pools : \A f \in pel' :
              RecoveryHolds(p, f) /\ RecoveryHolds(q, f) => p = q
        BY <1>4, <2>2, <3>2 DEF HeldOnce
      <3> QED BY <1>2, <1>4, <3>3, <3>4, <3>5 DEF HeldOnce, RecoveryHolds, InBatch
    <2> QED BY <2>5, <2>6, <2>7 DEF HoldingInv
  <1>7. ASSUME wmsg' = [wmsg EXCEPT ![w] = NoEntry], stream' = stream, lastId' = lastId,
               pel' = pel \/ pel' = pel \ {wmsg[w]}, wmsg[w] # NoEntry
        PROVE  HoldingInv'
    <2>1. EntriesInv'
      BY <1>1, <1>4, <1>7 DEF EntriesInv
    <2>2. \A p \in Pools : ~ RecoveryHolds(p, wmsg[w])
      BY <1>4, <1>7 DEF HeldOnce
    <2>3. \A v \in Workers : v # w => wmsg[v] # wmsg[w]
      BY <1>4, <1>7 DEF HeldOnce
    <2>4. HeldIsPending'
      BY <1>1, <1>2, <1>4, <1>7, <2>2, <2>3 DEF HeldIsPending, RecoveryHolds, InBatch
    <2>5. HeldOnce'
      BY <1>1, <1>2, <1>4, <1>7 DEF HeldOnce, RecoveryHolds, InBatch
    <2> QED BY <2>1, <2>4, <2>5 DEF HoldingInv
  <1>8. CASE Drop(w) \/ Acknowledge(w) \/ StartRefused(w)
    <2>1. wmsg[w] # NoEntry
      BY <1>8 DEF Drop, Acknowledge, StartRefused, At, TypeInv, WorkerControl
    <2> QED
      BY <1>7, <1>8, <2>1 DEF Drop, Acknowledge, StartRefused, Return, XAck, redisVars
  <1> QED
    BY <1>5, <1>6, <1>8
    DEF WorkerNext, WorkerStep, GetMissing, StartTask, SetRunning, SetCompleted, SetRetrying,
        SetFailed, HandlerReturns, FinishWith, ScheduleSet, ScheduleZAdd, DlqXAdd, DlqSAdd,
        redisVars

\* A recovery loop passes an entry from hand to hand until it acknowledges it; it
\* claims only entries nobody holds when handlers are prompt (ClaimOrphanedTasks,
\* recoverOrphanedTasks).
LEMMA HoldingRecovery ==
  ASSUME TypeInv, HoldingInv, NEW p \in Pools, RecoveryNext(p), slow' = 0
  PROVE  HoldingInv'
  <1> USE NoEntryAssumption
  <1>1. /\ lastId \in Nat /\ stream \in SUBSET Entry /\ pel \in SUBSET Entry
        /\ rclaim \in [Pools -> Entry \union {NoEntry}]
        /\ rbatch \in [Pools -> SUBSET Claimed]
        /\ rcur \in [Pools -> Entry \union {NoEntry}]
        /\ slow \in Nat
        /\ RecoveryControl
    BY DEF TypeInv, TypeOK, RedisTypeOK, RecoveryTypeOK
  <1>2. EntriesInv /\ HeldIsPending /\ HeldOnce
    BY DEF HoldingInv
  <1>3. UNCHANGED wmsg
    BY DEF RecoveryNext, RecoveryStep, Claim, ReadMissing, ReadClaimed, RequeueSet,
           RequeueXAdd, RequeueAck, workerVars
  <1>4. ASSUME NEW e \in pel, Claim(p, e)
        PROVE  HoldingInv'
    <2>1. ~ Held(e)
      BY <1>1, <1>4 DEF Claim
    <2>2. /\ e \in Entry /\ e # NoEntry
          /\ UNCHANGED <<stream, pel, lastId, rbatch, rcur>>
          /\ rclaim' = [rclaim EXCEPT ![p] = e]
          /\ rclaim[p] = NoEntry
      BY <1>1, <1>4 DEF Claim, redisVars, RecoveryControl
    <2>3. EntriesInv' /\ HeldIsPending'
      BY <1>1, <1>2, <1>3, <2>2 DEF EntriesInv, HeldIsPending
    <2>4. HeldOnce'
      BY <1>1, <1>2, <1>3, <2>1, <2>2
      DEF HeldOnce, Held, HeldByWorker, RecoveryHolds, InBatch
    <2> QED BY <2>3, <2>4 DEF HoldingInv
  <1>5. CASE ReadMissing(p)
    <2>1. /\ UNCHANGED <<stream, pel, lastId, rbatch, rcur>>
          /\ rclaim' = [rclaim EXCEPT ![p] = NoEntry]
      BY <1>5 DEF ReadMissing, redisVars
    <2>2. EntriesInv' /\ HeldIsPending'
      BY <1>1, <1>2, <1>3, <2>1 DEF EntriesInv, HeldIsPending
    <2>3. HeldOnce'
      BY <1>1, <1>2, <1>3, <2>1 DEF HeldOnce, RecoveryHolds, InBatch
    <2> QED BY <2>2, <2>3 DEF HoldingInv
  <1>6. CASE ReadClaimed(p)
    <2> DEFINE c == [entry |-> rclaim[p], rec |-> store[rclaim[p].task]]
    <2>1. /\ UNCHANGED <<stream, pel, lastId, rcur>>
          /\ rclaim' = [rclaim EXCEPT ![p] = NoEntry]
          /\ rbatch' = [rbatch EXCEPT ![p] = @ \union {c}]
          /\ rclaim[p] # NoEntry
          /\ c.entry = rclaim[p]
      BY <1>1, <1>6 DEF ReadClaimed, redisVars, RecoveryControl
    <2> HIDE DEF c
    <2>2. \A q \in Pools, e \in pel : RecoveryHolds(q, e)' => RecoveryHolds(q, e)
      BY <1>1, <2>1 DEF RecoveryHolds, InBatch, Claimed
    <2>3. EntriesInv' /\ HeldIsPending'
      BY <1>1, <1>2, <1>3, <2>1 DEF EntriesInv, HeldIsPending
    <2>4. HeldOnce'
      <3>1. \A w \in Workers, q \in Pools :
              wmsg'[w] # NoEntry => ~ RecoveryHolds(q, wmsg[w])'
        BY <1>1, <1>2, <1>3, <2>1 DEF HeldOnce, RecoveryHolds, InBatch
      <3>2. \A q, r \in Pools : \A e \in pel' :
              RecoveryHolds(q, e)' /\ RecoveryHolds(r, e)' => q = r
        BY <1>2, <2>1, <2>2 DEF HeldOnce
      <3>3. \A q \in Pools :
              /\ rclaim'[q] # NoEntry => rclaim'[q] # rcur'[q] /\ ~ InBatch(q, rclaim[q])'
              /\ rcur'[q] # NoEntry => ~ InBatch(q, rcur[q])'
              /\ \A b, d \in rbatch'[q] : b.entry = d.entry => b = d
        BY <1>1, <1>2, <2>1 DEF HeldOnce, InBatch
      <3>4. \A v, w \in Workers : wmsg'[v] = wmsg'[w] => v = w \/ wmsg'[w] = NoEntry
        BY <1>2, <1>3 DEF HeldOnce
      <3> QED BY <3>1, <3>2, <3>3, <3>4 DEF HeldOnce
    <2> QED BY <2>3, <2>4 DEF HoldingInv
  <1>7. CASE RequeueSet(p)
    <2>1. PICK b \in rbatch[p] :
            /\ rbatch' = [rbatch EXCEPT ![p] = @ \ {b}]
            /\ rcur' = [rcur EXCEPT ![p] = b.entry]
      BY <1>7 DEF RequeueSet
    <2>2. /\ UNCHANGED <<stream, pel, lastId, rclaim>>
          /\ rcur[p] = NoEntry
          /\ b.entry \in Entry /\ b.entry # NoEntry
      BY <1>1, <1>7 DEF RequeueSet, RecoveryControl, Claimed
    <2>3. EntriesInv' /\ HeldIsPending'
      BY <1>1, <1>2, <1>3, <2>1, <2>2 DEF EntriesInv, HeldIsPending
    <2>4. \A q \in Pools, e \in pel : RecoveryHolds(q, e)' => RecoveryHolds(q, e)
      BY <1>1, <2>1, <2>2 DEF RecoveryHolds, InBatch, Claimed
    <2>5. HeldOnce'
      <3>1. \A w \in Workers, q \in Pools :
              wmsg'[w] # NoEntry => ~ RecoveryHolds(q, wmsg[w])'
        BY <1>1, <1>2, <1>3, <2>1, <2>2 DEF HeldOnce, RecoveryHolds, InBatch
      <3>2. \A q, r \in Pools : \A e \in pel' :
              RecoveryHolds(q, e)' /\ RecoveryHolds(r, e)' => q = r
        BY <1>2, <2>2, <2>4 DEF HeldOnce
      <3>3. \A q \in Pools :
              /\ rclaim'[q] # NoEntry => rclaim'[q] # rcur'[q] /\ ~ InBatch(q, rclaim[q])'
              /\ rcur'[q] # NoEntry => ~ InBatch(q, rcur[q])'
              /\ \A c, d \in rbatch'[q] : c.entry = d.entry => c = d
        BY <1>1, <1>2, <2>1, <2>2 DEF HeldOnce, InBatch
      <3>4. \A v, w \in Workers : wmsg'[v] = wmsg'[w] => v = w \/ wmsg'[w] = NoEntry
        BY <1>2, <1>3 DEF HeldOnce
      <3> QED BY <3>1, <3>2, <3>3, <3>4 DEF HeldOnce
    <2> QED BY <2>3, <2>5 DEF HoldingInv
  <1>8. CASE RequeueXAdd(p)
    <2>1. /\ XAddTask(rcur[p].task)
          /\ UNCHANGED <<pel, rclaim, rbatch, rcur>>
      BY <1>8 DEF RequeueXAdd
    <2>2. EntriesInv'
      BY <1>1, <1>2, <2>1 DEF EntriesInv, XAddTask, Entry
    <2> QED
      BY <1>2, <1>3, <2>1, <2>2
      DEF HoldingInv, HeldIsPending, HeldOnce, RecoveryHolds, InBatch
  <1>9. CASE RequeueAck(p)
    <2>1. /\ UNCHANGED <<stream, lastId, rclaim, rbatch>>
          /\ rcur[p] # NoEntry
          /\ pel' = pel \ {rcur[p]}
          /\ rcur' = [rcur EXCEPT ![p] = NoEntry]
      BY <1>1, <1>9 DEF RequeueAck, XAck, RecoveryControl
    <2>2. EntriesInv'
      BY <1>2, <2>1 DEF EntriesInv
    <2>3. /\ \A w \in Workers : wmsg[w] # rcur[p]
          /\ rclaim[p] # rcur[p] /\ ~ InBatch(p, rcur[p])
          /\ \A q \in Pools : q # p => ~ RecoveryHolds(q, rcur[p])
      BY <1>2, <2>1 DEF HeldOnce, HeldIsPending, RecoveryHolds
    <2>4. HeldIsPending'
      BY <1>1, <1>2, <1>3, <2>1, <2>3 DEF HeldIsPending, RecoveryHolds, InBatch
    <2>5. HeldOnce'
      BY <1>1, <1>2, <1>3, <2>1 DEF HeldOnce, RecoveryHolds, InBatch
    <2> QED BY <2>2, <2>4, <2>5 DEF HoldingInv
  <1> QED BY <1>4, <1>5, <1>6, <1>7, <1>8, <1>9 DEF RecoveryNext, RecoveryStep

\* Requests hold no entries; they only add to the streams.
LEMMA HoldingApi ==
  ASSUME TypeInv, HoldingInv, NEW t \in Tasks, ApiNext(t)
  PROVE  HoldingInv'
  <1>1. /\ UNCHANGED <<pel, wmsg, rclaim, rbatch, rcur>>
        /\ \/ UNCHANGED <<stream, lastId>>
           \/ XAddTask(t)
    BY DEF ApiNext, ApiStep, Submit, EnqueueSet, EnqueueXAdd, CreateScheduledSet,
           CreateScheduledZAdd, AbortCreate, CancelRead, CancelSet, Expire,
           redisVars, workerVars, recoveryVars
  <1>2. lastId \in Nat /\ stream \in SUBSET Entry /\ pel \in SUBSET Entry
    BY DEF TypeInv, TypeOK, RedisTypeOK
  <1>3. EntriesInv'
    BY <1>1, <1>2 DEF HoldingInv, EntriesInv, XAddTask, Entry
  <1> QED
    BY <1>1, <1>3 DEF HoldingInv, HeldIsPending, HeldOnce, RecoveryHolds, InBatch

\* A process that dies lets go of everything it holds.
LEMMA HoldingCrash ==
  ASSUME TypeInv, HoldingInv, NEW p \in Pools, Crash(p) \/ Restart(p)
  PROVE  HoldingInv'
  <1>1. /\ wmsg \in [Workers -> Entry \union {NoEntry}]
        /\ rclaim \in [Pools -> Entry \union {NoEntry}]
        /\ rbatch \in [Pools -> SUBSET Claimed]
        /\ rcur \in [Pools -> Entry \union {NoEntry}]
    BY DEF TypeInv, TypeOK, WorkerTypeOK, RecoveryTypeOK
  <1>2. /\ UNCHANGED <<stream, pel, lastId>>
        /\ \A w \in Workers : wmsg'[w] \in {wmsg[w], NoEntry}
        /\ \A q \in Pools : /\ rclaim'[q] \in {rclaim[q], NoEntry}
                            /\ rcur'[q] \in {rcur[q], NoEntry}
                            /\ rbatch'[q] \in {rbatch[q], {}}
    BY <1>1 DEF Crash, Restart, redisVars
  <1>3. EntriesInv' /\ HeldIsPending'
    BY <1>2 DEF HoldingInv, EntriesInv, HeldIsPending
  <1>4. HeldOnce'
    <2>1. \A q \in Pools, e \in pel : RecoveryHolds(q, e)' => RecoveryHolds(q, e)
      BY <1>2, NoEntryAssumption DEF RecoveryHolds, InBatch, TypeInv, TypeOK, RedisTypeOK
    <2>2. \A w \in Workers, q \in Pools :
            wmsg'[w] # NoEntry => ~ RecoveryHolds(q, wmsg[w])'
      BY <1>2 DEF HoldingInv, HeldOnce, RecoveryHolds, InBatch
    <2>3. \A q, r \in Pools : \A e \in pel' :
            RecoveryHolds(q, e)' /\ RecoveryHolds(r, e)' => q = r
      BY <1>2, <2>1 DEF HoldingInv, HeldOnce
    <2>4. \A q \in Pools :
            /\ rclaim'[q] # NoEntry => rclaim'[q] # rcur'[q] /\ ~ InBatch(q, rclaim[q])'
            /\ rcur'[q] # NoEntry => ~ InBatch(q, rcur[q])'
            /\ \A c, d \in rbatch'[q] : c.entry = d.entry => c = d
      BY <1>2 DEF HoldingInv, HeldOnce, InBatch
    <2>5. \A v, w \in Workers : wmsg'[v] = wmsg'[w] => v = w \/ wmsg'[w] = NoEntry
      BY <1>2 DEF HoldingInv, HeldOnce
    <2> QED BY <2>2, <2>3, <2>4, <2>5 DEF HeldOnce
  <1> QED BY <1>3, <1>4 DEF HoldingInv

(***************************************************************************)
(* Requests.                                                               *)
(***************************************************************************)

\* Before any request nothing is accepted.
LEMMA RequestInit == Init => RequestInv /\ Carried
  BY DEF Init, RedisInit, ApiInit, RequestInv, Carried

\* Workers, recovery and crashes leave requests alone and delete no record.
LEMMA StoreKept ==
  ASSUME TypeInv, \/ \E w \in Workers : WorkerNext(w)
                  \/ \E p \in Pools : RecoveryNext(p) \/ Crash(p) \/ Restart(p)
  PROVE  /\ UNCHANGED apiVars
         /\ \A t \in Tasks : Exists(t) => Exists(t)'
  <1> USE NoTaskAssumption
  <1>1. /\ store \in [Tasks -> Record \union {NoTask}]
        /\ wrec \in [Workers -> Record \union {NoTask}]
        /\ rbatch \in [Pools -> SUBSET Claimed]
    BY DEF TypeInv, TypeOK, RedisTypeOK, WorkerTypeOK, RecoveryTypeOK
  <1>2. ASSUME UNCHANGED store PROVE \A t \in Tasks : Exists(t) => Exists(t)'
    BY <1>2 DEF Exists
  <1>3. ASSUME NEW x, NEW r \in Record, SetTask(x, r)
        PROVE  \A t \in Tasks : Exists(t) => Exists(t)'
    BY <1>1, <1>3 DEF SetTask, Exists
  <1>4. ASSUME NEW w \in Workers, WorkerNext(w)
        PROVE  UNCHANGED apiVars /\ \A t \in Tasks : Exists(t) => Exists(t)'
    <2>1. UNCHANGED apiVars
      BY <1>4 DEF WorkerNext
    <2>2. CASE SetRunning(w) \/ ScheduleSet(w)
      <3>1. wrec[w] \in Record
        BY <1>1, <2>2 DEF SetRunning, ScheduleSet, At, TypeInv, WorkerControl, WorkerTypeOK,
           TypeOK
      <3> QED BY <1>3, <2>1, <2>2, <3>1 DEF SetRunning, ScheduleSet
    <2>3. CASE SetCompleted(w) \/ SetRetrying(w) \/ SetFailed(w)
      <3>1. wrec[w] \in Record /\ MaxRetries[task(w)] \in Nat
        <4>1. wrec[w] \in Record /\ wmsg[w] \in Entry
          BY <2>3 DEF HandlerReturns, SetCompleted, SetRetrying, SetFailed, At, TypeInv, WorkerControl,
             TypeOK, WorkerTypeOK
        <4> QED BY <4>1, MaxRetriesAssumption DEF task, Entry
      <3>2. /\ Complete(wrec[w]) \in Record /\ Fail(wrec[w]) \in Record
            /\ ScheduleRetry(Fail(wrec[w]), MaxRetries[task(w)]) \in Record
        BY <3>1, RecordOps
      <3> QED
        BY <1>3, <2>1, <2>3, <3>2 DEF SetCompleted, SetRetrying, SetFailed, FinishWith
    <2>4. CASE UNCHANGED store
      BY <1>2, <2>1, <2>4
    <2> QED
      BY <1>4, <2>2, <2>3, <2>4
      DEF WorkerNext, WorkerStep, Dequeue, GetMissing, Drop, StartRefused, StartTask,
          ScheduleZAdd, DlqXAdd, DlqSAdd, Acknowledge, redisVars
  <1>5. ASSUME NEW p \in Pools, RecoveryNext(p)
        PROVE  UNCHANGED apiVars /\ \A t \in Tasks : Exists(t) => Exists(t)'
    <2>1. UNCHANGED apiVars
      BY <1>5 DEF RecoveryNext
    <2>2. CASE RequeueSet(p)
      <3>1. PICK b \in rbatch[p] :
              SetTask(b.entry.task, PrepareForRequeue(b.rec, MaxRetries[b.entry.task]))
        BY <2>2 DEF RequeueSet
      <3>2. b.rec \in Record /\ MaxRetries[b.entry.task] \in Nat
        BY <1>1, MaxRetriesAssumption DEF Claimed, Entry
      <3> QED BY <1>3, <2>1, <3>1, <3>2, RecordOps
    <2>3. CASE UNCHANGED store
      BY <1>2, <2>1, <2>3
    <2> QED
      BY <1>5, <2>2, <2>3
      DEF RecoveryNext, RecoveryStep, Claim, ReadMissing, ReadClaimed, RequeueXAdd,
          RequeueAck, redisVars
  <1>6. ASSUME NEW p \in Pools, Crash(p) \/ Restart(p)
        PROVE  UNCHANGED apiVars /\ \A t \in Tasks : Exists(t) => Exists(t)'
    BY <1>2, <1>6 DEF Crash, Restart, redisVars
  <1> QED BY <1>4, <1>5, <1>6

\* A task is answered 201 once, when its record and its entry or member exist, and
\* a cancel request can only write state canceled (Create, Cancel).
LEMMA RequestStep ==
  ASSUME TypeInv, RequestInv, [Next]_vars
  PROVE  RequestInv'
  <1>1. CASE UNCHANGED vars
    BY <1>1 DEF RequestInv, vars, apiVars, redisVars, Exists
  <1>2. CASE \/ \E w \in Workers : WorkerNext(w)
             \/ \E p \in Pools : RecoveryNext(p) \/ Crash(p) \/ Restart(p)
    <2>1. UNCHANGED <<cpc, krec, accepted>> /\ \A t \in Tasks : Exists(t) => Exists(t)'
      BY <1>2, StoreKept DEF apiVars
    <2> QED BY <2>1 DEF RequestInv
  <1>3. ASSUME NEW t \in Tasks, ApiNext(t)
        PROVE  RequestInv'
    <2> USE NoTaskAssumption
    <2>1. /\ store \in [Tasks -> Record \union {NoTask}]
          /\ krec \in [Tasks -> Record \union {NoTask}]
          /\ cpc \in [Tasks -> CreatePc]
      BY DEF TypeInv, TypeOK, RedisTypeOK, ApiTypeOK
    <2>2. CASE Submit(t) \/ AbortCreate(t)
      BY <2>1, <2>2 DEF Submit, AbortCreate, RequestInv, Exists, redisVars
    <2>3. CASE EnqueueSet(t) \/ CreateScheduledSet(t)
      <3>1. PICK r \in Record : SetTask(t, r)
        <4>1. NewRecord("pending") \in Record /\ NewRecord("scheduled") \in Record
          BY DEF NewRecord, Record, State
        <4> QED BY <2>3, <4>1 DEF EnqueueSet, CreateScheduledSet
      <3> QED
        BY <2>1, <2>3, <3>1 DEF EnqueueSet, CreateScheduledSet, SetTask, RequestInv, Exists
    <2>4. CASE EnqueueXAdd(t) \/ CreateScheduledZAdd(t)
      BY <2>1, <2>4 DEF EnqueueXAdd, CreateScheduledZAdd, RequestInv, Exists
    <2>5. CASE CancelRead(t)
      <3>1. store[t] \in Record /\ Cancel(store[t]).state = "canceled"
        BY <2>1, <2>5, RecordStates DEF CancelRead, Exists
      <3> QED BY <2>1, <2>5, <3>1 DEF CancelRead, RequestInv, Exists, redisVars
    <2>6. CASE CancelSet(t)
      BY <2>1, <2>6 DEF CancelSet, SetTask, RequestInv, Exists
    <2>7. CASE Expire(t)
      BY <2>1, <2>7 DEF Expire, DelTask, RequestInv, Exists
    <2> QED BY <1>3, <2>2, <2>3, <2>4, <2>5, <2>6, <2>7 DEF ApiNext, ApiStep
  <1> QED BY <1>1, <1>2, <1>3 DEF Next

(***************************************************************************)
(* Carried: nobody writes a live record without an entry, or a member of   *)
(* the sorted set, that outlives the write.                                *)
(***************************************************************************)

\* A step that neither rewrites the record of t nor settles or acknowledges one of
\* its unsettled entries keeps t carried.
LEMMA CarriedFrame ==
  ASSUME NEW t \in Tasks, IsCarried(t), store'[t] = store[t], zset \subseteq zset',
         \A e \in stream \union pel :
           e.task = t /\ ~ Spent(e) => e \in (stream \union pel)' /\ ~ Spent(e)'
  PROVE  IsCarried(t)'
  <1>1. Exists(t)' /\ (Settled(t) => Settled(t)')
    BY DEF IsCarried, Exists, Settled
  <1>2. CASE Settled(t) \/ t \in zset
    BY <1>1, <1>2 DEF IsCarried
  <1>3. CASE \E e \in stream \union pel : e.task = t /\ ~ Spent(e)
    <2>1. PICK e \in stream \union pel : e.task = t /\ ~ Spent(e)
      BY <1>3
    <2>2. e \in (stream \union pel)' /\ ~ Spent(e)'
      BY <2>1
    <2> QED BY <1>1, <2>1, <2>2 DEF IsCarried
  <1> QED BY <1>2, <1>3 DEF IsCarried

\* A worker writes a live record only while it holds an unsettled entry, and
\* settles its entry by a final record or a member of the sorted set
\* (handleTaskSuccess, handleTaskFailure).
LEMMA CarriedWorker ==
  ASSUME TypeInv, TypeInv', HoldingInv, Carried, NEW w \in Workers, WorkerNext(w)
  PROVE  Carried'
  <1> USE NoTaskAssumption
  <1>1. /\ store \in [Tasks -> Record \union {NoTask}]
        /\ stream \in SUBSET Entry /\ pel \in SUBSET Entry
        /\ wpc \in [Workers -> WorkerPc]
        /\ wmsg \in [Workers -> Entry \union {NoEntry}]
        /\ wrec \in [Workers -> Record \union {NoTask}]
        /\ accepted \in SUBSET Tasks
        /\ WorkerControl
    BY DEF TypeInv, TypeOK, RedisTypeOK, WorkerTypeOK, ApiTypeOK
  <1>2. accepted' = accepted /\ UNCHANGED <<rpc, rcur>>
    BY DEF WorkerNext, apiVars, recoveryVars
  <1>3. SUFFICES ASSUME NEW t \in accepted PROVE IsCarried(t)'
    BY <1>2 DEF Carried
  <1>4. t \in Tasks /\ IsCarried(t) /\ Exists(t)
    BY <1>1 DEF Carried, IsCarried
  <1>5. ASSUME NEW pc, pc \notin {"drop", "dlq_xadd", "dlq_sadd", "ack"} \/ WorkerSpent(w),
               Goto(w, pc), wmsg' = wmsg, NEW e, Spent(e)'
        PROVE  Spent(e)
    BY <1>1, <1>2, <1>5 DEF Spent, WorkerSpent, RecoverySpent, Goto
  <1>6. ASSUME NEW pc, Goto(w, pc), wmsg' = wmsg, NEW e, e # wmsg[w], Spent(e)'
        PROVE  Spent(e)
    BY <1>1, <1>2, <1>6 DEF Spent, WorkerSpent, RecoverySpent, Goto
  <1>7. CASE Dequeue(w)
    <2>1. /\ UNCHANGED <<store, zset>>
          /\ (stream \union pel)' = stream \union pel
      BY <1>7 DEF Dequeue, XReadGroup, Heads
    <2>2. \A e : Spent(e)' => Spent(e)
      <3>1. PICK f : wmsg' = [wmsg EXCEPT ![w] = f]
        BY <1>7 DEF Dequeue
      <3>2. wpc' = [wpc EXCEPT ![w] = "get"]
        BY <1>7 DEF Dequeue, Goto
      <3> QED BY <1>1, <1>2, <3>1, <3>2 DEF Spent, WorkerSpent, RecoverySpent
    <2> QED BY <1>4, <2>1, <2>2, CarriedFrame
  <1>8. CASE GetMissing(w)
    <2>1. t # task(w)
      BY <1>4, <1>8 DEF GetMissing
    <2>2. UNCHANGED redisVars /\ Goto(w, "drop") /\ wmsg' = wmsg
      BY <1>8 DEF GetMissing
    <2>3. \A e : e.task = t /\ Spent(e)' => Spent(e)
      BY <1>6, <2>1, <2>2 DEF task
    <2> QED BY <1>4, <2>2, <2>3, CarriedFrame DEF redisVars
  <1>9. CASE Drop(w) \/ Acknowledge(w) \/ StartRefused(w)
    <2>1. /\ UNCHANGED <<store, stream, zset>>
          /\ pel' = pel \/ (pel' = pel \ {wmsg[w]} /\ WorkerSpent(w))
          /\ wpc' = [wpc EXCEPT ![w] = "idle"]
          /\ wmsg' = [wmsg EXCEPT ![w] = NoEntry]
      BY <1>9 DEF Drop, Acknowledge, StartRefused, Return, XAck, At, WorkerSpent, redisVars
    <2>2. \A e : Spent(e)' => Spent(e)
      BY <1>1, <1>2, <2>1 DEF Spent, WorkerSpent, RecoverySpent
    <2>3. WorkerSpent(w) => Spent(wmsg[w])
      BY DEF Spent
    <2> QED BY <1>4, <2>1, <2>2, <2>3, CarriedFrame
  <1>10. CASE StartTask(w)
    <2>1. UNCHANGED redisVars /\ Goto(w, "set_running") /\ wmsg' = wmsg
      BY <1>10 DEF StartTask
    <2>2. \A e : Spent(e)' => Spent(e)
      BY <1>5, <2>1
    <2> QED BY <1>4, <2>1, <2>2, CarriedFrame DEF redisVars
  <1>11. CASE SetRunning(w) \/ SetRetrying(w) \/ ScheduleSet(w)
    <2>1. /\ UNCHANGED <<stream, pel, zset, wmsg>>
          /\ wpc[w] \in {"set_running", "execute", "sched_set"}
          /\ \E pc \in {"execute", "sched_set", "sched_zadd"} : Goto(w, pc)
          /\ \E r : SetTask(task(w), r)
      BY <1>11 DEF SetRunning, HandlerReturns, SetRetrying, ScheduleSet, FinishWith, At
    <2>2. \A e : Spent(e)' => Spent(e)
      BY <1>5, <2>1
    <2>3. CASE t # task(w)
      BY <1>1, <1>4, <2>1, <2>2, <2>3, CarriedFrame DEF SetTask
    <2>4. CASE t = task(w)
      <3>1. wmsg[w] \in pel /\ wmsg[w] # NoEntry
        BY <1>1, <2>1 DEF WorkerControl, HoldingInv, HeldIsPending
      <3>2. ~ Spent(wmsg[w])
        BY <2>1, <3>1 DEF HoldingInv, HeldOnce, RecoveryHolds, Spent, WorkerSpent, RecoverySpent
      <3>3. Exists(t)'
        <4>1. \E v \in Workers : WorkerNext(v)
          OBVIOUS
        <4> QED BY <1>4, <4>1, StoreKept
      <3> QED BY <2>1, <2>2, <2>4, <3>1, <3>2, <3>3 DEF IsCarried, task
    <2> QED BY <2>3, <2>4
  <1>12. CASE SetCompleted(w) \/ SetFailed(w)
    <2>1. wrec[w] \in Record /\ wrec[w].state = "running"
      BY <1>1, <1>12 DEF HandlerReturns, SetCompleted, SetFailed, At, WorkerControl
    <2>2. PICK r, pc : /\ UNCHANGED <<stream, pel, zset, wmsg>>
                       /\ Goto(w, pc)
                       /\ SetTask(task(w), r)
                       /\ r \in Record
                       /\ IsFinal(r.state)
      BY <1>12, <2>1, RecordStates, RecordOps
      DEF SetCompleted, SetFailed, FinishWith, IsFinal
    <2>3. CASE t = task(w)
      <3>1. store'[t] = r
        BY <1>1, <1>4, <2>2, <2>3 DEF SetTask
      <3>2. Exists(t)' /\ Settled(t)'
        BY <2>2, <3>1 DEF Exists, Settled
      <3> QED BY <3>2 DEF IsCarried
    <2>4. CASE t # task(w)
      <3>1. \A e : e.task = t /\ Spent(e)' => Spent(e)
        BY <1>6, <2>2, <2>4 DEF task
      <3>2. store'[t] = store[t]
        BY <1>1, <1>4, <2>2, <2>4 DEF SetTask
      <3> QED BY <1>4, <2>2, <3>1, <3>2, CarriedFrame
    <2> QED BY <2>3, <2>4
  <1>13. CASE ScheduleZAdd(w)
    <2>1. /\ UNCHANGED <<store, stream, pel, wmsg>>
          /\ Goto(w, "ack")
          /\ zset' = zset \union {task(w)}
      BY <1>13 DEF ScheduleZAdd
    <2>2. CASE t = task(w)
      BY <1>4, <2>1, <2>2 DEF IsCarried, Exists
    <2>3. CASE t # task(w)
      <3>1. \A e : e.task = t /\ Spent(e)' => Spent(e)
        BY <1>6, <2>1, <2>3 DEF task
      <3> QED BY <1>4, <2>1, <3>1, CarriedFrame
    <2> QED BY <2>2, <2>3
  <1>14. CASE DlqXAdd(w) \/ DlqSAdd(w)
    <2>1. /\ UNCHANGED <<store, stream, pel, zset, wmsg>>
          /\ WorkerSpent(w)
          /\ \E pc : Goto(w, pc)
      BY <1>14 DEF DlqXAdd, DlqSAdd, WorkerSpent, At
    <2>2. \A e : Spent(e)' => Spent(e)
      BY <1>5, <2>1
    <2> QED BY <1>4, <2>1, <2>2, CarriedFrame
  <1> QED
    BY <1>7, <1>8, <1>9, <1>10, <1>11, <1>12, <1>13, <1>14 DEF WorkerNext, WorkerStep

\* A recovery loop holds its entry, unsettled, from the SET to the XADD of its
\* successor (recoverOrphanedTasks, Enqueue).
LEMMA CarriedRecovery ==
  ASSUME TypeInv, HoldingInv, Carried, NEW p \in Pools, RecoveryNext(p)
  PROVE  Carried'
  <1> USE NoTaskAssumption, NoEntryAssumption
  <1>1. /\ store \in [Tasks -> Record \union {NoTask}]
        /\ stream \in SUBSET Entry /\ pel \in SUBSET Entry /\ lastId \in Nat
        /\ rpc \in [Pools -> RecoveryPc]
        /\ rcur \in [Pools -> Entry \union {NoEntry}]
        /\ rbatch \in [Pools -> SUBSET Claimed]
        /\ accepted \in SUBSET Tasks
        /\ RecoveryControl
    BY DEF TypeInv, TypeOK, RedisTypeOK, RecoveryTypeOK, ApiTypeOK
  <1>2. accepted' = accepted /\ UNCHANGED <<wpc, wmsg>>
    BY DEF RecoveryNext, RecoveryStep, Claim, ReadMissing, ReadClaimed, RequeueSet,
           RequeueXAdd, RequeueAck, workerVars, apiVars
  <1>3. SUFFICES ASSUME NEW t \in accepted PROVE IsCarried(t)'
    BY <1>2 DEF Carried
  <1>4. t \in Tasks /\ IsCarried(t) /\ Exists(t)
    BY <1>1 DEF Carried, IsCarried
  <1>5. ASSUME NEW e \in pel, Claim(p, e)
        PROVE  IsCarried(t)'
    <2>1. UNCHANGED <<store, stream, pel, zset, rcur>> /\ rpc' = [rpc EXCEPT ![p] = "get"]
      BY <1>5 DEF Claim, redisVars
    <2>2. \A f : Spent(f)' => Spent(f)
      BY <1>1, <1>2, <2>1 DEF Spent, WorkerSpent, RecoverySpent
    <2> QED BY <1>4, <2>1, <2>2, CarriedFrame
  <1>6. CASE ReadMissing(p) \/ ReadClaimed(p)
    <2>1. UNCHANGED <<store, stream, pel, zset, rcur>> /\ rpc' = [rpc EXCEPT ![p] = "scan"]
      BY <1>6 DEF ReadMissing, ReadClaimed, redisVars
    <2>2. \A f : Spent(f)' => Spent(f)
      BY <1>1, <1>2, <2>1 DEF Spent, WorkerSpent, RecoverySpent
    <2> QED BY <1>4, <2>1, <2>2, CarriedFrame
  <1>7. CASE RequeueSet(p)
    <2>1. PICK b \in rbatch[p] :
            /\ SetTask(b.entry.task, PrepareForRequeue(b.rec, MaxRetries[b.entry.task]))
            /\ rcur' = [rcur EXCEPT ![p] = b.entry]
      BY <1>7 DEF RequeueSet
    <2>2. /\ UNCHANGED <<stream, pel, zset>>
          /\ rpc' = [rpc EXCEPT ![p] = "xadd"]
      BY <1>7 DEF RequeueSet
    <2>3. \A f : Spent(f)' => Spent(f)
      BY <1>1, <1>2, <2>1, <2>2 DEF Spent, WorkerSpent, RecoverySpent
    <2>4. CASE t # b.entry.task
      BY <1>1, <1>4, <2>1, <2>2, <2>3, <2>4, CarriedFrame DEF SetTask
    <2>5. CASE t = b.entry.task
      <3>1. b.entry \in pel /\ RecoveryHolds(p, b.entry)
        BY DEF HoldingInv, HeldIsPending, RecoveryHolds, InBatch
      <3>2. \A w \in Workers : wmsg[w] # b.entry
        BY <1>1, <3>1 DEF HoldingInv, HeldOnce
      <3>3. \A q \in Pools : rcur[q] = b.entry => q = p
        BY <3>1 DEF HoldingInv, HeldOnce, RecoveryHolds
      <3>4. rpc[p] # "ack"
        BY <1>7 DEF RequeueSet
      <3>5. ~ Spent(b.entry)
        BY <3>2, <3>3, <3>4 DEF Spent, RecoverySpent
      <3>6. Exists(t)'
        <4>1. \E q \in Pools : RecoveryNext(q)
          OBVIOUS
        <4> QED BY <1>4, <4>1, StoreKept
      <3> QED BY <2>2, <2>3, <2>5, <3>1, <3>5, <3>6 DEF IsCarried
    <2> QED BY <2>4, <2>5
  <1>8. CASE RequeueXAdd(p)
    <2>1. /\ UNCHANGED <<store, pel, zset, rcur>>
          /\ rpc[p] = "xadd"
          /\ rpc' = [rpc EXCEPT ![p] = "ack"]
          /\ XAddTask(rcur[p].task)
      BY <1>8 DEF RequeueXAdd
    <2>2. \A f : Spent(f)' => Spent(f) \/ f = rcur[p]
      BY <1>1, <1>2, <2>1 DEF Spent, WorkerSpent, RecoverySpent
    <2>3. CASE t # rcur[p].task
      BY <1>4, <2>1, <2>2, <2>3, CarriedFrame DEF XAddTask
    <2>4. CASE t = rcur[p].task
      <3>1. rcur[p] \in Entry /\ rcur[p] \in pel
        BY <1>1, <2>1 DEF RecoveryControl, HoldingInv, HeldIsPending
      <3>2. PICK n \in Entry : n = [id |-> lastId + 1, task |-> t]
        <4>1. [id |-> lastId + 1, task |-> t] \in Entry
          BY <1>1, <1>4 DEF Entry
        <4> QED BY <4>1
      <3>3. n \in stream' /\ n.task = t
        BY <2>1, <2>4, <3>2 DEF XAddTask
      <3>4. n \notin pel /\ n # rcur[p]
        BY <1>1, <3>1, <3>2 DEF HoldingInv, EntriesInv
      <3>5. ~ Held(n)
        BY <3>2, <3>4, NoEntryAssumption, NotPendingNotHeld
      <3>6. ~ Spent(n)'
        BY <2>2, <3>4, <3>5 DEF Spent, Held, HeldByWorker, RecoveryHolds, RecoverySpent
      <3>7. Exists(t)'
        BY <1>4, <2>1 DEF Exists
      <3> QED BY <3>2, <3>3, <3>6, <3>7 DEF IsCarried
    <2> QED BY <2>3, <2>4
  <1>9. CASE RequeueAck(p)
    <2>1. /\ UNCHANGED <<store, stream, zset>>
          /\ rpc[p] = "ack"
          /\ \E pc \in {"scan", "requeue"} : rpc' = [rpc EXCEPT ![p] = pc]
          /\ rcur' = [rcur EXCEPT ![p] = NoEntry]
          /\ pel' = pel \ {rcur[p]}
      BY <1>9 DEF RequeueAck, XAck, AfterItem
    <2>2. \A f : Spent(f)' => Spent(f)
      BY <1>1, <1>2, <2>1 DEF Spent, WorkerSpent, RecoverySpent
    <2>3. Spent(rcur[p])
      BY <2>1 DEF Spent, RecoverySpent
    <2> QED BY <1>4, <2>1, <2>2, <2>3, CarriedFrame
  <1> QED BY <1>5, <1>6, <1>7, <1>8, <1>9 DEF RecoveryNext, RecoveryStep

\* A new task is accepted with its entry or member; canceling settles it; an expired
\* record takes its task out of the accepted ones (Create, Cancel).
LEMMA CarriedApi ==
  ASSUME TypeInv, HoldingInv, RequestInv, Carried, NEW x \in Tasks, ApiNext(x)
  PROVE  Carried'
  <1> USE NoTaskAssumption, NoEntryAssumption
  <1>1. /\ store \in [Tasks -> Record \union {NoTask}]
        /\ krec \in [Tasks -> Record \union {NoTask}]
        /\ stream \in SUBSET Entry /\ pel \in SUBSET Entry /\ lastId \in Nat
        /\ accepted \in SUBSET Tasks
    BY DEF TypeInv, TypeOK, RedisTypeOK, ApiTypeOK
  <1>2. UNCHANGED <<pel, workerVars, recoveryVars>>
    BY DEF ApiNext, ApiStep, Submit, EnqueueSet, EnqueueXAdd, CreateScheduledSet,
           CreateScheduledZAdd, AbortCreate, CancelRead, CancelSet, Expire, redisVars
  <1>3. \A e : Spent(e)' <=> Spent(e)
    BY <1>2 DEF Spent, WorkerSpent, RecoverySpent, workerVars, recoveryVars
  <1>4. ASSUME NEW t \in accepted, store'[t] = store[t], zset \subseteq zset',
               stream \subseteq stream'
        PROVE  IsCarried(t)'
    BY <1>1, <1>2, <1>3, <1>4, CarriedFrame DEF Carried
  <1>5. CASE Submit(x) \/ AbortCreate(x) \/ CancelRead(x)
    <2>1. UNCHANGED <<store, stream, zset, accepted>>
      BY <1>5 DEF Submit, AbortCreate, CancelRead, redisVars
    <2> QED BY <1>4, <2>1 DEF Carried
  <1>6. CASE EnqueueSet(x) \/ CreateScheduledSet(x)
    <2>1. x \notin accepted
      BY <1>6 DEF EnqueueSet, CreateScheduledSet, RequestInv
    <2>2. /\ UNCHANGED <<stream, zset, accepted>>
          /\ \A t \in accepted : store'[t] = store[t]
      BY <1>1, <1>6, <2>1 DEF EnqueueSet, CreateScheduledSet, SetTask
    <2> QED BY <1>4, <2>2 DEF Carried
  <1>7. CASE EnqueueXAdd(x)
    <2>1. PICK n \in Entry : n = [id |-> lastId + 1, task |-> x]
      <3>1. [id |-> lastId + 1, task |-> x] \in Entry
        BY <1>1 DEF Entry
      <3> QED BY <3>1
    <2>2. /\ UNCHANGED <<store, zset>>
          /\ stream' = stream \union {n}
          /\ accepted' = accepted \union {x}
          /\ Exists(x)
      BY <1>7, <2>1 DEF EnqueueXAdd, XAddTask, RequestInv
    <2>3. n \notin pel
      BY <1>1, <2>1 DEF HoldingInv, EntriesInv
    <2>4. ~ Held(n)
      BY <2>1, <2>3, NoEntryAssumption, NotPendingNotHeld
    <2>5. ~ Spent(n)'
      BY <1>3, <2>4 DEF Spent, Held, HeldByWorker, RecoveryHolds, RecoverySpent
    <2>6. IsCarried(x)'
      BY <2>1, <2>2, <2>5 DEF IsCarried, Exists
    <2> QED BY <1>4, <2>2, <2>6 DEF Carried
  <1>8. CASE CreateScheduledZAdd(x)
    <2>1. /\ UNCHANGED <<store, stream>>
          /\ zset' = zset \union {x}
          /\ accepted' = accepted \union {x}
          /\ Exists(x)
      BY <1>8 DEF CreateScheduledZAdd, RequestInv
    <2>2. IsCarried(x)'
      BY <2>1 DEF IsCarried, Exists
    <2> QED BY <1>4, <2>1, <2>2 DEF Carried
  <1>9. CASE CancelSet(x)
    <2>1. /\ UNCHANGED <<stream, zset, accepted>>
          /\ store' = [store EXCEPT ![x] = krec[x]]
          /\ krec[x] \in Record /\ IsFinal(krec[x].state)
      BY <1>1, <1>9 DEF CancelSet, SetTask, RequestInv, IsFinal
    <2>2. IsCarried(x)'
      BY <1>1, <2>1 DEF IsCarried, Exists, Settled
    <2>3. \A t \in accepted : t # x => store'[t] = store[t]
      BY <1>1, <2>1
    <2> QED BY <1>4, <2>1, <2>2, <2>3 DEF Carried
  <1>10. CASE Expire(x)
    <2>1. /\ UNCHANGED <<stream, zset>>
          /\ accepted' = accepted \ {x}
          /\ \A t \in accepted : t # x => store'[t] = store[t]
      BY <1>1, <1>10 DEF Expire, DelTask
    <2> QED BY <1>4, <2>1 DEF Carried
  <1> QED
    BY <1>5, <1>6, <1>7, <1>8, <1>9, <1>10 DEF ApiNext, ApiStep

\* What a dead process held it held in Redis too (requirements.md, NFR-3.2).
LEMMA CarriedCrash ==
  ASSUME TypeInv, HoldingInv, Carried, NEW p \in Pools, Crash(p) \/ Restart(p)
  PROVE  Carried'
  <1>1. UNCHANGED <<store, stream, pel, zset, accepted>>
    BY DEF Crash, Restart, redisVars, apiVars
  <1>2. \A e : Spent(e)' => Spent(e)
    BY CrashAssumption
    DEF Crash, Restart, SetPool, Spent, WorkerSpent, RecoverySpent, TypeInv, TypeOK,
        WorkerTypeOK, RecoveryTypeOK
  <1>3. ASSUME NEW t \in accepted PROVE IsCarried(t)'
    <2>1. t \in Tasks /\ IsCarried(t)
      BY DEF Carried, TypeInv, TypeOK, ApiTypeOK
    <2> QED BY <1>1, <1>2, <2>1, CarriedFrame
  <1> QED BY <1>1, <1>3 DEF Carried

(***************************************************************************)
(* FailuresKept: a failed record keeps its entry until the lookup set has  *)
(* the task.                                                               *)
(***************************************************************************)

\* A step that leaves the record of t alone and takes no exhausted entry of t away
\* before t is in the lookup set keeps its failure.
LEMMA FailureFrame ==
  ASSUME NEW t \in Tasks, FailureKept(t), store'[t] = store[t], dlqSet \subseteq dlqSet',
         \A e \in pel :
           e.task = t /\ IsExhausted(e) => t \in dlqSet' \/ (e \in pel' /\ IsExhausted(e)')
  PROVE  FailureKept(t)'
  BY DEF FailureKept, Exists

\* The worker that writes a failed record holds its entry until DLQ.Add is done
\* (handleTaskFailure).
LEMMA FailuresWorker ==
  ASSUME TypeInv, HoldingInv, FailuresKept, NEW w \in Workers, WorkerNext(w)
  PROVE  FailuresKept'
  <1> USE NoTaskAssumption, NoEntryAssumption
  <1>1. /\ store \in [Tasks -> Record \union {NoTask}]
        /\ stream \in SUBSET Entry /\ pel \in SUBSET Entry
        /\ wpc \in [Workers -> WorkerPc]
        /\ wmsg \in [Workers -> Entry \union {NoEntry}]
        /\ wrec \in [Workers -> Record \union {NoTask}]
        /\ WorkerControl
    BY DEF TypeInv, TypeOK, RedisTypeOK, WorkerTypeOK
  <1>2. rcur' = rcur
    BY DEF WorkerNext, recoveryVars
  <1>3. SUFFICES ASSUME NEW t \in Tasks PROVE FailureKept(t)'
    BY DEF FailuresKept
  <1>4. FailureKept(t)
    BY DEF FailuresKept
  <1>5. ASSUME UNCHANGED <<pel, wmsg, dlqSet>>, store'[t] = store[t], NEW pc, Goto(w, pc),
               wpc[w] \notin {"dlq_xadd", "dlq_sadd"}
        PROVE  FailureKept(t)'
    <2>1. \A e : IsExhausted(e) => wmsg[w] # e
      BY <1>5 DEF IsExhausted
    <2>2. \A e : IsExhausted(e) => IsExhausted(e)'
      BY <1>1, <1>2, <1>5, <2>1 DEF IsExhausted, Goto
    <2> QED BY <1>4, <1>5, <2>2, FailureFrame
  <1>6. CASE Dequeue(w)
    <2>1. PICK f \in Heads : wmsg' = [wmsg EXCEPT ![w] = f]
      BY <1>6 DEF Dequeue
    <2>2. /\ f \notin pel
          /\ pel \subseteq pel'
          /\ wpc' = [wpc EXCEPT ![w] = "get"]
          /\ UNCHANGED <<store, dlqSet>>
      BY <1>6, <2>1 DEF Dequeue, XReadGroup, Heads, Goto, HoldingInv, EntriesInv, dlqVars
    <2>3. \A e \in pel : IsExhausted(e) => IsExhausted(e)'
      BY <1>1, <1>2, <2>1, <2>2 DEF IsExhausted
    <2> QED BY <1>4, <2>2, <2>3, FailureFrame
  <1>7. CASE Drop(w) \/ Acknowledge(w) \/ StartRefused(w)
    <2>1. /\ UNCHANGED <<store, dlqSet>>
          /\ wpc[w] \notin {"dlq_xadd", "dlq_sadd"}
          /\ pel' = pel \/ pel' = pel \ {wmsg[w]}
          /\ wmsg' = [wmsg EXCEPT ![w] = NoEntry]
          /\ wpc' = [wpc EXCEPT ![w] = "idle"]
      BY <1>7 DEF Drop, Acknowledge, StartRefused, XAck, Return, At, redisVars, dlqVars
    <2>2. \A e \in pel : IsExhausted(e) => e \in pel' /\ IsExhausted(e)'
      BY <1>1, <1>2, <2>1 DEF IsExhausted
    <2> QED BY <1>4, <2>1, <2>2, FailureFrame
  <1>8. CASE GetMissing(w) \/ StartTask(w) \/ ScheduleZAdd(w)
    BY <1>5, <1>8 DEF GetMissing, StartTask, ScheduleZAdd, At, redisVars, dlqVars
  <1>9. CASE SetRunning(w) \/ ScheduleSet(w) \/ SetCompleted(w) \/ SetRetrying(w)
    <2>1. PICK r, pc : /\ r.state # "failed" /\ r # NoTask
                       /\ SetTask(task(w), r)
                       /\ Goto(w, pc)
      <3>1. CASE SetRunning(w) \/ ScheduleSet(w)
        <4>1. wrec[w] # NoTask /\ wrec[w].state # "failed"
          BY <1>1, <3>1 DEF SetRunning, ScheduleSet, At, WorkerControl
        <4>2. SetTask(task(w), wrec[w]) /\ \E pc : Goto(w, pc)
          BY <3>1 DEF SetRunning, ScheduleSet
        <4> QED BY <4>1, <4>2
      <3>2. CASE SetCompleted(w) \/ SetRetrying(w)
        <4>1. wrec[w] \in Record /\ wrec[w].state = "running" /\ wmsg[w] \in Entry
          BY <1>1, <3>2 DEF SetCompleted, SetRetrying, HandlerReturns, At, WorkerControl
        <4>2. MaxRetries[task(w)] \in Nat
          BY <4>1, MaxRetriesAssumption DEF task, Entry
        <4>3. CASE SetCompleted(w)
          BY <4>1, <4>3, <1>1, RecordOps, RecordStates DEF SetCompleted, FinishWith
        <4>4. CASE SetRetrying(w)
          <5> DEFINE r == ScheduleRetry(Fail(wrec[w]), MaxRetries[task(w)])
          <5>1. r.state = "retrying" /\ r \in Record
            BY <4>1, <4>2, <4>4, RecordOps, RecordStates DEF SetRetrying
          <5>2. SetTask(task(w), r) /\ Goto(w, "sched_set")
            BY <4>4 DEF SetRetrying, FinishWith
          <5> HIDE DEF r
          <5> QED BY <5>1, <5>2
        <4> QED BY <3>2, <4>3, <4>4
      <3> QED BY <1>9, <3>1, <3>2
    <2>2. /\ UNCHANGED <<pel, wmsg, dlqSet>>
          /\ wpc[w] \notin {"dlq_xadd", "dlq_sadd"}
      BY <1>9 DEF SetRunning, ScheduleSet, SetCompleted, SetRetrying, FinishWith, HandlerReturns,
         At, dlqVars
    <2>3. CASE t = task(w)
      BY <1>1, <2>1, <2>3 DEF SetTask, FailureKept
    <2>4. CASE t # task(w)
      <3>1. store'[t] = store[t]
        BY <1>1, <2>1, <2>4 DEF SetTask
      <3> QED BY <1>5, <2>1, <2>2, <3>1
    <2> QED BY <2>3, <2>4
  <1>10. CASE SetFailed(w)
    <2>1. /\ UNCHANGED <<pel, wmsg, dlqSet>>
          /\ wpc[w] = "execute"
          /\ Goto(w, "dlq_xadd")
          /\ \E r : SetTask(task(w), r)
      BY <1>10 DEF SetFailed, FinishWith, HandlerReturns, At, dlqVars
    <2>2. CASE t = task(w)
      <3>1. wmsg[w] \in pel /\ wmsg[w] # NoEntry
        BY <1>1, <2>1 DEF WorkerControl, HoldingInv, HeldIsPending
      <3>2. IsExhausted(wmsg[w])'
        BY <1>1, <1>2, <2>1, <3>1
        DEF IsExhausted, HoldingInv, HeldOnce, RecoveryHolds, Goto
      <3>3. wmsg[w] \in pel' /\ wmsg[w].task = t /\ wmsg'[w] = wmsg[w]
        BY <2>1, <2>2, <3>1 DEF task
      <3>4. \E e \in pel' : e.task = t /\ IsExhausted(e)'
        BY <3>2, <3>3 DEF IsExhausted
      <3> QED BY <3>4 DEF FailureKept
    <2>3. CASE t # task(w)
      <3>1. store'[t] = store[t]
        BY <1>1, <2>1, <2>3 DEF SetTask
      <3> QED BY <1>5, <2>1, <3>1
    <2> QED BY <2>2, <2>3
  <1>11. CASE DlqXAdd(w) \/ DlqSAdd(w)
    <2>1. /\ UNCHANGED <<store, pel, wmsg>>
          /\ \/ dlqSet' = dlqSet /\ Goto(w, "dlq_sadd")
             \/ dlqSet' = dlqSet \union {task(w)} /\ Goto(w, "ack")
      BY <1>11 DEF DlqXAdd, DlqSAdd
    <2>2. \A e \in pel : e.task = t /\ IsExhausted(e) => t \in dlqSet' \/ IsExhausted(e)'
      BY <1>1, <1>2, <2>1 DEF IsExhausted, Goto, task
    <2> QED BY <1>4, <2>1, <2>2, FailureFrame
  <1> QED
    BY <1>6, <1>7, <1>8, <1>9, <1>10, <1>11 DEF WorkerNext, WorkerStep

\* A recovery loop makes the record pending again when it takes an exhausted entry
\* (PrepareForRequeue), and acknowledges only what it has replaced.
LEMMA FailuresRecovery ==
  ASSUME TypeInv, HoldingInv, FailuresKept, NEW p \in Pools, RecoveryNext(p)
  PROVE  FailuresKept'
  <1> USE NoTaskAssumption, NoEntryAssumption
  <1>1. /\ store \in [Tasks -> Record \union {NoTask}]
        /\ pel \in SUBSET Entry
        /\ rcur \in [Pools -> Entry \union {NoEntry}]
        /\ rbatch \in [Pools -> SUBSET Claimed]
    BY DEF TypeInv, TypeOK, RedisTypeOK, RecoveryTypeOK
  <1>2. UNCHANGED <<wpc, wmsg, dlqSet>>
    BY DEF RecoveryNext, RecoveryStep, Claim, ReadMissing, ReadClaimed, RequeueSet,
           RequeueXAdd, RequeueAck, workerVars, redisVars, dlqVars
  <1>3. SUFFICES ASSUME NEW t \in Tasks PROVE FailureKept(t)'
    BY DEF FailuresKept
  <1>4. FailureKept(t)
    BY DEF FailuresKept
  <1>5. ASSUME UNCHANGED <<store, pel, rcur>> PROVE FailureKept(t)'
    BY <1>2, <1>4, <1>5, FailureFrame DEF IsExhausted
  <1>6. CASE RequeueSet(p)
    <2>1. PICK b \in rbatch[p] :
            /\ SetTask(b.entry.task, PrepareForRequeue(b.rec, MaxRetries[b.entry.task]))
            /\ rcur' = [rcur EXCEPT ![p] = b.entry]
      BY <1>6 DEF RequeueSet
    <2>2. b.rec \in Record /\ MaxRetries[b.entry.task] \in Nat
      BY <1>1, MaxRetriesAssumption DEF Claimed, Entry
    <2>3. PrepareForRequeue(b.rec, MaxRetries[b.entry.task]).state = "pending"
      BY <2>2, RecordStates
    <2>4. pel' = pel
      BY <1>6 DEF RequeueSet
    <2>5. CASE t = b.entry.task
      BY <1>1, <2>1, <2>3, <2>5 DEF SetTask, FailureKept
    <2>6. CASE t # b.entry.task
      <3>1. store'[t] = store[t]
        BY <1>1, <2>1, <2>6 DEF SetTask
      <3>2. \A e \in pel : e.task = t /\ IsExhausted(e) => IsExhausted(e)'
        BY <1>1, <1>2, <2>1, <2>6 DEF IsExhausted
      <3> QED BY <1>2, <1>4, <2>4, <3>1, <3>2, FailureFrame
    <2> QED BY <2>5, <2>6
  <1>7. CASE RequeueAck(p)
    <2>1. /\ store' = store
          /\ pel' = pel \ {rcur[p]}
          /\ rcur' = [rcur EXCEPT ![p] = NoEntry]
      BY <1>7 DEF RequeueAck, XAck
    <2>2. \A e \in pel : IsExhausted(e) => e \in pel' /\ IsExhausted(e)'
      BY <1>1, <1>2, <2>1 DEF IsExhausted
    <2> QED BY <1>2, <1>4, <2>1, <2>2, FailureFrame
  <1> QED
    BY <1>5, <1>6, <1>7
    DEF RecoveryNext, RecoveryStep, Claim, ReadMissing, ReadClaimed, RequeueXAdd, redisVars

\* No request writes a failed record (Create, Cancel, the expiry of a record).
LEMMA FailuresApi ==
  ASSUME TypeInv, RequestInv, FailuresKept, NEW x \in Tasks, ApiNext(x)
  PROVE  FailuresKept'
  <1> USE NoTaskAssumption
  <1>1. store \in [Tasks -> Record \union {NoTask}]
    BY DEF TypeInv, TypeOK, RedisTypeOK
  <1>2. UNCHANGED <<pel, dlqSet, wpc, wmsg, rcur>>
    BY DEF ApiNext, ApiStep, Submit, EnqueueSet, EnqueueXAdd, CreateScheduledSet,
           CreateScheduledZAdd, AbortCreate, CancelRead, CancelSet, Expire, redisVars,
           workerVars, recoveryVars, dlqVars
  <1>3. store' = store \/ \E r : SetTask(x, r) /\ (r = NoTask \/ r.state # "failed")
    BY DEF ApiNext, ApiStep, Submit, EnqueueSet, EnqueueXAdd, CreateScheduledSet,
           CreateScheduledZAdd, AbortCreate, CancelRead, CancelSet, Expire, redisVars,
           NewRecord, DelTask, SetTask, RequestInv
  <1>4. ASSUME NEW t \in Tasks PROVE FailureKept(t)'
    <2>1. FailureKept(t)
      BY DEF FailuresKept
    <2>2. CASE store'[t] = store[t]
      BY <1>2, <2>1, <2>2, FailureFrame DEF IsExhausted
    <2>3. CASE store'[t] = NoTask \/ store'[t].state # "failed"
      BY <2>3 DEF FailureKept, Exists
    <2> QED BY <1>1, <1>3, <2>2, <2>3 DEF SetTask
  <1> QED BY <1>4 DEF FailuresKept

\* An entry whose worker has died is still exhausted.
LEMMA FailuresCrash ==
  ASSUME TypeInv, FailuresKept, NEW p \in Pools, Crash(p) \/ Restart(p)
  PROVE  FailuresKept'
  <1> USE NoEntryAssumption
  <1>1. UNCHANGED <<store, pel, dlqSet>> /\ pel \in SUBSET Entry
    BY DEF Crash, Restart, redisVars, dlqVars, TypeInv, TypeOK, RedisTypeOK
  <1>2. \A e \in pel : IsExhausted(e) => IsExhausted(e)'
    <2>1. \A q \in Pools : rcur'[q] \in {rcur[q], NoEntry}
      BY DEF Crash, Restart, TypeInv, TypeOK, RecoveryTypeOK
    <2>2. \A w \in Workers : wmsg'[w] # NoEntry => wmsg'[w] = wmsg[w] /\ wpc'[w] = wpc[w]
      BY CrashAssumption
      DEF Crash, Restart, SetPool, TypeInv, TypeOK, WorkerTypeOK, WorkerControl, StoppedTogether
    <2> QED BY <1>1, <2>1, <2>2 DEF IsExhausted
  <1>3. ASSUME NEW t \in Tasks PROVE FailureKept(t)'
    BY <1>1, <1>2, FailureFrame DEF FailuresKept
  <1> QED BY <1>3 DEF FailuresKept

(***************************************************************************)
(* The inductive invariant.                                                *)
(***************************************************************************)

\* The number of slow claims grows, up to its bound (ClaimOrphanedTasks).
LEMMA SlowGrows ==
  ASSUME TypeInv, slow <= MaxSlow, [Next]_vars
  PROVE  slow' \in Nat /\ slow <= slow' /\ slow' <= MaxSlow
  <1>1. slow \in Nat /\ MaxSlow \in Nat
    BY MaxSlowAssumption DEF TypeInv, TypeOK, RecoveryTypeOK
  <1>2. slow' = slow \/ (slow < MaxSlow /\ slow' = slow + 1)
    <2>1. ASSUME NEW p \in Pools, RecoveryNext(p)
          PROVE  slow' = slow \/ (slow < MaxSlow /\ slow' = slow + 1)
      BY <2>1
      DEF RecoveryNext, RecoveryStep, Claim, ReadMissing, ReadClaimed, RequeueSet, RequeueXAdd,
          RequeueAck
    <2>2. ASSUME NEW t \in Tasks, ApiNext(t) PROVE slow' = slow
      BY <2>2
      DEF ApiNext, ApiStep, Submit, EnqueueSet, EnqueueXAdd, CreateScheduledSet,
          CreateScheduledZAdd, AbortCreate, CancelRead, CancelSet, Expire, recoveryVars
    <2> QED
      BY <2>1, <2>2 DEF Next, WorkerNext, Crash, Restart, vars, recoveryVars
  <1> QED BY <1>1, <1>2

\* A step under which no handler has yet been too slow keeps the entries apart and
\* the tasks and failures carried.
LEMMA UndisputedStep ==
  ASSUME TypeInv, TypeInv', RequestInv, Undisputed, [Next]_vars, slow' = 0
  PROVE  Undisputed'
  <1>1. HoldingInv /\ Carried /\ FailuresKept
    BY DEF Undisputed
  <1>2. CASE UNCHANGED vars
    BY <1>1, <1>2
    DEF Undisputed, HoldingInv, EntriesInv, HeldIsPending, HeldOnce, RecoveryHolds, InBatch,
        Carried, IsCarried, Exists, Settled, Spent, WorkerSpent, RecoverySpent, FailuresKept,
        FailureKept, IsExhausted, vars, redisVars, dlqVars, workerVars, recoveryVars, apiVars
  <1>3. ASSUME NEW w \in Workers, WorkerNext(w) PROVE Undisputed'
    BY <1>1, <1>3, HoldingWorker, CarriedWorker, FailuresWorker DEF Undisputed
  <1>4. ASSUME NEW p \in Pools, RecoveryNext(p) PROVE Undisputed'
    BY <1>1, <1>4, HoldingRecovery, CarriedRecovery, FailuresRecovery DEF Undisputed
  <1>5. ASSUME NEW p \in Pools, Crash(p) \/ Restart(p) PROVE Undisputed'
    BY <1>1, <1>5, HoldingCrash, CarriedCrash, FailuresCrash DEF Undisputed
  <1>6. ASSUME NEW t \in Tasks, ApiNext(t) PROVE Undisputed'
    BY <1>1, <1>6, HoldingApi, CarriedApi, FailuresApi DEF Undisputed
  <1> QED BY <1>2, <1>3, <1>4, <1>5, <1>6 DEF Next

\* IInv is inductive: whatever a slow handler breaks, it breaks by a slow claim, and
\* these are counted.
LEMMA Invariance == Spec => []IInv
  <1>1. Init => IInv
    <2> SUFFICES ASSUME Init PROVE IInv
      OBVIOUS
    <2>1. slow <= MaxSlow
      BY MaxSlowAssumption DEF Init, RecoveryInit
    <2>2. FailuresKept
      BY DEF Init, RedisInit, FailuresKept, FailureKept, Exists
    <2> QED BY <2>1, <2>2, TypeInit, HoldingInit, RequestInit DEF IInv, Undisputed
  <1>2. IInv /\ [Next]_vars => IInv'
    <2> SUFFICES ASSUME IInv, [Next]_vars PROVE IInv'
      OBVIOUS
    <2>1. TypeInv /\ RequestInv /\ slow <= MaxSlow /\ slow \in Nat
      BY DEF IInv, TypeInv, TypeOK, RecoveryTypeOK
    <2>2. TypeInv' /\ RequestInv'
      BY <2>1, TypeStep, RequestStep
    <2>3. slow' <= MaxSlow /\ (slow' = 0 => slow = 0)
      BY <2>1, SlowGrows
    <2>4. ASSUME slow' = 0 PROVE Undisputed'
      BY <2>1, <2>2, <2>3, <2>4, UndisputedStep DEF IInv
    <2> QED BY <2>2, <2>3, <2>4 DEF IInv
  <1> QED BY <1>1, <1>2, PTL DEF Spec

\* Worker crashes do not lose in-flight tasks: whatever the number of tasks, workers,
\* processes, retries, crashes and cancel requests, an accepted task is final, in the
\* sorted set, or has an undelivered or unacknowledged entry, as long as handlers
\* return before claimMinIdle (requirements.md, NFR-3.2).
THEOREM NoTaskIsLost == Spec => [](slow = 0 => NoLostTask)
  <1>1. IInv => (slow = 0 => NoLostTask)
    BY DEF IInv, Undisputed, Carried, IsCarried, NoLostTask, EntryOf
  <1> QED BY <1>1, Invariance, PTL

\* Under the same condition no entry is in two hands: no two workers, no worker and
\* recovery loop, and no two recovery loops work on one delivery of a task
\* (XREADGROUP against XCLAIM).
THEOREM OneOwner == Spec => [](slow = 0 => HeldOnce)
  <1>1. IInv => (slow = 0 => HeldOnce)
    BY DEF IInv, Undisputed, HoldingInv
  <1> QED BY <1>1, Invariance, PTL

\* Under the same condition an exhausted task does not vanish from the operator's
\* view, whatever the crashes: it is in the dead-letter queue, or recovery will run it
\* again (handleTaskFailure: UpdateTask, dlq.Add and Acknowledge, in this order).
THEOREM ExhaustedTasksAreKept == Spec => [](slow = 0 => FailedReachesDLQ)
  <1>1. IInv => (slow = 0 => FailedReachesDLQ)
    BY DEF IInv, Undisputed, FailuresKept, FailureKept, FailedReachesDLQ, EntryOf
  <1> QED BY <1>1, Invariance, PTL

=============================================================================
