-------------------------- MODULE TaskQueueProofs ---------------------------
(***************************************************************************)
(* Proofs about TaskQueue, for any tasks, workers, processes, schedulers,  *)
(* limits and bounds.                                                      *)
(***************************************************************************)
EXTENDS TaskQueue, WorkerSystemProofs

(***************************************************************************)
(* Types and control of the schedulers.                                    *)
(***************************************************************************)

\* Initially every scheduler is idle with nothing in hand.
LEMMA SchedulerTypeInit == SystemInit => SystemTypeInv
  <1> SUFFICES ASSUME SystemInit PROVE SystemTypeInv
    OBVIOUS
  <1>1. TypeInv /\ races \in 0..MaxRaces
    BY TypeInit, RacesAssumption DEF SystemInit
  <1>2. SchedulerTypeOK
    BY DEF SystemInit, SchedulerInit, SchedulerTypeOK, SchedulerPc
  <1>3. SchedulerControl
    BY DEF SystemInit, SchedulerInit, SchedulerControl
  <1> QED BY <1>1, <1>2, <1>3 DEF SystemTypeInv

\* A member that is activated becomes pending (state.go:87-96).
LEMMA ActivatedRecord ==
  ASSUME NEW r \in Record, r.state \in {"scheduled", "retrying"}
  PROVE  Transition(r, "pending") \in Record /\ Transition(r, "pending").state = "pending"
  BY DEF Transition, CanTransitionTo, ValidTransitions, Record, State

\* The steps of a scheduler, a crash of one and an expiry of the lock keep its
\* program counter and what it has in hand together (processDueTasks, activateTask).
LEMMA SchedulerType ==
  ASSUME TypeInv, SchedulerTypeOK, SchedulerControl,
         \/ \E s \in Schedulers : SchedulerStep(s) \/ SchedulerCrash(s)
         \/ LockExpires
  PROVE  RedisTypeOK' /\ SchedulerTypeOK' /\ SchedulerControl'
  <1> USE NoTaskAssumption, NoTaskInHand
  <1>1. /\ store \in [Tasks -> Record \union {NoTask}]
        /\ stream \in SUBSET Entry /\ pel \in SUBSET Entry
        /\ lastId \in Nat /\ zset \in SUBSET Tasks
        /\ dlq \in SUBSET Entry /\ lastDlq \in Nat /\ dlqSet \in SUBSET Tasks
    BY DEF TypeInv, TypeOK, RedisTypeOK
  <1>2. ASSUME UNCHANGED redisVars PROVE RedisTypeOK'
    BY <1>1, <1>2 DEF RedisTypeOK, redisVars, dlqVars
  <1>3. CASE LockExpires
    <2>1. RedisTypeOK' /\ UNCHANGED <<spc, sbatch, srec, scur, schedCrashes>>
      BY <1>2, <1>3 DEF LockExpires
    <2>2. lock' \in BOOLEAN
      BY <1>3 DEF LockExpires
    <2>3. expiries \in Nat /\ (expiries' = expiries + 1 \/ expiries' = expiries)
      BY <1>3 DEF LockExpires, SchedulerTypeOK
    <2>4. SchedulerTypeOK'
      BY <2>1, <2>2, <2>3 DEF SchedulerTypeOK
    <2>5. SchedulerControl'
      BY <2>1 DEF SchedulerControl
    <2> QED BY <2>1, <2>4, <2>5
  <1>4. ASSUME NEW s \in Schedulers, SchedulerStep(s) \/ SchedulerCrash(s)
        PROVE  RedisTypeOK' /\ SchedulerTypeOK' /\ SchedulerControl'
    <2> USE DEF SchedulerTypeOK, SchedulerControl, SchedulerPc, SchedGoto
    <2>1. CASE TakeLock(s) \/ Unlock(s)
      BY <1>2, <2>1 DEF TakeLock, Unlock
    <2>2. ASSUME NEW due \in SUBSET zset, ReadDue(s, due)
          PROVE  RedisTypeOK' /\ SchedulerTypeOK' /\ SchedulerControl'
      <3>1. due \in SUBSET Tasks
        BY <1>1
      <3> QED BY <1>2, <2>2, <3>1 DEF ReadDue
    <2>3. ASSUME NEW t \in Tasks, ReadWaiting(s, t)
          PROVE  RedisTypeOK' /\ SchedulerTypeOK' /\ SchedulerControl'
      <3>1. CASE Waiting(t)
        <4>1. store[t] \in Record /\ store[t].state \in {"scheduled", "retrying"}
          BY <1>1, <3>1 DEF Waiting, Exists
        <4>2. PICK r \in Record : r = Transition(store[t], "pending") /\ r.state = "pending"
          BY <4>1, ActivatedRecord
        <4> QED BY <1>2, <2>3, <3>1, <4>2 DEF ReadWaiting
      <3>2. CASE ~ Waiting(t)
        BY <1>2, <2>3, <3>2 DEF ReadWaiting
      <3> QED BY <3>1, <3>2
    <2>4. CASE ActivateSet(s)
      <3>1. srec[s] \in Record
        BY <2>4 DEF ActivateSet
      <3>2. RedisTypeOK'
        BY <1>1, <2>4, <3>1 DEF ActivateSet, SetTask, RedisTypeOK, dlqVars
      <3> QED BY <2>4, <3>2 DEF ActivateSet
    <2>5. CASE ActivateXAdd(s)
      <3>1. scur[s] \in Tasks
        BY <2>5 DEF ActivateXAdd
      <3>2. RedisTypeOK'
        BY <1>1, <2>5, <3>1 DEF ActivateXAdd, XAddTask, RedisTypeOK, dlqVars, Entry
      <3> QED BY <2>5, <3>2 DEF ActivateXAdd
    <2>6. CASE ActivateZRem(s)
      <3>1. RedisTypeOK'
        BY <1>1, <2>6 DEF ActivateZRem, RedisTypeOK, dlqVars
      <3> QED BY <2>6, <3>1 DEF ActivateZRem
    <2>7. CASE SchedulerCrash(s)
      BY <1>2, <2>7 DEF SchedulerCrash
    <2> QED BY <1>4, <2>1, <2>2, <2>3, <2>4, <2>5, <2>6, <2>7 DEF SchedulerStep
  <1> QED BY <1>3, <1>4

\* The types and the control of the whole service are kept by every step.
LEMMA SystemTypeStep ==
  ASSUME SystemTypeInv, [SystemNext]_systemVars
  PROVE  SystemTypeInv'
  <1>1. TypeInv /\ SchedulerTypeOK /\ SchedulerControl /\ races \in 0..MaxRaces
    BY DEF SystemTypeInv
  <1>2. ASSUME [Next]_vars, UNCHANGED schedulerVars, races' \in 0..MaxRaces
        PROVE  SystemTypeInv'
    <2>1. TypeInv'
      BY <1>1, <1>2, TypeStep
    <2>2. SchedulerTypeOK' /\ SchedulerControl'
      BY <1>1, <1>2 DEF SchedulerTypeOK, SchedulerControl, schedulerVars
    <2> QED BY <1>2, <2>1, <2>2 DEF SystemTypeInv
  <1>3. ASSUME \/ \E s \in Schedulers : SchedulerStep(s) \/ SchedulerCrash(s)
               \/ LockExpires,
               Elsewhere
        PROVE  SystemTypeInv'
    <2>1. RedisTypeOK' /\ SchedulerTypeOK' /\ SchedulerControl'
      BY <1>1, <1>3, SchedulerType
    <2>2. TypeInv'
      BY <1>1, <1>3, <2>1
      DEF Elsewhere, TypeInv, TypeOK, WorkerTypeOK, RecoveryTypeOK, ApiTypeOK, WorkerControl,
          RecoveryControl, StoppedTogether, workerVars, recoveryVars, apiVars
    <2> QED BY <1>1, <1>3, <2>1, <2>2 DEF SystemTypeInv, Elsewhere
  <1>4. ASSUME NEW w \in Workers, SystemWorkerNext(w) PROVE SystemTypeInv'
    <2>1. Next /\ UNCHANGED schedulerVars
      BY <1>4 DEF SystemWorkerNext, Next
    <2>2. races' \in 0..MaxRaces
      BY <1>1, <1>4, RacesAssumption DEF SystemWorkerNext
    <2> QED BY <1>2, <2>1, <2>2
  <1>5. ASSUME \/ \E p \in Pools : SystemPoolNext(p)
               \/ \E t \in Tasks : SystemApiNext(t)
        PROVE  SystemTypeInv'
    <2>1. Next /\ UNCHANGED <<schedulerVars, races>>
      BY <1>5 DEF SystemPoolNext, SystemApiNext, Next
    <2> QED BY <1>1, <1>2, <2>1
  <1>6. CASE UNCHANGED systemVars
    BY <1>1, <1>2, <1>6 DEF systemVars
  <1> QED BY <1>3, <1>4, <1>5, <1>6 DEF SystemNext, SchedulerNext

(***************************************************************************)
(* The lock.                                                               *)
(***************************************************************************)

\* Whoever begins a batch finds no lock, hence no other scheduler at work, unless the
\* lock has expired under one (processDueTasks: SETNX, deferred DEL).
LEMMA LockStep ==
  ASSUME SystemTypeInv, LockInv, [SystemNext]_systemVars
  PROVE  LockInv'
  <1>1. spc \in [Schedulers -> SchedulerPc] /\ expiries \in Nat
    BY DEF SystemTypeInv, SchedulerTypeOK
  <1>2. ASSUME UNCHANGED <<lock, spc, expiries>> PROVE LockInv'
    BY <1>2 DEF LockInv, SchedulerExclusion
  <1>3. ASSUME NEW s \in Schedulers, UNCHANGED <<lock, expiries>>, spc[s] # "idle",
               NEW pc, spc' = [spc EXCEPT ![s] = pc]
        PROVE  LockInv'
    BY <1>1, <1>3 DEF LockInv, SchedulerExclusion
  <1>4. ASSUME NEW s \in Schedulers, SchedulerStep(s) \/ SchedulerCrash(s) PROVE LockInv'
    <2>1. CASE TakeLock(s)
      BY <1>1, <2>1 DEF TakeLock, SchedGoto, LockInv, SchedulerExclusion
    <2>2. CASE Unlock(s)
      BY <1>1, <2>2 DEF Unlock, SchedGoto, LockInv, SchedulerExclusion
    <2>3. CASE SchedulerCrash(s)
      BY <1>3, <2>3 DEF SchedulerCrash, SchedGoto
    <2>4. ASSUME NEW due \in SUBSET zset, ReadDue(s, due) PROVE LockInv'
      BY <1>3, <2>4 DEF ReadDue, SchedGoto
    <2>5. ASSUME NEW t \in Tasks, ReadWaiting(s, t) PROVE LockInv'
      BY <1>3, <2>5 DEF ReadWaiting, SchedGoto
    <2>6. CASE ActivateSet(s) \/ ActivateXAdd(s) \/ ActivateZRem(s)
      BY <1>3, <2>6 DEF ActivateSet, ActivateXAdd, ActivateZRem, SchedGoto
    <2> QED BY <1>4, <2>1, <2>2, <2>3, <2>4, <2>5, <2>6 DEF SchedulerStep
  <1>5. CASE LockExpires
    BY <1>1, <1>5 DEF LockExpires, LockInv, SchedulerExclusion
  <1> QED
    BY <1>2, <1>4, <1>5
    DEF SystemNext, SystemWorkerNext, SystemPoolNext, SystemApiNext, SchedulerNext, systemVars,
        schedulerVars

(***************************************************************************)
(* What the schedulers leave alone.                                        *)
(***************************************************************************)

SchedulerMoves ==
  /\ \/ \E s \in Schedulers : SchedulerStep(s) \/ SchedulerCrash(s)
     \/ LockExpires
  /\ Elsewhere

\* A scheduler writes pending records, adds entries, and touches neither the pending
\* entries nor the dead-letter queue (activateTask).
LEMMA SchedulerWrites ==
  ASSUME SystemTypeInv, SchedulerMoves
  PROVE  /\ UNCHANGED <<pel, dlqSet, workerVars, recoveryVars, apiVars>>
         /\ \/ store' = store
            \/ \E t \in Tasks, r \in Record : SetTask(t, r) /\ r.state = "pending"
         /\ \/ UNCHANGED <<stream, lastId>>
            \/ \E t \in Tasks : XAddTask(t)
  <1>1. UNCHANGED <<workerVars, recoveryVars, apiVars>>
    BY DEF SchedulerMoves, Elsewhere
  <1>2. SUFFICES /\ UNCHANGED <<pel, dlqSet>>
                 /\ \/ store' = store
                    \/ \E t \in Tasks, r \in Record : SetTask(t, r) /\ r.state = "pending"
                 /\ \/ UNCHANGED <<stream, lastId>>
                    \/ \E t \in Tasks : XAddTask(t)
    BY <1>1
  <1>3. ASSUME NEW s \in Schedulers, ActivateSet(s)
        PROVE  scur[s] \in Tasks /\ srec[s] \in Record /\ srec[s].state = "pending"
    BY <1>3, NoTaskAssumption
    DEF ActivateSet, SystemTypeInv, SchedulerTypeOK, SchedulerControl
  <1>4. ASSUME NEW s \in Schedulers, ActivateXAdd(s) PROVE scur[s] \in Tasks
    BY <1>4 DEF ActivateXAdd, SystemTypeInv, SchedulerTypeOK, SchedulerControl
  <1> QED
    BY <1>3, <1>4
    DEF SchedulerMoves, SchedulerStep, SchedulerCrash, LockExpires, TakeLock, ReadDue,
        ReadWaiting, ActivateSet, ActivateXAdd, ActivateZRem, Unlock, redisVars, dlqVars

\* Nothing that disturbs the service is undone.
LEMMA SystemDisturbs ==
  ASSUME [SystemNext]_systemVars
  PROVE  /\ slow' = slow \/ slow' = slow + 1
         /\ schedCrashes' = schedCrashes \/ schedCrashes' = schedCrashes + 1
         /\ expiries' = expiries \/ expiries' = expiries + 1
         /\ races' = races \/ races' = races + 1
         /\ crashes' = crashes \/ crashes' = crashes + 1
  <1>1. ASSUME NEW w \in Workers, SystemWorkerNext(w)
        PROVE  UNCHANGED <<slow, crashes, schedulerVars>> /\ (races' = races \/ races' = races + 1)
    BY <1>1 DEF SystemWorkerNext, WorkerNext, recoveryVars
  <1>2. ASSUME NEW p \in Pools, SystemPoolNext(p)
        PROVE  /\ UNCHANGED <<schedulerVars, races>>
               /\ slow' = slow \/ slow' = slow + 1
               /\ crashes' = crashes \/ crashes' = crashes + 1
    BY <1>2
    DEF SystemPoolNext, RecoveryNext, RecoveryStep, Claim, ReadMissing, ReadClaimed, RequeueSet,
        RequeueXAdd, RequeueAck, Crash, Restart, recoveryVars
  <1>3. ASSUME NEW t \in Tasks, SystemApiNext(t)
        PROVE  UNCHANGED <<slow, crashes, schedulerVars, races>>
    BY <1>3
    DEF SystemApiNext, ApiNext, ApiStep, Submit, EnqueueSet, EnqueueXAdd, CreateScheduledSet,
        CreateScheduledZAdd, AbortCreate, CancelRead, CancelSet, Expire, recoveryVars
  <1>4. ASSUME NEW s \in Schedulers, SchedulerStep(s), Elsewhere
        PROVE  UNCHANGED <<slow, crashes, schedCrashes, expiries, races>>
    BY <1>4
    DEF SchedulerStep, TakeLock, ReadDue, ReadWaiting, ActivateSet, ActivateXAdd, ActivateZRem,
        Unlock, Elsewhere, recoveryVars
  <1>5. ASSUME NEW s \in Schedulers, SchedulerCrash(s), Elsewhere
        PROVE  UNCHANGED <<slow, crashes, expiries, races>> /\ schedCrashes' = schedCrashes + 1
    BY <1>5 DEF SchedulerCrash, Elsewhere, recoveryVars
  <1>6. ASSUME LockExpires, Elsewhere
        PROVE  /\ UNCHANGED <<slow, crashes, schedCrashes, races>>
               /\ expiries' = expiries \/ expiries' = expiries + 1
    BY <1>6 DEF LockExpires, Elsewhere, recoveryVars
  <1>7. CASE UNCHANGED systemVars
    BY <1>7 DEF systemVars, vars, recoveryVars, schedulerVars
  <1> QED
    BY <1>1, <1>2, <1>3, <1>4, <1>5, <1>6, <1>7 DEF SystemNext, SchedulerNext, schedulerVars

\* Nobody's entry is lost or handed on by a scheduler.
LEMMA HoldingScheduler ==
  ASSUME SystemTypeInv, HoldingInv, SchedulerMoves
  PROVE  HoldingInv'
  <1>1. UNCHANGED <<pel, wmsg, rclaim, rbatch, rcur>>
    BY SchedulerWrites DEF workerVars, recoveryVars
  <1>2. lastId \in Nat /\ stream \in SUBSET Entry /\ pel \in SUBSET Entry
    BY DEF SystemTypeInv, TypeInv, TypeOK, RedisTypeOK
  <1>3. EntriesInv'
    <2>1. EntriesInv
      BY DEF HoldingInv
    <2>2. CASE UNCHANGED <<stream, lastId>>
      BY <1>1, <2>1, <2>2 DEF EntriesInv
    <2>3. ASSUME NEW t \in Tasks, XAddTask(t) PROVE EntriesInv'
      BY <1>1, <1>2, <2>1, <2>3 DEF EntriesInv, XAddTask, Entry
    <2> QED BY <2>2, <2>3, SchedulerWrites
  <1> QED
    BY <1>1, <1>3 DEF HoldingInv, HeldIsPending, HeldOnce, RecoveryHolds, InBatch

\* A scheduler deletes no record.
LEMMA SchedulerKeepsStore ==
  ASSUME SystemTypeInv, SchedulerMoves
  PROVE  \A t \in Tasks : Exists(t) => Exists(t)'
  <1>1. store \in [Tasks -> Record \union {NoTask}]
    BY DEF SystemTypeInv, TypeInv, TypeOK, RedisTypeOK
  <1> QED BY <1>1, SchedulerWrites, NoTaskAssumption DEF SetTask, Exists

\* Requests are no scheduler's business.
LEMMA RequestScheduler ==
  ASSUME SystemTypeInv, RequestInv, SchedulerMoves
  PROVE  RequestInv'
  BY SchedulerKeepsStore, SchedulerWrites DEF RequestInv, apiVars

\* A scheduler writes no failed record.
LEMMA FailuresScheduler ==
  ASSUME SystemTypeInv, FailuresKept, SchedulerMoves
  PROVE  FailuresKept'
  <1>1. store \in [Tasks -> Record \union {NoTask}]
    BY DEF SystemTypeInv, TypeInv, TypeOK, RedisTypeOK
  <1>2. UNCHANGED <<pel, dlqSet, wpc, wmsg, rcur>>
    BY SchedulerWrites DEF workerVars, recoveryVars
  <1>3. ASSUME NEW t \in Tasks PROVE FailureKept(t)'
    <2>1. store'[t] = store[t] \/ store'[t].state = "pending"
      BY <1>1, SchedulerWrites DEF SetTask
    <2>2. FailureKept(t)
      BY DEF FailuresKept
    <2>3. CASE store'[t] = store[t]
      BY <1>2, <2>2, <2>3, FailureFrame DEF IsExhausted
    <2>4. CASE store'[t].state = "pending"
      BY <2>4 DEF FailureKept
    <2> QED BY <2>1, <2>3, <2>4
  <1> QED BY <1>3 DEF FailuresKept

(***************************************************************************)
(* RecordsKept: which entry or member goes with a record.                  *)
(***************************************************************************)

\* What RecordsKept says of one task.
RecordKept(t) ==
  /\ cpc[t] # "created" => Unheard(t)
  /\ cpc[t] = "xadd" => store[t].state # "scheduled"
  /\ RunKept(t)
  /\ t \in accepted => Exists(t) /\ ScheduleKept(t)

\* A step that writes no running record of t keeps the entry of a running one unless
\* it rewrites the record.
LEMMA RunFrame ==
  ASSUME NEW t \in Tasks, RunKept(t),
         \/ store'[t] = NoTask
         \/ store'[t].state # "running"
         \/ /\ store'[t] = store[t]
            /\ \A e \in pel : e.task = t /\ IsRunning(e) => e \in pel' /\ IsRunning(e)'
  PROVE  RunKept(t)'
  <1>1. CASE store'[t] = NoTask \/ store'[t].state # "running"
    BY <1>1 DEF RunKept, Exists
  <1>2. CASE /\ store'[t] = store[t] /\ Exists(t) /\ store[t].state = "running"
             /\ \A e \in pel : e.task = t /\ IsRunning(e) => e \in pel' /\ IsRunning(e)'
    <2>1. PICK e \in pel : e.task = t /\ IsRunning(e)
      BY <1>2 DEF RunKept
    <2>2. e \in pel' /\ IsRunning(e)'
      BY <1>2, <2>1
    <2> QED BY <2>1, <2>2 DEF RunKept
  <1>3. CASE store'[t] = store[t] /\ ~ (Exists(t) /\ store[t].state = "running")
    BY <1>3 DEF RunKept, Exists
  <1> QED BY <1>1, <1>2, <1>3

\* A step of the workers, the recovery loops or a crash of a process keeps the rest of
\* RecordKept when it writes no scheduled record and makes no new entries or members
\* of tasks nobody has heard of.
LEMMA RecordFrame ==
  ASSUME NEW t \in Tasks, RecordKept(t), RunKept(t)',
         UNCHANGED <<spc, scur, sbatch, cpc, accepted>>,
         Exists(t) => Exists(t)',
         store'[t] = store[t] \/ store'[t].state # "scheduled",
         zset \subseteq zset',
         t \in zset' /\ t \notin zset => cpc[t] = "created",
         EntryOf(t, stream \union pel)' => cpc[t] = "created"
  PROVE  RecordKept(t)'
  <1>1. (cpc[t] # "created" => Unheard(t))'
    BY DEF RecordKept, Unheard
  <1>2. (cpc[t] = "xadd" => store[t].state # "scheduled")'
    BY DEF RecordKept
  <1>3. (t \in accepted => Exists(t) /\ ScheduleKept(t))'
    BY DEF RecordKept, ScheduleKept, Exists
  <1> QED BY <1>1, <1>2, <1>3 DEF RecordKept

\* What a worker holds has been created, and what it writes is the state its handler
\* has brought the task to (processNextTask, handleTaskSuccess, handleTaskFailure).
LEMMA WorkerWrites ==
  ASSUME TypeInv, NEW w \in Workers, WorkerNext(w)
  PROVE  \/ store' = store
         \/ /\ wmsg[w] # NoEntry
            /\ wpc[w] \in {"set_running", "execute", "sched_set"}
            /\ UNCHANGED <<pel, wmsg>>
            /\ \E r \in Record :
                 /\ SetTask(task(w), r)
                 /\ r.state \in {"running", "completed", "retrying", "failed"}
                 /\ r.state = "running" => wpc[w] = "set_running" /\ Goto(w, "execute")
  <1>1. /\ wmsg \in [Workers -> Entry \union {NoEntry}]
        /\ wrec \in [Workers -> Record \union {NoTask}]
        /\ WorkerControl
    BY DEF TypeInv, TypeOK, WorkerTypeOK
  <1>2. CASE SetRunning(w) \/ ScheduleSet(w)
    <2>1. /\ wrec[w] \in Record /\ wmsg[w] # NoEntry
          /\ wrec[w].state \in {"running", "retrying"}
          /\ wrec[w].state = "running" => SetRunning(w)
      BY <1>1, <1>2 DEF SetRunning, ScheduleSet, At, WorkerControl
    <2> QED BY <1>2, <2>1 DEF SetRunning, ScheduleSet, At
  <1>3. CASE SetCompleted(w) \/ SetRetrying(w) \/ SetFailed(w)
    <2>1. wrec[w] \in Record /\ wmsg[w] \in Entry /\ wmsg[w] # NoEntry /\ wrec[w].state = "running"
      BY <1>1, <1>3 DEF HandlerReturns, SetCompleted, SetRetrying, SetFailed, At, WorkerControl
    <2>2. MaxRetries[task(w)] \in Nat
      BY <2>1, MaxRetriesAssumption DEF task, Entry
    <2>3. /\ Complete(wrec[w]) \in Record /\ Complete(wrec[w]).state = "completed"
          /\ Fail(wrec[w]) \in Record /\ Fail(wrec[w]).state = "failed"
          /\ ScheduleRetry(Fail(wrec[w]), MaxRetries[task(w)]) \in Record
          /\ CanRetry(wrec[w], MaxRetries[task(w)]) =>
               ScheduleRetry(Fail(wrec[w]), MaxRetries[task(w)]).state = "retrying"
      BY <2>1, <2>2, RecordOps, RecordStates
    <2> QED
      BY <1>3, <2>1, <2>3
      DEF SetCompleted, SetRetrying, SetFailed, FinishWith, HandlerReturns, At
  <1> QED
    BY <1>2, <1>3
    DEF WorkerNext, WorkerStep, Dequeue, GetMissing, Drop, StartRefused, StartTask,
        ScheduleZAdd, DlqXAdd, DlqSAdd, Acknowledge, redisVars

\* A worker marks a task running only while it holds its entry, and acknowledges the
\* entry only after it has written another state.
LEMMA RecordsWorker ==
  ASSUME SystemTypeInv, HoldingInv, RecordsKept, NEW w \in Workers, WorkerNext(w),
         UNCHANGED schedulerVars
  PROVE  RecordsKept'
  <1> USE NoTaskAssumption, NoEntryAssumption
  <1>1. /\ TypeInv
        /\ store \in [Tasks -> Record \union {NoTask}]
        /\ stream \in SUBSET Entry /\ pel \in SUBSET Entry
        /\ wpc \in [Workers -> WorkerPc]
        /\ wmsg \in [Workers -> Entry \union {NoEntry}]
        /\ WorkerControl
    BY DEF SystemTypeInv, TypeInv, TypeOK, RedisTypeOK, WorkerTypeOK
  <1>2. /\ UNCHANGED <<rcur, cpc, accepted, spc, scur, sbatch>>
        /\ \A t \in Tasks : Exists(t) => Exists(t)'
    <2>1. \E v \in Workers : WorkerNext(v)
      OBVIOUS
    <2> QED BY <1>1, <2>1, StoreKept DEF WorkerNext, recoveryVars, apiVars, schedulerVars
  <1>3. SUFFICES ASSUME NEW t \in Tasks PROVE RecordKept(t)'
    BY DEF RecordsKept, RecordKept
  <1>4. RecordKept(t) /\ RunKept(t)
    BY DEF RecordsKept, RecordKept
  <1>5. (stream \union pel)' \subseteq stream \union pel
    BY DEF WorkerNext, WorkerStep, Dequeue, XReadGroup, Heads, GetMissing, Drop, XAck, StartRefused,
       StartTask, SetRunning, SetCompleted, SetRetrying, SetFailed, FinishWith, ScheduleSet,
       ScheduleZAdd, DlqXAdd, DlqSAdd, Acknowledge, redisVars
  <1>6. wmsg[w] # NoEntry => wmsg[w] \in pel /\ EntryOf(task(w), stream \union pel)
    BY DEF HoldingInv, HeldIsPending, EntryOf, task
  <1>7. RunKept(t)'
    <2>1. CASE store'[t] # store[t]
      <3>1. PICK r \in Record :
              /\ wmsg[w] # NoEntry /\ UNCHANGED <<pel, wmsg>>
              /\ SetTask(task(w), r)
              /\ r.state = "running" => wpc[w] = "set_running" /\ Goto(w, "execute")
        BY <1>1, <2>1, WorkerWrites
      <3>2. t = task(w) /\ store'[t] = r
        BY <1>1, <2>1, <3>1 DEF SetTask
      <3>3. CASE r.state = "running"
        <4>1. wmsg[w] \in pel' /\ wmsg[w].task = t
          BY <1>6, <3>1, <3>2 DEF task
        <4>2. IsRunning(wmsg[w])'
          BY <1>1, <1>2, <1>6, <3>1, <3>3
          DEF IsRunning, At, Goto, HoldingInv, HeldOnce, RecoveryHolds
        <4>3. \E e \in pel' : e.task = t /\ IsRunning(e)'
          BY <3>1, <4>1, <4>2 DEF IsRunning
        <4> QED BY <4>3 DEF RunKept
      <3> QED BY <1>4, <3>2, <3>3, RunFrame
    <2>2. CASE store'[t] = store[t] /\ ~ (At(w, "execute") /\ t = task(w))
      <3>1. \A e \in pel : e.task = t /\ IsRunning(e) => e \in pel' /\ IsRunning(e)'
        <4> SUFFICES ASSUME NEW e \in pel, e.task = t, IsRunning(e)
                     PROVE  e \in pel' /\ IsRunning(e)'
          OBVIOUS
        <4>1. wmsg[w] # e
          BY <2>2 DEF IsRunning, task
        <4>2. e \in pel' /\ wmsg'[w] # e /\ \A v \in Workers \ {w} : wmsg'[v] = wmsg[v] /\ wpc'[v] = wpc[v]
          <5>1. CASE Dequeue(w)
            BY <1>1, <5>1 DEF Dequeue, XReadGroup, Heads, Goto, HoldingInv, EntriesInv
          <5>2. CASE Drop(w) \/ Acknowledge(w) \/ StartRefused(w)
            BY <1>1, <4>1, <5>2 DEF Drop, Acknowledge, StartRefused, XAck, Return, redisVars
          <5>3. CASE UNCHANGED <<pel, wmsg>> /\ \E pc : Goto(w, pc)
            BY <1>1, <4>1, <5>3 DEF Goto
          <5> QED
            BY <5>1, <5>2, <5>3
            DEF WorkerNext, WorkerStep, GetMissing, StartTask, SetRunning, SetCompleted,
                SetRetrying, SetFailed, FinishWith, ScheduleSet, ScheduleZAdd, DlqXAdd,
                DlqSAdd, redisVars
        <4> QED BY <1>2, <4>2 DEF IsRunning, At
      <3> QED BY <1>4, <2>2, <3>1, RunFrame
    <2>3. CASE At(w, "execute") /\ t = task(w)
      <3>1. SetCompleted(w) \/ SetRetrying(w) \/ SetFailed(w)
        BY <2>3 DEF WorkerNext, WorkerStep, Dequeue, GetMissing, Drop, StartRefused, StartTask,
           SetRunning, ScheduleSet, ScheduleZAdd, DlqXAdd, DlqSAdd, Acknowledge, At
      <3>2. wrec[w] \in Record /\ wmsg[w] \in Entry /\ wrec[w].state = "running"
        BY <1>1, <2>3 DEF At, WorkerControl, TypeInv, TypeOK, WorkerTypeOK
      <3>3. MaxRetries[task(w)] \in Nat
        BY <3>2, MaxRetriesAssumption DEF task, Entry
      <3>4. PICK r : SetTask(task(w), r) /\ r.state # "running"
        BY <3>1, <3>2, <3>3, RecordStates DEF SetCompleted, SetRetrying, SetFailed, FinishWith
      <3>5. store'[t] = r
        BY <1>1, <2>3, <3>4 DEF SetTask
      <3> QED BY <1>4, <3>4, <3>5, RunFrame
    <2> QED BY <2>1, <2>2, <2>3
  <1>8. store'[t] = store[t] \/ store'[t].state # "scheduled"
    BY <1>1, WorkerWrites DEF SetTask
  <1>9. zset \subseteq zset' /\ (t \in zset' /\ t \notin zset => cpc[t] = "created")
    <2>1. CASE ScheduleZAdd(w)
      <3>1. wmsg[w] # NoEntry /\ zset' = zset \union {task(w)}
        BY <1>1, <2>1 DEF ScheduleZAdd, At, WorkerControl
      <3> QED BY <1>4, <1>6, <3>1 DEF RecordKept, Unheard
    <2> QED
      BY <2>1
      DEF WorkerNext, WorkerStep, Dequeue, GetMissing, Drop, StartRefused, StartTask,
          SetRunning, SetCompleted, SetRetrying, SetFailed, FinishWith, ScheduleSet, DlqXAdd,
          DlqSAdd, Acknowledge, redisVars
  <1>10. EntryOf(t, stream \union pel)' => cpc[t] = "created"
    BY <1>4, <1>5 DEF RecordKept, Unheard, EntryOf
  <1> QED BY <1>2, <1>4, <1>7, <1>8, <1>9, <1>10, RecordFrame

\* A recovery loop makes the record of an entry pending before it replaces and
\* acknowledges it (recoverOrphanedTasks).
LEMMA RecordsRecovery ==
  ASSUME SystemTypeInv, HoldingInv, RecordsKept, NEW p \in Pools, RecoveryNext(p),
         UNCHANGED schedulerVars
  PROVE  RecordsKept'
  <1> USE NoTaskAssumption, NoEntryAssumption
  <1>1. /\ TypeInv
        /\ store \in [Tasks -> Record \union {NoTask}]
        /\ stream \in SUBSET Entry /\ pel \in SUBSET Entry
        /\ rcur \in [Pools -> Entry \union {NoEntry}]
        /\ rbatch \in [Pools -> SUBSET Claimed]
        /\ RecoveryControl
    BY DEF SystemTypeInv, TypeInv, TypeOK, RedisTypeOK, RecoveryTypeOK
  <1>2. /\ UNCHANGED <<wpc, wmsg, cpc, accepted, spc, scur, sbatch, zset>>
        /\ \A t \in Tasks : Exists(t) => Exists(t)'
    <2>1. \E q \in Pools : RecoveryNext(q)
      OBVIOUS
    <2>2. UNCHANGED apiVars /\ \A t \in Tasks : Exists(t) => Exists(t)'
      BY <1>1, <2>1, StoreKept
    <2>3. UNCHANGED <<wpc, wmsg, zset>>
      BY DEF RecoveryNext, RecoveryStep, Claim, ReadMissing, ReadClaimed, RequeueSet,
             RequeueXAdd, RequeueAck, workerVars, redisVars
    <2> QED BY <2>2, <2>3 DEF apiVars, schedulerVars
  <1>3. SUFFICES ASSUME NEW t \in Tasks PROVE RecordKept(t)'
    BY DEF RecordsKept, RecordKept
  <1>4. RecordKept(t) /\ RunKept(t)
    BY DEF RecordsKept, RecordKept
  <1>5. CASE RequeueSet(p)
    <2>1. PICK b \in rbatch[p] :
            /\ SetTask(b.entry.task, PrepareForRequeue(b.rec, MaxRetries[b.entry.task]))
            /\ rcur' = [rcur EXCEPT ![p] = b.entry]
      BY <1>5 DEF RequeueSet
    <2>2. b.rec \in Record /\ MaxRetries[b.entry.task] \in Nat
      BY <1>1, MaxRetriesAssumption DEF Claimed, Entry
    <2>3. PrepareForRequeue(b.rec, MaxRetries[b.entry.task]).state = "pending"
      BY <2>2, RecordStates
    <2>4. UNCHANGED <<stream, pel>>
      BY <1>5 DEF RequeueSet
    <2>5. store'[t] = store[t] \/ store'[t].state = "pending"
      BY <1>1, <2>1, <2>3 DEF SetTask
    <2>6. RunKept(t)'
      <3>1. CASE t = b.entry.task
        <4>1. store'[t].state # "running"
          BY <1>1, <2>1, <2>3, <3>1 DEF SetTask
        <4> QED BY <1>4, <4>1, RunFrame
      <3>2. CASE t # b.entry.task
        <4>1. store'[t] = store[t]
          BY <1>1, <2>1, <3>2 DEF SetTask
        <4>2. \A e \in pel : e.task = t /\ IsRunning(e) => e \in pel' /\ IsRunning(e)'
          BY <1>1, <1>2, <2>1, <2>4, <3>2 DEF IsRunning, At
        <4> QED BY <1>4, <4>1, <4>2, RunFrame
      <3> QED BY <3>1, <3>2
    <2>7. EntryOf(t, stream \union pel)' => cpc[t] = "created"
      BY <1>4, <2>4 DEF RecordKept, Unheard, EntryOf
    <2> QED BY <1>2, <1>4, <2>5, <2>6, <2>7, RecordFrame
  <1>6. ASSUME store' = store, (stream \union pel)' \subseteq stream \union pel,
               \A e \in pel : IsRunning(e) => e \in pel' /\ IsRunning(e)'
        PROVE  RecordKept(t)'
    <2>1. RunKept(t)'
      BY <1>4, <1>6, RunFrame
    <2>2. EntryOf(t, stream \union pel)' => cpc[t] = "created"
      BY <1>4, <1>6 DEF RecordKept, Unheard, EntryOf
    <2> QED BY <1>2, <1>4, <1>6, <2>1, <2>2, RecordFrame
  <1>7. CASE RequeueXAdd(p)
    <2>1. /\ UNCHANGED <<store, pel, rcur>>
          /\ XAddTask(rcur[p].task)
          /\ rcur[p] # NoEntry
      BY <1>1, <1>7 DEF RequeueXAdd, RecoveryControl
    <2>2. EntryOf(rcur[p].task, stream \union pel)
      BY <2>1 DEF HoldingInv, HeldIsPending, EntryOf
    <2>3. EntryOf(t, stream \union pel)' => cpc[t] = "created"
      BY <1>4, <2>1, <2>2 DEF RecordKept, Unheard, EntryOf, XAddTask
    <2>4. RunKept(t)'
      BY <1>2, <1>4, <2>1, RunFrame DEF IsRunning, At
    <2> QED BY <1>2, <1>4, <2>1, <2>3, <2>4, RecordFrame
  <1>8. CASE RequeueAck(p)
    <2>1. /\ UNCHANGED <<store, stream>>
          /\ pel' = pel \ {rcur[p]}
          /\ rcur' = [rcur EXCEPT ![p] = NoEntry]
      BY <1>8 DEF RequeueAck, XAck
    <2>2. \A e \in pel : IsRunning(e) => e \in pel' /\ IsRunning(e)'
      BY <1>1, <1>2, <2>1 DEF IsRunning, At
    <2> QED BY <1>6, <2>1, <2>2
  <1>9. CASE UNCHANGED <<redisVars, rcur>>
    BY <1>2, <1>6, <1>9 DEF redisVars, IsRunning, At
  <1> QED
    BY <1>5, <1>7, <1>8, <1>9
    DEF RecoveryNext, RecoveryStep, Claim, ReadMissing, ReadClaimed

\* A handler that dies with its process leaves its entry pending.
LEMMA RecordsCrash ==
  ASSUME SystemTypeInv, HoldingInv, RecordsKept, NEW p \in Pools, Crash(p) \/ Restart(p),
         UNCHANGED schedulerVars
  PROVE  RecordsKept'
  <1> USE NoEntryAssumption
  <1>1. /\ UNCHANGED <<store, stream, pel, zset, cpc, accepted, spc, scur, sbatch>>
        /\ pel \in SUBSET Entry /\ TypeInv
    BY DEF Crash, Restart, redisVars, apiVars, schedulerVars, SystemTypeInv, TypeInv, TypeOK,
           RedisTypeOK
  <1>2. \A e \in pel : IsRunning(e) => IsRunning(e)'
    <2>1. \A q \in Pools : rcur'[q] \in {rcur[q], NoEntry}
      BY <1>1 DEF Crash, Restart, TypeInv, TypeOK, RecoveryTypeOK
    <2>2. \A w \in Workers : wmsg'[w] # NoEntry => wmsg'[w] = wmsg[w] /\ wpc'[w] = wpc[w]
      BY <1>1, CrashAssumption
      DEF Crash, Restart, SetPool, TypeInv, TypeOK, WorkerTypeOK, WorkerControl, StoppedTogether
    <2> QED BY <1>1, <2>1, <2>2 DEF IsRunning, At
  <1>3. SUFFICES ASSUME NEW t \in Tasks PROVE RecordKept(t)'
    BY DEF RecordsKept, RecordKept
  <1>4. RecordKept(t) /\ RunKept(t)
    BY DEF RecordsKept, RecordKept
  <1>5. RunKept(t)'
    BY <1>1, <1>2, <1>4, RunFrame
  <1>6. EntryOf(t, stream \union pel)' => cpc[t] = "created"
    BY <1>1, <1>4 DEF RecordKept, Unheard, EntryOf
  <1> QED BY <1>1, <1>4, <1>5, <1>6, RecordFrame DEF Exists

\* A creation is finished by its entry or its member; a record marked scheduled is
\* written for a task nobody has heard of yet (Create, Enqueue, ScheduleTaskFunc).
LEMMA RecordsApi ==
  ASSUME SystemTypeInv, RequestInv, RecordsKept, NEW x \in Tasks, ApiNext(x),
         UNCHANGED schedulerVars
  PROVE  RecordsKept'
  <1> USE NoTaskAssumption, NoTaskInHand
  <1>1. /\ store \in [Tasks -> Record \union {NoTask}]
        /\ cpc \in [Tasks -> CreatePc]
        /\ accepted \in SUBSET Tasks
        /\ SchedulerControl
    BY DEF SystemTypeInv, TypeInv, TypeOK, RedisTypeOK, ApiTypeOK
  <1>2. UNCHANGED <<pel, wpc, wmsg, rcur, spc, scur, sbatch>>
    BY DEF ApiNext, ApiStep, Submit, EnqueueSet, EnqueueXAdd, CreateScheduledSet,
           CreateScheduledZAdd, AbortCreate, CancelRead, CancelSet, Expire, redisVars,
           workerVars, recoveryVars, schedulerVars
  <1>3. SUFFICES ASSUME NEW t \in Tasks PROVE RecordKept(t)'
    BY DEF RecordsKept, RecordKept
  <1>4. RecordKept(t) /\ RunKept(t)
    BY DEF RecordsKept, RecordKept
  <1>5. ASSUME store'[t] = store[t] \/ store'[t] = NoTask \/ store'[t].state # "running"
        PROVE  RunKept(t)'
    BY <1>2, <1>4, <1>5, RunFrame DEF IsRunning, At
  <1>6. ASSUME store'[t] = store[t], cpc'[t] = cpc[t], t \in accepted' => t \in accepted,
               t \in zset' <=> t \in zset,
               EntryOf(t, stream \union pel)' => EntryOf(t, stream \union pel)
        PROVE  RecordKept(t)'
    BY <1>2, <1>4, <1>5, <1>6 DEF RecordKept, Unheard, ScheduleKept, Exists
  <1>7. CASE t # x
    <2>1. /\ store'[t] = store[t] /\ cpc'[t] = cpc[t]
          /\ t \in accepted' => t \in accepted
          /\ t \in zset' <=> t \in zset
      BY <1>1, <1>7
      DEF ApiNext, ApiStep, Submit, EnqueueSet, EnqueueXAdd, CreateScheduledSet,
          CreateScheduledZAdd, AbortCreate, CancelRead, CancelSet, Expire, redisVars,
          SetTask, DelTask
    <2>2. EntryOf(t, stream \union pel)' => EntryOf(t, stream \union pel)
      <3>1. stream' = stream \/ XAddTask(x)
        BY DEF ApiNext, ApiStep, Submit, EnqueueSet, EnqueueXAdd, CreateScheduledSet,
               CreateScheduledZAdd, AbortCreate, CancelRead, CancelSet, Expire, redisVars
      <3> QED BY <1>2, <1>7, <3>1 DEF EntryOf, XAddTask
    <2> QED BY <1>6, <2>1, <2>2
  <1>8. CASE t = x
    <2>1. CASE Submit(t) \/ AbortCreate(t)
      <3>1. /\ UNCHANGED <<store, stream, pel, zset, accepted>>
            /\ cpc[t] # "created" /\ cpc'[t] # "xadd" /\ t \notin accepted
        BY <1>1, <1>2, <2>1 DEF Submit, AbortCreate, redisVars, RequestInv
      <3> QED BY <1>2, <1>4, <1>5, <3>1 DEF RecordKept, Unheard, EntryOf
    <2>2. CASE EnqueueSet(t) \/ CreateScheduledSet(t)
      <3>1. /\ UNCHANGED <<stream, pel, zset, accepted>>
            /\ cpc[t] # "created" /\ t \notin accepted
            /\ store'[t].state \in {"pending", "scheduled"}
            /\ cpc'[t] = "xadd" => store'[t].state = "pending"
        BY <1>1, <1>2, <2>2
        DEF EnqueueSet, CreateScheduledSet, SetTask, NewRecord, RequestInv
      <3> QED BY <1>2, <1>4, <1>5, <3>1 DEF RecordKept, Unheard, EntryOf
    <2>3. CASE EnqueueXAdd(t)
      <3>1. /\ store' = store /\ cpc'[t] = "created"
            /\ Exists(t) /\ store[t].state # "scheduled"
        BY <1>1, <1>4, <2>3 DEF EnqueueXAdd, RequestInv, RecordKept
      <3> QED BY <1>5, <3>1 DEF RecordKept, Exists, ScheduleKept
    <2>4. CASE CreateScheduledZAdd(t)
      <3>1. /\ store' = store /\ cpc'[t] = "created" /\ Exists(t) /\ t \in zset'
            /\ cpc[t] # "created"
        BY <1>1, <2>4 DEF CreateScheduledZAdd, RequestInv
      <3>2. \A s \in Schedulers : scur'[s] # t
        BY <1>1, <1>2, <1>4, <3>1 DEF RecordKept, Unheard, SchedulerControl
      <3> QED BY <1>5, <3>1, <3>2 DEF RecordKept, Exists, ScheduleKept
    <2>5. CASE CancelRead(t)
      BY <1>2, <1>6, <2>5 DEF CancelRead, redisVars
    <2>6. CASE CancelSet(t)
      <3>1. /\ store'[t].state = "canceled" /\ store'[t] # NoTask
            /\ UNCHANGED <<stream, pel, zset, accepted, cpc>>
        BY <1>1, <1>2, <2>6
        DEF CancelSet, SetTask, RequestInv, SystemTypeInv, TypeInv, TypeOK, ApiTypeOK
      <3> QED
        BY <1>2, <1>4, <1>5, <3>1 DEF RecordKept, Unheard, EntryOf, Exists, ScheduleKept
    <2>7. CASE Expire(t)
      <3>1. store'[t] = NoTask /\ t \notin accepted' /\ cpc' = cpc /\ cpc[t] = "created"
        BY <1>1, <2>7 DEF Expire, DelTask, RequestInv
      <3> QED BY <1>5, <3>1 DEF RecordKept
    <2> QED
      BY <1>8, <2>1, <2>2, <2>3, <2>4, <2>5, <2>6, <2>7 DEF ApiNext, ApiStep
  <1> QED BY <1>7, <1>8

\* A scheduler makes a task pending before it takes it out of the sorted set, and
\* activates only tasks that were there (activateTask).
LEMMA RecordsScheduler ==
  ASSUME SystemTypeInv, RecordsKept, SchedulerMoves
  PROVE  RecordsKept'
  <1> USE NoTaskAssumption, NoTaskInHand
  <1>1. /\ store \in [Tasks -> Record \union {NoTask}]
        /\ zset \in SUBSET Tasks
        /\ spc \in [Schedulers -> SchedulerPc]
        /\ sbatch \in [Schedulers -> SUBSET Tasks]
        /\ scur \in [Schedulers -> Tasks \union {NoTask}]
        /\ SchedulerControl
    BY DEF SystemTypeInv, TypeInv, TypeOK, RedisTypeOK, SchedulerTypeOK
  <1>2. /\ UNCHANGED <<pel, wpc, wmsg, rcur, cpc, accepted>>
        /\ \A t \in Tasks : Exists(t) => Exists(t)'
        /\ \A t \in Tasks : store'[t] = store[t] \/ store'[t].state = "pending"
    <2>1. UNCHANGED <<pel, wpc, wmsg, rcur, cpc, accepted>>
      BY SchedulerWrites DEF workerVars, recoveryVars, apiVars
    <2>2. \A t \in Tasks : store'[t] = store[t] \/ store'[t].state = "pending"
      BY <1>1, SchedulerWrites DEF SetTask
    <2> QED BY <2>1, <2>2, SchedulerKeepsStore
  <1>3. SUFFICES ASSUME NEW t \in Tasks PROVE RecordKept(t)'
    BY DEF RecordsKept, RecordKept
  <1>4. RecordKept(t) /\ RunKept(t)
    BY DEF RecordsKept, RecordKept
  <1>5. RunKept(t)' /\ (cpc[t] = "xadd" => store[t].state # "scheduled")'
    <2>1. (cpc[t] = "xadd" => store[t].state # "scheduled")'
      BY <1>2, <1>4 DEF RecordKept
    <2>2. RunKept(t)'
      BY <1>2, <1>4, RunFrame DEF IsRunning, At
    <2> QED BY <2>1, <2>2
  <1>6. ASSUME t \in zset' <=> t \in zset,
               \A s \in Schedulers :
                 /\ t \in sbatch'[s] => t \in sbatch[s]
                 /\ scur'[s] = t => scur[s] = t /\ (spc'[s] = spc[s] \/ store'[t] # store[t]),
               EntryOf(t, stream \union pel)' => EntryOf(t, stream \union pel)
        PROVE  RecordKept(t)'
    <2>1. (cpc[t] # "created" => Unheard(t))'
      BY <1>2, <1>4, <1>6 DEF RecordKept, Unheard
    <2>2. (t \in accepted => Exists(t) /\ ScheduleKept(t))'
      BY <1>2, <1>4, <1>6 DEF RecordKept, ScheduleKept, Exists
    <2> QED BY <1>5, <2>1, <2>2 DEF RecordKept
  <1>7. CASE LockExpires
    BY <1>2, <1>6, <1>7 DEF LockExpires, redisVars
  <1>8. ASSUME NEW s \in Schedulers, SchedulerStep(s) \/ SchedulerCrash(s)
        PROVE  RecordKept(t)'
    <2>1. CASE TakeLock(s) \/ Unlock(s)
      <3>1. scur[s] # t
        BY <1>1, <2>1 DEF TakeLock, Unlock, SchedulerControl
      <3> QED BY <1>1, <1>2, <1>6, <2>1, <3>1 DEF TakeLock, Unlock, SchedGoto, redisVars
    <2>2. CASE SchedulerCrash(s)
      BY <1>1, <1>2, <1>6, <2>2 DEF SchedulerCrash, SchedGoto, redisVars
    <2>3. ASSUME NEW due \in SUBSET zset, ReadDue(s, due) PROVE RecordKept(t)'
      <3>1. /\ UNCHANGED <<store, stream, zset, scur>>
            /\ \A r \in Schedulers : t \in sbatch'[r] => t \in sbatch[r] \/ t \in zset
            /\ \A r \in Schedulers : r # s => spc'[r] = spc[r]
            /\ scur[s] # t
        BY <1>1, <2>3 DEF ReadDue, SchedGoto, redisVars, SchedulerControl
      <3>2. (cpc[t] # "created" => Unheard(t))'
        BY <1>2, <1>4, <3>1 DEF RecordKept, Unheard, EntryOf
      <3>3. (t \in accepted => Exists(t) /\ ScheduleKept(t))'
        BY <1>2, <1>4, <3>1 DEF RecordKept, ScheduleKept, Exists
      <3> QED BY <1>5, <3>2, <3>3 DEF RecordKept
    <2>4. ASSUME NEW u \in Tasks, ReadWaiting(s, u) PROVE RecordKept(t)'
      <3>1. /\ UNCHANGED <<store, stream, zset, sbatch>>
            /\ scur' = [scur EXCEPT ![s] = u]
            /\ spc' = [spc EXCEPT ![s] = IF Waiting(u) THEN "set" ELSE "zrem"]
            /\ scur[s] # t
        BY <1>1, <2>4 DEF ReadWaiting, SchedGoto, redisVars, SchedulerControl
      <3>2. (cpc[t] # "created" => Unheard(t))'
        BY <1>2, <1>4, <3>1 DEF RecordKept, Unheard, EntryOf
      <3>3. (t \in accepted => Exists(t) /\ ScheduleKept(t))'
        BY <1>1, <1>2, <1>4, <3>1 DEF RecordKept, ScheduleKept, Exists, Waiting
      <3> QED BY <1>5, <3>2, <3>3 DEF RecordKept
    <2>5. CASE ActivateSet(s)
      <3>1. /\ UNCHANGED <<stream, zset, sbatch, scur>>
            /\ \A r \in Schedulers : r # s => spc'[r] = spc[r]
            /\ scur[s] = t => store'[t].state = "pending"
        BY <1>1, <2>5 DEF ActivateSet, SchedGoto, SetTask, SchedulerControl
      <3>2. (cpc[t] # "created" => Unheard(t))'
        BY <1>2, <1>4, <3>1 DEF RecordKept, Unheard, EntryOf
      <3>3. (t \in accepted => Exists(t) /\ ScheduleKept(t))'
        BY <1>2, <1>4, <3>1 DEF RecordKept, ScheduleKept, Exists
      <3> QED BY <1>5, <3>2, <3>3 DEF RecordKept
    <2>6. CASE ActivateXAdd(s)
      <3>1. /\ UNCHANGED <<store, zset, sbatch, scur>>
            /\ XAddTask(scur[s])
            /\ spc[s] = "xadd"
            /\ scur[s] \in sbatch[s]
            /\ \A r \in Schedulers : r # s => spc'[r] = spc[r]
        BY <1>1, <2>6 DEF ActivateXAdd, SchedGoto, SchedulerControl
      <3>2. (cpc[t] # "created" => Unheard(t))'
        BY <1>2, <1>4, <3>1 DEF RecordKept, Unheard, EntryOf, XAddTask
      <3>3. (t \in accepted => Exists(t) /\ ScheduleKept(t))'
        BY <1>2, <1>4, <3>1 DEF RecordKept, ScheduleKept, Exists
      <3> QED BY <1>5, <3>2, <3>3 DEF RecordKept
    <2>7. CASE ActivateZRem(s)
      <3>1. /\ UNCHANGED <<store, stream>>
            /\ zset' = zset \ {scur[s]}
            /\ sbatch' = [sbatch EXCEPT ![s] = @ \ {scur[s]}]
            /\ scur' = [scur EXCEPT ![s] = NoTask]
            /\ spc[s] = "zrem"
            /\ \A r \in Schedulers : r # s => spc'[r] = spc[r]
        BY <1>1, <2>7 DEF ActivateZRem, SchedGoto
      <3>2. (cpc[t] # "created" => Unheard(t))'
        BY <1>1, <1>2, <1>4, <3>1 DEF RecordKept, Unheard, EntryOf
      <3>3. (t \in accepted => Exists(t) /\ ScheduleKept(t))'
        BY <1>1, <1>2, <1>4, <3>1 DEF RecordKept, ScheduleKept, Exists
      <3> QED BY <1>5, <3>2, <3>3 DEF RecordKept
    <2> QED BY <1>8, <2>1, <2>2, <2>3, <2>4, <2>5, <2>6, <2>7 DEF SchedulerStep
  <1> QED BY <1>7, <1>8 DEF SchedulerMoves

(***************************************************************************)
(* The inductive invariant of the whole service.                           *)
(***************************************************************************)

\* Initially nothing exists.
LEMMA SystemIInvInit == SystemInit => SystemIInv
  <1> SUFFICES ASSUME SystemInit PROVE SystemIInv
    OBVIOUS
  <1>1. SystemTypeInv /\ HoldingInv /\ RequestInv
    BY SchedulerTypeInit, HoldingInit, RequestInit DEF SystemInit
  <1>2. slow <= MaxSlow
    BY MaxSlowAssumption DEF SystemInit, Init, RecoveryInit
  <1>3. LockInv
    BY DEF SystemInit, SchedulerInit, LockInv, SchedulerExclusion
  <1>4. FailuresKept
    BY DEF SystemInit, Init, RedisInit, FailuresKept, FailureKept, Exists
  <1>5. RecordsKept
    BY DEF SystemInit, Init, RedisInit, ApiInit, SchedulerInit, RecordsKept, Unheard, EntryOf,
           RunKept, Exists
  <1> QED BY <1>1, <1>2, <1>3, <1>4, <1>5 DEF SystemIInv

\* Every step of WorkerSystem keeps what it kept there, with schedulers beside it.
LEMMA WithoutScheduler ==
  ASSUME SystemTypeInv, SystemTypeInv', RequestInv, HoldingInv, FailuresKept, RecordsKept,
         Next, UNCHANGED schedulerVars, slow' = 0
  PROVE  HoldingInv' /\ FailuresKept' /\ RecordsKept'
  <1>1. TypeInv
    BY DEF SystemTypeInv
  <1>2. ASSUME NEW w \in Workers, WorkerNext(w)
        PROVE  HoldingInv' /\ FailuresKept' /\ RecordsKept'
    BY <1>1, <1>2, HoldingWorker, FailuresWorker, RecordsWorker
  <1>3. ASSUME NEW p \in Pools, RecoveryNext(p)
        PROVE  HoldingInv' /\ FailuresKept' /\ RecordsKept'
    BY <1>1, <1>3, HoldingRecovery, FailuresRecovery, RecordsRecovery
  <1>4. ASSUME NEW p \in Pools, Crash(p) \/ Restart(p)
        PROVE  HoldingInv' /\ FailuresKept' /\ RecordsKept'
    BY <1>1, <1>4, HoldingCrash, FailuresCrash, RecordsCrash
  <1>5. ASSUME NEW t \in Tasks, ApiNext(t)
        PROVE  HoldingInv' /\ FailuresKept' /\ RecordsKept'
    BY <1>1, <1>5, HoldingApi, FailuresApi, RecordsApi
  <1> QED BY <1>2, <1>3, <1>4, <1>5 DEF Next

\* SystemIInv is inductive.
LEMMA SystemInvariance == SystemSpec => []SystemIInv
  <1>1. SystemIInv /\ [SystemNext]_systemVars => SystemIInv'
    <2> SUFFICES ASSUME SystemIInv, [SystemNext]_systemVars PROVE SystemIInv'
      OBVIOUS
    <2>1. /\ SystemTypeInv /\ RequestInv /\ LockInv /\ slow <= MaxSlow
          /\ TypeInv /\ slow \in Nat
      BY DEF SystemIInv, SystemTypeInv, TypeInv, TypeOK, RecoveryTypeOK
    <2>2. SystemTypeInv' /\ LockInv'
      BY <2>1, SystemTypeStep, LockStep
    <2>3. CASE Next /\ UNCHANGED schedulerVars
      <3>1. RequestInv' /\ slow' <= MaxSlow /\ (slow' = 0 => slow = 0)
        BY <2>1, <2>3, RequestStep, SlowGrows
      <3>2. slow' = 0 => HoldingInv' /\ FailuresKept' /\ RecordsKept'
        BY <2>1, <2>2, <2>3, <3>1, WithoutScheduler DEF SystemIInv
      <3> QED BY <2>2, <3>1, <3>2 DEF SystemIInv
    <2>4. CASE SchedulerMoves
      <3>1. RequestInv' /\ slow' = slow
        BY <2>1, <2>4, RequestScheduler, SchedulerWrites DEF recoveryVars
      <3>2. slow' = 0 => HoldingInv' /\ FailuresKept' /\ RecordsKept'
        BY <2>1, <2>4, <3>1, HoldingScheduler, FailuresScheduler, RecordsScheduler
        DEF SystemIInv
      <3> QED BY <2>1, <2>2, <3>1, <3>2 DEF SystemIInv
    <2>5. CASE UNCHANGED systemVars
      <3>1. UNCHANGED vars /\ UNCHANGED schedulerVars
        BY <2>5 DEF systemVars
      <3>2. RequestInv' /\ slow' = slow
        BY <2>1, <3>1, RequestStep DEF vars, recoveryVars
      <3>3. (HoldingInv => HoldingInv') /\ (FailuresKept => FailuresKept')
        BY <3>1
        DEF HoldingInv, EntriesInv, HeldIsPending, HeldOnce, RecoveryHolds, InBatch, FailuresKept,
            FailureKept, IsExhausted, Exists, vars, redisVars, dlqVars, workerVars, recoveryVars
      <3>4. RecordsKept => RecordsKept'
        BY <3>1
        DEF RecordsKept, Unheard, EntryOf, RunKept, IsRunning, At, ScheduleKept, Exists, vars,
            redisVars, workerVars, recoveryVars, apiVars, schedulerVars
      <3> QED BY <2>1, <2>2, <3>2, <3>3, <3>4 DEF SystemIInv
    <2> QED
      BY <2>3, <2>4, <2>5
      DEF SystemNext, SystemWorkerNext, SystemPoolNext, SystemApiNext, SchedulerNext,
          SchedulerMoves, Next
  <1> QED BY <1>1, SystemIInvInit, PTL DEF SystemSpec

\* The state of the whole service, as TypeCorrect has it for the workers: the program
\* counter of a scheduler says what it has in hand (processDueTasks, activateTask).
THEOREM SystemTypeCorrect == SystemSpec => []SystemTypeInv
  <1>1. SystemIInv => SystemTypeInv
    BY DEF SystemIInv
  <1> QED BY <1>1, SystemInvariance, PTL

\* However many API servers there are and however often they die, at most one works
\* on a batch until the lock first expires under one (processDueTasks: SETNX, deferred
\* DEL).
THEOREM OneScheduler == SystemSpec => []SchedulerExclusion
  <1>1. SystemIInv => SchedulerExclusion
    BY DEF SystemIInv, LockInv, SchedulerExclusion
  <1> QED BY <1>1, SystemInvariance, PTL

\* Whatever happens to schedulers, their lock and worker processes, a task nobody
\* carries is seen to wait: as long as handlers return before claimMinIdle, no record
\* says running or scheduled of a task without an entry and without a member
\* (activateTask, handleTaskFailure, Create).
THEOREM StrandedTasksWait == SystemSpec => [](slow = 0 => LostIsWaiting)
  <1>1. SystemIInv => (slow = 0 => LostIsWaiting)
    <2> SUFFICES ASSUME SystemIInv, slow = 0, NEW t \in accepted
                 PROVE  /\ Exists(t)
                        /\ \/ Settled(t)
                           \/ t \in zset
                           \/ EntryOf(t, stream \union pel)
                           \/ store[t].state \in {"pending", "retrying"}
      BY DEF LostIsWaiting
    <2>1. t \in Tasks /\ store[t] \in Record \union {NoTask}
      BY DEF SystemIInv, SystemTypeInv, TypeInv, TypeOK, RedisTypeOK, ApiTypeOK
    <2>2. Exists(t) /\ ScheduleKept(t) /\ RunKept(t)
      BY <2>1 DEF SystemIInv, RecordsKept
    <2>3. store[t].state \in State
      BY <2>1, <2>2 DEF Exists, Record
    <2>4. CASE store[t].state = "running"
      BY <2>2, <2>4 DEF RunKept, EntryOf
    <2>5. CASE store[t].state = "scheduled"
      BY <2>2, <2>5 DEF ScheduleKept
    <2>6. CASE store[t].state \notin {"running", "scheduled"}
      BY <2>2, <2>3, <2>6 DEF State, Settled, IsFinal
    <2> QED BY <2>2, <2>4, <2>5, <2>6
  <1> QED BY <1>1, SystemInvariance, PTL

\* The schedulers change nothing about who holds an entry: OneOwner for the whole
\* service.
THEOREM OneOwnerInService == SystemSpec => [](slow = 0 => HeldOnce)
  <1>1. SystemIInv => (slow = 0 => HeldOnce)
    BY DEF SystemIInv, HoldingInv
  <1> QED BY <1>1, SystemInvariance, PTL

\* Nor about the dead-letter queue: ExhaustedTasksAreKept for the whole service
\* (activateTask writes only pending records).
THEOREM ExhaustedInService == SystemSpec => [](slow = 0 => FailedReachesDLQ)
  <1>1. SystemIInv => (slow = 0 => FailedReachesDLQ)
    BY DEF SystemIInv, FailuresKept, FailureKept, FailedReachesDLQ, EntryOf
  <1> QED BY <1>1, SystemInvariance, PTL

=============================================================================
