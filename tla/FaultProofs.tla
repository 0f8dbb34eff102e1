----------------------------- MODULE FaultProofs ------------------------------
(***************************************************************************)
(* Proofs about RedisFaults: what the service keeps when Redis refuses     *)
(* single commands, for any tasks, workers, processes, schedulers, limits  *)
(* and bounds, and any number of refusals of different kinds.              *)
(***************************************************************************)
EXTENDS RedisFaults, TaskQueueProofs

(***************************************************************************)
(* The error branches, and what they leave alone.                          *)
(***************************************************************************)
WorkerFaults(w) ==
  WorkerFault(w) /\ UNCHANGED <<recoveryVars, apiVars, crashes, schedulerVars, races>>

RecoveryFaults(p) ==
  RecoveryFault(p) /\ UNCHANGED <<slow, workerVars, apiVars, crashes, schedulerVars, races>>

SchedulerFaults(s) == SchedulerFault(s) /\ Elsewhere

FaultMoves ==
  \/ \E w \in Workers : WorkerFaults(w)
  \/ \E p \in Pools : RecoveryFaults(p)
  \/ \E s \in Schedulers : SchedulerFaults(s)

\* A step of the service without a refusal, a refusal, or nothing.
LEMMA FaultyCases ==
  ASSUME [FaultyNext]_faultyVars
  PROVE  ([SystemNext]_systemVars /\ refused' = refused) \/ FaultMoves
  BY DEF FaultyNext, faultyVars, FaultMoves, WorkerFaults, RecoveryFaults, SchedulerFaults

\* An error branch writes no record, adds no entry and acknowledges none: it deletes
\* a record at most.
LEMMA FaultWrites ==
  ASSUME FaultMoves
  PROVE  /\ UNCHANGED <<stream, pel, lastId, zset, dlqVars, apiVars, crashes, slow, races,
                        lock, expiries, schedCrashes>>
         /\ \/ store' = store
            \/ \E w \in Workers : At(w, "sched_del") /\ DelTask(task(w))
            \/ \E p \in Pools : rpc[p] = "del" /\ DelTask(rcur[p].task)
         /\ refused \subseteq refused'
         /\ refused \in SUBSET Faults => refused' \in SUBSET Faults
  <1>1. ASSUME NEW w \in Workers, WorkerFaults(w)
        PROVE  /\ UNCHANGED <<stream, pel, lastId, zset, dlqVars, apiVars, crashes, slow, races,
                              lock, expiries, schedCrashes>>
               /\ store' = store \/ (At(w, "sched_del") /\ DelTask(task(w)))
               /\ refused \subseteq refused'
               /\ refused \in SUBSET Faults => refused' \in SUBSET Faults
    BY <1>1
    DEF WorkerFaults, WorkerFault, GetRefused, SetRunningRefused, SetFailedRefused, WriteRefused,
        ScheduleZAddRefused, ScheduleDel, DlqRefused, AckRefused, Refuse, redisVars, recoveryVars,
        schedulerVars
  <1>2. ASSUME NEW p \in Pools, RecoveryFaults(p)
        PROVE  /\ UNCHANGED <<stream, pel, lastId, zset, dlqVars, apiVars, crashes, slow, races,
                              lock, expiries, schedCrashes>>
               /\ store' = store \/ (rpc[p] = "del" /\ DelTask(rcur[p].task))
               /\ refused \subseteq refused'
               /\ refused \in SUBSET Faults => refused' \in SUBSET Faults
    BY <1>2
    DEF RecoveryFaults, RecoveryFault, ReadRefused, RequeueSetRefused, RequeueXAddRefused,
        RequeueDel, RequeueAckRefused, Refuse, redisVars, schedulerVars
  <1>3. ASSUME NEW s \in Schedulers, SchedulerFaults(s)
        PROVE  /\ UNCHANGED <<redisVars, apiVars, crashes, slow, races, lock, expiries,
                              schedCrashes>>
               /\ refused \subseteq refused'
               /\ refused \in SUBSET Faults => refused' \in SUBSET Faults
    BY <1>3
    DEF SchedulerFaults, SchedulerFault, DueGetRefused, DueWriteRefused, Refuse, Elsewhere,
        recoveryVars
  <1> QED BY <1>1, <1>2, <1>3 DEF FaultMoves, redisVars

\* An error branch hands nothing over: whoever held something holds it still or has
\* let go of it.
LEMMA FaultHands ==
  ASSUME TypeInv, FaultMoves
  PROVE  /\ \A w \in Workers : wmsg'[w] \in {wmsg[w], NoEntry}
         /\ \A q \in Pools : /\ rclaim'[q] \in {rclaim[q], NoEntry}
                             /\ rcur'[q] \in {rcur[q], NoEntry}
                             /\ rbatch'[q] \subseteq rbatch[q]
  <1>1. /\ wmsg \in [Workers -> Entry \union {NoEntry}]
        /\ rclaim \in [Pools -> Entry \union {NoEntry}]
        /\ rbatch \in [Pools -> SUBSET Claimed]
        /\ rcur \in [Pools -> Entry \union {NoEntry}]
    BY DEF TypeInv, TypeOK, WorkerTypeOK, RecoveryTypeOK
  <1>2. ASSUME NEW w \in Workers, WorkerFaults(w)
        PROVE  UNCHANGED recoveryVars /\ \A v \in Workers : wmsg'[v] \in {wmsg[v], NoEntry}
    BY <1>1, <1>2
    DEF WorkerFaults, WorkerFault, GetRefused, SetRunningRefused, SetFailedRefused, WriteRefused,
        ScheduleZAddRefused, ScheduleDel, DlqRefused, AckRefused, Return
  <1>3. ASSUME NEW p \in Pools, RecoveryFaults(p)
        PROVE  /\ UNCHANGED workerVars
               /\ \A q \in Pools : /\ rclaim'[q] \in {rclaim[q], NoEntry}
                                   /\ rcur'[q] \in {rcur[q], NoEntry}
                                   /\ rbatch'[q] \subseteq rbatch[q]
    BY <1>1, <1>3
    DEF RecoveryFaults, RecoveryFault, ReadRefused, RequeueSetRefused, RequeueXAddRefused,
        RequeueDel, RequeueAckRefused, NextItem
  <1>4. ASSUME NEW s \in Schedulers, SchedulerFaults(s)
        PROVE  UNCHANGED <<workerVars, recoveryVars>>
    BY <1>4 DEF SchedulerFaults, Elsewhere
  <1> QED BY <1>2, <1>3, <1>4 DEF FaultMoves, workerVars, recoveryVars

(***************************************************************************)
(* Types and control.                                                      *)
(***************************************************************************)

\* Initially nothing has been refused.
LEMMA FaultTypeInit == FaultyInit => FaultyTypeInv
  BY SchedulerTypeInit DEF FaultyInit, FaultyTypeInv

\* An error branch leaves a worker, a recovery loop or a scheduler at a command it has
\* the hands for (the error returns of processNextTask, recoverOrphanedTasks and
\* activateTask).
LEMMA FaultType ==
  ASSUME SystemTypeInv, FaultMoves
  PROVE  SystemTypeInv'
  <1> USE NoTaskAssumption, NoTaskInHand, NoEntryAssumption
  <1>1. /\ TypeInv /\ TypeOK /\ SchedulerTypeOK /\ SchedulerControl /\ races \in 0..MaxRaces
        /\ store \in [Tasks -> Record \union {NoTask}]
        /\ WorkerControl /\ RecoveryControl /\ StoppedTogether
    BY DEF SystemTypeInv, TypeInv, TypeOK, RedisTypeOK
  <1>2. races' \in 0..MaxRaces /\ ApiTypeOK' /\ crashes' \in Nat
    BY <1>1, FaultWrites DEF TypeOK, ApiTypeOK, apiVars
  <1>3. RedisTypeOK'
    <2>1. store' \in [Tasks -> Record \union {NoTask}]
      BY <1>1, FaultWrites DEF DelTask
    <2> QED BY <1>1, <2>1, FaultWrites DEF TypeOK, RedisTypeOK, dlqVars
  <1>4. ASSUME NEW w \in Workers, WorkerFaults(w) PROVE SystemTypeInv'
    <2>1. /\ UNCHANGED <<recoveryVars, schedulerVars>>
          /\ wpc \in [Workers -> WorkerPc]
          /\ wmsg \in [Workers -> Entry \union {NoEntry}]
          /\ wrec \in [Workers -> Record \union {NoTask}]
      BY <1>1, <1>4 DEF WorkerFaults, TypeOK, WorkerTypeOK
    <2>2. ASSUME NEW pc \in WorkerPc \ {"idle", "stopped", "set_running", "sched_set"},
                 Goto(w, pc), wmsg' = wmsg, wpc[w] \notin {"idle", "stopped"},
                 wrec' = wrec \/ (\E r \in Record : Hold(w, r)) ,
                 pc = "execute" => wrec' = wrec /\ wpc[w] = "set_running",
                 pc = "dlq_xadd" => \E r \in Record : Hold(w, r)
          PROVE  WorkerTypeOK' /\ WorkerControl' /\ StoppedTogether'
      <3>1. wrec' \in [Workers -> Record \union {NoTask}]
        BY <2>1, <2>2 DEF Hold
      <3>2. WorkerTypeOK'
        BY <2>1, <2>2, <3>1 DEF WorkerTypeOK, Goto
      <3>3. WorkerControl'
        BY <1>1, <2>1, <2>2 DEF WorkerControl, Goto, Hold
      <3>4. StoppedTogether'
        BY <1>1, <2>1, <2>2, CrashAssumption DEF StoppedTogether, Goto, recoveryVars
      <3> QED BY <3>2, <3>3, <3>4
    <2>3. ASSUME Return(w), wpc[w] \notin {"idle", "stopped"}
          PROVE  WorkerTypeOK' /\ WorkerControl' /\ StoppedTogether'
      <3>1. WorkerTypeOK' /\ WorkerControl'
        BY <1>1, <2>1, <2>3 DEF WorkerTypeOK, WorkerControl, Return, WorkerPc
      <3>2. StoppedTogether'
        BY <1>1, <2>1, <2>3, CrashAssumption DEF StoppedTogether, Return, recoveryVars
      <3> QED BY <3>1, <3>2
    <2>4. WorkerTypeOK' /\ WorkerControl' /\ StoppedTogether'
      <3>1. CASE GetRefused(w) \/ ScheduleZAddRefused(w) \/ DlqRefused(w)
        BY <2>2, <3>1
        DEF GetRefused, ScheduleZAddRefused, DlqRefused, At, WorkerPc
      <3>2. CASE SetRunningRefused(w)
        BY <2>2, <3>2 DEF SetRunningRefused, At, WorkerPc
      <3>3. CASE SetFailedRefused(w)
        <4>1. wrec[w] \in Record /\ wmsg[w] \in Entry
          BY <1>1, <2>1, <3>3 DEF SetFailedRefused, HandlerReturns, At, WorkerControl
        <4>2. Fail(wrec[w]) \in Record
          BY <4>1, RecordOps
        <4> QED BY <2>2, <3>3, <4>2 DEF SetFailedRefused, HandlerReturns, At, WorkerPc
      <3>4. CASE WriteRefused(w) \/ ScheduleDel(w) \/ AckRefused(w)
        BY <2>3, <3>4 DEF WriteRefused, ScheduleDel, AckRefused, HandlerReturns, At
      <3> QED BY <1>4, <3>1, <3>2, <3>3, <3>4 DEF WorkerFaults, WorkerFault
    <2>5. RecoveryTypeOK' /\ RecoveryControl' /\ SchedulerTypeOK' /\ SchedulerControl'
      BY <1>1, <2>1
      DEF TypeOK, RecoveryTypeOK, RecoveryControl, SchedulerTypeOK, SchedulerControl,
          recoveryVars, schedulerVars
    <2> QED BY <1>2, <1>3, <2>4, <2>5 DEF SystemTypeInv, TypeInv, TypeOK
  <1>5. ASSUME NEW p \in Pools, RecoveryFaults(p) PROVE SystemTypeInv'
    <2>1. /\ UNCHANGED <<slow, workerVars, schedulerVars>>
          /\ rpc \in [Pools -> RecoveryPc] /\ slow \in Nat
          /\ rclaim \in [Pools -> Entry \union {NoEntry}]
          /\ rbatch \in [Pools -> SUBSET Claimed]
          /\ rcur \in [Pools -> Entry \union {NoEntry}]
      BY <1>1, <1>5 DEF RecoveryFaults, TypeOK, RecoveryTypeOK
    <2>2. /\ rpc[p] # "stopped"
          /\ \E pc \in {"scan", "requeue", "del"} : rpc' = [rpc EXCEPT ![p] = pc]
          /\ RecoveryTypeOK' /\ RecoveryControl'
      BY <1>1, <1>5, <2>1
      DEF RecoveryFaults, RecoveryFault, ReadRefused, RequeueSetRefused, RequeueXAddRefused,
          RequeueDel, RequeueAckRefused, NextItem, AfterItem, RecoveryTypeOK, RecoveryControl,
          RecoveryPc
    <2>3. WorkerTypeOK' /\ WorkerControl' /\ SchedulerTypeOK' /\ SchedulerControl'
      BY <1>1, <2>1
      DEF TypeOK, WorkerTypeOK, WorkerControl, SchedulerTypeOK, SchedulerControl, workerVars,
          schedulerVars
    <2>4. StoppedTogether'
      BY <1>1, <2>1, <2>2, CrashAssumption DEF StoppedTogether, workerVars
    <2> QED BY <1>2, <1>3, <2>2, <2>3, <2>4 DEF SystemTypeInv, TypeInv, TypeOK
  <1>6. ASSUME NEW s \in Schedulers, SchedulerFaults(s) PROVE SystemTypeInv'
    <2>1. UNCHANGED <<workerVars, recoveryVars>>
      BY <1>6 DEF SchedulerFaults, Elsewhere
    <2>2. /\ WorkerTypeOK' /\ WorkerControl' /\ RecoveryTypeOK' /\ RecoveryControl'
          /\ StoppedTogether'
      BY <1>1, <2>1
      DEF TypeOK, WorkerTypeOK, WorkerControl, RecoveryTypeOK, RecoveryControl, StoppedTogether,
          workerVars, recoveryVars
    <2>3. SchedulerTypeOK' /\ SchedulerControl'
      <3>1. ASSUME NEW t \in Tasks, DueGetRefused(s, t)
            PROVE  SchedulerTypeOK' /\ SchedulerControl'
        BY <1>1, <3>1
        DEF DueGetRefused, SchedGoto, SchedulerTypeOK, SchedulerControl, SchedulerPc
      <3>2. CASE DueWriteRefused(s)
        BY <1>1, <3>2
        DEF DueWriteRefused, SchedGoto, SchedulerTypeOK, SchedulerControl, SchedulerPc
      <3> QED BY <1>6, <3>1, <3>2 DEF SchedulerFaults, SchedulerFault
    <2> QED BY <1>2, <1>3, <2>2, <2>3 DEF SystemTypeInv, TypeInv, TypeOK
  <1> QED BY <1>4, <1>5, <1>6 DEF FaultMoves

\* Types are kept, with and without refusals.
LEMMA FaultTypeStep ==
  ASSUME FaultyTypeInv, [FaultyNext]_faultyVars
  PROVE  FaultyTypeInv'
  BY FaultyCases, SystemTypeStep, FaultType, FaultWrites DEF FaultyTypeInv

(***************************************************************************)
(* The lock and the hands.                                                 *)
(***************************************************************************)

\* A refusal neither starts nor ends a batch.
LEMMA FaultLock ==
  ASSUME SystemTypeInv, LockInv, FaultMoves
  PROVE  LockInv'
  <1>1. spc \in [Schedulers -> SchedulerPc] /\ UNCHANGED <<lock, expiries>>
    BY FaultWrites DEF SystemTypeInv, SchedulerTypeOK
  <1>2. CASE spc' = spc
    BY <1>1, <1>2 DEF LockInv, SchedulerExclusion
  <1>3. ASSUME NEW s \in Schedulers, SchedulerFaults(s) PROVE LockInv'
    <2>1. spc[s] # "idle" /\ \E pc : spc' = [spc EXCEPT ![s] = pc]
      BY <1>3 DEF SchedulerFaults, SchedulerFault, DueGetRefused, DueWriteRefused, SchedGoto
    <2> QED BY <1>1, <2>1 DEF LockInv, SchedulerExclusion
  <1> QED
    BY <1>2, <1>3 DEF FaultMoves, WorkerFaults, RecoveryFaults, schedulerVars

\* Who lets go of an entry after a refusal leaves it pending, for recovery to find.
LEMMA FaultHolding ==
  ASSUME TypeInv, HoldingInv, FaultMoves
  PROVE  HoldingInv'
  <1>1. pel \in SUBSET Entry /\ UNCHANGED <<stream, pel, lastId>>
    BY FaultWrites DEF TypeInv, TypeOK, RedisTypeOK
  <1>2. /\ \A w \in Workers : wmsg'[w] \in {wmsg[w], NoEntry}
        /\ \A q \in Pools : /\ rclaim'[q] \in {rclaim[q], NoEntry}
                            /\ rcur'[q] \in {rcur[q], NoEntry}
                            /\ rbatch'[q] \subseteq rbatch[q]
    BY FaultHands
  <1>3. EntriesInv' /\ HeldIsPending'
    BY <1>1, <1>2 DEF HoldingInv, EntriesInv, HeldIsPending
  <1>4. HeldOnce'
    <2>1. \A q \in Pools, e \in pel : RecoveryHolds(q, e)' => RecoveryHolds(q, e)
      BY <1>1, <1>2, NoEntryAssumption DEF RecoveryHolds, InBatch
    <2>2. \A w \in Workers, q \in Pools :
            wmsg'[w] # NoEntry => ~ RecoveryHolds(q, wmsg[w])'
      BY <1>2 DEF HoldingInv, HeldOnce, RecoveryHolds, InBatch
    <2>3. \A q, r \in Pools : \A e \in pel' :
            RecoveryHolds(q, e)' /\ RecoveryHolds(r, e)' => q = r
      BY <1>1, <2>1 DEF HoldingInv, HeldOnce
    <2>4. \A q \in Pools :
            /\ rclaim'[q] # NoEntry => rclaim'[q] # rcur'[q] /\ ~ InBatch(q, rclaim[q])'
            /\ rcur'[q] # NoEntry => ~ InBatch(q, rcur[q])'
            /\ \A c, d \in rbatch'[q] : c.entry = d.entry => c = d
      BY <1>2 DEF HoldingInv, HeldOnce, InBatch
    <2>5. \A v, w \in Workers : wmsg'[v] = wmsg'[w] => v = w \/ wmsg'[w] = NoEntry
      BY <1>2 DEF HoldingInv, HeldOnce
    <2> QED BY <1>2, <2>2, <2>3, <2>4, <2>5 DEF HeldOnce
  <1> QED BY <1>3, <1>4 DEF HoldingInv

(***************************************************************************)
(* NewsInv: what is written and deleted has been created.                  *)
(***************************************************************************)

\* What NewsInv says of one task.
NewsOf(t) ==
  /\ cpc[t] # "created" => Unheard(t)
  /\ cpc[t] = "xadd" => store[t].state \in {"pending", "canceled"}
  /\ cpc[t] = "zadd" => store[t].state \in {"scheduled", "canceled"}

\* A step that leaves tasks alone nobody has heard of.
LEMMA NewsFrame ==
  ASSUME NEW t \in Tasks, NewsOf(t), cpc'[t] = cpc[t],
         cpc[t] # "created" => store'[t] = store[t] /\ Unheard(t)'
  PROVE  NewsOf(t)'
  BY DEF NewsOf

\* What is in a hand or a batch has been created.
LEMMA HeardOf ==
  ASSUME SystemTypeInv, HoldingInv, NewsInv
  PROVE  /\ \A e \in stream \union pel : cpc[e.task] = "created"
         /\ \A w \in Workers : wmsg[w] # NoEntry => cpc[task(w)] = "created"
         /\ \A p \in Pools : rcur[p] # NoEntry => cpc[rcur[p].task] = "created"
         /\ \A p \in Pools : \A b \in rbatch[p] : cpc[b.entry.task] = "created"
         /\ \A t \in zset : cpc[t] = "created"
         /\ \A s \in Schedulers : \A t \in sbatch[s] : cpc[t] = "created"
         /\ \A s \in Schedulers : scur[s] # NoTask => cpc[scur[s]] = "created"
  <1>1. stream \in SUBSET Entry /\ pel \in SUBSET Entry /\ zset \in SUBSET Tasks
    BY DEF SystemTypeInv, TypeInv, TypeOK, RedisTypeOK
  <1>2. sbatch \in [Schedulers -> SUBSET Tasks] /\ SchedulerControl
    BY DEF SystemTypeInv, SchedulerTypeOK
  <1>3. \A e \in stream \union pel : cpc[e.task] = "created"
    BY <1>1 DEF NewsInv, Unheard, EntryOf, Entry
  <1>4. \A t \in zset : cpc[t] = "created"
    BY <1>1 DEF NewsInv, Unheard
  <1>5. \A s \in Schedulers : \A t \in sbatch[s] : cpc[t] = "created"
    BY <1>2 DEF NewsInv, Unheard
  <1>6. \A s \in Schedulers : scur[s] # NoTask => cpc[scur[s]] = "created"
    BY <1>2, <1>5 DEF SchedulerControl
  <1> QED BY <1>3, <1>4, <1>5, <1>6 DEF HoldingInv, HeldIsPending, task

\* Workers, recovery loops and crashes deal with tasks that have been created.
LEMMA NewsPools ==
  ASSUME SystemTypeInv, HoldingInv, NewsInv, UNCHANGED schedulerVars,
         \/ \E w \in Workers : WorkerNext(w)
         \/ \E p \in Pools : RecoveryNext(p) \/ Crash(p) \/ Restart(p)
  PROVE  NewsInv'
  <1>1. /\ TypeInv /\ WorkerControl /\ RecoveryControl
        /\ store \in [Tasks -> Record \union {NoTask}]
    BY DEF SystemTypeInv, TypeInv, TypeOK, RedisTypeOK
  <1>2. UNCHANGED <<cpc, sbatch>>
    BY <1>1, StoreKept DEF apiVars, schedulerVars
  <1>3. SUFFICES ASSUME NEW t \in Tasks, cpc[t] # "created"
                 PROVE  store'[t] = store[t] /\ Unheard(t)'
    BY <1>2, NewsFrame DEF NewsInv, NewsOf
  <1>4. Unheard(t)
    BY <1>3 DEF NewsInv
  <1>5. ASSUME store'[t] = store[t], t \in zset' => t \in zset,
               EntryOf(t, stream \union pel)' => EntryOf(t, stream \union pel)
        PROVE  store'[t] = store[t] /\ Unheard(t)'
    BY <1>2, <1>4, <1>5 DEF Unheard
  <1>6. ASSUME NEW w \in Workers, WorkerNext(w)
        PROVE  store'[t] = store[t] /\ Unheard(t)'
    <2>1. store'[t] = store[t]
      BY <1>1, <1>3, <1>6, WorkerWrites, HeardOf DEF SetTask
    <2>2. t \in zset' => t \in zset
      <3>1. CASE ScheduleZAdd(w)
        BY <1>1, <1>3, <3>1, HeardOf DEF ScheduleZAdd, At, WorkerControl
      <3> QED
        BY <1>6, <3>1
        DEF WorkerNext, WorkerStep, Dequeue, GetMissing, Drop, StartRefused, StartTask,
            SetRunning, SetCompleted, SetRetrying, SetFailed, FinishWith, ScheduleSet, DlqXAdd,
            DlqSAdd, Acknowledge, redisVars
    <2>3. (stream \union pel)' \subseteq stream \union pel
      BY <1>6
      DEF WorkerNext, WorkerStep, Dequeue, XReadGroup, Heads, GetMissing, Drop, XAck,
          StartRefused, StartTask, SetRunning, SetCompleted, SetRetrying, SetFailed, FinishWith,
          ScheduleSet, ScheduleZAdd, DlqXAdd, DlqSAdd, Acknowledge, redisVars
    <2> QED BY <1>5, <2>1, <2>2, <2>3 DEF EntryOf
  <1>7. ASSUME NEW p \in Pools, RecoveryNext(p)
        PROVE  store'[t] = store[t] /\ Unheard(t)'
    <2>1. CASE RequeueSet(p)
      <3>1. PICK b \in rbatch[p] :
              SetTask(b.entry.task, PrepareForRequeue(b.rec, MaxRetries[b.entry.task]))
        BY <2>1 DEF RequeueSet
      <3>2. t # b.entry.task
        BY <1>3, HeardOf
      <3>3. store'[t] = store[t] /\ UNCHANGED <<stream, pel, zset>>
        BY <1>1, <2>1, <3>1, <3>2 DEF SetTask, RequeueSet
      <3> QED BY <1>5, <3>3 DEF EntryOf
    <2>2. CASE RequeueXAdd(p)
      <3>1. t # rcur[p].task /\ UNCHANGED <<store, pel, zset>> /\ XAddTask(rcur[p].task)
        BY <1>1, <1>3, <2>2, HeardOf DEF RequeueXAdd, RecoveryControl
      <3> QED BY <1>5, <3>1 DEF EntryOf, XAddTask
    <2>3. CASE RequeueAck(p)
      BY <1>5, <2>3 DEF RequeueAck, XAck, EntryOf
    <2>4. CASE UNCHANGED redisVars
      BY <1>5, <2>4 DEF redisVars, EntryOf
    <2> QED
      BY <1>7, <2>1, <2>2, <2>3, <2>4 DEF RecoveryNext, RecoveryStep, Claim, ReadMissing, ReadClaimed
  <1>8. ASSUME NEW p \in Pools, Crash(p) \/ Restart(p)
        PROVE  store'[t] = store[t] /\ Unheard(t)'
    BY <1>5, <1>8 DEF Crash, Restart, redisVars, EntryOf
  <1> QED BY <1>6, <1>7, <1>8

\* A scheduler deals with members of the sorted set.
LEMMA NewsScheduler ==
  ASSUME SystemTypeInv, HoldingInv, NewsInv, SchedulerMoves
  PROVE  NewsInv'
  <1>1. /\ store \in [Tasks -> Record \union {NoTask}]
        /\ sbatch \in [Schedulers -> SUBSET Tasks]
        /\ SchedulerControl
    BY DEF SystemTypeInv, TypeInv, TypeOK, RedisTypeOK, SchedulerTypeOK
  <1>2. UNCHANGED <<pel, cpc>>
    BY SchedulerWrites DEF apiVars
  <1>3. SUFFICES ASSUME NEW t \in Tasks, cpc[t] # "created"
                 PROVE  store'[t] = store[t] /\ Unheard(t)'
    BY <1>2, NewsFrame DEF NewsInv, NewsOf
  <1>4. Unheard(t)
    BY <1>3 DEF NewsInv
  <1>5. CASE LockExpires
    BY <1>4, <1>5 DEF LockExpires, redisVars, Unheard, EntryOf
  <1>6. ASSUME NEW s \in Schedulers, SchedulerStep(s) \/ SchedulerCrash(s)
        PROVE  store'[t] = store[t] /\ Unheard(t)'
    <2>1. CASE ActivateSet(s)
      <3>1. scur[s] # t /\ SetTask(scur[s], srec[s]) /\ UNCHANGED <<stream, zset, sbatch>>
        BY <1>1, <1>3, <2>1, HeardOf DEF ActivateSet, SchedulerControl
      <3> QED BY <1>1, <1>2, <1>4, <3>1 DEF SetTask, Unheard, EntryOf
    <2>2. CASE ActivateXAdd(s)
      <3>1. scur[s] # t /\ XAddTask(scur[s]) /\ UNCHANGED <<store, zset, sbatch>>
        BY <1>1, <1>3, <2>2, HeardOf DEF ActivateXAdd, SchedulerControl
      <3> QED BY <1>2, <1>4, <3>1 DEF XAddTask, Unheard, EntryOf
    <2>3. ASSUME NEW due \in SUBSET zset, ReadDue(s, due)
          PROVE  store'[t] = store[t] /\ Unheard(t)'
      BY <1>1, <1>2, <1>4, <2>3 DEF ReadDue, redisVars, Unheard, EntryOf
    <2>4. CASE ActivateZRem(s) \/ SchedulerCrash(s)
      BY <1>1, <1>2, <1>4, <2>4
      DEF ActivateZRem, SchedulerCrash, redisVars, Unheard, EntryOf
    <2>5. CASE UNCHANGED <<redisVars, sbatch>>
      BY <1>4, <2>5 DEF redisVars, Unheard, EntryOf
    <2> QED
      BY <1>6, <2>1, <2>2, <2>3, <2>4, <2>5
      DEF SchedulerStep, TakeLock, ReadWaiting, Unlock
  <1> QED BY <1>5, <1>6 DEF SchedulerMoves

\* A creation writes the record its branch needs, and is finished when the task becomes
\* known (Create, Enqueue, ScheduleTaskFunc).
LEMMA NewsApi ==
  ASSUME SystemTypeInv, RequestInv, NewsInv, UNCHANGED schedulerVars, NEW x \in Tasks, ApiNext(x)
  PROVE  NewsInv'
  <1>1. /\ store \in [Tasks -> Record \union {NoTask}]
        /\ cpc \in [Tasks -> CreatePc]
    BY DEF SystemTypeInv, TypeInv, TypeOK, RedisTypeOK, ApiTypeOK
  <1>2. UNCHANGED <<pel, sbatch>>
    BY DEF ApiNext, ApiStep, Submit, EnqueueSet, EnqueueXAdd, CreateScheduledSet,
           CreateScheduledZAdd, AbortCreate, CancelRead, CancelSet, Expire, redisVars,
           schedulerVars
  <1>3. SUFFICES ASSUME NEW t \in Tasks PROVE NewsOf(t)'
    BY DEF NewsInv, NewsOf
  <1>4. NewsOf(t)
    BY DEF NewsInv, NewsOf
  <1>5. CASE t # x
    <2>1. /\ store'[t] = store[t] /\ cpc'[t] = cpc[t]
          /\ t \in zset' <=> t \in zset
          /\ stream' = stream \/ XAddTask(x)
      BY <1>1, <1>5
      DEF ApiNext, ApiStep, Submit, EnqueueSet, EnqueueXAdd, CreateScheduledSet,
          CreateScheduledZAdd, AbortCreate, CancelRead, CancelSet, Expire, redisVars,
          SetTask, DelTask
    <2> QED BY <1>2, <1>4, <1>5, <2>1 DEF NewsOf, Unheard, EntryOf, XAddTask
  <1>6. CASE t = x
    <2>1. CASE EnqueueXAdd(t) \/ CreateScheduledZAdd(t)
      BY <1>1, <2>1 DEF EnqueueXAdd, CreateScheduledZAdd, NewsOf
    <2>2. CASE EnqueueSet(t) \/ CreateScheduledSet(t)
      <3>1. /\ UNCHANGED <<stream, zset>> /\ cpc[t] # "created"
            /\ \/ cpc'[t] = "xadd" /\ store'[t].state = "pending"
               \/ cpc'[t] = "zadd" /\ store'[t].state = "scheduled"
        BY <1>1, <2>2 DEF EnqueueSet, CreateScheduledSet, SetTask, NewRecord
      <3> QED BY <1>2, <1>4, <3>1 DEF NewsOf, Unheard, EntryOf
    <2>3. CASE CancelSet(t)
      <3>1. /\ UNCHANGED <<stream, zset, cpc>>
            /\ store'[t].state = "canceled"
        BY <1>1, <2>3 DEF CancelSet, SetTask, RequestInv
      <3> QED BY <1>2, <1>4, <3>1 DEF NewsOf, Unheard, EntryOf
    <2>4. CASE Expire(t)
      BY <2>4 DEF Expire, RequestInv, NewsOf
    <2>5. CASE Submit(t) \/ AbortCreate(t)
      <3>1. UNCHANGED <<stream, zset>> /\ cpc'[t] \notin {"xadd", "zadd"} /\ cpc[t] # "created"
        BY <1>1, <2>5 DEF Submit, AbortCreate, redisVars
      <3> QED BY <1>2, <1>4, <3>1 DEF NewsOf, Unheard, EntryOf
    <2>6. CASE CancelRead(t)
      BY <1>2, <1>4, <2>6 DEF CancelRead, redisVars, NewsOf, Unheard, EntryOf
    <2> QED BY <1>6, <2>1, <2>2, <2>3, <2>4, <2>5, <2>6 DEF ApiNext, ApiStep
  <1> QED BY <1>5, <1>6

\* The cleanup deletions are of tasks that have been created.
LEMMA FaultNews ==
  ASSUME SystemTypeInv, HoldingInv, RequestInv, NewsInv, FaultMoves
  PROVE  NewsInv' /\ RequestInv'
  <1>1. /\ WorkerControl /\ RecoveryControl
        /\ store \in [Tasks -> Record \union {NoTask}]
        /\ sbatch \in [Schedulers -> SUBSET Tasks]
    BY DEF SystemTypeInv, TypeInv, TypeOK, RedisTypeOK, SchedulerTypeOK
  <1>2. UNCHANGED <<stream, pel, zset, cpc, krec, accepted>>
    BY FaultWrites DEF apiVars
  <1>3. \A s \in Schedulers : sbatch'[s] \subseteq sbatch[s]
    <2>1. ASSUME NEW r \in Schedulers, SchedulerFaults(r)
          PROVE  \A s \in Schedulers : sbatch'[s] \subseteq sbatch[s]
      BY <1>1, <2>1 DEF SchedulerFaults, SchedulerFault, DueGetRefused, DueWriteRefused
    <2> QED BY <2>1 DEF FaultMoves, WorkerFaults, RecoveryFaults, schedulerVars
  <1>4. \A t \in Tasks : cpc[t] # "created" => store'[t] = store[t]
    <2> SUFFICES ASSUME NEW t \in Tasks, cpc[t] # "created" PROVE store'[t] = store[t]
      OBVIOUS
    <2>1. \A w \in Workers : At(w, "sched_del") => task(w) # t
      BY <1>1, HeardOf DEF At, WorkerControl
    <2>2. \A p \in Pools : rpc[p] = "del" => rcur[p].task # t
      BY <1>1, HeardOf DEF RecoveryControl
    <2> QED BY <1>1, <2>1, <2>2, FaultWrites DEF DelTask
  <1>5. NewsInv'
    <2> SUFFICES ASSUME NEW t \in Tasks PROVE NewsOf(t)'
      BY DEF NewsInv, NewsOf
    <2>1. cpc[t] # "created" => Unheard(t)'
      BY <1>2, <1>3 DEF NewsInv, Unheard, EntryOf
    <2>2. NewsOf(t)
      BY DEF NewsInv, NewsOf
    <2> QED BY <1>2, <1>4, <2>1, <2>2, NewsFrame
  <1>6. RequestInv'
    BY <1>2, <1>4 DEF RequestInv, Exists
  <1> QED BY <1>5, <1>6

(***************************************************************************)
(* DeadLetterInv: the order of XADD and SADD in DLQ.Add, and of DLQ.Add    *)
(* and XACK.                                                               *)
(***************************************************************************)

\* What DeadLetterInv says of one worker.
DeadLetterOf(w) ==
  /\ At(w, "sched_zadd") => wrec[w].state = "retrying"
  /\ At(w, "dlq_sadd") => EntryOf(task(w), dlq)
  /\ At(w, "ack") =>
       \/ wrec[w].state \in {"completed", "retrying"}
       \/ EntryOf(task(w), dlq)
       \/ "dlq" \in refused

\* A worker that stays where it is, or goes to none of the three commands.
LEMMA DeadLetterFrame ==
  ASSUME dlq \subseteq dlq', refused \subseteq refused', NEW w \in Workers, DeadLetterOf(w),
         \/ wpc'[w] = wpc[w] /\ wmsg'[w] = wmsg[w] /\ wrec'[w] = wrec[w]
         \/ wpc'[w] \notin {"sched_zadd", "dlq_sadd", "ack"}
  PROVE  DeadLetterOf(w)'
  BY DEF DeadLetterOf, At, EntryOf, task

\* Without refusals a worker comes to its XACK from a completed run, from the sorted
\* set or from DLQ.Add (handleTaskSuccess, handleTaskFailure).
LEMMA DeadLetterStep ==
  ASSUME SystemTypeInv, DeadLetterInv, [SystemNext]_systemVars, refused' = refused
  PROVE  DeadLetterInv'
  <1>1. /\ TypeInv
        /\ dlq \in SUBSET Entry /\ dlqSet \in SUBSET Tasks /\ lastDlq \in Nat
        /\ wpc \in [Workers -> WorkerPc]
        /\ wmsg \in [Workers -> Entry \union {NoEntry}]
        /\ wrec \in [Workers -> Record \union {NoTask}]
        /\ WorkerControl
    BY DEF SystemTypeInv, TypeInv, TypeOK, RedisTypeOK, WorkerTypeOK
  <1>2. LookupIsSound /\ \A w \in Workers : DeadLetterOf(w)
    BY DEF DeadLetterInv, DeadLetterOf
  <1>3. ASSUME LookupIsSound', \A w \in Workers : DeadLetterOf(w)' PROVE DeadLetterInv'
    BY <1>3 DEF DeadLetterInv, DeadLetterOf
  <1>4. ASSUME dlq \subseteq dlq', dlqSet' = dlqSet PROVE LookupIsSound'
    BY <1>2, <1>4 DEF LookupIsSound, EntryOf
  <1>5. CASE UNCHANGED <<dlqVars, workerVars>>
    BY <1>2, <1>3, <1>4, <1>5, DeadLetterFrame DEF dlqVars, workerVars
  <1>6. ASSUME NEW w \in Workers, WorkerNext(w) PROVE DeadLetterInv'
    <2>1. /\ \A v \in Workers \ {w} : /\ wpc'[v] = wpc[v] /\ wmsg'[v] = wmsg[v]
                                      /\ wrec'[v] = wrec[v]
          /\ dlq \subseteq dlq'
      BY <1>1, <1>6
      DEF WorkerNext, WorkerStep, Dequeue, GetMissing, Drop, StartRefused, StartTask,
          SetRunning, SetCompleted, SetRetrying, SetFailed, FinishWith, ScheduleSet,
          ScheduleZAdd, DlqXAdd, XAddDlq, DlqSAdd, Acknowledge, Return, Hold, Goto, redisVars,
          dlqVars
    <2>2. SUFFICES LookupIsSound' /\ DeadLetterOf(w)'
      BY <1>2, <1>3, <2>1, DeadLetterFrame
    <2>3. CASE SetCompleted(w)
      <3>1. wrec[w] \in Record /\ wrec[w].state = "running" /\ wmsg[w] \in Entry
        BY <1>1, <2>3 DEF SetCompleted, HandlerReturns, At, WorkerControl
      <3>2. wrec'[w].state = "completed" /\ wpc'[w] = "ack" /\ UNCHANGED dlqVars
        BY <1>1, <2>3, <3>1, RecordStates DEF SetCompleted, FinishWith, Hold, Goto
      <3> QED BY <1>4, <3>2 DEF DeadLetterOf, At, dlqVars
    <2>4. CASE ScheduleSet(w)
      <3>1. wrec'[w].state = "retrying" /\ wpc'[w] = "sched_zadd" /\ UNCHANGED dlqVars
        BY <1>1, <2>4 DEF ScheduleSet, At, Goto, WorkerControl
      <3> QED BY <1>4, <3>1 DEF DeadLetterOf, At, dlqVars
    <2>5. CASE ScheduleZAdd(w)
      <3>1. wrec'[w].state = "retrying" /\ wpc'[w] = "ack" /\ UNCHANGED dlqVars
        BY <1>1, <1>2, <2>5 DEF ScheduleZAdd, At, Goto, DeadLetterOf
      <3> QED BY <1>4, <3>1 DEF DeadLetterOf, At, dlqVars
    <2>6. CASE DlqXAdd(w)
      <3>1. /\ [id |-> lastDlq + 1, task |-> task(w)] \in dlq'
            /\ wmsg' = wmsg /\ wpc'[w] = "dlq_sadd" /\ dlqSet' = dlqSet
        BY <1>1, <2>6 DEF DlqXAdd, XAddDlq, Goto
      <3>2. EntryOf(task(w), dlq)'
        BY <3>1 DEF EntryOf, task
      <3> QED BY <1>4, <2>1, <3>1, <3>2 DEF DeadLetterOf, At
    <2>7. CASE DlqSAdd(w)
      <3>1. /\ dlqSet' = dlqSet \union {task(w)} /\ dlq' = dlq
            /\ wmsg' = wmsg /\ wpc'[w] = "ack" /\ EntryOf(task(w), dlq)
        BY <1>1, <1>2, <2>7 DEF DlqSAdd, At, Goto, DeadLetterOf
      <3>2. LookupIsSound'
        BY <1>2, <3>1 DEF LookupIsSound, EntryOf
      <3>3. DeadLetterOf(w)'
        BY <3>1 DEF DeadLetterOf, At, EntryOf, task
      <3> QED BY <3>2, <3>3
    <2>8. CASE /\ UNCHANGED dlqVars
               /\ \E pc \in WorkerPc \ {"sched_zadd", "dlq_sadd", "ack"} : wpc'[w] = pc
      <3>1. wpc'[w] \notin {"sched_zadd", "dlq_sadd", "ack"}
        BY <2>8
      <3> QED BY <1>2, <1>4, <2>1, <2>8, <3>1, DeadLetterFrame DEF dlqVars
    <2> QED
      BY <1>1, <1>6, <2>3, <2>4, <2>5, <2>6, <2>7, <2>8
      DEF WorkerNext, WorkerStep, Dequeue, GetMissing, Drop, StartRefused, StartTask,
          SetRunning, SetRetrying, SetFailed, FinishWith, Acknowledge, Return, Goto, redisVars,
          WorkerPc
  <1>7. ASSUME NEW p \in Pools, Crash(p) \/ Restart(p) PROVE DeadLetterInv'
    <2>1. ASSUME NEW w \in Workers
          PROVE  \/ wpc'[w] = wpc[w] /\ wmsg'[w] = wmsg[w] /\ wrec'[w] = wrec[w]
                 \/ wpc'[w] \notin {"sched_zadd", "dlq_sadd", "ack"}
      BY <1>7 DEF Crash, Restart, SetPool
    <2>2. UNCHANGED dlqVars
      BY <1>7 DEF Crash, Restart, redisVars
    <2> QED BY <1>2, <1>3, <1>4, <2>1, <2>2, DeadLetterFrame DEF dlqVars
  <1>8. ASSUME NEW p \in Pools, RecoveryNext(p) PROVE DeadLetterInv'
    BY <1>5, <1>8
    DEF RecoveryNext, RecoveryStep, Claim, ReadMissing, ReadClaimed, RequeueSet, RequeueXAdd,
        RequeueAck, redisVars
  <1>9. ASSUME NEW t \in Tasks, ApiNext(t) PROVE DeadLetterInv'
    BY <1>5, <1>9
    DEF ApiNext, ApiStep, Submit, EnqueueSet, EnqueueXAdd, CreateScheduledSet,
        CreateScheduledZAdd, AbortCreate, CancelRead, CancelSet, Expire, redisVars
  <1>10. CASE SchedulerMoves
    BY <1>5, <1>10
    DEF SchedulerMoves, SchedulerStep, SchedulerCrash, LockExpires, TakeLock, ReadDue,
        ReadWaiting, ActivateSet, ActivateXAdd, ActivateZRem, Unlock, redisVars, Elsewhere
  <1>11. CASE UNCHANGED systemVars
    BY <1>5, <1>11 DEF systemVars, vars, redisVars
  <1> QED
    BY <1>6, <1>7, <1>8, <1>9, <1>10, <1>11
    DEF SystemNext, SystemWorkerNext, SystemPoolNext, SystemApiNext, SchedulerNext,
        SchedulerMoves

\* A refused command of DLQ.Add is remembered, and no other refusal leads to the XACK
\* or to the lookup set (handleTaskFailure: the error of Add is only logged).
LEMMA FaultDeadLetter ==
  ASSUME SystemTypeInv, DeadLetterInv, FaultMoves
  PROVE  DeadLetterInv'
  <1>1. /\ wpc \in [Workers -> WorkerPc]
        /\ wmsg \in [Workers -> Entry \union {NoEntry}]
        /\ wrec \in [Workers -> Record \union {NoTask}]
    BY DEF SystemTypeInv, TypeInv, TypeOK, WorkerTypeOK
  <1>2. UNCHANGED dlqVars /\ refused \subseteq refused'
    BY FaultWrites
  <1>3. LookupIsSound' /\ \A w \in Workers : DeadLetterOf(w)
    BY <1>2 DEF DeadLetterInv, DeadLetterOf, LookupIsSound, EntryOf, dlqVars
  <1>4. SUFFICES ASSUME NEW w \in Workers PROVE DeadLetterOf(w)'
    BY <1>3 DEF DeadLetterInv, DeadLetterOf
  <1>5. CASE UNCHANGED workerVars
    BY <1>2, <1>3, <1>5, DeadLetterFrame DEF workerVars, dlqVars
  <1>6. ASSUME NEW v \in Workers, WorkerFaults(v) PROVE DeadLetterOf(w)'
    <2>1. CASE DlqRefused(v)
      <3>1. "dlq" \in refused' /\ wpc' = [wpc EXCEPT ![v] = "ack"] /\ UNCHANGED <<wmsg, wrec>>
        BY <2>1 DEF DlqRefused, Refuse, Goto
      <3>2. CASE w = v
        BY <1>1, <3>1, <3>2 DEF DeadLetterOf, At
      <3>3. CASE w # v
        BY <1>1, <1>2, <1>3, <3>1, <3>3, DeadLetterFrame DEF dlqVars
      <3> QED BY <3>2, <3>3
    <2>2. CASE ~ DlqRefused(v)
      <3>1. \/ wpc'[w] = wpc[w] /\ wmsg'[w] = wmsg[w] /\ wrec'[w] = wrec[w]
            \/ wpc'[w] \notin {"sched_zadd", "dlq_sadd", "ack"}
        BY <1>1, <1>6, <2>2
        DEF WorkerFaults, WorkerFault, GetRefused, SetRunningRefused, SetFailedRefused,
            WriteRefused, ScheduleZAddRefused, ScheduleDel, AckRefused, Return, Goto, Hold
      <3> QED BY <1>2, <1>3, <3>1, DeadLetterFrame DEF dlqVars
    <2> QED BY <2>1, <2>2
  <1> QED
    BY <1>5, <1>6 DEF FaultMoves, RecoveryFaults, SchedulerFaults, Elsewhere

(***************************************************************************)
(* KeptInv: the entry or the member that goes with the record of an        *)
(* accepted task, as long as only SET, ZREM and XACK commands have been    *)
(* refused and no scheduler was disturbed.                                 *)
(***************************************************************************)

\* The entry is in nobody's hands or in those of a worker at one of these commands, and
\* no recovery loop has replaced it.
Loose(e, pcs) ==
  /\ \A w \in Workers : wmsg[w] = e => wpc[w] \in pcs
  /\ \A p \in Pools : ~ RecoverySpent(p, e)

\* Where a worker may be that carries a task that is retrying.
Unscheduled == Unsettled \union {"sched_set", "sched_zadd"}

\* No scheduler is past making the task pending.
NotActivated(t) == t \in zset /\ \A s \in Schedulers : scur[s] = t => spc[s] = "set"

\* An entry is not spent by a worker that goes on to a command before its next record.
LEMMA LooseFrame ==
  ASSUME refused \subseteq refused', NEW e,
         \A w \in Workers : wmsg'[w] = e =>
           (wmsg[w] = e /\ wpc'[w] = wpc[w]) \/ wpc'[w] \in Unsettled',
         \A p \in Pools : RecoverySpent(p, e)' => RecoverySpent(p, e)
  PROVE  /\ Loose(e, Unsettled) => Loose(e, Unsettled)'
         /\ Loose(e, Unscheduled) => Loose(e, Unscheduled)'
  <1>1. Unsettled \subseteq Unsettled' /\ Unscheduled \subseteq Unscheduled'
    BY DEF Unsettled, Unscheduled
  <1>2. Unsettled' \subseteq Unscheduled'
    BY DEF Unscheduled
  <1>3. ASSUME Loose(e, Unsettled) PROVE Loose(e, Unsettled)'
    BY <1>1, <1>3 DEF Loose
  <1>4. ASSUME Loose(e, Unscheduled) PROVE Loose(e, Unscheduled)'
    BY <1>1, <1>2, <1>4 DEF Loose
  <1> QED BY <1>3, <1>4

\* The four ways in which a task is kept.
LEMMA KeptCases ==
  ASSUME NEW t
  PROVE  IsKept(t) <=>
           /\ Exists(t)
           /\ \/ Settled(t)
              \/ "set" \in refused /\ EntryOf(t, dlq)
              \/ /\ store[t].state \in {"pending", "running"}
                 /\ \/ \E e \in stream \union pel : e.task = t /\ Loose(e, Unsettled)
                    \/ t \in OnHand("xadd")
              \/ /\ store[t].state = "retrying"
                 /\ \/ \E e \in stream \union pel : e.task = t /\ Loose(e, Unscheduled)
                    \/ t \in zset \ OnHand("zrem")
              \/ store[t].state = "scheduled" /\ NotActivated(t)
  BY DEF IsKept, EntryAt, Loose, Unscheduled, NotActivated

\* A step that leaves the record alone and neither spends an entry that carries the task
\* nor takes the member that does.
LEMMA KeptFrame ==
  ASSUME NEW t, IsKept(t), store'[t] = store[t], refused \subseteq refused', dlq \subseteq dlq',
         \A e \in stream \union pel :
           e.task = t =>
             /\ Loose(e, Unsettled) => e \in (stream \union pel)' /\ Loose(e, Unsettled)'
             /\ Loose(e, Unscheduled) => e \in (stream \union pel)' /\ Loose(e, Unscheduled)',
         t \in OnHand("xadd") => t \in OnHand("xadd")',
         t \in zset \ OnHand("zrem") => t \in (zset \ OnHand("zrem"))',
         NotActivated(t) => NotActivated(t)'
  PROVE  IsKept(t)'
  <1>1. Exists(t)' /\ (Settled(t) => Settled(t)')
    BY DEF IsKept, Exists, Settled
  <1>2. EntryOf(t, dlq) => EntryOf(t, dlq)'
    BY DEF EntryOf
  <1>3. ASSUME NEW e \in stream \union pel, e.task = t, Loose(e, Unsettled)
        PROVE  \E f \in (stream \union pel)' : f.task = t /\ Loose(f, Unsettled)'
    BY <1>3
  <1>4. ASSUME NEW e \in stream \union pel, e.task = t, Loose(e, Unscheduled)
        PROVE  \E f \in (stream \union pel)' : f.task = t /\ Loose(f, Unscheduled)'
    BY <1>4
  <1>5. SUFFICES /\ Exists(t)'
                 /\ \/ Settled(t)'
                    \/ "set" \in refused' /\ EntryOf(t, dlq)'
                    \/ /\ store'[t].state \in {"pending", "running"}
                       /\ \/ \E e \in (stream \union pel)' : e.task = t /\ Loose(e, Unsettled)'
                          \/ t \in OnHand("xadd")'
                    \/ /\ store'[t].state = "retrying"
                       /\ \/ \E e \in (stream \union pel)' : e.task = t /\ Loose(e, Unscheduled)'
                          \/ t \in (zset \ OnHand("zrem"))'
                    \/ store'[t].state = "scheduled" /\ NotActivated(t)'
    BY DEF IsKept, EntryAt, Loose, Unscheduled, NotActivated
  <1>6. CASE Settled(t) \/ ("set" \in refused /\ EntryOf(t, dlq))
    BY <1>1, <1>2, <1>6
  <1>7. CASE /\ store[t].state \in {"pending", "running"}
             /\ \/ \E e \in stream \union pel : e.task = t /\ Loose(e, Unsettled)
                \/ t \in OnHand("xadd")
    BY <1>1, <1>3, <1>7
  <1>8. CASE /\ store[t].state = "retrying"
             /\ \/ \E e \in stream \union pel : e.task = t /\ Loose(e, Unscheduled)
                \/ t \in zset \ OnHand("zrem")
    BY <1>1, <1>4, <1>8
  <1>9. CASE store[t].state = "scheduled" /\ NotActivated(t)
    BY <1>1, <1>9
  <1> QED BY <1>6, <1>7, <1>8, <1>9, KeptCases

\* A step that writes the record of t and leaves the carrier the new record needs.
LEMMA KeptByWrite ==
  ASSUME NEW t, Exists(t)',
         \/ Settled(t)'
         \/ "set" \in refused' /\ EntryOf(t, dlq)'
         \/ /\ store'[t].state \in {"pending", "running"}
            /\ \/ \E e \in (stream \union pel)' : e.task = t /\ Loose(e, Unsettled)'
               \/ t \in OnHand("xadd")'
         \/ /\ store'[t].state = "retrying"
            /\ \/ \E e \in (stream \union pel)' : e.task = t /\ Loose(e, Unscheduled)'
               \/ t \in (zset \ OnHand("zrem"))'
         \/ store'[t].state = "scheduled" /\ NotActivated(t)'
  PROVE  IsKept(t)'
  BY DEF IsKept, EntryAt, Loose, Unscheduled, NotActivated

\* A new entry of the task, in nobody's hands, carries it whatever its record says,
\* except that a scheduled task keeps its member.
LEMMA KeptByEntry ==
  ASSUME NEW t, IsKept(t), store'[t] = store[t], refused \subseteq refused', dlq \subseteq dlq',
         NEW n \in (stream \union pel)', n.task = t, Loose(n, {})',
         NotActivated(t) => NotActivated(t)'
  PROVE  IsKept(t)'
  <1>1. Exists(t)' /\ (Settled(t) => Settled(t)')
    BY DEF IsKept, Exists, Settled
  <1>2. EntryOf(t, dlq) => EntryOf(t, dlq)'
    BY DEF EntryOf
  <1>3. Loose(n, Unsettled)' /\ Loose(n, Unscheduled)'
    BY DEF Loose
  <1>4. \/ Settled(t) \/ ("set" \in refused /\ EntryOf(t, dlq))
        \/ store[t].state \in {"pending", "running"}
        \/ store[t].state = "retrying"
        \/ store[t].state = "scheduled" /\ NotActivated(t)
    BY KeptCases
  <1> QED BY <1>1, <1>2, <1>3, <1>4, KeptByWrite

\* KeptFrame beside idle schedulers.
LEMMA KeptBeside ==
  ASSUME NEW t, IsKept(t), store'[t] = store[t], refused \subseteq refused', dlq \subseteq dlq',
         UNCHANGED <<spc, scur>>, zset \subseteq zset',
         \A e \in stream \union pel :
           e.task = t =>
             /\ Loose(e, Unsettled) => e \in (stream \union pel)' /\ Loose(e, Unsettled)'
             /\ Loose(e, Unscheduled) => e \in (stream \union pel)' /\ Loose(e, Unscheduled)'
  PROVE  IsKept(t)'
  <1>1. OnHand("xadd")' = OnHand("xadd") /\ OnHand("zrem")' = OnHand("zrem")
    BY DEF OnHand
  <1>2. NotActivated(t) => NotActivated(t)'
    BY DEF NotActivated
  <1> QED BY <1>1, <1>2, KeptFrame

\* A worker settles its entry by the record, the member or the dead letter it has
\* written before (handleTaskSuccess, handleTaskFailure).
LEMMA KeptWorker ==
  ASSUME SystemTypeInv, HoldingInv, KeptInv, NEW w \in Workers, WorkerNext(w),
         UNCHANGED schedulerVars, ~ Overtakes(w), refused' = refused
  PROVE  KeptInv'
  <1> USE NoTaskAssumption, NoEntryAssumption
  <1>1. /\ TypeInv
        /\ store \in [Tasks -> Record \union {NoTask}]
        /\ stream \in SUBSET Entry /\ pel \in SUBSET Entry
        /\ wpc \in [Workers -> WorkerPc]
        /\ wmsg \in [Workers -> Entry \union {NoEntry}]
        /\ wrec \in [Workers -> Record \union {NoTask}]
        /\ accepted \in SUBSET Tasks
        /\ WorkerControl
    BY DEF SystemTypeInv, TypeInv, TypeOK, RedisTypeOK, WorkerTypeOK, ApiTypeOK
  <1>2. /\ accepted' = accepted /\ UNCHANGED <<rpc, rcur, spc, scur, sbatch>>
        /\ \A p \in Pools : \A e : RecoverySpent(p, e)' <=> RecoverySpent(p, e)
    BY DEF WorkerNext, apiVars, recoveryVars, schedulerVars, RecoverySpent
  <1>3. zset \subseteq zset' /\ dlq \subseteq dlq'
    BY DEF WorkerNext, WorkerStep, Dequeue, GetMissing, Drop, StartRefused, StartTask,
       SetRunning, SetCompleted, SetRetrying, SetFailed, FinishWith, ScheduleSet, ScheduleZAdd,
       DlqXAdd, XAddDlq, DlqSAdd, Acknowledge, redisVars, dlqVars
  <1>4. \A t \in accepted : IsKept(t) /\ Exists(t)
    BY DEF KeptInv, IsKept
  <1>5. \A v \in Workers :
          /\ wpc'[v] # "sched_del"
          /\ wpc'[v] = "drop" => wmsg'[v].task \notin accepted
    <2>1. \A v \in Workers \ {w} : wpc'[v] = wpc[v] /\ wmsg'[v] = wmsg[v]
      BY <1>1
      DEF WorkerNext, WorkerStep, Dequeue, GetMissing, Drop, StartRefused, StartTask,
          SetRunning, SetCompleted, SetRetrying, SetFailed, FinishWith, ScheduleSet,
          ScheduleZAdd, DlqXAdd, DlqSAdd, Acknowledge, Return, Goto
    <2>2. wpc'[w] # "sched_del"
      BY <1>1
      DEF WorkerNext, WorkerStep, Dequeue, GetMissing, Drop, StartRefused, StartTask,
          SetRunning, SetCompleted, SetRetrying, SetFailed, FinishWith, ScheduleSet,
          ScheduleZAdd, DlqXAdd, DlqSAdd, Acknowledge, Return, Goto
    <2>3. wpc'[w] = "drop" => wmsg'[w].task \notin accepted
      <3>1. CASE GetMissing(w)
        BY <1>4, <3>1 DEF GetMissing, task
      <3>2. CASE ~ GetMissing(w)
        BY <1>1, <3>2
        DEF WorkerNext, WorkerStep, Dequeue, Drop, StartRefused, StartTask, SetRunning,
            SetCompleted, SetRetrying, SetFailed, FinishWith, ScheduleSet, ScheduleZAdd, DlqXAdd,
            DlqSAdd, Acknowledge, Return, Goto
      <3> QED BY <3>1, <3>2
    <2> QED BY <2>1, <2>2, <2>3 DEF KeptInv, At, task
  <1>6. SUFFICES ASSUME NEW t \in accepted PROVE IsKept(t)'
    <2>1. \A t \in accepted' : IsKept(t)'
      BY <1>2, <1>6
    <2> QED BY <1>2, <1>3, <1>5, <2>1 DEF KeptInv, At, task
  <1>7. t \in Tasks /\ IsKept(t) /\ Exists(t)
    BY <1>1, <1>4
  <1>8. ASSUME store'[t] = store[t],
               \A e \in stream \union pel :
                 e.task = t =>
                   /\ Loose(e, Unsettled) => e \in (stream \union pel)' /\ Loose(e, Unsettled)'
                   /\ Loose(e, Unscheduled) =>
                        e \in (stream \union pel)' /\ Loose(e, Unscheduled)'
        PROVE  IsKept(t)'
    BY <1>2, <1>3, <1>7, <1>8, KeptBeside
  \* A worker that moves on with its entry, or lets go of one nobody acknowledges.
  <1>9. ASSUME NEW e, wmsg'[w] = e => wpc'[w] \in Unsettled',
               \A v \in Workers \ {w} : wpc'[v] = wpc[v] /\ wmsg'[v] = wmsg[v]
        PROVE  /\ Loose(e, Unsettled) => Loose(e, Unsettled)'
               /\ Loose(e, Unscheduled) => Loose(e, Unscheduled)'
    BY <1>2, <1>9, LooseFrame
  <1>10. wmsg[w] # NoEntry =>
           wmsg[w] \in pel /\ \A v \in Workers : wmsg[v] = wmsg[w] => v = w
    BY DEF HoldingInv, HeldIsPending, HeldOnce
  <1>11. wmsg[w] # NoEntry => \A p \in Pools : ~ RecoverySpent(p, wmsg[w])
    BY DEF HoldingInv, HeldOnce, RecoveryHolds, RecoverySpent
  <1>12. CASE Dequeue(w)
    <2>1. /\ store' = store
          /\ (stream \union pel)' = stream \union pel
          /\ wpc' = [wpc EXCEPT ![w] = "get"]
          /\ \E f : wmsg' = [wmsg EXCEPT ![w] = f]
      BY <1>12 DEF Dequeue, XReadGroup, Heads, Goto
    <2>2. wpc'[w] \in Unsettled'
      BY <1>1, <2>1 DEF Unsettled
    <2> QED BY <1>8, <1>9, <2>1, <2>2
  <1>13. CASE StartRefused(w) \/ StartTask(w)
    <2>1. /\ UNCHANGED redisVars
          /\ \/ wpc' = [wpc EXCEPT ![w] = "idle"] /\ wmsg' = [wmsg EXCEPT ![w] = NoEntry]
             \/ wpc' = [wpc EXCEPT ![w] = "set_running"] /\ wmsg' = wmsg
      BY <1>13 DEF StartRefused, StartTask, Return, Goto
    <2>2. ASSUME NEW e \in stream \union pel
          PROVE  /\ wmsg'[w] = e => wpc'[w] \in Unsettled'
                 /\ \A v \in Workers \ {w} : wpc'[v] = wpc[v] /\ wmsg'[v] = wmsg[v]
      BY <1>1, <2>1 DEF Unsettled
    <2> QED BY <1>8, <1>9, <2>1, <2>2 DEF redisVars
  <1>14. CASE GetMissing(w) \/ Drop(w)
    <2>1. /\ task(w) # t
          /\ UNCHANGED <<store, stream>>
          /\ pel' = pel \/ pel' = pel \ {wmsg[w]}
          /\ wmsg' = wmsg \/ wmsg' = [wmsg EXCEPT ![w] = NoEntry]
          /\ \E pc : wpc' = [wpc EXCEPT ![w] = pc]
      BY <1>7, <1>14 DEF GetMissing, Drop, XAck, Return, Goto, KeptInv, redisVars
    <2>2. ASSUME NEW e \in stream \union pel, e.task = t
          PROVE  /\ e \in (stream \union pel)'
                 /\ wmsg'[w] # e
                 /\ \A v \in Workers \ {w} : wpc'[v] = wpc[v] /\ wmsg'[v] = wmsg[v]
      BY <1>1, <2>1, <2>2 DEF task
    <2> QED BY <1>8, <1>9, <2>1, <2>2
  <1>15. CASE SetRunning(w) \/ SetRetrying(w) \/ ScheduleSet(w)
    <2>1. PICK r, pc :
            /\ UNCHANGED <<stream, pel, wmsg>> /\ wmsg[w] # NoEntry
            /\ wpc' = [wpc EXCEPT ![w] = pc]
            /\ SetTask(task(w), r)
            /\ r \in Record
            /\ \/ r.state = "running" /\ pc = "execute"
               \/ r.state = "retrying" /\ pc \in {"sched_set", "sched_zadd"}
      <3>1. CASE SetRunning(w) \/ ScheduleSet(w)
        <4>1. wrec[w] \in Record /\ wmsg[w] # NoEntry
          BY <1>1, <3>1 DEF SetRunning, ScheduleSet, At, WorkerControl
        <4> QED BY <1>1, <3>1, <4>1 DEF SetRunning, ScheduleSet, At, WorkerControl, Goto
      <3>2. CASE SetRetrying(w)
        <4>1. wrec[w] \in Record /\ wrec[w].state = "running" /\ wmsg[w] \in Entry
              /\ CanRetry(wrec[w], MaxRetries[task(w)])
          BY <1>1, <3>2 DEF SetRetrying, HandlerReturns, At, WorkerControl
        <4>2. MaxRetries[task(w)] \in Nat
          BY <4>1, MaxRetriesAssumption DEF task, Entry
        <4>3. Fail(wrec[w]) \in Record
          BY <4>1, RecordOps
        <4>4. /\ ScheduleRetry(Fail(wrec[w]), MaxRetries[task(w)]) \in Record
              /\ ScheduleRetry(Fail(wrec[w]), MaxRetries[task(w)]).state = "retrying"
          BY <4>1, <4>2, <4>3, RecordOps, RecordStates
        <4> QED BY <3>2, <4>1, <4>4 DEF SetRetrying, FinishWith, Goto
      <3> QED BY <1>15, <3>1, <3>2
    <2>2. CASE t = task(w)
      <3>1. store'[t] = r /\ Exists(t)'
        BY <1>1, <1>7, <2>1, <2>2 DEF SetTask, Exists
      <3>2. wmsg[w] \in (stream \union pel)' /\ wmsg[w].task = t
        BY <1>10, <2>1, <2>2 DEF task
      <3>3. /\ r.state = "running" => Loose(wmsg[w], Unsettled)'
            /\ r.state = "retrying" => Loose(wmsg[w], Unscheduled)'
        BY <1>1, <1>2, <1>10, <1>11, <2>1 DEF Loose, Unsettled, Unscheduled
      <3> QED BY <2>1, <3>1, <3>2, <3>3, KeptByWrite
    <2>3. CASE t # task(w)
      <3>1. store'[t] = store[t]
        BY <1>1, <1>7, <2>1, <2>3 DEF SetTask
      <3>2. ASSUME NEW e \in stream \union pel, e.task = t
            PROVE  /\ wmsg'[w] # e
                   /\ \A v \in Workers \ {w} : wpc'[v] = wpc[v] /\ wmsg'[v] = wmsg[v]
        BY <1>1, <2>1, <2>3, <3>2 DEF task
      <3> QED BY <1>8, <1>9, <2>1, <3>1, <3>2
    <2> QED BY <2>2, <2>3
  <1>16. CASE SetCompleted(w) \/ SetFailed(w)
    <2>1. wrec[w] \in Record /\ wrec[w].state = "running"
      BY <1>1, <1>16 DEF HandlerReturns, SetCompleted, SetFailed, At, WorkerControl
    <2>2. PICK r, pc : /\ UNCHANGED <<stream, pel, wmsg>>
                       /\ wpc' = [wpc EXCEPT ![w] = pc]
                       /\ SetTask(task(w), r)
                       /\ r \in Record
                       /\ IsFinal(r.state)
      BY <1>16, <2>1, RecordStates, RecordOps
      DEF SetCompleted, SetFailed, FinishWith, IsFinal, Goto
    <2>3. CASE t = task(w)
      <3>1. store'[t] = r
        BY <1>1, <1>7, <2>2, <2>3 DEF SetTask
      <3>2. Exists(t)' /\ Settled(t)'
        BY <2>2, <3>1 DEF Exists, Settled
      <3> QED BY <3>2, KeptByWrite
    <2>4. CASE t # task(w)
      <3>1. store'[t] = store[t]
        BY <1>1, <1>7, <2>2, <2>4 DEF SetTask
      <3>2. ASSUME NEW e \in stream \union pel, e.task = t
            PROVE  /\ wmsg'[w] # e
                   /\ \A v \in Workers \ {w} : wpc'[v] = wpc[v] /\ wmsg'[v] = wmsg[v]
        BY <1>1, <2>2, <2>4, <3>2 DEF task
      <3> QED BY <1>8, <1>9, <2>2, <3>1, <3>2
    <2> QED BY <2>3, <2>4
  \* From here on the worker's entry carries the task no longer, if it did before.
  <1>17. CASE ScheduleZAdd(w)
    <2>1. /\ UNCHANGED <<store, stream, pel, wmsg, dlq>>
          /\ wpc[w] = "sched_zadd" /\ wpc' = [wpc EXCEPT ![w] = "ack"]
          /\ zset' = zset \union {task(w)}
      BY <1>17 DEF ScheduleZAdd, At, Goto, dlqVars
    <2>2. ASSUME NEW e \in stream \union pel, wmsg[w] # e
          PROVE  /\ Loose(e, Unsettled) => Loose(e, Unsettled)'
                 /\ Loose(e, Unscheduled) => Loose(e, Unscheduled)'
      BY <1>1, <1>9, <2>1, <2>2
    <2>3. CASE t # task(w)
      <3>1. \A e \in stream \union pel : e.task = t => wmsg[w] # e
        BY <2>3 DEF task
      <3> QED BY <1>8, <2>1, <2>2, <3>1
    <2>4. CASE t = task(w)
      <3>1. ~ Loose(wmsg[w], Unsettled)
        BY <2>1 DEF Loose, Unsettled
      <3>2. t \notin OnHand("zrem")
        BY <2>1, <2>4 DEF Overtakes, OnHand, At
      <3>3. t \in (zset \ OnHand("zrem"))'
        BY <1>2, <2>1, <2>4, <3>2 DEF OnHand
      <3>4. Exists(t)' /\ (Settled(t) => Settled(t)') /\ (EntryOf(t, dlq) => EntryOf(t, dlq)')
        BY <1>7, <2>1 DEF Exists, Settled, EntryOf
      <3>5. NotActivated(t) => NotActivated(t)'
        BY <1>2, <1>3 DEF NotActivated
      <3>6. (\E e \in stream \union pel : e.task = t /\ Loose(e, Unsettled)) =>
              \E e \in (stream \union pel)' : e.task = t /\ Loose(e, Unsettled)'
        BY <2>1, <2>2, <3>1
      <3>7. OnHand("xadd")' = OnHand("xadd")
        BY <1>2 DEF OnHand
      <3>8. \/ Settled(t)
            \/ "set" \in refused /\ EntryOf(t, dlq)
            \/ /\ store[t].state \in {"pending", "running"}
               /\ \/ \E e \in stream \union pel : e.task = t /\ Loose(e, Unsettled)
                  \/ t \in OnHand("xadd")
            \/ store[t].state = "retrying"
            \/ store[t].state = "scheduled" /\ NotActivated(t)
        BY <1>7, KeptCases
      <3> QED BY <2>1, <3>3, <3>4, <3>5, <3>6, <3>7, <3>8, KeptByWrite
    <2> QED BY <2>3, <2>4
  <1>18. CASE DlqXAdd(w)
    <2>1. /\ UNCHANGED <<store, stream, pel, wmsg>>
          /\ wpc[w] = "dlq_xadd" /\ wpc' = [wpc EXCEPT ![w] = "dlq_sadd"]
          /\ dlq' = dlq \union {[id |-> lastDlq + 1, task |-> task(w)]}
      BY <1>18 DEF DlqXAdd, XAddDlq, At, Goto
    <2>2. CASE t = task(w) /\ "set" \in refused
      <3>1. EntryOf(t, dlq)'
        <4>1. PICK n : n = [id |-> lastDlq + 1, task |-> task(w)]
          OBVIOUS
        <4>2. n \in dlq' /\ n.task = t
          BY <2>1, <2>2, <4>1
        <4> QED BY <4>2 DEF EntryOf
      <3>2. Exists(t)'
        BY <1>7, <2>1 DEF Exists
      <3> QED BY <2>2, <3>1, <3>2, KeptByWrite
    <2>3. CASE ~ (t = task(w) /\ "set" \in refused)
      <3>1. ASSUME NEW e \in stream \union pel, e.task = t,
                   Loose(e, Unsettled) \/ Loose(e, Unscheduled)
            PROVE  wmsg[w] # e
        BY <2>1, <2>3, <3>1 DEF Loose, Unsettled, Unscheduled, task
      <3>2. ASSUME NEW e \in stream \union pel, wmsg[w] # e
            PROVE  /\ Loose(e, Unsettled) => Loose(e, Unsettled)'
                   /\ Loose(e, Unscheduled) => Loose(e, Unscheduled)'
        BY <1>1, <1>9, <2>1, <3>2
      <3> QED BY <1>8, <2>1, <3>1, <3>2
    <2> QED BY <2>2, <2>3
  <1>19. CASE DlqSAdd(w) \/ Acknowledge(w)
    <2>1. /\ UNCHANGED <<store, stream>>
          /\ wpc[w] \in {"dlq_sadd", "ack"}
          /\ pel' = pel \/ pel' = pel \ {wmsg[w]}
          /\ wmsg' = wmsg \/ wmsg' = [wmsg EXCEPT ![w] = NoEntry]
          /\ \E pc : wpc' = [wpc EXCEPT ![w] = pc]
      BY <1>19 DEF DlqSAdd, Acknowledge, XAck, Return, At, Goto
    <2>2. ASSUME NEW e \in stream \union pel, Loose(e, Unsettled) \/ Loose(e, Unscheduled)
          PROVE  wmsg[w] # e
      BY <2>1, <2>2 DEF Loose, Unsettled, Unscheduled
    <2>3. ASSUME NEW e \in stream \union pel, wmsg[w] # e
          PROVE  /\ e \in (stream \union pel)'
                 /\ wmsg'[w] # e
                 /\ \A v \in Workers \ {w} : wpc'[v] = wpc[v] /\ wmsg'[v] = wmsg[v]
      BY <1>1, <2>1, <2>3
    <2>4. ASSUME NEW e \in stream \union pel, wmsg[w] # e
          PROVE  /\ e \in (stream \union pel)'
                 /\ Loose(e, Unsettled) => Loose(e, Unsettled)'
                 /\ Loose(e, Unscheduled) => Loose(e, Unscheduled)'
      BY <1>9, <2>3, <2>4
    <2> QED BY <1>8, <2>1, <2>2, <2>4
  <1> QED
    BY <1>12, <1>13, <1>14, <1>15, <1>16, <1>17, <1>18, <1>19 DEF WorkerNext, WorkerStep

\* A recovery loop makes the record pending while it holds the entry, and replaces the
\* entry before it acknowledges it (recoverOrphanedTasks, Enqueue).
LEMMA KeptRecovery ==
  ASSUME SystemTypeInv, HoldingInv, KeptInv, NEW p \in Pools, RecoveryNext(p),
         UNCHANGED schedulerVars, refused' = refused
  PROVE  KeptInv'
  <1> USE NoTaskAssumption, NoEntryAssumption
  <1>1. /\ TypeInv
        /\ store \in [Tasks -> Record \union {NoTask}]
        /\ stream \in SUBSET Entry /\ pel \in SUBSET Entry /\ lastId \in Nat
        /\ rpc \in [Pools -> RecoveryPc]
        /\ rcur \in [Pools -> Entry \union {NoEntry}]
        /\ rbatch \in [Pools -> SUBSET Claimed]
        /\ accepted \in SUBSET Tasks
        /\ RecoveryControl
    BY DEF SystemTypeInv, TypeInv, TypeOK, RedisTypeOK, RecoveryTypeOK, ApiTypeOK
  <1>2. accepted' = accepted /\ UNCHANGED <<wpc, wmsg, spc, scur, sbatch, zset, dlq>>
    BY DEF RecoveryNext, RecoveryStep, Claim, ReadMissing, ReadClaimed, RequeueSet,
           RequeueXAdd, RequeueAck, workerVars, apiVars, schedulerVars, redisVars, dlqVars
  <1>3. \A q \in Pools : rpc'[q] # "del"
    BY <1>1
    DEF RecoveryNext, RecoveryStep, Claim, ReadMissing, ReadClaimed, RequeueSet, RequeueXAdd,
        RequeueAck, AfterItem, KeptInv
  <1>4. SUFFICES ASSUME NEW t \in accepted PROVE IsKept(t)'
    <2>1. \A t \in accepted' : IsKept(t)'
      BY <1>2, <1>4
    <2> QED BY <1>2, <1>3, <2>1 DEF KeptInv, At, task
  <1>5. t \in Tasks /\ IsKept(t) /\ Exists(t)
    BY <1>1 DEF KeptInv, IsKept
  <1>6. ASSUME NEW e, \A q \in Pools : RecoverySpent(q, e)' => RecoverySpent(q, e)
        PROVE  /\ Loose(e, Unsettled) => Loose(e, Unsettled)'
               /\ Loose(e, Unscheduled) => Loose(e, Unscheduled)'
    BY <1>2, <1>6, LooseFrame
  <1>7. ASSUME store'[t] = store[t],
               \A e \in stream \union pel :
                 e.task = t =>
                   /\ Loose(e, Unsettled) => e \in (stream \union pel)' /\ Loose(e, Unsettled)'
                   /\ Loose(e, Unscheduled) =>
                        e \in (stream \union pel)' /\ Loose(e, Unscheduled)'
        PROVE  IsKept(t)'
    BY <1>2, <1>5, <1>7, KeptBeside
  <1>8. CASE /\ UNCHANGED <<redisVars, rcur>>
             /\ \E pc \in {"scan", "get"} : rpc' = [rpc EXCEPT ![p] = pc]
    <2>1. \A e : \A q \in Pools : RecoverySpent(q, e)' => RecoverySpent(q, e)
      BY <1>1, <1>8 DEF RecoverySpent
    <2> QED BY <1>6, <1>7, <1>8, <2>1 DEF redisVars
  <1>9. CASE RequeueSet(p)
    <2>1. PICK b \in rbatch[p] :
            /\ SetTask(b.entry.task, PrepareForRequeue(b.rec, MaxRetries[b.entry.task]))
            /\ rcur' = [rcur EXCEPT ![p] = b.entry]
      BY <1>9 DEF RequeueSet
    <2>2. UNCHANGED <<stream, pel>> /\ rpc' = [rpc EXCEPT ![p] = "xadd"]
      BY <1>9 DEF RequeueSet
    <2>3. \A e : \A q \in Pools : RecoverySpent(q, e)' => RecoverySpent(q, e)
      BY <1>1, <2>1, <2>2 DEF RecoverySpent
    <2>4. CASE t # b.entry.task
      <3>1. store'[t] = store[t]
        BY <1>1, <1>5, <2>1, <2>4 DEF SetTask
      <3> QED BY <1>6, <1>7, <2>2, <2>3, <3>1
    <2>5. CASE t = b.entry.task
      <3>1. b.entry \in pel /\ RecoveryHolds(p, b.entry) /\ b.entry # NoEntry
        BY <1>1 DEF HoldingInv, HeldIsPending, RecoveryHolds, InBatch
      <3>2. \A w \in Workers : wmsg[w] # b.entry
        BY <3>1 DEF HoldingInv, HeldOnce
      <3>3. \A q \in Pools : RecoverySpent(q, b.entry) => q = p
        BY <3>1 DEF HoldingInv, HeldOnce, RecoveryHolds, RecoverySpent
      <3>4. ~ RecoverySpent(p, b.entry)
        BY <1>9 DEF RequeueSet, RecoverySpent
      <3>5. Loose(b.entry, Unsettled)'
        BY <1>2, <2>3, <3>2, <3>3, <3>4 DEF Loose
      <3>6. b.rec \in Record /\ MaxRetries[b.entry.task] \in Nat
        BY <1>1, MaxRetriesAssumption DEF Claimed, Entry
      <3>7. /\ PrepareForRequeue(b.rec, MaxRetries[b.entry.task]) \in Record
            /\ PrepareForRequeue(b.rec, MaxRetries[b.entry.task]).state = "pending"
        BY <3>6, RecordOps, RecordStates
      <3>8. Exists(t)' /\ store'[t].state = "pending"
        BY <1>1, <1>5, <2>1, <2>5, <3>7 DEF SetTask, Exists
      <3> QED BY <2>2, <2>5, <3>1, <3>5, <3>8, KeptByWrite
    <2> QED BY <2>4, <2>5
  <1>10. CASE RequeueXAdd(p)
    <2>1. /\ UNCHANGED <<store, pel, rcur>>
          /\ rpc[p] = "xadd"
          /\ rpc' = [rpc EXCEPT ![p] = "ack"]
          /\ XAddTask(rcur[p].task)
          /\ rcur[p] \in Entry
      BY <1>1, <1>10 DEF RequeueXAdd, RecoveryControl
    <2>2. \A e : \A q \in Pools : RecoverySpent(q, e)' => RecoverySpent(q, e) \/ e = rcur[p]
      BY <1>1, <2>1 DEF RecoverySpent
    <2>3. CASE t # rcur[p].task
      <3>1. \A e \in stream \union pel : e.task = t => e # rcur[p] /\ e \in (stream \union pel)'
        BY <2>1, <2>3 DEF XAddTask
      <3> QED BY <1>6, <1>7, <2>1, <2>2, <3>1
    <2>4. CASE t = rcur[p].task
      <3>1. rcur[p] \in pel
        BY <2>1 DEF HoldingInv, HeldIsPending
      <3>2. PICK n \in Entry : n = [id |-> lastId + 1, task |-> t]
        <4>1. [id |-> lastId + 1, task |-> t] \in Entry
          BY <1>1, <1>5 DEF Entry
        <4> QED BY <4>1
      <3>3. n \in (stream \union pel)' /\ n.task = t
        BY <2>1, <2>4, <3>2 DEF XAddTask
      <3>4. n \notin pel /\ n # rcur[p]
        BY <1>1, <3>1, <3>2 DEF HoldingInv, EntriesInv
      <3>5. ~ Held(n)
        BY <3>2, <3>4, NotPendingNotHeld
      <3>6. Loose(n, {})'
        BY <1>2, <2>2, <3>4, <3>5
        DEF Loose, Held, HeldByWorker, RecoveryHolds, RecoverySpent
      <3>7. NotActivated(t) => NotActivated(t)'
        BY <1>2 DEF NotActivated
      <3> QED BY <1>2, <1>5, <2>1, <3>3, <3>6, <3>7, KeptByEntry
    <2> QED BY <2>3, <2>4
  <1>11. CASE RequeueAck(p)
    <2>1. /\ UNCHANGED <<store, stream>>
          /\ rpc[p] = "ack" /\ rpc' = [rpc EXCEPT ![p] = AfterItem(p)]
          /\ rcur' = [rcur EXCEPT ![p] = NoEntry]
          /\ pel' = pel \ {rcur[p]}
      BY <1>11 DEF RequeueAck, XAck
    <2>2. \A e : \A q \in Pools : RecoverySpent(q, e)' => RecoverySpent(q, e)
      BY <1>1, <2>1 DEF RecoverySpent, AfterItem
    <2>3. \A e : Loose(e, Unsettled) \/ Loose(e, Unscheduled) => e # rcur[p]
      BY <2>1 DEF Loose, RecoverySpent
    <2> QED BY <1>6, <1>7, <2>1, <2>2, <2>3
  <1> QED
    BY <1>8, <1>9, <1>10, <1>11
    DEF RecoveryNext, RecoveryStep, Claim, ReadMissing, ReadClaimed

\* A process that dies leaves its entries pending.
LEMMA KeptCrash ==
  ASSUME SystemTypeInv, KeptInv, NEW p \in Pools, Crash(p) \/ Restart(p),
         UNCHANGED schedulerVars, refused' = refused
  PROVE  KeptInv'
  <1> USE NoEntryAssumption
  <1>1. /\ TypeInv
        /\ stream \in SUBSET Entry /\ pel \in SUBSET Entry
        /\ wpc \in [Workers -> WorkerPc]
        /\ wmsg \in [Workers -> Entry \union {NoEntry}]
        /\ rpc \in [Pools -> RecoveryPc]
        /\ rcur \in [Pools -> Entry \union {NoEntry}]
    BY DEF SystemTypeInv, TypeInv, TypeOK, RedisTypeOK, WorkerTypeOK, RecoveryTypeOK
  <1>2. UNCHANGED <<redisVars, accepted, spc, scur, sbatch>>
    BY DEF Crash, Restart, apiVars, schedulerVars
  <1>3. /\ \A w \in Workers : wmsg'[w] # NoEntry => wmsg'[w] = wmsg[w] /\ wpc'[w] = wpc[w]
        /\ \A w \in Workers : wpc'[w] \in {wpc[w], "idle", "stopped"}
        /\ \A q \in Pools : rpc'[q] \in {rpc[q], "scan", "stopped"}
        /\ \A q \in Pools : rpc'[q] = "ack" => rpc[q] = "ack" /\ rcur'[q] = rcur[q]
    BY <1>1, CrashAssumption
    DEF Crash, Restart, SetPool, TypeInv, WorkerControl, StoppedTogether
  <1>4. /\ \A w \in Workers : ~ At(w, "sched_del")' /\ (At(w, "drop") => task(w) \notin accepted)'
        /\ \A q \in Pools : rpc'[q] # "del"
    <2>1. \A w \in Workers : wpc'[w] = "drop" => wmsg'[w] = wmsg[w]
      BY <1>1, CrashAssumption DEF Crash, Restart, SetPool
    <2> QED BY <1>2, <1>3, <2>1 DEF KeptInv, At, task
  <1>5. SUFFICES ASSUME NEW t \in accepted PROVE IsKept(t)'
    <2>1. \A t \in accepted' : IsKept(t)'
      BY <1>2, <1>5
    <2> QED BY <1>2, <1>4, <2>1 DEF KeptInv, redisVars
  <1>6. ASSUME NEW e \in stream \union pel
        PROVE  /\ Loose(e, Unsettled) => Loose(e, Unsettled)'
               /\ Loose(e, Unscheduled) => Loose(e, Unscheduled)'
    <2>1. \A q \in Pools : RecoverySpent(q, e)' => RecoverySpent(q, e)
      BY <1>3 DEF RecoverySpent
    <2>2. e # NoEntry
      BY <1>1
    <2> QED BY <1>2, <1>3, <2>1, <2>2, LooseFrame
  <1>7. IsKept(t)
    BY DEF KeptInv
  <1> QED BY <1>2, <1>6, <1>7, KeptBeside DEF redisVars, dlqVars

\* A creation is answered when its entry or member is there; a cancel request settles
\* its task; an expired record takes its task out of the accepted ones.
LEMMA KeptApi ==
  ASSUME SystemTypeInv, HoldingInv, RequestInv, NewsInv, KeptInv, NEW x \in Tasks, ApiNext(x),
         UNCHANGED schedulerVars, refused' = refused
  PROVE  KeptInv'
  <1> USE NoTaskAssumption, NoTaskInHand, NoEntryAssumption
  <1>1. /\ TypeInv
        /\ store \in [Tasks -> Record \union {NoTask}]
        /\ stream \in SUBSET Entry /\ pel \in SUBSET Entry /\ lastId \in Nat
        /\ krec \in [Tasks -> Record \union {NoTask}]
        /\ accepted \in SUBSET Tasks
        /\ SchedulerControl /\ WorkerControl
    BY DEF SystemTypeInv, TypeInv, TypeOK, RedisTypeOK, ApiTypeOK
  <1>2. /\ UNCHANGED <<pel, wpc, wmsg, rpc, rcur, spc, scur, sbatch, dlq>>
        /\ zset \subseteq zset'
        /\ stream' = stream \/ XAddTask(x)
        /\ accepted' \subseteq accepted \union {x}
    BY DEF ApiNext, ApiStep, Submit, EnqueueSet, EnqueueXAdd, CreateScheduledSet,
           CreateScheduledZAdd, AbortCreate, CancelRead, CancelSet, Expire, redisVars, dlqVars,
           workerVars, recoveryVars, schedulerVars
  <1>3. \A w \in Workers : ~ At(w, "sched_del")' /\ (At(w, "drop") => task(w) \notin accepted)'
    <2>1. ASSUME NEW w \in Workers, wpc[w] = "drop", x \in accepted', x \notin accepted
          PROVE  task(w) # x
      <3>1. cpc[x] # "created"
        BY <2>1
        DEF ApiNext, ApiStep, Submit, EnqueueSet, EnqueueXAdd, CreateScheduledSet,
            CreateScheduledZAdd, AbortCreate, CancelRead, CancelSet, Expire
      <3>2. wmsg[w] # NoEntry
        BY <1>1, <2>1 DEF WorkerControl
      <3> QED BY <3>1, <3>2, HeardOf
    <2> QED BY <1>2, <2>1 DEF KeptInv, At, task
  <1>4. SUFFICES ASSUME NEW t \in Tasks, t \in accepted' PROVE IsKept(t)'
    <2>1. \A t \in accepted' : IsKept(t)'
      BY <1>1, <1>2, <1>4
    <2> QED BY <1>2, <1>3, <2>1 DEF KeptInv
  <1>5. t \in accepted => IsKept(t) /\ cpc[t] = "created"
    BY DEF KeptInv, RequestInv
  <1>6. \A e : Loose(e, Unsettled)' = Loose(e, Unsettled) /\ Loose(e, Unscheduled)' = Loose(e, Unscheduled)
    BY <1>2 DEF Loose, Unsettled, Unscheduled, RecoverySpent
  <1>7. ASSUME t \in accepted, store'[t] = store[t] PROVE IsKept(t)'
    <2>1. stream \subseteq stream'
      BY <1>2 DEF XAddTask
    <2>2. \A e \in stream \union pel :
            e.task = t =>
              /\ Loose(e, Unsettled) => e \in (stream \union pel)' /\ Loose(e, Unsettled)'
              /\ Loose(e, Unscheduled) => e \in (stream \union pel)' /\ Loose(e, Unscheduled)'
      BY <1>2, <1>6, <2>1
    <2> QED BY <1>2, <1>5, <1>7, <2>2, KeptBeside
  <1>8. CASE t # x
    <2>1. store'[t] = store[t] /\ t \in accepted
      BY <1>1, <1>2, <1>4, <1>8
      DEF ApiNext, ApiStep, Submit, EnqueueSet, EnqueueXAdd, CreateScheduledSet,
          CreateScheduledZAdd, AbortCreate, CancelRead, CancelSet, Expire, redisVars,
          SetTask, DelTask
    <2> QED BY <1>7, <2>1
  <1>9. CASE t = x
    <2>1. CASE EnqueueXAdd(t)
      <3>1. store' = store /\ XAddTask(t) /\ Exists(t) /\ store[t].state \in {"pending", "canceled"}
        BY <2>1 DEF EnqueueXAdd, RequestInv, NewsInv
      <3>2. PICK n \in Entry : n = [id |-> lastId + 1, task |-> t]
        <4>1. [id |-> lastId + 1, task |-> t] \in Entry
          BY <1>1 DEF Entry
        <4> QED BY <4>1
      <3>3. n \in (stream \union pel)' /\ n.task = t
        BY <3>1, <3>2 DEF XAddTask
      <3>4. n \notin pel
        BY <1>1, <3>2 DEF HoldingInv, EntriesInv
      <3>5. ~ Held(n)
        BY <3>2, <3>4, NotPendingNotHeld
      <3>6. Loose(n, Unsettled)'
        BY <1>2, <3>5 DEF Loose, Held, HeldByWorker, RecoveryHolds, RecoverySpent
      <3>7. Exists(t)' /\ (store[t].state = "canceled" => Settled(t)')
        BY <3>1 DEF Exists, Settled, IsFinal
      <3> QED BY <3>1, <3>3, <3>6, <3>7, KeptByWrite
    <2>2. CASE CreateScheduledZAdd(t)
      <3>1. /\ store' = store /\ t \in zset' /\ Exists(t) /\ cpc[t] # "created"
            /\ store[t].state \in {"scheduled", "canceled"}
        BY <2>2 DEF CreateScheduledZAdd, RequestInv, NewsInv
      <3>2. \A s \in Schedulers : scur[s] # t
        BY <1>1, <3>1 DEF NewsInv, Unheard, SchedulerControl
      <3>3. NotActivated(t)'
        BY <1>2, <3>1, <3>2 DEF NotActivated
      <3>4. Exists(t)' /\ (store[t].state = "canceled" => Settled(t)')
        BY <3>1 DEF Exists, Settled, IsFinal
      <3> QED BY <3>1, <3>3, <3>4, KeptByWrite
    <2>3. CASE CancelSet(t)
      <3>1. store'[t] = krec[t] /\ krec[t] # NoTask /\ krec[t].state = "canceled"
        BY <1>1, <2>3 DEF CancelSet, SetTask, RequestInv
      <3>2. Exists(t)' /\ Settled(t)'
        BY <3>1 DEF Exists, Settled, IsFinal
      <3> QED BY <3>2, KeptByWrite
    <2>4. CASE Expire(t)
      BY <1>4, <2>4 DEF Expire
    <2>5. CASE EnqueueSet(t) \/ CreateScheduledSet(t)
      BY <1>4, <1>5, <2>5 DEF EnqueueSet, CreateScheduledSet
    <2>6. CASE Submit(t) \/ AbortCreate(t) \/ CancelRead(t)
      BY <1>4, <1>7, <2>6 DEF Submit, AbortCreate, CancelRead, redisVars
    <2> QED BY <1>9, <2>1, <2>2, <2>3, <2>4, <2>5, <2>6 DEF ApiNext, ApiStep
  <1> QED BY <1>8, <1>9

\* A scheduler step with the others idle (SchedulerExclusion) leaves a task alone that
\* the scheduler has not in hand, before or after.
LEMMA KeptByScheduler ==
  ASSUME SchedulerTypeOK, NEW s \in Schedulers, NEW t, IsKept(t),
         UNCHANGED <<pel, dlq, wpc, wmsg, rpc, rcur>>, refused \subseteq refused',
         stream \subseteq stream', store'[t] = store[t], t \in zset' <=> t \in zset,
         \A r \in Schedulers \ {s} : spc'[r] = spc[r] /\ scur'[r] = scur[r],
         \/ scur[s] # t /\ scur'[s] # t
         \/ spc'[s] = spc[s] /\ scur'[s] = scur[s]
  PROVE  IsKept(t)'
  <1>1. /\ t \in OnHand("xadd") => t \in OnHand("xadd")'
        /\ t \in zset \ OnHand("zrem") => t \in (zset \ OnHand("zrem"))'
        /\ NotActivated(t) => NotActivated(t)'
    BY DEF OnHand, NotActivated
  <1>2. \A e : /\ Loose(e, Unsettled) => Loose(e, Unsettled)'
               /\ Loose(e, Unscheduled) => Loose(e, Unscheduled)'
    <2> SUFFICES ASSUME NEW e
                 PROVE  /\ Loose(e, Unsettled) => Loose(e, Unsettled)'
                        /\ Loose(e, Unscheduled) => Loose(e, Unscheduled)'
      OBVIOUS
    <2>1. \A p \in Pools : RecoverySpent(p, e)' => RecoverySpent(p, e)
      BY DEF RecoverySpent
    <2> QED BY <2>1, LooseFrame
  <1> QED BY <1>1, <1>2, KeptFrame

\* The task a scheduler has in hand is pending before it gets an entry, and has the
\* entry before it leaves the sorted set (activateTask).
LEMMA KeptScheduler ==
  ASSUME SystemTypeInv, LockInv, HoldingInv, KeptInv, SchedulerMoves, refused' = refused,
         expiries = 0, schedCrashes = 0, schedCrashes' = 0
  PROVE  KeptInv'
  <1> USE NoTaskAssumption, NoTaskInHand, NoEntryAssumption
  <1>1. /\ store \in [Tasks -> Record \union {NoTask}]
        /\ stream \in SUBSET Entry /\ pel \in SUBSET Entry /\ lastId \in Nat
        /\ zset \in SUBSET Tasks
        /\ spc \in [Schedulers -> SchedulerPc]
        /\ sbatch \in [Schedulers -> SUBSET Tasks]
        /\ srec \in [Schedulers -> Record \union {NoTask}]
        /\ scur \in [Schedulers -> Tasks \union {NoTask}]
        /\ accepted \in SUBSET Tasks
        /\ SchedulerControl /\ SchedulerTypeOK
    BY DEF SystemTypeInv, TypeInv, TypeOK, RedisTypeOK, SchedulerTypeOK, ApiTypeOK
  <1>2. UNCHANGED <<pel, wpc, wmsg, rpc, rcur, accepted>>
    BY SchedulerWrites DEF workerVars, recoveryVars, apiVars
  <1>3. ASSUME \A r \in Schedulers : sbatch'[r] \subseteq zset', \A t \in accepted : IsKept(t)'
        PROVE  KeptInv'
    <2>1. \A t \in accepted' : IsKept(t)'
      BY <1>2, <1>3
    <2> QED BY <1>2, <1>3, <2>1 DEF KeptInv, At, task
  <1>4. /\ \A t \in accepted : IsKept(t) /\ t \in Tasks /\ Exists(t)
        /\ \A r \in Schedulers : sbatch[r] \subseteq zset
    BY <1>1 DEF KeptInv, IsKept
  <1>5. CASE LockExpires
    <2>1. UNCHANGED <<redisVars, spc, scur, sbatch>>
      BY <1>5 DEF LockExpires
    <2>2. ASSUME NEW t \in accepted PROVE IsKept(t)'
      <3>1. IsKept(t)
        BY <1>4
      <3> QED
        BY <1>2, <2>1, <3>1
        DEF IsKept, EntryAt, RecoverySpent, Unsettled, OnHand, Exists, Settled, EntryOf,
            redisVars, dlqVars
    <2> QED BY <1>3, <1>4, <2>1, <2>2 DEF redisVars
  <1>6. ASSUME NEW s \in Schedulers, SchedulerStep(s) PROVE KeptInv'
    <2>1. CASE TakeLock(s) \/ Unlock(s)
      <3>1. /\ UNCHANGED <<redisVars, scur, sbatch>> /\ scur[s] = NoTask
            /\ \A r \in Schedulers \ {s} : spc'[r] = spc[r]
        BY <1>1, <2>1 DEF TakeLock, Unlock, SchedGoto, SchedulerControl
      <3>2. ASSUME NEW t \in accepted PROVE IsKept(t)'
        <4>1. scur[s] # t
          BY <1>4, <3>1
        <4> QED BY <1>1, <1>2, <1>4, <3>1, <4>1, KeptByScheduler DEF redisVars, dlqVars
      <3> QED BY <1>3, <1>4, <3>1, <3>2 DEF redisVars
    <2>2. CASE ~ TakeLock(s)
      <3>1. spc[s] # "idle"
        BY <1>6, <2>2
        DEF SchedulerStep, ReadDue, ReadWaiting, ActivateSet, ActivateXAdd, ActivateZRem, Unlock
      <3>2. \A r \in Schedulers \ {s} : spc[r] = "idle" /\ scur[r] = NoTask /\ sbatch[r] = {}
        BY <1>1, <3>1 DEF LockInv, SchedulerExclusion, SchedulerControl
      <3>3. ASSUME NEW due \in SUBSET zset, ReadDue(s, due) PROVE KeptInv'
        <4>1. /\ UNCHANGED <<redisVars, scur>> /\ scur[s] = NoTask
              /\ sbatch' = [sbatch EXCEPT ![s] = due]
              /\ \A r \in Schedulers \ {s} : spc'[r] = spc[r]
          BY <1>1, <3>3 DEF ReadDue, SchedGoto, SchedulerControl
        <4>2. ASSUME NEW t \in accepted PROVE IsKept(t)'
          <5>1. scur[s] # t
            BY <1>4, <4>1
          <5> QED BY <1>1, <1>2, <1>4, <4>1, <5>1, KeptByScheduler DEF redisVars, dlqVars
        <4>3. \A r \in Schedulers : sbatch'[r] \subseteq zset'
          BY <1>1, <1>4, <4>1 DEF redisVars
        <4> QED BY <1>3, <4>2, <4>3
      <3>4. ASSUME NEW u \in Tasks, ReadWaiting(s, u) PROVE KeptInv'
        <4>1. /\ UNCHANGED <<redisVars, sbatch>> /\ scur[s] = NoTask
              /\ scur' = [scur EXCEPT ![s] = u]
              /\ spc' = [spc EXCEPT ![s] = IF Waiting(u) THEN "set" ELSE "zrem"]
              /\ spc[s] = "next"
          BY <1>1, <3>4 DEF ReadWaiting, SchedGoto, SchedulerControl
        <4>2. \A t \in Tasks : t \in OnHand("xadd") => t \in OnHand("xadd")'
          BY <1>1, <4>1 DEF OnHand
        <4>3. \A e : Loose(e, Unsettled)' = Loose(e, Unsettled)
                     /\ Loose(e, Unscheduled)' = Loose(e, Unscheduled)
          BY <1>2 DEF Loose, Unsettled, Unscheduled, RecoverySpent
        <4>4. ASSUME NEW t \in accepted PROVE IsKept(t)'
          <5>1. CASE t # u
            <6>1. scur[s] # t /\ scur'[s] # t
              BY <1>1, <1>4, <4>1, <5>1
            <6> QED BY <1>1, <1>2, <1>4, <4>1, <5>1, <6>1, KeptByScheduler DEF redisVars, dlqVars
          <5>2. CASE t = u /\ Waiting(u)
            <6>1. t \in zset \ OnHand("zrem") => t \in (zset \ OnHand("zrem"))'
              BY <1>1, <1>4, <3>2, <4>1, <5>2 DEF OnHand, redisVars
            <6>2. NotActivated(t) => NotActivated(t)'
              BY <1>1, <3>2, <4>1, <5>2 DEF NotActivated, redisVars
            <6> QED BY <1>4, <4>1, <4>2, <4>3, <6>1, <6>2, KeptFrame DEF redisVars, dlqVars
          <5>3. CASE t = u /\ ~ Waiting(u)
            <6>1. /\ Exists(t) /\ store[t].state \notin {"scheduled", "retrying"}
                  /\ Exists(t)' /\ (Settled(t) => Settled(t)') /\ store' = store
                  /\ (EntryOf(t, dlq) => EntryOf(t, dlq)')
              BY <1>4, <4>1, <5>3 DEF Waiting, Exists, Settled, EntryOf, redisVars, dlqVars
            <6>2. \/ Settled(t)
                  \/ "set" \in refused /\ EntryOf(t, dlq)
                  \/ /\ store[t].state \in {"pending", "running"}
                     /\ \/ \E e \in stream \union pel : e.task = t /\ Loose(e, Unsettled)
                        \/ t \in OnHand("xadd")
              BY <1>4, <6>1, KeptCases
            <6>3. (\E e \in stream \union pel : e.task = t /\ Loose(e, Unsettled)) =>
                    \E e \in (stream \union pel)' : e.task = t /\ Loose(e, Unsettled)'
              BY <4>1, <4>3 DEF redisVars
            <6>4. t \in OnHand("xadd") => t \in OnHand("xadd")'
              BY <1>4, <4>2
            <6> QED BY <6>1, <6>2, <6>3, <6>4, KeptByWrite
          <5> QED BY <5>1, <5>2, <5>3
        <4> QED BY <1>3, <1>4, <4>1, <4>4 DEF redisVars
      <3>5. CASE ActivateSet(s)
        <4>1. /\ UNCHANGED <<stream, zset, dlqVars, sbatch, scur>>
              /\ spc' = [spc EXCEPT ![s] = "xadd"]
              /\ SetTask(scur[s], srec[s])
              /\ srec[s] \in Record /\ srec[s].state = "pending" /\ scur[s] \in Tasks
          BY <1>1, <3>5 DEF ActivateSet, SchedGoto, SchedulerControl
        <4>2. ASSUME NEW t \in accepted PROVE IsKept(t)'
          <5>1. CASE t = scur[s]
            <6>1. Exists(t)' /\ store'[t].state = "pending"
              BY <1>1, <4>1, <5>1 DEF SetTask, Exists
            <6>2. t \in OnHand("xadd")'
              BY <1>1, <4>1, <5>1 DEF OnHand
            <6> QED BY <6>1, <6>2, KeptByWrite
          <5>2. CASE t # scur[s]
            <6>1. store'[t] = store[t]
              BY <1>1, <1>4, <4>1, <5>2 DEF SetTask
            <6> QED BY <1>1, <1>2, <1>4, <4>1, <5>2, <6>1, KeptByScheduler DEF dlqVars
          <5> QED BY <5>1, <5>2
        <4> QED BY <1>3, <1>4, <4>1, <4>2
      <3>6. CASE ActivateXAdd(s)
        <4>1. /\ UNCHANGED <<store, zset, dlqVars, sbatch, scur>>
              /\ spc[s] = "xadd" /\ spc' = [spc EXCEPT ![s] = "zrem"]
              /\ XAddTask(scur[s]) /\ scur[s] \in Tasks
          BY <1>1, <3>6 DEF ActivateXAdd, SchedGoto, SchedulerControl
        <4>2. PICK n \in Entry : n = [id |-> lastId + 1, task |-> scur[s]]
          <5>1. [id |-> lastId + 1, task |-> scur[s]] \in Entry
            BY <1>1, <4>1 DEF Entry
          <5> QED BY <5>1
        <4>3. n \in (stream \union pel)' /\ n.task = scur[s]
          BY <4>1, <4>2 DEF XAddTask
        <4>4. n \notin pel
          BY <1>1, <4>2 DEF HoldingInv, EntriesInv
        <4>5. ~ Held(n)
          BY <4>2, <4>4, NotPendingNotHeld
        <4>6. Loose(n, {})'
          BY <1>2, <4>5 DEF Loose, Held, HeldByWorker, RecoveryHolds, RecoverySpent
        <4>7. ASSUME NEW t \in accepted PROVE IsKept(t)'
          <5>1. CASE t = scur[s]
            <6>1. ~ NotActivated(t)
              BY <4>1, <5>1 DEF NotActivated
            <6> QED BY <1>4, <4>1, <4>3, <4>6, <5>1, <6>1, KeptByEntry DEF dlqVars
          <5>2. CASE t # scur[s]
            <6>1. stream \subseteq stream'
              BY <4>1 DEF XAddTask
            <6> QED BY <1>1, <1>2, <1>4, <4>1, <5>2, <6>1, KeptByScheduler DEF dlqVars
          <5> QED BY <5>1, <5>2
        <4> QED BY <1>3, <1>4, <4>1, <4>7
      <3>7. CASE ActivateZRem(s)
        <4>1. /\ UNCHANGED <<store, stream, dlqVars>>
              /\ zset' = zset \ {scur[s]}
              /\ sbatch' = [sbatch EXCEPT ![s] = @ \ {scur[s]}]
              /\ scur' = [scur EXCEPT ![s] = NoTask]
              /\ spc[s] = "zrem" /\ \E pc \in {"next", "unlock"} : spc' = [spc EXCEPT ![s] = pc]
          BY <3>7 DEF ActivateZRem, SchedGoto
        <4>2. \A r \in Schedulers : sbatch'[r] \subseteq zset'
          BY <1>1, <1>4, <3>2, <4>1
        <4>3. \A e : Loose(e, Unsettled)' = Loose(e, Unsettled)
                     /\ Loose(e, Unscheduled)' = Loose(e, Unscheduled)
          BY <1>2 DEF Loose, Unsettled, Unscheduled, RecoverySpent
        <4>4. ASSUME NEW t \in accepted PROVE IsKept(t)'
          <5>1. CASE t # scur[s]
            <6>1. scur'[s] # t
              BY <1>1, <1>4, <4>1
            <6> QED BY <1>1, <1>2, <1>4, <4>1, <5>1, <6>1, KeptByScheduler DEF dlqVars
          <5>2. CASE t = scur[s]
            <6>1. t \in OnHand("zrem") /\ ~ NotActivated(t)
              BY <4>1, <5>2 DEF OnHand, NotActivated
            <6>2. t \in OnHand("xadd") => t \in OnHand("xadd")'
              BY <1>1, <4>1 DEF OnHand
            <6> QED BY <1>4, <4>1, <4>3, <1>2, <6>1, <6>2, KeptFrame DEF dlqVars
          <5> QED BY <5>1, <5>2
        <4> QED BY <1>3, <4>2, <4>4
      <3> QED BY <1>6, <2>1, <2>2, <3>3, <3>4, <3>5, <3>6, <3>7 DEF SchedulerStep
    <2> QED BY <2>1, <2>2
  <1>7. ASSUME NEW s \in Schedulers, SchedulerCrash(s) PROVE FALSE
    BY <1>7 DEF SchedulerCrash
  <1> QED BY <1>5, <1>6, <1>7 DEF SchedulerMoves

\* After a refused SET, ZREM or XACK the entry or the member is still there, for the
\* next recovery or the next batch (the error branches of processNextTask,
\* recoverOrphanedTasks and activateTask).
LEMMA FaultKept ==
  ASSUME SystemTypeInv, LockInv, HoldingInv, KeptInv, FaultMoves, expiries = 0,
         refused' \subseteq {"set", "zrem", "ack"}
  PROVE  KeptInv'
  <1> USE NoTaskAssumption, NoTaskInHand, NoEntryAssumption
  <1>1. /\ TypeInv
        /\ stream \in SUBSET Entry /\ pel \in SUBSET Entry /\ zset \in SUBSET Tasks
        /\ wpc \in [Workers -> WorkerPc]
        /\ wmsg \in [Workers -> Entry \union {NoEntry}]
        /\ rpc \in [Pools -> RecoveryPc]
        /\ rcur \in [Pools -> Entry \union {NoEntry}]
        /\ spc \in [Schedulers -> SchedulerPc]
        /\ sbatch \in [Schedulers -> SUBSET Tasks]
        /\ scur \in [Schedulers -> Tasks \union {NoTask}]
        /\ accepted \in SUBSET Tasks
        /\ SchedulerControl /\ SchedulerTypeOK
    BY DEF SystemTypeInv, TypeInv, TypeOK, RedisTypeOK, WorkerTypeOK, RecoveryTypeOK,
           SchedulerTypeOK, ApiTypeOK
  <1>2. /\ UNCHANGED <<stream, pel, zset, dlq, accepted>> /\ refused \subseteq refused'
        /\ store' = store
    BY FaultWrites DEF apiVars, dlqVars, KeptInv
  <1>3. /\ \A t \in accepted : IsKept(t) /\ t \in Tasks
        /\ \A s \in Schedulers : sbatch[s] \subseteq zset
        /\ \A w \in Workers : ~ At(w, "sched_del") /\ (At(w, "drop") => task(w) \notin accepted)
        /\ \A p \in Pools : rpc[p] # "del"
    BY <1>1 DEF KeptInv
  \* Workers and recovery loops.
  <1>4. ASSUME UNCHANGED <<spc, scur, sbatch>>,
               \A e \in stream \union pel :
                 /\ \A w \in Workers : wmsg'[w] = e =>
                      (wmsg[w] = e /\ wpc'[w] = wpc[w]) \/ wpc'[w] \in Unsettled'
                 /\ \A p \in Pools : RecoverySpent(p, e)' => RecoverySpent(p, e),
               \A w \in Workers : ~ At(w, "sched_del")' /\ (At(w, "drop") => task(w) \notin accepted)',
               \A p \in Pools : rpc'[p] # "del"
        PROVE  KeptInv'
    <2>1. ASSUME NEW t \in accepted PROVE IsKept(t)'
      <3>1. ASSUME NEW e \in stream \union pel
            PROVE  /\ Loose(e, Unsettled) => Loose(e, Unsettled)'
                   /\ Loose(e, Unscheduled) => Loose(e, Unscheduled)'
        BY <1>2, <1>4, LooseFrame
      <3> QED BY <1>2, <1>3, <1>4, <3>1, KeptBeside
    <2>2. \A t \in accepted' : IsKept(t)'
      BY <1>2, <2>1
    <2> QED BY <1>2, <1>3, <1>4, <2>2 DEF KeptInv
  <1>5. ASSUME NEW w \in Workers, WorkerFaults(w) PROVE KeptInv'
    <2>1. /\ UNCHANGED <<spc, scur, sbatch, rpc, rcur>>
          /\ \A v \in Workers \ {w} : wpc'[v] = wpc[v] /\ wmsg'[v] = wmsg[v]
          /\ \/ /\ wpc'[w] = "execute" \/ (wpc'[w] = "dlq_xadd" /\ "set" \in refused')
                /\ wmsg'[w] = wmsg[w]
             \/ wpc'[w] = "idle" /\ wmsg'[w] = NoEntry
      <3>1. CASE SetRunningRefused(w) \/ SetFailedRefused(w)
        BY <1>1, <1>5, <3>1
        DEF WorkerFaults, SetRunningRefused, SetFailedRefused, Refuse, Goto, schedulerVars,
            recoveryVars
      <3>2. CASE WriteRefused(w) \/ AckRefused(w) \/ ScheduleDel(w)
        BY <1>1, <1>5, <3>2
        DEF WorkerFaults, WriteRefused, AckRefused, ScheduleDel, Return, schedulerVars,
            recoveryVars
      <3>3. ~ GetRefused(w) /\ ~ ScheduleZAddRefused(w) /\ ~ DlqRefused(w)
        BY DEF GetRefused, ScheduleZAddRefused, DlqRefused, Refuse
      <3> QED BY <1>5, <3>1, <3>2, <3>3 DEF WorkerFaults, WorkerFault
    <2>2. ASSUME NEW e \in stream \union pel
          PROVE  /\ \A v \in Workers : wmsg'[v] = e =>
                      (wmsg[v] = e /\ wpc'[v] = wpc[v]) \/ wpc'[v] \in Unsettled'
                 /\ \A p \in Pools : RecoverySpent(p, e)' => RecoverySpent(p, e)
      BY <1>1, <2>1 DEF Unsettled, RecoverySpent
    <2>3. \A v \in Workers : ~ At(v, "sched_del")' /\ (At(v, "drop") => task(v) \notin accepted)'
      BY <1>2, <1>3, <2>1 DEF At, task
    <2> QED BY <1>3, <1>4, <2>1, <2>2, <2>3
  <1>6. ASSUME NEW p \in Pools, RecoveryFaults(p) PROVE KeptInv'
    <2>1. /\ UNCHANGED <<spc, scur, sbatch, wpc, wmsg>>
          /\ \A q \in Pools : rpc'[q] # "del"
          /\ \A q \in Pools : \A e : RecoverySpent(q, e)' => RecoverySpent(q, e)
      <3>1. CASE RequeueSetRefused(p) \/ RequeueAckRefused(p)
        BY <1>1, <1>3, <1>6, <3>1
        DEF RecoveryFaults, RequeueSetRefused, RequeueAckRefused, NextItem, AfterItem,
            RecoverySpent, schedulerVars, workerVars
      <3>2. ~ ReadRefused(p) /\ ~ RequeueXAddRefused(p)
        BY DEF ReadRefused, RequeueXAddRefused, Refuse
      <3>3. ~ RequeueDel(p)
        BY <1>3 DEF RequeueDel
      <3> QED BY <1>6, <3>1, <3>2, <3>3 DEF RecoveryFaults, RecoveryFault
    <2>2. \A v \in Workers : ~ At(v, "sched_del")' /\ (At(v, "drop") => task(v) \notin accepted)'
      BY <1>2, <1>3, <2>1 DEF At, task
    <2> QED BY <1>4, <2>1, <2>2
  \* Schedulers.
  <1>7. ASSUME NEW s \in Schedulers, SchedulerFaults(s) PROVE KeptInv'
    <2>1. /\ UNCHANGED <<wpc, wmsg, rpc, rcur>>
          /\ spc[s] \in {"set", "zrem"} /\ scur' = [scur EXCEPT ![s] = NoTask]
          /\ sbatch' = [sbatch EXCEPT ![s] = @ \ {scur[s]}]
          /\ \E pc \in {"unlock", "next"} : spc' = [spc EXCEPT ![s] = pc]
      <3>1. \A t \in Tasks : ~ DueGetRefused(s, t)
        BY DEF DueGetRefused, Refuse
      <3>2. DueWriteRefused(s) /\ UNCHANGED <<wpc, wmsg, rpc, rcur>>
        BY <1>7, <3>1
        DEF SchedulerFaults, SchedulerFault, Elsewhere, workerVars, recoveryVars
      <3> QED BY <3>2 DEF DueWriteRefused, Refuse, SchedGoto
    <2>2. \A r \in Schedulers : sbatch'[r] \subseteq zset'
      BY <1>1, <1>2, <1>3, <2>1
    <2>3. ASSUME NEW t \in accepted PROVE IsKept(t)'
      <3>1. CASE t # scur[s]
        <4>1. scur'[s] # t /\ \A r \in Schedulers \ {s} : spc'[r] = spc[r] /\ scur'[r] = scur[r]
          BY <1>1, <1>3, <2>1
        <4> QED BY <1>1, <1>2, <1>3, <2>1, <3>1, <4>1, KeptByScheduler
      <3>2. CASE t = scur[s]
        <4>1. \A r \in Schedulers \ {s} : spc[r] = "idle"
          BY <2>1 DEF LockInv, SchedulerExclusion
        <4>2. /\ t \notin OnHand("xadd")
              /\ t \in zset \ OnHand("zrem") => t \in (zset \ OnHand("zrem"))'
              /\ NotActivated(t) => NotActivated(t)'
          BY <1>1, <1>2, <1>3, <2>1, <4>1 DEF OnHand, NotActivated
        <4>3. ASSUME NEW e
              PROVE  /\ Loose(e, Unsettled) => Loose(e, Unsettled)'
                     /\ Loose(e, Unscheduled) => Loose(e, Unscheduled)'
          <5>1. \A p \in Pools : RecoverySpent(p, e)' => RecoverySpent(p, e)
            BY <2>1 DEF RecoverySpent
          <5> QED BY <1>2, <2>1, <5>1, LooseFrame
        <4> QED BY <1>2, <1>3, <4>2, <4>3, KeptFrame
      <3> QED BY <3>1, <3>2
    <2>4. \A w \in Workers : ~ At(w, "sched_del")' /\ (At(w, "drop") => task(w) \notin accepted)'
      BY <1>2, <1>3, <2>1 DEF At, task
    <2>5. \A t \in accepted' : IsKept(t)'
      BY <1>2, <2>3
    <2> QED BY <1>3, <2>1, <2>2, <2>4, <2>5 DEF KeptInv
  <1> QED BY <1>5, <1>6, <1>7 DEF FaultMoves

(***************************************************************************)
(* The inductive invariant under refusals.                                 *)
(***************************************************************************)

\* Initially nothing exists and nothing has been refused.
LEMMA FaultIInvInit == FaultyInit => FaultIInv
  <1> SUFFICES ASSUME FaultyInit PROVE FaultIInv
    OBVIOUS
  <1>1. FaultyTypeInv /\ HoldingInv /\ RequestInv
    BY FaultTypeInit, HoldingInit, RequestInit DEF FaultyInit, SystemInit
  <1>2. LockInv
    BY DEF FaultyInit, SystemInit, SchedulerInit, LockInv, SchedulerExclusion
  <1>3. DeadLetterInv
    BY DEF FaultyInit, SystemInit, Init, RedisInit, WorkerInit, DeadLetterInv, LookupIsSound, At
  <1>4. NewsInv
    BY DEF FaultyInit, SystemInit, Init, RedisInit, ApiInit, SchedulerInit, NewsInv, Unheard,
           EntryOf
  <1>5. KeptInv
    BY DEF FaultyInit, SystemInit, Init, RedisInit, WorkerInit, RecoveryInit, ApiInit,
           SchedulerInit, KeptInv, At
  <1> QED BY <1>1, <1>2, <1>3, <1>4, <1>5 DEF FaultIInv

\* Nothing that disturbs the service is undone.
LEMMA DisturbancesGrow ==
  ASSUME SystemTypeInv, [SystemNext]_systemVars \/ FaultMoves
  PROVE  /\ slow' = 0 => slow = 0
         /\ Steady' => Steady /\ slow' = 0 /\ schedCrashes' = 0 /\ expiries' = 0 /\ races' = 0
         /\ Steady => slow = 0 /\ schedCrashes = 0 /\ expiries = 0 /\ races = 0
  <1>1. slow \in Nat /\ schedCrashes \in Nat /\ expiries \in Nat /\ races \in Nat
    BY DEF SystemTypeInv, TypeInv, TypeOK, RecoveryTypeOK, SchedulerTypeOK
  <1>2. slow' \in Nat /\ schedCrashes' \in Nat /\ expiries' \in Nat /\ races' \in Nat
    <2>1. SystemTypeInv'
      BY SystemTypeStep, FaultType
    <2> QED BY <2>1 DEF SystemTypeInv, TypeInv, TypeOK, RecoveryTypeOK, SchedulerTypeOK
  <1>3. /\ slow' = slow \/ slow' = slow + 1
        /\ schedCrashes' = schedCrashes \/ schedCrashes' = schedCrashes + 1
        /\ expiries' = expiries \/ expiries' = expiries + 1
        /\ races' = races \/ races' = races + 1
    <2>1. CASE [SystemNext]_systemVars
      BY <2>1, SystemDisturbs
    <2>2. CASE FaultMoves
      BY <2>2, FaultWrites
    <2> QED BY <2>1, <2>2
  <1>4. PICK i, j, k, l \in Nat : i = slow /\ j = schedCrashes /\ k = expiries /\ l = races
    BY <1>1
  <1>5. PICK a, b, c, d \in Nat : a = slow' /\ b = schedCrashes' /\ c = expiries' /\ d = races'
    BY <1>2
  <1>6. i <= a /\ j <= b /\ k <= c /\ l <= d
    BY <1>3, <1>4, <1>5
  <1>7. (Steady <=> i + j + k + l = 0) /\ (Steady' <=> a + b + c + d = 0)
    BY <1>4, <1>5 DEF Steady
  <1>8. a + b + c + d = 0 => a = 0 /\ b = 0 /\ c = 0 /\ d = 0 /\ i = 0 /\ j = 0 /\ k = 0 /\ l = 0
    BY <1>6
  <1>9. i + j + k + l = 0 <=> i = 0 /\ j = 0 /\ k = 0 /\ l = 0
    OBVIOUS
  <1>10. a = 0 => i = 0
    BY <1>6
  <1> QED BY <1>4, <1>5, <1>7, <1>8, <1>9, <1>10

\* What every step of the service keeps while no handler is too slow, and while nothing
\* else disturbs it, whatever has been refused before.
LEMMA SystemKeeps ==
  ASSUME SystemTypeInv, LockInv, RequestInv, HoldingInv, NewsInv, [SystemNext]_systemVars,
         refused' = refused, slow' = 0
  PROVE  /\ RequestInv' /\ HoldingInv' /\ NewsInv'
         /\ KeptInv /\ Steady /\ Steady' => KeptInv'
  <1>1. TypeInv
    BY DEF SystemTypeInv
  <1>2. Steady /\ Steady' =>
          schedCrashes = 0 /\ schedCrashes' = 0 /\ expiries = 0 /\ races = 0 /\ races' = 0
    BY DisturbancesGrow
  <1>3. ASSUME NEW w \in Workers, SystemWorkerNext(w)
        PROVE  /\ RequestInv' /\ HoldingInv' /\ NewsInv'
               /\ KeptInv /\ Steady /\ Steady' => KeptInv'
    <2>1. WorkerNext(w) /\ UNCHANGED schedulerVars
      BY <1>3 DEF SystemWorkerNext
    <2>2. RequestInv' /\ HoldingInv' /\ NewsInv'
      BY <1>1, <2>1, RequestStep, HoldingWorker, NewsPools DEF Next
    <2>3. races = 0 /\ races' = 0 => ~ Overtakes(w)
      BY <1>3 DEF SystemWorkerNext
    <2>4. KeptInv /\ ~ Overtakes(w) => KeptInv'
      BY <2>1, KeptWorker
    <2> QED BY <1>2, <2>2, <2>3, <2>4
  <1>4. ASSUME NEW p \in Pools, SystemPoolNext(p)
        PROVE  RequestInv' /\ HoldingInv' /\ NewsInv' /\ (KeptInv => KeptInv')
    <2>1. UNCHANGED schedulerVars
      BY <1>4 DEF SystemPoolNext
    <2>2. CASE RecoveryNext(p)
      <3>1. RequestInv' /\ HoldingInv'
        BY <1>1, <2>2, RequestStep, HoldingRecovery DEF Next
      <3>2. NewsInv'
        BY <2>1, <2>2, NewsPools
      <3> QED BY <2>1, <2>2, <3>1, <3>2, KeptRecovery
    <2>3. CASE Crash(p) \/ Restart(p)
      <3>1. RequestInv' /\ HoldingInv'
        BY <1>1, <2>3, RequestStep, HoldingCrash DEF Next
      <3>2. NewsInv'
        BY <2>1, <2>3, NewsPools
      <3> QED BY <2>1, <2>3, <3>1, <3>2, KeptCrash
    <2> QED BY <1>4, <2>2, <2>3 DEF SystemPoolNext
  <1>5. ASSUME NEW t \in Tasks, SystemApiNext(t)
        PROVE  RequestInv' /\ HoldingInv' /\ NewsInv' /\ (KeptInv => KeptInv')
    <2>1. ApiNext(t) /\ UNCHANGED schedulerVars
      BY <1>5 DEF SystemApiNext
    <2>2. RequestInv' /\ HoldingInv'
      BY <1>1, <2>1, RequestStep, HoldingApi DEF Next
    <2>3. NewsInv'
      BY <2>1, NewsApi
    <2> QED BY <2>1, <2>2, <2>3, KeptApi
  <1>6. CASE SchedulerMoves
    <2>1. RequestInv' /\ HoldingInv' /\ NewsInv'
      BY <1>6, RequestScheduler, HoldingScheduler, NewsScheduler
    <2> QED BY <1>2, <1>6, <2>1, KeptScheduler
  <1>7. CASE UNCHANGED systemVars
    <2>1. UNCHANGED vars /\ UNCHANGED schedulerVars
      BY <1>7 DEF systemVars
    <2>2. UNCHANGED redisVars /\ UNCHANGED workerVars /\ UNCHANGED recoveryVars
            /\ UNCHANGED apiVars
      BY <2>1 DEF vars
    <2>3. RequestInv'
      BY <1>1, <2>1, RequestStep
    <2>4. HoldingInv'
      BY <2>2
      DEF HoldingInv, EntriesInv, HeldIsPending, HeldOnce, RecoveryHolds, InBatch, redisVars,
          workerVars, recoveryVars
    <2>5. NewsInv'
      BY <2>1, <2>2
      DEF NewsInv, Unheard, EntryOf, redisVars, apiVars, schedulerVars
    <2>6. ASSUME KeptInv PROVE KeptInv'
      <3>1. /\ UNCHANGED <<store, stream, pel, dlq, zset, accepted, sbatch, spc, scur>>
            /\ UNCHANGED <<wpc, wmsg, rpc, rcur>>
        BY <2>1, <2>2
        DEF redisVars, dlqVars, workerVars, recoveryVars, apiVars, schedulerVars
      <3>2. \A t : IsKept(t) => IsKept(t)'
        BY <3>1
        DEF IsKept, EntryAt, Unsettled, RecoverySpent, OnHand, EntryOf, Exists, Settled
      <3>3. \A t \in accepted' : IsKept(t)'
        BY <2>6, <3>1, <3>2 DEF KeptInv
      <3> QED BY <2>6, <3>1, <3>3 DEF KeptInv, At, task
    <2> QED BY <2>3, <2>4, <2>5, <2>6
  <1> QED
    BY <1>3, <1>4, <1>5, <1>6, <1>7 DEF SystemNext, SchedulerNext, SchedulerMoves

\* FaultIInv is inductive.  What keeps a task while SET, ZREM and XACK are refused holds
\* beside a slow handler or a second scheduler no longer, and neither is undone.
LEMMA FaultInvariance == FaultySpec => []FaultIInv
  <1>1. FaultIInv /\ [FaultyNext]_faultyVars => FaultIInv'
    <2> SUFFICES ASSUME FaultIInv, [FaultyNext]_faultyVars PROVE FaultIInv'
      OBVIOUS
    <2>1. FaultyTypeInv /\ SystemTypeInv /\ TypeInv /\ LockInv /\ DeadLetterInv
      BY DEF FaultIInv, FaultyTypeInv, SystemTypeInv
    <2>2. /\ slow = 0 => HoldingInv /\ RequestInv /\ NewsInv
          /\ Steady /\ refused \subseteq {"set", "zrem", "ack"} => KeptInv
      BY DEF FaultIInv
    <2>3. FaultyTypeInv'
      BY <2>1, FaultTypeStep
    <2>4. CASE [SystemNext]_systemVars /\ refused' = refused
      <3>1. LockInv' /\ DeadLetterInv'
        BY <2>1, <2>4, LockStep, DeadLetterStep
      <3>2. /\ slow' = 0 => slow = 0
            /\ Steady' => Steady /\ slow' = 0
        BY <2>1, <2>4, DisturbancesGrow
      <3>3. slow' = 0 =>
              /\ RequestInv' /\ HoldingInv' /\ NewsInv'
              /\ KeptInv /\ Steady /\ Steady' => KeptInv'
        BY <2>1, <2>2, <2>4, <3>2, SystemKeeps
      <3>4. Steady' /\ refused' \subseteq {"set", "zrem", "ack"} => KeptInv'
        BY <2>2, <2>4, <3>2, <3>3
      <3> QED BY <2>3, <3>1, <3>3, <3>4 DEF FaultIInv
    <2>5. CASE FaultMoves
      <3>1. LockInv' /\ DeadLetterInv'
        BY <2>1, <2>5, FaultLock, FaultDeadLetter
      <3>2. slow' = slow /\ refused \subseteq refused'
        BY <2>5, FaultWrites
      <3>3. slow' = 0 => RequestInv' /\ HoldingInv' /\ NewsInv'
        BY <2>1, <2>2, <2>5, <3>2, FaultHolding, FaultNews
      <3>4. ASSUME Steady', refused' \subseteq {"set", "zrem", "ack"} PROVE KeptInv'
        <4>1. Steady /\ slow = 0 /\ expiries = 0
          BY <2>1, <2>5, <3>4, DisturbancesGrow
        <4>2. HoldingInv /\ KeptInv
          BY <2>2, <3>2, <3>4, <4>1
        <4> QED BY <2>1, <2>5, <3>4, <4>1, <4>2, FaultKept
      <3> QED BY <2>3, <3>1, <3>3, <3>4 DEF FaultIInv
    <2> QED BY <2>4, <2>5, FaultyCases
  <1> QED BY <1>1, FaultIInvInit, PTL DEF FaultySpec

(***************************************************************************)
(* The properties.                                                         *)
(***************************************************************************)

\* No error branch leaves a process with something in hand its program counter does
\* not stand for, or a record or an entry that is none (handleTaskFailure,
\* recoverOrphanedTasks, activateTask and DequeueBlocking when Redis answers with an
\* error).
THEOREM FaultyTypeCorrect == FaultySpec => []FaultyTypeInv
  <1>1. FaultIInv => FaultyTypeInv
    BY DEF FaultIInv
  <1> QED BY <1>1, FaultInvariance, PTL

\* Whatever commands Redis refuses, no entry is in two hands as long as handlers
\* return before claimMinIdle: a worker or a recovery loop that gives up after an
\* error lets go of its entry before anyone else claims it (XREADGROUP, XCLAIM).
THEOREM OneOwnerDespiteFaults == FaultySpec => [](slow = 0 => HeldOnce)
  <1>1. FaultIInv => (slow = 0 => HeldOnce)
    BY DEF FaultIInv, HoldingInv
  <1> QED BY <1>1, FaultInvariance, PTL

\* Whatever commands Redis refuses, the lookup set names only tasks that are in the
\* dead-letter stream (DLQ.Add: the SADD follows the XADD, and is not reached when
\* that is refused).
THEOREM LookupNamesDeadLetters == FaultySpec => []LookupIsSound
  <1>1. FaultIInv => LookupIsSound
    BY DEF FaultIInv, DeadLetterInv
  <1> QED BY <1>1, FaultInvariance, PTL

\* Until a command of DLQ.Add is refused, the entry of an exhausted task is
\* acknowledged only when the task is in the dead-letter stream, however many other
\* commands are (handleTaskFailure: a refused SET of the failed record does not keep
\* DLQ.Add from following).
THEOREM DeadLettersAreCommitted == FaultySpec => []DeadLetterCommitted
  <1>1. FaultIInv => DeadLetterCommitted
    BY DEF FaultIInv, DeadLetterInv, DeadLetterCommitted
  <1> QED BY <1>1, FaultInvariance, PTL

\* While SET, ZREM and XACK are the only commands refused, no accepted task vanishes,
\* whatever the crashes of worker processes and wherever the refusals fall: it has a
\* record, and is final, waiting, the subject of an entry or in the dead-letter queue.
\* (Handlers return before claimMinIdle, the lock outlives the batches, no scheduler
\* dies, and no retry overtakes one: what the last three do is in LostIsWaiting.)
THEOREM NothingVanishes == FaultySpec => [](Steady => NoTaskVanishes)
  <1>1. FaultIInv => (Steady => NoTaskVanishes)
    <2> SUFFICES ASSUME FaultIInv, Steady, refused \subseteq {"set", "zrem", "ack"},
                        NEW t \in accepted
                 PROVE  /\ Exists(t)
                        /\ \/ Settled(t) \/ t \in zset
                           \/ EntryOf(t, stream \union pel) \/ EntryOf(t, dlq)
      BY DEF NoTaskVanishes
    <2>1. KeptInv /\ SystemTypeInv
      BY DEF FaultIInv, FaultyTypeInv
    <2>2. IsKept(t)
      BY <2>1 DEF KeptInv
    <2>3. ASSUME t \in OnHand("xadd") PROVE t \in zset
      <3>1. PICK s \in Schedulers : spc[s] = "xadd" /\ scur[s] = t
        BY <2>3 DEF OnHand
      <3>2. scur[s] \in sbatch[s]
        BY <2>1, <3>1 DEF SystemTypeInv, SchedulerControl
      <3> QED BY <2>1, <3>1, <3>2 DEF KeptInv
    <2> QED BY <2>2, <2>3 DEF IsKept, EntryAt, EntryOf
  <1> QED BY <1>1, FaultInvariance, PTL

=============================================================================
