---------------------------- MODULE PromiseProofs ----------------------------
(***************************************************************************)
(* The refinements: the workers, and the whole service, implement          *)
(* WorkQueue.                                                              *)
(***************************************************************************)
EXTENDS TaskQueueProofs

(***************************************************************************)
(* Task records.                                                           *)
(***************************************************************************)

\* A retry keeps the attempts it has counted, and so does the requeueing of a pending
\* record, which changes nothing (Fail, ScheduleRetry, PrepareForRequeue).
LEMMA RecordAttempts ==
  ASSUME NEW r \in Record, NEW max \in Nat
  PROVE  /\ CanTransitionTo(r.state, "running") => Start(r).attempts = r.attempts + 1
         /\ Complete(r).attempts = r.attempts
         /\ Fail(r).attempts = r.attempts
         /\ ScheduleRetry(Fail(r), max).attempts = r.attempts
         /\ Transition(r, "pending").attempts = r.attempts
         /\ r.state = "pending" => PrepareForRequeue(r, max) = r
  <1>1. \A q \in Record, s \in State : Transition(q, s).attempts = q.attempts
    BY DEF Transition, Record, State
  <1>2. CanTransitionTo(r.state, "running") => Start(r).attempts = r.attempts + 1
    BY DEF Start
  <1>3. /\ Complete(r).attempts = r.attempts
        /\ Fail(r).attempts = r.attempts
        /\ Transition(r, "pending").attempts = r.attempts
    BY <1>1 DEF Complete, Fail, State
  <1>4. ScheduleRetry(Fail(r), max).attempts = r.attempts
    <2>1. Fail(r) \in Record
      BY RecordOps
    <2> QED BY <1>1, <1>3, <2>1 DEF ScheduleRetry, Retry, State
  <1>5. r.state = "pending" => PrepareForRequeue(r, max) = r
    BY DEF PrepareForRequeue, Retry, Transition, CanTransitionTo, ValidTransitions, Record, State
  <1> QED BY <1>2, <1>3, <1>4, <1>5

(***************************************************************************)
(* OneCarrier.                                                             *)
(***************************************************************************)

\* An entry stays in step when its holders only put it down or go on to a command at
\* which they hold no copy of the record.
LEMMA InStepFrame ==
  ASSUME NEW e, InStep(e), store'[e.task] = store[e.task],
         \A w \in Workers :
           /\ wmsg'[w] = e /\ (At(w, "set_running") \/ HasWritten(w))' =>
                wmsg[w] = e /\ wpc'[w] = wpc[w] /\ wrec'[w] = wrec[w]
           /\ wmsg[w] = e /\ HasWritten(w) => wmsg'[w] = e /\ HasWritten(w)',
         \A p \in Pools : \A b \in rbatch'[p] :
           b.entry = e => b \in rbatch[p] \/ b.rec = store[e.task]
  PROVE  InStep(e)'
  <1>1. Exists(e.task)'
    BY DEF InStep, Exists
  <1>2. \A w \in Workers :
          wmsg'[w] = e =>
            /\ At(w, "set_running")' => wrec'[w] = Start(store'[e.task])
            /\ HasWritten(w)' => wrec'[w] = store'[e.task]
            /\ wpc'[w] \in {"sched_set", "sched_zadd"} =>
                 store'[e.task].state = "retrying" /\ MayStart(e.task)'
    BY DEF InStep, At, HasWritten, MayStart, Exists
  <1>3. (\A w \in Workers : wmsg'[w] = e => ~ HasWritten(w)') =>
          store'[e.task].state = "pending" /\ MayStart(e.task)'
    BY DEF InStep, MayStart, Exists
  <1>4. \A p \in Pools : \A b \in rbatch'[p] : b.entry = e => b.rec = store'[e.task]
    BY DEF InStep
  <1> QED BY <1>1, <1>2, <1>3, <1>4 DEF InStep

\* A task keeps its carrier when its record is not written, no entry is added and no
\* member, and its entries stay in step.
LEMMA CarrierFrame ==
  ASSUME NEW t \in Tasks, NEW L, NEW P, OneCarrier(t, L, P), store'[t] = store[t],
         Unspent(t)' \subseteq Unspent(t), t \in zset' => t \in zset,
         \A e \in Unspent(t)' : InStep(e)'
  PROVE  OneCarrier(t, L, P)'
  BY DEF OneCarrier, MayStart, Exists

\* A worker that has not settled its entry holds the one carrier of its task, and
\* nobody else holds it.
LEMMA HolderCarries ==
  ASSUME TypeInv, HoldingInv, NEW w \in Workers, wmsg[w] # NoEntry, ~ WorkerSpent(w)
  PROVE  /\ wmsg[w] \in Unspent(task(w))
         /\ \A v \in Workers : wmsg[v] = wmsg[w] => v = w
         /\ \A p \in Pools : ~ RecoveryHolds(p, wmsg[w])
  <1>1. wmsg[w] \in pel
    BY DEF HoldingInv, HeldIsPending
  <1>2. /\ \A v \in Workers : wmsg[v] = wmsg[w] => v = w
        /\ \A p \in Pools : ~ RecoveryHolds(p, wmsg[w])
    BY DEF HoldingInv, HeldOnce
  <1>3. ~ Spent(wmsg[w])
    BY <1>2 DEF Spent, RecoverySpent, RecoveryHolds
  <1> QED BY <1>1, <1>2, <1>3 DEF Unspent, task

\* Until its handler is started, the task of a held entry is pending.
LEMMA PendingToStart ==
  ASSUME TypeInv, HoldingInv, NEW w \in Workers, wpc[w] \in {"get", "set_running"},
         NEW L, NEW P, OneCarrier(task(w), L, P)
  PROVE  /\ task(w) \in Tasks /\ MayStart(task(w)) /\ store[task(w)].state = "pending"
         /\ store[task(w)] \in Record
  <1>1. wmsg[w] # NoEntry /\ wmsg[w] \in Entry
    BY DEF TypeInv, WorkerControl, TypeOK, WorkerTypeOK
  <1>2. InStep(wmsg[w]) /\ \A v \in Workers : wmsg[v] = wmsg[w] => v = w
    BY <1>1, HolderCarries DEF OneCarrier, WorkerSpent
  <1>3. MayStart(task(w)) /\ store[task(w)].state = "pending"
    BY <1>2 DEF InStep, HasWritten, task
  <1> QED BY <1>1, <1>3 DEF task, Entry, MayStart, Exists, TypeInv, TypeOK, RedisTypeOK

\* A worker adds no entries, and what it has settled it acknowledges.
LEMMA UnspentWorker ==
  ASSUME TypeInv, HoldingInv, NEW w \in Workers, WorkerNext(w), NEW t \in Tasks
  PROVE  Unspent(t)' \subseteq Unspent(t)
  <1>1. /\ stream \in SUBSET Entry /\ pel \in SUBSET Entry
        /\ wpc \in [Workers -> WorkerPc]
        /\ wmsg \in [Workers -> Entry \union {NoEntry}]
        /\ WorkerControl
        /\ UNCHANGED <<rpc, rcur>>
    BY DEF TypeInv, TypeOK, RedisTypeOK, WorkerTypeOK, WorkerNext, recoveryVars
  <1>2. ASSUME (stream \union pel)' \subseteq stream \union pel,
               \A v \in Workers : v # w => wpc'[v] = wpc[v] /\ wmsg'[v] = wmsg[v],
               WorkerSpent(w) => \/ WorkerSpent(w)' /\ wmsg'[w] = wmsg[w]
                                 \/ wmsg[w] \notin (stream \union pel)'
        PROVE  Unspent(t)' \subseteq Unspent(t)
    <2>1. \A e \in (stream \union pel)' : Spent(e) => Spent(e)'
      BY <1>1, <1>2 DEF Spent, WorkerSpent, RecoverySpent
    <2> QED BY <1>2, <2>1 DEF Unspent
  <1>3. CASE Dequeue(w)
    <2>1. (stream \union pel)' = stream \union pel /\ ~ WorkerSpent(w)
      BY <1>3 DEF Dequeue, XReadGroup, Heads, At, WorkerSpent
    <2>2. \A v \in Workers : v # w => wpc'[v] = wpc[v] /\ wmsg'[v] = wmsg[v]
      BY <1>1, <1>3 DEF Dequeue, Goto
    <2> QED BY <1>2, <2>1, <2>2
  <1>4. CASE Drop(w) \/ Acknowledge(w) \/ StartRefused(w)
    <2>1. /\ stream' = stream
          /\ pel' = pel \/ pel' = pel \ {wmsg[w]}
          /\ WorkerSpent(w) => pel' = pel \ {wmsg[w]} /\ wmsg[w] # NoEntry
          /\ \A v \in Workers : v # w => wpc'[v] = wpc[v] /\ wmsg'[v] = wmsg[v]
      BY <1>1, <1>4
      DEF Drop, Acknowledge, StartRefused, XAck, Return, At, WorkerSpent, WorkerControl, redisVars
    <2>2. wmsg[w] # NoEntry => wmsg[w] \notin stream
      BY DEF HoldingInv, HeldIsPending, EntriesInv
    <2> QED BY <1>2, <2>1, <2>2
  <1>5. CASE /\ UNCHANGED <<stream, pel, wmsg>>
             /\ \E pc : wpc' = [wpc EXCEPT ![w] = pc] /\ (WorkerSpent(w) => pc \in {"dlq_sadd", "ack"})
    BY <1>1, <1>2, <1>5 DEF WorkerSpent
  <1> QED
    BY <1>3, <1>4, <1>5
    DEF WorkerNext, WorkerStep, GetMissing, StartTask, SetRunning, SetCompleted, SetRetrying,
        SetFailed, HandlerReturns, FinishWith, ScheduleSet, ScheduleZAdd, DlqXAdd, DlqSAdd, At,
        Goto, WorkerSpent, redisVars

\* A worker passes a task from its entry to its outcome, or to the sorted set.
LEMMA CarrierWorker ==
  ASSUME TypeInv, HoldingInv, NEW L, NEW P, P \subseteq zset,
         \A u \in Tasks : OneCarrier(u, L, P),
         NEW w \in Workers, WorkerNext(w), NEW t \in Tasks
  PROVE  OneCarrier(t, L, P)'
  <1> USE NoTaskAssumption, NoEntryAssumption
  <1>1. /\ store \in [Tasks -> Record \union {NoTask}]
        /\ stream \in SUBSET Entry /\ pel \in SUBSET Entry
        /\ wpc \in [Workers -> WorkerPc]
        /\ wmsg \in [Workers -> Entry \union {NoEntry}]
        /\ wrec \in [Workers -> Record \union {NoTask}]
        /\ WorkerControl
        /\ OneCarrier(t, L, P)
        /\ Unspent(t)' \subseteq Unspent(t)
    BY UnspentWorker DEF TypeInv, TypeOK, RedisTypeOK, WorkerTypeOK
  <1>2. UNCHANGED <<rpc, rcur, rbatch>>
    BY DEF WorkerNext, recoveryVars
  <1>3. wpc[w] \notin {"idle", "stopped"} => wmsg[w] \in Entry /\ task(w) \in Tasks
    BY <1>1 DEF WorkerControl, task, Entry
  <1>4. ASSUME wmsg[w] # NoEntry, ~ WorkerSpent(w)
        PROVE  /\ wmsg[w] \in Unspent(task(w)) /\ InStep(wmsg[w])
               /\ \A e \in Unspent(task(w)) : e = wmsg[w]
               /\ \A v \in Workers : wmsg[v] = wmsg[w] => v = w
               /\ \A p \in Pools : ~ RecoveryHolds(p, wmsg[w])
               /\ task(w) \in zset => task(w) \in L
    <2>1. task(w) \in Tasks
      BY <1>1, <1>4 DEF task, Entry
    <2> QED BY <1>4, <2>1, HolderCarries DEF OneCarrier
  <1>5. CASE Dequeue(w)
    <2>1. PICK f \in Heads : wmsg' = [wmsg EXCEPT ![w] = f]
      BY <1>5 DEF Dequeue
    <2>2. /\ UNCHANGED <<store, zset, wrec>>
          /\ (stream \union pel)' = stream \union pel
          /\ wpc' = [wpc EXCEPT ![w] = "get"]
          /\ wmsg[w] = NoEntry
          /\ f \in stream /\ f # NoEntry
      BY <1>1, <1>5, <2>1 DEF Dequeue, XReadGroup, Heads, Goto, At, WorkerControl
    <2>3. ASSUME NEW e \in Unspent(t) PROVE InStep(e)'
      <3>1. InStep(e) /\ e.task = t /\ e # NoEntry
        BY <1>1, <2>3 DEF OneCarrier, Unspent
      <3> QED
        BY <1>1, <1>2, <2>1, <2>2, <3>1, InStepFrame DEF At, HasWritten
    <2> QED BY <1>1, <2>2, <2>3, CarrierFrame
  <1>6. CASE GetMissing(w) \/ StartRefused(w)
    <2>1. OneCarrier(task(w), L, P) /\ wpc[w] = "get"
      BY <1>3, <1>6 DEF GetMissing, StartRefused, At
    <2>2. MayStart(task(w)) /\ store[task(w)].state = "pending"
      BY <2>1, PendingToStart
    <2> QED
      BY <1>6, <2>2
      DEF GetMissing, StartRefused, MayStart, CanTransitionTo, ValidTransitions, State
  <1>7. CASE Drop(w) \/ Acknowledge(w)
    <2>1. /\ UNCHANGED <<store, zset>>
          /\ WorkerSpent(w)
          /\ wpc' = [wpc EXCEPT ![w] = "idle"]
          /\ wmsg' = [wmsg EXCEPT ![w] = NoEntry]
          /\ \A v \in Workers : v # w => wrec'[v] = wrec[v]
      BY <1>1, <1>7 DEF Drop, Acknowledge, Return, At, WorkerSpent
    <2>2. ASSUME NEW e \in Unspent(t)' PROVE InStep(e)'
      <3>1. InStep(e) /\ e.task = t /\ e # wmsg[w] /\ e # NoEntry
        BY <1>1, <2>1, <2>2 DEF OneCarrier, Unspent, Spent
      <3> QED
        BY <1>1, <1>2, <2>1, <3>1, InStepFrame DEF At, HasWritten
    <2> QED BY <1>1, <2>1, <2>2, CarrierFrame
  <1>8. CASE StartTask(w) \/ ScheduleSet(w) \/ DlqXAdd(w) \/ DlqSAdd(w)
    <2>1. /\ UNCHANGED <<zset, wmsg>>
          /\ \E pc : wpc' = [wpc EXCEPT ![w] = pc]
          /\ wmsg[w] # NoEntry
          /\ \A v \in Workers : v # w => wrec'[v] = wrec[v]
      BY <1>1, <1>8
      DEF StartTask, ScheduleSet, DlqXAdd, DlqSAdd, Goto, Hold, At, WorkerSpent, WorkerControl,
          redisVars
    <2>2. store' = store
      <3>1. CASE ScheduleSet(w)
        <4>1. wrec[w] = store[task(w)]
          BY <1>3, <1>4, <2>1, <3>1 DEF ScheduleSet, At, WorkerSpent, InStep, HasWritten, task
        <4> QED BY <1>1, <1>3, <3>1, <4>1 DEF ScheduleSet, SetTask
      <3>2. CASE ~ ScheduleSet(w)
        BY <1>8, <3>2 DEF StartTask, DlqXAdd, DlqSAdd, redisVars
      <3> QED BY <3>1, <3>2
    <2>3. ASSUME NEW e \in Unspent(t)' PROVE InStep(e)'
      <3>1. InStep(e) /\ e.task = t /\ e \in Unspent(t)
        BY <1>1, <2>3 DEF OneCarrier, Unspent
      <3>2. CASE e # wmsg[w]
        BY <1>1, <1>2, <2>1, <2>2, <3>1, <3>2, InStepFrame DEF At, HasWritten
      <3>3. CASE e = wmsg[w] /\ StartTask(w)
        <4>1. /\ wpc' = [wpc EXCEPT ![w] = "set_running"] /\ ~ HasWritten(w)
              /\ wrec'[w] = Start(store'[e.task])
              /\ \A v \in Workers : wmsg[v] = e => v = w
          BY <1>1, <1>4, <2>1, <2>2, <3>3
          DEF StartTask, Goto, Hold, At, WorkerSpent, HasWritten, task
        <4> QED BY <1>1, <1>2, <2>1, <2>2, <3>1, <4>1 DEF InStep, At, HasWritten, MayStart, Exists
      <3>4. CASE e = wmsg[w] /\ ScheduleSet(w)
        <4>1. /\ wpc' = [wpc EXCEPT ![w] = "sched_zadd"] /\ wrec' = wrec
              /\ wpc[w] = "sched_set" /\ HasWritten(w)
              /\ \A v \in Workers : wmsg[v] = e => v = w
          BY <1>4, <2>1, <3>4 DEF ScheduleSet, Goto, At, WorkerSpent, HasWritten
        <4>2. /\ wrec[w] = store[e.task] /\ store[e.task].state = "retrying" /\ MayStart(e.task)
          BY <3>1, <3>4, <4>1 DEF InStep
        <4> QED
          BY <1>1, <1>2, <2>1, <2>2, <3>1, <4>1, <4>2 DEF InStep, At, HasWritten, MayStart, Exists
      <3>5. CASE e = wmsg[w] /\ (DlqXAdd(w) \/ DlqSAdd(w))
        BY <3>1, <3>5 DEF DlqXAdd, DlqSAdd, At, Unspent, Spent, WorkerSpent
      <3> QED BY <1>8, <3>2, <3>3, <3>4, <3>5
    <2> QED BY <1>1, <2>1, <2>2, <2>3, CarrierFrame
  <1>9. ASSUME NEW r \in Record, NEW pc, SetTask(task(w), r), wpc' = [wpc EXCEPT ![w] = pc],
               UNCHANGED <<stream, pel, zset, wmsg>>,
               \A v \in Workers : v # w => wrec'[v] = wrec[v],
               wpc[w] \in {"set_running", "execute"},
               \/ pc \in {"ack", "dlq_xadd"}
               \/ pc = "execute" /\ wrec'[w] = r
               \/ pc = "sched_set" /\ wrec'[w] = r /\ r.state = "retrying"
                    /\ r.attempts < MaxRetries[task(w)]
        PROVE  OneCarrier(t, L, P)'
    <2>1. /\ wmsg[w] # NoEntry /\ ~ WorkerSpent(w)
          /\ wmsg[w] \in Entry /\ task(w) \in Tasks
      BY <1>1, <1>3, <1>9 DEF WorkerSpent
    <2>2. /\ \A e \in Unspent(task(w)) : e = wmsg[w]
          /\ \A v \in Workers : wmsg[v] = wmsg[w] => v = w
          /\ \A p \in Pools : ~ RecoveryHolds(p, wmsg[w])
          /\ task(w) \in zset => task(w) \in L
      BY <1>4, <2>1
    <2>3. CASE t # task(w)
      <3>1. store'[t] = store[t]
        BY <1>1, <1>9, <2>3 DEF SetTask
      <3>2. ASSUME NEW e \in Unspent(t)' PROVE InStep(e)'
        <4>1. InStep(e) /\ e.task = t /\ e # wmsg[w]
          BY <1>1, <2>3, <3>2 DEF OneCarrier, Unspent, task
        <4> QED BY <1>1, <1>2, <1>9, <3>1, <4>1, InStepFrame DEF At, HasWritten
      <3> QED BY <1>1, <1>9, <3>1, <3>2, CarrierFrame
    <2>4. CASE t = task(w)
      <3>1. store'[t] = r /\ r # NoTask
        BY <1>1, <1>9, <2>4 DEF SetTask
      <3>2. \A e, f \in Unspent(t)' : e = f
        BY <1>1, <2>2, <2>4
      <3>3. t \in zset' => t \in L
        BY <1>9, <2>2, <2>4
      <3>4. ASSUME NEW e \in Unspent(t)' PROVE InStep(e)'
        <4>1. e = wmsg[w] /\ e.task = t /\ pc \notin {"ack", "dlq_xadd"}
          <5>1. e = wmsg[w]
            BY <1>1, <2>2, <2>4, <3>4
          <5>2. \A v \in Workers : wmsg'[v] = e => ~ WorkerSpent(v)'
            BY <3>4 DEF Unspent, Spent
          <5>3. pc \notin {"ack", "dlq_xadd"}
            BY <1>1, <1>9, <5>1, <5>2 DEF WorkerSpent
          <5> QED BY <2>4, <5>1, <5>3 DEF task
        <4>2. \A v \in Workers : wmsg'[v] = e <=> v = w
          BY <1>9, <2>2, <4>1
        <4>3. \A p \in Pools : \A b \in rbatch'[p] : b.entry # e
          BY <1>2, <2>2, <4>1 DEF RecoveryHolds, InBatch
        <4>4. HasWritten(w)' /\ ~ At(w, "set_running")' /\ wrec'[w] = r
          BY <1>1, <1>9, <4>1 DEF HasWritten, At
        <4>5. wpc'[w] \in {"sched_set", "sched_zadd"} =>
                r.state = "retrying" /\ r.attempts < MaxRetries[t]
          BY <1>1, <1>9, <2>4
        <4> QED BY <3>1, <4>1, <4>2, <4>3, <4>4, <4>5 DEF InStep, MayStart, Exists
      <3> QED BY <3>2, <3>3, <3>4 DEF OneCarrier
    <2> QED BY <2>3, <2>4
  <1>10. CASE SetRunning(w)
    <2>1. wrec[w] \in Record
      BY <1>1, <1>10 DEF SetRunning, At, WorkerControl
    <2> QED BY <1>9, <1>10, <2>1 DEF SetRunning, Goto, At
  <1>11. CASE SetCompleted(w) \/ SetFailed(w) \/ SetRetrying(w)
    <2>1. /\ wrec[w] \in Record /\ wrec[w].state = "running" /\ wpc[w] = "execute"
          /\ MaxRetries[task(w)] \in Nat
      BY <1>1, <1>3, <1>11, MaxRetriesAssumption
      DEF SetCompleted, SetFailed, SetRetrying, HandlerReturns, At, WorkerControl
    <2>2. /\ Complete(wrec[w]) \in Record /\ Fail(wrec[w]) \in Record
          /\ ScheduleRetry(Fail(wrec[w]), MaxRetries[task(w)]) \in Record
      BY <2>1, RecordOps
    <2>3. CASE SetCompleted(w)
      <3> DEFINE r == Complete(wrec[w])
      <3>1. /\ r \in Record /\ SetTask(task(w), r) /\ wpc' = [wpc EXCEPT ![w] = "ack"]
            /\ UNCHANGED <<stream, pel, zset, wmsg>>
            /\ \A v \in Workers : v # w => wrec'[v] = wrec[v]
        BY <1>1, <2>2, <2>3 DEF SetCompleted, FinishWith, Goto, Hold
      <3> HIDE DEF r
      <3> QED BY <1>9, <2>1, <3>1
    <2>4. CASE SetFailed(w)
      <3> DEFINE r == Fail(wrec[w])
      <3>1. /\ r \in Record /\ SetTask(task(w), r) /\ wpc' = [wpc EXCEPT ![w] = "dlq_xadd"]
            /\ UNCHANGED <<stream, pel, zset, wmsg>>
            /\ \A v \in Workers : v # w => wrec'[v] = wrec[v]
        BY <1>1, <2>2, <2>4 DEF SetFailed, FinishWith, Goto, Hold
      <3> HIDE DEF r
      <3> QED BY <1>9, <2>1, <3>1
    <2>5. CASE SetRetrying(w)
      <3> DEFINE r == ScheduleRetry(Fail(wrec[w]), MaxRetries[task(w)])
      <3>1. /\ r \in Record /\ SetTask(task(w), r) /\ wpc' = [wpc EXCEPT ![w] = "sched_set"]
            /\ UNCHANGED <<stream, pel, zset, wmsg>>
            /\ wrec'[w] = r /\ \A v \in Workers : v # w => wrec'[v] = wrec[v]
        BY <1>1, <2>2, <2>5 DEF SetRetrying, FinishWith, Goto, Hold
      <3>2. r.state = "retrying" /\ r.attempts < MaxRetries[task(w)]
        BY <2>1, <2>5, RecordStates, RecordAttempts DEF SetRetrying, CanRetry
      <3> HIDE DEF r
      <3> QED BY <1>9, <2>1, <3>1, <3>2
    <2> QED BY <1>11, <2>3, <2>4, <2>5
  <1>12. CASE ScheduleZAdd(w)
    <2>1. /\ UNCHANGED <<store, stream, pel, wmsg, wrec>>
          /\ wpc[w] = "sched_zadd" /\ wpc' = [wpc EXCEPT ![w] = "ack"]
          /\ zset' = zset \union {task(w)}
          /\ wmsg[w] # NoEntry /\ ~ WorkerSpent(w) /\ task(w) \in Tasks
      BY <1>1, <1>3, <1>12 DEF ScheduleZAdd, At, Goto, WorkerControl, WorkerSpent
    <2>2. Spent(wmsg[w])'
      BY <1>1, <2>1 DEF Spent, WorkerSpent
    <2>3. CASE t # task(w)
      <3>1. ASSUME NEW e \in Unspent(t)' PROVE InStep(e)'
        <4>1. InStep(e) /\ e.task = t /\ e # wmsg[w]
          BY <1>1, <2>3, <3>1 DEF OneCarrier, Unspent, task
        <4> QED BY <1>1, <1>2, <2>1, <4>1, InStepFrame DEF At, HasWritten
      <3> QED BY <1>1, <2>1, <2>3, <3>1, CarrierFrame
    <2>4. CASE t = task(w)
      <3>1. Unspent(t)' = {}
        BY <1>1, <1>4, <2>1, <2>2, <2>4 DEF Unspent
      <3>2. store'[t].state = "retrying" /\ MayStart(t)'
        BY <1>4, <2>1, <2>4 DEF InStep, task, MayStart, Exists
      <3>3. t \in zset' \ L => t \notin P
        BY <1>4, <2>1, <2>4
      <3> QED BY <3>1, <3>2, <3>3 DEF OneCarrier
    <2> QED BY <2>3, <2>4
  <1> QED
    BY <1>5, <1>6, <1>7, <1>8, <1>10, <1>11, <1>12 DEF WorkerNext, WorkerStep

\* A recovery loop that finds a handler gone hands the task from entry to entry and
\* writes what is already written (recoverOrphanedTasks).
LEMMA CarrierRecovery ==
  ASSUME TypeInv, HoldingInv, NEW L, NEW P,
         \A u \in Tasks : OneCarrier(u, L, P),
         NEW p \in Pools, RecoveryNext(p), slow' = slow, NEW t \in Tasks
  PROVE  /\ OneCarrier(t, L, P)'
         /\ store' = store
         /\ Unspent(t) = {} => Unspent(t)' = {}
  <1> USE NoTaskAssumption, NoEntryAssumption
  <1>1. /\ store \in [Tasks -> Record \union {NoTask}]
        /\ stream \in SUBSET Entry /\ pel \in SUBSET Entry /\ lastId \in Nat
        /\ rpc \in [Pools -> RecoveryPc]
        /\ rclaim \in [Pools -> Entry \union {NoEntry}]
        /\ rcur \in [Pools -> Entry \union {NoEntry}]
        /\ rbatch \in [Pools -> SUBSET Claimed]
        /\ RecoveryControl
        /\ OneCarrier(t, L, P)
    BY DEF TypeInv, TypeOK, RedisTypeOK, RecoveryTypeOK
  <1>2. UNCHANGED <<wpc, wmsg, wrec, zset>>
    BY DEF RecoveryNext, RecoveryStep, Claim, ReadMissing, ReadClaimed, RequeueSet,
           RequeueXAdd, RequeueAck, workerVars, redisVars
  <1>3. ASSUME store' = store, Unspent(t)' \subseteq Unspent(t),
               \A q \in Pools : \A b \in rbatch'[q] :
                 b.entry \in Unspent(t) => b \in rbatch[q] \/ b.rec = store[t]
        PROVE  OneCarrier(t, L, P)' /\ store' = store /\ (Unspent(t) = {} => Unspent(t)' = {})
    <2>1. ASSUME NEW e \in Unspent(t)' PROVE InStep(e)'
      <3>1. InStep(e) /\ e.task = t /\ e \in Unspent(t)
        BY <1>1, <1>3, <2>1 DEF OneCarrier, Unspent
      <3> QED BY <1>2, <1>3, <3>1, InStepFrame DEF At, HasWritten
    <2> QED BY <1>1, <1>2, <1>3, <2>1, CarrierFrame
  <1>4. ASSUME NEW e \in pel, Claim(p, e)
        PROVE  OneCarrier(t, L, P)' /\ store' = store /\ (Unspent(t) = {} => Unspent(t)' = {})
    <2>1. UNCHANGED <<store, stream, pel, rcur, rbatch>> /\ rpc' = [rpc EXCEPT ![p] = "get"]
          /\ rpc[p] = "scan"
      BY <1>4 DEF Claim, redisVars
    <2>2. Unspent(t)' \subseteq Unspent(t)
      BY <1>1, <1>2, <2>1 DEF Unspent, Spent, WorkerSpent, RecoverySpent
    <2> QED BY <1>3, <2>1, <2>2
  <1>5. CASE ReadMissing(p) \/ ReadClaimed(p)
    <2>1. /\ UNCHANGED <<store, stream, pel, rcur>>
          /\ rpc[p] = "get" /\ rpc' = [rpc EXCEPT ![p] = "scan"]
          /\ \A q \in Pools : \A b \in rbatch'[q] : b \in rbatch[q] \/ b.rec = store[b.entry.task]
      BY <1>1, <1>5 DEF ReadMissing, ReadClaimed, redisVars
    <2>2. Unspent(t)' \subseteq Unspent(t)
      BY <1>1, <1>2, <2>1 DEF Unspent, Spent, WorkerSpent, RecoverySpent
    <2>3. \A e \in Unspent(t) : e.task = t
      BY DEF Unspent
    <2> QED BY <1>3, <2>1, <2>2, <2>3
  <1>6. CASE RequeueSet(p)
    <2>1. PICK b \in rbatch[p] :
            /\ SetTask(b.entry.task, PrepareForRequeue(b.rec, MaxRetries[b.entry.task]))
            /\ rbatch' = [rbatch EXCEPT ![p] = @ \ {b}]
            /\ rcur' = [rcur EXCEPT ![p] = b.entry]
      BY <1>6 DEF RequeueSet
    <2>2. /\ UNCHANGED <<stream, pel>>
          /\ rpc[p] \in {"scan", "requeue"} /\ rpc' = [rpc EXCEPT ![p] = "xadd"]
          /\ b.entry \in Entry /\ b.entry.task \in Tasks /\ b.rec \in Record
          /\ MaxRetries[b.entry.task] \in Nat
      BY <1>1, <1>6, MaxRetriesAssumption DEF RequeueSet, Claimed, Entry
    <2>3. /\ b.entry \in pel
          /\ \A w \in Workers : wmsg[w] # b.entry
          /\ \A q \in Pools : rcur[q] = b.entry => q = p
      <3>1. b.entry \in pel /\ RecoveryHolds(p, b.entry)
        BY <2>2 DEF HoldingInv, HeldIsPending, RecoveryHolds, InBatch
      <3> QED BY <2>2, <3>1 DEF HoldingInv, HeldOnce, RecoveryHolds
    <2>4. b.entry \in Unspent(b.entry.task)
      BY <2>2, <2>3 DEF Unspent, Spent, RecoverySpent
    <2>5. b.rec = store[b.entry.task] /\ b.rec.state = "pending"
      BY <2>2, <2>3, <2>4 DEF OneCarrier, InStep
    <2>6. store' = store
      BY <1>1, <2>1, <2>2, <2>5, RecordAttempts DEF SetTask
    <2>7. Unspent(t)' \subseteq Unspent(t)
      BY <1>1, <1>2, <2>1, <2>2 DEF Unspent, Spent, WorkerSpent, RecoverySpent
    <2>8. \A q \in Pools : rbatch'[q] \subseteq rbatch[q]
      BY <1>1, <2>1
    <2> QED BY <1>3, <2>6, <2>7, <2>8
  <1>7. CASE RequeueXAdd(p)
    <2>1. /\ UNCHANGED <<store, pel, rcur, rbatch>>
          /\ rpc[p] = "xadd"
          /\ rpc' = [rpc EXCEPT ![p] = "ack"]
          /\ rcur[p] \in Entry /\ rcur[p] # NoEntry
          /\ XAddTask(rcur[p].task)
      BY <1>1, <1>7 DEF RequeueXAdd, RecoveryControl
    <2>2. \A e \in Entry : Spent(e)' <=> Spent(e) \/ e = rcur[p]
      BY <1>1, <1>2, <2>1 DEF Spent, WorkerSpent, RecoverySpent
    <2>3. CASE t # rcur[p].task
      <3>1. Unspent(t)' \subseteq Unspent(t)
        BY <1>1, <2>1, <2>2, <2>3 DEF Unspent, XAddTask
      <3> QED BY <1>3, <2>1, <3>1
    <2>4. CASE t = rcur[p].task
      <3>1. /\ rcur[p] \in pel
            /\ \A w \in Workers : wmsg[w] # rcur[p]
            /\ \A q \in Pools : rcur[q] = rcur[p] => q = p
        BY <2>1 DEF HoldingInv, HeldIsPending, HeldOnce, RecoveryHolds
      <3>2. rcur[p] \in Unspent(t)
        BY <2>1, <2>4, <3>1 DEF Unspent, Spent, RecoverySpent
      <3>3. store[t].state = "pending" /\ MayStart(t) /\ (t \in zset => t \in L)
            /\ \A e \in Unspent(t) : e = rcur[p]
        BY <1>1, <2>4, <3>1, <3>2 DEF OneCarrier, InStep
      <3>4. PICK n \in Entry : n = [id |-> lastId + 1, task |-> t]
        <4>1. [id |-> lastId + 1, task |-> t] \in Entry
          BY <1>1 DEF Entry
        <4> QED BY <4>1
      <3>5. n \notin pel /\ ~ Held(n) /\ n # NoEntry /\ n.task = t
        <4>1. n \notin pel
          BY <1>1, <3>4 DEF HoldingInv, EntriesInv
        <4> QED BY <3>4, <4>1, NotPendingNotHeld
      <3>6. Unspent(t)' \subseteq {n}
        BY <1>1, <2>1, <2>2, <2>4, <3>3, <3>4 DEF Unspent, XAddTask
      <3>7. InStep(n)'
        BY <1>2, <2>1, <3>3, <3>5
        DEF InStep, Held, HeldByWorker, RecoveryHolds, InBatch, MayStart, Exists
      <3>8. \A e \in Unspent(t)' : InStep(e)'
        BY <3>6, <3>7
      <3> QED BY <1>2, <2>1, <3>2, <3>3, <3>6, <3>8 DEF OneCarrier
    <2> QED BY <2>3, <2>4
  <1>8. CASE RequeueAck(p)
    <2>1. /\ UNCHANGED <<store, stream, rbatch>>
          /\ rpc[p] = "ack"
          /\ \E pc : rpc' = [rpc EXCEPT ![p] = pc]
          /\ rcur[p] # NoEntry
          /\ rcur' = [rcur EXCEPT ![p] = NoEntry]
          /\ pel' = pel \ {rcur[p]}
      BY <1>1, <1>8 DEF RequeueAck, XAck, RecoveryControl
    <2>2. rcur[p] \notin stream
      BY <2>1 DEF HoldingInv, HeldIsPending, EntriesInv
    <2>3. \A e : e # rcur[p] /\ Spent(e) => Spent(e)'
      BY <1>1, <1>2, <2>1 DEF Spent, WorkerSpent, RecoverySpent
    <2>4. Unspent(t)' \subseteq Unspent(t)
      BY <2>1, <2>2, <2>3 DEF Unspent
    <2> QED BY <1>3, <2>1, <2>4
  <1> QED BY <1>4, <1>5, <1>6, <1>7, <1>8 DEF RecoveryNext, RecoveryStep

\* Workers and recovery loops do nothing for a task whose creation is not finished.
LEMMA CreationWorker ==
  ASSUME TypeInv, HoldingInv, NEW t \in Tasks, InCreation(t), NEW w \in Workers, WorkerNext(w)
  PROVE  InCreation(t)'
  <1>1. /\ UNCHANGED cpc
        /\ Unspent(t)' \subseteq Unspent(t)
        /\ store \in [Tasks -> Record \union {NoTask}]
        /\ WorkerControl
    BY UnspentWorker DEF WorkerNext, apiVars, TypeInv, TypeOK, RedisTypeOK
  <1>2. CASE Unspent(t) # {}
    BY <1>1, <1>2 DEF InCreation
  <1>3. CASE Unspent(t) = {}
    <2>1. wpc[w] \in {"set_running", "execute", "sched_set", "sched_zadd"} => t # task(w)
      BY <1>1, <1>3, HolderCarries DEF WorkerSpent, WorkerControl
    <2>2. store'[t] = store[t]
      BY <1>1, <2>1, WorkerWrites DEF SetTask
    <2>3. t \in zset' => t \in zset
      BY <2>1
      DEF WorkerNext, WorkerStep, Dequeue, GetMissing, Drop, StartRefused, StartTask, SetRunning,
          SetCompleted, SetRetrying, SetFailed, FinishWith, ScheduleSet, ScheduleZAdd, DlqXAdd,
          DlqSAdd, Acknowledge, At, redisVars
    <2> QED BY <1>1, <1>3, <2>2, <2>3 DEF InCreation, Exists
  <1> QED BY <1>2, <1>3

\* A creation gives a task its first carrier; an expired record had none any more
\* (Create, Enqueue, ScheduleTaskFunc).
LEMMA CarrierApi ==
  ASSUME TypeInv, RequestInv, HoldingInv, NEW L, NEW P, P \subseteq zset,
         \A u \in Tasks : OneCarrier(u, L, P) /\ InCreation(u),
         NEW x \in Tasks, ApiNext(x), krec[x] = NoTask, NEW t \in Tasks
  PROVE  OneCarrier(t, L, P)' /\ InCreation(t)'
  <1> USE NoTaskAssumption, NoEntryAssumption
  <1>1. /\ store \in [Tasks -> Record \union {NoTask}]
        /\ stream \in SUBSET Entry /\ pel \in SUBSET Entry /\ lastId \in Nat
        /\ cpc \in [Tasks -> CreatePc]
        /\ OneCarrier(t, L, P) /\ InCreation(t)
    BY DEF TypeInv, TypeOK, RedisTypeOK, ApiTypeOK
  <1>2. UNCHANGED <<pel, wpc, wmsg, wrec, rpc, rclaim, rbatch, rcur>>
    BY DEF ApiNext, ApiStep, Submit, EnqueueSet, EnqueueXAdd, CreateScheduledSet,
           CreateScheduledZAdd, AbortCreate, CancelRead, CancelSet, Expire, redisVars,
           workerVars, recoveryVars
  <1>3. \A e : Spent(e)' <=> Spent(e)
    BY <1>2 DEF Spent, WorkerSpent, RecoverySpent
  <1>4. ASSUME store'[t] = store[t], cpc'[t] = cpc[t], t \in zset' <=> t \in zset,
               Unspent(t)' = Unspent(t)
        PROVE  OneCarrier(t, L, P)' /\ InCreation(t)'
    <2>1. ASSUME NEW e \in Unspent(t)' PROVE InStep(e)'
      <3>1. InStep(e) /\ e.task = t
        BY <1>1, <1>4, <2>1 DEF OneCarrier, Unspent
      <3> QED BY <1>2, <1>4, <3>1, InStepFrame DEF At, HasWritten
    <2>2. InCreation(t)'
      BY <1>1, <1>4 DEF InCreation, Exists
    <2> QED BY <1>1, <1>4, <2>1, <2>2, CarrierFrame
  <1>5. ASSUME stream' = stream PROVE Unspent(t)' = Unspent(t)
    BY <1>2, <1>3, <1>5 DEF Unspent
  <1>6. CASE t # x
    <2>1. /\ store'[t] = store[t] /\ cpc'[t] = cpc[t]
          /\ t \in zset' <=> t \in zset
      BY <1>1, <1>6
      DEF ApiNext, ApiStep, Submit, EnqueueSet, EnqueueXAdd, CreateScheduledSet,
          CreateScheduledZAdd, AbortCreate, CancelRead, CancelSet, Expire, redisVars,
          SetTask, DelTask
    <2>2. Unspent(t)' = Unspent(t)
      <3>1. stream' = stream \/ XAddTask(x)
        BY DEF ApiNext, ApiStep, Submit, EnqueueSet, EnqueueXAdd, CreateScheduledSet,
               CreateScheduledZAdd, AbortCreate, CancelRead, CancelSet, Expire, redisVars
      <3>2. CASE XAddTask(x)
        BY <1>2, <1>3, <1>6, <3>2 DEF Unspent, XAddTask
      <3> QED BY <1>5, <3>1, <3>2
    <2> QED BY <1>4, <2>1, <2>2
  <1>7. CASE t = x
    <2>1. CASE CancelRead(t)
      BY <1>4, <1>5, <2>1 DEF CancelRead, redisVars
    <2>2. CASE CancelSet(t)
      BY <1>7, <2>2 DEF CancelSet
    <2>3. CASE Submit(t) \/ AbortCreate(t)
      <3>1. /\ UNCHANGED <<store, stream, zset>>
            /\ cpc[t] # "created"
            /\ cpc'[t] \in {"set_pending", "set_scheduled"} => cpc[t] = "new"
            /\ cpc'[t] \in {"set_pending", "set_scheduled", "aborted"}
        BY <1>1, <2>3 DEF Submit, AbortCreate, redisVars
      <3>2. Unspent(t)' = {} /\ t \notin zset'
        BY <1>1, <1>5, <3>1 DEF InCreation
      <3> QED BY <1>1, <3>1, <3>2 DEF OneCarrier, InCreation, Exists
    <2>4. CASE EnqueueSet(t) \/ CreateScheduledSet(t)
      <3>1. /\ UNCHANGED <<stream, zset>>
            /\ cpc[t] # "created"
            /\ \/ cpc'[t] = "xadd" /\ store'[t] = NewRecord("pending")
               \/ cpc'[t] = "zadd" /\ store'[t] = NewRecord("scheduled")
        BY <1>1, <2>4 DEF EnqueueSet, CreateScheduledSet, SetTask
      <3>2. Unspent(t)' = {} /\ t \notin zset'
        BY <1>1, <1>5, <3>1 DEF InCreation
      <3> QED BY <3>1, <3>2 DEF OneCarrier, InCreation
    <2>5. CASE EnqueueXAdd(t)
      <3>1. /\ UNCHANGED <<store, zset>> /\ XAddTask(t)
            /\ cpc[t] = "xadd" /\ cpc'[t] = "created" /\ Exists(t)
        BY <1>1, <2>5 DEF EnqueueXAdd, RequestInv
      <3>2. store[t].state = "pending" /\ MayStart(t) /\ t \notin zset /\ Unspent(t) = {}
        BY <1>1, <3>1, MaxRetriesAssumption DEF InCreation, NewRecord, MayStart
      <3>3. PICK n \in Entry : n = [id |-> lastId + 1, task |-> t]
        <4>1. [id |-> lastId + 1, task |-> t] \in Entry
          BY <1>1 DEF Entry
        <4> QED BY <4>1
      <3>4. n \notin pel /\ ~ Held(n) /\ n # NoEntry /\ n.task = t
        <4>1. n \notin pel
          BY <1>1, <3>3 DEF HoldingInv, EntriesInv
        <4> QED BY <3>3, <4>1, NotPendingNotHeld
      <3>5. Unspent(t)' \subseteq {n}
        BY <1>2, <1>3, <3>1, <3>2, <3>3 DEF Unspent, XAddTask
      <3>6. InStep(n)'
        BY <1>2, <3>1, <3>2, <3>4
        DEF InStep, Held, HeldByWorker, RecoveryHolds, InBatch, MayStart, Exists
      <3>7. \A e \in Unspent(t)' : InStep(e)'
        BY <3>5, <3>6
      <3> QED BY <3>1, <3>2, <3>5, <3>7 DEF OneCarrier, InCreation
    <2>6. CASE CreateScheduledZAdd(t)
      <3>1. /\ UNCHANGED <<store, stream>>
            /\ cpc[t] = "zadd" /\ cpc'[t] = "created" /\ Exists(t)
        BY <1>1, <2>6 DEF CreateScheduledZAdd, RequestInv
      <3>2. /\ store'[t].state = "scheduled" /\ MayStart(t)'
            /\ t \notin P /\ Unspent(t)' = {}
        BY <1>1, <1>5, <3>1, MaxRetriesAssumption DEF InCreation, NewRecord, MayStart, Exists
      <3> QED BY <3>1, <3>2 DEF OneCarrier, InCreation
    <2>7. CASE Expire(t)
      <3>1. /\ UNCHANGED <<stream, zset, cpc>> /\ store'[t] = NoTask
            /\ IsFinal(store[t].state) /\ Exists(t) /\ Untouched(t)
            /\ cpc[t] = "created"
        BY <1>1, <2>7 DEF Expire, DelTask, RequestInv
      <3>2. Unspent(t) = {}
        <4>1. ASSUME NEW e \in Unspent(t) PROVE FALSE
          <5>1. InStep(e) /\ e.task = t /\ e # NoEntry
            BY <1>1, <4>1 DEF OneCarrier, Unspent
          <5>2. \A w \in Workers : wmsg[w] # e
            BY <3>1, <5>1 DEF Untouched, Holdings
          <5> QED BY <3>1, <5>1, <5>2 DEF InStep, IsFinal
        <4> QED BY <4>1
      <3>3. t \in zset => t \in L
        BY <1>1, <3>1 DEF OneCarrier, IsFinal
      <3> QED BY <1>5, <3>1, <3>2, <3>3 DEF OneCarrier, InCreation
    <2> QED
      BY <1>7, <2>1, <2>2, <2>3, <2>4, <2>5, <2>6, <2>7 DEF ApiNext, ApiStep
  <1> QED BY <1>6, <1>7

(***************************************************************************)
(* What a step does to the state WorkQueue speaks of.                      *)
(***************************************************************************)
StatusNow == [t \in Tasks |-> Progress(t)]

BusyNow == [w \in Workers |-> Executing(w)]

RunsNow == [t \in Tasks |-> Runs(t)]

\* What a record says of its task.
Says(r) == IF IsFinal(r.state) THEN r.state ELSE "open"

\* Writing a record changes the status and the count of its task to what it says.
LEMMA WriteEffect ==
  ASSUME TypeInv, NEW t \in Tasks, NEW r \in Record, SetTask(t, r)
  PROVE  /\ StatusNow' = [StatusNow EXCEPT ![t] = Says(r)]
         /\ RunsNow' = [RunsNow EXCEPT ![t] = r.attempts]
  <1>1. store \in [Tasks -> Record \union {NoTask}]
    BY DEF TypeInv, TypeOK, RedisTypeOK
  <1>2. \A u \in Tasks : u # t => store'[u] = store[u]
    BY <1>1 DEF SetTask
  <1>3. store'[t] = r /\ r # NoTask
    BY <1>1, NoTaskAssumption DEF SetTask
  <1>4. \A u \in Tasks : u # t => Progress(u)' = Progress(u) /\ Runs(u)' = Runs(u)
    BY <1>2 DEF Progress, Settled, Runs, Exists
  <1>5. Progress(t)' = Says(r) /\ Runs(t)' = r.attempts
    BY <1>3 DEF Progress, Settled, Runs, Exists, Says
  <1>6. StatusNow' = [StatusNow EXCEPT ![t] = Says(r)]
    BY <1>4, <1>5 DEF StatusNow
  <1> QED BY <1>4, <1>5, <1>6 DEF RunsNow

\* What is not written says what it said.
LEMMA SameStore ==
  ASSUME store' = store
  PROVE  StatusNow' = StatusNow /\ RunsNow' = RunsNow
  BY DEF StatusNow, RunsNow, Progress, Settled, Runs, Exists

\* What a worker does to handlers and records (processNextTask).
LEMMA WorkerShape ==
  ASSUME TypeInv, NEW w \in Workers, WorkerNext(w)
  PROVE  /\ UNCHANGED <<accepted, crashes, slow, cancels>>
         /\ \/ store' = store /\ BusyNow' = BusyNow
            \/ /\ task(w) \in Tasks /\ wrec[w] \in Record
               /\ \/ /\ At(w, "set_running") /\ BusyNow[w] = NoTask /\ wrec[w].state = "running"
                     /\ BusyNow' = [BusyNow EXCEPT ![w] = task(w)]
                     /\ SetTask(task(w), wrec[w])
                  \/ /\ At(w, "execute") /\ BusyNow[w] = task(w)
                     /\ BusyNow' = [BusyNow EXCEPT ![w] = NoTask]
                     /\ \E r \in Record :
                          /\ SetTask(task(w), r) /\ r.attempts = wrec[w].attempts
                          /\ \/ r.state \in {"completed", "failed"}
                             \/ r.state = "retrying" /\ wrec[w].attempts < MaxRetries[task(w)]
                  \/ /\ At(w, "sched_set") /\ BusyNow' = BusyNow
                     /\ SetTask(task(w), wrec[w]) /\ wrec[w].state = "retrying"
  <1> USE NoTaskAssumption, NoEntryAssumption
  <1>1. /\ wpc \in [Workers -> WorkerPc]
        /\ wmsg \in [Workers -> Entry \union {NoEntry}]
        /\ wrec \in [Workers -> Record \union {NoTask}]
        /\ WorkerControl
    BY DEF TypeInv, TypeOK, WorkerTypeOK
  <1>2. UNCHANGED <<accepted, crashes, slow, cancels>>
    BY DEF WorkerNext, apiVars, recoveryVars
  <1>3. ASSUME \A v \in Workers \ {w} : wpc'[v] = wpc[v] /\ wmsg'[v] = wmsg[v]
        PROVE  \A v \in Workers \ {w} : Executing(v)' = Executing(v)
    BY <1>3 DEF Executing, At, task
  <1>4. CASE \/ Dequeue(w) \/ GetMissing(w) \/ Drop(w) \/ StartRefused(w) \/ StartTask(w)
             \/ ScheduleZAdd(w) \/ DlqXAdd(w) \/ DlqSAdd(w) \/ Acknowledge(w)
    <2>1. /\ store' = store
          /\ wpc[w] # "execute" /\ wpc'[w] # "execute"
          /\ \A v \in Workers \ {w} : wpc'[v] = wpc[v] /\ wmsg'[v] = wmsg[v]
      BY <1>1, <1>4
      DEF Dequeue, GetMissing, Drop, StartRefused, StartTask, ScheduleZAdd, DlqXAdd, DlqSAdd,
          Acknowledge, Goto, Return, At, redisVars
    <2>2. Executing(w)' = NoTask /\ Executing(w) = NoTask
      BY <2>1 DEF Executing, At
    <2>3. BusyNow' = BusyNow
      BY <1>3, <2>1, <2>2 DEF BusyNow
    <2> QED BY <1>2, <2>1, <2>3
  <1>5. CASE wpc[w] \in {"set_running", "execute", "sched_set"}
    <2>1. /\ task(w) \in Tasks /\ wrec[w] \in Record /\ MaxRetries[task(w)] \in Nat
          /\ wmsg[w] \in Entry
      BY <1>1, <1>5, MaxRetriesAssumption DEF WorkerControl, Entry, task
    <2>2. CASE SetRunning(w)
      <3>1. /\ wpc[w] = "set_running" /\ wpc' = [wpc EXCEPT ![w] = "execute"] /\ wmsg' = wmsg
            /\ SetTask(task(w), wrec[w]) /\ wrec[w].state = "running"
        BY <1>1, <2>2 DEF SetRunning, At, Goto, WorkerControl
      <3>2. Executing(w) = NoTask /\ Executing(w)' = task(w)
        BY <1>1, <3>1 DEF Executing, At, task
      <3>3. BusyNow' = [BusyNow EXCEPT ![w] = task(w)] /\ BusyNow[w] = NoTask
        BY <1>1, <1>3, <3>1, <3>2 DEF BusyNow
      <3> QED BY <1>2, <2>1, <3>1, <3>3 DEF At
    <2>3. ASSUME NEW r, NEW pc, pc # "execute", At(w, "execute"), FinishWith(w, r, pc)
          PROVE  /\ BusyNow[w] = task(w)
                 /\ BusyNow' = [BusyNow EXCEPT ![w] = NoTask]
                 /\ SetTask(task(w), r)
      <3>1. wpc[w] = "execute" /\ wpc' = [wpc EXCEPT ![w] = pc] /\ wmsg' = wmsg /\ SetTask(task(w), r)
        BY <2>3 DEF FinishWith, At, Goto
      <3>2. Executing(w) = task(w) /\ Executing(w)' = NoTask
        BY <1>1, <2>3, <3>1 DEF Executing, At
      <3> QED BY <1>1, <1>3, <3>1, <3>2 DEF BusyNow
    <2>4. CASE SetCompleted(w)
      <3>1. /\ Complete(wrec[w]) \in Record /\ Complete(wrec[w]).state = "completed"
            /\ Complete(wrec[w]).attempts = wrec[w].attempts
        BY <1>1, <2>1, <2>4, RecordOps, RecordStates, RecordAttempts
        DEF SetCompleted, HandlerReturns, At, WorkerControl
      <3> QED BY <1>2, <2>1, <2>3, <2>4, <3>1 DEF SetCompleted, HandlerReturns
    <2>5. CASE SetRetrying(w)
      <3> DEFINE r == ScheduleRetry(Fail(wrec[w]), MaxRetries[task(w)])
      <3>1. /\ wrec[w].state = "running" /\ wrec[w].attempts < MaxRetries[task(w)]
            /\ CanRetry(wrec[w], MaxRetries[task(w)])
        BY <1>1, <2>5 DEF SetRetrying, HandlerReturns, At, WorkerControl, CanRetry
      <3>2. r \in Record /\ r.state = "retrying" /\ r.attempts = wrec[w].attempts
        BY <2>1, <3>1, RecordOps, RecordStates, RecordAttempts
      <3>3. At(w, "execute") /\ FinishWith(w, r, "sched_set")
        BY <2>5 DEF SetRetrying, HandlerReturns
      <3> HIDE DEF r
      <3> QED BY <1>2, <2>1, <2>3, <3>1, <3>2, <3>3
    <2>6. CASE SetFailed(w)
      <3>1. /\ Fail(wrec[w]) \in Record /\ Fail(wrec[w]).state = "failed"
            /\ Fail(wrec[w]).attempts = wrec[w].attempts
        BY <1>1, <2>1, <2>6, RecordOps, RecordStates, RecordAttempts
        DEF SetFailed, HandlerReturns, At, WorkerControl
      <3> QED BY <1>2, <2>1, <2>3, <2>6, <3>1 DEF SetFailed, HandlerReturns
    <2>7. CASE ScheduleSet(w)
      <3>1. /\ wpc[w] = "sched_set" /\ wpc' = [wpc EXCEPT ![w] = "sched_zadd"] /\ wmsg' = wmsg
            /\ SetTask(task(w), wrec[w]) /\ wrec[w].state = "retrying"
        BY <1>1, <2>7 DEF ScheduleSet, At, Goto, WorkerControl
      <3>2. Executing(w) = NoTask /\ Executing(w)' = NoTask
        BY <1>1, <3>1 DEF Executing, At
      <3>3. BusyNow' = BusyNow
        BY <1>1, <1>3, <3>1, <3>2 DEF BusyNow
      <3> QED BY <1>2, <2>1, <3>1, <3>3 DEF At
    <2> QED
      BY <1>4, <1>5, <2>2, <2>4, <2>5, <2>6, <2>7 DEF WorkerNext, WorkerStep
  <1> QED
    BY <1>4, <1>5
    DEF WorkerNext, WorkerStep, SetRunning, SetCompleted, SetRetrying, SetFailed, ScheduleSet,
        HandlerReturns, At

\* A task without an outcome and a task without a record can become open as far as
\* WorkQueue is concerned.
LEMMA StatusRange ==
  ASSUME TypeInv, OutcomeInv, NEW t \in Tasks
  PROVE  StatusNow[t] \in {"absent", "open", "completed", "failed", "canceled"}
  <1>1. store[t] \in Record \union {NoTask}
    BY DEF TypeInv, TypeOK, RedisTypeOK
  <1> QED BY <1>1 DEF StatusNow, Progress, Settled, OutcomeInv, Exists, IsFinal, Record, State

\* Undisturbed, a worker begins open tasks nobody runs, no more often than their limit,
\* and ends them with an outcome or with an attempt left.
LEMMA WorkerEffect ==
  ASSUME TypeInv, HoldingInv, NEW L, NEW P, \A u \in Tasks : OneCarrier(u, L, P),
         NEW w \in Workers, WorkerNext(w)
  PROVE  \/ UNCHANGED <<StatusNow, BusyNow, RunsNow>>
         \/ \E t \in Tasks :
              /\ BusyNow[w] = NoTask /\ StatusNow[t] = "open" /\ RunsNow[t] < MaxRetries[t]
              /\ \A v \in Workers : BusyNow[v] # t
              /\ BusyNow' = [BusyNow EXCEPT ![w] = t]
              /\ RunsNow' = [RunsNow EXCEPT ![t] = @ + 1]
              /\ StatusNow' = [StatusNow EXCEPT ![t] = "open"]
         \/ \E t \in Tasks, s \in {"completed", "failed", "open"} :
              /\ BusyNow[w] = t /\ BusyNow' = [BusyNow EXCEPT ![w] = NoTask]
              /\ RunsNow' = RunsNow
              /\ StatusNow' = [StatusNow EXCEPT ![t] = s]
              /\ s = "open" => RunsNow[t] < MaxRetries[t]
  <1> DEFINE t == task(w)
  <1>1. /\ store \in [Tasks -> Record \union {NoTask}]
        /\ wmsg \in [Workers -> Entry \union {NoEntry}]
        /\ WorkerControl
    BY DEF TypeInv, TypeOK, RedisTypeOK, WorkerTypeOK
  <1>2. ASSUME wpc[w] \in {"set_running", "execute", "sched_set"}, t \in Tasks
        PROVE  /\ wmsg[w] \in Unspent(t) /\ InStep(wmsg[w])
               /\ \A v \in Workers : wmsg[v] \in Unspent(t) => v = w
               /\ store[t] \in Record /\ Exists(t) /\ RunsNow[t] = store[t].attempts
    <2>1. /\ wmsg[w] \in Unspent(t)
          /\ \A v \in Workers : wmsg[v] = wmsg[w] => v = w
      BY <1>1, <1>2, HolderCarries DEF WorkerSpent, WorkerControl
    <2>2. InStep(wmsg[w]) /\ \A v \in Workers : wmsg[v] \in Unspent(t) => v = w
      BY <1>2, <2>1 DEF OneCarrier
    <2> QED BY <1>1, <1>2, <2>1, <2>2 DEF InStep, Exists, RunsNow, Runs, task
  <1>3. CASE store' = store /\ BusyNow' = BusyNow
    BY <1>3, SameStore
  <1>4. CASE /\ t \in Tasks /\ wrec[w] \in Record
             /\ At(w, "set_running") /\ BusyNow[w] = NoTask /\ wrec[w].state = "running"
             /\ BusyNow' = [BusyNow EXCEPT ![w] = t]
             /\ SetTask(t, wrec[w])
    <2>1. OneCarrier(t, L, P) /\ wpc[w] = "set_running"
      BY <1>4 DEF At
    <2>2. /\ MayStart(t) /\ store[t].state = "pending" /\ store[t] \in Record
          /\ InStep(wmsg[w]) /\ RunsNow[t] = store[t].attempts
      BY <1>2, <1>4, <2>1, PendingToStart
    <2>3. wrec[w].attempts = store[t].attempts + 1
      <3>1. wrec[w] = Start(store[t])
        BY <1>4, <2>2 DEF InStep, task
      <3>2. CanTransitionTo(store[t].state, "running")
        BY <2>2 DEF CanTransitionTo, ValidTransitions, State
      <3> QED BY <2>2, <3>1, <3>2, RecordAttempts
    <2>4. /\ StatusNow' = [StatusNow EXCEPT ![t] = "open"]
          /\ RunsNow' = [RunsNow EXCEPT ![t] = RunsNow[t] + 1]
      BY <1>4, <2>2, <2>3, WriteEffect DEF Says, IsFinal
    <2>5. StatusNow[t] = "open"
      BY <1>4, <2>2 DEF StatusNow, Progress, Settled, MayStart, IsFinal
    <2>6. RunsNow[t] < MaxRetries[t]
      BY <2>2 DEF MayStart
    <2>7. ASSUME NEW v \in Workers, BusyNow[v] = t PROVE FALSE
      <3>1. wpc[v] = "execute" /\ task(v) = t
        BY <1>4, <2>7, NoTaskInHand DEF BusyNow, Executing, At
      <3>2. wmsg[v] # NoEntry
        BY <1>1, <3>1 DEF WorkerControl
      <3>3. wmsg[v] \in Unspent(t)
        BY <3>1, <3>2, HolderCarries DEF WorkerSpent
      <3> QED BY <1>2, <1>4, <2>1, <3>1, <3>3
    <2> QED BY <1>4, <2>4, <2>5, <2>6, <2>7
  <1>5. ASSUME t \in Tasks, wrec[w] \in Record, At(w, "execute"), BusyNow[w] = t,
               BusyNow' = [BusyNow EXCEPT ![w] = NoTask],
               NEW r \in Record, SetTask(t, r), r.attempts = wrec[w].attempts,
               \/ r.state \in {"completed", "failed"}
               \/ r.state = "retrying" /\ wrec[w].attempts < MaxRetries[t]
        PROVE  \E s \in {"completed", "failed", "open"} :
                 /\ RunsNow' = RunsNow
                 /\ StatusNow' = [StatusNow EXCEPT ![t] = s]
                 /\ s = "open" => RunsNow[t] < MaxRetries[t]
    <2>1. wrec[w] = store[t] /\ RunsNow[t] = store[t].attempts
      BY <1>2, <1>5 DEF InStep, HasWritten, At, task
    <2>2. RunsNow' = RunsNow
      BY <1>5, <2>1, WriteEffect DEF RunsNow
    <2>3. StatusNow' = [StatusNow EXCEPT ![t] = Says(r)] /\ Says(r) \in {"completed", "failed", "open"}
          /\ (Says(r) = "open" => r.state = "retrying")
      BY <1>5, WriteEffect DEF Says, IsFinal
    <2> QED BY <1>5, <2>1, <2>2, <2>3
  <1>6. CASE /\ t \in Tasks /\ wrec[w] \in Record
             /\ At(w, "sched_set") /\ BusyNow' = BusyNow
             /\ SetTask(t, wrec[w])
    <2>1. wrec[w] = store[t]
      BY <1>2, <1>6 DEF InStep, HasWritten, At, task
    <2>2. store' = store
      BY <1>1, <1>6, <2>1 DEF SetTask
    <2> QED BY <1>6, <2>2, SameStore
  <1> HIDE DEF t
  <1>7. \/ store' = store /\ BusyNow' = BusyNow
        \/ /\ t \in Tasks /\ wrec[w] \in Record
           /\ \/ /\ At(w, "set_running") /\ BusyNow[w] = NoTask /\ wrec[w].state = "running"
                 /\ BusyNow' = [BusyNow EXCEPT ![w] = t]
                 /\ SetTask(t, wrec[w])
              \/ /\ At(w, "execute") /\ BusyNow[w] = t
                 /\ BusyNow' = [BusyNow EXCEPT ![w] = NoTask]
                 /\ \E r \in Record :
                      /\ SetTask(t, r) /\ r.attempts = wrec[w].attempts
                      /\ \/ r.state \in {"completed", "failed"}
                         \/ r.state = "retrying" /\ wrec[w].attempts < MaxRetries[t]
              \/ /\ At(w, "sched_set") /\ BusyNow' = BusyNow
                 /\ SetTask(t, wrec[w]) /\ wrec[w].state = "retrying"
    BY WorkerShape DEF t
  <1>8. CASE /\ t \in Tasks /\ wrec[w] \in Record
             /\ At(w, "execute") /\ BusyNow[w] = t
             /\ BusyNow' = [BusyNow EXCEPT ![w] = NoTask]
             /\ \E r \in Record :
                  /\ SetTask(t, r) /\ r.attempts = wrec[w].attempts
                  /\ \/ r.state \in {"completed", "failed"}
                     \/ r.state = "retrying" /\ wrec[w].attempts < MaxRetries[t]
    BY <1>5, <1>8
  <1> QED BY <1>3, <1>4, <1>6, <1>7, <1>8

\* Disturbed, it may begin and end what others run, and write an open record over any.
LEMMA WorkerRoughEffect ==
  ASSUME TypeInv, NEW w \in Workers, WorkerNext(w)
  PROVE  \/ UNCHANGED <<StatusNow, BusyNow>>
         \/ \E t \in Tasks :
              /\ BusyNow' = BusyNow
              /\ StatusNow' = [StatusNow EXCEPT ![t] = "open"]
         \/ \E t \in Tasks :
              /\ BusyNow[w] = NoTask /\ BusyNow' = [BusyNow EXCEPT ![w] = t]
              /\ StatusNow' = [StatusNow EXCEPT ![t] = "open"]
         \/ \E t \in Tasks, s \in {"completed", "failed", "open"} :
              /\ BusyNow[w] = t /\ BusyNow' = [BusyNow EXCEPT ![w] = NoTask]
              /\ StatusNow' = [StatusNow EXCEPT ![t] = s]
  <1>1. CASE store' = store /\ BusyNow' = BusyNow
    BY <1>1, SameStore
  <1>2. ASSUME NEW r \in Record, task(w) \in Tasks, SetTask(task(w), r),
               r.state \in {"running", "completed", "failed", "retrying"}
        PROVE  /\ StatusNow' = [StatusNow EXCEPT ![task(w)] = Says(r)]
               /\ Says(r) \in {"completed", "failed", "open"}
               /\ r.state \in {"running", "retrying"} => Says(r) = "open"
    BY <1>2, WriteEffect DEF Says, IsFinal
  <1> QED BY <1>1, <1>2, WorkerShape

\* What a recovery loop does to handlers and records (recoverOrphanedTasks).
LEMMA RecoveryShape ==
  ASSUME TypeInv, NEW p \in Pools, RecoveryNext(p)
  PROVE  /\ BusyNow' = BusyNow
         /\ UNCHANGED <<accepted, crashes, cancels, cpc, krec, zset>>
         /\ \/ store' = store
            \/ /\ slow' = slow
               /\ \E t \in Tasks, r \in Record : SetTask(t, r) /\ r.state = "pending"
  <1>1. /\ UNCHANGED <<wpc, wmsg, wrec>>
        /\ UNCHANGED <<accepted, crashes, cancels, cpc, krec, zset>>
    BY DEF RecoveryNext, RecoveryStep, Claim, ReadMissing, ReadClaimed, RequeueSet,
           RequeueXAdd, RequeueAck, workerVars, apiVars, redisVars
  <1>2. BusyNow' = BusyNow
    BY <1>1 DEF BusyNow, Executing, At, task
  <1>3. CASE RequeueSet(p)
    <2>1. PICK b \in rbatch[p] :
            SetTask(b.entry.task, PrepareForRequeue(b.rec, MaxRetries[b.entry.task]))
      BY <1>3 DEF RequeueSet
    <2>2. b.entry.task \in Tasks /\ b.rec \in Record /\ MaxRetries[b.entry.task] \in Nat
      BY MaxRetriesAssumption DEF TypeInv, TypeOK, RecoveryTypeOK, Claimed, Entry
    <2>3. /\ PrepareForRequeue(b.rec, MaxRetries[b.entry.task]) \in Record
          /\ PrepareForRequeue(b.rec, MaxRetries[b.entry.task]).state = "pending"
      BY <2>2, RecordOps, RecordStates
    <2>4. slow' = slow
      BY <1>3 DEF RequeueSet
    <2> QED BY <1>1, <1>2, <2>1, <2>2, <2>3, <2>4
  <1>4. CASE ~ RequeueSet(p)
    <2>1. store' = store
      BY <1>4 DEF RecoveryNext, RecoveryStep, Claim, ReadMissing, ReadClaimed, RequeueXAdd,
                  RequeueAck, redisVars
    <2> QED BY <1>1, <1>2, <2>1
  <1> QED BY <1>3, <1>4

\* Or to a creation that is not finished.
LEMMA CreationRecovery ==
  ASSUME TypeInv, HoldingInv, NEW L, NEW P, \A u \in Tasks : OneCarrier(u, L, P),
         NEW p \in Pools, RecoveryNext(p), slow' = slow, NEW t \in Tasks, InCreation(t)
  PROVE  InCreation(t)'
  <1>1. UNCHANGED <<cpc, zset, store>> /\ (Unspent(t) = {} => Unspent(t)' = {})
    BY CarrierRecovery, RecoveryShape
  <1> QED BY <1>1 DEF InCreation, Exists

\* A process that comes back holds nothing.
LEMMA CarrierRestart ==
  ASSUME TypeInv, NEW L, NEW P, NEW t \in Tasks, OneCarrier(t, L, P), InCreation(t),
         NEW p \in Pools, Restart(p)
  PROVE  OneCarrier(t, L, P)' /\ InCreation(t)'
  <1> USE NoEntryAssumption
  <1>1. /\ stream \in SUBSET Entry /\ pel \in SUBSET Entry
        /\ UNCHANGED <<store, stream, pel, zset, wmsg, wrec, rbatch, rcur, cpc>>
        /\ \A w \in Workers : wmsg[w] # NoEntry => wpc'[w] = wpc[w]
    BY DEF TypeInv, TypeOK, RedisTypeOK, WorkerTypeOK, WorkerControl, StoppedTogether,
           Restart, SetPool, redisVars, apiVars
  <1>2. \A q \in Pools : rcur[q] # NoEntry => rpc'[q] = rpc[q]
    BY DEF TypeInv, TypeOK, RecoveryTypeOK, RecoveryControl, Restart, SetPool
  <1>3. \A e \in Entry : Spent(e)' <=> Spent(e)
    BY <1>1, <1>2 DEF Spent, WorkerSpent, RecoverySpent
  <1>4. Unspent(t)' = Unspent(t)
    BY <1>1, <1>3 DEF Unspent
  <1>5. ASSUME NEW e \in Unspent(t)' PROVE InStep(e)'
    <2>1. InStep(e) /\ e.task = t /\ e # NoEntry
      BY <1>1, <1>4, <1>5 DEF OneCarrier, Unspent
    <2> QED BY <1>1, <2>1, InStepFrame DEF At, HasWritten
  <1> QED BY <1>1, <1>4, <1>5, CarrierFrame DEF InCreation, Exists

(***************************************************************************)
(* The workers, their recovery loops and the API implement WorkQueue.      *)
(***************************************************************************)

\* No record is written that says dead_letter, and a cancel request in flight has been
\* counted.
LEMMA OutcomeStep ==
  ASSUME TypeInv, RequestInv, OutcomeInv, Next
  PROVE  OutcomeInv'
  <1>1. /\ store \in [Tasks -> Record \union {NoTask}]
        /\ krec \in [Tasks -> Record \union {NoTask}]
        /\ cancels \in Nat
    BY DEF TypeInv, TypeOK, RedisTypeOK, ApiTypeOK
  <1>2. ASSUME \/ store' = store
               \/ \E t \in Tasks : \E r :
                    SetTask(t, r) /\ (r = NoTask \/ r.state # "dead_letter"),
               \A t \in Tasks : krec'[t] # NoTask => krec[t] # NoTask \/ cancels' > 0,
               cancels' >= cancels, cancels' \in Nat
        PROVE  OutcomeInv'
    <2>1. ASSUME NEW t \in Tasks, Exists(t)' PROVE store'[t].state # "dead_letter"
      BY <1>1, <1>2, <2>1 DEF OutcomeInv, Exists, SetTask
    <2>2. ASSUME NEW t \in Tasks, krec'[t] # NoTask PROVE cancels' > 0
      BY <1>1, <1>2, <2>2 DEF OutcomeInv
    <2> QED BY <2>1, <2>2 DEF OutcomeInv
  <1>3. ASSUME NEW w \in Workers, WorkerNext(w) PROVE OutcomeInv'
    <2>1. UNCHANGED <<krec, cancels>>
      BY <1>3 DEF WorkerNext, apiVars
    <2>2. store' = store \/ \E t \in Tasks : \E r : SetTask(t, r) /\ r.state # "dead_letter"
      BY <1>3, WorkerShape
    <2> QED BY <1>1, <1>2, <2>1, <2>2
  <1>4. ASSUME NEW p \in Pools, RecoveryNext(p) PROVE OutcomeInv'
    <2>1. UNCHANGED <<krec, cancels>>
          /\ (store' = store \/ \E t \in Tasks : \E r : SetTask(t, r) /\ r.state # "dead_letter")
      BY <1>4, RecoveryShape
    <2> QED BY <1>1, <1>2, <2>1
  <1>5. ASSUME NEW p \in Pools, Crash(p) \/ Restart(p) PROVE OutcomeInv'
    BY <1>1, <1>2, <1>5 DEF Crash, Restart, redisVars, apiVars
  <1>6. ASSUME NEW t \in Tasks, ApiNext(t) PROVE OutcomeInv'
    <2>1. store' = store \/ \E u \in Tasks : \E r : SetTask(u, r) /\ (r = NoTask \/ r.state # "dead_letter")
      <3>1. CASE CancelSet(t)
        <4>1. SetTask(t, krec[t]) /\ krec[t].state = "canceled"
          BY <3>1 DEF CancelSet, RequestInv
        <4> QED BY <4>1
      <3>2. CASE Expire(t)
        <4>1. SetTask(t, NoTask)
          BY <3>2 DEF Expire, DelTask, SetTask
        <4> QED BY <4>1
      <3>3. CASE EnqueueSet(t) \/ CreateScheduledSet(t)
        BY <3>3 DEF EnqueueSet, CreateScheduledSet, NewRecord
      <3> QED BY <1>6, <3>1, <3>2, <3>3
              DEF ApiNext, ApiStep, Submit, EnqueueXAdd, CreateScheduledZAdd, AbortCreate,
                  CancelRead, redisVars
    <2>2. /\ cancels' \in Nat /\ cancels' >= cancels
          /\ \A u \in Tasks : krec'[u] # NoTask => krec[u] # NoTask \/ cancels' > 0
      BY <1>1, <1>6
      DEF ApiNext, ApiStep, Submit, EnqueueSet, EnqueueXAdd, CreateScheduledSet,
          CreateScheduledZAdd, AbortCreate, CancelRead, CancelSet, Expire
    <2> QED BY <1>2, <2>1, <2>2
  <1> QED BY <1>3, <1>4, <1>5, <1>6 DEF Next

\* Disturbances are counted and never forgotten.
LEMMA WorkersCalm ==
  ASSUME TypeInv, Next, ~ WorkersDisturbed'
  PROVE  /\ ~ WorkersDisturbed
         /\ UNCHANGED <<crashes, slow, cancels>>
         /\ slow = 0 /\ cancels = 0
  <1>1. crashes \in Nat /\ slow \in Nat /\ cancels \in Nat
    BY DEF TypeInv, TypeOK, RecoveryTypeOK, ApiTypeOK
  <1>2. /\ crashes' = crashes \/ crashes' = crashes + 1
        /\ slow' = slow \/ slow' = slow + 1
        /\ cancels' = cancels \/ cancels' = cancels + 1
    <2>1. ASSUME NEW w \in Workers, WorkerNext(w)
          PROVE  UNCHANGED <<crashes, slow, cancels>>
      BY <2>1, WorkerShape
    <2>2. ASSUME NEW p \in Pools, RecoveryNext(p)
          PROVE  UNCHANGED <<crashes, cancels>> /\ (slow' = slow \/ slow' = slow + 1)
      BY <2>2
      DEF RecoveryNext, RecoveryStep, Claim, ReadMissing, ReadClaimed, RequeueSet, RequeueXAdd,
          RequeueAck, apiVars
    <2>3. ASSUME NEW p \in Pools, Crash(p) \/ Restart(p)
          PROVE  UNCHANGED <<slow, cancels>> /\ (crashes' = crashes \/ crashes' = crashes + 1)
      BY <2>3 DEF Crash, Restart, apiVars
    <2>4. ASSUME NEW t \in Tasks, ApiNext(t)
          PROVE  UNCHANGED <<crashes, slow>> /\ (cancels' = cancels \/ cancels' = cancels + 1)
      BY <2>4
      DEF ApiNext, ApiStep, Submit, EnqueueSet, EnqueueXAdd, CreateScheduledSet,
          CreateScheduledZAdd, AbortCreate, CancelRead, CancelSet, Expire, recoveryVars
    <2> QED BY <2>1, <2>2, <2>3, <2>4 DEF Next
  <1>3. crashes' + slow' + cancels' = 0
    BY <1>1, <1>2 DEF WorkersDisturbed
  <1>4. crashes' = 0 /\ slow' = 0 /\ cancels' = 0
    BY <1>1, <1>2, <1>3
  <1>5. crashes = 0 /\ slow = 0 /\ cancels = 0
    BY <1>1, <1>2, <1>4
  <1> QED BY <1>4, <1>5 DEF WorkersDisturbed

\* Undisturbed, one thing at a time carries a task, whatever steps are taken.
LEMMA CalmStep ==
  ASSUME TypeInv, RequestInv, HoldingInv, OutcomeInv, CalmInv, Next, ~ WorkersDisturbed'
  PROVE  CalmInv'
  <1>1. /\ UNCHANGED <<crashes, slow>>
        /\ slow = 0 /\ cancels = 0
        /\ \A u \in Tasks : OneCarrier(u, {}, {}) /\ InCreation(u)
    BY WorkersCalm DEF CalmInv
  <1>2. SUFFICES ASSUME NEW t \in Tasks PROVE OneCarrier(t, {}, {})' /\ InCreation(t)'
    BY DEF CalmInv
  <1>3. ASSUME NEW w \in Workers, WorkerNext(w)
        PROVE  OneCarrier(t, {}, {})' /\ InCreation(t)'
    BY <1>1, <1>3, CarrierWorker, CreationWorker
  <1>4. ASSUME NEW p \in Pools, RecoveryNext(p)
        PROVE  OneCarrier(t, {}, {})' /\ InCreation(t)'
    BY <1>1, <1>4, CarrierRecovery, CreationRecovery
  <1>5. ASSUME NEW p \in Pools, Crash(p) PROVE FALSE
    <2>1. crashes' = crashes + 1 /\ crashes \in Nat
      BY <1>5 DEF Crash, TypeInv, TypeOK
    <2> QED BY <1>1, <2>1
  <1>6. ASSUME NEW p \in Pools, Restart(p)
        PROVE  OneCarrier(t, {}, {})' /\ InCreation(t)'
    BY <1>1, <1>6, CarrierRestart
  <1>7. ASSUME NEW x \in Tasks, ApiNext(x)
        PROVE  OneCarrier(t, {}, {})' /\ InCreation(t)'
    <2>1. krec[x] = NoTask
      BY <1>1 DEF OutcomeInv
    <2> QED BY <1>1, <1>7, <2>1, CarrierApi
  <1> QED BY <1>3, <1>4, <1>5, <1>6, <1>7 DEF Next

\* What the API does to records and answers (Create, Cancel, and the expiry of a key).
LEMMA ApiShape ==
  ASSUME TypeInv, RequestInv, NEW t \in Tasks, ApiNext(t)
  PROVE  /\ BusyNow' = BusyNow
         /\ UNCHANGED <<crashes, slow>>
         /\ cancels' # cancels => UNCHANGED <<StatusNow, accepted>>
         /\ \/ UNCHANGED <<StatusNow, RunsNow, accepted>>
            \/ /\ UNCHANGED accepted /\ StatusNow' = [StatusNow EXCEPT ![t] = "open"]
               /\ cpc[t] \in {"set_pending", "set_scheduled"}
               /\ RunsNow' = [RunsNow EXCEPT ![t] = 0]
            \/ /\ UNCHANGED <<StatusNow, RunsNow>> /\ StatusNow[t] # "absent"
               /\ accepted' = accepted \union {t}
            \/ /\ UNCHANGED accepted /\ krec[t] # NoTask
               /\ StatusNow' = [StatusNow EXCEPT ![t] = "canceled"]
            \/ /\ accepted' = accepted \ {t}
               /\ Exists(t) /\ Settled(t)
               /\ StatusNow' = [StatusNow EXCEPT ![t] = "absent"]
               /\ RunsNow' = [RunsNow EXCEPT ![t] = 0]
  <1>1. /\ store \in [Tasks -> Record \union {NoTask}]
        /\ krec \in [Tasks -> Record \union {NoTask}]
        /\ cancels \in Nat
    BY DEF TypeInv, TypeOK, RedisTypeOK, ApiTypeOK
  <1>2. UNCHANGED <<wpc, wmsg, crashes, slow>>
    BY DEF ApiNext, ApiStep, Submit, EnqueueSet, EnqueueXAdd, CreateScheduledSet,
           CreateScheduledZAdd, AbortCreate, CancelRead, CancelSet, Expire, workerVars,
           recoveryVars
  <1>3. BusyNow' = BusyNow
    BY <1>2 DEF BusyNow, Executing, At, task
  <1>4. CASE Submit(t) \/ AbortCreate(t) \/ CancelRead(t)
    <2>1. UNCHANGED <<store, accepted>>
      BY <1>4 DEF Submit, AbortCreate, CancelRead, redisVars
    <2> QED BY <1>2, <1>3, <2>1, SameStore
  <1>5. CASE EnqueueSet(t) \/ CreateScheduledSet(t)
    <2>1. PICK r \in Record : SetTask(t, r) /\ r.attempts = 0 /\ r.state \in {"pending", "scheduled"}
      BY <1>5 DEF EnqueueSet, CreateScheduledSet, NewRecord, Record, State
    <2>2. /\ StatusNow' = [StatusNow EXCEPT ![t] = "open"]
          /\ RunsNow' = [RunsNow EXCEPT ![t] = 0]
      BY <2>1, WriteEffect DEF Says, IsFinal
    <2>3. UNCHANGED <<accepted, cancels>> /\ cpc[t] \in {"set_pending", "set_scheduled"}
      BY <1>5 DEF EnqueueSet, CreateScheduledSet
    <2> QED BY <1>2, <1>3, <2>2, <2>3
  <1>6. CASE EnqueueXAdd(t) \/ CreateScheduledZAdd(t)
    <2>1. UNCHANGED <<store, cancels>> /\ accepted' = accepted \union {t} /\ Exists(t)
      BY <1>6 DEF EnqueueXAdd, CreateScheduledZAdd, RequestInv
    <2>2. StatusNow[t] # "absent"
      BY <1>1, <2>1 DEF StatusNow, Progress, Settled, IsFinal
    <2> QED BY <1>2, <1>3, <2>1, <2>2, SameStore
  <1>7. CASE CancelSet(t)
    <2>1. /\ krec[t] # NoTask /\ krec[t] \in Record /\ krec[t].state = "canceled"
          /\ SetTask(t, krec[t]) /\ UNCHANGED <<accepted, cancels>>
      BY <1>1, <1>7 DEF CancelSet, RequestInv
    <2>2. StatusNow' = [StatusNow EXCEPT ![t] = "canceled"]
      BY <2>1, WriteEffect DEF Says, IsFinal
    <2> QED BY <1>2, <1>3, <2>1, <2>2
  <1>8. CASE Expire(t)
    <2>1. /\ store' = [store EXCEPT ![t] = NoTask] /\ accepted' = accepted \ {t}
          /\ Exists(t) /\ Settled(t) /\ UNCHANGED cancels
      BY <1>8 DEF Expire, DelTask, Settled
    <2>2. \A u \in Tasks : u # t => Progress(u)' = Progress(u) /\ Runs(u)' = Runs(u)
      BY <1>1, <2>1 DEF Progress, Settled, Runs, Exists
    <2>3. Progress(t)' = "absent" /\ Runs(t)' = 0
      BY <1>1, <2>1 DEF Progress, Runs, Exists
    <2>4. /\ StatusNow' = [StatusNow EXCEPT ![t] = "absent"]
          /\ RunsNow' = [RunsNow EXCEPT ![t] = 0]
      BY <2>2, <2>3 DEF StatusNow, RunsNow
    <2> QED BY <1>2, <1>3, <2>1, <2>4
  <1> QED BY <1>4, <1>5, <1>6, <1>7, <1>8 DEF ApiNext, ApiStep

\* What the death of a process does to its handlers.
LEMMA CrashShape ==
  ASSUME TypeInv, NEW p \in Pools
  PROVE  /\ Crash(p) =>
              /\ UNCHANGED <<StatusNow, accepted>> /\ crashes' = crashes + 1
              /\ UNCHANGED <<slow, cancels>>
              /\ BusyNow' = [w \in Workers |-> IF PoolOf[w] = p THEN NoTask ELSE BusyNow[w]]
         /\ Restart(p) =>
              UNCHANGED <<StatusNow, BusyNow, RunsNow, accepted, crashes, slow, cancels>>
  <1>1. ASSUME Crash(p)
        PROVE  /\ UNCHANGED <<StatusNow, accepted>> /\ crashes' = crashes + 1
               /\ UNCHANGED <<slow, cancels>>
               /\ BusyNow' = [w \in Workers |-> IF PoolOf[w] = p THEN NoTask ELSE BusyNow[w]]
    <2>1. UNCHANGED <<store, accepted, slow, cancels>> /\ crashes' = crashes + 1
      BY <1>1 DEF Crash, redisVars, apiVars
    <2>2. \A w \in Workers :
            /\ PoolOf[w] = p => wpc'[w] = "stopped"
            /\ PoolOf[w] # p => wpc'[w] = wpc[w] /\ wmsg'[w] = wmsg[w]
      BY <1>1 DEF Crash, SetPool
    <2>3. \A w \in Workers :
            Executing(w)' = IF PoolOf[w] = p THEN NoTask ELSE Executing(w)
      BY <2>2 DEF Executing, At, task
    <2> QED BY <2>1, <2>3, SameStore DEF BusyNow
  <1>2. ASSUME Restart(p)
        PROVE  UNCHANGED <<StatusNow, BusyNow, RunsNow, accepted, crashes, slow, cancels>>
    <2>1. UNCHANGED <<store, wmsg, accepted, crashes, slow, cancels>>
      BY <1>2 DEF Restart, redisVars, apiVars
    <2>2. \A w \in Workers : wpc'[w] = wpc[w] \/ (wpc[w] # "execute" /\ wpc'[w] # "execute")
      BY <1>2 DEF Restart, SetPool, TypeInv, TypeOK, WorkerTypeOK, StoppedTogether
    <2>3. \A w \in Workers : Executing(w)' = Executing(w)
      BY <2>1, <2>2 DEF Executing, At, task
    <2> QED BY <2>1, <2>3, SameStore DEF BusyNow
  <1> QED BY <1>1, <1>2

(***************************************************************************)
(* The steps WorkQueue allows, said of the three: d tells whether anything *)
(* has disturbed the system so far.                                        *)
(***************************************************************************)
Idles(d) == UNCHANGED <<StatusNow, BusyNow, accepted>> /\ (d \/ UNCHANGED RunsNow)

Opens(d, t) ==
  /\ UNCHANGED <<BusyNow, accepted>>
  /\ d \/ (StatusNow[t] = "absent" /\ UNCHANGED RunsNow)
  /\ StatusNow' = [StatusNow EXCEPT ![t] = "open"]

Answers(t) ==
  /\ UNCHANGED <<StatusNow, BusyNow, RunsNow>>
  /\ StatusNow[t] # "absent"
  /\ accepted' = accepted \union {t}

Cancels(d, t) ==
  /\ d
  /\ UNCHANGED <<BusyNow, accepted>>
  /\ StatusNow' = [StatusNow EXCEPT ![t] = "canceled"]

Forgets(t) ==
  /\ UNCHANGED BusyNow
  /\ StatusNow[t] \notin {"absent", "open"}
  /\ accepted' = accepted \ {t}
  /\ StatusNow' = [StatusNow EXCEPT ![t] = "absent"]
  /\ RunsNow' = [RunsNow EXCEPT ![t] = 0]

Begins(d, w, t) ==
  /\ UNCHANGED accepted
  /\ BusyNow[w] = NoTask
  /\ \/ d
     \/ /\ StatusNow[t] = "open" /\ RunsNow[t] < MaxRetries[t]
        /\ \A v \in Workers : BusyNow[v] # t
        /\ RunsNow' = [RunsNow EXCEPT ![t] = @ + 1]
  /\ BusyNow' = [BusyNow EXCEPT ![w] = t]
  /\ StatusNow' = [StatusNow EXCEPT ![t] = "open"]

Ends(d, w, t) ==
  /\ UNCHANGED accepted
  /\ BusyNow[w] = t
  /\ BusyNow' = [BusyNow EXCEPT ![w] = NoTask]
  /\ \E s \in {"completed", "failed", "open"} :
       /\ StatusNow' = [StatusNow EXCEPT ![t] = s]
       /\ d \/ (UNCHANGED RunsNow /\ (s = "open" => RunsNow[t] < MaxRetries[t]))

Allowed(d) ==
  \/ Idles(d)
  \/ \E t \in Tasks :
       \/ Opens(d, t) \/ Answers(t) \/ Cancels(d, t) \/ Forgets(t)
       \/ \E w \in Workers : Begins(d, w, t) \/ Ends(d, w, t)

\* What a disturbance does: some handlers end without a trace.
Shakes ==
  /\ UNCHANGED <<StatusNow, accepted>>
  /\ \E dead \in SUBSET Workers :
       BusyNow' = [w \in Workers |-> IF w \in dead THEN NoTask ELSE BusyNow[w]]

\* Handlers may all survive.
LEMMA ShakesNobody ==
  ASSUME UNCHANGED <<StatusNow, BusyNow, accepted>>
  PROVE  Shakes
  <1>1. PICK dead \in SUBSET Workers : dead = {}
    OBVIOUS
  <1>2. BusyNow' = [w \in Workers |-> IF w \in dead THEN NoTask ELSE BusyNow[w]]
    BY <1>1 DEF BusyNow
  <1> QED BY <1>2 DEF Shakes

\* A worker's step (processNextTask).
LEMMA WorkerAllowed ==
  ASSUME TypeInv, NEW d \in BOOLEAN, NEW L, NEW P,
         d \/ (HoldingInv /\ \A u \in Tasks : OneCarrier(u, L, P)),
         NEW w \in Workers, WorkerNext(w)
  PROVE  Allowed(d)
  <1>1. UNCHANGED accepted
    BY WorkerShape
  <1>2. CASE d
    <2>1. CASE UNCHANGED <<StatusNow, BusyNow>>
      BY <1>1, <1>2, <2>1 DEF Allowed, Idles
    <2>2. ASSUME NEW t \in Tasks, BusyNow' = BusyNow,
                 StatusNow' = [StatusNow EXCEPT ![t] = "open"]
          PROVE  Allowed(d)
      BY <1>1, <1>2, <2>2 DEF Allowed, Opens
    <2>3. ASSUME NEW t \in Tasks, BusyNow[w] = NoTask, BusyNow' = [BusyNow EXCEPT ![w] = t],
                 StatusNow' = [StatusNow EXCEPT ![t] = "open"]
          PROVE  Allowed(d)
      BY <1>1, <1>2, <2>3 DEF Allowed, Begins
    <2>4. ASSUME NEW t \in Tasks, NEW s \in {"completed", "failed", "open"},
                 BusyNow[w] = t, BusyNow' = [BusyNow EXCEPT ![w] = NoTask],
                 StatusNow' = [StatusNow EXCEPT ![t] = s]
          PROVE  Allowed(d)
      BY <1>1, <1>2, <2>4 DEF Allowed, Ends
    <2> QED BY <2>1, <2>2, <2>3, <2>4, WorkerRoughEffect
  <1>3. CASE ~ d
    <2>1. CASE UNCHANGED <<StatusNow, BusyNow, RunsNow>>
      BY <1>1, <2>1 DEF Allowed, Idles
    <2>2. ASSUME NEW t \in Tasks,
                 BusyNow[w] = NoTask, StatusNow[t] = "open", RunsNow[t] < MaxRetries[t],
                 \A v \in Workers : BusyNow[v] # t,
                 BusyNow' = [BusyNow EXCEPT ![w] = t],
                 RunsNow' = [RunsNow EXCEPT ![t] = @ + 1],
                 StatusNow' = [StatusNow EXCEPT ![t] = "open"]
          PROVE  Allowed(d)
      BY <1>1, <2>2 DEF Allowed, Begins
    <2>3. ASSUME NEW t \in Tasks, NEW s \in {"completed", "failed", "open"},
                 BusyNow[w] = t, BusyNow' = [BusyNow EXCEPT ![w] = NoTask],
                 RunsNow' = RunsNow, StatusNow' = [StatusNow EXCEPT ![t] = s],
                 s = "open" => RunsNow[t] < MaxRetries[t]
          PROVE  Allowed(d)
      <3>1. Ends(d, w, t)
        BY <1>1, <2>3 DEF Ends
      <3> QED BY <3>1 DEF Allowed
    <2> QED BY <1>3, <2>1, <2>2, <2>3, WorkerEffect
  <1> QED BY <1>2, <1>3

\* A recovery loop's step, unless it claims from a slow handler (recoverOrphanedTasks).
LEMMA RecoveryAllowed ==
  ASSUME TypeInv, NEW d \in BOOLEAN, NEW L, NEW P,
         d \/ (HoldingInv /\ \A u \in Tasks : OneCarrier(u, L, P)),
         NEW p \in Pools, RecoveryNext(p)
  PROVE  IF slow' = slow THEN Allowed(d) ELSE Shakes
  <1>1. UNCHANGED <<BusyNow, accepted>>
    BY RecoveryShape
  <1>2. CASE slow' # slow
    BY <1>1, <1>2, RecoveryShape, SameStore, ShakesNobody
  <1>3. CASE slow' = slow /\ store' = store
    BY <1>1, <1>3, SameStore DEF Allowed, Idles
  <1>4. ASSUME slow' = slow, NEW t \in Tasks, NEW r \in Record, SetTask(t, r),
               r.state = "pending"
        PROVE  Allowed(d)
    <2>1. StatusNow' = [StatusNow EXCEPT ![t] = "open"]
      BY <1>4, WriteEffect DEF Says, IsFinal
    <2>2. CASE d
      BY <1>1, <1>4, <2>1, <2>2 DEF Allowed, Opens
    <2>3. CASE ~ d
      <3>1. store' = store
        BY <1>4, <2>3, CarrierRecovery
      <3> QED BY <1>3, <1>4, <3>1
    <2> QED BY <2>2, <2>3
  <1> QED BY <1>2, <1>3, <1>4, RecoveryShape

\* A step of the API, unless it reads a task to cancel it (Create, Cancel).
LEMMA ApiAllowed ==
  ASSUME TypeInv, RequestInv, OutcomeInv, NEW d \in BOOLEAN,
         d \/ (cancels = 0 /\ \A u \in Tasks : InCreation(u)),
         NEW t \in Tasks, ApiNext(t)
  PROVE  IF cancels' = cancels THEN Allowed(d) ELSE Shakes
  <1>1. UNCHANGED BusyNow
    BY ApiShape
  <1>2. CASE cancels' # cancels
    BY <1>1, <1>2, ApiShape, ShakesNobody
  <1>3. CASE cancels' = cancels
    <2>1. CASE UNCHANGED <<StatusNow, RunsNow, accepted>>
      BY <1>1, <1>3, <2>1 DEF Allowed, Idles
    <2>2. CASE /\ UNCHANGED accepted /\ StatusNow' = [StatusNow EXCEPT ![t] = "open"]
               /\ cpc[t] \in {"set_pending", "set_scheduled"}
               /\ RunsNow' = [RunsNow EXCEPT ![t] = 0]
      <3>1. CASE d
        BY <1>1, <1>3, <2>2, <3>1 DEF Allowed, Opens
      <3>2. CASE ~ d
        <4>1. ~ Exists(t)
          BY <2>2, <3>2 DEF InCreation
        <4>2. StatusNow[t] = "absent" /\ RunsNow[t] = 0
          BY <4>1 DEF StatusNow, Progress, RunsNow, Runs
        <4>3. RunsNow' = RunsNow
          BY <2>2, <4>2 DEF RunsNow
        <4> QED BY <1>1, <1>3, <2>2, <4>2, <4>3 DEF Allowed, Opens
      <3> QED BY <3>1, <3>2
    <2>3. CASE /\ UNCHANGED <<StatusNow, RunsNow>> /\ StatusNow[t] # "absent"
               /\ accepted' = accepted \union {t}
      BY <1>1, <1>3, <2>3 DEF Allowed, Answers
    <2>4. CASE /\ UNCHANGED accepted /\ krec[t] # NoTask
               /\ StatusNow' = [StatusNow EXCEPT ![t] = "canceled"]
      <3>1. d
        BY <2>4 DEF OutcomeInv
      <3> QED BY <1>1, <1>3, <2>4, <3>1 DEF Allowed, Cancels
    <2>5. CASE /\ accepted' = accepted \ {t}
               /\ Exists(t) /\ Settled(t)
               /\ StatusNow' = [StatusNow EXCEPT ![t] = "absent"]
               /\ RunsNow' = [RunsNow EXCEPT ![t] = 0]
      <3>1. StatusNow[t] \notin {"absent", "open"}
        BY <2>5 DEF StatusNow, Progress, Settled, IsFinal
      <3> QED BY <1>1, <1>3, <2>5, <3>1 DEF Allowed, Forgets
    <2> QED BY <2>1, <2>2, <2>3, <2>4, <2>5, ApiShape
  <1> QED BY <1>2, <1>3

\* The death of a process, and its return.
LEMMA PoolAllowed ==
  ASSUME TypeInv, NEW d \in BOOLEAN, NEW p \in Pools, Crash(p) \/ Restart(p)
  PROVE  IF crashes' = crashes THEN Allowed(d) ELSE Shakes
  <1>1. CASE Restart(p)
    BY <1>1, CrashShape DEF Allowed, Idles
  <1>2. CASE Crash(p)
    <2>1. crashes' # crashes
      BY <1>2, CrashShape DEF TypeInv, TypeOK
    <2>2. PICK dead \in SUBSET Workers : dead = {w \in Workers : PoolOf[w] = p}
      OBVIOUS
    <2>3. BusyNow' = [w \in Workers |-> IF w \in dead THEN NoTask ELSE BusyNow[w]]
      BY <1>2, <2>2, CrashShape
    <2> QED BY <1>2, <2>1, <2>3, CrashShape DEF Shakes
  <1> QED BY <1>1, <1>2

\* What is allowed is what WorkQueue allows.
LEMMA QueueAllows ==
  ASSUME TypeInv, OutcomeInv, WorkersDisturbed \in BOOLEAN, WorkersDisturbed' \in BOOLEAN
  PROVE  /\ \A d \in BOOLEAN :
              d = WorkersDisturbed /\ UNCHANGED WorkersDisturbed /\ Allowed(d) =>
                [Queue!Next]_(Queue!promiseVars)
         /\ WorkersDisturbed' /\ Shakes => [Queue!Next]_(Queue!promiseVars)
  <1>1. ASSUME WorkersDisturbed', Shakes PROVE Queue!Disturb
    BY <1>1 DEF Shakes, Queue!Disturb, StatusNow, BusyNow
  <1>2. ASSUME NEW d \in BOOLEAN, d = WorkersDisturbed, UNCHANGED WorkersDisturbed, Allowed(d)
        PROVE  [Queue!Next]_(Queue!promiseVars)
    <2> DEFINE runs == [u \in Tasks |-> IF WorkersDisturbed THEN 0 ELSE Runs(u)]
    <2>1. /\ d => runs' = runs /\ runs = [u \in Tasks |-> 0]
          /\ ~ d => runs = RunsNow /\ runs' = RunsNow'
      BY <1>2 DEF RunsNow
    <2> HIDE DEF runs
    <2>2. CASE Idles(d)
      <3>1. runs' = runs
        BY <2>1, <2>2 DEF Idles
      <3> QED BY <1>2, <2>2, <3>1 DEF Idles, Queue!promiseVars, StatusNow, BusyNow, runs
    <2>3. ASSUME NEW t \in Tasks, Opens(d, t) PROVE [Queue!Next]_(Queue!promiseVars)
      <3>1. runs' = runs
        BY <2>1, <2>3 DEF Opens
      <3>2. CASE StatusNow[t] = "absent"
        <4>1. Queue!Submit(t)
          BY <1>2, <2>3, <3>1, <3>2
          DEF Opens, Queue!Submit, Queue!Become, StatusNow, BusyNow, runs
        <4> QED BY <4>1 DEF Queue!Next
      <3>3. CASE StatusNow[t] = "open"
        <4>1. StatusNow' = StatusNow
          BY <2>3, <3>3 DEF Opens, StatusNow
        <4> QED BY <1>2, <2>3, <3>1, <4>1
                DEF Opens, Queue!promiseVars, StatusNow, BusyNow, runs
      <3>4. CASE StatusNow[t] \in {"completed", "failed", "canceled"}
        <4>1. Queue!Reopen(t)
          BY <1>2, <2>3, <3>1, <3>4
          DEF Opens, Queue!Reopen, Queue!Become, Queue!Outcome, StatusNow, BusyNow, runs
        <4> QED BY <4>1 DEF Queue!Next
      <3> QED BY <3>2, <3>3, <3>4, StatusRange
    <2>4. ASSUME NEW t \in Tasks, Answers(t) PROVE Queue!Answer(t)
      <3>1. runs' = runs
        BY <2>1, <2>4 DEF Answers
      <3> QED BY <1>2, <2>4, <3>1 DEF Answers, Queue!Answer, StatusNow, BusyNow, runs
    <2>5. ASSUME NEW t \in Tasks, Cancels(d, t) PROVE Queue!Cancel(t)
      <3>1. runs' = runs
        BY <2>1, <2>5 DEF Cancels
      <3> QED BY <1>2, <2>5, <3>1
              DEF Cancels, Queue!Cancel, Queue!Become, StatusNow, BusyNow, runs
    <2>6. ASSUME NEW t \in Tasks, Forgets(t) PROVE Queue!Forget(t)
      <3>1. runs' = [runs EXCEPT ![t] = 0]
        BY <2>1, <2>6 DEF Forgets
      <3>2. StatusNow[t] \in {"completed", "failed", "canceled"}
        BY <2>6, StatusRange DEF Forgets
      <3> QED BY <1>2, <2>6, <3>1, <3>2
              DEF Forgets, Queue!Forget, Queue!Become, Queue!Outcome, StatusNow, BusyNow, runs
    <2>7. ASSUME NEW t \in Tasks, NEW w \in Workers, Begins(d, w, t) PROVE Queue!Begin(w, t)
      <3>1. runs' = IF d THEN runs ELSE [runs EXCEPT ![t] = @ + 1]
        BY <2>1, <2>7 DEF Begins
      <3>2. ~ d => /\ StatusNow[t] = "open" /\ runs[t] < MaxRetries[t]
                   /\ \A v \in Workers : BusyNow[v] # t
        BY <2>1, <2>7 DEF Begins
      <3> QED
        BY <1>2, <2>7, <3>1, <3>2
        DEF Begins, Queue!Begin, Queue!Alone, Queue!Become, StatusNow, BusyNow, runs
    <2>8. ASSUME NEW t \in Tasks, NEW w \in Workers, Ends(d, w, t) PROVE Queue!End(w, t)
      <3>1. PICK s \in {"completed", "failed", "open"} :
              /\ StatusNow' = [StatusNow EXCEPT ![t] = s]
              /\ d \/ (UNCHANGED RunsNow /\ (s = "open" => RunsNow[t] < MaxRetries[t]))
        BY <2>8 DEF Ends
      <3>2. runs' = runs /\ (~ d /\ s = "open" => runs[t] < MaxRetries[t])
        BY <2>1, <3>1
      <3> QED BY <1>2, <2>8, <3>1, <3>2
              DEF Ends, Queue!End, Queue!Become, StatusNow, BusyNow, runs
    <2> QED
      BY <1>2, <2>2, <2>3, <2>4, <2>5, <2>6, <2>7, <2>8 DEF Allowed, Queue!Next
  <1> QED BY <1>1, <1>2 DEF Queue!Next

\* A step of the workers, the recovery loops, the API or a supervisor is a step of
\* WorkQueue or changes nothing it speaks of.
LEMMA PromiseStep ==
  ASSUME PromiseIInv, [Next]_vars
  PROVE  [Queue!Next]_(Queue!promiseVars)
  <1>1. /\ TypeInv /\ RequestInv /\ OutcomeInv
        /\ WorkersDisturbed \in BOOLEAN /\ WorkersDisturbed' \in BOOLEAN
        /\ crashes \in Nat /\ slow \in Nat /\ cancels \in Nat
    BY DEF PromiseIInv, IInv, TypeInv, TypeOK, RecoveryTypeOK, ApiTypeOK, WorkersDisturbed
  <1>2. PICK d \in BOOLEAN : d = WorkersDisturbed
    BY <1>1
  <1>3. d \/ (HoldingInv /\ cancels = 0 /\ \A u \in Tasks : OneCarrier(u, {}, {}) /\ InCreation(u))
    <2>1. ~ WorkersDisturbed => slow = 0 /\ cancels = 0
      BY <1>1 DEF WorkersDisturbed
    <2> QED BY <1>2, <2>1 DEF PromiseIInv, IInv, Undisputed, CalmInv
  <1>4. /\ UNCHANGED <<crashes, slow, cancels>> /\ Allowed(d) => [Queue!Next]_(Queue!promiseVars)
        /\ WorkersDisturbed' /\ Shakes => [Queue!Next]_(Queue!promiseVars)
    <2>1. UNCHANGED <<crashes, slow, cancels>> => UNCHANGED WorkersDisturbed
      BY DEF WorkersDisturbed
    <2> QED BY <1>1, <1>2, <2>1, QueueAllows
  <1>5. ASSUME Next, ~ UNCHANGED <<crashes, slow, cancels>> PROVE WorkersDisturbed'
    BY <1>1, <1>5, WorkersCalm
  <1>6. CASE UNCHANGED vars
    <2>1. UNCHANGED <<store, wpc, wmsg, accepted, crashes, slow, cancels>>
      BY <1>6 DEF vars, redisVars, workerVars, recoveryVars, apiVars
    <2>2. UNCHANGED <<StatusNow, RunsNow, BusyNow>>
      BY <2>1, SameStore DEF BusyNow, Executing, At, task
    <2> QED BY <1>4, <2>1, <2>2 DEF Allowed, Idles
  <1>7. ASSUME NEW w \in Workers, WorkerNext(w) PROVE [Queue!Next]_(Queue!promiseVars)
    <2>1. UNCHANGED <<crashes, slow, cancels>> /\ Allowed(d)
      BY <1>1, <1>3, <1>7, WorkerShape, WorkerAllowed
    <2> QED BY <1>4, <2>1
  <1>8. ASSUME NEW p \in Pools, RecoveryNext(p) PROVE [Queue!Next]_(Queue!promiseVars)
    <2>1. UNCHANGED <<crashes, cancels>> /\ IF slow' = slow THEN Allowed(d) ELSE Shakes
      BY <1>1, <1>3, <1>8, RecoveryShape, RecoveryAllowed
    <2> QED BY <1>4, <1>5, <1>8, <2>1 DEF Next
  <1>9. ASSUME NEW p \in Pools, Crash(p) \/ Restart(p) PROVE [Queue!Next]_(Queue!promiseVars)
    <2>1. UNCHANGED <<slow, cancels>> /\ IF crashes' = crashes THEN Allowed(d) ELSE Shakes
      BY <1>1, <1>9, CrashShape, PoolAllowed
    <2> QED BY <1>4, <1>5, <1>9, <2>1 DEF Next
  <1>10. ASSUME NEW t \in Tasks, ApiNext(t) PROVE [Queue!Next]_(Queue!promiseVars)
    <2>1. UNCHANGED <<crashes, slow>> /\ IF cancels' = cancels THEN Allowed(d) ELSE Shakes
      BY <1>1, <1>3, <1>10, ApiShape, ApiAllowed
    <2> QED BY <1>4, <1>5, <1>10, <2>1 DEF Next
  <1> QED BY <1>6, <1>7, <1>8, <1>9, <1>10 DEF Next

\* PromiseIInv is inductive.
LEMMA PromiseInvariance == Spec => []PromiseIInv
  <1>1. Init => OutcomeInv /\ CalmInv
    BY DEF Init, RedisInit, ApiInit, OutcomeInv, CalmInv, OneCarrier, InCreation, Unspent, Exists
  <1>2. IInv /\ OutcomeInv /\ (~ WorkersDisturbed => CalmInv) /\ [Next]_vars
          => OutcomeInv' /\ (~ WorkersDisturbed => CalmInv)'
    <2> SUFFICES ASSUME IInv, OutcomeInv, ~ WorkersDisturbed => CalmInv, [Next]_vars
                 PROVE  OutcomeInv' /\ (~ WorkersDisturbed' => CalmInv')
      OBVIOUS
    <2>1. TypeInv /\ RequestInv /\ (slow = 0 => HoldingInv)
      BY DEF IInv, Undisputed
    <2>2. CASE Next
      <3>1. OutcomeInv'
        BY <2>1, <2>2, OutcomeStep
      <3>2. ~ WorkersDisturbed' => CalmInv'
        BY <2>1, <2>2, WorkersCalm, CalmStep
      <3> QED BY <3>1, <3>2
    <2>3. CASE UNCHANGED vars
      <3>1. OutcomeInv'
        BY <2>3 DEF vars, redisVars, apiVars, OutcomeInv, Exists
      <3>2. UNCHANGED <<WorkersDisturbed, CalmInv>>
        BY <2>3
        DEF vars, redisVars, workerVars, recoveryVars, apiVars, WorkersDisturbed, CalmInv,
            OneCarrier, InCreation, InStep, Unspent, Spent, WorkerSpent, RecoverySpent, MayStart,
            Exists, At, HasWritten
      <3> QED BY <3>1, <3>2
    <2> QED BY <2>2, <2>3
  <1> QED BY <1>1, <1>2, Invariance, PTL DEF Spec, PromiseIInv

\* Whatever the number of workers, processes and tasks, WorkerSystem implements WorkQueue:
\* without crashes, slow handlers and cancel requests every task is run by one worker at
\* a time, at most as often as its retry limit says, and its outcome is final; with them
\* an accepted task is still settled by nothing but a handler that ran or a cancel request
\* (processNextTask against recoverOrphanedTasks).
THEOREM WorkersKeepThePromise == Spec => QueuePromise
  <1>1. Init => Queue!Init
    <2> SUFFICES ASSUME Init PROVE Queue!Init
      OBVIOUS
    <2>1. ~ WorkersDisturbed
      BY DEF Init, RecoveryInit, ApiInit, WorkersDisturbed
    <2>2. /\ \A t \in Tasks : Progress(t) = "absent" /\ Runs(t) = 0
          /\ \A w \in Workers : Executing(w) = NoTask
      BY DEF Init, RedisInit, WorkerInit, Progress, Runs, Executing, Exists, At
    <2>3. accepted = {}
      BY DEF Init, ApiInit
    <2> QED BY <2>1, <2>2, <2>3 DEF Queue!Init
  <1>2. PromiseIInv /\ [Next]_vars => [Queue!Next]_(Queue!promiseVars)
    BY PromiseStep
  <1> QED BY <1>1, <1>2, PromiseInvariance, PTL DEF Spec, QueuePromise, Queue!Spec

(***************************************************************************)
(* The schedulers: a task due is handed from the sorted set to an entry.   *)
(***************************************************************************)

\* What the scheduler at work has in hand; the others have nothing.
LEMMA OneHand ==
  ASSUME NEW s \in Schedulers, \A r \in Schedulers : spc[r] # "idle" => r = s,
         NEW pc, pc # "idle"
  PROVE  OnHand(pc) = IF spc[s] = pc THEN {scur[s]} ELSE {}
  BY DEF OnHand

\* A step of a scheduler concerns the task in its hand only.
LEMMA CarrierElsewhere ==
  ASSUME TypeInv, NEW L, NEW P, NEW M, NEW Q, NEW u \in Tasks, OneCarrier(u, L, P), InCreation(u),
         UNCHANGED <<pel, workerVars, recoveryVars, apiVars>>,
         store'[u] = store[u],
         stream' = stream \/ \E t \in Tasks : t # u /\ XAddTask(t),
         u \in zset' => u \in zset,
         u \in zset' \ M => u \in zset \ L,
         u \in P <=> u \in Q
  PROVE  OneCarrier(u, M, Q)' /\ InCreation(u)'
  <1>1. UNCHANGED <<pel, wpc, wmsg, wrec, rpc, rcur, rbatch, cpc>>
    BY DEF workerVars, recoveryVars, apiVars
  <1>2. \A e : Spent(e)' <=> Spent(e)
    BY <1>1 DEF Spent, WorkerSpent, RecoverySpent
  <1>3. Unspent(u)' = Unspent(u)
    BY <1>1, <1>2 DEF Unspent, XAddTask
  <1>4. ASSUME NEW e \in Unspent(u)' PROVE InStep(e)'
    <2>1. InStep(e) /\ e.task = u
      BY <1>3, <1>4 DEF OneCarrier, Unspent
    <2> QED BY <1>1, <2>1, InStepFrame DEF At, HasWritten
  <1>5. OneCarrier(u, M, Q)'
    BY <1>3, <1>4 DEF OneCarrier, MayStart, Exists
  <1>6. InCreation(u)'
    BY <1>1, <1>3 DEF InCreation, Exists
  <1> QED BY <1>5, <1>6

\* The record written by activateTask is pending and keeps the attempts counted so far.
LEMMA CarrierActivateSet ==
  ASSUME TypeInv, NEW t \in Tasks, OneCarrier(t, {}, {}), InCreation(t), t \in zset,
         Waiting(t), SetTask(t, Transition(store[t], "pending")),
         UNCHANGED <<stream, pel, zset, workerVars, recoveryVars, apiVars>>
  PROVE  OneCarrier(t, {}, {t})' /\ InCreation(t)'
  <1>1. /\ store \in [Tasks -> Record \union {NoTask}]
        /\ UNCHANGED <<wpc, wmsg, rpc, rcur, cpc>>
    BY DEF TypeInv, TypeOK, RedisTypeOK, workerVars, recoveryVars, apiVars
  <1>2. store[t] \in Record /\ store[t].state \in {"scheduled", "retrying"}
    BY <1>1 DEF Waiting, Exists
  <1>3. /\ store'[t] \in Record /\ store'[t].state = "pending"
        /\ store'[t].attempts = store[t].attempts
    BY <1>1, <1>2, ActivatedRecord, RecordAttempts, MaxRetriesAssumption DEF SetTask
  <1>4. \A e : Spent(e)' <=> Spent(e)
    BY <1>1 DEF Spent, WorkerSpent, RecoverySpent
  <1>5. Unspent(t)' = Unspent(t)
    BY <1>4 DEF Unspent
  <1>6. Unspent(t) = {} /\ MayStart(t)
    BY DEF OneCarrier
  <1>7. MayStart(t)'
    BY <1>3, <1>6, NoTaskAssumption DEF MayStart, Exists
  <1>8. cpc[t] = "created"
    BY DEF InCreation
  <1> QED BY <1>1, <1>3, <1>5, <1>6, <1>7, <1>8 DEF OneCarrier, InCreation

\* Its XADD makes an entry the carrier in place of the member.
LEMMA CarrierActivateXAdd ==
  ASSUME TypeInv, HoldingInv, NEW t \in Tasks, OneCarrier(t, {}, {t}), InCreation(t), t \in zset,
         XAddTask(t),
         UNCHANGED <<store, pel, zset, workerVars, recoveryVars, apiVars>>
  PROVE  OneCarrier(t, {t}, {})' /\ InCreation(t)'
  <1>1. /\ stream \in SUBSET Entry /\ pel \in SUBSET Entry /\ lastId \in Nat
        /\ UNCHANGED <<wpc, wmsg, wrec, rpc, rclaim, rbatch, rcur, cpc>>
    BY DEF TypeInv, TypeOK, RedisTypeOK, workerVars, recoveryVars, apiVars
  <1>2. store[t].state = "pending" /\ MayStart(t) /\ Unspent(t) = {}
    BY DEF OneCarrier
  <1>3. cpc[t] = "created"
    BY DEF InCreation
  <1>4. PICK n \in Entry : n = [id |-> lastId + 1, task |-> t]
    <2>1. [id |-> lastId + 1, task |-> t] \in Entry
      BY <1>1 DEF Entry
    <2> QED BY <2>1
  <1>5. n \notin pel /\ ~ Held(n) /\ n # NoEntry /\ n.task = t
    <2>1. n \notin pel
      BY <1>1, <1>4 DEF HoldingInv, EntriesInv
    <2> QED BY <1>4, <2>1, NotPendingNotHeld, NoEntryAssumption
  <1>6. \A e : Spent(e)' <=> Spent(e)
    BY <1>1 DEF Spent, WorkerSpent, RecoverySpent
  <1>7. Unspent(t)' \subseteq {n}
    BY <1>2, <1>4, <1>6 DEF Unspent, XAddTask
  <1>8. InStep(n)'
    BY <1>1, <1>2, <1>5
    DEF InStep, Held, HeldByWorker, RecoveryHolds, InBatch, MayStart, Exists
  <1>9. \A e \in Unspent(t)' : InStep(e)'
    BY <1>7, <1>8
  <1> QED BY <1>1, <1>3, <1>7, <1>9 DEF OneCarrier, InCreation

\* What holds of the hands at the end of a step.
LEMMA HandsAfter ==
  ASSUME NEW M, NEW Q, OnHand("zrem")' = M, OnHand("xadd")' = Q, ScheduleInStep',
         \A u \in Tasks : OneCarrier(u, M, Q)' /\ InCreation(u)'
  PROVE  SystemCalmInv'
  <1>1. ASSUME NEW u \in Tasks PROVE OneCarrier(u, OnHand("zrem"), OnHand("xadd"))'
    BY <1>1 DEF OneCarrier
  <1> QED BY <1>1 DEF SystemCalmInv

\* As long as one scheduler at most is at work, its batch is handed over task by task
\* (processDueTasks, activateTask).
LEMMA SchedulerCalm ==
  ASSUME SystemTypeInv, HoldingInv, SystemCalmInv,
         NEW s \in Schedulers, \A r \in Schedulers : spc[r] # "idle" => r = s,
         SchedulerStep(s), Elsewhere
  PROVE  SystemCalmInv'
  <1> USE NoTaskInHand
  <1>1. /\ TypeInv
        /\ spc \in [Schedulers -> SchedulerPc]
        /\ sbatch \in [Schedulers -> SUBSET Tasks]
        /\ srec \in [Schedulers -> Record \union {NoTask}]
        /\ scur \in [Schedulers -> Tasks \union {NoTask}]
        /\ store \in [Tasks -> Record \union {NoTask}]
        /\ SchedulerControl /\ ScheduleInStep
        /\ UNCHANGED <<workerVars, recoveryVars, apiVars>>
    BY DEF SystemTypeInv, TypeInv, TypeOK, RedisTypeOK, SchedulerTypeOK, SystemCalmInv, Elsewhere
  <1>2. PICK L : L = OnHand("zrem")
    OBVIOUS
  <1>3. PICK P : P = OnHand("xadd")
    OBVIOUS
  <1>4. /\ L = IF spc[s] = "zrem" THEN {scur[s]} ELSE {}
        /\ P = IF spc[s] = "xadd" THEN {scur[s]} ELSE {}
    BY <1>2, <1>3, OneHand
  <1>5. \A u \in Tasks : OneCarrier(u, L, P) /\ InCreation(u)
    BY <1>2, <1>3 DEF SystemCalmInv
  <1>6. /\ \A r \in Schedulers : spc'[r] # "idle" => r = s
        /\ \A r \in Schedulers : r # s => sbatch'[r] = {} /\ spc'[r] = "idle"
    <2>1. \A r \in Schedulers : r # s => spc'[r] = spc[r] /\ sbatch'[r] = sbatch[r]
      BY <1>1
      DEF SchedulerStep, TakeLock, ReadDue, ReadWaiting, ActivateSet, ActivateXAdd,
          ActivateZRem, Unlock, SchedGoto
    <2>2. \A r \in Schedulers : r # s => spc[r] = "idle" /\ sbatch[r] = {}
      BY <1>1 DEF SchedulerControl
    <2> QED BY <2>1, <2>2
  <1>7. \A pc : pc # "idle" => OnHand(pc)' = IF spc'[s] = pc THEN {scur'[s]} ELSE {}
    BY <1>6 DEF OnHand
  <1>8. ASSUME sbatch'[s] \subseteq zset',
               spc'[s] = "set" =>
                 Waiting(scur[s])' /\ srec'[s] = Transition(store'[scur'[s]], "pending")
        PROVE  ScheduleInStep'
    BY <1>6, <1>8 DEF ScheduleInStep, Waiting, Exists
  <1>9. spc[s] \in {"set", "xadd", "zrem"} => scur[s] \in Tasks /\ scur[s] \in zset /\ scur[s] \in sbatch[s]
    BY <1>1 DEF SchedulerControl, ScheduleInStep
  <1>10. CASE TakeLock(s) \/ Unlock(s) \/ (\E due \in SUBSET zset : ReadDue(s, due))
    <2>1. /\ UNCHANGED redisVars /\ L = {} /\ P = {}
          /\ spc'[s] \notin {"set", "xadd", "zrem"}
          /\ sbatch'[s] \subseteq zset \/ sbatch'[s] = sbatch[s]
      BY <1>1, <1>4, <1>10 DEF TakeLock, Unlock, ReadDue, SchedGoto
    <2>2. OnHand("zrem")' = L /\ OnHand("xadd")' = P
      BY <1>7, <2>1
    <2>3. ScheduleInStep'
      BY <1>1, <1>8, <2>1 DEF ScheduleInStep, redisVars
    <2>4. \A u \in Tasks : OneCarrier(u, L, P)' /\ InCreation(u)'
      BY <1>1, <1>5, <2>1, CarrierElsewhere DEF redisVars
    <2> QED BY <2>2, <2>3, <2>4, HandsAfter
  <1>11. ASSUME NEW t \in Tasks, ReadWaiting(s, t) PROVE SystemCalmInv'
    <2>1. /\ UNCHANGED redisVars /\ L = {} /\ P = {} /\ UNCHANGED sbatch
          /\ t \in zset
      BY <1>1, <1>4, <1>11 DEF ReadWaiting, ScheduleInStep
    <2>2. Waiting(t)
      BY <1>5, <2>1 DEF OneCarrier, MayStart, Waiting
    <2>3. /\ spc'[s] = "set" /\ scur'[s] = t
          /\ srec'[s] = Transition(store[t], "pending")
      BY <1>1, <1>11, <2>2 DEF ReadWaiting, SchedGoto
    <2>4. OnHand("zrem")' = L /\ OnHand("xadd")' = P
      BY <1>7, <2>1, <2>3
    <2>5. ScheduleInStep'
      <3>1. sbatch'[s] \subseteq zset'
        BY <1>1, <2>1 DEF ScheduleInStep, redisVars
      <3>2. Waiting(scur[s])'
        BY <2>1, <2>2, <2>3 DEF Waiting, Exists, redisVars
      <3>3. srec'[s] = Transition(store'[scur'[s]], "pending")
        BY <2>1, <2>3 DEF redisVars
      <3> QED BY <1>8, <3>1, <3>2, <3>3
    <2>6. \A u \in Tasks : OneCarrier(u, L, P)' /\ InCreation(u)'
      BY <1>1, <1>5, <2>1, CarrierElsewhere DEF redisVars
    <2> QED BY <2>4, <2>5, <2>6, HandsAfter
  <1>12. CASE ActivateSet(s)
    <2>1. PICK t \in Tasks : t = scur[s]
      BY <1>9, <1>12 DEF ActivateSet
    <2>2. /\ UNCHANGED <<stream, pel, zset, sbatch>> /\ L = {} /\ P = {}
          /\ t \in zset /\ Waiting(t)
          /\ SetTask(t, Transition(store[t], "pending"))
          /\ spc'[s] = "xadd" /\ scur'[s] = t
      BY <1>1, <1>4, <1>9, <1>12, <2>1 DEF ActivateSet, ScheduleInStep, SchedGoto
    <2>3. OnHand("zrem")' = {} /\ OnHand("xadd")' = {t}
      BY <1>7, <2>2
    <2>4. ScheduleInStep'
      BY <1>1, <1>8, <2>2 DEF ScheduleInStep
    <2>5. OneCarrier(t, {}, {t})' /\ InCreation(t)'
      BY <1>1, <1>5, <2>2, CarrierActivateSet
    <2>6. ASSUME NEW u \in Tasks, u # t PROVE OneCarrier(u, {}, {t})' /\ InCreation(u)'
      <3>1. store'[u] = store[u]
        BY <1>1, <2>2, <2>6 DEF SetTask
      <3> QED BY <1>1, <1>5, <2>2, <2>6, <3>1, CarrierElsewhere
    <2>7. \A u \in Tasks : OneCarrier(u, {}, {t})' /\ InCreation(u)'
      BY <2>5, <2>6
    <2> QED BY <2>3, <2>4, <2>7, HandsAfter
  <1>13. CASE ActivateXAdd(s)
    <2>1. PICK t \in Tasks : t = scur[s]
      BY <1>9, <1>13 DEF ActivateXAdd
    <2>2. /\ UNCHANGED <<store, pel, zset, sbatch>> /\ L = {} /\ P = {t}
          /\ t \in zset /\ XAddTask(t)
          /\ spc'[s] = "zrem" /\ scur'[s] = t
      BY <1>1, <1>4, <1>9, <1>13, <2>1 DEF ActivateXAdd, SchedGoto
    <2>3. OnHand("zrem")' = {t} /\ OnHand("xadd")' = {}
      BY <1>7, <2>2
    <2>4. ScheduleInStep'
      BY <1>1, <1>8, <2>2 DEF ScheduleInStep
    <2>5. OneCarrier(t, {t}, {})' /\ InCreation(t)'
      BY <1>1, <1>5, <2>2, CarrierActivateXAdd
    <2>6. ASSUME NEW u \in Tasks, u # t PROVE OneCarrier(u, {t}, {})' /\ InCreation(u)'
      BY <1>1, <1>5, <2>2, <2>6, CarrierElsewhere
    <2>7. \A u \in Tasks : OneCarrier(u, {t}, {})' /\ InCreation(u)'
      BY <2>5, <2>6
    <2> QED BY <2>3, <2>4, <2>7, HandsAfter
  <1>14. CASE ActivateZRem(s)
    <2>1. PICK t \in Tasks : t = scur[s]
      BY <1>9, <1>14 DEF ActivateZRem
    <2>2. /\ UNCHANGED <<store, stream, pel>> /\ L = {t} /\ P = {}
          /\ zset' = zset \ {t} /\ sbatch'[s] = sbatch[s] \ {t}
          /\ spc'[s] \in {"unlock", "next"}
      BY <1>1, <1>4, <1>14, <2>1 DEF ActivateZRem, SchedGoto
    <2>3. OnHand("zrem")' = {} /\ OnHand("xadd")' = {}
      BY <1>7, <2>2
    <2>4. ScheduleInStep'
      BY <1>1, <1>8, <2>2 DEF ScheduleInStep
    <2>5. \A u \in Tasks : OneCarrier(u, {}, {})' /\ InCreation(u)'
      BY <1>1, <1>5, <2>2, CarrierElsewhere
    <2> QED BY <2>3, <2>4, <2>5, HandsAfter
  <1> QED BY <1>10, <1>11, <1>12, <1>13, <1>14 DEF SchedulerStep

\* What a scheduler has read nobody else writes: the task has no other carrier.
LEMMA ScheduleUndisturbed ==
  ASSUME SystemTypeInv, RequestInv, HoldingInv, SystemCalmInv, SchedulerExclusion,
         expiries = 0, \A t \in Tasks : krec[t] = NoTask,
         Next, UNCHANGED <<schedulerVars, slow, crashes>>
  PROVE  ScheduleInStep'
  <1>1. /\ TypeInv /\ SchedulerControl /\ ScheduleInStep
        /\ store \in [Tasks -> Record \union {NoTask}]
        /\ scur \in [Schedulers -> Tasks \union {NoTask}]
        /\ sbatch \in [Schedulers -> SUBSET Tasks]
        /\ UNCHANGED <<spc, sbatch, srec, scur>>
    BY DEF SystemTypeInv, TypeInv, TypeOK, RedisTypeOK, SchedulerTypeOK, SystemCalmInv,
           schedulerVars
  <1>2. zset \subseteq zset'
    BY DEF Next, WorkerNext, WorkerStep, Dequeue, GetMissing, Drop, StartRefused, StartTask,
           SetRunning, SetCompleted, SetRetrying, SetFailed, FinishWith, ScheduleSet,
           ScheduleZAdd, DlqXAdd, DlqSAdd, Acknowledge, RecoveryNext, RecoveryStep, Claim,
           ReadMissing, ReadClaimed, RequeueSet, RequeueXAdd, RequeueAck, Crash, Restart,
           ApiNext, ApiStep, Submit, EnqueueSet, EnqueueXAdd, CreateScheduledSet,
           CreateScheduledZAdd, AbortCreate, CancelRead, CancelSet, Expire, redisVars
  <1>3. ASSUME NEW s \in Schedulers, spc[s] = "set"
        PROVE  Waiting(scur[s])' /\ srec'[s] = Transition(store'[scur'[s]], "pending")
    <2>1. PICK t \in Tasks : t = scur[s]
      BY <1>1, <1>3 DEF SchedulerControl
    <2>2. /\ t \in zset /\ Waiting(t)
          /\ srec[s] = Transition(store[t], "pending")
      BY <1>1, <1>3, <2>1, NoTaskInHand DEF ScheduleInStep, SchedulerControl
    <2>3. t \notin OnHand("zrem")
      BY <1>1, <1>3 DEF OnHand, SchedulerExclusion
    <2>4. Unspent(t) = {} /\ cpc[t] = "created"
      BY <2>2, <2>3 DEF SystemCalmInv, OneCarrier, InCreation
    <2>5. store'[t] = store[t]
      <3>1. ASSUME NEW w \in Workers, WorkerNext(w) PROVE store'[t] = store[t]
        <4>1. ASSUME wmsg[w] # NoEntry, wpc[w] \in {"set_running", "execute", "sched_set"}
              PROVE  task(w) # t
          BY <1>1, <2>4, <4>1, HolderCarries DEF WorkerSpent
        <4> QED BY <1>1, <3>1, <4>1, WorkerWrites DEF SetTask
      <3>2. ASSUME NEW p \in Pools, RecoveryNext(p) PROVE store'[t] = store[t]
        <4>1. PICK L : L = OnHand("zrem")
          OBVIOUS
        <4>2. PICK P : P = OnHand("xadd")
          OBVIOUS
        <4>3. \A u \in Tasks : OneCarrier(u, L, P)
          BY <4>1, <4>2 DEF SystemCalmInv
        <4> QED BY <1>1, <3>2, <4>3, CarrierRecovery
      <3>3. ASSUME NEW p \in Pools, Crash(p) \/ Restart(p) PROVE store'[t] = store[t]
        BY <3>3 DEF Crash, Restart, redisVars
      <3>4. ASSUME NEW x \in Tasks, ApiNext(x) PROVE store'[t] = store[t]
        <4>1. krec[x] = NoTask
          OBVIOUS
        <4>2. ~ IsFinal(store[t].state)
          BY <2>2 DEF Waiting, IsFinal
        <4> QED
          BY <1>1, <2>4, <3>4, <4>1, <4>2
          DEF ApiNext, ApiStep, Submit, EnqueueSet, EnqueueXAdd, CreateScheduledSet,
              CreateScheduledZAdd, AbortCreate, CancelRead, CancelSet, Expire, redisVars,
              SetTask, DelTask
      <3> QED BY <3>1, <3>2, <3>3, <3>4 DEF Next
    <2>6. Waiting(scur[s])'
      BY <1>1, <2>1, <2>2, <2>5 DEF Waiting, Exists
    <2> QED BY <1>1, <2>1, <2>2, <2>5, <2>6
  <1> QED BY <1>1, <1>2, <1>3 DEF ScheduleInStep

\* The steps of workers, recovery loops and the API between those of the scheduler.
LEMMA WithoutSchedulerCalm ==
  ASSUME SystemTypeInv, RequestInv, HoldingInv, SystemCalmInv, SchedulerExclusion,
         expiries = 0, \A t \in Tasks : krec[t] = NoTask,
         Next, UNCHANGED <<schedulerVars, slow, crashes>>
  PROVE  SystemCalmInv'
  <1>1. TypeInv /\ SchedulerControl /\ ScheduleInStep /\ UNCHANGED <<spc, scur>>
    BY DEF SystemTypeInv, SystemCalmInv, schedulerVars
  <1>2. PICK L : L = OnHand("zrem")
    OBVIOUS
  <1>3. PICK P : P = OnHand("xadd")
    OBVIOUS
  <1>4. \A u \in Tasks : OneCarrier(u, L, P) /\ InCreation(u)
    BY <1>2, <1>3 DEF SystemCalmInv
  <1>5. P \subseteq zset
    BY <1>1, <1>3 DEF OnHand, SchedulerControl, ScheduleInStep
  <1>6. OnHand("zrem")' = L /\ OnHand("xadd")' = P
    BY <1>1, <1>2, <1>3 DEF OnHand
  <1>7. ASSUME NEW t \in Tasks PROVE OneCarrier(t, L, P)' /\ InCreation(t)'
    <2>1. ASSUME NEW w \in Workers, WorkerNext(w)
          PROVE  OneCarrier(t, L, P)' /\ InCreation(t)'
      BY <1>1, <1>4, <1>5, <2>1, CarrierWorker, CreationWorker
    <2>2. ASSUME NEW p \in Pools, RecoveryNext(p)
          PROVE  OneCarrier(t, L, P)' /\ InCreation(t)'
      BY <1>1, <1>4, <2>2, CarrierRecovery, CreationRecovery
    <2>3. ASSUME NEW p \in Pools, Crash(p) PROVE FALSE
      <3>1. crashes' = crashes + 1 /\ crashes \in Nat
        BY <1>1, <2>3 DEF Crash, TypeInv, TypeOK
      <3> QED BY <3>1
    <2>4. ASSUME NEW p \in Pools, Restart(p)
          PROVE  OneCarrier(t, L, P)' /\ InCreation(t)'
      BY <1>1, <1>4, <2>4, CarrierRestart
    <2>5. ASSUME NEW x \in Tasks, ApiNext(x)
          PROVE  OneCarrier(t, L, P)' /\ InCreation(t)'
      BY <1>1, <1>4, <1>5, <2>5, CarrierApi
    <2> QED BY <2>1, <2>2, <2>3, <2>4, <2>5 DEF Next
  <1> QED BY <1>6, <1>7, ScheduleUndisturbed, HandsAfter

(***************************************************************************)
(* The whole service implements WorkQueue.                                 *)
(***************************************************************************)

\* A step of the service is a step of WorkerSystem or one of a scheduler or its lock.
LEMMA SystemSplit ==
  ASSUME SystemNext
  PROVE  (Next /\ UNCHANGED schedulerVars) \/ SchedulerMoves
  <1>1. ASSUME NEW w \in Workers, SystemWorkerNext(w) PROVE Next /\ UNCHANGED schedulerVars
    BY <1>1 DEF SystemWorkerNext, Next
  <1>2. ASSUME NEW p \in Pools, SystemPoolNext(p) PROVE Next /\ UNCHANGED schedulerVars
    BY <1>2 DEF SystemPoolNext, Next
  <1>3. ASSUME NEW t \in Tasks, SystemApiNext(t) PROVE Next /\ UNCHANGED schedulerVars
    BY <1>3 DEF SystemApiNext, Next
  <1> QED BY <1>1, <1>2, <1>3 DEF SystemNext, SchedulerNext, SchedulerMoves

\* Disturbances of the service are counted and never forgotten.
LEMMA ServiceCalm ==
  ASSUME SystemTypeInv, (Next /\ UNCHANGED schedulerVars) \/ SchedulerMoves, ~ ServiceDisturbed'
  PROVE  /\ ~ ServiceDisturbed
         /\ UNCHANGED <<crashes, slow, cancels, schedCrashes, expiries>>
         /\ slow = 0 /\ cancels = 0 /\ expiries = 0
  <1>1. /\ TypeInv
        /\ crashes \in Nat /\ slow \in Nat /\ cancels \in Nat
        /\ schedCrashes \in Nat /\ expiries \in Nat
    BY DEF SystemTypeInv, TypeInv, TypeOK, RecoveryTypeOK, ApiTypeOK, SchedulerTypeOK
  <1>2. CASE Next /\ UNCHANGED schedulerVars
    <2>1. UNCHANGED <<schedCrashes, expiries>>
      BY <1>2 DEF schedulerVars
    <2>2. TypeInv'
      BY <1>1, <1>2, TypeStep
    <2>3. crashes' \in Nat /\ slow' \in Nat /\ cancels' \in Nat
      BY <2>2 DEF TypeInv, TypeOK, RecoveryTypeOK, ApiTypeOK
    <2>4. ~ (crashes' + slow' + cancels' + schedCrashes + expiries > 0)
      BY <2>1 DEF ServiceDisturbed
    <2>5. crashes' = 0 /\ slow' = 0 /\ cancels' = 0 /\ schedCrashes = 0 /\ expiries = 0
      <3>1. PICK i \in Nat, j \in Nat, k \in Nat, l \in Nat, m \in Nat :
              crashes' = i /\ slow' = j /\ cancels' = k /\ schedCrashes = l /\ expiries = m
        BY <1>1, <2>3
      <3>2. ~ (i + j + k + l + m > 0)
        BY <2>4, <3>1
      <3> QED BY <3>1, <3>2
    <2>6. ~ WorkersDisturbed'
      BY <2>5 DEF WorkersDisturbed
    <2>7. UNCHANGED <<crashes, slow, cancels>>
      BY <1>1, <1>2, <2>6, WorkersCalm
    <2> QED BY <2>1, <2>5, <2>7 DEF ServiceDisturbed
  <1>3. CASE SchedulerMoves
    <2>1. UNCHANGED <<crashes, slow, cancels>>
      BY <1>3 DEF SchedulerMoves, Elsewhere, recoveryVars, apiVars
    <2>2. /\ schedCrashes' = schedCrashes \/ schedCrashes' = schedCrashes + 1
          /\ expiries' = expiries \/ expiries' = expiries + 1
      BY <1>3
      DEF SchedulerMoves, SchedulerStep, TakeLock, ReadDue, ReadWaiting, ActivateSet,
          ActivateXAdd, ActivateZRem, Unlock, SchedulerCrash, LockExpires
    <2>3. ~ (crashes + slow + cancels + schedCrashes' + expiries' > 0)
      BY <2>1 DEF ServiceDisturbed
    <2>4. schedCrashes' \in Nat /\ expiries' \in Nat
      BY <1>1, <2>2
    <2>5. crashes = 0 /\ slow = 0 /\ cancels = 0 /\ schedCrashes' = 0 /\ expiries' = 0
      <3>1. PICK i \in Nat, j \in Nat, k \in Nat, l \in Nat, m \in Nat :
              crashes = i /\ slow = j /\ cancels = k /\ schedCrashes' = l /\ expiries' = m
        BY <1>1, <2>4
      <3>2. ~ (i + j + k + l + m > 0)
        BY <2>3, <3>1
      <3> QED BY <3>1, <3>2
    <2>6. schedCrashes = 0 /\ expiries = 0
      BY <1>1, <2>2, <2>5
    <2> QED BY <2>1, <2>5, <2>6 DEF ServiceDisturbed
  <1> QED BY <1>2, <1>3

\* And of the whole service, whose disturbances are more.
LEMMA ServiceAllows ==
  ASSUME TypeInv, OutcomeInv, ServiceDisturbed \in BOOLEAN, ServiceDisturbed' \in BOOLEAN
  PROVE  /\ \A d \in BOOLEAN :
              d = ServiceDisturbed /\ UNCHANGED ServiceDisturbed /\ Allowed(d) =>
                [Service!Next]_(Service!promiseVars)
         /\ ServiceDisturbed' /\ Shakes => [Service!Next]_(Service!promiseVars)
  <1>1. ASSUME ServiceDisturbed', Shakes PROVE Service!Disturb
    BY <1>1 DEF Shakes, Service!Disturb, StatusNow, BusyNow
  <1>2. ASSUME NEW d \in BOOLEAN, d = ServiceDisturbed, UNCHANGED ServiceDisturbed, Allowed(d)
        PROVE  [Service!Next]_(Service!promiseVars)
    <2> DEFINE runs == [u \in Tasks |-> IF ServiceDisturbed THEN 0 ELSE Runs(u)]
    <2>1. /\ d => runs' = runs /\ runs = [u \in Tasks |-> 0]
          /\ ~ d => runs = RunsNow /\ runs' = RunsNow'
      BY <1>2 DEF RunsNow
    <2> HIDE DEF runs
    <2>2. CASE Idles(d)
      <3>1. runs' = runs
        BY <2>1, <2>2 DEF Idles
      <3> QED BY <1>2, <2>2, <3>1 DEF Idles, Service!promiseVars, StatusNow, BusyNow, runs
    <2>3. ASSUME NEW t \in Tasks, Opens(d, t) PROVE [Service!Next]_(Service!promiseVars)
      <3>1. runs' = runs
        BY <2>1, <2>3 DEF Opens
      <3>2. CASE StatusNow[t] = "absent"
        <4>1. Service!Submit(t)
          BY <1>2, <2>3, <3>1, <3>2
          DEF Opens, Service!Submit, Service!Become, StatusNow, BusyNow, runs
        <4> QED BY <4>1 DEF Service!Next
      <3>3. CASE StatusNow[t] = "open"
        <4>1. StatusNow' = StatusNow
          BY <2>3, <3>3 DEF Opens, StatusNow
        <4> QED BY <1>2, <2>3, <3>1, <4>1
                DEF Opens, Service!promiseVars, StatusNow, BusyNow, runs
      <3>4. CASE StatusNow[t] \in {"completed", "failed", "canceled"}
        <4>1. Service!Reopen(t)
          BY <1>2, <2>3, <3>1, <3>4
          DEF Opens, Service!Reopen, Service!Become, Service!Outcome, StatusNow, BusyNow, runs
        <4> QED BY <4>1 DEF Service!Next
      <3> QED BY <3>2, <3>3, <3>4, StatusRange
    <2>4. ASSUME NEW t \in Tasks, Answers(t) PROVE Service!Answer(t)
      <3>1. runs' = runs
        BY <2>1, <2>4 DEF Answers
      <3> QED BY <1>2, <2>4, <3>1 DEF Answers, Service!Answer, StatusNow, BusyNow, runs
    <2>5. ASSUME NEW t \in Tasks, Cancels(d, t) PROVE Service!Cancel(t)
      <3>1. runs' = runs
        BY <2>1, <2>5 DEF Cancels
      <3> QED BY <1>2, <2>5, <3>1
              DEF Cancels, Service!Cancel, Service!Become, StatusNow, BusyNow, runs
    <2>6. ASSUME NEW t \in Tasks, Forgets(t) PROVE Service!Forget(t)
      <3>1. runs' = [runs EXCEPT ![t] = 0]
        BY <2>1, <2>6 DEF Forgets
      <3>2. StatusNow[t] \in {"completed", "failed", "canceled"}
        BY <2>6, StatusRange DEF Forgets
      <3> QED BY <1>2, <2>6, <3>1, <3>2
              DEF Forgets, Service!Forget, Service!Become, Service!Outcome, StatusNow, BusyNow, runs
    <2>7. ASSUME NEW t \in Tasks, NEW w \in Workers, Begins(d, w, t) PROVE Service!Begin(w, t)
      <3>1. runs' = IF d THEN runs ELSE [runs EXCEPT ![t] = @ + 1]
        BY <2>1, <2>7 DEF Begins
      <3>2. ~ d => /\ StatusNow[t] = "open" /\ runs[t] < MaxRetries[t]
                   /\ \A v \in Workers : BusyNow[v] # t
        BY <2>1, <2>7 DEF Begins
      <3> QED
        BY <1>2, <2>7, <3>1, <3>2
        DEF Begins, Service!Begin, Service!Alone, Service!Become, StatusNow, BusyNow, runs
    <2>8. ASSUME NEW t \in Tasks, NEW w \in Workers, Ends(d, w, t) PROVE Service!End(w, t)
      <3>1. PICK s \in {"completed", "failed", "open"} :
              /\ StatusNow' = [StatusNow EXCEPT ![t] = s]
              /\ d \/ (UNCHANGED RunsNow /\ (s = "open" => RunsNow[t] < MaxRetries[t]))
        BY <2>8 DEF Ends
      <3>2. runs' = runs /\ (~ d /\ s = "open" => runs[t] < MaxRetries[t])
        BY <2>1, <3>1
      <3> QED BY <1>2, <2>8, <3>1, <3>2
              DEF Ends, Service!End, Service!Become, StatusNow, BusyNow, runs
    <2> QED
      BY <1>2, <2>2, <2>3, <2>4, <2>5, <2>6, <2>7, <2>8 DEF Allowed, Service!Next
  <1> QED BY <1>1, <1>2 DEF Service!Next

\* Undisturbed, one thing at a time carries a task, whoever takes the step.
LEMMA ServiceCalmStep ==
  ASSUME SystemIInv, OutcomeInv, ~ ServiceDisturbed => SystemCalmInv,
         (Next /\ UNCHANGED schedulerVars) \/ SchedulerMoves, ~ ServiceDisturbed'
  PROVE  SystemCalmInv'
  <1>1. /\ SystemTypeInv /\ RequestInv /\ LockInv /\ TypeInv
        /\ SystemCalmInv
        /\ UNCHANGED <<crashes, slow, cancels, schedCrashes, expiries>>
        /\ slow = 0 /\ cancels = 0 /\ expiries = 0
    BY ServiceCalm DEF SystemIInv, SystemTypeInv
  <1>2. HoldingInv /\ SchedulerExclusion
    BY <1>1 DEF SystemIInv, LockInv
  <1>3. \A t \in Tasks : krec[t] = NoTask
    BY <1>1 DEF OutcomeInv
  <1>4. CASE Next /\ UNCHANGED schedulerVars
    BY <1>1, <1>2, <1>3, <1>4, WithoutSchedulerCalm
  <1>5. CASE SchedulerMoves
    <2>1. ASSUME NEW s \in Schedulers, SchedulerStep(s) PROVE SystemCalmInv'
      <3>1. \A r \in Schedulers : spc[r] # "idle" => r = s
        <4>1. CASE spc[s] # "idle"
          BY <1>1, <1>2, <4>1 DEF SchedulerExclusion
        <4>2. CASE spc[s] = "idle"
          <5>1. ~ lock
            BY <2>1, <4>2 DEF SchedulerStep, TakeLock, ReadDue, ReadWaiting, ActivateSet,
                              ActivateXAdd, ActivateZRem, Unlock
          <5> QED BY <1>1, <5>1 DEF LockInv
        <4> QED BY <4>1, <4>2
      <3>2. Elsewhere
        BY <1>5 DEF SchedulerMoves
      <3> QED BY <1>1, <1>2, <2>1, <3>1, <3>2, SchedulerCalm
    <2>2. ASSUME NEW s \in Schedulers, SchedulerCrash(s) PROVE FALSE
      <3>1. schedCrashes' = schedCrashes + 1 /\ schedCrashes \in Nat
        BY <1>1, <2>2 DEF SchedulerCrash, SystemTypeInv, SchedulerTypeOK
      <3> QED BY <1>1, <3>1
    <2>3. CASE LockExpires
      <3>1. /\ UNCHANGED <<redisVars, spc, sbatch, srec, scur>>
            /\ UNCHANGED <<workerVars, recoveryVars, apiVars>>
        BY <1>5, <2>3 DEF LockExpires, SchedulerMoves, Elsewhere
      <3>2. PICK L : L = OnHand("zrem")
        OBVIOUS
      <3>3. PICK P : P = OnHand("xadd")
        OBVIOUS
      <3>4. OnHand("zrem")' = L /\ OnHand("xadd")' = P
        BY <3>1, <3>2, <3>3 DEF OnHand
      <3>5. \A u \in Tasks : OneCarrier(u, L, P) /\ InCreation(u)
        BY <1>1, <3>2, <3>3 DEF SystemCalmInv
      <3>6. \A u \in Tasks : OneCarrier(u, L, P)' /\ InCreation(u)'
        BY <1>1, <3>1, <3>5, CarrierElsewhere DEF redisVars
      <3>7. ScheduleInStep'
        <4>1. ScheduleInStep
          BY <1>1 DEF SystemCalmInv
        <4> QED BY <3>1, <4>1 DEF ScheduleInStep, Waiting, Exists, redisVars
      <3> QED BY <3>4, <3>6, <3>7, HandsAfter
    <2> QED BY <1>5, <2>1, <2>2, <2>3 DEF SchedulerMoves
  <1> QED BY <1>4, <1>5

\* ServiceIInv is inductive.
LEMMA ServiceInvariance == SystemSpec => []ServiceIInv
  <1>1. SystemInit => OutcomeInv /\ SystemCalmInv
    <2> SUFFICES ASSUME SystemInit PROVE OutcomeInv /\ SystemCalmInv
      OBVIOUS
    <2>1. OutcomeInv /\ ScheduleInStep
      BY DEF SystemInit, SchedulerInit, Init, RedisInit, ApiInit, OutcomeInv, ScheduleInStep, Exists
    <2>2. \A t \in Tasks : OneCarrier(t, OnHand("zrem"), OnHand("xadd")) /\ InCreation(t)
      BY DEF SystemInit, Init, RedisInit, ApiInit, OneCarrier, InCreation, Unspent, Exists
    <2> QED BY <2>1, <2>2 DEF SystemCalmInv
  <1>2. SystemIInv /\ OutcomeInv /\ (~ ServiceDisturbed => SystemCalmInv)
          /\ [SystemNext]_systemVars
          => OutcomeInv' /\ (~ ServiceDisturbed => SystemCalmInv)'
    <2> SUFFICES ASSUME SystemIInv, OutcomeInv, ~ ServiceDisturbed => SystemCalmInv,
                        [SystemNext]_systemVars
                 PROVE  OutcomeInv' /\ (~ ServiceDisturbed' => SystemCalmInv')
      OBVIOUS
    <2>1. SystemTypeInv /\ TypeInv /\ RequestInv
      BY DEF SystemIInv, SystemTypeInv
    <2>2. CASE SystemNext
      <3>1. (Next /\ UNCHANGED schedulerVars) \/ SchedulerMoves
        BY <2>2, SystemSplit
      <3>2. ~ ServiceDisturbed' => SystemCalmInv'
        BY <3>1, ServiceCalmStep
      <3>3. OutcomeInv'
        <4>1. CASE Next
          BY <2>1, <4>1, OutcomeStep
        <4>2. CASE SchedulerMoves
          <5>1. UNCHANGED <<krec, cancels>> /\ store \in [Tasks -> Record \union {NoTask}]
            BY <2>1, <4>2, SchedulerWrites
            DEF apiVars, TypeInv, TypeOK, RedisTypeOK
          <5> QED BY <2>1, <4>2, <5>1, SchedulerWrites DEF OutcomeInv, Exists, SetTask
        <4> QED BY <3>1, <4>1, <4>2
      <3> QED BY <3>2, <3>3
    <2>3. CASE UNCHANGED systemVars
      <3>1. UNCHANGED <<vars, schedulerVars>>
        BY <2>3 DEF systemVars
      <3>2. OutcomeInv'
        BY <3>1 DEF vars, redisVars, apiVars, OutcomeInv, Exists
      <3>3. UNCHANGED ServiceDisturbed
        BY <3>1 DEF vars, recoveryVars, apiVars, schedulerVars, ServiceDisturbed
      <3>4. UNCHANGED SystemCalmInv
        BY <3>1
        DEF vars, redisVars, workerVars, recoveryVars, apiVars, schedulerVars, SystemCalmInv,
            ScheduleInStep, Waiting, OnHand, OneCarrier, InCreation, InStep, Unspent, Spent,
            WorkerSpent, RecoverySpent, MayStart, Exists, At, HasWritten
      <3> QED BY <3>2, <3>3, <3>4
    <2> QED BY <2>2, <2>3
  <1> QED BY <1>1, <1>2, SystemInvariance, PTL DEF SystemSpec, ServiceIInv

\* A scheduler's step, or the expiry of its lock, starts and settles nothing
\* (processDueTasks, activateTask).
LEMMA SchedulerAllowed ==
  ASSUME SystemTypeInv, NEW d \in BOOLEAN, d \/ ScheduleInStep, SchedulerMoves
  PROVE  /\ UNCHANGED <<crashes, slow, cancels>>
         /\ IF UNCHANGED <<schedCrashes, expiries>> THEN Allowed(d) ELSE Shakes
  <1>1. /\ TypeInv /\ SchedulerControl
        /\ store \in [Tasks -> Record \union {NoTask}]
        /\ srec \in [Schedulers -> Record \union {NoTask}]
        /\ scur \in [Schedulers -> Tasks \union {NoTask}]
    BY DEF SystemTypeInv, TypeInv, TypeOK, RedisTypeOK, SchedulerTypeOK
  <1>2. UNCHANGED <<workerVars, recoveryVars, apiVars, crashes>>
    BY DEF SchedulerMoves, Elsewhere
  <1>3. UNCHANGED <<wpc, wmsg, accepted, slow, cancels>>
    BY <1>2 DEF workerVars, recoveryVars, apiVars
  <1>4. BusyNow' = BusyNow
    BY <1>3 DEF BusyNow, Executing, At, task
  <1>5. CASE store' = store
    <2>1. UNCHANGED <<StatusNow, RunsNow>>
      BY <1>5, SameStore
    <2>2. Allowed(d)
      BY <1>3, <1>4, <2>1 DEF Allowed, Idles
    <2>3. Shakes
      BY <1>3, <1>4, <2>1, ShakesNobody
    <2> QED BY <1>2, <1>3, <2>2, <2>3
  <1>6. ASSUME NEW s \in Schedulers, ActivateSet(s)
        PROVE  UNCHANGED <<schedCrashes, expiries>> /\ Allowed(d)
    <2>1. PICK t \in Tasks : t = scur[s]
      BY <1>1, <1>6 DEF ActivateSet, SchedulerControl
    <2>2. PICK r \in Record : r = srec[s]
      BY <1>1, <1>6 DEF ActivateSet, SchedulerControl
    <2>3. r.state = "pending" /\ SetTask(t, r) /\ UNCHANGED <<schedCrashes, expiries>>
      BY <1>1, <1>6, <2>1, <2>2 DEF ActivateSet, SchedulerControl
    <2>4. /\ StatusNow' = [StatusNow EXCEPT ![t] = "open"]
          /\ RunsNow' = [RunsNow EXCEPT ![t] = r.attempts]
      BY <1>1, <2>3, WriteEffect DEF Says, IsFinal
    <2>5. CASE d
      BY <1>3, <1>4, <2>3, <2>4, <2>5 DEF Allowed, Opens
    <2>6. CASE ~ d
      <3>1. Waiting(t) /\ r = Transition(store[t], "pending")
        BY <1>6, <2>1, <2>2, <2>6 DEF ScheduleInStep, ActivateSet
      <3>2. store[t] \in Record
        BY <1>1, <3>1 DEF Waiting, Exists
      <3>3. r.attempts = store[t].attempts
        BY <3>1, <3>2, RecordAttempts, MaxRetriesAssumption
      <3>4. StatusNow[t] = "open" /\ RunsNow[t] = r.attempts
        BY <3>1, <3>3
        DEF StatusNow, Progress, Settled, IsFinal, RunsNow, Runs, Waiting
      <3>5. UNCHANGED <<StatusNow, RunsNow>>
        BY <2>4, <3>4 DEF StatusNow, RunsNow
      <3> QED BY <1>3, <1>4, <2>3, <3>5 DEF Allowed, Idles
    <2> QED BY <2>3, <2>5, <2>6
  <1>7. store' = store \/ \E s \in Schedulers : ActivateSet(s)
    BY DEF SchedulerMoves, SchedulerStep, SchedulerCrash, LockExpires, TakeLock, ReadDue,
           ReadWaiting, ActivateXAdd, ActivateZRem, Unlock, redisVars
  <1> QED BY <1>2, <1>3, <1>5, <1>6, <1>7

\* A step of the service is a step of WorkQueue or changes nothing it speaks of.
LEMMA ServiceStep ==
  ASSUME ServiceIInv, [SystemNext]_systemVars
  PROVE  [Service!Next]_(Service!promiseVars)
  <1>1. /\ SystemTypeInv /\ TypeInv /\ RequestInv /\ OutcomeInv
        /\ ServiceDisturbed \in BOOLEAN /\ ServiceDisturbed' \in BOOLEAN
        /\ crashes \in Nat /\ slow \in Nat /\ cancels \in Nat
        /\ schedCrashes \in Nat /\ expiries \in Nat
    BY DEF ServiceIInv, SystemIInv, SystemTypeInv, TypeInv, TypeOK, RecoveryTypeOK, ApiTypeOK,
           SchedulerTypeOK, ServiceDisturbed
  <1>2. PICK d \in BOOLEAN : d = ServiceDisturbed
    BY <1>1
  <1>3. PICK L : L = OnHand("zrem")
    OBVIOUS
  <1>4. PICK P : P = OnHand("xadd")
    OBVIOUS
  <1>5. d \/ (/\ HoldingInv /\ cancels = 0 /\ ScheduleInStep
              /\ \A u \in Tasks : OneCarrier(u, L, P) /\ InCreation(u))
    <2>1. ASSUME ~ ServiceDisturbed PROVE slow = 0 /\ cancels = 0
      <3>1. PICK i \in Nat, j \in Nat, k \in Nat, l \in Nat, m \in Nat :
              crashes = i /\ slow = j /\ cancels = k /\ schedCrashes = l /\ expiries = m
        BY <1>1
      <3>2. ~ (i + j + k + l + m > 0)
        BY <2>1, <3>1 DEF ServiceDisturbed
      <3> QED BY <3>1, <3>2
    <2> QED BY <1>2, <1>3, <1>4, <2>1 DEF ServiceIInv, SystemIInv, SystemCalmInv
  <1>6. /\ (/\ UNCHANGED <<crashes, slow, cancels, schedCrashes, expiries>>
            /\ Allowed(d)) => [Service!Next]_(Service!promiseVars)
        /\ ServiceDisturbed' /\ Shakes => [Service!Next]_(Service!promiseVars)
    <2>1. UNCHANGED <<crashes, slow, cancels, schedCrashes, expiries>>
            => UNCHANGED ServiceDisturbed
      BY DEF ServiceDisturbed
    <2> QED BY <1>1, <1>2, <2>1, ServiceAllows
  <1>7. CASE UNCHANGED systemVars
    <2>1. UNCHANGED <<vars, schedulerVars>>
      BY <1>7 DEF systemVars
    <2>2. /\ UNCHANGED <<store, wpc, wmsg, accepted, crashes, slow, cancels>>
          /\ UNCHANGED <<schedCrashes, expiries>>
      BY <2>1 DEF vars, redisVars, workerVars, recoveryVars, apiVars, schedulerVars
    <2>3. UNCHANGED <<StatusNow, RunsNow, BusyNow>>
      BY <2>2, SameStore DEF BusyNow, Executing, At, task
    <2> QED BY <1>6, <2>2, <2>3 DEF Allowed, Idles
  <1>8. CASE SystemNext
    <2>1. (Next /\ UNCHANGED schedulerVars) \/ SchedulerMoves
      BY <1>8, SystemSplit
    <2>2. ~ UNCHANGED <<crashes, slow, cancels, schedCrashes, expiries>> => ServiceDisturbed'
      BY <1>1, <2>1, ServiceCalm
    <2>3. CASE SchedulerMoves
      <3>1. /\ UNCHANGED <<crashes, slow, cancels>>
            /\ IF UNCHANGED <<schedCrashes, expiries>> THEN Allowed(d) ELSE Shakes
        BY <1>1, <1>5, <2>3, SchedulerAllowed
      <3> QED BY <1>6, <2>2, <3>1
    <2>4. CASE Next /\ UNCHANGED schedulerVars
      <3>1. UNCHANGED <<schedCrashes, expiries>>
        BY <2>4 DEF schedulerVars
      <3>2. ASSUME NEW w \in Workers, WorkerNext(w) PROVE [Service!Next]_(Service!promiseVars)
        <4>1. UNCHANGED <<crashes, slow, cancels>> /\ Allowed(d)
          BY <1>1, <1>5, <3>2, WorkerShape, WorkerAllowed
        <4> QED BY <1>6, <3>1, <4>1
      <3>3. ASSUME NEW p \in Pools, RecoveryNext(p) PROVE [Service!Next]_(Service!promiseVars)
        <4>1. UNCHANGED <<crashes, cancels>> /\ IF slow' = slow THEN Allowed(d) ELSE Shakes
          BY <1>1, <1>5, <3>3, RecoveryShape, RecoveryAllowed
        <4> QED BY <1>6, <2>2, <3>1, <4>1
      <3>4. ASSUME NEW p \in Pools, Crash(p) \/ Restart(p)
            PROVE  [Service!Next]_(Service!promiseVars)
        <4>1. UNCHANGED <<slow, cancels>> /\ IF crashes' = crashes THEN Allowed(d) ELSE Shakes
          BY <1>1, <3>4, CrashShape, PoolAllowed
        <4> QED BY <1>6, <2>2, <3>1, <4>1
      <3>5. ASSUME NEW t \in Tasks, ApiNext(t) PROVE [Service!Next]_(Service!promiseVars)
        <4>1. UNCHANGED <<crashes, slow>> /\ IF cancels' = cancels THEN Allowed(d) ELSE Shakes
          BY <1>1, <1>5, <3>5, ApiShape, ApiAllowed
        <4> QED BY <1>6, <2>2, <3>1, <4>1
      <3> QED BY <2>4, <3>2, <3>3, <3>4, <3>5 DEF Next
    <2> QED BY <2>1, <2>3, <2>4
  <1> QED BY <1>7, <1>8

\* Whatever the number of workers, processes, schedulers and tasks, the whole service
\* implements WorkQueue: until a process dies, a handler outlives claimMinIdle, the
\* scheduler's lock expires or a client cancels, every task is run by one worker at a
\* time, at most as often as its retry limit says, retries by way of the sorted set
\* included; afterwards it is still settled by nothing but a handler that ran or a cancel
\* request (processNextTask against recoverOrphanedTasks and activateTask).
THEOREM ServiceKeepsThePromise == SystemSpec => ServicePromise
  <1>1. SystemInit => Service!Init
    <2> SUFFICES ASSUME SystemInit PROVE Service!Init
      OBVIOUS
    <2>1. ~ ServiceDisturbed
      BY DEF SystemInit, SchedulerInit, Init, RecoveryInit, ApiInit, ServiceDisturbed
    <2>2. /\ \A t \in Tasks : Progress(t) = "absent" /\ Runs(t) = 0
          /\ \A w \in Workers : Executing(w) = NoTask
      BY DEF SystemInit, Init, RedisInit, WorkerInit, Progress, Runs, Executing, Exists, At
    <2>3. accepted = {}
      BY DEF SystemInit, Init, ApiInit
    <2> QED BY <2>1, <2>2, <2>3 DEF Service!Init
  <1>2. ServiceIInv /\ [SystemNext]_systemVars => [Service!Next]_(Service!promiseVars)
    BY ServiceStep
  <1> QED BY <1>1, <1>2, ServiceInvariance, PTL DEF SystemSpec, ServicePromise, Service!Spec

=============================================================================
