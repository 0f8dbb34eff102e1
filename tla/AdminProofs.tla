----------------------------- MODULE AdminProofs ------------------------------
(***************************************************************************)
(* Proofs about Admin: what the service keeps beside the requests of       *)
(* operators, for any tasks, workers, processes, schedulers, operators,    *)
(* limits and bounds.                                                      *)
(***************************************************************************)
EXTENDS Admin, TaskQueueProofs, WellFoundedInduction

(***************************************************************************)
(* The oldest entry of a task: what Retry finds in its list.               *)
(***************************************************************************)

\* Every set of numbers that has a member has a least one.
LEMMA NumbersAreOrdered ==
  \E R : /\ \A T : T \subseteq Nat /\ T # {} => \E n \in T : \A m \in T : ~ (<<m, n>> \in R)
         /\ \A m, n \in Nat : m < n => <<m, n>> \in R
  <1>1. IsWellFoundedOn(OpToRel(<, Nat), Nat)
    BY NatLessThanWellFounded
  <1>2. \A m, n \in Nat : m < n => <<m, n>> \in OpToRel(<, Nat)
    BY DEF OpToRel
  <1>3. \A T : T \subseteq Nat /\ T # {} =>
          \E n \in T : \A m \in T : ~ (<<m, n>> \in OpToRel(<, Nat))
    BY <1>1, WFMin
  <1> QED BY <1>2, <1>3, Zenon

\* A set of entries has an oldest one.
LEMMA OldestEntry ==
  ASSUME NEW S, S \subseteq Entry, S # {}
  PROVE  \E e \in S : \A f \in S : Older(e, f)
  <1> DEFINE Ids == {e.id : e \in S}
  <1>1. Ids \subseteq Nat /\ Ids # {}
    BY DEF Entry
  <1> HIDE DEF Ids
  <1>2. PICK R : /\ \A T : T \subseteq Nat /\ T # {} =>
                      \E n \in T : \A m \in T : ~ (<<m, n>> \in R)
                 /\ \A m, n \in Nat : m < n => <<m, n>> \in R
    BY NumbersAreOrdered
  <1>3. PICK n \in Ids : \A m \in Ids : ~ (<<m, n>> \in R)
    BY <1>1, <1>2
  <1>4. \A m \in Ids : ~ (m < n)
    BY <1>1, <1>2, <1>3
  <1>5. \A m \in Ids : n <= m
    BY <1>1, <1>3, <1>4
  <1> QED BY <1>3, <1>5 DEF Ids, Older

\* A task that is listed has a first entry in the dead-letter stream (Retry).
LEMMA FirstEntryIs ==
  ASSUME dlq \subseteq Entry, NEW t, Listed(t)
  PROVE  FirstEntry(t) \in dlq /\ FirstEntry(t).task = t
  <1> DEFINE S == {e \in dlq : e.task = t}
  <1>1. S \subseteq Entry /\ S # {}
    BY DEF Listed, EntryOf
  <1>2. \E e \in S : \A f \in S : Older(e, f)
    BY <1>1, OldestEntry
  <1>3. \E e \in dlq : e.task = t /\ \A f \in dlq : f.task = t => Older(e, f)
    BY <1>2
  <1> HIDE DEF S
  <1> QED BY <1>3, Zenon DEF FirstEntry

\* The record of a retry is pending (state.go:87-96, Requeue).
LEMMA RequeuedRecord ==
  /\ Requeue(Copy) \in Record /\ Requeue(Copy).state = "pending"
  /\ \A r \in Record :
       r.state \in {"failed", "dead_letter"} =>
         Requeue(r) \in Record /\ Requeue(r).state = "pending"
  BY DEF Requeue, Copy, Transition, CanTransitionTo, ValidTransitions, Record, State

(***************************************************************************)
(* Types and control.                                                      *)
(***************************************************************************)
OperatorMoves(o) ==
  NewRequest(o) \/ OperatorStep(o) \/ Abandon(o) \/ ItemRefused(o) \/ XAddRefused(o)

\* What AdminTypeInv and AdminControl say of one operator.
OperatorOK(o) ==
  /\ apc[o] \in AdminPc
  /\ todo[o] \in SUBSET Entry
  /\ apc[o] \in RetryPc =>
       /\ job[o] \in Job
       /\ job[o].rec.state = "pending"
       /\ job[o].entry # NoEntry => job[o].entry.task = job[o].task /\ job[o].entry.id <= lastDlq
  /\ apc[o] \in {"xdel", "srem"} => job[o].entry # NoEntry
  /\ apc[o] \in {"idle", "next", "clear_set"} => job[o] = NoJob
  /\ apc[o] = "group" => job[o] \in Queues
  /\ apc[o] \in {"idle", "clear_set", "group"} => todo[o] = {}
  /\ apc[o] = "next" => todo[o] # {}
  /\ apc[o] = "cleanup" => refusals > 0

\* The rest of what they say.
CountersOK ==
  /\ nogroup \in SUBSET Queues
  /\ requests \in 0..MaxRequests
  /\ refusals \in 0..MaxRefusals
  /\ discarded \in SUBSET Tasks
  /\ \A e \in dlq : e.id <= lastDlq
  /\ requests = 0 => refusals = 0 /\ \A o \in Operators : apc[o] = "idle"
  /\ requests <= 1 => \A o, q \in Operators : apc[o] # "idle" /\ apc[q] # "idle" => o = q

LEMMA AdminTypeParts ==
  AdminTypeInv /\ AdminControl <=>
    /\ SystemTypeInv /\ CountersOK
    /\ apc \in [Operators -> AdminPc]
    /\ job = [o \in Operators |-> job[o]]
    /\ todo \in [Operators -> SUBSET Entry]
    /\ \A o \in Operators : OperatorOK(o)
  <1>1. ASSUME AdminTypeInv, AdminControl
        PROVE  /\ SystemTypeInv /\ CountersOK
               /\ apc \in [Operators -> AdminPc]
               /\ job = [o \in Operators |-> job[o]]
               /\ todo \in [Operators -> SUBSET Entry]
               /\ \A o \in Operators : OperatorOK(o)
    BY <1>1 DEF AdminTypeInv, AdminControl, OperatorOK, CountersOK
  <1>2. ASSUME /\ SystemTypeInv /\ CountersOK
               /\ apc \in [Operators -> AdminPc]
               /\ job = [o \in Operators |-> job[o]]
               /\ todo \in [Operators -> SUBSET Entry]
               /\ \A o \in Operators : OperatorOK(o)
        PROVE  AdminTypeInv /\ AdminControl
    BY <1>2 DEF AdminTypeInv, AdminControl, OperatorOK, CountersOK
  <1> QED BY <1>1, <1>2

\* Initially no request is made.
LEMMA AdminTypeInit == AdminInit => AdminTypeInv /\ AdminControl
  <1> SUFFICES ASSUME AdminInit PROVE AdminTypeInv /\ AdminControl
    OBVIOUS
  <1>1. SystemTypeInv
    BY SchedulerTypeInit DEF AdminInit
  <1>2. dlq = {}
    BY DEF AdminInit, SystemInit, Init, RedisInit
  <1>3. CountersOK
    BY <1>2, AdminAssumption DEF AdminInit, CountersOK
  <1>4. /\ apc \in [Operators -> AdminPc]
        /\ job = [o \in Operators |-> job[o]]
        /\ todo \in [Operators -> SUBSET Entry]
        /\ \A o \in Operators : OperatorOK(o)
    BY DEF AdminInit, OperatorOK, AdminPc, RetryPc
  <1> QED BY <1>1, <1>3, <1>4, AdminTypeParts

\* Only DLQ.Add adds to the dead-letter stream, under a new id.
LEMMA SystemDlq ==
  ASSUME SystemTypeInv, [SystemNext]_systemVars
  PROVE  \/ UNCHANGED <<dlq, lastDlq>>
         \/ \E w \in Workers : DlqXAdd(w) /\ WorkerNext(w)
  <1>1. ASSUME NEW w \in Workers, WorkerNext(w), ~ DlqXAdd(w)
        PROVE  UNCHANGED <<dlq, lastDlq>>
    BY <1>1
    DEF WorkerNext, WorkerStep, Dequeue, GetMissing, Drop, StartRefused, StartTask, SetRunning,
        SetCompleted, SetRetrying, SetFailed, FinishWith, ScheduleSet, ScheduleZAdd, DlqSAdd,
        Acknowledge, redisVars, dlqVars
  <1>2. ASSUME NEW p \in Pools, SystemPoolNext(p) PROVE UNCHANGED <<dlq, lastDlq>>
    BY <1>2
    DEF SystemPoolNext, RecoveryNext, RecoveryStep, Claim, ReadMissing, ReadClaimed, RequeueSet,
        RequeueXAdd, RequeueAck, Crash, Restart, redisVars, dlqVars
  <1>3. ASSUME NEW t \in Tasks, SystemApiNext(t) PROVE UNCHANGED <<dlq, lastDlq>>
    BY <1>3
    DEF SystemApiNext, ApiNext, ApiStep, Submit, EnqueueSet, EnqueueXAdd, CreateScheduledSet,
        CreateScheduledZAdd, AbortCreate, CancelRead, CancelSet, Expire, redisVars, dlqVars
  <1>4. ASSUME \/ \E s \in Schedulers : SchedulerStep(s) \/ SchedulerCrash(s)
               \/ LockExpires
        PROVE  UNCHANGED <<dlq, lastDlq>>
    BY <1>4
    DEF SchedulerStep, SchedulerCrash, LockExpires, TakeLock, ReadDue, ReadWaiting, ActivateSet,
        ActivateXAdd, ActivateZRem, Unlock, redisVars, dlqVars
  <1>5. CASE UNCHANGED systemVars
    BY <1>5 DEF systemVars, vars, redisVars, dlqVars
  <1> QED
    BY <1>1, <1>2, <1>3, <1>4, <1>5 DEF SystemNext, SystemWorkerNext, SchedulerNext

\* What a request changes in Redis, one command at a time: the record of its task, an
\* entry of it, or entries an operator throws away.
LEMMA OperatorWrites ==
  ASSUME AdminTypeInv, AdminControl, NEW o \in Operators, OperatorMoves(o)
  PROVE  /\ OutsideRedis /\ UNCHANGED <<zset, lastDlq>>
         /\ \/ store' = store
            \/ apc[o] \in {"update", "set"} /\ SetTask(job[o].task, job[o].rec)
            \/ apc[o] = "cleanup" /\ DelTask(job[o].task)
         /\ \/ /\ stream' \subseteq stream /\ lastId' = lastId
               /\ accepted' = accepted
               /\ apc[o] = "xadd" => apc'[o] # "xdel"
            \/ apc[o] = "xadd" /\ XAddTask(job[o].task) /\ accepted' = accepted \union {job[o].task}
         /\ pel' \subseteq pel
         /\ \A e \in pel : e \in pel' \/ e.task \in discarded'
         /\ \A e \in (stream \union pel) : e \in (stream \union pel)' \/ e.task \in discarded'
         /\ dlq' \subseteq dlq
         /\ \A e \in dlq : e \in dlq' \/ e.task \in discarded' \/ (apc[o] = "xdel" /\ e = job[o].entry)
         /\ discarded \subseteq discarded'
         /\ refusals' = refusals \/ (refusals' = refusals + 1 /\ apc[o] # "idle")
         /\ \/ requests' = requests /\ apc[o] # "idle"
            \/ requests' = requests + 1 /\ apc[o] = "idle" /\ refusals' = refusals
  <1>1. /\ stream \in SUBSET Entry /\ pel \in SUBSET Entry /\ dlq \in SUBSET Entry
        /\ \A q \in Operators : apc[q] \in RetryPc => job[q] \in Job
        /\ apc \in [Operators -> AdminPc]
    BY DEF AdminTypeInv, SystemTypeInv, TypeInv, TypeOK, RedisTypeOK
  <1> USE DEF Begin, Work, CutShort, redisVars, dlqVars, OutsideRedis, AdminGoto, EndItem
  <1>2. ASSUME NEW t \in Tasks, RetryOne(o, t) \/ RetryTask(o, t)
        PROVE  /\ OutsideRedis /\ UNCHANGED <<redisVars, accepted, refusals, discarded>>
               /\ requests' = requests + 1 /\ apc[o] = "idle"
    BY <1>2 DEF RetryOne, RetryTask
  <1>3. ASSUME RetryAll(o)
        PROVE  /\ OutsideRedis /\ UNCHANGED <<redisVars, accepted, refusals, discarded>>
               /\ requests' = requests + 1 /\ apc[o] = "idle"
    BY <1>3 DEF RetryAll
  <1>4. CASE \/ \E t \in Tasks : RetryOne(o, t) \/ RetryTask(o, t)
             \/ RetryAll(o)
    BY <1>2, <1>3, <1>4
  <1>5. CASE ClearStream(o)
    BY <1>5 DEF ClearStream, TasksOf
  <1>6. ASSUME NEW q \in Queues, PurgeDel(o, q)
        PROVE  /\ OutsideRedis /\ UNCHANGED <<store, lastId, zset, dlqVars, accepted, refusals>>
               /\ stream' \subseteq stream /\ pel' \subseteq pel
               /\ \A e \in pel : e \in pel' \/ e.task \in discarded'
               /\ \A e \in (stream \union pel) : e \in (stream \union pel)' \/ e.task \in discarded'
               /\ discarded \subseteq discarded'
               /\ requests' = requests + 1 /\ apc[o] = "idle"
    BY <1>6 DEF PurgeDel, Purged, TasksOf
  <1>7. CASE \E q \in Queues : PurgeDel(o, q)
    BY <1>6, <1>7
  <1>8. CASE RetryNext(o)
    BY <1>8 DEF RetryNext
  <1>9. CASE RetrySet(o) \/ UpdateTask(o)
    BY <1>9 DEF RetrySet, UpdateTask
  <1>10. CASE RetryXAdd(o)
    BY <1>10 DEF RetryXAdd, XAddTask
  <1>11. CASE RemoveXDel(o)
    BY <1>11 DEF RemoveXDel
  <1>12. CASE RemoveSRem(o) \/ ClearSet(o) \/ PurgeGroup(o)
    BY <1>12 DEF RemoveSRem, ClearSet, PurgeGroup
  <1>13. CASE Cleanup(o)
    BY <1>13 DEF Cleanup
  <1>14. CASE Abandon(o) \/ ItemRefused(o) \/ XAddRefused(o)
    <2>1. /\ OutsideRedis
          /\ UNCHANGED <<redisVars, accepted, requests, nogroup, discarded>>
          /\ refusals' = refusals + 1 /\ apc[o] # "idle"
          /\ apc[o] = "xadd" => apc'[o] # "xdel"
      BY <1>1, <1>14 DEF Abandon, ItemRefused, XAddRefused
    <2> QED BY <2>1
  <1> QED
    BY <1>4, <1>5, <1>7, <1>8, <1>9, <1>10, <1>11, <1>12, <1>13, <1>14
    DEF OperatorMoves, NewRequest, OperatorStep

\* What a request does to Redis keeps the types and the control of everybody else.
LEMMA OperatorKeepsTypes ==
  ASSUME AdminTypeInv, AdminControl, NEW o \in Operators, OperatorMoves(o)
  PROVE  SystemTypeInv'
  <1>1. /\ store \in [Tasks -> Record \union {NoTask}]
        /\ stream \in SUBSET Entry /\ pel \in SUBSET Entry /\ dlq \in SUBSET Entry
        /\ lastId \in Nat /\ zset \in SUBSET Tasks /\ lastDlq \in Nat /\ dlqSet \in SUBSET Tasks
        /\ accepted \in SUBSET Tasks
        /\ SystemTypeInv
    BY DEF AdminTypeInv, SystemTypeInv, TypeInv, TypeOK, RedisTypeOK, ApiTypeOK
  <1>2. OutsideRedis /\ UNCHANGED <<zset, lastDlq>> /\ pel' \subseteq pel /\ dlq' \subseteq dlq
    BY OperatorWrites
  <1>3. apc[o] \in RetryPc => job[o] \in Job
    BY DEF AdminTypeInv
  <1>4. store' \in [Tasks -> Record \union {NoTask}]
    <2>1. CASE store' = store
      BY <1>1, <2>1
    <2>2. CASE apc[o] \in {"update", "set"} /\ SetTask(job[o].task, job[o].rec)
      <3>1. job[o].rec \in Record
        BY <1>3, <2>2 DEF RetryPc, Job
      <3> QED BY <1>1, <2>2, <3>1 DEF SetTask
    <2>3. CASE DelTask(job[o].task)
      BY <1>1, <2>3 DEF DelTask
    <2> QED BY <2>1, <2>2, <2>3, OperatorWrites
  <1>5. stream' \in SUBSET Entry /\ lastId' \in Nat /\ accepted' \in SUBSET Tasks
    <2>1. CASE apc[o] = "xadd" /\ XAddTask(job[o].task) /\ accepted' = accepted \union {job[o].task}
      <3>1. job[o].task \in Tasks
        BY <1>3, <2>1 DEF RetryPc, Job
      <3> QED BY <1>1, <2>1, <3>1 DEF XAddTask, Entry
    <2> QED BY <1>1, <2>1, OperatorWrites
  <1>6. dlqSet' \in SUBSET Tasks
    BY <1>1
    DEF OperatorMoves, NewRequest, OperatorStep, RetryOne, RetryTask, RetryAll, ClearStream,
        PurgeDel, RetryNext, RetrySet, UpdateTask, RetryXAdd, RemoveXDel, RemoveSRem, ClearSet,
        PurgeGroup, Cleanup, Abandon, ItemRefused, XAddRefused, CutShort, redisVars, dlqVars
  <1>7. RedisTypeOK'
    BY <1>1, <1>2, <1>4, <1>5, <1>6 DEF RedisTypeOK
  <1>8. UNCHANGED <<workerVars, recoveryVars, cpc, krec, cancels, aborts, crashes, races,
                    schedulerVars>>
    BY <1>2 DEF OutsideRedis
  <1>9. WorkerTypeOK' /\ RecoveryTypeOK' /\ ApiTypeOK' /\ crashes' \in Nat
    BY <1>1, <1>5, <1>8
    DEF SystemTypeInv, TypeInv, TypeOK, WorkerTypeOK, RecoveryTypeOK, ApiTypeOK, workerVars,
        recoveryVars
  <1>10. WorkerControl' /\ RecoveryControl' /\ StoppedTogether'
    BY <1>1, <1>8
    DEF SystemTypeInv, TypeInv, WorkerControl, RecoveryControl, StoppedTogether, workerVars,
        recoveryVars
  <1>11. SchedulerTypeOK' /\ SchedulerControl' /\ races' \in 0..MaxRaces
    BY <1>1, <1>8 DEF SystemTypeInv, SchedulerTypeOK, SchedulerControl, schedulerVars
  <1> QED BY <1>7, <1>9, <1>10, <1>11 DEF SystemTypeInv, TypeInv, TypeOK

\* One operator moves, and the others stay where they were.
LEMMA RequestFrame ==
  ASSUME AdminTypeInv, AdminControl, NEW o \in Operators, OperatorMoves(o),
         NEW pc, NEW j, NEW T, apc' = [apc EXCEPT ![o] = pc], job' = [job EXCEPT ![o] = j],
         todo' = [todo EXCEPT ![o] = T], T \in SUBSET Entry, pc \in AdminPc, OperatorOK(o)',
         nogroup' \in SUBSET Queues, discarded' \in SUBSET Tasks,
         requests' \in 0..MaxRequests, refusals' \in 0..MaxRefusals
  PROVE  AdminTypeInv' /\ AdminControl'
  <1>1. /\ SystemTypeInv /\ CountersOK
        /\ apc \in [Operators -> AdminPc]
        /\ job = [q \in Operators |-> job[q]]
        /\ todo \in [Operators -> SUBSET Entry]
        /\ \A q \in Operators : OperatorOK(q)
    BY AdminTypeParts
  <1>2. requests \in Nat /\ refusals \in Nat
    BY <1>1, AdminAssumption DEF CountersOK
  <1>3. /\ refusals <= refusals' /\ lastDlq' = lastDlq /\ dlq' \subseteq dlq
        /\ \/ requests' = requests /\ apc[o] # "idle"
           \/ requests' = requests + 1 /\ apc[o] = "idle" /\ refusals' = refusals
    BY <1>2, OperatorWrites
  <1>4. SystemTypeInv'
    BY OperatorKeepsTypes
  <1>5. /\ apc' \in [Operators -> AdminPc]
        /\ job' = [q \in Operators |-> job'[q]]
        /\ todo' \in [Operators -> SUBSET Entry]
    BY <1>1
  <1>6. ASSUME NEW q \in Operators, q # o PROVE OperatorOK(q)'
    <2>1. apc'[q] = apc[q] /\ job'[q] = job[q] /\ todo'[q] = todo[q]
      BY <1>1, <1>6
    <2>2. refusals > 0 => refusals' > 0
      BY <1>2, <1>3
    <2>3. OperatorOK(q)
      BY <1>1
    <2> QED BY <1>3, <2>1, <2>2, <2>3 DEF OperatorOK
  <1>7. CountersOK'
    <2>1. \A e \in dlq' : e.id <= lastDlq'
      BY <1>1, <1>3 DEF CountersOK
    <2>2. requests' # 0
      BY <1>1, <1>2, <1>3 DEF CountersOK
    <2>3. requests' <= 1 => \A p, q \in Operators : apc'[p] # "idle" /\ apc'[q] # "idle" => p = q
      <3>1. CASE requests' = requests /\ apc[o] # "idle"
        BY <1>1, <1>2, <3>1 DEF CountersOK
      <3>2. CASE requests' = requests + 1 /\ apc[o] = "idle"
        <4>1. requests' <= 1 => requests = 0
          BY <1>2, <3>2
        <4> QED BY <1>1, <4>1 DEF CountersOK
      <3> QED BY <1>3, <3>1, <3>2
    <2> QED BY <2>1, <2>2, <2>3 DEF CountersOK
  <1>8. OperatorOK(o)'
    OBVIOUS
  <1> QED
    BY <1>4, <1>5, <1>6, <1>7, <1>8 DEF AdminTypeInv, AdminControl, OperatorOK, CountersOK

\* The argument of a request goes with its next command (RetryDLQ, ClearDLQ, RetryTask,
\* PurgeQueue).
LEMMA OperatorTypes ==
  ASSUME AdminTypeInv, AdminControl, NEW o \in Operators, OperatorMoves(o)
  PROVE  AdminTypeInv' /\ AdminControl'
  <1> USE NoEntryAssumption
  <1>1. /\ SystemTypeInv /\ CountersOK /\ OperatorOK(o)
        /\ apc \in [Operators -> AdminPc]
        /\ job = [q \in Operators |-> job[q]]
        /\ todo \in [Operators -> SUBSET Entry]
        /\ dlq \in SUBSET Entry
        /\ store \in [Tasks -> Record \union {NoTask}]
    BY AdminTypeParts DEF SystemTypeInv, TypeInv, TypeOK, RedisTypeOK
  <1>2. /\ nogroup \in SUBSET Queues /\ discarded \in SUBSET Tasks
        /\ requests \in 0..MaxRequests /\ refusals \in 0..MaxRefusals
        /\ \A e \in dlq : e.id <= lastDlq
    BY <1>1 DEF CountersOK
  <1>3. lastDlq' = lastDlq
    BY OperatorWrites
  <1>4. ASSUME requests < MaxRequests, requests' = requests + 1, refusals' = refusals
        PROVE  requests' \in 0..MaxRequests /\ refusals' \in 0..MaxRefusals
    BY <1>2, <1>4, AdminAssumption
  <1> USE DEF AdminGoto, EndItem, AdminPc, RetryPc
  <1>5. ASSUME NEW t \in Tasks, Find(o, t), todo' = [todo EXCEPT ![o] = todo'[o]],
               todo'[o] \in SUBSET Entry, refusals' = refusals, UNCHANGED <<nogroup, discarded>>,
               requests' \in 0..MaxRequests
        PROVE  AdminTypeInv' /\ AdminControl'
    <2>1. FirstEntry(t) \in dlq /\ FirstEntry(t).task = t
      BY <1>1, <1>5, FirstEntryIs DEF Find
    <2>2. Requeue(Copy) \in Record /\ Requeue(Copy).state = "pending"
      BY RequeuedRecord
    <2>3. PICK e, r : e = FirstEntry(t) /\ r = Requeue(Copy)
      OBVIOUS
    <2>4. PICK j : j = [task |-> t, entry |-> e, rec |-> r]
      OBVIOUS
    <2>5. /\ j \in Job /\ j.rec.state = "pending"
          /\ j.entry.task = j.task /\ j.entry.id <= lastDlq
      BY <1>1, <1>2, <2>1, <2>2, <2>3, <2>4 DEF Job
    <2>6. apc' = [apc EXCEPT ![o] = "set"] /\ job' = [job EXCEPT ![o] = j]
      BY <1>5, <2>3, <2>4 DEF Find
    <2>7. OperatorOK(o)'
      <3>1. apc'[o] = "set" /\ job'[o] = j
        BY <1>1, <2>6
      <3> QED BY <1>3, <1>5, <2>5, <3>1 DEF OperatorOK
    <2> QED BY <1>2, <1>5, <2>6, <2>7, RequestFrame
  <1>6. ASSUME NEW t \in Tasks, RetryOne(o, t) PROVE AdminTypeInv' /\ AdminControl'
    <2>1. /\ Find(o, t) /\ refusals' = refusals /\ UNCHANGED <<todo, nogroup, discarded>>
          /\ requests' = requests + 1 /\ requests < MaxRequests
      BY <1>6 DEF RetryOne, Begin
    <2> QED BY <1>1, <1>2, <1>4, <1>5, <2>1
  <1>7. ASSUME NEW t \in Tasks, RetryTask(o, t) PROVE AdminTypeInv' /\ AdminControl'
    <2>1. store[t] \in Record /\ store[t].state \in {"failed", "dead_letter"}
      BY <1>1, <1>7 DEF RetryTask, Exists
    <2>2. PICK r \in Record : r = Requeue(store[t]) /\ r.state = "pending"
      BY <2>1, RequeuedRecord
    <2>3. PICK j : j = [task |-> t, entry |-> NoEntry, rec |-> r]
      OBVIOUS
    <2>4. j \in Job /\ j.rec.state = "pending" /\ j.entry = NoEntry
      BY <2>2, <2>3 DEF Job
    <2>5. /\ apc' = [apc EXCEPT ![o] = "update"] /\ job' = [job EXCEPT ![o] = j]
          /\ UNCHANGED <<todo, nogroup, discarded>> /\ refusals' = refusals
          /\ requests' = requests + 1 /\ requests < MaxRequests
      BY <1>7, <2>2, <2>3 DEF RetryTask, Begin
    <2>6. OperatorOK(o)'
      <3>1. apc'[o] = "update" /\ job'[o] = j /\ todo'[o] \in SUBSET Entry
        BY <1>1, <2>5
      <3> QED BY <2>4, <3>1 DEF OperatorOK
    <2>7. todo' = [todo EXCEPT ![o] = todo[o]] /\ todo[o] \in SUBSET Entry
      BY <1>1, <2>5
    <2> QED BY <1>2, <2>5, <2>6, <2>7, <1>4, RequestFrame
  <1>8. CASE RetryAll(o)
    <2>1. /\ apc' = [apc EXCEPT ![o] = "next"] /\ job' = job
          /\ todo' = [todo EXCEPT ![o] = dlq] /\ dlq # {} /\ apc[o] = "idle"
          /\ UNCHANGED <<nogroup, discarded>> /\ refusals' = refusals
          /\ requests' = requests + 1 /\ requests < MaxRequests
      BY <1>8 DEF RetryAll, Begin
    <2>2. OperatorOK(o)'
      BY <1>1, <2>1 DEF OperatorOK
    <2>3. job' = [job EXCEPT ![o] = job[o]]
      BY <1>1, <2>1
    <2> QED BY <1>1, <1>2, <2>1, <2>2, <2>3, <1>4, RequestFrame
  <1>9. CASE ClearStream(o)
    <2>1. /\ apc' = [apc EXCEPT ![o] = "clear_set"] /\ job' = job /\ todo' = todo
          /\ apc[o] = "idle" /\ discarded' = discarded \union {e.task : e \in dlq}
          /\ UNCHANGED nogroup /\ refusals' = refusals
          /\ requests' = requests + 1 /\ requests < MaxRequests
      BY <1>9 DEF ClearStream, Begin, TasksOf
    <2>2. OperatorOK(o)'
      BY <1>1, <2>1 DEF OperatorOK
    <2>3. job' = [job EXCEPT ![o] = job[o]] /\ todo' = [todo EXCEPT ![o] = todo[o]]
      BY <1>1, <2>1
    <2>4. discarded' \in SUBSET Tasks
      BY <1>1, <1>2, <2>1 DEF Entry
    <2> QED BY <1>1, <1>2, <2>1, <2>2, <2>3, <2>4, <1>4, RequestFrame
  <1>10. ASSUME NEW q \in Queues, PurgeDel(o, q) PROVE AdminTypeInv' /\ AdminControl'
    <2>1. /\ apc' = [apc EXCEPT ![o] = "group"] /\ job' = [job EXCEPT ![o] = q] /\ todo' = todo
          /\ apc[o] = "idle" /\ nogroup' = nogroup \union {q} /\ refusals' = refusals
          /\ discarded' = discarded \union {e.task : e \in Purged(q, stream \union pel)}
          /\ requests' = requests + 1 /\ requests < MaxRequests
      BY <1>10 DEF PurgeDel, Begin, TasksOf
    <2>2. OperatorOK(o)'
      BY <1>1, <2>1 DEF OperatorOK
    <2>3. todo' = [todo EXCEPT ![o] = todo[o]]
      BY <1>1, <2>1
    <2>4. Purged(q, stream \union pel) \subseteq Entry
      BY <1>1 DEF Purged, SystemTypeInv, TypeInv, TypeOK, RedisTypeOK
    <2>5. discarded' \in SUBSET Tasks
      BY <1>2, <2>1, <2>4 DEF Entry
    <2> QED BY <1>1, <1>2, <2>1, <2>2, <2>3, <2>5, <1>4, RequestFrame
  <1>11. CASE RetryNext(o)
    <2>1. PICK e \in todo[o] :
            /\ todo' = [todo EXCEPT ![o] = @ \ {e}]
            /\ \/ Find(o, e.task)
               \/ /\ apc' = [apc EXCEPT ![o] = IF todo[o] = {e} THEN "idle" ELSE "next"]
                  /\ UNCHANGED job
      BY <1>11 DEF RetryNext
    <2>2. /\ UNCHANGED <<requests, nogroup, discarded>> /\ refusals' = refusals
          /\ apc[o] = "next" /\ e \in Entry
      BY <1>1, <1>11, <2>1 DEF RetryNext, Work
    <2>3. todo'[o] = todo[o] \ {e} /\ todo'[o] \in SUBSET Entry
      BY <1>1, <2>1
    <2>4. CASE Find(o, e.task)
      <3>1. e.task \in Tasks
        BY <2>2 DEF Entry
      <3>2. todo' = [todo EXCEPT ![o] = todo'[o]]
        BY <2>1, <2>3
      <3> QED BY <1>2, <1>5, <2>2, <2>3, <2>4, <3>1, <3>2
    <2>5. CASE /\ apc' = [apc EXCEPT ![o] = IF todo[o] = {e} THEN "idle" ELSE "next"]
               /\ UNCHANGED job
      <3>1. PICK pc \in {"idle", "next"} :
              pc = (IF todo[o] = {e} THEN "idle" ELSE "next")
        OBVIOUS
      <3>2. OperatorOK(o)'
        <4>1. apc'[o] = pc /\ job'[o] = NoJob
          BY <1>1, <2>2, <2>5, <3>1 DEF OperatorOK
        <4>2. pc = "idle" <=> todo'[o] = {}
          BY <2>3, <3>1, <2>1
        <4> QED BY <2>3, <3>1, <4>1, <4>2 DEF OperatorOK
      <3>3. job' = [job EXCEPT ![o] = job[o]]
        BY <1>1, <2>5
      <3> QED BY <1>2, <2>1, <2>2, <2>3, <2>5, <3>1, <3>2, <3>3, RequestFrame
    <2> QED BY <2>1, <2>4, <2>5
  \* The item is finished with, and with it the request if it was the last.
  <1>12. ASSUME EndItem(o), todo' = todo, UNCHANGED <<nogroup, discarded>>,
                requests' = requests, refusals' \in 0..MaxRefusals
         PROVE  AdminTypeInv' /\ AdminControl'
    <2>1. PICK pc \in {"idle", "next"} : pc = (IF todo[o] = {} THEN "idle" ELSE "next")
      OBVIOUS
    <2>2. apc' = [apc EXCEPT ![o] = pc] /\ job' = [job EXCEPT ![o] = NoJob]
      BY <1>12, <2>1
    <2>3. OperatorOK(o)'
      BY <1>1, <1>12, <2>1, <2>2 DEF OperatorOK
    <2>4. todo' = [todo EXCEPT ![o] = todo[o]] /\ todo[o] \in SUBSET Entry
      BY <1>1, <1>12
    <2> QED BY <1>2, <1>12, <2>1, <2>2, <2>3, <2>4, RequestFrame
  \* The request goes on to another command about the same task.
  <1>13. ASSUME NEW pc \in {"set", "xadd", "cleanup", "xdel", "srem"},
                apc[o] \in RetryPc, apc' = [apc EXCEPT ![o] = pc],
                UNCHANGED <<job, todo, nogroup, discarded>>, requests' = requests,
                refusals' \in 0..MaxRefusals,
                pc \in {"xdel", "srem"} => job[o].entry # NoEntry, pc = "cleanup" => refusals' > 0
         PROVE  AdminTypeInv' /\ AdminControl'
    <2>1. OperatorOK(o)'
      <3>1. apc'[o] = pc
        BY <1>1, <1>13
      <3> QED BY <1>1, <1>3, <1>13, <3>1 DEF OperatorOK
    <2>2. /\ job' = [job EXCEPT ![o] = job[o]] /\ todo' = [todo EXCEPT ![o] = todo[o]]
          /\ todo[o] \in SUBSET Entry
      BY <1>1, <1>13
    <2> QED BY <1>2, <1>13, <2>1, <2>2, RequestFrame
  <1>14. CASE RetrySet(o) \/ UpdateTask(o)
    <2>1. PICK pc \in {"set", "xadd"} : apc' = [apc EXCEPT ![o] = pc]
      BY <1>14 DEF RetrySet, UpdateTask
    <2>2. /\ apc[o] \in RetryPc /\ UNCHANGED <<job, todo, nogroup, discarded>>
          /\ requests' = requests /\ refusals' = refusals
      BY <1>14 DEF RetrySet, UpdateTask, Work
    <2> QED BY <1>2, <1>13, <2>1, <2>2
  <1>15. CASE RetryXAdd(o)
    <2>1. /\ apc[o] \in RetryPc /\ UNCHANGED <<todo, nogroup, discarded>>
          /\ requests' = requests /\ refusals' = refusals
      BY <1>15 DEF RetryXAdd, Work
    <2>2. CASE job[o].entry = NoEntry
      BY <1>2, <1>12, <1>15, <2>1, <2>2 DEF RetryXAdd
    <2>3. CASE job[o].entry # NoEntry
      BY <1>2, <1>13, <1>15, <2>1, <2>3 DEF RetryXAdd
    <2> QED BY <2>2, <2>3
  <1>16. CASE RemoveXDel(o)
    <2>1. /\ apc[o] = "xdel" /\ UNCHANGED <<job, todo, nogroup, discarded>>
          /\ requests' = requests /\ refusals' = refusals /\ apc' = [apc EXCEPT ![o] = "srem"]
      BY <1>16 DEF RemoveXDel, Work
    <2>2. job[o].entry # NoEntry
      BY <1>1, <2>1 DEF OperatorOK
    <2> QED BY <1>2, <1>13, <2>1, <2>2
  <1>17. CASE RemoveSRem(o) \/ Cleanup(o)
    <2>1. /\ EndItem(o) /\ todo' = todo /\ UNCHANGED <<nogroup, discarded>>
          /\ requests' = requests /\ refusals' = refusals
      BY <1>17 DEF RemoveSRem, Cleanup, Work
    <2> QED BY <1>2, <1>12, <2>1
  <1>18. CASE ClearSet(o) \/ PurgeGroup(o)
    <2>1. /\ apc' = [apc EXCEPT ![o] = "idle"] /\ job' = [job EXCEPT ![o] = NoJob]
          /\ apc[o] \in {"clear_set", "group"}
          /\ todo' = todo /\ discarded' = discarded /\ nogroup' \subseteq nogroup
          /\ requests' = requests /\ refusals' = refusals
      BY <1>1, <1>18 DEF ClearSet, PurgeGroup, Work, OperatorOK
    <2>2. OperatorOK(o)'
      BY <1>1, <2>1 DEF OperatorOK
    <2>3. todo' = [todo EXCEPT ![o] = todo[o]] /\ todo[o] \in SUBSET Entry
      BY <1>1, <2>1
    <2> QED BY <1>2, <2>1, <2>2, <2>3, RequestFrame
  <1>19. ASSUME refusals < MaxRefusals, refusals' = refusals + 1
         PROVE  refusals' \in 0..MaxRefusals /\ refusals' > 0
    BY <1>2, <1>19, AdminAssumption
  <1>20. CASE Abandon(o)
    <2>1. /\ apc' = [apc EXCEPT ![o] = "idle"] /\ job' = [job EXCEPT ![o] = NoJob]
          /\ todo' = [todo EXCEPT ![o] = {}]
          /\ UNCHANGED <<nogroup, discarded>> /\ requests' = requests
          /\ refusals < MaxRefusals /\ refusals' = refusals + 1
      BY <1>20 DEF Abandon, CutShort
    <2>2. OperatorOK(o)'
      BY <1>1, <2>1 DEF OperatorOK
    <2>3. {} \in SUBSET Entry /\ "idle" \in AdminPc /\ refusals' \in 0..MaxRefusals
      BY <1>19, <2>1
    <2> QED BY <1>2, <2>1, <2>2, <2>3, RequestFrame
  <1>21. CASE ItemRefused(o)
    <2>1. /\ EndItem(o) /\ todo' = todo
          /\ UNCHANGED <<nogroup, discarded>> /\ requests' = requests
          /\ refusals < MaxRefusals /\ refusals' = refusals + 1
      BY <1>21 DEF ItemRefused, CutShort
    <2> QED BY <1>12, <1>19, <2>1
  <1>22. CASE XAddRefused(o)
    <2>1. /\ apc' = [apc EXCEPT ![o] = "cleanup"] /\ UNCHANGED <<job, todo>> /\ apc[o] \in RetryPc
          /\ UNCHANGED <<nogroup, discarded>> /\ requests' = requests
          /\ refusals < MaxRefusals /\ refusals' = refusals + 1
      BY <1>22 DEF XAddRefused, CutShort
    <2> QED BY <1>13, <1>19, <2>1
  <1> QED
    BY <1>6, <1>7, <1>8, <1>9, <1>10, <1>11, <1>14, <1>15, <1>16, <1>17, <1>18, <1>20, <1>21, <1>22
    DEF OperatorMoves, NewRequest, OperatorStep

\* The rest of the system leaves the requests alone (Alongside).
LEMMA SystemKeepsRequests ==
  ASSUME AdminTypeInv, AdminControl, [SystemNext]_systemVars, UNCHANGED requestVars,
         nogroup' \in SUBSET Queues
  PROVE  AdminTypeInv' /\ AdminControl'
  <1>1. /\ SystemTypeInv /\ CountersOK
        /\ apc \in [Operators -> AdminPc]
        /\ job = [q \in Operators |-> job[q]]
        /\ todo \in [Operators -> SUBSET Entry]
        /\ \A q \in Operators : OperatorOK(q)
    BY AdminTypeParts
  <1>2. SystemTypeInv'
    BY <1>1, SystemTypeStep
  <1>3. dlq \in SUBSET Entry /\ lastDlq \in Nat
    BY <1>1 DEF SystemTypeInv, TypeInv, TypeOK, RedisTypeOK
  <1>4. lastDlq \in Nat /\ lastDlq' \in Nat /\ lastDlq <= lastDlq' /\ \A e \in dlq' : e.id <= lastDlq'
    <2>1. CASE UNCHANGED <<dlq, lastDlq>>
      BY <1>1, <1>3, <2>1 DEF CountersOK
    <2>2. ASSUME NEW w \in Workers, DlqXAdd(w) PROVE /\ lastDlq' \in Nat /\ lastDlq <= lastDlq'
                                                    /\ \A e \in dlq' : e.id <= lastDlq'
      <3>1. /\ lastDlq' = lastDlq + 1
            /\ dlq' = dlq \union {[id |-> lastDlq + 1, task |-> task(w)]}
        BY <2>2 DEF DlqXAdd, XAddDlq
      <3>2. \A e \in dlq : e.id \in Nat /\ e.id <= lastDlq
        BY <1>1, <1>3 DEF CountersOK, Entry
      <3> QED BY <1>3, <3>1, <3>2
    <2> QED BY <1>1, <1>3, <2>1, <2>2, SystemDlq
  <1>5. /\ apc' = apc /\ job' = job /\ todo' = todo /\ requests' = requests
        /\ refusals' = refusals /\ discarded' = discarded
    BY DEF requestVars
  <1>6. CountersOK'
    BY <1>1, <1>4, <1>5 DEF CountersOK
  <1>7. ASSUME NEW q \in Operators PROVE OperatorOK(q)'
    <2>1. job[q] \in Job /\ job[q].entry # NoEntry /\ job[q].entry.id <= lastDlq
            => job[q].entry.id <= lastDlq'
      <3>1. job[q] \in Job /\ job[q].entry # NoEntry => job[q].entry.id \in Nat
        BY DEF Job, Entry
      <3> QED BY <1>4, <3>1
    <2> QED BY <1>1, <1>5, <2>1 DEF OperatorOK
  <1> QED
    BY <1>1, <1>2, <1>5, <1>6, <1>7 DEF AdminTypeInv, AdminControl, OperatorOK, CountersOK

\* No step breaks the types or takes an argument away from its command.
LEMMA AdminTypeStep ==
  ASSUME AdminTypeInv, AdminControl, [AdminNext]_adminVars
  PROVE  AdminTypeInv' /\ AdminControl'
  <1>1. CASE SystemNext /\ Alongside
    <2>1. nogroup' \in SUBSET Queues
      BY <1>1 DEF Alongside, AdminTypeInv
    <2> QED BY <1>1, <2>1, SystemKeepsRequests DEF Alongside
  <1>2. ASSUME NEW o \in Operators, OperatorMoves(o) PROVE AdminTypeInv' /\ AdminControl'
    BY <1>2, OperatorTypes
  <1>3. CASE UNCHANGED adminVars
    <2>1. UNCHANGED systemVars /\ UNCHANGED requestVars /\ UNCHANGED nogroup
      BY <1>3 DEF adminVars
    <2>2. nogroup' \in SUBSET Queues
      BY <2>1 DEF AdminTypeInv
    <2> QED BY <2>1, <2>2, SystemKeepsRequests
  <1> QED BY <1>1, <1>2, <1>3 DEF AdminNext, OperatorMoves

\* Every variable keeps its type, the argument of a request fits the command it is at,
\* and an operator without a request holds nothing (RetryDLQ, ClearDLQ, RetryTask,
\* PurgeQueue next to everything else).
THEOREM AdminTypeCorrect == AdminSpec => []AdminTypeInv
  <1>1. AdminInit => AdminTypeInv /\ AdminControl
    BY AdminTypeInit
  <1>2. (AdminTypeInv /\ AdminControl) /\ [AdminNext]_adminVars => (AdminTypeInv /\ AdminControl)'
    BY AdminTypeStep
  <1> QED BY <1>1, <1>2, PTL DEF AdminSpec

(***************************************************************************)
(* Hands: nobody but a purge takes an entry away from its holder.          *)
(***************************************************************************)

\* What HeldWasDelivered says of one entry.
Delivered(e) ==
  /\ e.id <= lastId /\ e \notin stream
  /\ e \in pel \/ e.task \in discarded

LEMMA HeldDelivered ==
  ASSUME TypeInv
  PROVE  HeldWasDelivered <=> \A e \in Entry : Held(e) => Delivered(e)
  <1>1. /\ wmsg \in [Workers -> Entry \union {NoEntry}]
        /\ rclaim \in [Pools -> Entry \union {NoEntry}]
        /\ rbatch \in [Pools -> SUBSET Claimed]
        /\ rcur \in [Pools -> Entry \union {NoEntry}]
    BY DEF TypeInv, TypeOK, WorkerTypeOK, RecoveryTypeOK
  <1>2. ASSUME NEW e, e # NoEntry, e \in Holdings PROVE e \in Entry /\ Held(e)
    <2>1. CASE \E w \in Workers : e = wmsg[w]
      BY <1>1, <1>2, <2>1 DEF Held, HeldByWorker
    <2>2. CASE \E p \in Pools : \/ e \in {rclaim[p], rcur[p]}
                                \/ \E b \in rbatch[p] : e = b.entry
      BY <1>1, <1>2, <2>2 DEF Held, RecoveryHolds, InBatch, Claimed
    <2> QED BY <1>2, <2>1, <2>2 DEF Holdings
  <1>3. ASSUME NEW e \in Entry, Held(e) PROVE e \in Holdings
    BY <1>3 DEF Held, HeldByWorker, RecoveryHolds, InBatch, Holdings
  <1> QED BY <1>2, <1>3, NoEntryAssumption DEF HeldWasDelivered, Delivered

\* Entries are added under new ids, delivered, or acknowledged.
LEMMA SystemStreams ==
  ASSUME SystemTypeInv, [SystemNext]_systemVars
  PROVE  \/ UNCHANGED <<stream, lastId, pel>>
         \/ UNCHANGED <<stream, lastId>> /\ \E e : pel' = pel \ {e}
         \/ UNCHANGED pel /\ \E t \in Tasks : XAddTask(t)
         \/ /\ stream' = stream \ Heads /\ pel' = pel \union Heads /\ lastId' = lastId
            /\ Heads \subseteq stream
  <1>1. /\ wmsg \in [Workers -> Entry \union {NoEntry}]
        /\ rcur \in [Pools -> Entry \union {NoEntry}]
        /\ RecoveryControl
    BY DEF SystemTypeInv, TypeInv, TypeOK, WorkerTypeOK, RecoveryTypeOK
  <1>2. ASSUME NEW w \in Workers, WorkerNext(w)
        PROVE  \/ UNCHANGED <<stream, lastId, pel>>
               \/ UNCHANGED <<stream, lastId>> /\ \E e : pel' = pel \ {e}
               \/ /\ stream' = stream \ Heads /\ pel' = pel \union Heads /\ lastId' = lastId
                  /\ Heads \subseteq stream
    <2>1. CASE Dequeue(w)
      BY <2>1 DEF Dequeue, XReadGroup, Heads
    <2>2. CASE Drop(w) \/ Acknowledge(w)
      BY <2>2 DEF Drop, Acknowledge, XAck
    <2> QED
      BY <1>2, <2>1, <2>2
      DEF WorkerNext, WorkerStep, GetMissing, StartRefused, StartTask, SetRunning, SetCompleted,
          SetRetrying, SetFailed, FinishWith, ScheduleSet, ScheduleZAdd, DlqXAdd, DlqSAdd, redisVars
  <1>3. ASSUME NEW p \in Pools, SystemPoolNext(p)
        PROVE  \/ UNCHANGED <<stream, lastId, pel>>
               \/ UNCHANGED <<stream, lastId>> /\ \E e : pel' = pel \ {e}
               \/ UNCHANGED pel /\ \E t \in Tasks : XAddTask(t)
    <2>1. CASE RequeueXAdd(p)
      BY <1>1, <2>1 DEF RequeueXAdd, RecoveryControl, Entry
    <2>2. CASE RequeueAck(p)
      BY <2>2 DEF RequeueAck, XAck
    <2> QED
      BY <1>3, <2>1, <2>2
      DEF SystemPoolNext, RecoveryNext, RecoveryStep, Claim, ReadMissing, ReadClaimed, RequeueSet,
          Crash, Restart, redisVars
  <1>4. ASSUME NEW t \in Tasks, SystemApiNext(t)
        PROVE  UNCHANGED pel /\ (UNCHANGED <<stream, lastId>> \/ XAddTask(t))
    BY <1>4
    DEF SystemApiNext, ApiNext, ApiStep, Submit, EnqueueSet, EnqueueXAdd, CreateScheduledSet,
        CreateScheduledZAdd, AbortCreate, CancelRead, CancelSet, Expire, redisVars
  <1>5. ASSUME SchedulerMoves
        PROVE  UNCHANGED pel /\ (UNCHANGED <<stream, lastId>> \/ \E t \in Tasks : XAddTask(t))
    BY <1>5, SchedulerWrites
  <1>6. CASE UNCHANGED systemVars
    BY <1>6 DEF systemVars, vars, redisVars
  <1> QED
    BY <1>2, <1>3, <1>4, <1>5, <1>6
    DEF SystemNext, SystemWorkerNext, SchedulerNext, SchedulerMoves

\* An entry is undelivered or pending, not both, whatever a step does to the streams.
LEMMA EntriesStep ==
  ASSUME SystemTypeInv, EntriesInv, [SystemNext]_systemVars
  PROVE  EntriesInv'
  <1>1. lastId \in Nat /\ stream \in SUBSET Entry /\ pel \in SUBSET Entry
    BY DEF SystemTypeInv, TypeInv, TypeOK, RedisTypeOK
  <1>2. CASE UNCHANGED <<stream, lastId>> /\ pel' \subseteq pel
    BY <1>2 DEF EntriesInv
  <1>3. CASE UNCHANGED pel /\ \E t \in Tasks : XAddTask(t)
    <2>1. PICK t \in Tasks : XAddTask(t)
      BY <1>3
    <2>2. PICK e \in Entry : e = [id |-> lastId + 1, task |-> t] /\ e.id = lastId + 1
      <3>1. [id |-> lastId + 1, task |-> t] \in Entry
        BY <1>1 DEF Entry
      <3> QED BY <3>1
    <2>3. stream' = stream \union {e} /\ lastId' = lastId + 1 /\ pel' = pel
      BY <1>3, <2>1, <2>2 DEF XAddTask
    <2>4. \A f \in stream \union pel : f.id \in Nat /\ f.id <= lastId
      BY <1>1 DEF EntriesInv, Entry
    <2>5. e \notin pel
      BY <1>1, <2>2, <2>4
    <2> QED BY <1>1, <2>2, <2>3, <2>4, <2>5 DEF EntriesInv
  <1>4. CASE /\ stream' = stream \ Heads /\ pel' = pel \union Heads /\ lastId' = lastId
             /\ Heads \subseteq stream
    BY <1>4 DEF EntriesInv
  <1> QED BY <1>2, <1>3, <1>4, SystemStreams

\* What is in a hand after a step is pending, or was in one and is not pending since a
\* purge; no entry is in two hands.
StaysInHand(e) == e \in pel' \/ (Held(e) /\ e \notin pel)

HandsKept == HeldOnce' /\ \A e \in Entry : Held(e)' => StaysInHand(e)

\* A worker takes an entry nobody else has, or lets go of its own.
LEMMA HandsWorker ==
  ASSUME SystemTypeInv, AdminHolding, NEW w \in Workers, WorkerNext(w)
  PROVE  HandsKept
  <1>1. /\ stream \in SUBSET Entry /\ pel \in SUBSET Entry
        /\ wmsg \in [Workers -> Entry \union {NoEntry}]
        /\ TypeInv
    BY DEF SystemTypeInv, TypeInv, TypeOK, RedisTypeOK, WorkerTypeOK
  <1>2. UNCHANGED <<rclaim, rbatch, rcur>>
    BY DEF WorkerNext, recoveryVars
  <1>3. HeldOnce /\ \A e \in Entry : Held(e) => Delivered(e)
    BY <1>1, HeldDelivered DEF AdminHolding
  <1>4. CASE UNCHANGED <<stream, pel, wmsg>>
    <2>1. HeldOnce'
      BY <1>2, <1>3, <1>4 DEF HeldOnce, RecoveryHolds, InBatch
    <2>2. \A e \in Entry : Held(e)' => Held(e)
      BY <1>2, <1>4 DEF Held, HeldByWorker, RecoveryHolds, InBatch
    <2> QED BY <1>4, <2>1, <2>2 DEF HandsKept, StaysInHand
  <1>5. CASE Dequeue(w)
    <2>1. PICK e \in Heads : wmsg' = [wmsg EXCEPT ![w] = e]
      BY <1>5 DEF Dequeue
    <2>2. pel' = pel \union Heads /\ Heads \subseteq stream
      BY <1>5 DEF Dequeue, XReadGroup, Heads
    <2>3. e \in Entry /\ e # NoEntry /\ e \in pel'
      BY <1>1, <2>1, <2>2, NoEntryAssumption
    <2>4. \A f \in Heads : ~ Held(f)
      BY <1>1, <1>3, <2>2 DEF Delivered
    <2>5. HeldOnce'
      <3>1. \A u \in Workers : wmsg[u] # e
        BY <2>4 DEF Held, HeldByWorker
      <3>2. \A f \in Heads, p \in Pools : ~ RecoveryHolds(p, f)
        BY <2>4 DEF Held
      <3>3. \A u, v \in Workers : wmsg'[u] = wmsg'[v] => u = v \/ wmsg'[v] = NoEntry
        BY <1>1, <1>3, <2>1, <3>1 DEF HeldOnce
      <3>4. \A v \in Workers, p \in Pools :
              wmsg'[v] # NoEntry => ~ RecoveryHolds(p, wmsg'[v])
        BY <1>1, <1>3, <2>1, <3>2 DEF HeldOnce
      <3>5. \A p, q \in Pools : \A f \in pel' :
              RecoveryHolds(p, f) /\ RecoveryHolds(q, f) => p = q
        BY <1>3, <2>2, <3>2 DEF HeldOnce
      <3> QED BY <1>2, <1>3, <3>3, <3>4, <3>5 DEF HeldOnce, RecoveryHolds, InBatch
    <2>6. \A f \in Entry : Held(f)' => Held(f) \/ f = e
      BY <1>1, <1>2, <2>1 DEF Held, HeldByWorker, RecoveryHolds, InBatch
    <2> QED BY <2>2, <2>3, <2>5, <2>6 DEF HandsKept, StaysInHand
  <1>6. ASSUME wmsg' = [wmsg EXCEPT ![w] = NoEntry], pel' = pel \/ pel' = pel \ {wmsg[w]},
               wmsg[w] # NoEntry
        PROVE  HandsKept
    <2>1. HeldOnce'
      BY <1>1, <1>2, <1>3, <1>6 DEF HeldOnce, RecoveryHolds, InBatch
    <2>2. ASSUME NEW e \in Entry, Held(e)' PROVE Held(e) /\ e # wmsg[w]
      <3>1. \A p \in Pools : ~ RecoveryHolds(p, wmsg[w])
        BY <1>3, <1>6 DEF HeldOnce
      <3>2. \A v \in Workers : v # w => wmsg[v] # wmsg[w]
        BY <1>3, <1>6 DEF HeldOnce
      <3>3. CASE \E v \in Workers : wmsg'[v] = e
        BY <1>1, <1>6, <3>2, <3>3, NoEntryAssumption DEF Held, HeldByWorker
      <3>4. CASE \E p \in Pools : RecoveryHolds(p, e)
        BY <3>1, <3>4 DEF Held
      <3> QED BY <1>2, <2>2, <3>3, <3>4 DEF Held, HeldByWorker, RecoveryHolds, InBatch
    <2> QED BY <1>6, <2>1, <2>2 DEF HandsKept, StaysInHand
  <1>7. CASE Drop(w) \/ Acknowledge(w) \/ StartRefused(w)
    <2>1. wmsg[w] # NoEntry
      BY <1>1, <1>7 DEF Drop, Acknowledge, StartRefused, At, TypeInv, WorkerControl
    <2> QED
      BY <1>6, <1>7, <2>1 DEF Drop, Acknowledge, StartRefused, Return, XAck, redisVars
  <1> QED
    BY <1>4, <1>5, <1>7
    DEF WorkerNext, WorkerStep, GetMissing, StartTask, SetRunning, SetCompleted, SetRetrying,
        SetFailed, HandlerReturns, FinishWith, ScheduleSet, ScheduleZAdd, DlqXAdd, DlqSAdd,
        redisVars

\* A recovery loop passes an entry from hand to hand until it acknowledges it, also one
\* that was purged; it claims only pending entries, which nobody holds when handlers are
\* prompt.
LEMMA HandsRecovery ==
  ASSUME SystemTypeInv, AdminHolding, NEW p \in Pools, RecoveryNext(p), slow' = 0
  PROVE  HandsKept
  <1> USE NoEntryAssumption
  <1>1. /\ pel \in SUBSET Entry
        /\ rclaim \in [Pools -> Entry \union {NoEntry}]
        /\ rbatch \in [Pools -> SUBSET Claimed]
        /\ rcur \in [Pools -> Entry \union {NoEntry}]
        /\ slow \in Nat
        /\ RecoveryControl
    BY DEF SystemTypeInv, TypeInv, TypeOK, RedisTypeOK, RecoveryTypeOK
  <1>2. HeldOnce
    BY DEF AdminHolding
  <1>3. UNCHANGED wmsg
    BY DEF RecoveryNext, RecoveryStep, Claim, ReadMissing, ReadClaimed, RequeueSet,
           RequeueXAdd, RequeueAck, workerVars
  <1>4. ASSUME NEW e \in pel, Claim(p, e) PROVE HandsKept
    <2>1. ~ Held(e)
      BY <1>1, <1>4 DEF Claim
    <2>2. /\ e \in Entry /\ e # NoEntry
          /\ UNCHANGED <<pel, rbatch, rcur>>
          /\ rclaim' = [rclaim EXCEPT ![p] = e]
          /\ rclaim[p] = NoEntry
      BY <1>1, <1>4 DEF Claim, redisVars, RecoveryControl
    <2>3. HeldOnce'
      BY <1>1, <1>2, <1>3, <2>1, <2>2
      DEF HeldOnce, Held, HeldByWorker, RecoveryHolds, InBatch
    <2>4. \A f \in Entry : Held(f)' => Held(f) \/ f = e
      BY <1>1, <1>3, <2>2 DEF Held, HeldByWorker, RecoveryHolds, InBatch
    <2> QED BY <2>2, <2>3, <2>4 DEF HandsKept, StaysInHand
  <1>5. CASE ReadMissing(p)
    <2>1. /\ UNCHANGED <<pel, rbatch, rcur>>
          /\ rclaim' = [rclaim EXCEPT ![p] = NoEntry]
      BY <1>5 DEF ReadMissing, redisVars
    <2>2. HeldOnce'
      BY <1>1, <1>2, <1>3, <2>1 DEF HeldOnce, RecoveryHolds, InBatch
    <2>3. \A f \in Entry : Held(f)' => Held(f)
      BY <1>1, <1>3, <2>1 DEF Held, HeldByWorker, RecoveryHolds, InBatch
    <2> QED BY <2>1, <2>2, <2>3 DEF HandsKept, StaysInHand
  <1>6. CASE ReadClaimed(p)
    <2> DEFINE c == [entry |-> rclaim[p], rec |-> store[rclaim[p].task]]
    <2>1. /\ rbatch' = [rbatch EXCEPT ![p] = @ \union {c}]
          /\ c.entry = rclaim[p]
      BY <1>6 DEF ReadClaimed
    <2> HIDE DEF c
    <2>2. /\ UNCHANGED <<pel, rcur>>
          /\ rclaim' = [rclaim EXCEPT ![p] = NoEntry]
          /\ rclaim[p] # NoEntry
      BY <1>1, <1>6 DEF ReadClaimed, redisVars, RecoveryControl
    <2>3. \A q \in Pools, e \in Entry : RecoveryHolds(q, e)' => RecoveryHolds(q, e)
      BY <1>1, <2>1, <2>2 DEF RecoveryHolds, InBatch, Claimed
    <2>4. HeldOnce'
      <3>1. \A w \in Workers, q \in Pools :
              wmsg'[w] # NoEntry => ~ RecoveryHolds(q, wmsg[w])'
        BY <1>1, <1>2, <1>3, <2>1, <2>2 DEF HeldOnce, RecoveryHolds, InBatch
      <3>2. \A q, r \in Pools : \A e \in pel' :
              RecoveryHolds(q, e)' /\ RecoveryHolds(r, e)' => q = r
        BY <1>1, <1>2, <2>2, <2>3 DEF HeldOnce
      <3>3. \A q \in Pools :
              /\ rclaim'[q] # NoEntry => rclaim'[q] # rcur'[q] /\ ~ InBatch(q, rclaim[q])'
              /\ rcur'[q] # NoEntry => ~ InBatch(q, rcur[q])'
              /\ \A b, d \in rbatch'[q] : b.entry = d.entry => b = d
        BY <1>1, <1>2, <2>1, <2>2 DEF HeldOnce, InBatch
      <3>4. \A v, w \in Workers : wmsg'[v] = wmsg'[w] => v = w \/ wmsg'[w] = NoEntry
        BY <1>2, <1>3 DEF HeldOnce
      <3> QED BY <3>1, <3>2, <3>3, <3>4 DEF HeldOnce
    <2>5. \A e \in Entry : Held(e)' => Held(e)
      BY <1>3, <2>3 DEF Held, HeldByWorker
    <2> QED BY <2>2, <2>4, <2>5 DEF HandsKept, StaysInHand
  <1>7. CASE RequeueSet(p)
    <2>1. PICK b \in rbatch[p] :
            /\ rbatch' = [rbatch EXCEPT ![p] = @ \ {b}]
            /\ rcur' = [rcur EXCEPT ![p] = b.entry]
      BY <1>7 DEF RequeueSet
    <2>2. /\ UNCHANGED <<pel, rclaim>>
          /\ rcur[p] = NoEntry
          /\ b.entry \in Entry /\ b.entry # NoEntry
      BY <1>1, <1>7 DEF RequeueSet, RecoveryControl, Claimed
    <2>3. \A q \in Pools, e \in Entry : RecoveryHolds(q, e)' => RecoveryHolds(q, e)
      BY <1>1, <2>1, <2>2 DEF RecoveryHolds, InBatch, Claimed
    <2>4. HeldOnce'
      <3>1. \A w \in Workers, q \in Pools :
              wmsg'[w] # NoEntry => ~ RecoveryHolds(q, wmsg[w])'
        BY <1>1, <1>2, <1>3, <2>1, <2>2 DEF HeldOnce, RecoveryHolds, InBatch
      <3>2. \A q, r \in Pools : \A e \in pel' :
              RecoveryHolds(q, e)' /\ RecoveryHolds(r, e)' => q = r
        BY <1>1, <1>2, <2>2, <2>3 DEF HeldOnce
      <3>3. \A q \in Pools :
              /\ rclaim'[q] # NoEntry => rclaim'[q] # rcur'[q] /\ ~ InBatch(q, rclaim[q])'
              /\ rcur'[q] # NoEntry => ~ InBatch(q, rcur[q])'
              /\ \A c, d \in rbatch'[q] : c.entry = d.entry => c = d
        BY <1>1, <1>2, <2>1, <2>2 DEF HeldOnce, InBatch
      <3>4. \A v, w \in Workers : wmsg'[v] = wmsg'[w] => v = w \/ wmsg'[w] = NoEntry
        BY <1>2, <1>3 DEF HeldOnce
      <3> QED BY <3>1, <3>2, <3>3, <3>4 DEF HeldOnce
    <2>5. \A e \in Entry : Held(e)' => Held(e)
      BY <1>3, <2>3 DEF Held, HeldByWorker
    <2> QED BY <2>2, <2>4, <2>5 DEF HandsKept, StaysInHand
  <1>8. CASE RequeueXAdd(p)
    <2>1. UNCHANGED <<pel, rclaim, rbatch, rcur>>
      BY <1>8 DEF RequeueXAdd
    <2>2. HeldOnce'
      BY <1>2, <1>3, <2>1 DEF HeldOnce, RecoveryHolds, InBatch
    <2>3. \A e \in Entry : Held(e)' => Held(e)
      BY <1>3, <2>1 DEF Held, HeldByWorker, RecoveryHolds, InBatch
    <2> QED BY <2>1, <2>2, <2>3 DEF HandsKept, StaysInHand
  <1>9. CASE RequeueAck(p)
    <2>1. /\ UNCHANGED <<rclaim, rbatch>>
          /\ rcur[p] # NoEntry
          /\ pel' = pel \ {rcur[p]}
          /\ rcur' = [rcur EXCEPT ![p] = NoEntry]
      BY <1>1, <1>9 DEF RequeueAck, XAck, RecoveryControl
    <2>2. HeldOnce'
      BY <1>1, <1>2, <1>3, <2>1 DEF HeldOnce, RecoveryHolds, InBatch
    <2>3. \A e \in Entry : Held(e)' => Held(e)
      BY <1>1, <1>3, <2>1 DEF Held, HeldByWorker, RecoveryHolds, InBatch
    <2>4. PICK x : x = rcur[p]
      OBVIOUS
    <2>5. x \in pel => ~ Held(x)'
      <3>1. /\ \A w \in Workers : wmsg[w] # x
            /\ rclaim[p] # x /\ ~ InBatch(p, x)
        BY <1>2, <2>1, <2>4 DEF HeldOnce, RecoveryHolds
      <3>2. x \in pel => \A q \in Pools : q # p => ~ RecoveryHolds(q, x)
        BY <1>2, <2>4 DEF HeldOnce, RecoveryHolds
      <3>3. rcur'[p] # x \/ x \notin pel
        BY <1>1, <2>1
      <3> QED BY <1>1, <1>3, <2>1, <3>1, <3>2, <3>3 DEF Held, HeldByWorker, RecoveryHolds, InBatch
    <2>6. ASSUME NEW e \in Entry, Held(e)' PROVE StaysInHand(e)
      <3>1. pel' = pel \ {x} /\ (e \in pel => e # x)
        BY <2>1, <2>4, <2>5, <2>6
      <3> QED BY <2>3, <2>6, <3>1 DEF StaysInHand
    <2> QED BY <2>2, <2>6 DEF HandsKept
  <1> QED BY <1>4, <1>5, <1>6, <1>7, <1>8, <1>9 DEF RecoveryNext, RecoveryStep

\* A process that dies lets go of everything it holds.
LEMMA HandsCrash ==
  ASSUME SystemTypeInv, AdminHolding, NEW p \in Pools, Crash(p) \/ Restart(p)
  PROVE  HandsKept
  <1> USE NoEntryAssumption
  <1>1. /\ wmsg \in [Workers -> Entry \union {NoEntry}]
        /\ rclaim \in [Pools -> Entry \union {NoEntry}]
        /\ rbatch \in [Pools -> SUBSET Claimed]
        /\ rcur \in [Pools -> Entry \union {NoEntry}]
        /\ pel \in SUBSET Entry
    BY DEF SystemTypeInv, TypeInv, TypeOK, RedisTypeOK, WorkerTypeOK, RecoveryTypeOK
  <1>2. /\ pel' = pel
        /\ \A w \in Workers : wmsg'[w] \in {wmsg[w], NoEntry}
        /\ \A q \in Pools : /\ rclaim'[q] \in {rclaim[q], NoEntry}
                            /\ rcur'[q] \in {rcur[q], NoEntry}
                            /\ rbatch'[q] \in {rbatch[q], {}}
    BY <1>1 DEF Crash, Restart, redisVars
  <1>3. HeldOnce
    BY DEF AdminHolding
  <1>4. \A q \in Pools, e \in Entry : RecoveryHolds(q, e)' => RecoveryHolds(q, e)
    BY <1>2 DEF RecoveryHolds, InBatch
  <1>5. \A e \in Entry : Held(e)' => Held(e)
    BY <1>2, <1>4 DEF Held, HeldByWorker
  <1>6. HeldOnce'
    <2>1. \A w \in Workers, q \in Pools :
            wmsg'[w] # NoEntry => ~ RecoveryHolds(q, wmsg[w])'
      BY <1>2, <1>3 DEF HeldOnce, RecoveryHolds, InBatch
    <2>2. \A q, r \in Pools : \A e \in pel' :
            RecoveryHolds(q, e)' /\ RecoveryHolds(r, e)' => q = r
      BY <1>1, <1>2, <1>3, <1>4 DEF HeldOnce
    <2>3. \A q \in Pools :
            /\ rclaim'[q] # NoEntry => rclaim'[q] # rcur'[q] /\ ~ InBatch(q, rclaim[q])'
            /\ rcur'[q] # NoEntry => ~ InBatch(q, rcur[q])'
            /\ \A c, d \in rbatch'[q] : c.entry = d.entry => c = d
      BY <1>2, <1>3 DEF HeldOnce, InBatch
    <2>4. \A v, w \in Workers : wmsg'[v] = wmsg'[w] => v = w \/ wmsg'[w] = NoEntry
      BY <1>2, <1>3 DEF HeldOnce
    <2> QED BY <2>1, <2>2, <2>3, <2>4 DEF HeldOnce
  <1> QED BY <1>2, <1>5, <1>6 DEF HandsKept, StaysInHand

\* Whoever leaves the hands alone and takes nothing pending away keeps them.
LEMMA HandsElsewhere ==
  ASSUME HeldOnce, UNCHANGED <<wmsg, rclaim, rbatch, rcur>>, pel' = pel
  PROVE  HandsKept
  <1>1. HeldOnce'
    BY DEF HeldOnce, RecoveryHolds, InBatch
  <1>2. \A e \in Entry : Held(e)' => Held(e)
    BY DEF Held, HeldByWorker, RecoveryHolds, InBatch
  <1> QED BY <1>1, <1>2 DEF HandsKept, StaysInHand

\* The hands of the system beside the requests.
LEMMA HandsSystem ==
  ASSUME SystemTypeInv, AdminHolding, [SystemNext]_systemVars, slow' = 0
  PROVE  HandsKept
  <1>1. ASSUME NEW t \in Tasks, SystemApiNext(t)
        PROVE  UNCHANGED <<wmsg, rclaim, rbatch, rcur, pel>>
    BY <1>1
    DEF SystemApiNext, ApiNext, ApiStep, Submit, EnqueueSet, EnqueueXAdd, CreateScheduledSet,
        CreateScheduledZAdd, AbortCreate, CancelRead, CancelSet, Expire, redisVars, workerVars,
        recoveryVars
  <1>2. ASSUME SchedulerMoves PROVE UNCHANGED <<wmsg, rclaim, rbatch, rcur, pel>>
    BY <1>2, SchedulerWrites DEF workerVars, recoveryVars
  <1>3. CASE UNCHANGED systemVars
    BY <1>3, HandsElsewhere DEF AdminHolding, systemVars, vars, redisVars, workerVars, recoveryVars
  <1>4. CASE UNCHANGED <<wmsg, rclaim, rbatch, rcur, pel>>
    BY <1>4, HandsElsewhere DEF AdminHolding
  <1> QED
    BY <1>1, <1>2, <1>3, <1>4, HandsWorker, HandsRecovery, HandsCrash
    DEF SystemNext, SystemWorkerNext, SystemPoolNext, SchedulerNext, SchedulerMoves

\* What is kept in the hands has been delivered.
LEMMA HandsDelivered ==
  ASSUME TypeInv, TypeInv', HeldWasDelivered, HandsKept, EntriesInv',
         \A e \in Entry : e.id <= lastId /\ e \notin stream /\ e \notin pel /\ e.task \in discarded =>
           (e.id <= lastId /\ e \notin stream /\ e.task \in discarded)'
  PROVE  HeldWasDelivered'
  <1>1. ASSUME NEW e \in Entry, Held(e)' PROVE Delivered(e)'
    <2>1. CASE e \in pel'
      BY <2>1 DEF EntriesInv, Delivered
    <2>2. CASE Held(e) /\ e \notin pel
      <3>1. Delivered(e)
        BY <2>2, HeldDelivered
      <3> QED BY <2>2, <3>1 DEF Delivered
    <2> QED BY <1>1, <2>1, <2>2 DEF HandsKept, StaysInHand
  <1>2. /\ wmsg' \in [Workers -> Entry \union {NoEntry}]
        /\ rclaim' \in [Pools -> Entry \union {NoEntry}]
        /\ rbatch' \in [Pools -> SUBSET Claimed]
        /\ rcur' \in [Pools -> Entry \union {NoEntry}]
    BY DEF TypeInv, TypeOK, WorkerTypeOK, RecoveryTypeOK
  <1>3. ASSUME NEW e, e # NoEntry, e \in Holdings' PROVE e \in Entry /\ Held(e)'
    <2>1. CASE \E w \in Workers : e = wmsg'[w]
      BY <1>2, <1>3, <2>1 DEF Held, HeldByWorker
    <2>2. CASE \E p \in Pools : \/ e \in {rclaim'[p], rcur'[p]}
                                \/ \E b \in rbatch'[p] : e = b.entry
      BY <1>2, <1>3, <2>2 DEF Held, RecoveryHolds, InBatch, Claimed
    <2> QED BY <1>3, <2>1, <2>2 DEF Holdings
  <1> QED BY <1>1, <1>3 DEF HeldWasDelivered, Delivered

\* The requests of operators: a purge leaves nothing of a task that is not discarded,
\* and what was delivered once is not delivered again.
LEMMA OperatorKeepsHands ==
  ASSUME AdminTypeInv, AdminControl, AdminHolding, NEW o \in Operators, OperatorMoves(o)
  PROVE  AdminHolding'
  <1>1. /\ TypeInv /\ TypeInv' /\ lastId \in Nat /\ stream \in SUBSET Entry /\ pel \in SUBSET Entry
        /\ apc[o] = "xadd" => job[o].task \in Tasks
    <2>1. AdminTypeInv'
      BY OperatorTypes
    <2> QED
      BY <2>1 DEF AdminTypeInv, SystemTypeInv, TypeInv, TypeOK, RedisTypeOK, RetryPc, Job
  <1>2. EntriesInv /\ HeldWasDelivered /\ HeldOnce
    BY DEF AdminHolding
  <1>3. UNCHANGED <<wmsg, rclaim, rbatch, rcur>> /\ pel' \subseteq pel /\ discarded \subseteq discarded'
    BY OperatorWrites DEF OutsideRedis, workerVars, recoveryVars
  <1>4. \/ stream' \subseteq stream /\ lastId' = lastId
        \/ \E e \in Entry : e.id = lastId + 1 /\ stream' = stream \union {e} /\ lastId' = lastId + 1
    <2>1. CASE apc[o] = "xadd" /\ XAddTask(job[o].task)
      <3>1. [id |-> lastId + 1, task |-> job[o].task] \in Entry
        BY <1>1, <2>1 DEF Entry
      <3> QED BY <2>1, <3>1 DEF XAddTask
    <2> QED BY <2>1, OperatorWrites
  <1>5. \A e \in stream \union pel : e.id \in Nat /\ e.id <= lastId
    BY <1>1, <1>2 DEF EntriesInv, Entry
  <1>6. EntriesInv'
    <2>1. CASE stream' \subseteq stream /\ lastId' = lastId
      BY <1>2, <1>3, <2>1 DEF EntriesInv
    <2>2. ASSUME NEW e \in Entry, e.id = lastId + 1, stream' = stream \union {e}, lastId' = lastId + 1
          PROVE  EntriesInv'
      <3>1. e \notin pel
        BY <1>1, <1>5, <2>2
      <3> QED BY <1>1, <1>2, <1>3, <1>5, <2>2, <3>1 DEF EntriesInv
    <2> QED BY <1>4, <2>1, <2>2
  <1>7. HeldOnce'
    BY <1>2, <1>3 DEF HeldOnce, RecoveryHolds, InBatch
  <1>8. ASSUME NEW e \in Holdings' \ {NoEntry} PROVE Delivered(e)'
    <2>1. e \in Holdings \ {NoEntry}
      BY <1>3 DEF Holdings
    <2>2. e \in Entry /\ Delivered(e)
      <3>1. /\ wmsg \in [Workers -> Entry \union {NoEntry}]
            /\ rclaim \in [Pools -> Entry \union {NoEntry}]
            /\ rbatch \in [Pools -> SUBSET Claimed]
            /\ rcur \in [Pools -> Entry \union {NoEntry}]
        BY <1>1 DEF TypeInv, TypeOK, WorkerTypeOK, RecoveryTypeOK
      <3>2. Holdings \subseteq Entry \union {NoEntry}
        BY <3>1 DEF Holdings, Claimed
      <3> QED BY <1>2, <2>1, <3>2 DEF HeldWasDelivered, Delivered
    <2>3. e.id \in Nat
      BY <2>2 DEF Entry
    <2>4. e.id <= lastId' /\ e \notin stream'
      BY <1>1, <1>4, <2>2, <2>3 DEF Delivered
    <2>5. e \in pel' \/ e.task \in discarded'
      <3>1. CASE e \in pel
        <4>1. e \in (stream \union pel)' \/ e.task \in discarded'
          BY <3>1, OperatorWrites
        <4> QED BY <2>4, <4>1
      <3> QED BY <1>3, <2>2, <3>1 DEF Delivered
    <2> QED BY <2>4, <2>5 DEF Delivered
  <1>9. HeldWasDelivered'
    BY <1>8 DEF HeldWasDelivered, Delivered
  <1> QED BY <1>6, <1>7, <1>9 DEF AdminHolding

\* While handlers are prompt, no entry is in two hands, and nobody but a purge takes one
\* away from its holder.
LEMMA HoldingStep ==
  ASSUME AdminTypeInv, AdminControl, AdminHolding, [AdminNext]_adminVars, slow' = 0
  PROVE  AdminHolding'
  <1>1. ASSUME [SystemNext]_systemVars, UNCHANGED requestVars PROVE AdminHolding'
    <2>1. /\ SystemTypeInv /\ SystemTypeInv' /\ TypeInv /\ TypeInv'
          /\ EntriesInv /\ HeldWasDelivered
      BY <1>1, SystemTypeStep DEF AdminTypeInv, SystemTypeInv, AdminHolding
    <2>2. EntriesInv' /\ HandsKept
      BY <1>1, <2>1, EntriesStep, HandsSystem
    <2>3. ASSUME NEW e \in Entry, e.id <= lastId, e \notin stream
          PROVE  e.id <= lastId' /\ e \notin stream'
      <3>1. e.id \in Nat /\ lastId \in Nat
        BY <2>1 DEF Entry, TypeInv, TypeOK, RedisTypeOK
      <3>2. CASE lastId' = lastId /\ stream' \subseteq stream
        BY <2>3, <3>2
      <3>3. ASSUME NEW t \in Tasks, XAddTask(t) PROVE e.id <= lastId' /\ e \notin stream'
        BY <2>3, <3>1, <3>3 DEF XAddTask
      <3> QED BY <1>1, <2>1, <3>2, <3>3, SystemStreams
    <2>4. discarded' = discarded
      BY <1>1 DEF requestVars
    <2>5. HeldWasDelivered'
      BY <2>1, <2>2, <2>3, <2>4, HandsDelivered
    <2> QED BY <2>2, <2>5 DEF AdminHolding, HandsKept
  <1>2. CASE UNCHANGED adminVars
    BY <1>1, <1>2 DEF adminVars
  <1>3. CASE SystemNext /\ Alongside
    BY <1>1, <1>3 DEF Alongside
  <1> QED BY <1>2, <1>3, OperatorKeepsHands DEF AdminNext, OperatorMoves

(***************************************************************************)
(* NewsInv: what is written, delivered and retried has been created.       *)
(***************************************************************************)

\* What NewsInv says of one task.
NewsOf(t) ==
  /\ cpc[t] # "created" => Unknown(t)
  /\ cpc[t] \in {"new", "set_pending", "set_scheduled"} => ~ Exists(t)
  /\ cpc[t] = "xadd" => store[t] = NewRecord("pending")
  /\ cpc[t] = "zadd" => store[t] = NewRecord("scheduled")
  /\ cpc[t] = "aborted" /\ Exists(t) => store[t].state \in {"pending", "scheduled"}
  /\ Exists(t) => store[t].state # "dead_letter"
  /\ krec[t] # NoTask => krec[t].state = "canceled"

\* Initially no task has been submitted.
LEMMA NewsInit == AdminInit => NewsInv
  <1> SUFFICES ASSUME AdminInit, NEW t \in Tasks PROVE NewsOf(t)
    BY DEF NewsInv, NewsOf
  <1>1. /\ cpc[t] = "new" /\ store[t] = NoTask /\ krec[t] = NoTask
        /\ stream = {} /\ pel = {} /\ zset = {} /\ dlq = {} /\ accepted = {}
        /\ \A s \in Schedulers : sbatch[s] = {}
        /\ \A w \in Workers : wmsg[w] = NoEntry
        /\ \A p \in Pools : rclaim[p] = NoEntry /\ rcur[p] = NoEntry /\ rbatch[p] = {}
        /\ \A o \in Operators : apc[o] = "idle" /\ todo[o] = {}
    BY DEF AdminInit, SystemInit, Init, RedisInit, ApiInit, WorkerInit, RecoveryInit, SchedulerInit
  <1>2. \A e \in Holdings : e = NoEntry
    BY <1>1 DEF Holdings
  <1>3. \A o \in Operators : ~ AtTask(o, t) /\ ~ EntryOf(t, todo[o])
    BY <1>1 DEF AtTask, EntryOf, RetryPc
  <1>4. Unknown(t)
    BY <1>1, <1>2, <1>3 DEF Unknown, Unheard, EntryOf
  <1> QED BY <1>1, <1>4 DEF NewsOf, Exists

\* What is in a stream, a hand, a batch or a request has been created.
LEMMA HeardTasks ==
  ASSUME AdminTypeInv, NewsInv
  PROVE  /\ \A e \in stream \union pel \union dlq : cpc[e.task] = "created"
         /\ \A e \in Entry : Held(e) => cpc[e.task] = "created"
         /\ \A t \in zset \union accepted : cpc[t] = "created"
         /\ \A s \in Schedulers : \A t \in sbatch[s] : cpc[t] = "created"
         /\ \A s \in Schedulers : scur[s] # NoTask => cpc[scur[s]] = "created"
         /\ \A t \in Tasks, o \in Operators :
              AtTask(o, t) \/ EntryOf(t, todo[o]) => cpc[t] = "created"
  <1>1. /\ stream \in SUBSET Entry /\ pel \in SUBSET Entry /\ dlq \in SUBSET Entry
        /\ zset \in SUBSET Tasks /\ accepted \in SUBSET Tasks
    BY DEF AdminTypeInv, SystemTypeInv, TypeInv, TypeOK, RedisTypeOK, ApiTypeOK
  <1>2. sbatch \in [Schedulers -> SUBSET Tasks] /\ SchedulerControl
    BY DEF AdminTypeInv, SystemTypeInv, SchedulerTypeOK
  <1>3. \A t \in Tasks : cpc[t] # "created" => Unknown(t)
    BY DEF NewsInv
  <1>4. \A e \in stream \union pel \union dlq : cpc[e.task] = "created"
    BY <1>1, <1>3 DEF Unknown, Unheard, EntryOf, Entry
  <1>5. \A t \in zset \union accepted : cpc[t] = "created"
    BY <1>1, <1>3 DEF Unknown, Unheard
  <1>6. \A s \in Schedulers : \A t \in sbatch[s] : cpc[t] = "created"
    BY <1>2, <1>3 DEF Unknown, Unheard
  <1>7. \A s \in Schedulers : scur[s] # NoTask => cpc[scur[s]] = "created"
    BY <1>2, <1>6 DEF SchedulerControl
  <1>8. ASSUME NEW e \in Entry, Held(e) PROVE cpc[e.task] = "created"
    <2>1. e \in Holdings \ {NoEntry}
      BY <1>8, NoEntryAssumption DEF Held, HeldByWorker, RecoveryHolds, InBatch, Holdings
    <2>2. e.task \in Tasks
      BY DEF Entry
    <2> QED BY <1>3, <2>1, <2>2 DEF Unknown
  <1>9. \A t \in Tasks, o \in Operators :
          AtTask(o, t) \/ EntryOf(t, todo[o]) => cpc[t] = "created"
    BY <1>3 DEF Unknown
  <1> QED BY <1>4, <1>5, <1>6, <1>7, <1>8, <1>9

\* A hand is filled from a stream, from the pending entries or from another hand.
LEMMA HandsFrom ==
  ASSUME SystemTypeInv, [SystemNext]_systemVars
  PROVE  \A e \in Entry : Held(e)' => Held(e) \/ e \in stream \union pel
  <1> USE NoEntryAssumption
  <1>1. /\ wmsg \in [Workers -> Entry \union {NoEntry}]
        /\ rclaim \in [Pools -> Entry \union {NoEntry}]
        /\ rbatch \in [Pools -> SUBSET Claimed]
        /\ rcur \in [Pools -> Entry \union {NoEntry}]
        /\ RecoveryControl
    BY DEF SystemTypeInv, TypeInv, TypeOK, WorkerTypeOK, RecoveryTypeOK
  <1>2. ASSUME UNCHANGED <<wmsg, rclaim, rbatch, rcur>>
        PROVE  \A e \in Entry : Held(e)' => Held(e) \/ e \in stream \union pel
    BY <1>2 DEF Held, HeldByWorker, RecoveryHolds, InBatch
  <1>3. ASSUME NEW w \in Workers, WorkerNext(w)
        PROVE  \A e \in Entry : Held(e)' => Held(e) \/ e \in stream \union pel
    <2>1. UNCHANGED <<rclaim, rbatch, rcur>>
      BY <1>3 DEF WorkerNext, recoveryVars
    <2>2. \A v \in Workers : wmsg'[v] \in {wmsg[v], NoEntry} \union stream
      <3>1. CASE Dequeue(w)
        <4>1. PICK e \in Heads : wmsg' = [wmsg EXCEPT ![w] = e]
          BY <3>1 DEF Dequeue
        <4> QED BY <1>1, <4>1 DEF Heads
      <3>2. CASE Drop(w) \/ StartRefused(w) \/ Acknowledge(w)
        BY <1>1, <3>2 DEF Drop, StartRefused, Acknowledge, Return
      <3> QED
        BY <1>3, <3>1, <3>2
        DEF WorkerNext, WorkerStep, GetMissing, StartTask, SetRunning, SetCompleted, SetRetrying,
            SetFailed, FinishWith, ScheduleSet, ScheduleZAdd, DlqXAdd, DlqSAdd
    <2> QED BY <2>1, <2>2 DEF Held, HeldByWorker, RecoveryHolds, InBatch
  <1>4. ASSUME NEW p \in Pools, RecoveryNext(p)
        PROVE  \A e \in Entry : Held(e)' => Held(e) \/ e \in stream \union pel
    <2>1. UNCHANGED wmsg
      BY <1>4
      DEF RecoveryNext, RecoveryStep, Claim, ReadMissing, ReadClaimed, RequeueSet, RequeueXAdd,
          RequeueAck, workerVars
    <2>2. \A q \in Pools, e \in Entry : RecoveryHolds(q, e)' => RecoveryHolds(q, e) \/ e \in pel
      <3>1. CASE ReadClaimed(p)
        <4> DEFINE c == [entry |-> rclaim[p], rec |-> store[rclaim[p].task]]
        <4>1. /\ rbatch' = [rbatch EXCEPT ![p] = @ \union {c}] /\ rcur' = rcur
              /\ rclaim' = [rclaim EXCEPT ![p] = NoEntry]
              /\ c.entry = rclaim[p]
          BY <3>1 DEF ReadClaimed
        <4> HIDE DEF c
        <4> QED BY <1>1, <4>1 DEF RecoveryHolds, InBatch
      <3>2. CASE RequeueSet(p)
        <4>1. PICK b \in rbatch[p] :
                /\ rbatch' = [rbatch EXCEPT ![p] = @ \ {b}]
                /\ rcur' = [rcur EXCEPT ![p] = b.entry]
          BY <3>2 DEF RequeueSet
        <4>2. rclaim' = rclaim
          BY <3>2 DEF RequeueSet
        <4> QED BY <1>1, <4>1, <4>2 DEF RecoveryHolds, InBatch
      <3>3. ASSUME NEW f \in pel, Claim(p, f)
            PROVE  \A q \in Pools, e \in Entry : RecoveryHolds(q, e)' => RecoveryHolds(q, e) \/ e \in pel
        BY <1>1, <3>3 DEF Claim, RecoveryHolds, InBatch
      <3>4. CASE ReadMissing(p)
        BY <1>1, <3>4 DEF ReadMissing, RecoveryHolds, InBatch
      <3>5. CASE RequeueXAdd(p) \/ RequeueAck(p)
        BY <1>1, <3>5 DEF RequeueXAdd, RequeueAck, RecoveryHolds, InBatch
      <3> QED
        BY <1>4, <3>1, <3>2, <3>3, <3>4, <3>5 DEF RecoveryNext, RecoveryStep
    <2> QED BY <2>1, <2>2 DEF Held, HeldByWorker
  <1>5. ASSUME NEW p \in Pools, Crash(p) \/ Restart(p)
        PROVE  \A e \in Entry : Held(e)' => Held(e) \/ e \in stream \union pel
    <2>1. /\ \A w \in Workers : wmsg'[w] \in {wmsg[w], NoEntry}
          /\ \A q \in Pools : /\ rclaim'[q] \in {rclaim[q], NoEntry}
                              /\ rcur'[q] \in {rcur[q], NoEntry}
                              /\ rbatch'[q] \in {rbatch[q], {}}
      BY <1>1, <1>5 DEF Crash, Restart
    <2> QED BY <2>1 DEF Held, HeldByWorker, RecoveryHolds, InBatch
  <1>6. ASSUME NEW t \in Tasks, SystemApiNext(t) PROVE UNCHANGED <<wmsg, rclaim, rbatch, rcur>>
    BY <1>6
    DEF SystemApiNext, ApiNext, ApiStep, Submit, EnqueueSet, EnqueueXAdd, CreateScheduledSet,
        CreateScheduledZAdd, AbortCreate, CancelRead, CancelSet, Expire, workerVars, recoveryVars
  <1>7. ASSUME SchedulerMoves \/ UNCHANGED systemVars PROVE UNCHANGED <<wmsg, rclaim, rbatch, rcur>>
    BY <1>7, SchedulerWrites DEF workerVars, recoveryVars, systemVars, vars
  <1> QED
    BY <1>2, <1>3, <1>4, <1>5, <1>6, <1>7
    DEF SystemNext, SystemWorkerNext, SystemPoolNext, SchedulerNext, SchedulerMoves

\* What is unknown to a step stays unknown after it.
LEMMA UnknownFrame ==
  ASSUME SystemTypeInv', NEW t \in Tasks, Unknown(t), Unheard(t)',
         \A e \in Entry : e.task = t => ~ Held(e)',
         EntryOf(t, dlq') => EntryOf(t, dlq), t \notin accepted', krec'[t] = NoTask,
         \A o \in Operators : ~ AtTask(o, t)' /\ ~ EntryOf(t, todo'[o])
  PROVE  Unknown(t)'
  <1>1. /\ wmsg' \in [Workers -> Entry \union {NoEntry}]
        /\ rclaim' \in [Pools -> Entry \union {NoEntry}]
        /\ rbatch' \in [Pools -> SUBSET Claimed]
        /\ rcur' \in [Pools -> Entry \union {NoEntry}]
    BY DEF SystemTypeInv, TypeInv, TypeOK, WorkerTypeOK, RecoveryTypeOK
  <1>2. ASSUME NEW e \in Holdings' \ {NoEntry} PROVE e.task # t
    <2>1. CASE \E w \in Workers : e = wmsg'[w]
      BY <1>1, <1>2, <2>1 DEF Held, HeldByWorker
    <2>2. CASE \E p \in Pools : \/ e \in {rclaim'[p], rcur'[p]}
                                \/ \E b \in rbatch'[p] : e = b.entry
      BY <1>1, <1>2, <2>2 DEF Held, RecoveryHolds, InBatch, Claimed
    <2> QED BY <1>2, <2>1, <2>2 DEF Holdings
  <1> QED BY <1>2 DEF Unknown

\* A recovery loop writes pending records, of tasks whose entries it has claimed.
LEMMA RecoveryWrites ==
  ASSUME TypeInv, NEW p \in Pools, RecoveryNext(p)
  PROVE  \/ store' = store
         \/ \E b \in rbatch[p], r \in Record :
              /\ b.entry \in Entry /\ Held(b.entry)
              /\ SetTask(b.entry.task, r) /\ r.state = "pending"
              /\ RequeueSet(p)
  <1>1. rbatch \in [Pools -> SUBSET Claimed]
    BY DEF TypeInv, TypeOK, RecoveryTypeOK
  <1>2. CASE RequeueSet(p)
    <2>1. PICK b \in rbatch[p] :
            SetTask(b.entry.task, PrepareForRequeue(b.rec, MaxRetries[b.entry.task]))
      BY <1>2 DEF RequeueSet
    <2>2. b.entry \in Entry /\ b.rec \in Record /\ MaxRetries[b.entry.task] \in Nat
      BY <1>1, MaxRetriesAssumption DEF Claimed, Entry
    <2>3. Held(b.entry)
      BY DEF Held, RecoveryHolds, InBatch
    <2>4. /\ PrepareForRequeue(b.rec, MaxRetries[b.entry.task]) \in Record
          /\ PrepareForRequeue(b.rec, MaxRetries[b.entry.task]).state = "pending"
      BY <2>2, RecordOps, RecordStates
    <2> QED BY <1>2, <2>1, <2>2, <2>3, <2>4
  <1> QED
    BY <1>2
    DEF RecoveryNext, RecoveryStep, Claim, ReadMissing, ReadClaimed, RequeueXAdd, RequeueAck,
        redisVars

\* Workers, recovery loops and schedulers, that is, everybody but the API.
PoolsMove ==
  /\ \/ \E w \in Workers : WorkerNext(w)
     \/ \E p \in Pools : RecoveryNext(p) \/ Crash(p) \/ Restart(p)
  /\ UNCHANGED schedulerVars

\* They write and add what they have heard of.
LEMMA TouchedTasks ==
  ASSUME AdminTypeInv, NewsInv, PoolsMove \/ SchedulerMoves \/ UNCHANGED systemVars
  PROVE  /\ UNCHANGED apiVars
         /\ \A t \in Tasks : \/ store'[t] = store[t]
                            \/ /\ cpc[t] = "created" /\ store'[t] # NoTask
                               /\ store'[t].state # "dead_letter"
         /\ \A t \in Tasks : cpc[t] # "created" => Unheard(t)'
  <1> USE NoTaskAssumption
  <1>1. /\ TypeInv /\ WorkerControl /\ RecoveryControl /\ SystemTypeInv
        /\ store \in [Tasks -> Record \union {NoTask}]
        /\ sbatch \in [Schedulers -> SUBSET Tasks]
        /\ wmsg \in [Workers -> Entry \union {NoEntry}]
        /\ rcur \in [Pools -> Entry \union {NoEntry}]
        /\ SchedulerControl
    BY DEF AdminTypeInv, SystemTypeInv, TypeInv, TypeOK, RedisTypeOK, WorkerTypeOK, RecoveryTypeOK,
       SchedulerTypeOK
  <1>2. /\ \A e \in Entry : Held(e) => cpc[e.task] = "created"
        /\ \A s \in Schedulers : scur[s] # NoTask => cpc[scur[s]] = "created"
    BY HeardTasks
  <1>3. \A w \in Workers : wmsg[w] # NoEntry => cpc[task(w)] = "created"
    BY <1>1, <1>2 DEF Held, HeldByWorker, task
  <1>4. \A p \in Pools : rcur[p] # NoEntry => cpc[rcur[p].task] = "created"
    BY <1>1, <1>2 DEF Held, RecoveryHolds
  <1>5. \A t \in Tasks : cpc[t] # "created" => Unheard(t)
    BY DEF NewsInv, Unknown
  <1>6. UNCHANGED apiVars
    <2>1. CASE PoolsMove
      BY <1>1, <2>1, StoreKept DEF PoolsMove
    <2>2. CASE SchedulerMoves
      BY <1>1, <2>2, SchedulerWrites
    <2>3. CASE UNCHANGED systemVars
      BY <2>3 DEF systemVars, vars
    <2> QED BY <2>1, <2>2, <2>3
  <1>7. ASSUME NEW t \in Tasks
        PROVE  \/ store'[t] = store[t]
               \/ cpc[t] = "created" /\ store'[t] # NoTask /\ store'[t].state # "dead_letter"
    <2>1. ASSUME NEW w \in Workers, WorkerNext(w)
          PROVE  \/ store'[t] = store[t]
                 \/ cpc[t] = "created" /\ store'[t] # NoTask /\ store'[t].state # "dead_letter"
      BY <1>1, <1>3, <2>1, WorkerWrites DEF SetTask
    <2>2. ASSUME NEW p \in Pools, RecoveryNext(p)
          PROVE  \/ store'[t] = store[t]
                 \/ cpc[t] = "created" /\ store'[t] # NoTask /\ store'[t].state # "dead_letter"
      BY <1>1, <1>2, <2>2, RecoveryWrites DEF SetTask
    <2>3. ASSUME NEW p \in Pools, Crash(p) \/ Restart(p) PROVE store'[t] = store[t]
      BY <2>3 DEF Crash, Restart, redisVars
    <2>4. CASE SchedulerMoves
      <3>1. ASSUME NEW s \in Schedulers, ActivateSet(s)
            PROVE  \/ store'[t] = store[t]
                   \/ cpc[t] = "created" /\ store'[t] # NoTask /\ store'[t].state # "dead_letter"
        <4>1. SetTask(scur[s], srec[s]) /\ scur[s] # NoTask /\ srec[s].state = "pending"
          BY <1>1, <3>1 DEF ActivateSet, SchedulerControl
        <4>2. srec[s] # NoTask
          BY <1>1, <3>1 DEF ActivateSet, SchedulerControl
        <4> QED BY <1>1, <1>2, <4>1, <4>2 DEF SetTask
      <3>2. CASE ~ \E s \in Schedulers : ActivateSet(s)
        BY <2>4, <3>2
        DEF SchedulerMoves, SchedulerStep, SchedulerCrash, LockExpires, TakeLock, ReadDue,
            ReadWaiting, ActivateXAdd, ActivateZRem, Unlock, redisVars
      <3> QED BY <3>1, <3>2
    <2>5. CASE UNCHANGED systemVars
      BY <2>5 DEF systemVars, vars, redisVars
    <2> QED BY <2>1, <2>2, <2>3, <2>4, <2>5 DEF PoolsMove
  <1>8. ASSUME NEW t \in Tasks, cpc[t] # "created" PROVE Unheard(t)'
    <2>1. Unheard(t)
      BY <1>5, <1>8
    <2>2. ASSUME UNCHANGED <<zset, sbatch>>,
                 EntryOf(t, stream \union pel)' => EntryOf(t, stream \union pel)
          PROVE  Unheard(t)'
      BY <2>1, <2>2 DEF Unheard
    <2>3. ASSUME NEW w \in Workers, WorkerNext(w), UNCHANGED schedulerVars PROVE Unheard(t)'
      <3>1. CASE ScheduleZAdd(w)
        <4>1. task(w) # t
          BY <1>1, <1>3, <1>8, <3>1 DEF ScheduleZAdd, At, WorkerControl
        <4> QED BY <2>1, <2>3, <3>1, <4>1 DEF ScheduleZAdd, Unheard, EntryOf, schedulerVars
      <3>2. CASE ~ ScheduleZAdd(w)
        <4>1. zset' = zset /\ (stream \union pel)' \subseteq stream \union pel
          BY <2>3, <3>2
          DEF WorkerNext, WorkerStep, Dequeue, XReadGroup, Heads, GetMissing, Drop, XAck,
              StartRefused, StartTask, SetRunning, SetCompleted, SetRetrying, SetFailed, FinishWith,
              ScheduleSet, DlqXAdd, DlqSAdd, Acknowledge, redisVars
        <4> QED BY <2>2, <2>3, <4>1 DEF EntryOf, schedulerVars
      <3> QED BY <3>1, <3>2
    <2>4. ASSUME NEW p \in Pools, RecoveryNext(p), UNCHANGED schedulerVars PROVE Unheard(t)'
      <3>1. CASE RequeueXAdd(p)
        <4>1. t # rcur[p].task /\ UNCHANGED <<pel, zset>> /\ XAddTask(rcur[p].task)
          BY <1>1, <1>4, <1>8, <3>1 DEF RequeueXAdd, RecoveryControl
        <4> QED BY <2>2, <2>4, <4>1 DEF EntryOf, XAddTask, schedulerVars
      <3>2. CASE RequeueAck(p)
        BY <2>2, <2>4, <3>2 DEF RequeueAck, XAck, EntryOf, schedulerVars
      <3>3. CASE UNCHANGED <<stream, pel, zset>>
        BY <2>2, <2>4, <3>3 DEF EntryOf, schedulerVars
      <3> QED
        BY <2>4, <3>1, <3>2, <3>3
        DEF RecoveryNext, RecoveryStep, Claim, ReadMissing, ReadClaimed, RequeueSet, redisVars
    <2>5. ASSUME NEW p \in Pools, Crash(p) \/ Restart(p), UNCHANGED schedulerVars PROVE Unheard(t)'
      BY <2>2, <2>5 DEF Crash, Restart, redisVars, EntryOf, schedulerVars
    <2>6. CASE SchedulerMoves
      <3>1. pel' = pel
        BY <1>1, <2>6, SchedulerWrites
      <3>2. CASE LockExpires
        BY <2>2, <3>2 DEF LockExpires, redisVars, EntryOf
      <3>3. ASSUME NEW s \in Schedulers, ActivateXAdd(s) PROVE Unheard(t)'
        <4>1. scur[s] # t /\ XAddTask(scur[s]) /\ UNCHANGED <<zset, sbatch>>
          BY <1>1, <1>2, <1>8, <3>3 DEF ActivateXAdd, SchedulerControl
        <4> QED BY <2>2, <3>1, <4>1 DEF XAddTask, EntryOf
      <3>4. ASSUME NEW s \in Schedulers, NEW due \in SUBSET zset, ReadDue(s, due) PROVE Unheard(t)'
        BY <1>1, <2>1, <3>1, <3>4 DEF ReadDue, redisVars, Unheard, EntryOf
      <3>5. ASSUME NEW s \in Schedulers, ActivateZRem(s) \/ SchedulerCrash(s) PROVE Unheard(t)'
        BY <1>1, <2>1, <3>1, <3>5 DEF ActivateZRem, SchedulerCrash, redisVars, Unheard, EntryOf
      <3>6. CASE UNCHANGED <<stream, zset, sbatch>>
        BY <2>2, <3>1, <3>6 DEF EntryOf
      <3> QED
        BY <2>6, <3>2, <3>3, <3>4, <3>5, <3>6
        DEF SchedulerMoves, SchedulerStep, TakeLock, ReadWaiting, ActivateSet, Unlock, redisVars
    <2>7. CASE UNCHANGED systemVars
      BY <2>2, <2>7 DEF systemVars, vars, redisVars, schedulerVars, EntryOf
    <2> QED BY <2>3, <2>4, <2>5, <2>6, <2>7 DEF PoolsMove
  <1> QED BY <1>6, <1>7, <1>8

\* Nobody but the API and the operators has to do with a task that is being created.
LEMMA NewsBeside ==
  ASSUME AdminTypeInv, NewsInv, PoolsMove \/ SchedulerMoves \/ UNCHANGED systemVars,
         [SystemNext]_systemVars, UNCHANGED requestVars
  PROVE  NewsInv'
  <1>1. SystemTypeInv /\ SystemTypeInv'
    BY SystemTypeStep DEF AdminTypeInv
  <1>2. /\ UNCHANGED apiVars
        /\ \A t \in Tasks : \/ store'[t] = store[t]
                           \/ /\ cpc[t] = "created" /\ store'[t] # NoTask
                              /\ store'[t].state # "dead_letter"
        /\ \A t \in Tasks : cpc[t] # "created" => Unheard(t)'
    BY TouchedTasks
  <1>3. SUFFICES ASSUME NEW t \in Tasks PROVE NewsOf(t)'
    BY DEF NewsInv, NewsOf
  <1>4. NewsOf(t)
    BY DEF NewsInv, NewsOf
  <1>5. ASSUME cpc[t] # "created" PROVE Unknown(t)'
    <2>1. Unknown(t) /\ Unheard(t)'
      BY <1>2, <1>4, <1>5 DEF NewsOf
    <2>2. \A e \in Entry : e.task = t => ~ Held(e)'
      <3>1. \A e \in stream \union pel : cpc[e.task] = "created"
        BY HeardTasks
      <3>2. \A e \in Entry : Held(e) => cpc[e.task] = "created"
        BY HeardTasks
      <3> QED BY <1>1, <1>5, <3>1, <3>2, HandsFrom
    <2>3. EntryOf(t, dlq') => EntryOf(t, dlq)
      <3>1. ASSUME NEW w \in Workers, DlqXAdd(w) PROVE EntryOf(t, dlq') => EntryOf(t, dlq)
        <4>1. wmsg[w] # NoEntry /\ wmsg[w] \in Entry /\ Held(wmsg[w])
          BY <1>1, <3>1
          DEF DlqXAdd, At, SystemTypeInv, TypeInv, TypeOK, WorkerTypeOK, WorkerControl, Held,
              HeldByWorker
        <4>2. task(w) # t
          BY <1>5, <4>1, HeardTasks DEF task
        <4> QED BY <3>1, <4>2 DEF DlqXAdd, XAddDlq, EntryOf
      <3> QED BY <1>1, <3>1, SystemDlq
    <2>4. t \notin accepted' /\ krec'[t] = NoTask
      BY <1>2, <2>1 DEF Unknown, apiVars
    <2>5. \A o \in Operators : ~ AtTask(o, t)' /\ ~ EntryOf(t, todo'[o])
      BY <2>1 DEF Unknown, AtTask, requestVars
    <2> QED BY <1>1, <2>1, <2>2, <2>3, <2>4, <2>5, UnknownFrame
  <1>6. UNCHANGED <<cpc, krec>>
    BY <1>2 DEF apiVars
  <1> QED BY <1>2, <1>4, <1>5, <1>6 DEF NewsOf, Exists

\* A creation writes the record its branch needs, and is finished when the task becomes
\* known (Create, Enqueue, ScheduleTaskFunc).
LEMMA NewsApi ==
  ASSUME AdminTypeInv, NewsInv, NEW x \in Tasks, SystemApiNext(x), UNCHANGED requestVars
  PROVE  NewsInv'
  <1> USE NoTaskAssumption
  <1>1. /\ store \in [Tasks -> Record \union {NoTask}]
        /\ krec \in [Tasks -> Record \union {NoTask}]
        /\ cpc \in [Tasks -> CreatePc]
        /\ SystemTypeInv
    BY DEF AdminTypeInv, SystemTypeInv, TypeInv, TypeOK, RedisTypeOK, ApiTypeOK
  <1>2. [SystemNext]_systemVars
    BY DEF SystemNext
  <1>3. SystemTypeInv'
    BY <1>1, <1>2, SystemTypeStep
  <1>4. ApiNext(x) /\ UNCHANGED schedulerVars
    BY DEF SystemApiNext
  <1>5. UNCHANGED <<pel, dlq, sbatch, wmsg, rclaim, rbatch, rcur>>
    BY <1>4 DEF ApiNext, ApiStep, Submit, EnqueueSet, EnqueueXAdd, CreateScheduledSet,
       CreateScheduledZAdd, AbortCreate, CancelRead, CancelSet, Expire, redisVars, dlqVars,
       schedulerVars, workerVars, recoveryVars
  <1>6. SUFFICES ASSUME NEW t \in Tasks PROVE NewsOf(t)'
    BY DEF NewsInv, NewsOf
  <1>7. NewsOf(t)
    BY DEF NewsInv, NewsOf
  <1>8. ASSUME cpc[t] # "created", t \in zset' => t \in zset, stream' = stream \/ (t # x /\ XAddTask(x)),
               t \in accepted' => t \in accepted, krec'[t] = krec[t]
        PROVE  Unknown(t)'
    <2>1. Unknown(t)
      BY <1>7, <1>8 DEF NewsOf
    <2>2. Unheard(t)'
      BY <1>5, <1>8, <2>1 DEF Unknown, Unheard, EntryOf, XAddTask
    <2>3. \A e \in Entry : e.task = t => ~ Held(e)'
      <3>1. \A e \in Entry : Held(e) => cpc[e.task] = "created"
        BY HeardTasks
      <3>2. \A e \in Entry : Held(e)' => Held(e)
        BY <1>5 DEF Held, HeldByWorker, RecoveryHolds, InBatch
      <3> QED BY <1>8, <3>1, <3>2
    <2>4. \A o \in Operators : ~ AtTask(o, t)' /\ ~ EntryOf(t, todo'[o])
      BY <2>1 DEF Unknown, AtTask, requestVars
    <2> QED BY <1>3, <1>5, <1>8, <2>1, <2>2, <2>3, <2>4, UnknownFrame DEF Unknown
  <1>9. CASE t # x
    <2>1. /\ store'[t] = store[t] /\ cpc'[t] = cpc[t] /\ krec'[t] = krec[t]
          /\ t \in zset' <=> t \in zset
          /\ t \in accepted' <=> t \in accepted
          /\ stream' = stream \/ XAddTask(x)
      BY <1>1, <1>4, <1>9
      DEF ApiNext, ApiStep, Submit, EnqueueSet, EnqueueXAdd, CreateScheduledSet,
          CreateScheduledZAdd, AbortCreate, CancelRead, CancelSet, Expire, redisVars,
          SetTask, DelTask
    <2> QED BY <1>7, <1>8, <1>9, <2>1 DEF NewsOf, Exists
  <1>10. CASE t = x
    <2>1. CASE EnqueueXAdd(t) \/ CreateScheduledZAdd(t)
      <3>1. cpc'[t] = "created" /\ store'[t] = store[t] /\ krec'[t] = krec[t]
        BY <1>1, <2>1 DEF EnqueueXAdd, CreateScheduledZAdd
      <3> QED BY <1>7, <3>1 DEF NewsOf, Exists
    <2>2. CASE EnqueueSet(t) \/ CreateScheduledSet(t)
      <3>1. /\ UNCHANGED <<stream, zset, krec, accepted>> /\ cpc[t] # "created"
            /\ \/ cpc'[t] = "xadd" /\ store'[t] = NewRecord("pending")
               \/ cpc'[t] = "zadd" /\ store'[t] = NewRecord("scheduled")
        BY <1>1, <2>2 DEF EnqueueSet, CreateScheduledSet, SetTask
      <3>2. NewRecord("pending").state = "pending" /\ NewRecord("scheduled").state = "scheduled"
        BY DEF NewRecord
      <3> QED BY <1>7, <1>8, <3>1, <3>2 DEF NewsOf
    <2>3. CASE CancelSet(t)
      <3>1. /\ cpc' = cpc /\ krec[t] # NoTask /\ krec'[t] = NoTask
            /\ store'[t] = krec[t]
        BY <1>1, <2>3 DEF CancelSet, SetTask
      <3>2. cpc[t] = "created" /\ krec[t].state = "canceled"
        BY <1>7, <3>1 DEF NewsOf, Unknown
      <3> QED BY <3>1, <3>2 DEF NewsOf
    <2>4. CASE Expire(t)
      <3>1. cpc' = cpc /\ krec' = krec /\ t \in accepted /\ store'[t] = NoTask
        BY <1>1, <2>4 DEF Expire, DelTask
      <3>2. cpc[t] = "created"
        BY <1>7, <3>1 DEF NewsOf, Unknown
      <3> QED BY <1>7, <3>1, <3>2 DEF NewsOf, Exists
    <2>5. CASE Submit(t) \/ AbortCreate(t)
      <3>1. /\ UNCHANGED <<store, stream, zset, krec, accepted>>
            /\ \/ cpc[t] = "new" /\ cpc'[t] \in {"set_pending", "set_scheduled"}
               \/ cpc[t] \in {"xadd", "zadd"} /\ cpc'[t] = "aborted"
        BY <1>1, <2>5 DEF Submit, AbortCreate, redisVars
      <3>2. NewRecord("pending").state = "pending" /\ NewRecord("scheduled").state = "scheduled"
        BY DEF NewRecord
      <3> QED BY <1>7, <1>8, <3>1, <3>2 DEF NewsOf, Exists
    <2>6. CASE CancelRead(t)
      <3>1. /\ cpc' = cpc /\ store' = store /\ t \in accepted
            /\ krec'[t] = Cancel(store[t]) /\ Exists(t) /\ Cancellable(store[t])
        BY <1>1, <2>6 DEF CancelRead, redisVars
      <3>2. cpc[t] = "created"
        BY <1>7, <3>1 DEF NewsOf, Unknown
      <3>3. Cancel(store[t]).state = "canceled"
        BY <1>1, <3>1, RecordStates DEF Exists
      <3> QED BY <1>7, <3>1, <3>2, <3>3 DEF NewsOf, Exists
    <2> QED BY <1>4, <1>10, <2>1, <2>2, <2>3, <2>4, <2>5, <2>6 DEF ApiNext, ApiStep
  <1> QED BY <1>9, <1>10

\* A request is about a task of the dead-letter stream or of a failed record.
LEMMA RequestIsAbout ==
  ASSUME AdminTypeInv, AdminControl, NEW o \in Operators, OperatorMoves(o), NEW t
  PROVE  /\ AtTask(o, t)' =>
              \/ AtTask(o, t)
              \/ EntryOf(t, dlq)
              \/ Exists(t) /\ store[t].state \in {"failed", "dead_letter"}
         /\ EntryOf(t, todo'[o]) => EntryOf(t, todo[o]) \/ EntryOf(t, dlq)
         /\ \A q \in Operators : q # o => apc'[q] = apc[q] /\ job'[q] = job[q] /\ todo'[q] = todo[q]
  <1>1. /\ apc \in [Operators -> AdminPc] /\ todo \in [Operators -> SUBSET Entry]
        /\ job = [q \in Operators |-> job[q]]
    BY DEF AdminTypeInv, AdminControl
  <1> USE DEF AdminGoto, EndItem, RetryPc
  <1>2. ASSUME NEW x, Find(o, x)
        PROVE  /\ AtTask(o, t)' => EntryOf(t, dlq)
               /\ \A q \in Operators : q # o => apc'[q] = apc[q] /\ job'[q] = job[q]
    <2>1. PICK j : j = [task |-> x, entry |-> FirstEntry(x), rec |-> Requeue(Copy)]
      OBVIOUS
    <2>2. j.task = x /\ job' = [job EXCEPT ![o] = j] /\ EntryOf(x, dlq)
          /\ apc' = [apc EXCEPT ![o] = "set"]
      BY <1>2, <2>1 DEF Find, Listed
    <2> QED BY <1>1, <2>2 DEF AtTask
  <1>3. ASSUME NEW x \in Tasks, RetryOne(o, x) \/ RetryTask(o, x)
        PROVE  /\ AtTask(o, t)' =>
                    EntryOf(t, dlq) \/ (Exists(t) /\ store[t].state \in {"failed", "dead_letter"})
               /\ todo' = todo
               /\ \A q \in Operators : q # o => apc'[q] = apc[q] /\ job'[q] = job[q]
    <2>1. CASE RetryOne(o, x)
      BY <1>2, <2>1 DEF RetryOne
    <2>2. CASE RetryTask(o, x)
      <3>1. PICK j : j = [task |-> x, entry |-> NoEntry, rec |-> Requeue(store[x])]
        OBVIOUS
      <3>2. j.task = x /\ job' = [job EXCEPT ![o] = j] /\ apc' = [apc EXCEPT ![o] = "update"]
            /\ Exists(x) /\ store[x].state \in {"failed", "dead_letter"} /\ todo' = todo
        BY <2>2, <3>1 DEF RetryTask
      <3> QED BY <1>1, <3>2 DEF AtTask
    <2> QED BY <1>3, <2>1, <2>2
  <1>4. CASE RetryAll(o)
    BY <1>1, <1>4 DEF RetryAll, AtTask
  <1>5. ASSUME NEW q \in Queues, PurgeDel(o, q)
        PROVE  /\ ~ AtTask(o, t)' /\ todo' = todo
               /\ \A p \in Operators : p # o => apc'[p] = apc[p] /\ job'[p] = job[p]
    BY <1>1, <1>5 DEF PurgeDel, AtTask
  <1>6. CASE RetryNext(o)
    <2>1. PICK e \in todo[o] :
            /\ todo' = [todo EXCEPT ![o] = @ \ {e}]
            /\ \/ Find(o, e.task)
               \/ /\ apc' = [apc EXCEPT ![o] = IF todo[o] = {e} THEN "idle" ELSE "next"]
                  /\ UNCHANGED job
      BY <1>6 DEF RetryNext
    <2>2. EntryOf(t, todo'[o]) => EntryOf(t, todo[o])
      BY <1>1, <2>1 DEF EntryOf
    <2>3. CASE Find(o, e.task)
      BY <1>1, <1>2, <2>1, <2>2, <2>3
    <2>4. CASE /\ apc' = [apc EXCEPT ![o] = IF todo[o] = {e} THEN "idle" ELSE "next"]
               /\ UNCHANGED job
      BY <1>1, <2>1, <2>2, <2>4 DEF AtTask
    <2> QED BY <2>1, <2>3, <2>4
  <1>7. CASE RetrySet(o) \/ UpdateTask(o) \/ RemoveXDel(o) \/ XAddRefused(o)
    <2>1. UNCHANGED <<job, todo>> /\ apc[o] \in RetryPc
          /\ \A q \in Operators : q # o => apc'[q] = apc[q]
      BY <1>1, <1>7 DEF RetrySet, UpdateTask, RemoveXDel, XAddRefused, Work, CutShort
    <2> QED BY <2>1 DEF AtTask
  <1>8. CASE RetryXAdd(o)
    <2>1. todo' = todo /\ apc[o] \in RetryPc
          /\ (job' = job \/ (job' = [job EXCEPT ![o] = NoJob] /\ apc'[o] \in {"idle", "next"}))
          /\ \A q \in Operators : q # o => apc'[q] = apc[q]
      BY <1>1, <1>8 DEF RetryXAdd, Work
    <2> QED BY <1>1, <2>1 DEF AtTask
  <1>9. CASE RemoveSRem(o) \/ Cleanup(o) \/ ItemRefused(o)
    BY <1>1, <1>9 DEF RemoveSRem, Cleanup, ItemRefused, AtTask
  <1>10. CASE ClearSet(o) \/ ClearStream(o)
    BY <1>1, <1>10 DEF ClearSet, ClearStream, AtTask
  <1>11. CASE PurgeGroup(o) \/ Abandon(o)
    BY <1>1, <1>11 DEF PurgeGroup, Abandon, AtTask, EntryOf
  <1> QED
    BY <1>3, <1>4, <1>5, <1>6, <1>7, <1>8, <1>9, <1>10, <1>11
    DEF OperatorMoves, NewRequest, OperatorStep

\* No request has to do with a task that is being created.
LEMMA NewsOperator ==
  ASSUME AdminTypeInv, AdminControl, NewsInv, NEW o \in Operators, OperatorMoves(o)
  PROVE  NewsInv'
  <1>1. /\ store \in [Tasks -> Record \union {NoTask}]
        /\ \A q \in Operators : apc[q] \in RetryPc => job[q] \in Job /\ job[q].rec.state = "pending"
    BY DEF AdminTypeInv, AdminControl, SystemTypeInv, TypeInv, TypeOK, RedisTypeOK
  <1>2. SystemTypeInv'
    BY OperatorKeepsTypes
  <1>3. UNCHANGED <<wmsg, rclaim, rbatch, rcur, cpc, krec, sbatch, zset>>
    BY OperatorWrites DEF OutsideRedis, workerVars, recoveryVars, schedulerVars
  <1>4. apc[o] \in RetryPc => cpc[job[o].task] = "created" /\ job[o].task \in Tasks
    BY <1>1, HeardTasks DEF AtTask, Job
  <1>5. SUFFICES ASSUME NEW t \in Tasks PROVE NewsOf(t)'
    BY DEF NewsInv, NewsOf
  <1>6. NewsOf(t)
    BY DEF NewsInv, NewsOf
  <1>7. \/ store'[t] = store[t]
        \/ cpc[t] = "created" /\ (Exists(t)' => store'[t].state = "pending")
    <2>1. CASE apc[o] \in {"update", "set"} /\ SetTask(job[o].task, job[o].rec)
      BY <1>1, <1>4, <2>1 DEF SetTask, RetryPc
    <2>2. CASE apc[o] = "cleanup" /\ DelTask(job[o].task)
      BY <1>1, <1>4, <2>2 DEF DelTask, RetryPc, Exists
    <2> QED BY <2>1, <2>2, OperatorWrites
  <1>8. ASSUME cpc[t] # "created" PROVE Unknown(t)'
    <2>1. Unknown(t)
      BY <1>6, <1>8 DEF NewsOf
    <2>2. /\ EntryOf(t, stream \union pel)' => EntryOf(t, stream \union pel)
          /\ t \in accepted' => t \in accepted
      <3>1. pel' \subseteq pel
        BY OperatorWrites
      <3>2. CASE stream' \subseteq stream /\ accepted' = accepted
        BY <3>1, <3>2 DEF EntryOf
      <3>3. CASE apc[o] = "xadd" /\ XAddTask(job[o].task) /\ accepted' = accepted \union {job[o].task}
        <4>1. job[o].task # t
          BY <1>4, <1>8, <3>3 DEF RetryPc
        <4> QED BY <3>1, <3>3, <4>1 DEF XAddTask, EntryOf
      <3> QED BY <3>2, <3>3, OperatorWrites
    <2>3. Unheard(t)'
      BY <1>3, <2>1, <2>2 DEF Unknown, Unheard
    <2>4. \A e \in Entry : e.task = t => ~ Held(e)'
      <3>1. \A e \in Entry : Held(e) => cpc[e.task] = "created"
        BY HeardTasks
      <3>2. \A e \in Entry : Held(e)' => Held(e)
        BY <1>3 DEF Held, HeldByWorker, RecoveryHolds, InBatch
      <3> QED BY <1>8, <3>1, <3>2
    <2>5. ~ EntryOf(t, dlq) /\ ~ EntryOf(t, dlq')
      BY <2>1, OperatorWrites DEF Unknown, EntryOf
    <2>6. ~ (Exists(t) /\ store[t].state \in {"failed", "dead_letter"})
      <3>1. NewRecord("pending").state = "pending" /\ NewRecord("scheduled").state = "scheduled"
        BY DEF NewRecord
      <3>2. cpc[t] \in CreatePc
        BY DEF AdminTypeInv, SystemTypeInv, TypeInv, TypeOK, ApiTypeOK
      <3> QED BY <1>6, <1>8, <3>1, <3>2 DEF NewsOf, CreatePc
    <2>7. \A q \in Operators : ~ AtTask(q, t)' /\ ~ EntryOf(t, todo'[q])
      <3>1. ~ AtTask(o, t)' /\ ~ EntryOf(t, todo'[o])
        BY <2>1, <2>5, <2>6, RequestIsAbout DEF Unknown
      <3>2. ASSUME NEW q \in Operators, q # o PROVE ~ AtTask(q, t)' /\ ~ EntryOf(t, todo'[q])
        <4>1. apc'[q] = apc[q] /\ job'[q] = job[q] /\ todo'[q] = todo[q]
          BY <3>2, RequestIsAbout
        <4> QED BY <2>1, <4>1 DEF Unknown, AtTask
      <3> QED BY <3>1, <3>2
    <2> QED BY <1>2, <1>3, <2>1, <2>2, <2>3, <2>4, <2>5, <2>7, UnknownFrame DEF Unknown
  <1> QED BY <1>3, <1>6, <1>7, <1>8 DEF NewsOf, Exists

\* No step deals with a task whose creation is not finished, except its creation.
LEMMA NewsStep ==
  ASSUME AdminTypeInv, AdminControl, NewsInv, [AdminNext]_adminVars
  PROVE  NewsInv'
  <1>1. ASSUME [SystemNext]_systemVars, UNCHANGED requestVars PROVE NewsInv'
    <2>1. CASE PoolsMove \/ SchedulerMoves \/ UNCHANGED systemVars
      BY <1>1, <2>1, NewsBeside
    <2>2. CASE \E x \in Tasks : SystemApiNext(x)
      BY <1>1, <2>2, NewsApi
    <2> QED
      BY <1>1, <2>1, <2>2
      DEF SystemNext, SystemWorkerNext, SystemPoolNext, SchedulerNext, PoolsMove, SchedulerMoves
  <1>2. CASE UNCHANGED adminVars
    BY <1>1, <1>2 DEF adminVars
  <1>3. CASE SystemNext /\ Alongside
    BY <1>1, <1>3 DEF Alongside
  <1> QED BY <1>2, <1>3, NewsOperator DEF AdminNext, OperatorMoves

(***************************************************************************)
(* FailuresListed: a failed record, its entry and the dead-letter stream.  *)
(***************************************************************************)

\* The worker that failed the task, if it is alive, is about to add the task to the
\* dead-letter stream, and no recovery loop has begun to replace the entry.
OnItsWay(e) ==
  /\ \A w \in Workers : wmsg[w] = e => At(w, "dlq_xadd")
  /\ \A p \in Pools : rcur[p] # e
  /\ crashes = 0 => HeldByWorker(e)

\* Only the handler's last failure is written as such (handleTaskFailure).
LEMMA FailedByWorker ==
  ASSUME AdminTypeInv, AdminControl, NewsInv, [AdminNext]_adminVars, NEW t \in Tasks,
         Exists(t)', store'[t].state = "failed"
  PROVE  \/ store'[t] = store[t]
         \/ \E w \in Workers : WorkerNext(w) /\ SetFailed(w) /\ task(w) = t
  <1> USE NoTaskAssumption
  <1>1. /\ TypeInv /\ WorkerControl /\ SystemTypeInv /\ SchedulerControl
        /\ store \in [Tasks -> Record \union {NoTask}]
        /\ wmsg \in [Workers -> Entry \union {NoEntry}]
        /\ wrec \in [Workers -> Record \union {NoTask}]
    BY DEF AdminTypeInv, SystemTypeInv, TypeInv, TypeOK, RedisTypeOK, WorkerTypeOK
  <1>2. SUFFICES ASSUME store'[t] # store[t]
                 PROVE  \E w \in Workers : WorkerNext(w) /\ SetFailed(w) /\ task(w) = t
    OBVIOUS
  <1>3. ASSUME NEW w \in Workers, WorkerNext(w), ~ (SetFailed(w) /\ task(w) = t) PROVE FALSE
    <2>1. CASE SetRunning(w) \/ ScheduleSet(w)
      <3>1. wrec[w].state \in {"running", "retrying"} /\ SetTask(task(w), wrec[w])
        BY <1>1, <2>1 DEF SetRunning, ScheduleSet, At, WorkerControl
      <3> QED BY <1>1, <1>2, <3>1 DEF SetTask
    <2>2. CASE SetCompleted(w) \/ SetRetrying(w)
      <3>1. wrec[w] \in Record /\ wmsg[w] \in Entry /\ wrec[w].state = "running"
        BY <1>1, <2>2 DEF HandlerReturns, SetCompleted, SetRetrying, At, WorkerControl
      <3>2. MaxRetries[task(w)] \in Nat
        BY <3>1, MaxRetriesAssumption DEF task, Entry
      <3>3. /\ Complete(wrec[w]).state = "completed"
            /\ CanRetry(wrec[w], MaxRetries[task(w)]) =>
                 ScheduleRetry(Fail(wrec[w]), MaxRetries[task(w)]).state = "retrying"
        BY <3>1, <3>2, RecordStates
      <3>4. \E r : SetTask(task(w), r) /\ r.state \in {"completed", "retrying"}
        BY <2>2, <3>3 DEF SetCompleted, SetRetrying, FinishWith
      <3> QED BY <1>1, <1>2, <3>4 DEF SetTask
    <2>3. CASE SetFailed(w)
      BY <1>1, <1>2, <1>3, <2>3 DEF SetFailed, FinishWith, SetTask
    <2> QED
      BY <1>2, <1>3, <2>1, <2>2, <2>3
      DEF WorkerNext, WorkerStep, Dequeue, GetMissing, Drop, StartRefused, StartTask,
          ScheduleZAdd, DlqXAdd, DlqSAdd, Acknowledge, redisVars
  <1>4. ASSUME NEW p \in Pools, SystemPoolNext(p) PROVE FALSE
    <2>1. CASE RecoveryNext(p)
      BY <1>1, <1>2, <2>1, RecoveryWrites DEF SetTask
    <2> QED BY <1>2, <1>4, <2>1 DEF SystemPoolNext, Crash, Restart, redisVars
  <1>5. ASSUME NEW x \in Tasks, SystemApiNext(x) PROVE FALSE
    <2>1. NewRecord("pending").state = "pending" /\ NewRecord("scheduled").state = "scheduled"
      BY DEF NewRecord
    <2>2. krec[x] # NoTask => krec[x].state = "canceled"
      BY DEF NewsInv
    <2> QED
      BY <1>1, <1>2, <1>5, <2>1, <2>2
      DEF SystemApiNext, ApiNext, ApiStep, Submit, EnqueueSet, EnqueueXAdd, CreateScheduledSet,
          CreateScheduledZAdd, AbortCreate, CancelRead, CancelSet, Expire, redisVars, SetTask,
          DelTask, Exists
  <1>6. ASSUME SchedulerMoves PROVE FALSE
    BY <1>1, <1>2, <1>6, SchedulerWrites DEF SetTask
  <1>7. ASSUME NEW o \in Operators, OperatorMoves(o) PROVE FALSE
    <2>1. apc[o] \in RetryPc => job[o].rec.state = "pending"
      BY DEF AdminControl
    <2> QED BY <1>1, <1>2, <1>7, <2>1, OperatorWrites DEF SetTask, DelTask, RetryPc, Exists
  <1>8. CASE UNCHANGED adminVars
    BY <1>2, <1>8 DEF adminVars, systemVars, vars, redisVars
  <1> QED
    BY <1>3, <1>4, <1>5, <1>6, <1>7, <1>8
    DEF AdminNext, OperatorMoves, SystemNext, SystemWorkerNext, SchedulerNext, SchedulerMoves

\* The entry stays where it is until the worker adds the task to the dead-letter stream or
\* a recovery loop makes the record pending.
LEMMA StaysOnItsWay ==
  ASSUME SystemTypeInv, AdminHolding, [SystemNext]_systemVars, NEW e \in pel, OnItsWay(e),
         store'[e.task] = store[e.task], store[e.task].state = "failed"
  PROVE  \/ e \in pel' /\ OnItsWay(e)'
         \/ \E w \in Workers : DlqXAdd(w) /\ wmsg[w] = e
  <1> USE NoEntryAssumption
  <1>1. /\ TypeInv /\ WorkerControl /\ RecoveryControl /\ StoppedTogether /\ EntriesInv
        /\ store \in [Tasks -> Record \union {NoTask}]
        /\ wmsg \in [Workers -> Entry \union {NoEntry}]
        /\ wpc \in [Workers -> WorkerPc]
        /\ rcur \in [Pools -> Entry \union {NoEntry}]
        /\ rpc \in [Pools -> RecoveryPc]
        /\ pel \in SUBSET Entry /\ crashes \in Nat
    BY DEF SystemTypeInv, TypeInv, TypeOK, RedisTypeOK, WorkerTypeOK, RecoveryTypeOK, AdminHolding
  <1>2. e \in Entry /\ e # NoEntry /\ e \notin stream
    BY <1>1 DEF EntriesInv
  <1>3. ASSUME UNCHANGED <<pel, wmsg, wpc, rcur, crashes>> PROVE e \in pel' /\ OnItsWay(e)'
    BY <1>3 DEF OnItsWay, At, HeldByWorker
  <1>4. ASSUME NEW w \in Workers, WorkerNext(w), wmsg[w] = e PROVE DlqXAdd(w)
    <2>1. wpc[w] = "dlq_xadd"
      BY <1>4 DEF OnItsWay, At
    <2> QED
      BY <1>4, <2>1
      DEF WorkerNext, WorkerStep, Dequeue, GetMissing, Drop, StartRefused, StartTask, SetRunning,
          SetCompleted, SetRetrying, SetFailed, HandlerReturns, ScheduleSet, ScheduleZAdd, DlqSAdd,
          Acknowledge, At
  <1>5. ASSUME NEW w \in Workers, WorkerNext(w), wmsg[w] # e PROVE e \in pel' /\ OnItsWay(e)'
    <2>1. UNCHANGED <<rcur, crashes>>
      BY <1>5 DEF WorkerNext, recoveryVars
    <2>2. e \in pel'
      BY <1>5
      DEF WorkerNext, WorkerStep, Dequeue, XReadGroup, GetMissing, Drop, XAck, StartRefused,
          StartTask, SetRunning, SetCompleted, SetRetrying, SetFailed, FinishWith, ScheduleSet,
          ScheduleZAdd, DlqXAdd, DlqSAdd, Acknowledge, redisVars
    <2>3. \A v \in Workers : v # w => wmsg'[v] = wmsg[v] /\ wpc'[v] = wpc[v]
      BY <1>1, <1>5
      DEF WorkerNext, WorkerStep, Dequeue, GetMissing, Drop, StartRefused, StartTask, SetRunning,
          SetCompleted, SetRetrying, SetFailed, FinishWith, ScheduleSet, ScheduleZAdd, DlqXAdd,
          DlqSAdd, Acknowledge, Goto, Return
    <2>4. wmsg'[w] # e
      <3>1. CASE Dequeue(w)
        <4>1. PICK f \in Heads : wmsg' = [wmsg EXCEPT ![w] = f]
          BY <3>1 DEF Dequeue
        <4> QED BY <1>1, <1>2, <4>1 DEF Heads
      <3>2. CASE Drop(w) \/ StartRefused(w) \/ Acknowledge(w)
        BY <1>1, <1>2, <3>2 DEF Drop, StartRefused, Acknowledge, Return
      <3> QED
        BY <1>5, <3>1, <3>2
        DEF WorkerNext, WorkerStep, GetMissing, StartTask, SetRunning, SetCompleted, SetRetrying,
            SetFailed, FinishWith, ScheduleSet, ScheduleZAdd, DlqXAdd, DlqSAdd
    <2> QED BY <1>5, <2>1, <2>2, <2>3, <2>4 DEF OnItsWay, At, HeldByWorker
  <1>6. ASSUME NEW p \in Pools, RecoveryNext(p) PROVE e \in pel' /\ OnItsWay(e)'
    <2>1. UNCHANGED <<wmsg, wpc, crashes>>
      BY <1>6
      DEF RecoveryNext, RecoveryStep, Claim, ReadMissing, ReadClaimed, RequeueSet, RequeueXAdd,
          RequeueAck, workerVars
    <2>2. CASE RequeueSet(p)
      <3>1. PICK b \in rbatch[p] :
              /\ SetTask(b.entry.task, PrepareForRequeue(b.rec, MaxRetries[b.entry.task]))
              /\ rcur' = [rcur EXCEPT ![p] = b.entry]
        BY <2>2 DEF RequeueSet
      <3>2. b.rec \in Record /\ b.entry \in Entry /\ MaxRetries[b.entry.task] \in Nat
        BY MaxRetriesAssumption DEF SystemTypeInv, TypeInv, TypeOK, RecoveryTypeOK, Claimed, Entry
      <3>3. PrepareForRequeue(b.rec, MaxRetries[b.entry.task]).state = "pending"
        BY <3>2, RecordStates
      <3>4. e.task \in Tasks
        BY <1>2 DEF Entry
      <3>5. b.entry # e
        BY <1>1, <3>1, <3>3, <3>4 DEF SetTask
      <3>6. pel' = pel
        BY <2>2 DEF RequeueSet
      <3> QED BY <1>1, <2>1, <3>1, <3>5, <3>6 DEF OnItsWay, At, HeldByWorker
    <2>3. CASE RequeueAck(p)
      BY <1>1, <1>2, <2>1, <2>3 DEF RequeueAck, XAck, OnItsWay, At, HeldByWorker
    <2>4. CASE UNCHANGED <<pel, rcur>>
      BY <1>3, <2>1, <2>4
    <2> QED
      BY <1>6, <2>2, <2>3, <2>4
      DEF RecoveryNext, RecoveryStep, Claim, ReadMissing, ReadClaimed, RequeueXAdd, redisVars
  <1>7. ASSUME NEW p \in Pools, Crash(p) PROVE e \in pel' /\ OnItsWay(e)'
    <2>1. /\ pel' = pel /\ crashes' = crashes + 1 /\ rcur' = [rcur EXCEPT ![p] = NoEntry]
          /\ \A w \in Workers : wmsg'[w] = (IF PoolOf[w] = p THEN NoEntry ELSE wmsg[w])
          /\ \A w \in Workers : wpc'[w] = (IF PoolOf[w] = p THEN "stopped" ELSE wpc[w])
      BY <1>7 DEF Crash, SetPool, redisVars
    <2>2. crashes' # 0
      BY <1>1, <2>1
    <2> QED BY <1>1, <1>2, <2>1, <2>2 DEF OnItsWay, At
  <1>8. ASSUME NEW p \in Pools, Restart(p) PROVE e \in pel' /\ OnItsWay(e)'
    <2>1. UNCHANGED <<pel, wmsg, rcur, crashes>>
      BY <1>8 DEF Restart, redisVars
    <2>2. \A w \in Workers : wmsg[w] = e => wpc'[w] = wpc[w]
      BY <1>1, <1>2, <1>8 DEF Restart, SetPool, WorkerControl, StoppedTogether
    <2> QED BY <2>1, <2>2 DEF OnItsWay, At, HeldByWorker
  <1>9. ASSUME NEW t \in Tasks, SystemApiNext(t) PROVE UNCHANGED <<pel, wmsg, wpc, rcur, crashes>>
    BY <1>9
    DEF SystemApiNext, ApiNext, ApiStep, Submit, EnqueueSet, EnqueueXAdd, CreateScheduledSet,
        CreateScheduledZAdd, AbortCreate, CancelRead, CancelSet, Expire, redisVars, workerVars,
        recoveryVars
  <1>10. ASSUME SchedulerMoves \/ UNCHANGED systemVars
         PROVE  UNCHANGED <<pel, wmsg, wpc, rcur, crashes>>
    BY <1>10, SchedulerWrites
    DEF SchedulerMoves, Elsewhere, workerVars, recoveryVars, systemVars, vars, redisVars
  <1> QED
    BY <1>3, <1>4, <1>5, <1>6, <1>7, <1>8, <1>9, <1>10
    DEF SystemNext, SystemWorkerNext, SystemPoolNext, SchedulerNext, SchedulerMoves

\* What FailuresListed says of one task, the worker's way first.
LEMMA ListCases ==
  ASSUME NEW t
  PROVE  ListKept(t) <=>
           (Exists(t) /\ store[t].state = "failed" =>
              \/ \E n \in dlq : n.task = t /\ IsLeft(n, {"xadd", "cleanup", "xdel"})
              \/ \E e \in pel : e.task = t /\ OnItsWay(e))
  BY DEF ListKept, OnItsWay

LEMMA ListCasesNext ==
  ASSUME NEW t
  PROVE  ListKept(t)' <=>
           (Exists(t)' /\ store'[t].state = "failed" =>
              \/ \E n \in dlq' : n.task = t /\ IsLeft(n, {"xadd", "cleanup", "xdel"})'
              \/ \E e \in pel' : e.task = t /\ OnItsWay(e)')
  BY DEF ListKept, OnItsWay

\* A worker that writes a failed record holds the only copy of its entry and goes on to
\* the dead-letter stream, whose entries nobody but a request removes.
LEMMA ListSystem ==
  ASSUME AdminTypeInv, AdminControl, AdminHolding, NewsInv, FailuresListed,
         [SystemNext]_systemVars, UNCHANGED requestVars, [AdminNext]_adminVars
  PROVE  FailuresListed'
  <1> USE NoEntryAssumption
  <1>1. /\ SystemTypeInv /\ TypeInv /\ WorkerControl
        /\ wmsg \in [Workers -> Entry \union {NoEntry}]
        /\ wpc \in [Workers -> WorkerPc]
        /\ dlq \in SUBSET Entry /\ lastDlq \in Nat
        /\ HeldOnce
    BY DEF AdminTypeInv, SystemTypeInv, TypeInv, TypeOK, WorkerTypeOK, RedisTypeOK, AdminHolding
  <1>2. apc' = apc /\ job' = job /\ discarded' = discarded
    BY DEF requestVars
  <1>3. SUFFICES ASSUME NEW t \in Tasks \ discarded, Exists(t)', store'[t].state = "failed"
                 PROVE  \/ \E n \in dlq' : n.task = t /\ IsLeft(n, {"xadd", "cleanup", "xdel"})'
                        \/ \E e \in pel' : e.task = t /\ OnItsWay(e)'
    BY <1>2, ListCasesNext DEF FailuresListed
  <1>4. ASSUME NEW w \in Workers, WorkerNext(w), SetFailed(w), task(w) = t
        PROVE  \E e \in pel' : e.task = t /\ OnItsWay(e)'
    <2>1. wmsg[w] # NoEntry /\ wmsg[w] \in Entry /\ At(w, "execute")
      BY <1>1, <1>4 DEF SetFailed, HandlerReturns, At, WorkerControl
    <2>2. PICK e : e = wmsg[w]
      OBVIOUS
    <2>3. e \in pel
      <3>1. Held(e)
        BY <2>2 DEF Held, HeldByWorker
      <3>2. Delivered(e)
        BY <1>1, <2>1, <2>2, <3>1, HeldDelivered DEF AdminHolding
      <3> QED BY <1>3, <1>4, <2>2, <3>2 DEF Delivered, task
    <2>4. /\ UNCHANGED <<pel, wmsg, rcur, crashes>>
          /\ wpc' = [wpc EXCEPT ![w] = "dlq_xadd"]
      BY <1>4 DEF SetFailed, FinishWith, Goto, WorkerNext, recoveryVars
    <2>5. \A v \in Workers : wmsg[v] = e => v = w
      BY <1>1, <2>1, <2>2 DEF HeldOnce
    <2>6. \A p \in Pools : rcur[p] # e
      BY <1>1, <2>1, <2>2 DEF HeldOnce, RecoveryHolds
    <2>7. e \in pel' /\ e.task = t /\ OnItsWay(e)'
      BY <1>1, <1>4, <2>2, <2>3, <2>4, <2>5, <2>6 DEF OnItsWay, At, HeldByWorker, task
    <2> QED BY <2>7
  <1>5. CASE store'[t] = store[t]
    <2>1. CASE \E n \in dlq : n.task = t /\ IsLeft(n, {"xadd", "cleanup", "xdel"})
      <3>1. dlq \subseteq dlq'
        BY <1>1, SystemDlq DEF DlqXAdd, XAddDlq
      <3> QED BY <1>2, <2>1, <3>1 DEF IsLeft
    <2>2. ASSUME NEW e \in pel, e.task = t, OnItsWay(e)
          PROVE  \/ \E n \in dlq' : n.task = t /\ IsLeft(n, {"xadd", "cleanup", "xdel"})'
                 \/ \E f \in pel' : f.task = t /\ OnItsWay(f)'
      <3>1. ASSUME NEW w \in Workers, DlqXAdd(w), wmsg[w] = e
            PROVE  \E n \in dlq' : n.task = t /\ IsLeft(n, {"xadd", "cleanup", "xdel"})'
        <4>1. PICK n : n = [id |-> lastDlq + 1, task |-> t]
          OBVIOUS
        <4>2. n \in dlq' /\ n.task = t /\ n.id = lastDlq + 1
          BY <2>2, <3>1, <4>1 DEF DlqXAdd, XAddDlq, task
        <4>3. ASSUME NEW o \in Operators, apc[o] \in {"xadd", "cleanup", "xdel"}
              PROVE  job[o].entry # n
          <5>1. /\ job[o] \in Job
                /\ job[o].entry # NoEntry => job[o].entry.id <= lastDlq
            BY <4>3 DEF AdminTypeInv, AdminControl, RetryPc
          <5>2. n \in Entry
            BY <1>1, <1>3, <4>1 DEF Entry
          <5>3. job[o].entry = n => n.id <= lastDlq
            BY <5>1, <5>2
          <5> QED BY <1>1, <4>2, <5>3
        <4> QED BY <1>2, <4>2, <4>3 DEF IsLeft
      <3>2. store'[e.task] = store[e.task] /\ store[e.task].state = "failed"
        BY <1>3, <1>5, <2>2
      <3> QED BY <1>1, <2>2, <3>1, <3>2, StaysOnItsWay
    <2>3. Exists(t) /\ store[t].state = "failed"
      BY <1>3, <1>5 DEF Exists
    <2>4. ListKept(t)
      BY DEF FailuresListed
    <2> QED BY <2>1, <2>2, <2>3, <2>4, ListCases
  <1> QED BY <1>3, <1>4, <1>5, FailedByWorker

\* The request that removes an entry has made the record pending before, and whoever
\* throws entries away says so.
LEMMA ListOperator ==
  ASSUME AdminTypeInv, AdminControl, NewsInv, FailuresListed, NEW o \in Operators,
         OperatorMoves(o), [AdminNext]_adminVars
  PROVE  FailuresListed'
  <1> USE NoEntryAssumption
  <1>1. /\ store \in [Tasks -> Record \union {NoTask}]
        /\ apc \in [Operators -> AdminPc]
        /\ dlq \in SUBSET Entry
        /\ job = [q \in Operators |-> job[q]]
        /\ apc[o] \in RetryPc =>
             /\ job[o] \in Job
             /\ job[o].rec.state = "pending"
             /\ job[o].entry # NoEntry => job[o].entry.task = job[o].task
    BY DEF AdminTypeInv, AdminControl, SystemTypeInv, TypeInv, TypeOK, RedisTypeOK
  <1>2. /\ UNCHANGED <<wmsg, wpc, rcur, crashes>>
        /\ discarded \subseteq discarded'
        /\ \A e \in pel : e \in pel' \/ e.task \in discarded'
        /\ \A e \in dlq : e \in dlq' \/ e.task \in discarded' \/ (apc[o] = "xdel" /\ e = job[o].entry)
    BY OperatorWrites DEF OutsideRedis, workerVars, recoveryVars
  <1>3. SUFFICES ASSUME NEW t \in Tasks \ discarded', Exists(t)', store'[t].state = "failed"
                 PROVE  \/ \E n \in dlq' : n.task = t /\ IsLeft(n, {"xadd", "cleanup", "xdel"})'
                        \/ \E e \in pel' : e.task = t /\ OnItsWay(e)'
    BY ListCasesNext DEF FailuresListed
  <1>4. store'[t] = store[t]
    <2>1. ASSUME NEW w \in Workers, WorkerNext(w), SetFailed(w) PROVE store'[t] = store[t]
      <3>1. wpc'[w] = "dlq_xadd" /\ wpc[w] = "execute"
        BY <2>1 DEF SetFailed, FinishWith, Goto, HandlerReturns, At, AdminTypeInv, SystemTypeInv,
           TypeInv, TypeOK, WorkerTypeOK
      <3> QED BY <1>2, <3>1
    <2> QED BY <1>3, <2>1, FailedByWorker
  <1>5. ListKept(t) /\ Exists(t) /\ store[t].state = "failed"
    BY <1>2, <1>3, <1>4 DEF FailuresListed, Exists
  <1>6. CASE \E e \in pel : e.task = t /\ OnItsWay(e)
    BY <1>2, <1>3, <1>6 DEF OnItsWay, At, HeldByWorker
  <1>7. ASSUME NEW n \in dlq, n.task = t, IsLeft(n, {"xadd", "cleanup", "xdel"})
        PROVE  n \in dlq' /\ IsLeft(n, {"xadd", "cleanup", "xdel"})'
    <2>1. n \in dlq'
      BY <1>2, <1>3, <1>7 DEF IsLeft
    <2>2. ASSUME apc'[o] \in {"xadd", "cleanup", "xdel"} PROVE job'[o].entry # n
      <3>1. CASE RetrySet(o)
        <4>1. apc[o] = "set" /\ SetTask(job[o].task, job[o].rec) /\ job' = job
          BY <3>1 DEF RetrySet, Work
        <4>2. job[o].task # t
          BY <1>1, <1>3, <4>1 DEF SetTask, RetryPc
        <4>3. job[o].entry = n => job[o].entry # NoEntry
          BY <1>1
        <4> QED BY <1>1, <1>7, <4>1, <4>2, <4>3 DEF RetryPc
      <3>2. CASE RetryXAdd(o)
        <4>1. job' = job /\ apc[o] = "xadd"
          BY <1>1, <2>2, <3>2 DEF RetryXAdd, Work, EndItem, AdminGoto
        <4> QED BY <1>7, <4>1 DEF IsLeft
      <3>3. CASE XAddRefused(o)
        BY <1>7, <3>3 DEF XAddRefused, CutShort, IsLeft
      <3>4. CASE UpdateTask(o) \/ RemoveXDel(o) \/ RemoveSRem(o) \/ Cleanup(o) \/ ItemRefused(o)
        BY <1>1, <2>2, <3>4
        DEF UpdateTask, RemoveXDel, RemoveSRem, Cleanup, ItemRefused, EndItem, AdminGoto
      <3>5. CASE ClearSet(o) \/ PurgeGroup(o) \/ Abandon(o) \/ ClearStream(o) \/ RetryAll(o)
        BY <1>1, <2>2, <3>5 DEF ClearSet, PurgeGroup, Abandon, ClearStream, RetryAll, AdminGoto
      <3>6. CASE RetryNext(o)
        <4>1. apc'[o] \in {"set", "idle", "next"}
          BY <1>1, <3>6 DEF RetryNext, Find, AdminGoto
        <4> QED BY <2>2, <4>1
      <3>7. ASSUME NEW x \in Tasks, RetryOne(o, x) \/ RetryTask(o, x) PROVE FALSE
        <4>1. apc'[o] \in {"set", "update"}
          BY <1>1, <3>7 DEF RetryOne, RetryTask, Find, AdminGoto
        <4> QED BY <2>2, <4>1
      <3>8. ASSUME NEW q \in Queues, PurgeDel(o, q) PROVE FALSE
        BY <1>1, <2>2, <3>8 DEF PurgeDel, AdminGoto
      <3> QED
        BY <3>1, <3>2, <3>3, <3>4, <3>5, <3>6, <3>7, <3>8
        DEF OperatorMoves, NewRequest, OperatorStep
    <2>3. \A q \in Operators : q # o => apc'[q] = apc[q] /\ job'[q] = job[q]
      BY RequestIsAbout
    <2> QED BY <1>7, <2>1, <2>2, <2>3 DEF IsLeft
  <1> QED BY <1>5, <1>6, <1>7, ListCases

\* Nothing that disturbs the service is undone, and no request is.
LEMMA DisturbancesGrow ==
  ASSUME AdminTypeInv, AdminControl, [AdminNext]_adminVars
  PROVE  /\ slow' = 0 => slow = 0
         /\ crashes' = 0 => crashes = 0
         /\ requests' <= 1 => requests <= 1
         /\ refusals' = 0 => refusals = 0
         /\ Quiet <=>
              /\ slow = 0 /\ schedCrashes = 0 /\ expiries = 0 /\ races = 0
              /\ refusals = 0 \/ (crashes = 0 /\ requests <= 1)
         /\ Quiet' <=>
              /\ slow' = 0 /\ schedCrashes' = 0 /\ expiries' = 0 /\ races' = 0
              /\ refusals' = 0 \/ (crashes' = 0 /\ requests' <= 1)
         /\ Quiet' => Quiet
  <1>1. /\ slow \in Nat /\ schedCrashes \in Nat /\ expiries \in Nat /\ races \in Nat
        /\ crashes \in Nat /\ requests \in Nat /\ refusals \in Nat
    BY AdminAssumption
    DEF AdminTypeInv, SystemTypeInv, TypeInv, TypeOK, RecoveryTypeOK, SchedulerTypeOK
  <1>2. /\ slow' \in Nat /\ schedCrashes' \in Nat /\ expiries' \in Nat /\ races' \in Nat
        /\ crashes' \in Nat /\ requests' \in Nat /\ refusals' \in Nat
    <2>1. AdminTypeInv'
      BY AdminTypeStep
    <2> QED
      BY <2>1, AdminAssumption
      DEF AdminTypeInv, SystemTypeInv, TypeInv, TypeOK, RecoveryTypeOK, SchedulerTypeOK
  <1>3. /\ slow' = slow \/ slow' = slow + 1
        /\ schedCrashes' = schedCrashes \/ schedCrashes' = schedCrashes + 1
        /\ expiries' = expiries \/ expiries' = expiries + 1
        /\ races' = races \/ races' = races + 1
        /\ crashes' = crashes \/ crashes' = crashes + 1
        /\ requests' = requests \/ requests' = requests + 1
        /\ refusals' = refusals \/ refusals' = refusals + 1
    <2>1. CASE [SystemNext]_systemVars /\ UNCHANGED requestVars
      BY <2>1, SystemDisturbs DEF requestVars
    <2>2. ASSUME NEW o \in Operators, OperatorMoves(o)
          PROVE  /\ UNCHANGED <<slow, schedCrashes, expiries, races, crashes>>
                 /\ requests' = requests \/ requests' = requests + 1
                 /\ refusals' = refusals \/ refusals' = refusals + 1
      BY <2>2, OperatorWrites DEF OutsideRedis, recoveryVars, schedulerVars
    <2>3. CASE UNCHANGED adminVars
      BY <2>1, <2>3 DEF adminVars
    <2> QED BY <2>1, <2>2, <2>3 DEF AdminNext, OperatorMoves, Alongside
  <1>4. PICK i, j, k, l \in Nat : i = slow /\ j = schedCrashes /\ k = expiries /\ l = races
    BY <1>1
  <1>5. PICK a, b, c, d \in Nat : a = slow' /\ b = schedCrashes' /\ c = expiries' /\ d = races'
    BY <1>2
  <1>6. i <= a /\ j <= b /\ k <= c /\ l <= d
    BY <1>3, <1>4, <1>5
  <1>7. /\ i + j + k + l = 0 <=> i = 0 /\ j = 0 /\ k = 0 /\ l = 0
        /\ a + b + c + d = 0 <=> a = 0 /\ b = 0 /\ c = 0 /\ d = 0
    OBVIOUS
  <1>8. /\ a = 0 => i = 0
        /\ b = 0 => j = 0
        /\ c = 0 => k = 0
        /\ d = 0 => l = 0
    BY <1>6
  <1>9. /\ crashes' = 0 => crashes = 0
        /\ requests' <= 1 => requests <= 1
        /\ refusals' = 0 => refusals = 0
    BY <1>1, <1>3
  <1>10. Quiet <=>
           /\ slow = 0 /\ schedCrashes = 0 /\ expiries = 0 /\ races = 0
           /\ refusals = 0 \/ (crashes = 0 /\ requests <= 1)
    <2>1. slow + schedCrashes + expiries + races = 0
            <=> slow = 0 /\ schedCrashes = 0 /\ expiries = 0 /\ races = 0
      BY <1>4, <1>7
    <2> QED BY <2>1 DEF Quiet
  <1>11. Quiet' <=>
           /\ slow' = 0 /\ schedCrashes' = 0 /\ expiries' = 0 /\ races' = 0
           /\ refusals' = 0 \/ (crashes' = 0 /\ requests' <= 1)
    <2>1. slow' + schedCrashes' + expiries' + races' = 0
            <=> slow' = 0 /\ schedCrashes' = 0 /\ expiries' = 0 /\ races' = 0
      BY <1>5, <1>7
    <2> QED BY <2>1 DEF Quiet
  <1> QED BY <1>4, <1>5, <1>8, <1>9, <1>10, <1>11

\* Initially nobody holds anything and nothing has failed.
LEMMA HandsInit == AdminInit => AdminHolding /\ FailuresListed /\ RetriesListed
  <1> SUFFICES ASSUME AdminInit PROVE AdminHolding /\ FailuresListed /\ RetriesListed
    OBVIOUS
  <1>1. /\ stream = {} /\ pel = {} /\ \A t \in Tasks : store[t] = NoTask
        /\ \A w \in Workers : wmsg[w] = NoEntry
        /\ \A p \in Pools : rclaim[p] = NoEntry /\ rcur[p] = NoEntry /\ rbatch[p] = {}
        /\ \A o \in Operators : apc[o] = "idle"
    BY DEF AdminInit, SystemInit, Init, RedisInit, WorkerInit, RecoveryInit
  <1>2. EntriesInv
    BY <1>1 DEF EntriesInv
  <1>3. HeldWasDelivered
    BY <1>1 DEF HeldWasDelivered, Holdings
  <1>4. HeldOnce
    BY <1>1 DEF HeldOnce, RecoveryHolds, InBatch
  <1>5. FailuresListed
    BY <1>1 DEF FailuresListed, ListKept, Exists
  <1>6. RetriesListed
    BY <1>1 DEF RetriesListed
  <1> QED BY <1>2, <1>3, <1>4, <1>5, <1>6 DEF AdminHolding

\* Failed records, hands and the dead-letter stream stay in step.
LEMMA ListStep ==
  ASSUME AdminTypeInv, AdminControl, AdminHolding, NewsInv, FailuresListed, [AdminNext]_adminVars
  PROVE  FailuresListed'
  <1>1. CASE SystemNext /\ Alongside
    BY <1>1, ListSystem DEF Alongside
  <1>2. CASE UNCHANGED adminVars
    BY <1>2, ListSystem DEF adminVars
  <1> QED BY <1>1, <1>2, ListOperator DEF AdminNext, OperatorMoves

\* Operators do not deal with the scheduler lock.
LEMMA AdminLockStep ==
  ASSUME AdminTypeInv, AdminControl, LockInv, [AdminNext]_adminVars
  PROVE  LockInv'
  <1>1. CASE [SystemNext]_systemVars
    BY <1>1, LockStep DEF AdminTypeInv
  <1>2. ASSUME NEW o \in Operators, OperatorMoves(o) PROVE LockInv'
    <2>1. UNCHANGED <<lock, spc, expiries>>
      BY <1>2, OperatorWrites DEF OutsideRedis, schedulerVars
    <2> QED BY <2>1 DEF LockInv, SchedulerExclusion
  <1>3. CASE UNCHANGED adminVars
    BY <1>1, <1>3 DEF adminVars
  <1> QED BY <1>1, <1>2, <1>3 DEF AdminNext, OperatorMoves

(***************************************************************************)
(* RetriesListed: what a request that is cut short leaves behind.          *)
(***************************************************************************)

\* A worker on its way to the dead-letter stream gets there unless its process dies.
LEMMA StaysSystem ==
  ASSUME AdminTypeInv, AdminControl, [SystemNext]_systemVars, UNCHANGED requestVars,
         crashes' = crashes, NEW t \in Tasks, StaysListed(t)
  PROVE  StaysListed(t)'
  <1>1. /\ SystemTypeInv
        /\ wmsg \in [Workers -> Entry \union {NoEntry}]
        /\ wpc \in [Workers -> WorkerPc]
        /\ dlq \in SUBSET Entry /\ lastDlq \in Nat
        /\ crashes \in Nat
        /\ StoppedTogether
    BY DEF AdminTypeInv, SystemTypeInv, TypeInv, TypeOK, WorkerTypeOK, RedisTypeOK
  <1>2. apc' = apc /\ job' = job
    BY DEF requestVars
  <1>3. dlq \subseteq dlq'
    BY <1>1, SystemDlq DEF DlqXAdd, XAddDlq
  <1>4. CASE \E n \in dlq : n.task = t /\ IsLeft(n, {"xdel"})
    BY <1>2, <1>3, <1>4 DEF StaysListed, IsLeft
  <1>5. ASSUME NEW w \in Workers, At(w, "dlq_xadd"), task(w) = t PROVE StaysListed(t)'
    <2>1. CASE DlqXAdd(w)
      <3>1. PICK n : n = [id |-> lastDlq + 1, task |-> t]
        OBVIOUS
      <3>2. n \in dlq' /\ n.task = t /\ n.id = lastDlq + 1 /\ n \in Entry
        BY <1>1, <1>5, <2>1, <3>1 DEF DlqXAdd, XAddDlq, Entry
      <3>3. ASSUME NEW o \in Operators, apc[o] = "xdel" PROVE job[o].entry # n
        <4>1. job[o].entry # NoEntry /\ job[o].entry.id <= lastDlq
          BY <3>3 DEF AdminTypeInv, AdminControl, RetryPc
        <4>2. job[o].entry = n => n.id <= lastDlq
          BY <4>1
        <4> QED BY <1>1, <3>2, <4>2
      <3> QED BY <1>2, <3>2, <3>3 DEF StaysListed, IsLeft
    <2>2. CASE ~ DlqXAdd(w)
      <3>1. wpc'[w] = wpc[w] /\ wmsg'[w] = wmsg[w]
        <4>1. ASSUME NEW v \in Workers, WorkerNext(v) PROVE wpc'[w] = wpc[w] /\ wmsg'[w] = wmsg[w]
          <5>1. v # w
            BY <1>5, <2>2, <4>1
            DEF WorkerNext, WorkerStep, Dequeue, GetMissing, Drop, StartRefused, StartTask,
                SetRunning, SetCompleted, SetRetrying, SetFailed, HandlerReturns, ScheduleSet,
                ScheduleZAdd, DlqSAdd, Acknowledge, At
          <5> QED
            BY <1>1, <4>1, <5>1
            DEF WorkerNext, WorkerStep, Dequeue, GetMissing, Drop, StartRefused, StartTask,
                SetRunning, SetCompleted, SetRetrying, SetFailed, FinishWith, ScheduleSet,
                ScheduleZAdd, DlqXAdd, DlqSAdd, Acknowledge, Goto, Return
        <4>2. ASSUME NEW p \in Pools, SystemPoolNext(p) PROVE wpc'[w] = wpc[w] /\ wmsg'[w] = wmsg[w]
          <5>1. ~ Crash(p)
            BY <1>1 DEF Crash
          <5>2. CASE Restart(p)
            BY <1>1, <1>5, <5>2 DEF Restart, SetPool, StoppedTogether, At
          <5> QED
            BY <4>2, <5>1, <5>2
            DEF SystemPoolNext, RecoveryNext, RecoveryStep, Claim, ReadMissing, ReadClaimed,
                RequeueSet, RequeueXAdd, RequeueAck, workerVars
        <4>3. ASSUME NEW x \in Tasks, SystemApiNext(x) PROVE UNCHANGED <<wpc, wmsg>>
          BY <4>3
          DEF SystemApiNext, ApiNext, ApiStep, Submit, EnqueueSet, EnqueueXAdd, CreateScheduledSet,
              CreateScheduledZAdd, AbortCreate, CancelRead, CancelSet, Expire, workerVars
        <4>4. ASSUME SchedulerMoves PROVE UNCHANGED <<wpc, wmsg>>
          BY <4>4 DEF SchedulerMoves, Elsewhere, workerVars
        <4>5. CASE UNCHANGED systemVars
          BY <4>5 DEF systemVars, vars, workerVars
        <4> QED
          BY <4>1, <4>2, <4>3, <4>4, <4>5
          DEF SystemNext, SystemWorkerNext, SchedulerNext, SchedulerMoves
      <3> QED BY <1>5, <3>1 DEF StaysListed, At, task
    <2> QED BY <2>1, <2>2
  <1> QED BY <1>4, <1>5 DEF StaysListed

\* While no more than one request has been made, the operator at work is the only one.
LEMMA OneRequest ==
  ASSUME AdminTypeInv, AdminControl, NEW o \in Operators, OperatorMoves(o), requests' <= 1
  PROVE  \A q \in Operators : q # o => apc[q] = "idle" /\ apc'[q] = "idle"
  <1>1. requests \in Nat
    BY AdminAssumption DEF AdminTypeInv
  <1>2. \/ requests' = requests /\ apc[o] # "idle"
        \/ requests' = requests + 1
    BY OperatorWrites
  <1>3. \A q \in Operators : q # o => apc[q] = "idle"
    BY <1>1, <1>2 DEF AdminControl
  <1>4. \A q \in Operators : q # o => apc'[q] = apc[q]
    BY RequestIsAbout
  <1> QED BY <1>3, <1>4

\* What RetriesListed says of the task of one request.
ShowsUp(o) == job[o].task \in discarded \/ StaysListed(job[o].task)

\* A retry starts from an entry of the dead-letter stream or from a failed record.
LEMMA RetriesStep ==
  ASSUME AdminTypeInv, AdminControl, AdminHolding, NewsInv, FailuresListed, RetriesListed,
         [AdminNext]_adminVars
  PROVE  RetriesListed'
  <1>1. SUFFICES ASSUME crashes' = 0, requests' <= 1, NEW o \in Operators,
                        apc'[o] \in {"update", "set", "xadd", "cleanup"}
                 PROVE  ShowsUp(o)'
    BY DEF RetriesListed, ShowsUp
  <1>2. crashes = 0 /\ requests <= 1
    BY <1>1, DisturbancesGrow
  <1>3. \A q \in Operators :
          apc[q] \in {"update", "set", "xadd", "cleanup"} =>
            job[q].task \in Tasks /\ (job[q].task \in discarded \/ StaysListed(job[q].task))
    BY <1>2 DEF RetriesListed, AdminTypeInv, RetryPc, Job
  <1>4. ASSUME NEW t, job'[o].task = t, t \in discarded' \/ StaysListed(t)' PROVE ShowsUp(o)'
    BY <1>4 DEF ShowsUp, StaysListed
  <1>5. ASSUME [SystemNext]_systemVars, UNCHANGED requestVars
        PROVE  ShowsUp(o)'
    <2>1. PICK t : t = job[o].task
      OBVIOUS
    <2>2. apc' = apc /\ job' = job /\ discarded' = discarded
      BY <1>5 DEF requestVars
    <2>3. t \in Tasks /\ (t \in discarded \/ StaysListed(t))
      BY <1>1, <1>3, <2>1, <2>2
    <2>4. StaysListed(t) => StaysListed(t)'
      BY <1>1, <1>2, <1>5, <2>3, StaysSystem
    <2> QED BY <1>4, <2>1, <2>2, <2>3, <2>4
  <1>6. ASSUME NEW q \in Operators, OperatorMoves(q)
        PROVE  ShowsUp(o)'
    <2>1. /\ q = o
          /\ \A p \in Operators : apc'[p] # "xdel"
      BY <1>1, <1>6, OneRequest
    <2>2. /\ apc \in [Operators -> AdminPc]
          /\ job = [p \in Operators |-> job[p]]
          /\ dlq \in SUBSET Entry
      BY DEF AdminTypeInv, AdminControl, SystemTypeInv, TypeInv, TypeOK, RedisTypeOK
    <2>3. discarded \subseteq discarded' /\ UNCHANGED <<wpc, wmsg>>
      BY <1>6, OperatorWrites DEF OutsideRedis, workerVars
    <2>4. ASSUME NEW t, dlq' = dlq, StaysListed(t) PROVE StaysListed(t)'
      BY <2>1, <2>3, <2>4 DEF StaysListed, IsLeft, At, task
    <2>5. CASE UpdateTask(o) \/ RetrySet(o) \/ XAddRefused(o)
      <3>1. /\ dlq' = dlq /\ job' = job
            /\ apc[o] \in {"update", "set", "xadd"}
        BY <2>5 DEF UpdateTask, RetrySet, XAddRefused, Work, CutShort, redisVars, dlqVars
      <3>2. PICK t : t = job[o].task
        OBVIOUS
      <3>3. t \in discarded \/ StaysListed(t)
        BY <1>3, <3>1, <3>2
      <3> QED BY <1>4, <2>3, <2>4, <3>1, <3>2, <3>3
    <2>6. ASSUME NEW t, Find(o, t), dlq' = dlq PROVE job'[o].task = t /\ StaysListed(t)'
      <3>1. FirstEntry(t) \in dlq /\ FirstEntry(t).task = t
        BY <2>2, <2>6, FirstEntryIs DEF Find
      <3>2. PICK j : j = [task |-> t, entry |-> FirstEntry(t), rec |-> Requeue(Copy)]
        OBVIOUS
      <3>3. job' = [job EXCEPT ![o] = j] /\ j.task = t
        BY <2>6, <3>2 DEF Find
      <3> QED BY <2>1, <2>2, <2>6, <3>1, <3>3 DEF StaysListed, IsLeft
    <2>7. ASSUME NEW t \in Tasks, RetryOne(o, t)
          PROVE  job'[o].task = t /\ StaysListed(t)'
      BY <2>6, <2>7 DEF RetryOne, redisVars, dlqVars
    <2>8. CASE RetryNext(o)
      <3>1. PICK e \in todo[o] :
              Find(o, e.task) \/ apc' = [apc EXCEPT ![o] = IF todo[o] = {e} THEN "idle" ELSE "next"]
        BY <2>8 DEF RetryNext, AdminGoto
      <3>2. Find(o, e.task)
        BY <1>1, <2>2, <3>1
      <3>3. dlq' = dlq
        BY <2>8 DEF RetryNext, redisVars, dlqVars
      <3>4. PICK t : t = e.task
        OBVIOUS
      <3> QED BY <1>4, <2>6, <3>2, <3>3, <3>4
    <2>9. ASSUME NEW t \in Tasks, RetryTask(o, t)
          PROVE  job'[o].task = t /\ (t \in discarded \/ StaysListed(t)')
      <3>1. PICK j : j = [task |-> t, entry |-> NoEntry, rec |-> Requeue(store[t])]
        OBVIOUS
      <3>2. /\ job' = [job EXCEPT ![o] = j] /\ j.task = t
            /\ Exists(t) /\ store[t].state \in {"failed", "dead_letter"} /\ dlq' = dlq
        BY <2>9, <3>1 DEF RetryTask, redisVars, dlqVars
      <3>3. store[t].state = "failed"
        BY <3>2 DEF NewsInv
      <3>4. ASSUME t \notin discarded PROVE StaysListed(t)'
        <4>1. ListKept(t)
          BY <3>4 DEF FailuresListed
        <4>2. CASE \E n \in dlq : n.task = t /\ IsLeft(n, {"xadd", "cleanup", "xdel"})
          BY <2>1, <3>2, <4>2 DEF StaysListed, IsLeft
        <4>3. ASSUME NEW e \in pel, e.task = t, OnItsWay(e) PROVE StaysListed(t)'
          <5>1. PICK w \in Workers : wmsg[w] = e /\ At(w, "dlq_xadd")
            BY <1>2, <4>3 DEF OnItsWay, HeldByWorker
          <5> QED BY <2>3, <4>3, <5>1 DEF StaysListed, At, task
        <4> QED BY <3>2, <3>3, <4>1, <4>2, <4>3, ListCases
      <3> QED BY <2>2, <3>2, <3>4
    <2>10. CASE RetryAll(o) \/ ClearStream(o) \/ ClearSet(o) \/ PurgeGroup(o) \/ Abandon(o)
      BY <1>1, <2>2, <2>10 DEF RetryAll, ClearStream, ClearSet, PurgeGroup, Abandon, AdminGoto
    <2>11. CASE RetryXAdd(o) \/ RemoveXDel(o) \/ RemoveSRem(o) \/ Cleanup(o) \/ ItemRefused(o)
      BY <1>1, <2>2, <2>11
      DEF RetryXAdd, RemoveXDel, RemoveSRem, Cleanup, ItemRefused, EndItem, AdminGoto
    <2>12. ASSUME NEW x \in Queues, PurgeDel(o, x) PROVE FALSE
      BY <1>1, <2>2, <2>12 DEF PurgeDel, AdminGoto
    <2> QED
      BY <1>6, <1>4, <2>1, <2>3, <2>5, <2>7, <2>8, <2>9, <2>10, <2>11, <2>12
      DEF OperatorMoves, NewRequest, OperatorStep
  <1>7. CASE UNCHANGED adminVars
    BY <1>5, <1>7 DEF adminVars
  <1> QED BY <1>5, <1>6, <1>7 DEF AdminNext, OperatorMoves, Alongside

(***************************************************************************)
(* KeptInv: the entry, the member or the request that goes with the record *)
(* of an accepted task, as long as nothing else disturbs the service.      *)
(***************************************************************************)

\* The ways in which a task is kept.
LEMMA KeptCases ==
  ASSUME NEW t
  PROVE  IsKept(t) <=>
           /\ Exists(t)
           /\ \/ Settled(t) \/ InHand(t) \/ t \in OnHand("xadd")
              \/ \E e \in stream \union pel : e.task = t /\ Loose(e, Unsettled)
              \/ /\ Waiting(t)
                 /\ \/ \E e \in stream \union pel : e.task = t /\ Loose(e, Unscheduled)
                    \/ t \in zset \ OnHand("zrem")
  BY DEF IsKept, EntryAt

\* A step that leaves what the record of t needs.
LEMMA KeptByWrite ==
  ASSUME NEW t, Exists(t)',
         \/ Settled(t)' \/ InHand(t)' \/ t \in OnHand("xadd")'
         \/ \E e \in (stream \union pel)' : e.task = t /\ Loose(e, Unsettled)'
         \/ /\ Waiting(t)'
            /\ \/ \E e \in (stream \union pel)' : e.task = t /\ Loose(e, Unscheduled)'
               \/ t \in (zset \ OnHand("zrem"))'
  PROVE  IsKept(t)'
  BY DEF IsKept, EntryAt

\* A step that leaves the record alone and neither spends an entry that carries the task
\* nor takes the member that does.
LEMMA KeptFrame ==
  ASSUME NEW t, IsKept(t), store'[t] = store[t],
         \A e \in stream \union pel :
           e.task = t =>
             /\ Loose(e, Unsettled) => e \in (stream \union pel)' /\ Loose(e, Unsettled)'
             /\ Loose(e, Unscheduled) => e \in (stream \union pel)' /\ Loose(e, Unscheduled)',
         InHand(t) => InHand(t)',
         t \in OnHand("xadd") => t \in OnHand("xadd")',
         t \in zset \ OnHand("zrem") => t \in (zset \ OnHand("zrem"))'
  PROVE  IsKept(t)'
  <1>1. Exists(t)' /\ (Settled(t) => Settled(t)') /\ (Waiting(t) => Waiting(t)')
    BY DEF IsKept, Exists, Settled, Waiting
  <1>2. ASSUME NEW e \in stream \union pel, e.task = t, Loose(e, Unsettled)
        PROVE  \E f \in (stream \union pel)' : f.task = t /\ Loose(f, Unsettled)'
    BY <1>2
  <1>3. ASSUME NEW e \in stream \union pel, e.task = t, Loose(e, Unscheduled)
        PROVE  \E f \in (stream \union pel)' : f.task = t /\ Loose(f, Unscheduled)'
    BY <1>3
  <1>4. SUFFICES /\ Exists(t)'
                 /\ \/ Settled(t)' \/ InHand(t)' \/ t \in OnHand("xadd")'
                    \/ \E e \in (stream \union pel)' : e.task = t /\ Loose(e, Unsettled)'
                    \/ /\ Waiting(t)'
                       /\ \/ \E e \in (stream \union pel)' : e.task = t /\ Loose(e, Unscheduled)'
                          \/ t \in (zset \ OnHand("zrem"))'
    BY KeptByWrite
  <1> QED BY <1>1, <1>2, <1>3, KeptCases

\* A new entry of the task, in nobody's hands, carries it whatever its record says.
LEMMA KeptByEntry ==
  ASSUME NEW t, Exists(t)', NEW n \in (stream \union pel)', n.task = t, Loose(n, {})'
  PROVE  IsKept(t)'
  <1>1. Loose(n, Unsettled)'
    BY DEF Loose
  <1> QED BY <1>1, KeptByWrite

\* An entry is not spent by a worker that goes on to a command before its next record.
LEMMA LooseFrame ==
  ASSUME NEW e,
         \A w \in Workers : wmsg'[w] = e =>
           (wmsg[w] = e /\ wpc'[w] = wpc[w]) \/ wpc'[w] \in Unsettled,
         \A p \in Pools : RecoverySpent(p, e)' => RecoverySpent(p, e)
  PROVE  /\ Loose(e, Unsettled) => Loose(e, Unsettled)'
         /\ Loose(e, Unscheduled) => Loose(e, Unscheduled)'
  <1>1. Unsettled \subseteq Unscheduled
    BY DEF Unscheduled
  <1> QED BY <1>1 DEF Loose

\* KeptFrame beside idle schedulers and operators.
LEMMA KeptBeside ==
  ASSUME NEW t, IsKept(t), store'[t] = store[t], UNCHANGED requestVars,
         UNCHANGED <<spc, scur>>, zset \subseteq zset',
         \A e \in stream \union pel :
           e.task = t =>
             /\ Loose(e, Unsettled) => e \in (stream \union pel)' /\ Loose(e, Unsettled)'
             /\ Loose(e, Unscheduled) => e \in (stream \union pel)' /\ Loose(e, Unscheduled)'
  PROVE  IsKept(t)'
  <1>1. OnHand("xadd")' = OnHand("xadd") /\ OnHand("zrem")' = OnHand("zrem")
    BY DEF OnHand
  <1>2. InHand(t) => InHand(t)'
    BY DEF InHand, requestVars
  <1> QED BY <1>1, <1>2, KeptFrame

\* An entry nobody has delivered yet is in nobody's hands.
LEMMA NewNotHeld ==
  ASSUME TypeInv, AdminHolding, NEW n \in Entry, n.id = lastId + 1
  PROVE  n \notin stream \union pel /\ ~ Held(n)
  <1>1. lastId \in Nat /\ n.id \in Nat
    BY DEF TypeInv, TypeOK, RedisTypeOK, Entry
  <1>2. ~ (n.id <= lastId)
    BY <1>1
  <1>3. n \notin stream \union pel
    BY <1>2 DEF AdminHolding, EntriesInv
  <1>4. Held(n) => Delivered(n)
    BY HeldDelivered DEF AdminHolding
  <1> QED BY <1>2, <1>3, <1>4 DEF Delivered

\* What is held of a task that is not discarded is pending, and held once.
LEMMA HeldPending ==
  ASSUME TypeInv, AdminHolding, NEW e \in Entry, e.task \notin discarded, Held(e)
  PROVE  /\ e \in pel
         /\ \A v, w \in Workers : wmsg[v] = e /\ wmsg[w] = e => v = w
         /\ \A w \in Workers, p \in Pools : wmsg[w] = e => ~ RecoveryHolds(p, e)
         /\ \A p, q \in Pools : RecoveryHolds(p, e) /\ RecoveryHolds(q, e) => p = q
  <1>1. e # NoEntry
    BY NoEntryAssumption
  <1>2. e \in pel
    BY HeldDelivered DEF AdminHolding, Delivered
  <1> QED BY <1>1, <1>2 DEF AdminHolding, HeldOnce

\* A worker settles its entry by the record, the member or the dead letter it has
\* written before (handleTaskSuccess, handleTaskFailure).
LEMMA KeptWorker ==
  ASSUME SystemTypeInv, AdminHolding, NEW w \in Workers, WorkerNext(w), ~ Overtakes(w),
         UNCHANGED schedulerVars, UNCHANGED requestVars,
         NEW t \in Tasks \ discarded, IsKept(t)
  PROVE  IsKept(t)'
  <1> USE NoTaskAssumption, NoEntryAssumption
  <1>1. /\ TypeInv
        /\ store \in [Tasks -> Record \union {NoTask}]
        /\ stream \in SUBSET Entry /\ pel \in SUBSET Entry
        /\ wpc \in [Workers -> WorkerPc]
        /\ wmsg \in [Workers -> Entry \union {NoEntry}]
        /\ wrec \in [Workers -> Record \union {NoTask}]
        /\ WorkerControl
    BY DEF SystemTypeInv, TypeInv, TypeOK, RedisTypeOK, WorkerTypeOK
  <1>2. /\ UNCHANGED <<rpc, rcur, spc, scur>>
        /\ \A p \in Pools : \A e : RecoverySpent(p, e)' <=> RecoverySpent(p, e)
    BY DEF WorkerNext, recoveryVars, schedulerVars, RecoverySpent
  <1>3. zset \subseteq zset'
    BY DEF WorkerNext, WorkerStep, Dequeue, GetMissing, Drop, StartRefused, StartTask,
       SetRunning, SetCompleted, SetRetrying, SetFailed, FinishWith, ScheduleSet, ScheduleZAdd,
       DlqXAdd, DlqSAdd, Acknowledge, redisVars
  <1>4. Exists(t) /\ OnHand("xadd")' = OnHand("xadd") /\ OnHand("zrem")' = OnHand("zrem")
          /\ InHand(t)' = InHand(t)
    BY <1>2 DEF IsKept, OnHand, InHand, requestVars
  <1>5. ASSUME store'[t] = store[t],
               \A e \in stream \union pel :
                 e.task = t =>
                   /\ Loose(e, Unsettled) => e \in (stream \union pel)' /\ Loose(e, Unsettled)'
                   /\ Loose(e, Unscheduled) =>
                        e \in (stream \union pel)' /\ Loose(e, Unscheduled)'
        PROVE  IsKept(t)'
    BY <1>2, <1>3, <1>5, KeptBeside
  \* A worker that moves on with its entry, or lets go of one nobody acknowledges.
  <1>6. ASSUME NEW e, wmsg'[w] = e => wpc'[w] \in Unsettled,
               \A v \in Workers \ {w} : wpc'[v] = wpc[v] /\ wmsg'[v] = wmsg[v]
        PROVE  /\ Loose(e, Unsettled) => Loose(e, Unsettled)'
               /\ Loose(e, Unscheduled) => Loose(e, Unscheduled)'
    BY <1>2, <1>6, LooseFrame
  <1>7. wmsg[w] # NoEntry /\ task(w) = t =>
          /\ wmsg[w] \in pel /\ wmsg[w] \in Entry
          /\ \A v \in Workers : wmsg[v] = wmsg[w] => v = w
          /\ \A p \in Pools : ~ RecoverySpent(p, wmsg[w])
    BY <1>1, HeldPending DEF Held, HeldByWorker, RecoveryHolds, RecoverySpent, task
  <1>8. CASE Dequeue(w)
    <2>1. /\ store' = store
          /\ (stream \union pel)' = stream \union pel
          /\ wpc' = [wpc EXCEPT ![w] = "get"]
          /\ \E f : wmsg' = [wmsg EXCEPT ![w] = f]
      BY <1>8 DEF Dequeue, XReadGroup, Heads, Goto
    <2>2. wpc'[w] \in Unsettled
      BY <1>1, <2>1 DEF Unsettled
    <2> QED BY <1>5, <1>6, <2>1, <2>2
  <1>9. CASE StartRefused(w) \/ StartTask(w)
    <2>1. /\ UNCHANGED redisVars
          /\ \/ wpc' = [wpc EXCEPT ![w] = "idle"] /\ wmsg' = [wmsg EXCEPT ![w] = NoEntry]
             \/ wpc' = [wpc EXCEPT ![w] = "set_running"] /\ wmsg' = wmsg
      BY <1>9 DEF StartRefused, StartTask, Return, Goto
    <2>2. ASSUME NEW e \in stream \union pel
          PROVE  /\ wmsg'[w] = e => wpc'[w] \in Unsettled
                 /\ \A v \in Workers \ {w} : wpc'[v] = wpc[v] /\ wmsg'[v] = wmsg[v]
      BY <1>1, <2>1 DEF Unsettled
    <2> QED BY <1>5, <1>6, <2>1, <2>2 DEF redisVars
  <1>10. CASE GetMissing(w)
    <2>1. /\ task(w) # t
          /\ UNCHANGED <<store, stream, pel, wmsg>>
          /\ \E pc : wpc' = [wpc EXCEPT ![w] = pc]
      BY <1>4, <1>10 DEF GetMissing, Goto, redisVars, Exists
    <2>2. ASSUME NEW e \in stream \union pel, e.task = t
          PROVE  /\ wmsg'[w] # e
                 /\ \A v \in Workers \ {w} : wpc'[v] = wpc[v] /\ wmsg'[v] = wmsg[v]
      BY <1>1, <2>1, <2>2 DEF task
    <2> QED BY <1>5, <1>6, <2>1, <2>2
  <1>11. CASE SetRunning(w) \/ SetRetrying(w) \/ ScheduleSet(w)
    <2>1. PICK r, pc :
            /\ UNCHANGED <<stream, pel, wmsg>> /\ wmsg[w] # NoEntry
            /\ wpc' = [wpc EXCEPT ![w] = pc]
            /\ SetTask(task(w), r)
            /\ r \in Record
            /\ \/ r.state = "running" /\ pc = "execute"
               \/ r.state = "retrying" /\ pc \in {"sched_set", "sched_zadd"}
      <3>1. CASE SetRunning(w) \/ ScheduleSet(w)
        <4>1. wrec[w] \in Record /\ wmsg[w] # NoEntry
          BY <1>1, <3>1 DEF SetRunning, ScheduleSet, At, WorkerControl
        <4> QED BY <1>1, <3>1, <4>1 DEF SetRunning, ScheduleSet, At, WorkerControl, Goto
      <3>2. CASE SetRetrying(w)
        <4>1. wrec[w] \in Record /\ wrec[w].state = "running" /\ wmsg[w] \in Entry
              /\ CanRetry(wrec[w], MaxRetries[task(w)])
          BY <1>1, <3>2 DEF SetRetrying, HandlerReturns, At, WorkerControl
        <4>2. MaxRetries[task(w)] \in Nat
          BY <4>1, MaxRetriesAssumption DEF task, Entry
        <4>3. Fail(wrec[w]) \in Record
          BY <4>1, RecordOps
        <4>4. /\ ScheduleRetry(Fail(wrec[w]), MaxRetries[task(w)]) \in Record
              /\ ScheduleRetry(Fail(wrec[w]), MaxRetries[task(w)]).state = "retrying"
          BY <4>1, <4>2, <4>3, RecordOps, RecordStates
        <4> QED BY <3>2, <4>1, <4>4 DEF SetRetrying, FinishWith, Goto
      <3> QED BY <1>11, <3>1, <3>2
    <2>2. CASE t = task(w)
      <3>1. store'[t] = r /\ Exists(t)' /\ (r.state = "retrying" => Waiting(t)')
        BY <1>1, <2>1, <2>2 DEF SetTask, Exists, Waiting
      <3>2. wmsg[w] \in (stream \union pel)' /\ wmsg[w].task = t
        BY <1>7, <2>1, <2>2 DEF task
      <3>3. /\ r.state = "running" => Loose(wmsg[w], Unsettled)'
            /\ r.state = "retrying" => Loose(wmsg[w], Unscheduled)'
        BY <1>1, <1>2, <1>7, <2>1, <2>2 DEF Loose, Unsettled, Unscheduled
      <3> QED BY <2>1, <3>1, <3>2, <3>3, KeptByWrite
    <2>3. CASE t # task(w)
      <3>1. store'[t] = store[t]
        BY <1>1, <2>1, <2>3 DEF SetTask
      <3>2. ASSUME NEW e \in stream \union pel, e.task = t
            PROVE  /\ wmsg'[w] # e
                   /\ \A v \in Workers \ {w} : wpc'[v] = wpc[v] /\ wmsg'[v] = wmsg[v]
        BY <1>1, <2>1, <2>3, <3>2 DEF task
      <3> QED BY <1>5, <1>6, <2>1, <3>1, <3>2
    <2> QED BY <2>2, <2>3
  <1>12. CASE SetCompleted(w) \/ SetFailed(w)
    <2>1. wrec[w] \in Record /\ wrec[w].state = "running"
      BY <1>1, <1>12 DEF HandlerReturns, SetCompleted, SetFailed, At, WorkerControl
    <2>2. PICK r, pc : /\ UNCHANGED <<stream, pel, wmsg>>
                       /\ wpc' = [wpc EXCEPT ![w] = pc]
                       /\ SetTask(task(w), r)
                       /\ r \in Record
                       /\ IsFinal(r.state)
      BY <1>12, <2>1, RecordStates, RecordOps
      DEF SetCompleted, SetFailed, FinishWith, IsFinal, Goto
    <2>3. CASE t = task(w)
      <3>1. store'[t] = r
        BY <1>1, <2>2, <2>3 DEF SetTask
      <3>2. Exists(t)' /\ Settled(t)'
        BY <2>2, <3>1 DEF Exists, Settled
      <3> QED BY <3>2, KeptByWrite
    <2>4. CASE t # task(w)
      <3>1. store'[t] = store[t]
        BY <1>1, <2>2, <2>4 DEF SetTask
      <3>2. ASSUME NEW e \in stream \union pel, e.task = t
            PROVE  /\ wmsg'[w] # e
                   /\ \A v \in Workers \ {w} : wpc'[v] = wpc[v] /\ wmsg'[v] = wmsg[v]
        BY <1>1, <2>2, <2>4, <3>2 DEF task
      <3> QED BY <1>5, <1>6, <2>2, <3>1, <3>2
    <2> QED BY <2>3, <2>4
  \* From here on the worker's entry carries the task no longer, if it did before.
  <1>13. CASE ScheduleZAdd(w)
    <2>1. /\ UNCHANGED <<store, stream, pel, wmsg>>
          /\ wpc[w] = "sched_zadd" /\ wpc' = [wpc EXCEPT ![w] = "ack"]
          /\ zset' = zset \union {task(w)}
      BY <1>13 DEF ScheduleZAdd, At, Goto
    <2>2. ASSUME NEW e \in stream \union pel, wmsg[w] # e
          PROVE  /\ Loose(e, Unsettled) => Loose(e, Unsettled)'
                 /\ Loose(e, Unscheduled) => Loose(e, Unscheduled)'
      BY <1>1, <1>6, <2>1, <2>2
    <2>3. CASE t # task(w)
      <3>1. \A e \in stream \union pel : e.task = t => wmsg[w] # e
        BY <2>3 DEF task
      <3> QED BY <1>5, <2>1, <2>2, <3>1
    <2>4. CASE t = task(w)
      <3>1. ~ Loose(wmsg[w], Unsettled)
        BY <2>1 DEF Loose, Unsettled
      <3>2. t \notin OnHand("zrem")
        BY <2>1, <2>4 DEF Overtakes, OnHand, At
      <3>3. t \in (zset \ OnHand("zrem"))'
        BY <1>4, <2>1, <2>4, <3>2
      <3>4. Exists(t)' /\ (Settled(t) => Settled(t)') /\ (Waiting(t) => Waiting(t)')
        BY <1>4, <2>1 DEF Exists, Settled, Waiting
      <3>5. (\E e \in stream \union pel : e.task = t /\ Loose(e, Unsettled)) =>
              \E e \in (stream \union pel)' : e.task = t /\ Loose(e, Unsettled)'
        BY <2>1, <2>2, <3>1
      <3>6. \/ Settled(t) \/ InHand(t) \/ t \in OnHand("xadd") \/ Waiting(t)
            \/ \E e \in stream \union pel : e.task = t /\ Loose(e, Unsettled)
        BY KeptCases
      <3>7. t \in OnHand("xadd") => t \in OnHand("xadd")'
        BY <1>4
      <3> QED BY <1>4, <3>3, <3>4, <3>5, <3>6, <3>7, KeptByWrite
    <2> QED BY <2>3, <2>4
  <1>14. CASE DlqXAdd(w) \/ DlqSAdd(w) \/ Acknowledge(w) \/ Drop(w)
    <2>1. /\ UNCHANGED <<store, stream>>
          /\ wpc[w] \in {"dlq_xadd", "dlq_sadd", "ack", "drop"}
          /\ pel' = pel \/ pel' = pel \ {wmsg[w]}
          /\ wmsg' = wmsg \/ wmsg' = [wmsg EXCEPT ![w] = NoEntry]
          /\ \E pc : wpc' = [wpc EXCEPT ![w] = pc]
      BY <1>14 DEF DlqXAdd, DlqSAdd, Acknowledge, Drop, XAck, Return, At, Goto
    <2>2. ASSUME NEW e \in stream \union pel, Loose(e, Unsettled) \/ Loose(e, Unscheduled)
          PROVE  wmsg[w] # e
      BY <2>1, <2>2 DEF Loose, Unsettled, Unscheduled
    <2>3. ASSUME NEW e \in stream \union pel, wmsg[w] # e
          PROVE  /\ e \in (stream \union pel)'
                 /\ wmsg'[w] # e
                 /\ \A v \in Workers \ {w} : wpc'[v] = wpc[v] /\ wmsg'[v] = wmsg[v]
      BY <1>1, <2>1, <2>3
    <2>4. ASSUME NEW e \in stream \union pel, wmsg[w] # e
          PROVE  /\ e \in (stream \union pel)'
                 /\ Loose(e, Unsettled) => Loose(e, Unsettled)'
                 /\ Loose(e, Unscheduled) => Loose(e, Unscheduled)'
      BY <1>6, <2>3, <2>4
    <2> QED BY <1>5, <2>1, <2>2, <2>4
  <1> QED
    BY <1>8, <1>9, <1>10, <1>11, <1>12, <1>13, <1>14 DEF WorkerNext, WorkerStep

\* A recovery loop makes the record pending while it holds the entry, and replaces the
\* entry before it acknowledges it (recoverOrphanedTasks, Enqueue).
LEMMA KeptRecovery ==
  ASSUME SystemTypeInv, AdminHolding, NEW p \in Pools, RecoveryNext(p),
         UNCHANGED schedulerVars, UNCHANGED requestVars,
         NEW t \in Tasks \ discarded, IsKept(t)
  PROVE  IsKept(t)'
  <1> USE NoTaskAssumption, NoEntryAssumption
  <1>1. /\ TypeInv
        /\ store \in [Tasks -> Record \union {NoTask}]
        /\ stream \in SUBSET Entry /\ pel \in SUBSET Entry /\ lastId \in Nat
        /\ rpc \in [Pools -> RecoveryPc]
        /\ rcur \in [Pools -> Entry \union {NoEntry}]
        /\ rbatch \in [Pools -> SUBSET Claimed]
        /\ RecoveryControl
    BY DEF SystemTypeInv, TypeInv, TypeOK, RedisTypeOK, RecoveryTypeOK
  <1>2. UNCHANGED <<wpc, wmsg, spc, scur, zset>>
    BY DEF RecoveryNext, RecoveryStep, Claim, ReadMissing, ReadClaimed, RequeueSet,
           RequeueXAdd, RequeueAck, workerVars, schedulerVars, redisVars
  <1>3. Exists(t)
    BY DEF IsKept
  <1>4. ASSUME NEW e, \A q \in Pools : RecoverySpent(q, e)' => RecoverySpent(q, e)
        PROVE  /\ Loose(e, Unsettled) => Loose(e, Unsettled)'
               /\ Loose(e, Unscheduled) => Loose(e, Unscheduled)'
    BY <1>2, <1>4, LooseFrame
  <1>5. ASSUME store'[t] = store[t],
               \A e \in stream \union pel :
                 e.task = t =>
                   /\ Loose(e, Unsettled) => e \in (stream \union pel)' /\ Loose(e, Unsettled)'
                   /\ Loose(e, Unscheduled) =>
                        e \in (stream \union pel)' /\ Loose(e, Unscheduled)'
        PROVE  IsKept(t)'
    BY <1>2, <1>5, KeptBeside
  <1>6. CASE /\ UNCHANGED <<redisVars, rcur>>
             /\ \E pc \in {"scan", "get"} : rpc' = [rpc EXCEPT ![p] = pc]
    <2>1. \A e : \A q \in Pools : RecoverySpent(q, e)' => RecoverySpent(q, e)
      BY <1>1, <1>6 DEF RecoverySpent
    <2> QED BY <1>4, <1>5, <1>6, <2>1 DEF redisVars
  <1>7. CASE RequeueSet(p)
    <2>1. PICK b \in rbatch[p] :
            /\ SetTask(b.entry.task, PrepareForRequeue(b.rec, MaxRetries[b.entry.task]))
            /\ rcur' = [rcur EXCEPT ![p] = b.entry]
      BY <1>7 DEF RequeueSet
    <2>2. UNCHANGED <<stream, pel>> /\ rpc' = [rpc EXCEPT ![p] = "xadd"]
      BY <1>7 DEF RequeueSet
    <2>3. \A e : \A q \in Pools : RecoverySpent(q, e)' => RecoverySpent(q, e)
      BY <1>1, <2>1, <2>2 DEF RecoverySpent
    <2>4. CASE t # b.entry.task
      <3>1. store'[t] = store[t]
        BY <1>1, <2>1, <2>4 DEF SetTask
      <3> QED BY <1>4, <1>5, <2>2, <2>3, <3>1
    <2>5. CASE t = b.entry.task
      <3>1. b.entry \in Entry /\ RecoveryHolds(p, b.entry) /\ Held(b.entry)
        BY <1>1 DEF RecoveryHolds, InBatch, Held, Claimed
      <3>2. /\ b.entry \in pel
            /\ \A w \in Workers : wmsg[w] # b.entry
            /\ \A q \in Pools : RecoverySpent(q, b.entry) => q = p
        BY <1>1, <2>5, <3>1, HeldPending DEF RecoveryHolds, RecoverySpent
      <3>3. ~ RecoverySpent(p, b.entry)
        BY <1>7 DEF RequeueSet, RecoverySpent
      <3>4. Loose(b.entry, Unsettled)'
        BY <1>2, <2>3, <3>2, <3>3 DEF Loose
      <3>5. b.rec \in Record /\ MaxRetries[b.entry.task] \in Nat
        BY <1>1, MaxRetriesAssumption DEF Claimed, Entry
      <3>6. PrepareForRequeue(b.rec, MaxRetries[b.entry.task]) \in Record
        BY <3>5, RecordOps
      <3>7. Exists(t)'
        BY <1>1, <2>1, <2>5, <3>6 DEF SetTask, Exists
      <3> QED BY <2>2, <2>5, <3>2, <3>4, <3>7, KeptByWrite
    <2> QED BY <2>4, <2>5
  <1>8. CASE RequeueXAdd(p)
    <2>1. /\ UNCHANGED <<store, pel, rcur>>
          /\ rpc[p] = "xadd"
          /\ rpc' = [rpc EXCEPT ![p] = "ack"]
          /\ XAddTask(rcur[p].task)
          /\ rcur[p] \in Entry
      BY <1>1, <1>8 DEF RequeueXAdd, RecoveryControl
    <2>2. \A e : \A q \in Pools : RecoverySpent(q, e)' => RecoverySpent(q, e) \/ e = rcur[p]
      BY <1>1, <2>1 DEF RecoverySpent
    <2>3. CASE t # rcur[p].task
      <3>1. \A e \in stream \union pel : e.task = t => e # rcur[p] /\ e \in (stream \union pel)'
        BY <2>1, <2>3 DEF XAddTask
      <3> QED BY <1>4, <1>5, <2>1, <2>2, <3>1
    <2>4. CASE t = rcur[p].task
      <3>1. PICK n \in Entry : n = [id |-> lastId + 1, task |-> t] /\ n.id = lastId + 1
        <4>1. [id |-> lastId + 1, task |-> t] \in Entry
          BY <1>1 DEF Entry
        <4> QED BY <4>1
      <3>2. n \in (stream \union pel)' /\ n.task = t
        BY <2>1, <2>4, <3>1 DEF XAddTask
      <3>3. ~ Held(n)
        BY <1>1, <3>1, NewNotHeld
      <3>4. n # rcur[p]
        BY <3>3 DEF Held, RecoveryHolds
      <3>5. Loose(n, {})'
        BY <1>2, <2>2, <3>3, <3>4
        DEF Loose, Held, HeldByWorker, RecoveryHolds, RecoverySpent
      <3>6. Exists(t)'
        BY <1>3, <2>1 DEF Exists
      <3> QED BY <3>2, <3>5, <3>6, KeptByEntry
    <2> QED BY <2>3, <2>4
  <1>9. CASE RequeueAck(p)
    <2>1. /\ UNCHANGED <<store, stream>>
          /\ rpc[p] = "ack" /\ rpc' = [rpc EXCEPT ![p] = AfterItem(p)]
          /\ rcur' = [rcur EXCEPT ![p] = NoEntry]
          /\ pel' = pel \ {rcur[p]}
      BY <1>9 DEF RequeueAck, XAck
    <2>2. \A e : \A q \in Pools : RecoverySpent(q, e)' => RecoverySpent(q, e)
      BY <1>1, <2>1 DEF RecoverySpent, AfterItem
    <2>3. \A e : Loose(e, Unsettled) \/ Loose(e, Unscheduled) => e # rcur[p]
      BY <2>1 DEF Loose, RecoverySpent
    <2> QED BY <1>4, <1>5, <2>1, <2>2, <2>3
  <1> QED
    BY <1>6, <1>7, <1>8, <1>9
    DEF RecoveryNext, RecoveryStep, Claim, ReadMissing, ReadClaimed

\* A process that dies leaves its entries pending.
LEMMA KeptCrash ==
  ASSUME SystemTypeInv, NEW p \in Pools, Crash(p) \/ Restart(p),
         UNCHANGED schedulerVars, UNCHANGED requestVars, NEW t, IsKept(t)
  PROVE  IsKept(t)'
  <1> USE NoEntryAssumption
  <1>1. /\ TypeInv
        /\ stream \in SUBSET Entry /\ pel \in SUBSET Entry
        /\ wpc \in [Workers -> WorkerPc]
        /\ wmsg \in [Workers -> Entry \union {NoEntry}]
        /\ rpc \in [Pools -> RecoveryPc]
        /\ rcur \in [Pools -> Entry \union {NoEntry}]
    BY DEF SystemTypeInv, TypeInv, TypeOK, RedisTypeOK, WorkerTypeOK, RecoveryTypeOK
  <1>2. UNCHANGED <<redisVars, spc, scur>>
    BY DEF Crash, Restart, schedulerVars
  <1>3. /\ \A w \in Workers : wmsg'[w] # NoEntry => wmsg'[w] = wmsg[w] /\ wpc'[w] = wpc[w]
        /\ \A q \in Pools : rpc'[q] = "ack" => rpc[q] = "ack" /\ rcur'[q] = rcur[q]
    BY <1>1, CrashAssumption
    DEF Crash, Restart, SetPool, TypeInv, WorkerControl, StoppedTogether
  <1>4. ASSUME NEW e \in stream \union pel
        PROVE  /\ Loose(e, Unsettled) => Loose(e, Unsettled)'
               /\ Loose(e, Unscheduled) => Loose(e, Unscheduled)'
    <2>1. \A q \in Pools : RecoverySpent(q, e)' => RecoverySpent(q, e)
      BY <1>3 DEF RecoverySpent
    <2>2. e # NoEntry
      BY <1>1
    <2> QED BY <1>3, <2>1, <2>2, LooseFrame
  <1> QED BY <1>2, <1>4, KeptBeside DEF redisVars

\* A creation is answered when its entry or member is there; a cancel request settles
\* its task; an expired record takes its task out of the accepted ones.
LEMMA KeptApi ==
  ASSUME AdminTypeInv, AdminHolding, NewsInv, NEW x \in Tasks, ApiNext(x),
         UNCHANGED schedulerVars, UNCHANGED requestVars,
         NEW t \in Tasks, t \in accepted', t \in accepted => IsKept(t)
  PROVE  IsKept(t)'
  <1> USE NoTaskAssumption, NoTaskInHand, NoEntryAssumption
  <1>1. /\ TypeInv
        /\ store \in [Tasks -> Record \union {NoTask}]
        /\ stream \in SUBSET Entry /\ pel \in SUBSET Entry /\ lastId \in Nat
        /\ krec \in [Tasks -> Record \union {NoTask}]
        /\ accepted \in SUBSET Tasks
        /\ SchedulerControl
    BY DEF AdminTypeInv, SystemTypeInv, TypeInv, TypeOK, RedisTypeOK, ApiTypeOK
  <1>2. /\ UNCHANGED <<pel, wpc, wmsg, rpc, rcur, spc, scur>>
        /\ zset \subseteq zset'
        /\ stream' = stream \/ XAddTask(x)
        /\ accepted' \subseteq accepted \union {x}
    BY DEF ApiNext, ApiStep, Submit, EnqueueSet, EnqueueXAdd, CreateScheduledSet,
           CreateScheduledZAdd, AbortCreate, CancelRead, CancelSet, Expire, redisVars,
           workerVars, recoveryVars, schedulerVars
  <1>3. NewsOf(t) /\ \A u \in accepted : cpc[u] = "created"
    BY HeardTasks DEF NewsInv, NewsOf
  <1>4. \A e : Loose(e, Unsettled)' = Loose(e, Unsettled) /\ Loose(e, Unscheduled)' = Loose(e, Unscheduled)
    BY <1>2 DEF Loose, RecoverySpent
  <1>5. ASSUME t \in accepted, store'[t] = store[t] PROVE IsKept(t)'
    <2>1. stream \subseteq stream'
      BY <1>2 DEF XAddTask
    <2>2. \A e \in stream \union pel :
            e.task = t =>
              /\ Loose(e, Unsettled) => e \in (stream \union pel)' /\ Loose(e, Unsettled)'
              /\ Loose(e, Unscheduled) => e \in (stream \union pel)' /\ Loose(e, Unscheduled)'
      BY <1>2, <1>4, <2>1
    <2> QED BY <1>2, <1>5, <2>2, KeptBeside
  <1>6. CASE t # x
    <2>1. store'[t] = store[t] /\ t \in accepted
      BY <1>1, <1>2, <1>6
      DEF ApiNext, ApiStep, Submit, EnqueueSet, EnqueueXAdd, CreateScheduledSet,
          CreateScheduledZAdd, AbortCreate, CancelRead, CancelSet, Expire, redisVars,
          SetTask, DelTask
    <2> QED BY <1>5, <2>1
  <1>7. CASE t = x
    <2>1. CASE EnqueueXAdd(t)
      <3>1. /\ store' = store /\ XAddTask(t) /\ store[t] = NewRecord("pending")
        BY <1>3, <2>1 DEF EnqueueXAdd, NewsOf
      <3>2. PICK n \in Entry : n = [id |-> lastId + 1, task |-> t] /\ n.id = lastId + 1
        <4>1. [id |-> lastId + 1, task |-> t] \in Entry
          BY <1>1 DEF Entry
        <4> QED BY <4>1
      <3>3. n \in (stream \union pel)' /\ n.task = t
        BY <3>1, <3>2 DEF XAddTask
      <3>4. ~ Held(n)
        BY <1>1, <3>2, NewNotHeld
      <3>5. Loose(n, {})'
        BY <1>2, <3>4 DEF Loose, Held, HeldByWorker, RecoveryHolds, RecoverySpent
      <3>6. NewRecord("pending") \in Record
        BY DEF NewRecord, Record, State
      <3>7. Exists(t)'
        BY <3>1, <3>6 DEF Exists
      <3> QED BY <3>3, <3>5, <3>7, KeptByEntry
    <2>2. CASE CreateScheduledZAdd(t)
      <3>1. /\ store' = store /\ t \in zset' /\ cpc[t] # "created"
            /\ store[t] = NewRecord("scheduled")
        BY <1>3, <2>2 DEF CreateScheduledZAdd, NewsOf
      <3>2. \A s \in Schedulers : scur[s] # t
        BY <1>1, <1>3, <3>1 DEF NewsOf, Unknown, Unheard, SchedulerControl
      <3>3. t \in (zset \ OnHand("zrem"))'
        BY <1>2, <3>1, <3>2 DEF OnHand
      <3>4. NewRecord("scheduled") \in Record /\ NewRecord("scheduled").state = "scheduled"
        BY DEF NewRecord, Record, State
      <3>5. Exists(t)' /\ Waiting(t)'
        BY <3>1, <3>4 DEF Exists, Waiting
      <3> QED BY <3>3, <3>5, KeptByWrite
    <2>3. CASE CancelSet(t)
      <3>1. store'[t] = krec[t] /\ krec[t] # NoTask /\ krec[t].state = "canceled"
        BY <1>1, <1>3, <2>3 DEF CancelSet, SetTask, NewsOf
      <3>2. Exists(t)' /\ Settled(t)'
        BY <3>1 DEF Exists, Settled, IsFinal
      <3> QED BY <3>2, KeptByWrite
    <2>4. CASE Expire(t)
      BY <2>4 DEF Expire
    <2>5. CASE EnqueueSet(t) \/ CreateScheduledSet(t)
      BY <1>3, <2>5 DEF EnqueueSet, CreateScheduledSet
    <2>6. CASE Submit(t) \/ AbortCreate(t) \/ CancelRead(t)
      BY <1>5, <2>6 DEF Submit, AbortCreate, CancelRead, redisVars
    <2> QED BY <1>7, <2>1, <2>2, <2>3, <2>4, <2>5, <2>6 DEF ApiNext, ApiStep
  <1> QED BY <1>6, <1>7

\* A scheduler step with the others idle (SchedulerExclusion) leaves a task alone that
\* the scheduler has not in hand, before or after.
LEMMA KeptByScheduler ==
  ASSUME SchedulerTypeOK, NEW s \in Schedulers, NEW t, IsKept(t), UNCHANGED requestVars,
         UNCHANGED <<pel, wpc, wmsg, rpc, rcur>>,
         stream \subseteq stream', store'[t] = store[t], t \in zset' <=> t \in zset,
         \A r \in Schedulers \ {s} : spc'[r] = spc[r] /\ scur'[r] = scur[r],
         \/ scur[s] # t /\ scur'[s] # t
         \/ spc'[s] = spc[s] /\ scur'[s] = scur[s]
  PROVE  IsKept(t)'
  <1>1. /\ t \in OnHand("xadd") => t \in OnHand("xadd")'
        /\ t \in zset \ OnHand("zrem") => t \in (zset \ OnHand("zrem"))'
        /\ InHand(t) => InHand(t)'
    BY DEF OnHand, InHand, requestVars
  <1>2. \A e : /\ Loose(e, Unsettled) => Loose(e, Unsettled)'
               /\ Loose(e, Unscheduled) => Loose(e, Unscheduled)'
    BY DEF Loose, RecoverySpent
  <1> QED BY <1>1, <1>2, KeptFrame

\* The task a scheduler has in hand is pending before it gets an entry, and has the
\* entry before it leaves the sorted set (activateTask).
LEMMA KeptScheduler ==
  ASSUME SystemTypeInv, LockInv, AdminHolding, SchedulerMoves, UNCHANGED requestVars,
         expiries = 0, schedCrashes = 0, schedCrashes' = 0,
         \A r \in Schedulers : sbatch[r] \subseteq zset
  PROVE  /\ \A r \in Schedulers : sbatch'[r] \subseteq zset'
         /\ \A t \in Tasks : IsKept(t) => IsKept(t)'
  <1> USE NoTaskAssumption, NoTaskInHand, NoEntryAssumption
  <1> DEFINE Goal == /\ \A r \in Schedulers : sbatch'[r] \subseteq zset'
                     /\ \A t \in Tasks : IsKept(t) => IsKept(t)'
  <1>1. /\ TypeInv
        /\ store \in [Tasks -> Record \union {NoTask}]
        /\ stream \in SUBSET Entry /\ pel \in SUBSET Entry /\ lastId \in Nat
        /\ zset \in SUBSET Tasks
        /\ spc \in [Schedulers -> SchedulerPc]
        /\ sbatch \in [Schedulers -> SUBSET Tasks]
        /\ srec \in [Schedulers -> Record \union {NoTask}]
        /\ scur \in [Schedulers -> Tasks \union {NoTask}]
        /\ SchedulerControl /\ SchedulerTypeOK
    BY DEF SystemTypeInv, TypeInv, TypeOK, RedisTypeOK, SchedulerTypeOK
  <1>2. UNCHANGED <<pel, wpc, wmsg, rpc, rcur>>
    BY SchedulerWrites DEF workerVars, recoveryVars
  <1>3. \A t : (IsKept(t) => Exists(t)) /\ (InHand(t) => InHand(t)')
    BY DEF IsKept, InHand, requestVars
  <1>4. \A e : Loose(e, Unsettled)' = Loose(e, Unsettled)
               /\ Loose(e, Unscheduled)' = Loose(e, Unscheduled)
    BY <1>2 DEF Loose, RecoverySpent
  <1>5. CASE LockExpires
    <2>1. UNCHANGED <<redisVars, spc, scur, sbatch>>
      BY <1>5 DEF LockExpires
    <2>2. ASSUME NEW t \in Tasks, IsKept(t) PROVE IsKept(t)'
      BY <1>4, <2>1, <2>2, KeptBeside DEF redisVars
    <2> QED BY <2>1, <2>2 DEF redisVars
  <1>6. ASSUME NEW s \in Schedulers, SchedulerStep(s) PROVE Goal
    <2>1. CASE TakeLock(s) \/ Unlock(s)
      <3>1. /\ UNCHANGED <<redisVars, scur, sbatch>> /\ scur[s] = NoTask
            /\ \A r \in Schedulers \ {s} : spc'[r] = spc[r]
        BY <1>1, <2>1 DEF TakeLock, Unlock, SchedGoto, SchedulerControl
      <3>2. ASSUME NEW t \in Tasks, IsKept(t) PROVE IsKept(t)'
        <4>1. scur[s] # t
          BY <3>1
        <4> QED BY <1>1, <1>2, <3>1, <3>2, <4>1, KeptByScheduler DEF redisVars
      <3> QED BY <3>1, <3>2 DEF redisVars
    <2>2. CASE ~ TakeLock(s)
      <3>1. spc[s] # "idle"
        BY <1>6, <2>2
        DEF SchedulerStep, ReadDue, ReadWaiting, ActivateSet, ActivateXAdd, ActivateZRem, Unlock
      <3>2. \A r \in Schedulers \ {s} : spc[r] = "idle" /\ scur[r] = NoTask /\ sbatch[r] = {}
        BY <1>1, <3>1 DEF LockInv, SchedulerExclusion, SchedulerControl
      <3>3. ASSUME NEW due \in SUBSET zset, ReadDue(s, due) PROVE Goal
        <4>1. /\ UNCHANGED <<redisVars, scur>> /\ scur[s] = NoTask
              /\ sbatch' = [sbatch EXCEPT ![s] = due]
              /\ \A r \in Schedulers \ {s} : spc'[r] = spc[r]
          BY <1>1, <3>3 DEF ReadDue, SchedGoto, SchedulerControl
        <4>2. ASSUME NEW t \in Tasks, IsKept(t) PROVE IsKept(t)'
          <5>1. scur[s] # t
            BY <4>1
          <5> QED BY <1>1, <1>2, <4>1, <4>2, <5>1, KeptByScheduler DEF redisVars
        <4>3. \A r \in Schedulers : sbatch'[r] \subseteq zset'
          BY <1>1, <4>1 DEF redisVars
        <4> QED BY <4>2, <4>3
      <3>4. ASSUME NEW u \in Tasks, ReadWaiting(s, u) PROVE Goal
        <4>1. /\ UNCHANGED <<redisVars, sbatch>> /\ scur[s] = NoTask
              /\ scur' = [scur EXCEPT ![s] = u]
              /\ spc' = [spc EXCEPT ![s] = IF Waiting(u) THEN "set" ELSE "zrem"]
              /\ spc[s] = "next"
          BY <1>1, <3>4 DEF ReadWaiting, SchedGoto, SchedulerControl
        <4>2. \A t \in Tasks : t \in OnHand("xadd") => t \in OnHand("xadd")'
          BY <1>1, <4>1 DEF OnHand
        <4>3. ASSUME NEW t \in Tasks, IsKept(t) PROVE IsKept(t)'
          <5>1. CASE t # u
            <6>1. scur[s] # t /\ scur'[s] # t
              BY <1>1, <4>1, <5>1
            <6> QED BY <1>1, <1>2, <4>1, <4>3, <5>1, <6>1, KeptByScheduler DEF redisVars
          <5>2. CASE t = u /\ Waiting(u)
            <6>1. t \in zset \ OnHand("zrem") => t \in (zset \ OnHand("zrem"))'
              BY <1>1, <3>2, <4>1, <5>2 DEF OnHand, redisVars
            <6> QED BY <1>3, <1>4, <4>1, <4>2, <4>3, <6>1, KeptFrame DEF redisVars
          <5>3. CASE t = u /\ ~ Waiting(u)
            <6>1. Exists(t)' /\ (Settled(t) => Settled(t)')
              BY <1>3, <4>1, <4>3 DEF Exists, Settled, redisVars
            <6>2. \/ Settled(t) \/ InHand(t) \/ t \in OnHand("xadd")
                  \/ \E e \in stream \union pel : e.task = t /\ Loose(e, Unsettled)
              BY <4>3, <5>3, KeptCases
            <6>3. (\E e \in stream \union pel : e.task = t /\ Loose(e, Unsettled)) =>
                    \E e \in (stream \union pel)' : e.task = t /\ Loose(e, Unsettled)'
              BY <1>4, <4>1 DEF redisVars
            <6> QED BY <1>3, <4>2, <6>1, <6>2, <6>3, KeptByWrite
          <5> QED BY <5>1, <5>2, <5>3
        <4> QED BY <4>1, <4>3 DEF redisVars
      <3>5. CASE ActivateSet(s)
        <4>1. /\ UNCHANGED <<stream, zset, sbatch, scur>>
              /\ spc' = [spc EXCEPT ![s] = "xadd"]
              /\ SetTask(scur[s], srec[s])
              /\ srec[s] \in Record /\ scur[s] \in Tasks
          BY <1>1, <3>5 DEF ActivateSet, SchedGoto, SchedulerControl
        <4>2. ASSUME NEW t \in Tasks, IsKept(t) PROVE IsKept(t)'
          <5>1. CASE t = scur[s]
            <6>1. Exists(t)'
              BY <1>1, <4>1, <5>1 DEF SetTask, Exists
            <6>2. t \in OnHand("xadd")'
              BY <1>1, <4>1, <5>1 DEF OnHand
            <6> QED BY <6>1, <6>2, KeptByWrite
          <5>2. CASE t # scur[s]
            <6>1. store'[t] = store[t]
              BY <1>1, <4>1, <5>2 DEF SetTask
            <6> QED BY <1>1, <1>2, <4>1, <4>2, <5>2, <6>1, KeptByScheduler
          <5> QED BY <5>1, <5>2
        <4> QED BY <4>1, <4>2
      <3>6. CASE ActivateXAdd(s)
        <4>1. /\ UNCHANGED <<store, zset, sbatch, scur>>
              /\ spc[s] = "xadd" /\ spc' = [spc EXCEPT ![s] = "zrem"]
              /\ XAddTask(scur[s]) /\ scur[s] \in Tasks
          BY <1>1, <3>6 DEF ActivateXAdd, SchedGoto, SchedulerControl
        <4>2. PICK n \in Entry : n = [id |-> lastId + 1, task |-> scur[s]] /\ n.id = lastId + 1
          <5>1. [id |-> lastId + 1, task |-> scur[s]] \in Entry
            BY <1>1, <4>1 DEF Entry
          <5> QED BY <5>1
        <4>3. n \in (stream \union pel)' /\ n.task = scur[s]
          BY <4>1, <4>2 DEF XAddTask
        <4>4. ~ Held(n)
          BY <1>1, <4>2, NewNotHeld
        <4>5. Loose(n, {})'
          BY <1>2, <4>4 DEF Loose, Held, HeldByWorker, RecoveryHolds, RecoverySpent
        <4>6. ASSUME NEW t \in Tasks, IsKept(t) PROVE IsKept(t)'
          <5>1. CASE t = scur[s]
            <6>1. Exists(t)'
              BY <1>3, <4>1, <4>6 DEF Exists
            <6> QED BY <4>3, <4>5, <5>1, <6>1, KeptByEntry
          <5>2. CASE t # scur[s]
            <6>1. stream \subseteq stream'
              BY <4>1 DEF XAddTask
            <6> QED BY <1>1, <1>2, <4>1, <4>6, <5>2, <6>1, KeptByScheduler
          <5> QED BY <5>1, <5>2
        <4> QED BY <4>1, <4>6
      <3>7. CASE ActivateZRem(s)
        <4>1. /\ UNCHANGED <<store, stream>>
              /\ zset' = zset \ {scur[s]}
              /\ sbatch' = [sbatch EXCEPT ![s] = @ \ {scur[s]}]
              /\ scur' = [scur EXCEPT ![s] = NoTask]
              /\ spc[s] = "zrem" /\ \E pc \in {"next", "unlock"} : spc' = [spc EXCEPT ![s] = pc]
          BY <3>7 DEF ActivateZRem, SchedGoto
        <4>2. \A r \in Schedulers : sbatch'[r] \subseteq zset'
          BY <1>1, <3>2, <4>1
        <4>3. ASSUME NEW t \in Tasks, IsKept(t) PROVE IsKept(t)'
          <5>1. CASE t # scur[s]
            <6>1. scur'[s] # t
              BY <1>1, <4>1
            <6> QED BY <1>1, <1>2, <4>1, <4>3, <5>1, <6>1, KeptByScheduler
          <5>2. CASE t = scur[s]
            <6>1. t \in OnHand("zrem")
              BY <4>1, <5>2 DEF OnHand
            <6>2. t \in OnHand("xadd") => t \in OnHand("xadd")'
              BY <1>1, <4>1 DEF OnHand
            <6> QED BY <1>2, <1>3, <1>4, <4>1, <4>3, <6>1, <6>2, KeptFrame
          <5> QED BY <5>1, <5>2
        <4> QED BY <4>2, <4>3
      <3> QED BY <1>6, <2>1, <2>2, <3>3, <3>4, <3>5, <3>6, <3>7 DEF SchedulerStep
    <2> QED BY <2>1, <2>2
  <1>7. ASSUME NEW s \in Schedulers, SchedulerCrash(s) PROVE FALSE
    BY <1>7 DEF SchedulerCrash
  <1> QED BY <1>5, <1>6, <1>7 DEF SchedulerMoves

\* The rest of the system keeps what it has accepted.
LEMMA KeptSystem ==
  ASSUME AdminTypeInv, AdminControl, LockInv, AdminHolding, NewsInv, KeptInv, Quiet, Quiet',
         (SystemNext /\ Alongside) \/ UNCHANGED adminVars, [AdminNext]_adminVars
  PROVE  KeptInv'
  <1> USE NoTaskAssumption
  <1>1. /\ SystemTypeInv
        /\ store \in [Tasks -> Record \union {NoTask}]
        /\ krec \in [Tasks -> Record \union {NoTask}]
        /\ accepted \in SUBSET Tasks
        /\ \A o \in Operators : apc[o] \in RetryPc => job[o] \in Job
    BY DEF AdminTypeInv, SystemTypeInv, TypeInv, TypeOK, RedisTypeOK, ApiTypeOK
  <1>2. [SystemNext]_systemVars /\ UNCHANGED requestVars
    BY DEF Alongside, adminVars
  <1>3. /\ races = 0 /\ races' = 0 /\ expiries = 0 /\ schedCrashes = 0 /\ schedCrashes' = 0
        /\ refusals = 0 \/ (crashes = 0 /\ crashes' = 0)
        /\ refusals \in Nat
    <2>1. refusals' = refusals
      BY <1>2 DEF requestVars
    <2> QED BY <2>1, DisturbancesGrow, AdminAssumption DEF AdminTypeInv
  <1>4. /\ \A t \in accepted \ discarded : IsKept(t) \/ (refusals > 0 /\ StaysListed(t))
        /\ \A o \in Operators : apc[o] = "xadd" => Exists(job[o].task)
        /\ \A s \in Schedulers : sbatch[s] \subseteq zset
    BY DEF KeptInv
  <1>5. ASSUME NEW t \in Tasks, refusals > 0, StaysListed(t) PROVE refusals' > 0 /\ StaysListed(t)'
    <2>1. crashes' = crashes
      BY <1>3, <1>5
    <2>2. StaysListed(t)'
      BY <1>2, <1>5, <2>1, StaysSystem
    <2> QED BY <1>2, <1>5, <2>2 DEF requestVars
  <1>6. ASSUME \A t \in Tasks :
                 t \in accepted' /\ t \notin discarded /\ (t \in accepted => IsKept(t)) => IsKept(t)',
               \A t \in Tasks : Exists(t) /\ RequestOn(t) => Exists(t)',
               \A s \in Schedulers : sbatch'[s] \subseteq zset',
               accepted' \in SUBSET Tasks
        PROVE  KeptInv'
    <2>1. \A t \in accepted' \ discarded' : IsKept(t)' \/ (refusals' > 0 /\ StaysListed(t)')
      <3> TAKE t \in accepted' \ discarded'
      <3>1. t \in Tasks /\ t \notin discarded
        BY <1>2, <1>6 DEF requestVars
      <3>2. (t \in accepted => IsKept(t)) \/ (refusals > 0 /\ StaysListed(t))
        BY <1>4, <3>1
      <3> QED BY <1>5, <1>6, <3>1, <3>2
    <2>2. ASSUME NEW o \in Operators, apc'[o] = "xadd" PROVE Exists(job[o].task)'
      <3>1. PICK t : t = job[o].task
        OBVIOUS
      <3>2. apc[o] = "xadd" /\ job'[o].task = t
        BY <1>2, <2>2, <3>1 DEF requestVars
      <3>3. t \in Tasks /\ Exists(t) /\ RequestOn(t)
        BY <1>1, <1>4, <3>1, <3>2 DEF RequestOn, AtTask, RetryPc, Job
      <3>4. Exists(t)'
        BY <1>6, <3>3
      <3> QED BY <3>2, <3>4 DEF Exists
    <2> QED BY <1>6, <2>1, <2>2 DEF KeptInv
  <1>7. ASSUME PoolsMove \/ SchedulerMoves \/ UNCHANGED systemVars,
               \A t \in Tasks \ discarded : IsKept(t) => IsKept(t)',
               \A s \in Schedulers : sbatch'[s] \subseteq zset'
        PROVE  KeptInv'
    <2>1. UNCHANGED apiVars /\ \A t \in Tasks : store'[t] = store[t] \/ store'[t] # NoTask
      BY <1>7, TouchedTasks
    <2>2. accepted' = accepted
      BY <2>1 DEF apiVars
    <2>3. \A t \in Tasks : Exists(t) /\ RequestOn(t) => Exists(t)'
      BY <2>1 DEF Exists
    <2> QED BY <1>1, <1>6, <1>7, <2>2, <2>3
  <1>8. ASSUME NEW w \in Workers, SystemWorkerNext(w) PROVE KeptInv'
    <2>1. ~ Overtakes(w) /\ WorkerNext(w) /\ UNCHANGED schedulerVars
      BY <1>3, <1>8 DEF SystemWorkerNext
    <2>2. zset \subseteq zset' /\ sbatch' = sbatch
      BY <2>1
      DEF WorkerNext, WorkerStep, Dequeue, GetMissing, Drop, StartRefused, StartTask, SetRunning,
          SetCompleted, SetRetrying, SetFailed, FinishWith, ScheduleSet, ScheduleZAdd, DlqXAdd,
          DlqSAdd, Acknowledge, redisVars, schedulerVars
    <2>3. \A t \in Tasks \ discarded : IsKept(t) => IsKept(t)'
      BY <1>1, <1>2, <2>1, KeptWorker
    <2> QED BY <1>4, <1>7, <2>1, <2>2, <2>3 DEF PoolsMove
  <1>9. ASSUME NEW p \in Pools, SystemPoolNext(p) PROVE KeptInv'
    <2>1. (RecoveryNext(p) \/ Crash(p) \/ Restart(p)) /\ UNCHANGED schedulerVars
      BY <1>9 DEF SystemPoolNext
    <2>2. zset' = zset /\ sbatch' = sbatch
      BY <2>1
      DEF RecoveryNext, RecoveryStep, Claim, ReadMissing, ReadClaimed, RequeueSet, RequeueXAdd,
          RequeueAck, Crash, Restart, redisVars, schedulerVars
    <2>3. \A t \in Tasks \ discarded : IsKept(t) => IsKept(t)'
      BY <1>1, <1>2, <2>1, KeptRecovery, KeptCrash
    <2> QED BY <1>4, <1>7, <2>1, <2>2, <2>3 DEF PoolsMove
  <1>10. CASE SchedulerMoves
    BY <1>1, <1>2, <1>3, <1>4, <1>7, <1>10, KeptScheduler
  <1>11. ASSUME NEW x \in Tasks, SystemApiNext(x), Alongside PROVE KeptInv'
    <2>1. ApiNext(x) /\ UNCHANGED schedulerVars
      BY <1>11 DEF SystemApiNext
    <2>2. \A t \in Tasks :
            t \in accepted' /\ t \notin discarded /\ (t \in accepted => IsKept(t)) => IsKept(t)'
      BY <1>2, <2>1, KeptApi
    <2>3. ASSUME NEW t \in Tasks, Exists(t), RequestOn(t) PROVE Exists(t)'
      <3>1. CASE Expire(x)
        <4>1. t # x
          BY <1>11, <2>3, <3>1 DEF Alongside, Expire
        <4> QED BY <1>1, <2>3, <3>1, <4>1 DEF Expire, DelTask, Exists
      <3>2. CASE ~ Expire(x)
        <4>1. \A s \in State : NewRecord(s) \in Record
          BY DEF NewRecord, Record
        <4>2. NewRecord("pending") # NoTask /\ NewRecord("scheduled") # NoTask
          BY <4>1 DEF State
        <4> QED
          BY <1>1, <2>1, <2>3, <3>2, <4>2
          DEF ApiNext, ApiStep, Submit, EnqueueSet, EnqueueXAdd, CreateScheduledSet,
              CreateScheduledZAdd, AbortCreate, CancelRead, CancelSet, redisVars, SetTask, Exists
      <3> QED BY <3>1, <3>2
    <2>4. /\ zset \subseteq zset' /\ sbatch' = sbatch
          /\ accepted' \subseteq accepted \union {x}
      BY <2>1
      DEF ApiNext, ApiStep, Submit, EnqueueSet, EnqueueXAdd, CreateScheduledSet,
          CreateScheduledZAdd, AbortCreate, CancelRead, CancelSet, Expire, redisVars, schedulerVars
    <2>5. accepted' \in SUBSET Tasks /\ \A s \in Schedulers : sbatch'[s] \subseteq zset'
      BY <1>1, <1>4, <2>4
    <2> QED BY <1>6, <2>2, <2>3, <2>5
  <1>12. CASE UNCHANGED adminVars
    <2>1. UNCHANGED systemVars
      BY <1>12 DEF adminVars
    <2>2. ASSUME NEW t \in Tasks, IsKept(t) PROVE IsKept(t)'
      <3>1. UNCHANGED <<redisVars, wpc, wmsg, rpc, rcur, spc, scur>>
        BY <2>1 DEF systemVars, vars, workerVars, recoveryVars, schedulerVars
      <3>2. \A e : /\ Loose(e, Unsettled)' = Loose(e, Unsettled)
                   /\ Loose(e, Unscheduled)' = Loose(e, Unscheduled)
        BY <3>1 DEF Loose, RecoverySpent
      <3> QED BY <1>2, <2>2, <3>1, <3>2, KeptBeside DEF redisVars
    <2>3. zset' = zset /\ sbatch' = sbatch
      BY <2>1 DEF systemVars, vars, redisVars, schedulerVars
    <2> QED BY <1>4, <1>7, <2>1, <2>2, <2>3
  <1> QED
    BY <1>8, <1>9, <1>10, <1>11, <1>12 DEF SystemNext, SchedulerNext, SchedulerMoves

\* The order of the commands of a request.
LEMMA NextCommands ==
  ASSUME AdminTypeInv, AdminControl, NEW o \in Operators, OperatorMoves(o)
  PROVE  /\ apc'[o] = "xadd" => RetrySet(o)
         /\ apc'[o] = "xdel" => RetryXAdd(o) /\ job' = job
         /\ apc[o] \in {"update", "set", "xadd", "cleanup"} =>
              \/ UpdateTask(o) \/ RetrySet(o) \/ RetryXAdd(o) \/ Cleanup(o)
              \/ Abandon(o) \/ ItemRefused(o) \/ XAddRefused(o)
  <1>1. apc \in [Operators -> AdminPc] /\ todo \in [Operators -> SUBSET Entry]
    BY DEF AdminTypeInv
  <1> USE DEF AdminGoto, EndItem
  <1>2. CASE UpdateTask(o) \/ RetrySet(o) \/ XAddRefused(o) \/ Abandon(o)
    BY <1>1, <1>2 DEF UpdateTask, RetrySet, XAddRefused, Abandon
  <1>3. CASE RetryXAdd(o)
    BY <1>1, <1>3 DEF RetryXAdd
  <1>4. CASE Cleanup(o) \/ ItemRefused(o)
    BY <1>1, <1>4 DEF Cleanup, ItemRefused
  <1>5. CASE RemoveXDel(o) \/ RemoveSRem(o) \/ ClearSet(o) \/ PurgeGroup(o)
    BY <1>1, <1>5 DEF RemoveXDel, RemoveSRem, ClearSet, PurgeGroup, Work
  <1>6. CASE RetryNext(o)
    <2>1. apc'[o] \in {"set", "idle", "next"} /\ apc[o] = "next"
      BY <1>1, <1>6 DEF RetryNext, Find, Work
    <2> QED BY <2>1
  <1>7. ASSUME NEW t \in Tasks, RetryOne(o, t) \/ RetryTask(o, t)
        PROVE  apc[o] = "idle" /\ apc'[o] \in {"set", "update"}
    BY <1>1, <1>7 DEF RetryOne, RetryTask, Find, Begin
  <1>8. CASE RetryAll(o) \/ ClearStream(o)
    BY <1>1, <1>8 DEF RetryAll, ClearStream, Begin
  <1>9. ASSUME NEW q \in Queues, PurgeDel(o, q) PROVE apc[o] = "idle" /\ apc'[o] = "group"
    BY <1>1, <1>9 DEF PurgeDel, Begin
  <1> QED
    BY <1>2, <1>3, <1>4, <1>5, <1>6, <1>7, <1>8, <1>9
    DEF OperatorMoves, NewRequest, OperatorStep

\* An entry that stays is removed by nobody but a request that has added another one to
\* the stream of the task.
LEMMA StaysOperator ==
  ASSUME AdminTypeInv, AdminControl, NEW o \in Operators, OperatorMoves(o),
         NEW t, t \notin discarded', StaysListed(t), ~ (RetryXAdd(o) /\ job[o].task = t)
  PROVE  StaysListed(t)'
  <1> USE NoEntryAssumption
  <1>1. /\ UNCHANGED <<wpc, wmsg>>
        /\ \A e \in dlq : e \in dlq' \/ e.task \in discarded' \/ (apc[o] = "xdel" /\ e = job[o].entry)
        /\ dlq \in SUBSET Entry
    BY OperatorWrites
    DEF OutsideRedis, workerVars, AdminTypeInv, SystemTypeInv, TypeInv, TypeOK, RedisTypeOK
  <1>2. CASE \E w \in Workers : At(w, "dlq_xadd") /\ task(w) = t
    BY <1>1, <1>2 DEF StaysListed, At, task
  <1>3. ASSUME NEW n \in dlq, n.task = t, IsLeft(n, {"xdel"}) PROVE StaysListed(t)'
    <2>1. n \in dlq'
      BY <1>1, <1>3 DEF IsLeft
    <2>2. ASSUME apc'[o] = "xdel" PROVE job'[o].entry # n
      <3>1. RetryXAdd(o) /\ job' = job
        BY <2>2, NextCommands
      <3>2. job[o].task # t /\ apc[o] \in RetryPc
        BY <3>1 DEF RetryXAdd, Work, RetryPc
      <3>3. job[o].entry # NoEntry => job[o].entry.task = job[o].task
        BY <3>2 DEF AdminControl
      <3>4. n # NoEntry
        BY <1>1
      <3> QED BY <1>3, <3>1, <3>2, <3>3, <3>4
    <2>3. \A q \in Operators : q # o => apc'[q] = apc[q] /\ job'[q] = job[q]
      BY RequestIsAbout
    <2>4. IsLeft(n, {"xdel"})'
      BY <1>3, <2>2, <2>3 DEF IsLeft
    <2> QED BY <1>3, <2>1, <2>4 DEF StaysListed
  <1> QED BY <1>2, <1>3 DEF StaysListed

\* A request makes the record pending, adds the entry and only then takes the entry of
\* the dead-letter stream away; cut short, it leaves that entry behind.
LEMMA KeptOperator ==
  ASSUME AdminTypeInv, AdminControl, AdminHolding, NewsInv, RetriesListed, KeptInv,
         Quiet, Quiet', NEW o \in Operators, OperatorMoves(o), [AdminNext]_adminVars
  PROVE  KeptInv'
  <1> USE NoTaskAssumption, NoEntryAssumption
  <1>1. /\ TypeInv
        /\ store \in [Tasks -> Record \union {NoTask}]
        /\ stream \in SUBSET Entry /\ pel \in SUBSET Entry /\ lastId \in Nat
        /\ accepted \in SUBSET Tasks
        /\ apc \in [Operators -> AdminPc]
        /\ \A q \in Operators : apc[q] \in RetryPc => job[q] \in Job
        /\ refusals \in Nat
    BY AdminAssumption
    DEF AdminTypeInv, SystemTypeInv, TypeInv, TypeOK, RedisTypeOK, ApiTypeOK
  <1>2. /\ UNCHANGED <<wpc, wmsg, rpc, rcur, spc, scur, sbatch, zset, crashes>>
        /\ discarded \subseteq discarded'
        /\ \A e \in (stream \union pel) : e \in (stream \union pel)' \/ e.task \in discarded'
        /\ refusals' = refusals \/ refusals' = refusals + 1
    BY OperatorWrites DEF OutsideRedis, workerVars, recoveryVars, schedulerVars
  <1>3. /\ \A t \in accepted \ discarded : IsKept(t) \/ (refusals > 0 /\ StaysListed(t))
        /\ \A q \in Operators : apc[q] = "xadd" => Exists(job[q].task)
        /\ \A s \in Schedulers : sbatch[s] \subseteq zset
    BY DEF KeptInv
  <1>4. \A q \in Operators : q # o => apc'[q] = apc[q] /\ job'[q] = job[q]
    BY RequestIsAbout
  <1>5. /\ refusals > 0 => requests <= 1
        /\ refusals' > 0 => crashes = 0 /\ requests <= 1
        /\ refusals > 0 => refusals' > 0
    BY <1>1, <1>2, DisturbancesGrow
  <1>6. \A e : /\ Loose(e, Unsettled)' = Loose(e, Unsettled)
               /\ Loose(e, Unscheduled)' = Loose(e, Unscheduled)
    BY <1>2 DEF Loose, RecoverySpent
  <1>7. \/ store' = store
        \/ apc[o] \in {"update", "set"} /\ SetTask(job[o].task, job[o].rec)
        \/ apc[o] = "cleanup" /\ DelTask(job[o].task)
    BY OperatorWrites
  <1>8. apc[o] \in {"update", "set", "xadd", "cleanup"} => job[o].task \in Tasks /\ job[o].rec \in Record
    BY <1>1 DEF RetryPc, Job
  \* What a request at the XADD needs.
  <1>9. ASSUME NEW q \in Operators, apc'[q] = "xadd" PROVE Exists(job[q].task)'
    <2>1. CASE q = o
      <3>1. apc[o] = "set" /\ SetTask(job[o].task, job[o].rec) /\ job' = job
        BY <1>9, <2>1, NextCommands DEF RetrySet, Work
      <3> QED BY <1>1, <1>8, <2>1, <3>1 DEF SetTask, Exists
    <2>2. CASE q # o
      <3>1. apc[q] = "xadd" /\ job'[q] = job[q]
        BY <1>4, <1>9, <2>2
      <3>2. PICK t \in Tasks : t = job[q].task
        BY <1>1, <3>1 DEF RetryPc, Job
      <3>3. Exists(t)
        BY <1>3, <3>1, <3>2
      <3>4. apc[o] # "cleanup"
        BY <1>5, <2>2, <3>1 DEF AdminControl
      <3>5. Exists(t)'
        BY <1>1, <1>7, <1>8, <3>3, <3>4 DEF SetTask, Exists
      <3> QED BY <3>1, <3>2, <3>5 DEF Exists
    <2> QED BY <2>1, <2>2
  \* The task of the request.
  <1>10. ASSUME NEW t \in Tasks \ discarded', t = job[o].task,
                apc[o] \in {"update", "set", "xadd", "cleanup"}
         PROVE  IsKept(t)' \/ (refusals' > 0 /\ StaysListed(t)')
    <2>1. CASE UpdateTask(o) \/ RetrySet(o)
      <3>1. /\ SetTask(t, job[o].rec) /\ job' = job
            /\ apc'[o] \in {"set", "xadd"}
        BY <1>1, <1>10, <2>1 DEF UpdateTask, RetrySet, AdminGoto
      <3>2. Exists(t)'
        BY <1>1, <1>8, <1>10, <3>1 DEF SetTask, Exists
      <3>3. InHand(t)'
        BY <1>10, <3>1 DEF InHand
      <3> QED BY <3>2, <3>3, KeptByWrite
    <2>2. CASE RetryXAdd(o)
      <3>1. XAddTask(t) /\ store' = store /\ apc[o] = "xadd"
        BY <1>10, <2>2 DEF RetryXAdd, Work
      <3>2. PICK n \in Entry : n = [id |-> lastId + 1, task |-> t] /\ n.id = lastId + 1
        <4>1. [id |-> lastId + 1, task |-> t] \in Entry
          BY <1>1 DEF Entry
        <4> QED BY <4>1
      <3>3. n \in (stream \union pel)' /\ n.task = t
        BY <3>1, <3>2 DEF XAddTask
      <3>4. ~ Held(n)
        BY <1>1, <3>2, NewNotHeld
      <3>5. Loose(n, {})'
        BY <1>2, <3>4 DEF Loose, Held, HeldByWorker, RecoveryHolds, RecoverySpent
      <3>6. Exists(t)'
        BY <1>3, <1>10, <3>1 DEF Exists
      <3> QED BY <3>3, <3>5, <3>6, KeptByEntry
    <2>3. CASE ~ UpdateTask(o) /\ ~ RetrySet(o) /\ ~ RetryXAdd(o)
      <3>1. Cleanup(o) \/ Abandon(o) \/ ItemRefused(o) \/ XAddRefused(o)
        BY <1>10, <2>3, NextCommands
      <3>2. refusals' > 0
        <4>1. CASE Cleanup(o)
          BY <1>5, <4>1 DEF Cleanup, Work, AdminControl
        <4>2. CASE Abandon(o) \/ ItemRefused(o) \/ XAddRefused(o)
          BY <1>1, <4>2 DEF Abandon, ItemRefused, XAddRefused, CutShort
        <4> QED BY <3>1, <4>1, <4>2
      <3>3. t \in discarded \/ StaysListed(t)
        BY <1>5, <1>10, <3>2 DEF RetriesListed
      <3>4. StaysListed(t)'
        BY <1>2, <1>10, <2>3, <3>3, StaysOperator
      <3> QED BY <3>2, <3>4
    <2> QED BY <2>1, <2>2, <2>3
  \* The others.
  <1>11. ASSUME NEW t \in Tasks \ discarded', t \in accepted',
                ~ (apc[o] \in {"update", "set", "xadd", "cleanup"} /\ t = job[o].task)
         PROVE  IsKept(t)' \/ (refusals' > 0 /\ StaysListed(t)')
    <2>1. t \in accepted /\ t \notin discarded
      BY <1>2, <1>11, OperatorWrites
    <2>2. CASE refusals > 0 /\ StaysListed(t)
      <3>1. ~ (RetryXAdd(o) /\ job[o].task = t)
        BY <1>11 DEF RetryXAdd, Work
      <3>2. StaysListed(t)'
        BY <1>11, <2>2, <3>1, StaysOperator
      <3> QED BY <1>5, <2>2, <3>2
    <2>3. CASE IsKept(t)
      <3>1. store'[t] = store[t]
        BY <1>1, <1>7, <1>8, <1>11 DEF SetTask, DelTask
      <3>2. \A e \in stream \union pel :
              e.task = t =>
                /\ Loose(e, Unsettled) => e \in (stream \union pel)' /\ Loose(e, Unsettled)'
                /\ Loose(e, Unscheduled) => e \in (stream \union pel)' /\ Loose(e, Unscheduled)'
        BY <1>2, <1>6, <1>11
      <3>3. InHand(t) => InHand(t)'
        BY <1>4, <1>11 DEF InHand
      <3>4. /\ t \in OnHand("xadd") => t \in OnHand("xadd")'
            /\ t \in zset \ OnHand("zrem") => t \in (zset \ OnHand("zrem"))'
        BY <1>2 DEF OnHand
      <3> QED BY <2>3, <3>1, <3>2, <3>3, <3>4, KeptFrame
    <2> QED BY <1>3, <2>1, <2>2, <2>3
  <1>12. \A t \in accepted' \ discarded' : IsKept(t)' \/ (refusals' > 0 /\ StaysListed(t)')
    <2> TAKE t \in accepted' \ discarded'
    <2>1. t \in Tasks
      BY <1>1, <1>8, OperatorWrites
    <2> QED BY <1>10, <1>11, <2>1
  <1> QED BY <1>2, <1>3, <1>9, <1>12 DEF KeptInv

\* Nothing has been accepted yet.
LEMMA KeptInit == AdminInit => KeptInv /\ LockInv
  <1> SUFFICES ASSUME AdminInit PROVE KeptInv /\ LockInv
    OBVIOUS
  <1>1. /\ accepted = {}
        /\ \A o \in Operators : apc[o] = "idle"
        /\ \A s \in Schedulers : sbatch[s] = {} /\ spc[s] = "idle"
    BY DEF AdminInit, SystemInit, Init, ApiInit, SchedulerInit
  <1> QED BY <1>1 DEF KeptInv, LockInv, SchedulerExclusion

\* Whatever a task needs to be kept, it keeps.
LEMMA KeptStep ==
  ASSUME AdminIInv, Quiet', [AdminNext]_adminVars
  PROVE  KeptInv'
  <1>1. Quiet /\ slow = 0
    BY DisturbancesGrow DEF AdminIInv
  <1>2. /\ AdminTypeInv /\ AdminControl /\ LockInv /\ NewsInv
        /\ AdminHolding /\ RetriesListed /\ KeptInv
    BY <1>1 DEF AdminIInv
  <1>3. CASE (SystemNext /\ Alongside) \/ UNCHANGED adminVars
    BY <1>1, <1>2, <1>3, KeptSystem
  <1>4. ASSUME NEW o \in Operators, OperatorMoves(o) PROVE KeptInv'
    BY <1>1, <1>2, <1>4, KeptOperator
  <1> QED BY <1>3, <1>4 DEF AdminNext, OperatorMoves

(***************************************************************************)
(* The theorems.                                                           *)
(***************************************************************************)

\* The inductive invariant holds in every reachable state.
THEOREM AdminInvariance == AdminSpec => []AdminIInv
  <1>1. AdminInit => AdminIInv
    BY AdminTypeInit, HandsInit, NewsInit, KeptInit DEF AdminIInv
  <1>2. AdminIInv /\ [AdminNext]_adminVars => AdminIInv'
    <2> SUFFICES ASSUME AdminIInv, [AdminNext]_adminVars PROVE AdminIInv'
      OBVIOUS
    <2>1. /\ AdminTypeInv /\ AdminControl /\ LockInv /\ NewsInv
          /\ slow = 0 => AdminHolding /\ FailuresListed /\ RetriesListed
      BY DEF AdminIInv
    <2>2. AdminTypeInv' /\ AdminControl' /\ LockInv' /\ NewsInv'
      BY <2>1, AdminTypeStep, AdminLockStep, NewsStep
    <2>3. ASSUME slow' = 0 PROVE (AdminHolding /\ FailuresListed /\ RetriesListed)'
      <3>1. AdminHolding /\ FailuresListed /\ RetriesListed
        BY <2>1, <2>3, DisturbancesGrow
      <3>2. AdminHolding'
        BY <2>1, <2>3, <3>1, HoldingStep
      <3>3. FailuresListed'
        BY <2>1, <3>1, ListStep
      <3>4. RetriesListed'
        BY <2>1, <3>1, RetriesStep
      <3> QED BY <3>2, <3>3, <3>4
    <2>4. Quiet' => KeptInv'
      BY KeptStep
    <2> QED BY <2>2, <2>3, <2>4 DEF AdminIInv
  <1> QED BY <1>1, <1>2, PTL DEF AdminSpec

\* Retries, removals, clears and purges leave every failed task where an operator finds
\* it, or on its way there: FailedIsListed, however many requests run at once and
\* however they are cut short, as long as handlers return before claimMinIdle (Remove
\* takes away one entry, and Retry has made the record pending before).
THEOREM FailedTasksAreListed == AdminSpec => [](slow = 0 => FailedIsListed)
  <1>1. AdminIInv => (slow = 0 => FailedIsListed)
    <2> SUFFICES ASSUME AdminIInv, slow = 0, NEW t \in Tasks \ discarded,
                        Exists(t), store[t].state = "failed"
                 PROVE  EntryOf(t, dlq \union pel)
      BY DEF FailedIsListed
    <2>1. ListKept(t)
      BY DEF AdminIInv, FailuresListed
    <2> QED BY <2>1 DEF ListKept, EntryOf
  <1> QED BY <1>1, AdminInvariance, PTL

\* A retry never loses the task: RetryKeepsTask (the order of SET, XADD and XDEL in Retry
\* and Enqueue, with the clean-up of Enqueue and every request that is cut short).
THEOREM RetriesKeepTasks == AdminSpec => []RetryKeepsTask
  <1>1. AdminIInv => RetryKeepsTask
    <2> SUFFICES ASSUME AdminIInv, Quiet, NEW t \in accepted \ discarded
                 PROVE  \/ /\ Exists(t)
                           /\ \/ Settled(t) \/ t \in zset
                              \/ EntryOf(t, stream \union pel) \/ InHand(t)
                        \/ refusals > 0 /\ EntryOf(t, dlq \union pel)
      BY DEF RetryKeepsTask
    <2>1. slow = 0
      <3>1. PICK i, j, k, l \in Nat : i = slow /\ j = schedCrashes /\ k = expiries /\ l = races
        BY DEF AdminIInv, AdminTypeInv, SystemTypeInv, TypeInv, TypeOK, RecoveryTypeOK,
               SchedulerTypeOK
      <3>2. i + j + k + l = 0
        BY <3>1 DEF Quiet
      <3> QED BY <3>1, <3>2
    <2>2. /\ TypeInv /\ WorkerControl /\ SchedulerControl
          /\ wmsg \in [Workers -> Entry \union {NoEntry}]
          /\ AdminHolding /\ KeptInv
      BY <2>1
      DEF AdminIInv, AdminTypeInv, SystemTypeInv, TypeInv, TypeOK, WorkerTypeOK
    <2>3. CASE IsKept(t)
      <3>1. t \in OnHand("xadd") => t \in zset
        BY <2>2 DEF OnHand, SchedulerControl, KeptInv
      <3> QED BY <2>3, <3>1 DEF IsKept, EntryAt, EntryOf
    <2>4. CASE refusals > 0 /\ StaysListed(t)
      <3>1. ASSUME NEW w \in Workers, At(w, "dlq_xadd"), task(w) = t
            PROVE  EntryOf(t, dlq \union pel)
        <4>1. wmsg[w] \in Entry
          BY <2>2, <3>1 DEF WorkerControl, At
        <4>2. PICK e \in Entry : e = wmsg[w]
          BY <4>1
        <4>3. e.task = t /\ Held(e)
          BY <3>1, <4>2 DEF task, Held, HeldByWorker
        <4>4. e \in pel
          BY <2>2, <4>3, HeldPending
        <4> QED BY <4>3, <4>4 DEF EntryOf
      <3> QED BY <2>4, <3>1 DEF StaysListed, EntryOf
    <2> QED BY <2>2, <2>3, <2>4 DEF KeptInv
  <1> QED BY <1>1, AdminInvariance, PTL

\* Next to operators an entry still has one owner at most: OneOwnerInService (a purge
\* takes pending entries away and gives them to nobody).
THEOREM OneOwnerNextToOperators == AdminSpec => [](slow = 0 => HeldOnce)
  <1>1. AdminIInv => (slow = 0 => HeldOnce)
    BY DEF AdminIInv, AdminHolding
  <1> QED BY <1>1, AdminInvariance, PTL

\* Nor do operators get in the way of the lock: OneScheduler next to every request.
THEOREM OneSchedulerNextToOperators == AdminSpec => []SchedulerExclusion
  <1>1. AdminIInv => SchedulerExclusion
    BY DEF AdminIInv, LockInv, SchedulerExclusion
  <1> QED BY <1>1, AdminInvariance, PTL

=============================================================================
