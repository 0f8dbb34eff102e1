------------------------------- MODULE Worker -------------------------------
(***************************************************************************)
(* The worker goroutine: Pool.processNextTask, handleTaskSuccess and       *)
(* handleTaskFailure (internal/worker/pool.go) with DequeueBlocking,       *)
(* UpdateTask, ScheduleTaskFunc and DLQ.Add inlined, one Redis command per *)
(* action.  Between two actions the worker holds only wmsg, the entry it   *)
(* was given, and wrec, the task object it read once after the dequeue:    *)
(* it never reads the stored record again.                                 *)
(*                                                                         *)
(* The Redis errors of these commands are in RedisFaults.                  *)
(***************************************************************************)
EXTENDS RedisQueue

CONSTANTS Workers

VARIABLES wpc, wmsg, wrec

workerVars == <<wpc, wmsg, wrec>>

\* The command a worker issues next; at "execute" the handler runs first.
\* "sched_del" is the clean-up of a ZADD that failed (RedisFaults).
WorkerPc == {"idle", "get", "drop", "set_running", "execute", "sched_set",
             "sched_zadd", "sched_del", "dlq_xadd", "dlq_sadd", "ack", "stopped"}

WorkerTypeOK ==
  /\ wpc \in [Workers -> WorkerPc]
  /\ wmsg \in [Workers -> Entry \union {NoEntry}]
  /\ wrec \in [Workers -> Record \union {NoTask}]

WorkerInit ==
  /\ wpc = [w \in Workers |-> "idle"]
  /\ wmsg = [w \in Workers |-> NoEntry]
  /\ wrec = [w \in Workers |-> NoTask]

At(w, pc) == wpc[w] = pc

Goto(w, pc) == wpc' = [wpc EXCEPT ![w] = pc]

\* processNextTask returns: the loop comes round with nothing held.
Return(w) ==
  /\ wpc' = [wpc EXCEPT ![w] = "idle"]
  /\ wmsg' = [wmsg EXCEPT ![w] = NoEntry]
  /\ wrec' = [wrec EXCEPT ![w] = NoTask]

Hold(w, r) == wrec' = [wrec EXCEPT ![w] = r]

task(w) == wmsg[w].task

Dequeue(w) ==
  /\ At(w, "idle")
  /\ XReadGroup
  /\ \E e \in Heads : IsFirstHead(e) /\ wmsg' = [wmsg EXCEPT ![w] = e]
  /\ Goto(w, "get")
  /\ UNCHANGED <<store, lastId, zset, dlqVars, wrec>>

(***************************************************************************)
(* GetTask at the end of DequeueBlocking.  Without a record the entry is   *)
(* acknowledged and forgotten.  With one, Start is applied to the copy     *)
(* just read; when it is refused processNextTask returns the error and the *)
(* entry stays in the pending entries list.                                *)
(***************************************************************************)
GetMissing(w) ==
  /\ At(w, "get")
  /\ ~ Exists(task(w))
  /\ Goto(w, "drop")
  /\ UNCHANGED <<redisVars, wmsg, wrec>>

Drop(w) ==
  /\ At(w, "drop")
  /\ XAck(wmsg[w])
  /\ Return(w)
  /\ UNCHANGED <<store, stream, lastId, zset, dlqVars>>

StartRefused(w) ==
  /\ At(w, "get")
  /\ Exists(task(w))
  /\ ~ CanTransitionTo(store[task(w)].state, "running")
  /\ Return(w)
  /\ UNCHANGED redisVars

\* Variant: the error of Start is ignored.
StartAnyway(w) ==
  /\ At(w, "get")
  /\ Exists(task(w))
  /\ Hold(w, Start(store[task(w)]))
  /\ Goto(w, "set_running")
  /\ UNCHANGED <<redisVars, wmsg>>

StartTask(w) ==
  /\ At(w, "get")
  /\ Exists(task(w))
  /\ CanTransitionTo(store[task(w)].state, "running")
  /\ Hold(w, Start(store[task(w)]))
  /\ Goto(w, "set_running")
  /\ UNCHANGED <<redisVars, wmsg>>

\* Variant: the entry is acknowledged when the handler starts.
SetRunningAcked(w) ==
  /\ At(w, "set_running")
  /\ SetTask(task(w), wrec[w])
  /\ XAck(wmsg[w])
  /\ Goto(w, "execute")
  /\ UNCHANGED <<stream, lastId, zset, dlqVars, wmsg, wrec>>

SetRunning(w) ==
  /\ At(w, "set_running")
  /\ SetTask(task(w), wrec[w])
  /\ Goto(w, "execute")
  /\ UNCHANGED <<stream, pel, lastId, zset, dlqVars, wmsg, wrec>>

(***************************************************************************)
(* Execute.  The handler of the task's type runs for as long as it likes   *)
(* and returns once: with a result, or with what Execute turns into an     *)
(* error, be it the handler's own, a panic, a deadline or a canceled       *)
(* context, or that the type has no handler.  Which it is is not decided   *)
(* by any state kept here.                                                 *)
(***************************************************************************)
HandlerReturns(w) == At(w, "execute")

(***************************************************************************)
(* The outcome is written: of a result; of an error with an attempt left,  *)
(* Fail then ScheduleRetry; or of an error with no attempt left.           *)
(***************************************************************************)
FinishWith(w, r, pc) ==
  /\ SetTask(task(w), r)
  /\ Hold(w, r)
  /\ Goto(w, pc)
  /\ UNCHANGED <<stream, pel, lastId, zset, dlqVars, wmsg>>

SetCompleted(w) ==
  /\ HandlerReturns(w)
  /\ FinishWith(w, Complete(wrec[w]), "ack")

\* Variant: acknowledged without a place in the sorted set.
SetRetryingOnly(w) ==
  /\ HandlerReturns(w)
  /\ CanRetry(wrec[w], MaxRetries[task(w)])
  /\ FinishWith(w, ScheduleRetry(Fail(wrec[w]), MaxRetries[task(w)]), "ack")

SetRetrying(w) ==
  /\ HandlerReturns(w)
  /\ CanRetry(wrec[w], MaxRetries[task(w)])
  /\ FinishWith(w, ScheduleRetry(Fail(wrec[w]), MaxRetries[task(w)]), "sched_set")

\* Variant: acknowledged without DLQ.Add.
SetFailedOnly(w) ==
  /\ HandlerReturns(w)
  /\ ~ CanRetry(wrec[w], MaxRetries[task(w)])
  /\ FinishWith(w, Fail(wrec[w]), "ack")

SetFailed(w) ==
  /\ HandlerReturns(w)
  /\ ~ CanRetry(wrec[w], MaxRetries[task(w)])
  /\ FinishWith(w, Fail(wrec[w]), "dlq_xadd")

\* ScheduleTaskFunc writes the retrying record a second time before it adds
\* the member to the sorted set.
ScheduleSet(w) ==
  /\ At(w, "sched_set")
  /\ SetTask(task(w), wrec[w])
  /\ Goto(w, "sched_zadd")
  /\ UNCHANGED <<stream, pel, lastId, zset, dlqVars, wmsg, wrec>>

ScheduleZAdd(w) ==
  /\ At(w, "sched_zadd")
  /\ zset' = zset \union {task(w)}
  /\ Goto(w, "ack")
  /\ UNCHANGED <<store, stream, pel, lastId, dlqVars, wmsg, wrec>>

\* DLQ.Add marks its own copy dead_letter; nothing writes that copy back.
DlqXAdd(w) ==
  /\ At(w, "dlq_xadd")
  /\ XAddDlq(task(w))
  /\ Hold(w, MoveToDLQ(wrec[w]))
  /\ Goto(w, "dlq_sadd")
  /\ UNCHANGED <<store, stream, pel, lastId, zset, dlqSet, wmsg>>

DlqSAdd(w) ==
  /\ At(w, "dlq_sadd")
  /\ dlqSet' = dlqSet \union {task(w)}
  /\ Goto(w, "ack")
  /\ UNCHANGED <<store, stream, pel, lastId, zset, dlq, lastDlq, wmsg, wrec>>

Acknowledge(w) ==
  /\ At(w, "ack")
  /\ XAck(wmsg[w])
  /\ Return(w)
  /\ UNCHANGED <<store, stream, lastId, zset, dlqVars>>

WorkerStep(w) ==
  \/ Dequeue(w) \/ GetMissing(w) \/ Drop(w) \/ StartRefused(w) \/ StartTask(w)
  \/ SetRunning(w) \/ SetCompleted(w)
  \/ SetRetrying(w) \/ ScheduleSet(w) \/ ScheduleZAdd(w)
  \/ SetFailed(w) \/ DlqXAdd(w) \/ DlqSAdd(w)
  \/ Acknowledge(w)

\* The entry is settled: the worker will write no record of its task again.
WorkerSpent(w) == wpc[w] \in {"drop", "dlq_xadd", "dlq_sadd", "ack"}

=============================================================================
