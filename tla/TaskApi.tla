------------------------------ MODULE TaskApi -------------------------------
(***************************************************************************)
(* The task endpoints of internal/api/handlers/task.go, one Redis command  *)
(* per action: Create, with Enqueue (redis_streams.go) or ScheduleTaskFunc *)
(* (scheduler.go) inlined, and Cancel.  A request may be abandoned between *)
(* two commands: the client disconnects, which cancels the request's       *)
(* context, or the API server goes down.                                   *)
(***************************************************************************)
EXTENDS Recovery

CONSTANTS
  MaxQueueSize,  \* queue.max_queue_size; 0 for no limit
  MaxCancels,    \* bound on the cancel requests that reach their write
  MaxAborts,     \* bound on the create requests abandoned half way
  Retention      \* TRUE when task_retention_days is set

ASSUME ApiAssumption ==
  /\ MaxQueueSize \in Nat
  /\ MaxCancels \in Nat
  /\ MaxAborts \in Nat
  /\ Retention \in BOOLEAN

VARIABLES
  cpc,       \* where the create request of each task is
  krec,      \* krec[t]: the canceled record a cancel request is about to write
  accepted,  \* tasks whose submission was answered 201 and not yet expired
  cancels,
  aborts

apiVars == <<cpc, krec, accepted, cancels, aborts>>

CreatePc == {"new", "set_pending", "xadd", "set_scheduled", "zadd",
             "created", "aborted"}

ApiTypeOK ==
  /\ cpc \in [Tasks -> CreatePc]
  /\ krec \in [Tasks -> Record \union {NoTask}]
  /\ accepted \in SUBSET Tasks
  /\ cancels \in Nat
  /\ aborts \in Nat

ApiInit ==
  /\ cpc = [t \in Tasks |-> "new"]
  /\ krec = [t \in Tasks |-> NoTask]
  /\ accepted = {}
  /\ cancels = 0
  /\ aborts = 0

HasCapacity == MaxQueueSize = 0 \/ QueueDepth < MaxQueueSize

\* Capacity check and FromRequest.  A refused request (503) changes nothing;
\* a client that tries again submits a task like any other.
Submit(t) ==
  /\ cpc[t] = "new"
  /\ HasCapacity
  /\ \E pc \in {"set_pending", "set_scheduled"} : cpc' = [cpc EXCEPT ![t] = pc]
  /\ UNCHANGED <<redisVars, workerVars, recoveryVars, krec, accepted, cancels, aborts>>

NewRecord(s) == [state |-> s, attempts |-> 0]

EnqueueSet(t) ==
  /\ cpc[t] = "set_pending"
  /\ SetTask(t, NewRecord("pending"))
  /\ cpc' = [cpc EXCEPT ![t] = "xadd"]
  /\ UNCHANGED <<stream, pel, lastId, zset, dlqVars, workerVars, recoveryVars,
                 krec, accepted, cancels, aborts>>

\* The XADD of Enqueue; the answer 201 follows.
EnqueueXAdd(t) ==
  /\ cpc[t] = "xadd"
  /\ XAddTask(t)
  /\ cpc' = [cpc EXCEPT ![t] = "created"]
  /\ accepted' = accepted \union {t}
  /\ UNCHANGED <<store, pel, zset, dlqVars, workerVars, recoveryVars,
                 krec, cancels, aborts>>

CreateScheduledSet(t) ==
  /\ cpc[t] = "set_scheduled"
  /\ SetTask(t, NewRecord("scheduled"))
  /\ cpc' = [cpc EXCEPT ![t] = "zadd"]
  /\ UNCHANGED <<stream, pel, lastId, zset, dlqVars, workerVars, recoveryVars,
                 krec, accepted, cancels, aborts>>

CreateScheduledZAdd(t) ==
  /\ cpc[t] = "zadd"
  /\ zset' = zset \union {t}
  /\ cpc' = [cpc EXCEPT ![t] = "created"]
  /\ accepted' = accepted \union {t}
  /\ UNCHANGED <<store, stream, pel, lastId, dlqVars, workerVars, recoveryVars,
                 krec, cancels, aborts>>

\* The clean-up DEL of a failed command needs the same context and fails too.
AbortCreate(t) ==
  /\ cpc[t] \in {"xadd", "zadd"}
  /\ aborts < MaxAborts
  /\ aborts' = aborts + 1
  /\ cpc' = [cpc EXCEPT ![t] = "aborted"]
  /\ UNCHANGED <<redisVars, workerVars, recoveryVars, krec, accepted, cancels>>

Cancellable(r) == r.state \in {"pending", "scheduled", "retrying"}

\* GetTask and the checks of Cancel.  404 and 409 answers change nothing.
CancelRead(t) ==
  /\ cancels < MaxCancels
  /\ t \in accepted
  /\ krec[t] = NoTask
  /\ Exists(t)
  /\ Cancellable(store[t])
  /\ krec' = [krec EXCEPT ![t] = Cancel(store[t])]
  /\ cancels' = cancels + 1
  /\ UNCHANGED <<redisVars, workerVars, recoveryVars, cpc, accepted, aborts>>

\* The state is tested after sm.Cancel() has changed it.
CancelRemovesSchedule(r) == r.state \in {"scheduled", "retrying"}

\* RemoveScheduledTask, then UpdateTask; the former is never reached.
CancelSet(t) ==
  /\ krec[t] # NoTask
  /\ ~ CancelRemovesSchedule(krec[t])
  /\ SetTask(t, krec[t])
  /\ krec' = [krec EXCEPT ![t] = NoTask]
  /\ UNCHANGED <<stream, pel, lastId, zset, dlqVars, workerVars, recoveryVars,
                 cpc, accepted, cancels, aborts>>

\* A record in a final state carries a TTL of days: by the time it expires
\* nobody is in the middle of anything with the task.
Untouched(t) ==
  /\ krec[t] = NoTask
  /\ \A e \in Holdings \ {NoEntry} : e.task # t

Expire(t) ==
  /\ Retention
  /\ t \in accepted
  /\ Exists(t)
  /\ IsFinal(store[t].state)
  /\ Untouched(t)
  /\ DelTask(t)
  /\ accepted' = accepted \ {t}
  /\ UNCHANGED <<stream, pel, lastId, zset, dlqVars, workerVars, recoveryVars,
                 cpc, krec, cancels, aborts>>

ApiStep(t) ==
  \/ Submit(t)
  \/ EnqueueSet(t) \/ EnqueueXAdd(t)
  \/ CreateScheduledSet(t) \/ CreateScheduledZAdd(t)
  \/ AbortCreate(t)
  \/ CancelRead(t) \/ CancelSet(t)
  \/ Expire(t)

=============================================================================
