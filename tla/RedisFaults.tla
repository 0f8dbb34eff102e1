---------------------------- MODULE RedisFaults -----------------------------
(***************************************************************************)
(* TaskQueue with a Redis that refuses single commands: the error branches *)
(* of pool.go, redis_streams.go and scheduler.go.  A refused command has   *)
(* no effect, and what the code then does is part of the action.  (A       *)
(* command that takes effect and whose answer is lost is not modelled.)    *)
(* At most MaxFaults commands are refused, of different kinds.             *)
(***************************************************************************)
EXTENDS TaskQueue

CONSTANTS Faults, MaxFaults

FaultKinds == {"get", "set", "xadd", "zadd", "zrem", "dlq", "ack"}

ASSUME FaultAssumption == Faults \subseteq FaultKinds /\ MaxFaults \in Nat

VARIABLE refused  \* the kinds of the commands refused so far

faultyVars == <<systemVars, refused>>

FaultyTypeInv == SystemTypeInv /\ refused \in SUBSET Faults

FaultyInit == SystemInit /\ refused = {}

Refuse(kind) ==
  /\ kind \in Faults \ refused
  /\ Cardinality(refused) < MaxFaults
  /\ refused' = refused \union {kind}

(***************************************************************************)
(* The worker.                                                             *)
(***************************************************************************)

\* Variant: the error is ignored and the task started without a record.
GetErrorIgnored(w) ==
  /\ At(w, "get")
  /\ Refuse("get")
  /\ Goto(w, "set_running")
  /\ UNCHANGED <<redisVars, wmsg, wrec>>

\* DequeueBlocking treats every error of GetTask as a missing record.
GetRefused(w) ==
  /\ At(w, "get")
  /\ Refuse("get")
  /\ Goto(w, "drop")
  /\ UNCHANGED <<redisVars, wmsg, wrec>>

\* The error is logged and the handler runs all the same.
SetRunningRefused(w) ==
  /\ At(w, "set_running")
  /\ Refuse("set")
  /\ Goto(w, "execute")
  /\ UNCHANGED <<redisVars, wmsg, wrec>>

\* Variant: the error is logged and the entry acknowledged.
WriteErrorLogged(w) ==
  /\ HandlerReturns(w) \/ At(w, "sched_set")
  /\ Refuse("set")
  /\ Goto(w, "ack")
  /\ UNCHANGED <<redisVars, wmsg, wrec>>

\* UpdateTask after the handler, or the SET of ScheduleTaskFunc: return with
\* the entry unacknowledged.
WriteRefused(w) ==
  /\ HandlerReturns(w) \/ At(w, "sched_set")
  /\ Refuse("set")
  /\ Return(w)
  /\ UNCHANGED redisVars

\* The record of an exhausted task is not written, but DLQ.Add follows.
SetFailedRefused(w) ==
  /\ HandlerReturns(w)
  /\ ~ CanRetry(wrec[w], MaxRetries[task(w)])
  /\ Refuse("set")
  /\ Hold(w, Fail(wrec[w]))
  /\ Goto(w, "dlq_xadd")
  /\ UNCHANGED <<redisVars, wmsg>>

ScheduleZAddRefused(w) ==
  /\ At(w, "sched_zadd")
  /\ Refuse("zadd")
  /\ Goto(w, "sched_del")
  /\ UNCHANGED <<redisVars, wmsg, wrec>>

\* "Cleanup on failure", then return with the entry unacknowledged.
ScheduleDel(w) ==
  /\ At(w, "sched_del")
  /\ DelTask(task(w))
  /\ Return(w)
  /\ UNCHANGED <<stream, pel, lastId, zset, dlqVars, refused>>

\* Variant: SADD follows an XADD that failed.
DlqErrorIgnored(w) ==
  /\ At(w, "dlq_xadd") \/ At(w, "dlq_sadd")
  /\ Refuse("dlq")
  /\ Goto(w, IF At(w, "dlq_xadd") THEN "dlq_sadd" ELSE "ack")
  /\ UNCHANGED <<redisVars, wmsg, wrec>>

\* The XADD or SADD of DLQ.Add: logged or ignored, then Acknowledge.
DlqRefused(w) ==
  /\ At(w, "dlq_xadd") \/ At(w, "dlq_sadd")
  /\ Refuse("dlq")
  /\ Goto(w, "ack")
  /\ UNCHANGED <<redisVars, wmsg, wrec>>

AckRefused(w) ==
  /\ At(w, "ack") \/ At(w, "drop")
  /\ Refuse("ack")
  /\ Return(w)
  /\ UNCHANGED redisVars

WorkerFault(w) ==
  \/ GetRefused(w) \/ SetRunningRefused(w) \/ SetFailedRefused(w)
  \/ WriteRefused(w) \/ ScheduleZAddRefused(w) \/ ScheduleDel(w)
  \/ DlqRefused(w) \/ AckRefused(w)

(***************************************************************************)
(* The recovery loop.                                                      *)
(***************************************************************************)

\* ClaimOrphanedTasks goes on with the next pending entry.
ReadRefused(p) ==
  /\ rpc[p] = "get"
  /\ Refuse("get")
  /\ rclaim' = [rclaim EXCEPT ![p] = NoEntry]
  /\ rpc' = [rpc EXCEPT ![p] = "scan"]
  /\ UNCHANGED <<redisVars, rbatch, rcur>>

\* The SET of Enqueue: the loop goes on with the next task of the batch.
RequeueSetRefused(p) ==
  /\ rpc[p] \in {"scan", "requeue"}
  /\ Refuse("set")
  /\ \E b \in rbatch[p] :
       /\ IsNext(p, b)
       /\ rbatch' = [rbatch EXCEPT ![p] = @ \ {b}]
       /\ rpc' = [rpc EXCEPT ![p] = IF rbatch[p] = {b} THEN "scan" ELSE "requeue"]
  /\ UNCHANGED <<redisVars, rclaim, rcur>>

RequeueXAddRefused(p) ==
  /\ rpc[p] = "xadd"
  /\ Refuse("xadd")
  /\ rpc' = [rpc EXCEPT ![p] = "del"]
  /\ UNCHANGED <<redisVars, rclaim, rbatch, rcur>>

\* The item is given up: the loop goes on with the rest of the batch.
NextItem(p) ==
  /\ rcur' = [rcur EXCEPT ![p] = NoEntry]
  /\ rpc' = [rpc EXCEPT ![p] = AfterItem(p)]
  /\ UNCHANGED <<rclaim, rbatch>>

\* Enqueue's "Cleanup on failure".
RequeueDel(p) ==
  /\ rpc[p] = "del"
  /\ DelTask(rcur[p].task)
  /\ NextItem(p)
  /\ UNCHANGED <<stream, pel, lastId, zset, dlqVars, refused>>

RequeueAckRefused(p) ==
  /\ rpc[p] = "ack"
  /\ Refuse("ack")
  /\ NextItem(p)
  /\ UNCHANGED redisVars

RecoveryFault(p) ==
  \/ ReadRefused(p) \/ RequeueSetRefused(p) \/ RequeueXAddRefused(p)
  \/ RequeueDel(p) \/ RequeueAckRefused(p)

(***************************************************************************)
(* The scheduler.                                                          *)
(***************************************************************************)

\* activateTask treats every error of GetTask as a deleted task.
DueGetRefused(s, t) ==
  /\ spc[s] = "next"
  /\ t \in sbatch[s]
  /\ Refuse("get")
  /\ scur' = [scur EXCEPT ![s] = t]
  /\ SchedGoto(s, "zrem")
  /\ UNCHANGED <<redisVars, lock, sbatch, srec, expiries, schedCrashes>>

\* An error of SET or XADD ends activateTask, one of ZREM is ignored; the
\* member stays in the sorted set and the loop goes on.
DueWriteRefused(s) ==
  /\ \/ spc[s] = "set" /\ Refuse("set")
     \/ spc[s] = "xadd" /\ Refuse("xadd")
     \/ spc[s] = "zrem" /\ Refuse("zrem")
  /\ sbatch' = [sbatch EXCEPT ![s] = @ \ {scur[s]}]
  /\ srec' = [srec EXCEPT ![s] = NoTask]
  /\ scur' = [scur EXCEPT ![s] = NoTask]
  /\ SchedGoto(s, IF sbatch[s] = {scur[s]} THEN "unlock" ELSE "next")
  /\ UNCHANGED <<redisVars, lock, expiries, schedCrashes>>

SchedulerFault(s) ==
  (\E t \in Tasks : DueGetRefused(s, t)) \/ DueWriteRefused(s)

FaultyNext ==
  \/ SystemNext /\ UNCHANGED refused
  \/ \E w \in Workers :
       /\ WorkerFault(w)
       /\ UNCHANGED <<recoveryVars, apiVars, crashes, schedulerVars, races>>
  \/ \E p \in Pools :
       /\ RecoveryFault(p)
       /\ UNCHANGED <<slow, workerVars, apiVars, crashes, schedulerVars, races>>
  \/ \E s \in Schedulers : SchedulerFault(s) /\ Elsewhere

FaultySpec == FaultyInit /\ [][FaultyNext]_faultyVars

(***************************************************************************)
(* Properties.                                                             *)
(***************************************************************************)

\* As long as only SET, ZREM and XACK commands have been refused nothing vanishes:
\* an accepted task has a record and is final, waiting, the subject of an entry,
\* or in the dead-letter queue (the error branches of handleTaskSuccess,
\* handleTaskFailure, recoverOrphanedTasks and activateTask).
NoTaskVanishes ==
  refused \subseteq {"set", "zrem", "ack"} =>
    \A t \in accepted :
      /\ Exists(t)
      /\ Settled(t) \/ t \in zset \/ EntryOf(t, stream \union pel) \/ EntryOf(t, dlq)

\* The lookup set names only tasks the dead-letter stream has an entry for, also
\* when one of DLQ.Add's commands is refused (dlq.go: the SADD follows the XADD
\* and its error is ignored).
LookupIsSound == \A t \in dlqSet : EntryOf(t, dlq)

\* The entry of an exhausted task is acknowledged only when the task is in the
\* dead-letter stream, unless DLQ.Add itself was refused (pool.go:366, "ACK'd only
\* after the retry/DLQ path is safely committed"; the errors of UpdateTask and of
\* Add are only logged).
DeadLetterCommitted ==
  "dlq" \notin refused =>
    \A w \in Workers :
      At(w, "ack") /\ wrec[w].state \in {"failed", "dead_letter"} => EntryOf(task(w), dlq)

(***************************************************************************)
(* The inductive invariant behind these.                                   *)
(***************************************************************************)

\* A worker names a task in the lookup set after it has added the entry, and comes to
\* its XACK from a completed run, from the sorted set or from DLQ.Add.
DeadLetterInv ==
  /\ LookupIsSound
  /\ \A w \in Workers :
       /\ At(w, "sched_zadd") => wrec[w].state = "retrying"
       /\ At(w, "dlq_sadd") => EntryOf(task(w), dlq)
       /\ At(w, "ack") =>
            \/ wrec[w].state \in {"completed", "retrying"}
            \/ EntryOf(task(w), dlq)
            \/ "dlq" \in refused

\* Nobody but the API has heard of a task whose creation is not finished, and its
\* record says how it is to be queued, if it was not canceled.
NewsInv ==
  \A t \in Tasks :
    /\ cpc[t] # "created" => Unheard(t)
    /\ cpc[t] = "xadd" => store[t].state \in {"pending", "canceled"}
    /\ cpc[t] = "zadd" => store[t].state \in {"scheduled", "canceled"}

\* An entry of the task is in nobody's hands, or in those of a worker at one of these
\* commands, or of a recovery loop that has not replaced it yet.
EntryAt(t, pcs) ==
  \E e \in stream \union pel :
    /\ e.task = t
    /\ \A w \in Workers : wmsg[w] = e => wpc[w] \in pcs
    /\ \A p \in Pools : ~ RecoverySpent(p, e)

\* The commands at which a worker has still to replace what the record says.  After a
\* SET of the failed record that was refused the entry stands in for the record
\* until the task is in the dead-letter stream.
Unsettled == {"get", "set_running", "execute"}
               \union IF "set" \in refused THEN {"dlq_xadd"} ELSE {}

\* Whoever wrote the record last still carries the task, or has handed it on.
IsKept(t) ==
  /\ Exists(t)
  /\ \/ Settled(t)
     \/ "set" \in refused /\ EntryOf(t, dlq)
     \/ /\ store[t].state \in {"pending", "running"}
        /\ EntryAt(t, Unsettled) \/ t \in OnHand("xadd")
     \/ /\ store[t].state = "retrying"
        /\ EntryAt(t, Unsettled \union {"sched_set", "sched_zadd"})
             \/ t \in zset \ OnHand("zrem")
     \/ /\ store[t].state = "scheduled"
        /\ t \in zset /\ \A s \in Schedulers : scur[s] = t => spc[s] = "set"

KeptInv ==
  /\ \A t \in accepted : IsKept(t)
  /\ \A s \in Schedulers : sbatch[s] \subseteq zset
  /\ \A w \in Workers : ~ At(w, "sched_del") /\ (At(w, "drop") => task(w) \notin accepted)
  /\ \A p \in Pools : rpc[p] # "del"

Steady == slow + schedCrashes + expiries + races = 0

FaultIInv ==
  /\ FaultyTypeInv /\ LockInv /\ DeadLetterInv
  /\ slow = 0 => HoldingInv /\ RequestInv /\ NewsInv
  /\ Steady /\ refused \subseteq {"set", "zrem", "ack"} => KeptInv

=============================================================================
