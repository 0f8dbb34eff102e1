----------------------------- MODULE Scheduler ------------------------------
(***************************************************************************)
(* The scheduler loop of an API server: processDueTasks and activateTask   *)
(* of internal/queue/scheduler.go, one Redis command per action.  Several  *)
(* API servers run one each; the key scheduler:lock is to let one of them  *)
(* work at a time.  It holds a constant, so nothing tells whose it is, and *)
(* it is deleted without a look at its value.                              *)
(*                                                                         *)
(* The scores of tasks:scheduled are times: any members may be due.        *)
(***************************************************************************)
EXTENDS RedisQueue

CONSTANTS
  Schedulers,
  MaxExpiries,      \* bound on expiries of the lock while its taker is working
  MaxSchedCrashes   \* bound on the crashes of API servers

ASSUME SchedulerAssumption == MaxExpiries \in Nat /\ MaxSchedCrashes \in Nat

VARIABLES
  lock,          \* the lock key exists
  spc,
  sbatch,        \* the due tasks still to activate
  srec,          \* the record read by activateTask
  scur,          \* the task being activated
  expiries,
  schedCrashes

schedulerVars == <<lock, spc, sbatch, srec, scur, expiries, schedCrashes>>

SchedulerPc == {"idle", "read", "next", "set", "xadd", "zrem", "unlock"}

SchedulerTypeOK ==
  /\ lock \in BOOLEAN
  /\ spc \in [Schedulers -> SchedulerPc]
  /\ sbatch \in [Schedulers -> SUBSET Tasks]
  /\ srec \in [Schedulers -> Record \union {NoTask}]
  /\ scur \in [Schedulers -> Tasks \union {NoTask}]
  /\ expiries \in Nat
  /\ schedCrashes \in Nat

\* What the program counter says about the batch and the task at hand.
SchedulerControl ==
  \A s \in Schedulers :
    /\ sbatch[s] = {} <=> spc[s] \in {"idle", "read", "unlock"}
    /\ scur[s] = NoTask <=> spc[s] \notin {"set", "xadd", "zrem"}
    /\ scur[s] # NoTask => scur[s] \in sbatch[s]
    /\ srec[s] = NoTask <=> spc[s] # "set"
    /\ spc[s] = "set" => srec[s].state = "pending"

SchedulerInit ==
  /\ lock = FALSE
  /\ spc = [s \in Schedulers |-> "idle"]
  /\ sbatch = [s \in Schedulers |-> {}]
  /\ srec = [s \in Schedulers |-> NoTask]
  /\ scur = [s \in Schedulers |-> NoTask]
  /\ expiries = 0
  /\ schedCrashes = 0

SchedGoto(s, pc) == spc' = [spc EXCEPT ![s] = pc]

\* Variant: the DEL is deferred before the answer of SETNX is looked at.
TakeOrFreeLock(s) ==
  /\ spc[s] = "idle"
  /\ lock' = ~ lock
  /\ SchedGoto(s, IF lock THEN "idle" ELSE "read")
  /\ UNCHANGED <<redisVars, sbatch, srec, scur, expiries, schedCrashes>>

\* SETNX; a tick that finds the key does nothing.
TakeLock(s) ==
  /\ spc[s] = "idle"
  /\ ~ lock
  /\ lock' = TRUE
  /\ SchedGoto(s, "read")
  /\ UNCHANGED <<redisVars, sbatch, srec, scur, expiries, schedCrashes>>

\* Variant: the due members are popped.
PopDue(s, due) ==
  /\ spc[s] = "read"
  /\ due \subseteq zset
  /\ zset' = zset \ due
  /\ sbatch' = [sbatch EXCEPT ![s] = due]
  /\ SchedGoto(s, IF due = {} THEN "unlock" ELSE "next")
  /\ UNCHANGED <<store, stream, pel, lastId, dlqVars,
                 lock, srec, scur, expiries, schedCrashes>>

\* ZRANGEBYSCORE -inf now.
ReadDue(s, due) ==
  /\ spc[s] = "read"
  /\ due \subseteq zset
  /\ sbatch' = [sbatch EXCEPT ![s] = due]
  /\ SchedGoto(s, IF due = {} THEN "unlock" ELSE "next")
  /\ UNCHANGED <<redisVars, lock, srec, scur, expiries, schedCrashes>>

\* The states a member of the sorted set is activated from.
Waiting(t) == Exists(t) /\ store[t].state \in {"scheduled", "retrying"}

\* activateTask: a task without a record or in any other state only leaves the
\* sorted set.
ReadWaiting(s, t) ==
  /\ spc[s] = "next"
  /\ t \in sbatch[s]
  /\ scur' = [scur EXCEPT ![s] = t]
  /\ IF Waiting(t)
     THEN /\ srec' = [srec EXCEPT ![s] = Transition(store[t], "pending")]
          /\ SchedGoto(s, "set")
     ELSE /\ SchedGoto(s, "zrem")
          /\ UNCHANGED srec
  /\ UNCHANGED <<redisVars, lock, sbatch, expiries, schedCrashes>>

ActivateSet(s) ==
  /\ spc[s] = "set"
  /\ SetTask(scur[s], srec[s])
  /\ srec' = [srec EXCEPT ![s] = NoTask]
  /\ SchedGoto(s, "xadd")
  /\ UNCHANGED <<stream, pel, lastId, zset, dlqVars,
                 lock, sbatch, scur, expiries, schedCrashes>>

ActivateXAdd(s) ==
  /\ spc[s] = "xadd"
  /\ XAddTask(scur[s])
  /\ SchedGoto(s, "zrem")
  /\ UNCHANGED <<store, pel, zset, dlqVars,
                 lock, sbatch, srec, scur, expiries, schedCrashes>>

ActivateZRem(s) ==
  /\ spc[s] = "zrem"
  /\ zset' = zset \ {scur[s]}
  /\ sbatch' = [sbatch EXCEPT ![s] = @ \ {scur[s]}]
  /\ scur' = [scur EXCEPT ![s] = NoTask]
  /\ SchedGoto(s, IF sbatch[s] = {scur[s]} THEN "unlock" ELSE "next")
  /\ UNCHANGED <<store, stream, pel, lastId, dlqVars, lock, srec, expiries, schedCrashes>>

\* The deferred DEL: whoever took the lock, it is gone.
Unlock(s) ==
  /\ spc[s] = "unlock"
  /\ lock' = FALSE
  /\ SchedGoto(s, "idle")
  /\ UNCHANGED <<redisVars, sbatch, srec, scur, expiries, schedCrashes>>

SchedulerStep(s) ==
  \/ TakeLock(s)
  \/ \E due \in SUBSET zset : ReadDue(s, due)
  \/ \E t \in Tasks : ReadWaiting(s, t)
  \/ ActivateSet(s) \/ ActivateXAdd(s) \/ ActivateZRem(s)
  \/ Unlock(s)

\* The TTL of the lock runs out: after a crash, or under a slow batch.
LockExpires ==
  /\ lock
  /\ lock' = FALSE
  /\ IF \E s \in Schedulers : spc[s] # "idle"
     THEN expiries < MaxExpiries /\ expiries' = expiries + 1
     ELSE UNCHANGED expiries
  /\ UNCHANGED <<redisVars, spc, sbatch, srec, scur, schedCrashes>>

\* An API server dies in the middle of a batch and is started again.
SchedulerCrash(s) ==
  /\ schedCrashes < MaxSchedCrashes
  /\ spc[s] # "idle"
  /\ schedCrashes' = schedCrashes + 1
  /\ SchedGoto(s, "idle")
  /\ sbatch' = [sbatch EXCEPT ![s] = {}]
  /\ srec' = [srec EXCEPT ![s] = NoTask]
  /\ scur' = [scur EXCEPT ![s] = NoTask]
  /\ UNCHANGED <<redisVars, lock, expiries>>

=============================================================================
