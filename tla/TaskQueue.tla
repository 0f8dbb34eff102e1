----------------------------- MODULE TaskQueue ------------------------------
(***************************************************************************)
(* The whole service: WorkerSystem and the schedulers of the API servers.  *)
(***************************************************************************)
EXTENDS WorkerSystem, Scheduler

CONSTANT MaxRaces  \* bound on the races described below

ASSUME RacesAssumption == MaxRaces \in Nat

VARIABLE races

systemVars == <<vars, schedulerVars, races>>

SystemTypeInv ==
  TypeInv /\ SchedulerTypeOK /\ SchedulerControl /\ races \in 0..MaxRaces

SystemInit == Init /\ SchedulerInit /\ races = 0

(***************************************************************************)
(* A scheduler adds a task to its stream before it takes it out of the     *)
(* sorted set.  A worker that reads the entry, runs the handler and puts   *)
(* the failed task back into the sorted set in between overtakes it.       *)
(***************************************************************************)
Overtakes(w) ==
  /\ At(w, "sched_zadd")
  /\ \E s \in Schedulers : spc[s] = "zrem" /\ scur[s] = task(w)

SystemWorkerNext(w) ==
  /\ WorkerNext(w)
  /\ IF Overtakes(w) THEN races < MaxRaces /\ races' = races + 1
                     ELSE UNCHANGED races
  /\ UNCHANGED schedulerVars

SystemPoolNext(p) ==
  /\ RecoveryNext(p) \/ Crash(p) \/ Restart(p)
  /\ UNCHANGED <<schedulerVars, races>>

SystemApiNext(t) == ApiNext(t) /\ UNCHANGED <<schedulerVars, races>>

Elsewhere == UNCHANGED <<workerVars, recoveryVars, apiVars, crashes, races>>

SchedulerNext(s) == SchedulerStep(s) /\ Elsewhere

SystemNext ==
  \/ \E w \in Workers : SystemWorkerNext(w)
  \/ \E p \in Pools : SystemPoolNext(p)
  \/ \E t \in Tasks : SystemApiNext(t)
  \/ \E s \in Schedulers : SchedulerNext(s) \/ (SchedulerCrash(s) /\ Elsewhere)
  \/ LockExpires /\ Elsewhere

SystemSpec == SystemInit /\ [][SystemNext]_systemVars

(***************************************************************************)
(* Properties.                                                             *)
(***************************************************************************)

\* While the lock outlives the batches, at most one scheduler is at work,
\* restarts of API servers included (processDueTasks: SETNX, deferred DEL).
SchedulerExclusion ==
  expiries = 0 =>
    \A r, s \in Schedulers : spc[r] # "idle" /\ spc[s] # "idle" => r = s

\* Whatever happens to schedulers and their lock, a task nobody carries is seen
\* to wait: no record says running or scheduled of a task without an entry and
\* without a place in the sorted set (the order of SET and XADD in activateTask,
\* and of SET, ZADD and XACK in handleTaskFailure).
LostIsWaiting ==
  \A t \in accepted :
    /\ Exists(t)
    /\ \/ Settled(t)
       \/ t \in zset
       \/ EntryOf(t, stream \union pel)
       \/ store[t].state \in {"pending", "retrying"}

(***************************************************************************)
(* The inductive invariant behind these two.  The record of a task comes   *)
(* from five programs here; which of them wrote it says where the entry or *)
(* the member is that goes with it, as long as no handler outlives         *)
(* claimMinIdle (slow = 0).                                                *)
(***************************************************************************)

\* Whoever is at work holds the lock, and nobody else is at work.
LockInv == expiries = 0 => SchedulerExclusion /\ ((\E s \in Schedulers : spc[s] # "idle") => lock)

\* Nobody but the API has heard of a task whose creation is not finished.
Unheard(t) ==
  /\ t \notin zset
  /\ \A s \in Schedulers : t \notin sbatch[s]
  /\ ~ EntryOf(t, stream \union pel)

\* The handler of a running task has not returned, or died with its process; no
\* recovery loop has begun to replace the entry it was started from.
IsRunning(e) ==
  /\ \A w \in Workers : wmsg[w] = e => At(w, "execute")
  /\ \A p \in Pools : rcur[p] # e

RunKept(t) ==
  Exists(t) /\ store[t].state = "running" => \E e \in pel : e.task = t /\ IsRunning(e)

\* A scheduler that is to take a task out of the sorted set has made it pending.
ScheduleKept(t) ==
  Exists(t) /\ store[t].state = "scheduled" =>
    t \in zset /\ \A s \in Schedulers : scur[s] = t => spc[s] = "set"

RecordsKept ==
  \A t \in Tasks :
    /\ cpc[t] # "created" => Unheard(t)
    /\ cpc[t] = "xadd" => store[t].state # "scheduled"
    /\ RunKept(t)
    /\ t \in accepted => Exists(t) /\ ScheduleKept(t)

SystemIInv ==
  /\ SystemTypeInv
  /\ RequestInv
  /\ LockInv
  /\ slow <= MaxSlow
  /\ slow = 0 => HoldingInv /\ FailuresKept /\ RecordsKept

(***************************************************************************)
(* The promise of WorkQueue, with the retries the schedulers bring.        *)
(***************************************************************************)
ServiceDisturbed == crashes + slow + cancels + schedCrashes + expiries > 0

Service == INSTANCE WorkQueue WITH
  MaxRuns   <- MaxRetries,
  status    <- [t \in Tasks |-> Progress(t)],
  answered  <- accepted,
  busy      <- [w \in Workers |-> Executing(w)],
  runs      <- [t \in Tasks |-> IF ServiceDisturbed THEN 0 ELSE Runs(t)],
  disturbed <- ServiceDisturbed

\* The whole service keeps the promise.  What disturbs it further is a scheduler
\* that dies and a lock that expires: only after one of these does a task start more
\* often than its retry limit allows (the attempt counter of Start against CanRetry,
\* across the copies of the record in worker, scheduler and recovery loop).  The race
\* above does not disturb it: the retry it loses never starts.
ServicePromise == Service!Spec

(***************************************************************************)
(* The inductive invariant behind it: one carrier for a task, the sorted   *)
(* set and the hands of the scheduler included.                            *)
(***************************************************************************)

\* The tasks schedulers hold at a command.
OnHand(pc) == {scur[s] : s \in {r \in Schedulers : spc[r] = pc}}

\* What a scheduler has read is still so.
ScheduleInStep ==
  \A s \in Schedulers :
    /\ sbatch[s] \subseteq zset
    /\ spc[s] = "set" =>
         Waiting(scur[s]) /\ srec[s] = Transition(store[scur[s]], "pending")

SystemCalmInv ==
  /\ \A t \in Tasks : OneCarrier(t, OnHand("zrem"), OnHand("xadd")) /\ InCreation(t)
  /\ ScheduleInStep

ServiceIInv == SystemIInv /\ OutcomeInv /\ (~ ServiceDisturbed => SystemCalmInv)

=============================================================================
