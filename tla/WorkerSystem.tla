---------------------------- MODULE WorkerSystem ----------------------------
(***************************************************************************)
(* Worker processes, their recovery loops and the task API over one Redis, *)
(* with crashes of whole worker processes.  Redis does not fail here and   *)
(* the scheduler, which moves due tasks from the sorted set back to a      *)
(* stream, does not run: a task in the sorted set stays there.             *)
(***************************************************************************)
EXTENDS TaskApi

CONSTANTS
  PoolOf,     \* the process a worker goroutine belongs to
  MaxCrashes  \* bound on the crashes of worker processes

ASSUME CrashAssumption ==
  /\ PoolOf \in [Workers -> Pools]
  /\ MaxCrashes \in Nat

VARIABLE crashes

vars == <<redisVars, workerVars, recoveryVars, apiVars, crashes>>

TypeOK ==
  /\ RedisTypeOK
  /\ WorkerTypeOK
  /\ RecoveryTypeOK
  /\ ApiTypeOK
  /\ crashes \in Nat

Init == RedisInit /\ WorkerInit /\ RecoveryInit /\ ApiInit /\ crashes = 0

(***************************************************************************)
(* The process dies: everything its goroutines hold is gone, everything in *)
(* Redis stays, the pending entries included.                              *)
(***************************************************************************)
SetPool(p, pc, loop) ==
  /\ wpc' = [w \in Workers |-> IF PoolOf[w] = p THEN pc ELSE wpc[w]]
  /\ rpc' = [rpc EXCEPT ![p] = loop]

Crash(p) ==
  /\ crashes < MaxCrashes
  /\ rpc[p] # "stopped"
  /\ crashes' = crashes + 1
  /\ SetPool(p, "stopped", "stopped")
  /\ wmsg' = [w \in Workers |-> IF PoolOf[w] = p THEN NoEntry ELSE wmsg[w]]
  /\ wrec' = [w \in Workers |-> IF PoolOf[w] = p THEN NoTask ELSE wrec[w]]
  /\ rclaim' = [rclaim EXCEPT ![p] = NoEntry]
  /\ rbatch' = [rbatch EXCEPT ![p] = {}]
  /\ rcur' = [rcur EXCEPT ![p] = NoEntry]
  /\ UNCHANGED <<redisVars, slow, apiVars>>

\* The process comes back under a new pool id; ids are never compared.
Restart(p) ==
  /\ rpc[p] = "stopped"
  /\ SetPool(p, "idle", "scan")
  /\ UNCHANGED <<redisVars, wmsg, wrec, rclaim, rbatch, rcur, slow, apiVars, crashes>>

WorkerNext(w)   == WorkerStep(w) /\ UNCHANGED <<recoveryVars, apiVars, crashes>>
RecoveryNext(p) == RecoveryStep(p) /\ UNCHANGED <<apiVars, crashes>>
ApiNext(t)      == ApiStep(t) /\ UNCHANGED crashes

Next ==
  \/ \E w \in Workers : WorkerNext(w)
  \/ \E p \in Pools : RecoveryNext(p) \/ Crash(p) \/ Restart(p)
  \/ \E t \in Tasks : ApiNext(t)

Spec == Init /\ [][Next]_vars

(***************************************************************************)
(* Safety.                                                                 *)
(***************************************************************************)
EntryOf(t, S) == \E e \in S : e.task = t

Settled(t) == Exists(t) /\ IsFinal(store[t].state)

\* Every task answered 201 is, until its record expires, in a final state,
\* waiting in the sorted set, or the subject of an entry that is undelivered
\* or unacknowledged, whatever the crashes (requirements.md NFR-3.2: "Worker
\* crashes shall not lose in-flight tasks"; the order of SET, ZADD, XADD and
\* XACK in handleTaskSuccess, handleTaskFailure and recoverOrphanedTasks).
NoLostTask ==
  \A t \in accepted :
    /\ Exists(t)
    /\ Settled(t) \/ t \in zset \/ EntryOf(t, stream \union pel)

\* A task in state failed is in the dead-letter queue, or one of its entries is
\* still pending and recovery will run it again: exhausted tasks never just
\* vanish from the operator's view (handleTaskFailure: UpdateTask, dlq.Add and
\* Acknowledge, in this order).
FailedReachesDLQ ==
  \A t \in Tasks :
    Exists(t) /\ store[t].state = "failed" => t \in dlqSet \/ EntryOf(t, pel)

(***************************************************************************)
(* The promise of WorkQueue, read off the records and the workers.         *)
(***************************************************************************)
Progress(t) ==
  IF ~ Exists(t) THEN "absent" ELSE IF Settled(t) THEN store[t].state ELSE "open"

Executing(w) == IF At(w, "execute") THEN task(w) ELSE NoTask

Runs(t) == IF Exists(t) THEN store[t].attempts ELSE 0

WorkersDisturbed == crashes + slow + cancels > 0

Queue == INSTANCE WorkQueue WITH
  MaxRuns   <- MaxRetries,
  status    <- [t \in Tasks |-> Progress(t)],
  answered  <- accepted,
  busy      <- [w \in Workers |-> Executing(w)],
  runs      <- [t \in Tasks |-> IF WorkersDisturbed THEN 0 ELSE Runs(t)],
  disturbed <- WorkersDisturbed

\* The workers, their recovery loops and the API keep the promise: without crashes,
\* slow handlers and cancel requests no two workers run a task at once, none runs
\* too often and no outcome is ever replaced; with them, an accepted task is still
\* settled by nothing but a handler that ran or a cancel request
\* (docs/architecture.md:76, README.md:15; processNextTask against
\* recoverOrphanedTasks).
QueuePromise == Queue!Spec

(***************************************************************************)
(* What the documentation promises and the code does not keep.             *)
(***************************************************************************)

\* A canceled task stays canceled until its record expires (state.go:94, "Terminal
\* state").  PrepareForRequeue forces pending on whatever the scan of
\* ClaimOrphanedTasks read.
CanceledIsFinal ==
  [][\A t \in Tasks :
       Exists(t) /\ store[t].state = "canceled" =>
         store'[t] = NoTask \/ store'[t].state = "canceled"]_vars

(***************************************************************************)
(* The inductive invariant behind NoLostTask and FailedReachesDLQ, which   *)
(* hold until the first handler outlives claimMinIdle (slow = 0).          *)
(***************************************************************************)

\* Entry ids grow, and an entry is undelivered or pending, not both.
EntriesInv ==
  /\ \A e \in stream \union pel : e.id <= lastId
  /\ stream \intersect pel = {}

\* What the program counters say about the hands and the records in them.
WorkerControl ==
  \A w \in Workers :
    /\ wmsg[w] = NoEntry <=> wpc[w] \in {"idle", "stopped"}
    /\ wpc[w] \in {"set_running", "execute"} =>
         wrec[w] # NoTask /\ wrec[w].state = "running"
    /\ wpc[w] = "sched_set" => wrec[w] # NoTask /\ wrec[w].state = "retrying"
    /\ wpc[w] = "dlq_xadd" => wrec[w] # NoTask

RecoveryControl ==
  \A p \in Pools :
    /\ rclaim[p] = NoEntry <=> rpc[p] # "get"
    /\ rcur[p] = NoEntry <=> rpc[p] \notin {"xadd", "del", "ack"}
    /\ rpc[p] = "stopped" => rbatch[p] = {}

\* A process is down as a whole.
StoppedTogether ==
  \A w \in Workers : wpc[w] = "stopped" <=> rpc[PoolOf[w]] = "stopped"

TypeInv == TypeOK /\ WorkerControl /\ RecoveryControl /\ StoppedTogether

\* Whatever is held has not been acknowledged.
HeldIsPending ==
  /\ \A w \in Workers : wmsg[w] # NoEntry => wmsg[w] \in pel
  /\ \A p \in Pools :
       /\ rclaim[p] # NoEntry => rclaim[p] \in pel
       /\ rcur[p] # NoEntry => rcur[p] \in pel
       /\ \A b \in rbatch[p] : b.entry \in pel

\* No entry is in two hands.
HeldOnce ==
  /\ \A v, w \in Workers : wmsg[v] = wmsg[w] => v = w \/ wmsg[w] = NoEntry
  /\ \A w \in Workers, p \in Pools : wmsg[w] # NoEntry => ~ RecoveryHolds(p, wmsg[w])
  /\ \A p, q \in Pools : \A e \in pel :
       RecoveryHolds(p, e) /\ RecoveryHolds(q, e) => p = q
  /\ \A p \in Pools :
       /\ rclaim[p] # NoEntry => rclaim[p] # rcur[p] /\ ~ InBatch(p, rclaim[p])
       /\ rcur[p] # NoEntry => ~ InBatch(p, rcur[p])
       /\ \A b, c \in rbatch[p] : b.entry = c.entry => b = c

\* The API side: only finished creations are answered, and a record exists from
\* its SET on; cancel requests carry canceled records.
RequestInv ==
  \A t \in Tasks :
    /\ t \in accepted => cpc[t] = "created"
    /\ cpc[t] \in {"xadd", "zadd"} => Exists(t)
    /\ krec[t] # NoTask => krec[t].state = "canceled"

\* An accepted task that is not settled is in the sorted set or has an entry
\* nobody is done with: the next record written for it comes before the XACK.
IsCarried(t) ==
  /\ Exists(t)
  /\ \/ Settled(t)
     \/ t \in zset
     \/ \E e \in stream \union pel : e.task = t /\ ~ Spent(e)

Carried == \A t \in accepted : IsCarried(t)

HoldingInv == EntriesInv /\ HeldIsPending /\ HeldOnce

\* An entry whose worker, if it has one still, is on its way to the dead-letter
\* queue, and which no recovery loop has begun to replace.
IsExhausted(e) ==
  /\ \A w \in Workers : wmsg[w] = e => wpc[w] \in {"dlq_xadd", "dlq_sadd"}
  /\ \A p \in Pools : rcur[p] # e

\* The entry that led to a failed record stays until the task is in the lookup set:
\* whoever takes it first makes the record pending again.
FailureKept(t) ==
  Exists(t) /\ store[t].state = "failed" =>
    t \in dlqSet \/ \E e \in pel : e.task = t /\ IsExhausted(e)

FailuresKept == \A t \in Tasks : FailureKept(t)

Undisputed == HoldingInv /\ Carried /\ FailuresKept

IInv == TypeInv /\ RequestInv /\ slow <= MaxSlow /\ (slow = 0 => Undisputed)

(***************************************************************************)
(* The inductive invariant behind QueuePromise.  As long as nothing        *)
(* disturbs the workers one thing at a time carries a task: an entry that  *)
(* is not spent, or a member of the sorted set that no scheduler has given *)
(* an entry again.  The tasks schedulers are about to take out of the set, *)
(* and those they have made pending, come as parameters: there are none    *)
(* here, and there are in TaskQueue.                                       *)
(***************************************************************************)
Unspent(t) == {e \in stream \union pel : e.task = t /\ ~ Spent(e)}

\* The worker has written the record it holds.
HasWritten(w) == wpc[w] \in {"execute", "sched_set", "sched_zadd"}

MayStart(t) == Exists(t) /\ store[t].attempts < MaxRetries[t]

\* The copies of the record that holders of the entry have are up to date, and a task
\* whose entry nobody runs is pending.
InStep(e) ==
  /\ Exists(e.task)
  /\ \A w \in Workers :
       wmsg[w] = e =>
         /\ At(w, "set_running") => wrec[w] = Start(store[e.task])
         /\ HasWritten(w) => wrec[w] = store[e.task]
         /\ wpc[w] \in {"sched_set", "sched_zadd"} =>
              store[e.task].state = "retrying" /\ MayStart(e.task)
  /\ (\A w \in Workers : wmsg[w] = e => ~ HasWritten(w)) =>
       store[e.task].state = "pending" /\ MayStart(e.task)
  /\ \A p \in Pools : \A b \in rbatch[p] : b.entry = e => b.rec = store[e.task]

OneCarrier(t, leaving, activated) ==
  /\ \A e, f \in Unspent(t) : e = f
  /\ \A e \in Unspent(t) : InStep(e)
  /\ t \in zset \ leaving =>
       /\ Unspent(t) = {}
       /\ MayStart(t)
       /\ store[t].state \in IF t \in activated THEN {"pending"} ELSE {"scheduled", "retrying"}

\* A creation that is not finished has at most its record.
InCreation(t) ==
  /\ cpc[t] # "created" => t \notin zset /\ Unspent(t) = {}
  /\ cpc[t] \in {"new", "set_pending", "set_scheduled"} => ~ Exists(t)
  /\ cpc[t] = "xadd" => store[t] = NewRecord("pending")
  /\ cpc[t] = "zadd" => store[t] = NewRecord("scheduled")

CalmInv == \A t \in Tasks : OneCarrier(t, {}, {}) /\ InCreation(t)

\* No stored record says dead_letter, and cancel requests are counted.
OutcomeInv ==
  \A t \in Tasks :
    /\ Exists(t) => store[t].state # "dead_letter"
    /\ krec[t] # NoTask => cancels > 0

PromiseIInv == IInv /\ OutcomeInv /\ (~ WorkersDisturbed => CalmInv)

(***************************************************************************)
(* Liveness.  A worker's loop and a recovery ticker keep running while the *)
(* process is up, handlers return, and a supervisor restarts a dead        *)
(* process.  Clients owe nothing.                                          *)
(***************************************************************************)
FairSpec ==
  /\ Spec
  /\ \A w \in Workers : WF_vars(WorkerNext(w))
  /\ \A p \in Pools : WF_vars(RecoveryNext(p)) /\ WF_vars(Restart(p))

\* Every accepted task reaches a final state or the sorted set, also after a
\* crash (README.md:15, at-least-once delivery with automatic recovery).
EventuallySettled ==
  \A t \in Tasks : t \in accepted ~> (t \in zset \/ Settled(t))

\* The streams and the pending entries list run empty: an entry stranded by the
\* four-stream read, refused by Start or left by a crash is always recovered
\* and acknowledged in the end (DequeueBlocking, processNextTask,
\* recoverOrphanedTasks).
QueuesDrain == <>[](stream = {} /\ pel = {})

=============================================================================
