------------------------------ MODULE Recovery ------------------------------
(***************************************************************************)
(* The recovery loop of a worker pool: recoverOrphanedTasks                *)
(* (internal/worker/pool.go) with ClaimOrphanedTasks and Enqueue inlined.  *)
(* A tick claims a batch of idle entries, reading the record of each as it *)
(* goes, and only then re-enqueues them one by one: SET of the record as   *)
(* it was read, XADD of a new entry, XACK of the old one.                  *)
(*                                                                         *)
(* An entry is idle when nobody touched it for claimMinIdle.  Time is      *)
(* abstracted: an entry nobody is working on may be idle at any moment;    *)
(* one that a worker or another batch still holds is claimed only by a     *)
(* slow claim, the case of a handler that outlives claimMinIdle, and there *)
(* are at most MaxSlow of these.                                           *)
(***************************************************************************)
EXTENDS Worker

CONSTANTS Pools, MaxSlow

ASSUME MaxSlowAssumption == MaxSlow \in Nat

VARIABLES
  rpc,     \* where the recovery loop of each pool is
  rclaim,  \* the entry XCLAIM returned, before GET
  rbatch,  \* claimed entries with the record read, not yet settled
  rcur,    \* the element of the batch being re-enqueued
  slow     \* slow claims so far

recoveryVars == <<rpc, rclaim, rbatch, rcur, slow>>

\* "del" is the clean-up of an XADD that failed (RedisFaults).
RecoveryPc == {"scan", "get", "requeue", "xadd", "del", "ack", "stopped"}

Claimed == [entry : Entry, rec : Record]

RecoveryTypeOK ==
  /\ rpc \in [Pools -> RecoveryPc]
  /\ rclaim \in [Pools -> Entry \union {NoEntry}]
  /\ rbatch \in [Pools -> SUBSET Claimed]
  /\ rcur \in [Pools -> Entry \union {NoEntry}]
  /\ slow \in Nat

RecoveryInit ==
  /\ rpc = [p \in Pools |-> "scan"]
  /\ rclaim = [p \in Pools |-> NoEntry]
  /\ rbatch = [p \in Pools |-> {}]
  /\ rcur = [p \in Pools |-> NoEntry]
  /\ slow = 0

InBatch(p, e) == \E b \in rbatch[p] : b.entry = e

RecoveryHolds(p, e) == e = rclaim[p] \/ e = rcur[p] \/ InBatch(p, e)

HeldByWorker(e) == \E w \in Workers : wmsg[w] = e

Held(e) == HeldByWorker(e) \/ \E p \in Pools : RecoveryHolds(p, e)

\* Everything anybody holds, with NoEntry for the hands that are empty.
Holdings ==
  {wmsg[w] : w \in Workers}
    \union UNION {{rclaim[p], rcur[p]} \union {b.entry : b \in rbatch[p]} : p \in Pools}

\* Variant: without the test of the idle time.
ClaimAny(p, e) ==
  /\ rpc[p] = "scan"
  /\ e \in pel
  /\ ~ RecoveryHolds(p, e)
  /\ \A b \in rbatch[p] : Precedes(b.entry, e)
  /\ rclaim' = [rclaim EXCEPT ![p] = e]
  /\ rpc' = [rpc EXCEPT ![p] = "get"]
  /\ UNCHANGED <<redisVars, workerVars, rbatch, rcur, slow>>

\* Variant: the loop over the priorities leaves out the lowest one.
ClaimAboveLowest(p, e) ==
  /\ rpc[p] = "scan"
  /\ e \in pel
  /\ Priority[e.task] > 1
  /\ ~ Held(e)
  /\ \A b \in rbatch[p] : Precedes(b.entry, e)
  /\ rclaim' = [rclaim EXCEPT ![p] = e]
  /\ rpc' = [rpc EXCEPT ![p] = "get"]
  /\ UNCHANGED <<redisVars, workerVars, rbatch, rcur, slow>>

\* XPENDING and XCLAIM of one entry; the scan meets entries in order.
Claim(p, e) ==
  /\ rpc[p] = "scan"
  /\ e \in pel
  /\ ~ RecoveryHolds(p, e)
  /\ \A b \in rbatch[p] : Precedes(b.entry, e)
  /\ IF Held(e) THEN slow < MaxSlow /\ slow' = slow + 1
                ELSE UNCHANGED slow
  /\ rclaim' = [rclaim EXCEPT ![p] = e]
  /\ rpc' = [rpc EXCEPT ![p] = "get"]
  /\ UNCHANGED <<redisVars, workerVars, rbatch, rcur>>

\* GetTask of a claimed entry.  Without a record the entry is left where it is.
ReadMissing(p) ==
  /\ rpc[p] = "get"
  /\ ~ Exists(rclaim[p].task)
  /\ rclaim' = [rclaim EXCEPT ![p] = NoEntry]
  /\ rpc' = [rpc EXCEPT ![p] = "scan"]
  /\ UNCHANGED <<redisVars, workerVars, rbatch, rcur, slow>>

ReadClaimed(p) ==
  /\ rpc[p] = "get"
  /\ Exists(rclaim[p].task)
  /\ rbatch' = [rbatch EXCEPT
       ![p] = @ \union {[entry |-> rclaim[p], rec |-> store[rclaim[p].task]]}]
  /\ rclaim' = [rclaim EXCEPT ![p] = NoEntry]
  /\ rpc' = [rpc EXCEPT ![p] = "scan"]
  /\ UNCHANGED <<redisVars, workerVars, rcur, slow>>

IsNext(p, b) ==
  b \in rbatch[p] /\ \A c \in rbatch[p] : c = b \/ Precedes(b.entry, c.entry)

\* PrepareForRequeue and the SET of Enqueue: the record is overwritten with
\* the one read during the scan, forced to pending.
RequeueSet(p) ==
  /\ rpc[p] \in {"scan", "requeue"}
  /\ \E b \in rbatch[p] :
       /\ IsNext(p, b)
       /\ SetTask(b.entry.task,
                  PrepareForRequeue(b.rec, MaxRetries[b.entry.task]))
       /\ rbatch' = [rbatch EXCEPT ![p] = @ \ {b}]
       /\ rcur' = [rcur EXCEPT ![p] = b.entry]
  /\ rpc' = [rpc EXCEPT ![p] = "xadd"]
  /\ UNCHANGED <<stream, pel, lastId, zset, dlqVars, workerVars, rclaim, slow>>

RequeueXAdd(p) ==
  /\ rpc[p] = "xadd"
  /\ XAddTask(rcur[p].task)
  /\ rpc' = [rpc EXCEPT ![p] = "ack"]
  /\ UNCHANGED <<store, pel, zset, dlqVars, workerVars, rclaim, rbatch, rcur, slow>>

\* The tick ends with the last element of the batch.
AfterItem(p) == IF rbatch[p] = {} THEN "scan" ELSE "requeue"

RequeueAck(p) ==
  /\ rpc[p] = "ack"
  /\ XAck(rcur[p])
  /\ rcur' = [rcur EXCEPT ![p] = NoEntry]
  /\ rpc' = [rpc EXCEPT ![p] = AfterItem(p)]
  /\ UNCHANGED <<store, stream, lastId, zset, dlqVars, workerVars, rclaim, rbatch, slow>>

RecoveryStep(p) ==
  \/ \E e \in pel : Claim(p, e)
  \/ ReadMissing(p) \/ ReadClaimed(p)
  \/ RequeueSet(p) \/ RequeueXAdd(p) \/ RequeueAck(p)

\* The old entry is settled: its successor is in the stream.
RecoverySpent(p, e) == rpc[p] = "ack" /\ rcur[p] = e

\* Some holder of e has written the last record it will write for its task.
Spent(e) ==
  \/ \E w \in Workers : wmsg[w] = e /\ WorkerSpent(w)
  \/ \E p \in Pools : RecoverySpent(p, e)

=============================================================================
