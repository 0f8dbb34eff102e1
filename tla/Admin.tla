-------------------------------- MODULE Admin --------------------------------
(***************************************************************************)
(* The requests of an operator that change the queues: RetryDLQ, ClearDLQ, *)
(* RetryTask and PurgeQueue of internal/api/handlers/admin.go, with DLQ.   *)
(* List, Retry, RetryAll, Remove and Clear (internal/queue/dlq.go) and     *)
(* Enqueue inlined, one Redis command per action, next to everything that  *)
(* TaskQueue does.                                                         *)
(*                                                                         *)
(* PurgeQueue deletes a stream together with its consumer group.  As long  *)
(* as one of the four streams has no group, the XREADGROUP of a worker,    *)
(* which names all four, is refused.                                       *)
(***************************************************************************)
EXTENDS TaskQueue

CONSTANTS
  Operators,    \* admin requests that may run at the same time
  Requests,     \* the kinds of requests that are made
  MaxRequests,  \* bound on the requests
  MaxRefusals   \* bound on the requests that are cut short

RequestKinds == {"retry", "retry_all", "retry_task", "clear", "purge"}

ASSUME AdminAssumption ==
  /\ Requests \subseteq RequestKinds
  /\ MaxRequests \in Nat
  /\ MaxRefusals \in Nat

VARIABLES
  apc,        \* the command a request issues next
  job,        \* the task it is about, its entry in the dead-letter stream, the record
  todo,       \* RetryAll: the entries of its list still to retry
  nogroup,    \* the streams without a consumer group
  requests,
  refusals,
  discarded   \* tasks an operator threw away entries of

requestVars == <<apc, job, todo, requests, refusals, discarded>>

adminVars == <<systemVars, requestVars, nogroup>>

Queues == 0..3

AdminPc == {"idle", "next", "update", "set", "xadd", "cleanup", "xdel", "srem",
            "clear_set", "group"}

\* The commands about one task.
RetryPc == {"update", "set", "xadd", "cleanup", "xdel", "srem"}

NoJob == NoTask

Job == [task : Tasks, entry : Entry \union {NoEntry}, rec : Record]

\* The argument of the request at "group" is the queue, at "clear_set" nothing.
AdminTypeInv ==
  /\ SystemTypeInv
  /\ apc \in [Operators -> AdminPc]
  /\ \A o \in Operators :
       /\ apc[o] \in RetryPc => job[o] \in Job
       /\ apc[o] \in {"xdel", "srem"} => job[o].entry # NoEntry
       /\ apc[o] = "next" => todo[o] # {}
       /\ apc[o] = "group" => job[o] \in Queues
       /\ apc[o] = "idle" => job[o] = NoJob /\ todo[o] = {}
  /\ todo \in [Operators -> SUBSET Entry]
  /\ nogroup \in SUBSET Queues
  /\ requests \in 0..MaxRequests
  /\ refusals \in 0..MaxRefusals
  /\ discarded \in SUBSET Tasks

AdminInit ==
  /\ SystemInit
  /\ apc = [o \in Operators |-> "idle"]
  /\ job = [o \in Operators |-> NoJob]
  /\ todo = [o \in Operators |-> {}]
  /\ nogroup = {}
  /\ requests = 0
  /\ refusals = 0
  /\ discarded = {}

(***************************************************************************)
(* One command of a request: what it leaves alone outside Redis.           *)
(***************************************************************************)
OutsideRedis ==
  UNCHANGED <<workerVars, recoveryVars, cpc, krec, cancels, aborts, crashes,
              races, schedulerVars>>

AdminGoto(o, pc) == apc' = [apc EXCEPT ![o] = pc]

Begin(o, kind) ==
  /\ apc[o] = "idle"
  /\ kind \in Requests
  /\ requests < MaxRequests
  /\ requests' = requests + 1
  /\ OutsideRedis
  /\ UNCHANGED <<accepted, refusals>>

Work(o, pc) ==
  /\ apc[o] = pc
  /\ OutsideRedis
  /\ UNCHANGED requests

\* Variant: the rest of the list is forgotten.
EndRequest(o) ==
  /\ AdminGoto(o, "idle")
  /\ job' = [job EXCEPT ![o] = NoJob]

\* The request, or this item of a RetryAll, is finished with.
EndItem(o) ==
  /\ AdminGoto(o, IF todo[o] = {} THEN "idle" ELSE "next")
  /\ job' = [job EXCEPT ![o] = NoJob]

(***************************************************************************)
(* RetryDLQ.  Retry looks for the first entry of the task in a list of the *)
(* whole stream; the message id of the request plays no role.  The record  *)
(* it writes is the copy kept in the entry, made by DLQ.Add.               *)
(***************************************************************************)
\* The task has an entry in the list an operator is shown, here without its limit
\* of 100 entries.
Listed(t) == EntryOf(t, dlq)

Older(e, f) == e.id <= f.id

FirstEntry(t) == CHOOSE e \in dlq : e.task = t /\ \A f \in dlq : f.task = t => Older(e, f)

\* The attempts of the copy are of no account, they are reset.
Copy == [state |-> "dead_letter", attempts |-> 0]

Find(o, t) ==
  /\ Listed(t)
  /\ job' = [job EXCEPT ![o] = [task |-> t, entry |-> FirstEntry(t), rec |-> Requeue(Copy)]]
  /\ AdminGoto(o, "set")

RetryOne(o, t) ==
  /\ Begin(o, "retry")
  /\ Find(o, t)
  /\ UNCHANGED <<redisVars, todo, nogroup, discarded>>

RetryAll(o) ==
  /\ Begin(o, "retry_all")
  /\ dlq # {}
  /\ todo' = [todo EXCEPT ![o] = dlq]
  /\ AdminGoto(o, "next")
  /\ UNCHANGED <<redisVars, job, nogroup, discarded>>

\* Retry lists the stream again for every entry of RetryAll's list.
RetryNext(o) ==
  /\ Work(o, "next")
  /\ \E e \in todo[o] :
       /\ \A f \in todo[o] : Older(e, f)
       /\ todo' = [todo EXCEPT ![o] = @ \ {e}]
       /\ \/ Find(o, e.task)
          \/ /\ ~ Listed(e.task)
             /\ AdminGoto(o, IF todo[o] = {e} THEN "idle" ELSE "next")
             /\ UNCHANGED job
  /\ UNCHANGED <<redisVars, accepted, refusals, nogroup, discarded>>

\* The SET and the XADD of Enqueue.
RetrySet(o) ==
  /\ Work(o, "set")
  /\ SetTask(job[o].task, job[o].rec)
  /\ AdminGoto(o, "xadd")
  /\ UNCHANGED <<stream, pel, lastId, zset, dlqVars, accepted, job, todo, refusals,
                 nogroup, discarded>>

RetryXAdd(o) ==
  /\ Work(o, "xadd")
  /\ XAddTask(job[o].task)
  /\ accepted' = accepted \union {job[o].task}
  /\ IF job[o].entry = NoEntry THEN EndItem(o)
                               ELSE AdminGoto(o, "xdel") /\ UNCHANGED job
  /\ UNCHANGED <<store, pel, zset, dlqVars, todo, refusals, nogroup, discarded>>

\* Variant: every entry of the task is removed.
RemoveXDelAll(o) ==
  /\ Work(o, "xdel")
  /\ dlq' = {e \in dlq : e.task # job[o].task}
  /\ AdminGoto(o, "srem")
  /\ UNCHANGED <<store, stream, pel, lastId, zset, lastDlq, dlqSet, accepted, job, todo,
                 refusals, nogroup, discarded>>

\* Remove, after the entry is back in the queue.
RemoveXDel(o) ==
  /\ Work(o, "xdel")
  /\ dlq' = dlq \ {job[o].entry}
  /\ AdminGoto(o, "srem")
  /\ UNCHANGED <<store, stream, pel, lastId, zset, lastDlq, dlqSet, accepted, job, todo,
                 refusals, nogroup, discarded>>

RemoveSRem(o) ==
  /\ Work(o, "srem")
  /\ dlqSet' = dlqSet \ {job[o].task}
  /\ EndItem(o)
  /\ UNCHANGED <<store, stream, pel, lastId, zset, dlq, lastDlq, accepted, todo, refusals,
                 nogroup, discarded>>

(***************************************************************************)
(* RetryTask: GET and the two checks, UpdateTask, then Enqueue.  The       *)
(* dead-letter queue is not looked at.                                     *)
(***************************************************************************)
RetryTask(o, t) ==
  /\ Begin(o, "retry_task")
  /\ Exists(t)
  /\ store[t].state \in {"failed", "dead_letter"}
  /\ job' = [job EXCEPT ![o] = [task |-> t, entry |-> NoEntry, rec |-> Requeue(store[t])]]
  /\ AdminGoto(o, "update")
  /\ UNCHANGED <<redisVars, todo, nogroup, discarded>>

UpdateTask(o) ==
  /\ Work(o, "update")
  /\ SetTask(job[o].task, job[o].rec)
  /\ AdminGoto(o, "set")
  /\ UNCHANGED <<stream, pel, lastId, zset, dlqVars, accepted, job, todo, refusals,
                 nogroup, discarded>>

(***************************************************************************)
(* ClearDLQ: the stream, then the lookup set.                              *)
(***************************************************************************)
TasksOf(S) == {e.task : e \in S}

ClearStream(o) ==
  /\ Begin(o, "clear")
  /\ dlq' = {}
  /\ discarded' = discarded \union TasksOf(dlq)
  /\ AdminGoto(o, "clear_set")
  /\ UNCHANGED <<store, stream, pel, lastId, zset, lastDlq, dlqSet, job, todo, nogroup>>

ClearSet(o) ==
  /\ Work(o, "clear_set")
  /\ dlqSet' = {}
  /\ AdminGoto(o, "idle")
  /\ UNCHANGED <<store, stream, pel, lastId, zset, dlq, lastDlq, accepted, job, todo,
                 refusals, nogroup, discarded>>

(***************************************************************************)
(* PurgeQueue: DEL of the stream, with the entries that are delivered and  *)
(* not acknowledged, then XGROUP CREATE ... MKSTREAM.  The records of the  *)
(* tasks stay.                                                             *)
(***************************************************************************)
Purged(q, S) == {e \in S : Priority[e.task] = q}

PurgeDel(o, q) ==
  /\ Begin(o, "purge")
  /\ stream' = stream \ Purged(q, stream)
  /\ pel' = pel \ Purged(q, pel)
  /\ nogroup' = nogroup \union {q}
  /\ discarded' = discarded \union TasksOf(Purged(q, stream \union pel))
  /\ job' = [job EXCEPT ![o] = q]
  /\ AdminGoto(o, "group")
  /\ UNCHANGED <<store, lastId, zset, dlqVars, todo>>

\* Variant: the group is created under another name.
PurgeGroupOther(o) ==
  /\ Work(o, "group")
  /\ job' = [job EXCEPT ![o] = NoJob]
  /\ AdminGoto(o, "idle")
  /\ UNCHANGED <<redisVars, accepted, todo, refusals, nogroup, discarded>>

PurgeGroup(o) ==
  /\ Work(o, "group")
  /\ nogroup' = nogroup \ {job[o]}
  /\ job' = [job EXCEPT ![o] = NoJob]
  /\ AdminGoto(o, "idle")
  /\ UNCHANGED <<redisVars, accepted, todo, refusals, discarded>>

(***************************************************************************)
(* A request cut short.  Its context is canceled, or Redis refuses a       *)
(* command: the handler answers 500 or, in PurgeQueue, logs and answers    *)
(* 200.  RetryAll goes on with the next entry when one command is refused, *)
(* and an XADD that is refused is followed by the clean-up of Enqueue.     *)
(***************************************************************************)
CutShort(o, pcs) ==
  /\ apc[o] \in pcs
  /\ refusals < MaxRefusals
  /\ refusals' = refusals + 1
  /\ OutsideRedis
  /\ UNCHANGED <<redisVars, accepted, requests, nogroup, discarded>>

Abandon(o) ==
  /\ CutShort(o, AdminPc \ {"idle"})
  /\ AdminGoto(o, "idle")
  /\ job' = [job EXCEPT ![o] = NoJob]
  /\ todo' = [todo EXCEPT ![o] = {}]

ItemRefused(o) ==
  /\ CutShort(o, {"set", "xdel", "srem"})
  /\ todo[o] # {}
  /\ EndItem(o)
  /\ UNCHANGED todo

\* Variant: the error of Enqueue is ignored.
XAddErrorIgnored(o) ==
  /\ CutShort(o, {"xadd"})
  /\ AdminGoto(o, "xdel")
  /\ UNCHANGED <<job, todo>>

XAddRefused(o) ==
  /\ CutShort(o, {"xadd"})
  /\ AdminGoto(o, "cleanup")
  /\ UNCHANGED <<job, todo>>

Cleanup(o) ==
  /\ Work(o, "cleanup")
  /\ DelTask(job[o].task)
  /\ EndItem(o)
  /\ UNCHANGED <<stream, pel, lastId, zset, dlqVars, accepted, todo, refusals, nogroup, discarded>>

OperatorStep(o) ==
  \/ RetryNext(o) \/ RetrySet(o) \/ RetryXAdd(o) \/ RemoveXDel(o) \/ RemoveSRem(o)
  \/ UpdateTask(o) \/ ClearSet(o) \/ PurgeGroup(o) \/ Cleanup(o)

NewRequest(o) ==
  \/ \E t \in Tasks : RetryOne(o, t) \/ RetryTask(o, t)
  \/ RetryAll(o) \/ ClearStream(o)
  \/ \E q \in Queues : PurgeDel(o, q)

(***************************************************************************)
(* The rest of the system.  No entry is delivered while a group is         *)
(* missing; a process that starts creates the groups that are not there    *)
(* (NewRedisQueue, initStreams); a record does not expire in the middle of *)
(* a request.                                                              *)
(***************************************************************************)
ProcessStarts ==
  \/ \E p \in Pools : rpc[p] = "stopped" /\ rpc'[p] # "stopped"
  \/ schedCrashes' # schedCrashes

AtTask(o, t) ==
  apc[o] \in RetryPc /\ job[o].task = t

RequestOn(t) == \E o \in Operators : AtTask(o, t)

Alongside ==
  /\ nogroup # {} => stream \subseteq stream'
  /\ nogroup' = IF ProcessStarts THEN {} ELSE nogroup
  /\ \A t \in accepted \ accepted' : ~ RequestOn(t)
  /\ UNCHANGED requestVars

AdminNext ==
  \/ SystemNext /\ Alongside
  \/ \E o \in Operators :
       NewRequest(o) \/ OperatorStep(o) \/ Abandon(o) \/ ItemRefused(o) \/ XAddRefused(o)

AdminSpec == AdminInit /\ [][AdminNext]_adminVars

(***************************************************************************)
(* A worker's loop, a recovery ticker and a scheduler's ticker keep        *)
(* running while their process is up; handlers return; a supervisor        *)
(* restarts a dead worker process; a lock left behind expires; every       *)
(* member of the sorted set is due some day; a request that was made runs  *)
(* on.  Clients and operators owe nothing.                                 *)
(***************************************************************************)
FairAdminSpec ==
  /\ AdminSpec
  /\ \A w \in Workers : WF_adminVars(SystemWorkerNext(w) /\ Alongside)
  /\ \A p \in Pools :
       /\ WF_adminVars(RecoveryNext(p) /\ UNCHANGED <<schedulerVars, races>> /\ Alongside)
       /\ WF_adminVars(Restart(p) /\ UNCHANGED <<schedulerVars, races>> /\ Alongside)
  /\ \A s \in Schedulers : SF_adminVars(SchedulerNext(s) /\ Alongside)
  /\ \A s \in Schedulers, t \in Tasks :
       SF_adminVars((\E due \in SUBSET zset : t \in due /\ ReadDue(s, due)) /\ Elsewhere /\ Alongside)
  /\ WF_adminVars(LockExpires /\ Elsewhere /\ Alongside)
  /\ \A o \in Operators : WF_adminVars(OperatorStep(o))

(***************************************************************************)
(* Properties.                                                             *)
(***************************************************************************)

\* A request has read or written the record and not added its entry yet.
InHand(t) ==
  \E o \in Operators : apc[o] \in {"update", "set", "xadd"} /\ job[o].task = t

\* What the retries are not proof against is left out: races and dead schedulers,
\* a worker that dies in addition to a request that was cut short, and a request next
\* to one that was cut short, whose clean-up deletes the record of both.
Quiet ==
  /\ slow + schedCrashes + expiries + races = 0
  /\ refusals = 0 \/ (crashes = 0 /\ requests <= 1)

\* A manual retry never loses the task: it is settled, waiting, the subject of an
\* entry or in the hands of the request, and when a request was cut short its
\* entry is still in the dead-letter stream or about to get there (Retry, RetryTask:
\* the order of SET, XADD and XDEL; the clean-up of Enqueue deletes the record).
RetryKeepsTask ==
  Quiet =>
    \A t \in accepted \ discarded :
      \/ /\ Exists(t)
         /\ \/ Settled(t)
            \/ t \in zset
            \/ EntryOf(t, stream \union pel)
            \/ InHand(t)
      \/ refusals > 0 /\ EntryOf(t, dlq \union pel)

\* A task whose record says failed is in the list an operator sees, or one of its
\* entries is still pending, retries and their removals included (handleTaskFailure
\* against Retry: XDEL names one entry, not the task).
FailedIsListed ==
  \A t \in Tasks \ discarded :
    Exists(t) /\ store[t].state = "failed" => EntryOf(t, dlq \union pel)

\* Once crashes and requests have stopped coming, every accepted task is in a final
\* state unless an operator discarded its entry, and nothing is left waiting: no
\* entry, no member of the sorted set, and no pending entry except those whose
\* record has expired, which ClaimOrphanedTasks claims over and over.  A purge that
\* is carried through stops nobody (README.md:15; handleTaskFailure, activateTask,
\* recoverOrphanedTasks, and the XGROUP CREATE of PurgeQueue).
EverythingSettles ==
  <>[](\/ refusals > 0
       \/ /\ \A t \in accepted \ discarded : Settled(t)
          /\ stream = {} /\ zset = {}
          /\ \A e \in pel : ~ Exists(e.task))

(***************************************************************************)
(* The inductive invariant behind these and behind AdminTypeInv.           *)
(***************************************************************************)

\* What the command of a request says about its argument and its list, and what the
\* counters say about the operators.
AdminControl ==
  /\ \A e \in dlq : e.id <= lastDlq
  /\ job = [o \in Operators |-> job[o]]
  /\ \A o \in Operators :
       /\ apc[o] \in {"next", "clear_set"} => job[o] = NoJob
       /\ apc[o] \in {"clear_set", "group"} => todo[o] = {}
       /\ apc[o] \in RetryPc =>
            /\ job[o].rec.state = "pending"
            /\ job[o].entry # NoEntry =>
                 job[o].entry.task = job[o].task /\ job[o].entry.id <= lastDlq
       /\ apc[o] = "cleanup" => refusals > 0
  /\ requests = 0 => refusals = 0 /\ \A o \in Operators : apc[o] = "idle"
  /\ requests <= 1 => \A o, q \in Operators : apc[o] # "idle" /\ apc[q] # "idle" => o = q

\* Whatever is held was delivered once, and nobody but a purge takes it away.
HeldWasDelivered ==
  \A e \in Holdings \ {NoEntry} :
    /\ e.id <= lastId /\ e \notin stream
    /\ e \in pel \/ e.task \in discarded

AdminHolding == EntriesInv /\ HeldWasDelivered /\ HeldOnce

\* Nobody but the API has heard of a task whose creation is not finished.
Unknown(t) ==
  /\ Unheard(t)
  /\ \A e \in Holdings \ {NoEntry} : e.task # t
  /\ ~ EntryOf(t, dlq)
  /\ \A o \in Operators : ~ AtTask(o, t) /\ ~ EntryOf(t, todo[o])
  /\ t \notin accepted /\ krec[t] = NoTask

\* Its record says how it is to be queued; no record says dead_letter, and what a
\* cancel request carries says canceled.
NewsInv ==
  \A t \in Tasks :
    /\ cpc[t] # "created" => Unknown(t)
    /\ cpc[t] \in {"new", "set_pending", "set_scheduled"} => ~ Exists(t)
    /\ cpc[t] = "xadd" => store[t] = NewRecord("pending")
    /\ cpc[t] = "zadd" => store[t] = NewRecord("scheduled")
    /\ cpc[t] = "aborted" /\ Exists(t) => store[t].state \in {"pending", "scheduled"}
    /\ Exists(t) => store[t].state # "dead_letter"
    /\ krec[t] # NoTask => krec[t].state = "canceled"

\* No request is about to remove the entry for good, or was when it was cut short.
IsLeft(n, pcs) == \A o \in Operators : apc[o] \in pcs => job[o].entry # n

\* The entry that led to a failed record stays until the task is in the dead-letter
\* stream; a request that removes that entry has made the record pending before.
ListKept(t) ==
  Exists(t) /\ store[t].state = "failed" =>
    \/ \E n \in dlq : n.task = t /\ IsLeft(n, {"xadd", "cleanup", "xdel"})
    \/ \E e \in pel :
         /\ e.task = t
         /\ \A w \in Workers : wmsg[w] = e => At(w, "dlq_xadd")
         /\ \A p \in Pools : rcur[p] # e
         /\ crashes = 0 => HeldByWorker(e)

FailuresListed == \A t \in Tasks \ discarded : ListKept(t)

\* A request that is cut short leaves the entry of its task, or a worker adds one.
StaysListed(t) ==
  \/ \E n \in dlq : n.task = t /\ IsLeft(n, {"xdel"})
  \/ \E w \in Workers : At(w, "dlq_xadd") /\ task(w) = t

RetriesListed ==
  crashes = 0 /\ requests <= 1 =>
    \A o \in Operators :
      apc[o] \in {"update", "set", "xadd", "cleanup"} =>
        job[o].task \in discarded \/ StaysListed(job[o].task)

\* The entry is in nobody's hands or in those of a worker at one of these commands, and
\* no recovery loop has replaced it.
Loose(e, pcs) ==
  /\ \A w \in Workers : wmsg[w] = e => wpc[w] \in pcs
  /\ \A p \in Pools : ~ RecoverySpent(p, e)

EntryAt(t, pcs) == \E e \in stream \union pel : e.task = t /\ Loose(e, pcs)

\* Where a worker may be that carries a task, and one that is waiting.
Unsettled == {"get", "set_running", "execute"}

Unscheduled == Unsettled \union {"sched_set", "sched_zadd"}

\* Whoever wrote the record last still carries the task, or has handed it on.
IsKept(t) ==
  /\ Exists(t)
  /\ \/ Settled(t) \/ InHand(t) \/ t \in OnHand("xadd")
     \/ EntryAt(t, Unsettled)
     \/ Waiting(t) /\ (EntryAt(t, Unscheduled) \/ t \in zset \ OnHand("zrem"))

KeptInv ==
  /\ \A t \in accepted \ discarded : IsKept(t) \/ (refusals > 0 /\ StaysListed(t))
  /\ \A o \in Operators : apc[o] = "xadd" => Exists(job[o].task)
  /\ \A s \in Schedulers : sbatch[s] \subseteq zset

AdminIInv ==
  /\ AdminTypeInv /\ AdminControl /\ LockInv /\ NewsInv
  /\ slow = 0 => AdminHolding /\ FailuresListed /\ RetriesListed
  /\ Quiet => KeptInv

=============================================================================
