----------------------------- MODULE RedisQueue -----------------------------
(***************************************************************************)
(* The state the service keeps in Redis, and the commands of               *)
(* internal/queue/redis_streams.go, scheduler.go and dlq.go on it.  Every  *)
(* process of the system (workers, recovery loops, API handlers, the       *)
(* scheduler) is a program over these variables in which one Redis command *)
(* is one atomic step: nothing in the code is a MULTI or a script.         *)
(***************************************************************************)
EXTENDS TaskState, FiniteSets

CONSTANTS
  Tasks,       \* the tasks clients may submit (a task stands for its uuid)
  Priority,    \* Priority[t] in 0..3, fixed when the task is created
  MaxRetries,  \* MaxRetries[t], fixed when the task is created
  NoTask,      \* the value of a task key that does not exist
  NoEntry      \* no stream entry

ASSUME PriorityAssumption   == Priority \in [Tasks -> 0..3]
\* New sets 3 and both FromRequest and Create only replace it by a value > 0.
ASSUME MaxRetriesAssumption == MaxRetries \in [Tasks -> Nat \ {0}]
ASSUME NoTaskAssumption     == NoTask \notin Record
\* In the hands of a scheduler or a worker NoTask stands for no task.
ASSUME NoTaskInHand         == NoTask \notin Tasks

VARIABLES
  store,   \* store[t]: the record under the key task:<t>, or NoTask
  stream,  \* entries XADDed to a priority stream, not yet delivered
  pel,     \* entries delivered to the consumer group, not acknowledged
  lastId,  \* number of XADDs to the priority streams: the id of the newest entry
  zset,    \* members of tasks:scheduled
  dlq,     \* entries of the dead-letter stream
  lastDlq, \* number of XADDs to the dead-letter stream
  dlqSet   \* the dead-letter lookup set

dlqVars == <<dlq, lastDlq, dlqSet>>

redisVars == <<store, stream, pel, lastId, zset, dlqVars>>

(***************************************************************************)
(* An entry names its task; the four priority streams are one set, told    *)
(* apart by the priority of the task.  NoEntry is outside it.              *)
(***************************************************************************)
Entry == [id : Nat \ {0}, task : Tasks]

ASSUME NoEntryAssumption == NoEntry \notin Entry

RedisTypeOK ==
  /\ store \in [Tasks -> Record \union {NoTask}]
  /\ stream \in SUBSET Entry
  /\ pel \in SUBSET Entry
  /\ lastId \in Nat
  /\ zset \in SUBSET Tasks
  /\ dlq \in SUBSET Entry
  /\ lastDlq \in Nat
  /\ dlqSet \in SUBSET Tasks

RedisInit ==
  /\ store = [t \in Tasks |-> NoTask]
  /\ stream = {}
  /\ pel = {}
  /\ lastId = 0
  /\ zset = {}
  /\ dlq = {}
  /\ lastDlq = 0
  /\ dlqSet = {}

Exists(t) == store[t] # NoTask

SetTask(t, r) == store' = [store EXCEPT ![t] = r]

DelTask(t) == store' = [store EXCEPT ![t] = NoTask]

\* XADD to the stream of t's priority.
XAddTask(t) ==
  /\ stream' = stream \union {[id |-> lastId + 1, task |-> t]}
  /\ lastId' = lastId + 1

\* DLQ.Add's XADD.  The copy of the record in the entry is not modelled: its
\* state is always dead_letter and its readers reset the attempts.
XAddDlq(t) ==
  /\ dlq' = dlq \union {[id |-> lastDlq + 1, task |-> t]}
  /\ lastDlq' = lastDlq + 1

SameStream(e, f) == Priority[e.task] = Priority[f.task]

\* The oldest undelivered entry of every priority stream that has one.
Heads == {e \in stream : \A f \in stream : SameStream(e, f) => e.id <= f.id}

\* The head of the first non-empty stream, in the order of the command.
IsFirstHead(e) ==
  e \in Heads /\ \A f \in Heads : Priority[f.task] <= Priority[e.task]

(***************************************************************************)
(* XREADGROUP with COUNT 1 over the four streams.  COUNT is per stream, so *)
(* the head of every non-empty stream moves to the pending entries list;   *)
(* DequeueBlocking goes on with the first of them only.                    *)
(***************************************************************************)
XReadGroup ==
  /\ stream # {}
  /\ stream' = stream \ Heads
  /\ pel' = pel \union Heads

XAck(e) == pel' = pel \ {e}

\* The order in which ClaimOrphanedTasks scans: streams from critical to low,
\* entries of a stream by id.
Precedes(e, f) ==
  \/ Priority[e.task] > Priority[f.task]
  \/ SameStream(e, f) /\ e.id < f.id

\* What GetQueueDepth adds up: delivered entries that nobody acknowledged.
QueueDepth == Cardinality(pel)

=============================================================================
