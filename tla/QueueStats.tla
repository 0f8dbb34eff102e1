------------------------------ MODULE QueueStats ------------------------------
(***************************************************************************)
(* GET /admin/queues and GET /api/v1/tasks: GetQueueStats reads the length *)
(* and the pending entries of one stream after the other and then the      *)
(* sorted set, the handlers add the size of the dead-letter queue.  Other  *)
(* processes go on meanwhile.  A command that is refused leaves a 0 in the *)
(* answer.                                                                 *)
(***************************************************************************)
EXTENDS WorkerSystem

VARIABLES
  length,  \* length[q]: entries in the stream of priority q, consumed ones included
  at,      \* the command the request issues next; "over" is answered
  queue,   \* the stream it reads
  stats    \* the answer so far, afterwards what the gauges show

statsVars == <<vars, length, at, queue, stats>>

Queues == 0..3

None == [q \in Queues |-> 0]

\* PriorityStats and QueueStats; the totals are sums over them.
NoStats == [queued |-> None, pending |-> None, scheduled |-> 0, dlq |-> 0]

StatsInit ==
  /\ Init
  /\ length = None
  /\ at = "idle" /\ queue = 3
  /\ stats = NoStats

Of(q, S) == {e \in S : Priority[e.task] = q}

Ask ==
  /\ at \in {"idle", "over"}
  /\ at' = "xlen" /\ queue' = 3
  /\ stats' = NoStats
  /\ UNCHANGED <<vars, length>>

Answered(field, value, next) ==
  /\ stats' = [stats EXCEPT ![field] = value] \/ UNCHANGED stats
  /\ at' = next
  /\ UNCHANGED <<vars, length>>

ReadLength ==
  /\ at = "xlen"
  /\ Answered("queued", [stats.queued EXCEPT ![queue] = length[queue]], "xinfo")
  /\ UNCHANGED queue

ReadPending ==
  /\ at = "xinfo"
  /\ Answered("pending",
              [stats.pending EXCEPT ![queue] = Cardinality(Of(queue, pel))],
              IF queue = 0 THEN "zcard" ELSE "xlen")
  /\ queue' = IF queue = 0 THEN 3 ELSE queue - 1

ReadScheduled ==
  /\ at = "zcard"
  /\ Answered("scheduled", Cardinality(zset), "scard")
  /\ UNCHANGED queue

ReadDlqSize ==
  /\ at = "scard"
  /\ Answered("dlq", Cardinality(dlqSet), "over")
  /\ UNCHANGED queue

\* XADD makes a stream longer, and neither a delivery nor XACK makes it shorter.
Meanwhile ==
  /\ Next
  /\ length' = [q \in Queues |-> length[q] + Cardinality(Of(q, stream' \ stream))]
  /\ UNCHANGED <<at, queue, stats>>

StatsNext == Ask \/ ReadLength \/ ReadPending \/ ReadScheduled \/ ReadDlqSize \/ Meanwhile

StatsSpec == StatsInit /\ [][StatsNext]_statsVars

(***************************************************************************)
(* What the documentation promises and the code does not keep.             *)
(***************************************************************************)

\* What is counted as queued are messages not yet acknowledged, at the moment they
\* are counted (redis_streams.go:310, "all messages not yet ACKed", and 331;
\* docs/openapi.yaml:610).  XLEN counts every message ever added.
QueuedIsBacklog ==
  [][at = "xlen" /\ at' = "xinfo" =>
       stats'.queued[queue] <= Cardinality(Of(queue, stream \union pel))]_statsVars

=============================================================================
