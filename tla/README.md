# A verification of task-queue-go in TLA+

task-queue-go is a distributed task queue: API servers accept tasks over HTTP, worker
processes run them, and everything they share is in Redis. This directory holds TLA+ models
of the part that must not go wrong, the path of a task from its submission to a final state,
of what operators do to it, of the life of a worker process, of the event stream from the hub to
the client and of the rate limiter, an abstract specification of what a task is promised, the TLC
configurations that check them, and TLAPS proofs.

Line numbers below are those of the repository.

## 1. The system

### Components

| Component | Code | State it keeps | Operations |
|---|---|---|---|
| Task life cycle | `internal/task/state.go`, `task.go`, `retry.go` | state and attempt counter of a task record | the transitions of `StateMachine`; `CanRetry`; `ScheduleRetry`, `PrepareForRequeue`; backoff |
| Redis queue | `internal/queue/redis_streams.go` | keys `task:<id>`; four priority streams with one consumer group; its pending entries list (PEL) | `Enqueue`, `DequeueBlocking`, `Acknowledge`, `GetTask`, `UpdateTask`, `GetQueueDepth`, `ClaimOrphanedTasks` |
| Worker goroutine | `internal/worker/pool.go`, `executor.go` | the entry it was handed and its own copy of the record | `processNextTask`, `handleTaskSuccess`, `handleTaskFailure` |
| Orphan recovery | `internal/worker/pool.go` | a batch of claimed entries and records | `recoveryLoop`, `recoverOrphanedTasks` |
| Scheduler | `internal/queue/scheduler.go` | sorted set `tasks:scheduled`; key `scheduler:lock` | `processDueTasks`, `activateTask`, `ScheduleTaskFunc` |
| Dead-letter queue | `internal/queue/dlq.go` | a stream and a lookup set | `Add`, `List`, `Remove`, `Retry`, `RetryAll`, `Clear` |
| Task API | `internal/api/handlers/task.go` | none of its own | `Create`, `Cancel`, `Get`, `List` |
| Admin API | `internal/api/handlers/admin.go` | none of its own | `RetryTask`, `RetryDLQ`, `ClearDLQ`, `PurgeQueue`, `PauseWorker`, `ResumeWorker` |
| Pool life cycle | `internal/worker/pool.go` | pool state, channels, semaphore, wait group | `Start`, `Stop`, `Pause`, `Resume` |
| Heartbeat, registry | `internal/worker/heartbeat.go` | keys with a TTL, set of workers | beat, listing, pause flag |
| WebSocket hub | `internal/api/websocket` | set of clients, channels | `Run`, `Stop`, register, broadcast, pumps |
| Events | `internal/events` | Redis pub/sub channels | `Publish`, `SubscribeAll` |
| Go client, event stream | `pkg/client/websocket.go`, `client.go` | connection, done channel, events channel | `Connect`, `readLoop`, `Events`, `Close` |
| Rate limiter | `internal/api/middleware/ratelimit.go` | a map of token buckets, one per client | `GetLimiter`, `Allow`, clean-up |
| Queue statistics | `redis_streams.go`, `admin.go`, `task.go` | gauges with the last answer | `GetQueueStats`, `GetQueues`, `List` |
| Others | config, logger, metrics, auth, HTTP bindings, dashboard, examples | | |

### How they interact

Workers, recovery loops, schedulers and request handlers never call each other. They share
the Redis keys, and each of them is a sequence of single Redis commands: the code contains no
`MULTI`, no script and no compare-and-set. A task record is read once, changed in memory and
written back whole. So every pair of commands is a place where another process may act or the
process may die, and the models have one action per command.

### What is hard

* **Order against crashes.** A task is safe because its entry is acknowledged after its new
  record, its sorted-set member or its dead-letter entry is written. Recovery adds the new
  entry before it acknowledges the old one.
* **Stale copies.** A worker, a recovery batch and a cancel request each write back a record
  they read several commands earlier.
* **Two owners.** `XCLAIM` goes by idle time: the entry of a slow handler is taken from it.
* **Stranded entries.** `XREADGROUP COUNT 1` over four streams delivers one entry of *each*
  non-empty stream; `DequeueBlocking` looks at the first, the rest wait in the PEL for
  recovery. So does an entry whose task `Start` refuses.
* **Partial failures.** Each command may fail; the branches log, return, continue, or delete
  the record ("Cleanup on failure").
* **Operators** retry a task from its dead-letter entry in four commands while a worker may fail
  it once more, clear the DLQ between an entry's two commands, or delete a stream under its readers.
* **The scheduler** takes a lock with a TTL, releases it without a check, and activates a task
  in three commands during which the task may already be executed.
* **Goroutines and channels.** Inside a process the opposite holds: a worker pool and a hub are
  goroutines that meet in `select` statements, wait groups and closed channels, where the order
  of a close, a last receive and a shutdown decides whether everything ends.

`PROJECT.json` lists the hazards by line with the properties that cover them.

### What makes the components correct

* Task life cycle: no transition outside the table; no more attempts than `MaxRetries`; final
  states are final.
* Queue, workers, recovery: an accepted task is never lost; an exhausted one reaches the DLQ;
  no entry has two owners unless a handler was too slow; everything is settled in the end.
* Scheduler: one at a time; a waiting task is activated, and only in a waiting state.
* API: what is answered 201 is stored and queued; a cancel does not lose a task.
* Pool: a shutdown ends, whatever handlers do, and is called graceful only when nothing is left
  running; a paused pool goes on after the resume.
* Registry: a running worker is listed; one that ended in order is not, whatever was under way.
* Admin API: a retry puts the task back without ever leaving it in no queue; it removes the entry
  it queued and no other.
* Hub: no client misses an event and stays; no channel is closed twice; pumps and `Stop` end.
* Client: events arrive in order, an overflow costs the oldest ones, `Close` ends the reader.
* Rate limiter: one bucket per client and round; no window lets more through than burst and rate;
  nobody below the rate is refused.

## 2. The modules

```
TaskState            the life cycle of one record (pure operators)
  RedisQueue         the Redis state and its commands
    Worker           processNextTask, handleTaskSuccess, handleTaskFailure
      Recovery       recoverOrphanedTasks
        TaskApi      Create, Cancel, expiry of records
          WorkerSystem   composition, crashes, properties, inductive invariant
            WorkerSystemProofs
            QueueStats   GetQueueStats beside the workers
    Scheduler        processDueTasks, activateTask, the lock
  TaskQueue          WorkerSystem and Scheduler together
    TaskQueueProofs
    RedisFaults      TaskQueue with commands that are refused
      FaultProofs
    Admin            TaskQueue with the requests of operators
      AdminProofs
WorkQueue            what a task is promised, refined by WorkerSystem and TaskQueue
  PromiseProofs      both refinements
Heartbeat            the worker registry in Redis, its readers, the admin's pause flag
  PoolControl        one worker process: Start, Stop, Pause, Resume, the goroutines
    PoolControlProofs
Hub                  the WebSocket hub, its forwarder and the pumps of its clients
  EventClient        the Go client at the other end of the connection
    EventStreamProofs  about the hub, alone and with the client
RateLimiter          GetLimiter, Allow, the clean-up
  RateLimiterProofs
MCWorkerSystem, MCTaskQueue, MCRedisFaults, MCAdmin, MCQueueStats,
MCPoolControl, MCEventClient, MCRateLimiter     instances for TLC
```

**TaskState.** A record keeps the state and the attempt counter, the two fields decisions
read. `Transition(r, target)` returns `r` unchanged when the table refuses, which is the error
the callers ignore; those that look at it have `CanTransitionTo` in their guard.

**RedisQueue.** `store` holds the records, `stream` the undelivered entries of all four
streams (an entry's priority is its task's), `pel` the delivered unacknowledged ones, `zset`
the members of `tasks:scheduled`, `dlq` and `dlqSet` the two keys of the dead-letter queue.
`XReadGroup` moves the head of every non-empty stream to the PEL.

**Worker.** `wpc` is the command a goroutine issues next, `wmsg` the entry it holds, `wrec`
its copy of the record. `SetCompleted`, `SetRetrying` and `SetFailed` are the outcomes of a
handler: a result, or an error (panic, timeout and missing handler included) with or without
an attempt left.

**Recovery.** `Claim` is `XPENDING` and `XCLAIM` of one entry, `ReadClaimed` its `GET`; after
any number of these the batch is worked off in scan order: `RequeueSet`, `RequeueXAdd`,
`RequeueAck`. Time is abstracted. An entry in nobody's hands may be idle for `claimMinIdle` at
any moment; one that is held is claimed only by a *slow claim*, at most `MaxSlow` of them. With
`MaxSlow = 0` handlers return and batches are worked off within `claimMinIdle`.

**TaskApi.** `cpc[t]` is where the request that creates `t` stands, `krec[t]` the canceled
record a cancel request is about to write. `accepted` is a history variable: the tasks whose
submission was answered 201, until their record expires. `AbortCreate` is a client that
disconnects half way. `CancelSet` has `~ CancelRemovesSchedule` in its guard because task.go:187
tests the state after `sm.Cancel()` has set it to canceled: the `ZREM` of line 188 is never
reached, and a canceled task stays in the sorted set until the scheduler drops it. `Expire` is
the TTL of a final record; it fires only when nobody is in the middle of anything with the
task, because the TTL is days.

**WorkerSystem.** `Crash(p)` empties the hands of all goroutines of a process; `Restart(p)`
brings it back. `PoolOf` says which process a goroutine belongs to.

**Scheduler.** One action per command. `ReadDue` may pick any subset of the sorted set: the
scores are times, and any of them may have come. `LockExpires` is the TTL: free when nobody is
at work (after a crash), counted by `MaxExpiries` when a taker still is. `SchedulerCrash` is
an API server that dies and is started again.

**TaskQueue.** The composition. `MaxRaces` bounds one interleaving by name, a worker that puts
a retry back into the sorted set between the scheduler's `XADD` and `ZREM` of the same task,
because it loses the task (see RetryOvertaken); the other runs exclude it to see whether
anything else is wrong.

**RedisFaults.** One action per error branch. A refused command has no effect. At most
`MaxFaults` commands are refused, of different kinds; `refused` remembers which.

**Admin.** `apc[o]` is the command a request of operator `o` issues next, `job[o]` the task, the
dead-letter entry and the record it works on, `todo[o]` the rest of the list `RetryAll` goes
through. `DLQ.Retry` inlines `List`, the forced requeue of the copy kept in the entry, `Enqueue`
and `Remove`: the actions `RetrySet`, `RetryXAdd`, `RemoveXDel`, `RemoveSRem`. A request may be cut
short at every command, by Redis or by an operator who disconnects: `Abandon` ends the request,
`ItemRefused` ends one item of `RetryAll` (dlq.go:178-183 goes on with the next), `XAddRefused`
leads to the clean-up of `Enqueue`, which deletes the record. `PurgeDel` deletes a stream with its
pending entries and its group; `nogroup` is the set of streams without a group, and while it is
not empty no `XREADGROUP` is answered (`Alongside`). A process that starts creates missing groups.
`discarded` is history: the tasks whose entries an operator threw away on purpose. `Quiet` names what
`RetryKeepsTask` excludes: what can lose a task without an operator (slow handlers, dead schedulers,
expired locks, overtaken retries), a worker that dies in addition to a request that was cut short,
and a second request next to one that was cut short (section 3).

**QueueStats.** One reading of the statistics, a command at a time, beside WorkerSystem. `length[q]`
is what `XLEN` answers: the number of `XADD`s, because nothing shortens a priority stream.

**WorkQueue.** The abstract specification, at-least-once execution without streams, entries and
records. A task is *absent*, *open* or has an outcome; `busy[w]` is the task whose handler worker
`w` runs. Undisturbed, a task is run by one worker at a time, at most `MaxRuns` times, and its outcome
is final. After a disturbance (a crash, a slow handler, a cancel request; in TaskQueue also a
scheduler that dies and a lock that expires early) a task may run twice at once and be opened
again, but still only a run of its handler completes or fails it and only a cancel request cancels
it. A retry that overtakes the scheduler is no disturbance: the retry it loses never starts. The
refinement mappings are `Queue` in WorkerSystem and `Service` in TaskQueue: `status` is read off the
record, `answered` is `accepted`, `busy` comes from the workers at *execute*, `runs` is the attempt
counter of the record.

**Heartbeat.** `active`, `beatKey`, `infoKey` and `pauseKey` are the four keys of one worker.
A beat is three commands. `GetActiveWorkers` is three too, and its `SREM` may come any time
after the `GET` that found nothing. Keys expire when a beat is late, at most `MaxLate` times
while the heartbeat runs; the information never before the beat, since it lives twice as long.

**PoolControl.** `mpc` is where `main` stands, in `Start`, serving, or in `Stop`; `wpc[w]` the
point of the worker loop (pool.go:227-277), `rpc` that of the recovery loop. What a worker does
with a task is module Worker; here it is the one step from "process" to "release", which need
not come. A channel that is only ever closed and replaced, as `resumeCh` is, is the number of
channels closed so far: a worker waits on the number it read and goes on when more have been
closed. `pauseCh` is closed and never received from. `extra[w]` counts dequeues since the close
of `stopCh`. `main` cancels its context after `Stop` has returned, so no `ctx.Done()` branch is
taken.

**Hub.** `fwd` and `hub` are the goroutines of `Run`, `reader` and `writer` the pumps of a client.
Buffered channels are sequences with the capacities as constants. `leavers[c]` counts the
goroutines `broadcastEvent` starts for a full client, each blocked on the hub's own channel.
`closes`, `sent`, `got`, `joined` and `missed` are history: what was closed, broadcast,
delivered and skipped. `Register` and `Unregister` are unbuffered sends, one step with their
receive. `Subscribe` may fail, and then `Run` returns at once.

**EventClient.** `wire[c]` are the messages on their way to a client; a message is the sequence of
events one turn of `WritePump` put into it. `ws[c]` is where `readLoop` stands, `events` its channel,
`taken` what the application received. `skipped` and `overrun` are history: events in messages
`json.Unmarshal` rejected, and events dropped to make room. Of the read errors only that they come
is modelled: any time, and in the end when either side has closed. A client connects once, as
`ConnectWebSocket` makes a new `WebSocketClient` for every connection.

**RateLimiter.** What happens under a lock is one step: the look-up under the read lock (`Found`,
`NotFound`), the second look with the creation (`Make`), `Allow` (`Grant`, `Refuse`). Time is counted in
ticks, `Ticks` to the second, and the bucket in `Ticks`-ths of a token, so that the arithmetic is exact
where the code's is float64. `total` and `before` are history: requests let through, in all and up to
each moment.

The modules also contain operators introduced as *variants*: an action changed the way a
plausible bug would change it (an acknowledgement too early, a dropped guard). Nothing uses
them. Each is put in the place of the original in a sensitivity check that a property must
fail; `PROJECT.json` lists the pairs under `mutants`.

## 3. The runs

`tlc -config <run>.cfg <module>`; modules, properties and a sentence on each run are in
`PROJECT.json`.

### Runs that pass

| Run | Instance | Shows |
|---|---|---|
| WorkerCrash | 2 tasks (high and normal; 1 and 2 attempts), 2 processes of one worker, 1 crash and restart at any point, expiry of records; 1.6 M states | `NoLostTask`: an accepted task is final, in the sorted set, or the subject of an undelivered or unacknowledged entry. `FailedReachesDLQ`: a failed task is in the DLQ or still pending. `QueuePromise`: WorkQueue is implemented |
| WorkerLive | 2 tasks, 1 process, 1 crash, 1 cancel request; fairness; 565 k states | `EventuallySettled`, `QueuesDrain`: what is stranded, refused by `Start` or left by a crash is recovered and acknowledged |
| QueueChaos | 1 task, 2 API servers, 1 death of one, 1 early expiry of the lock, 1 overtaken retry; 1.8 M states | `LostIsWaiting`: the only tasks lost this way are recorded pending or retrying, so an operator can tell; `SchedulerExclusion` while the lock does not expire early; `ServicePromise`: WorkQueue is implemented, retries included |
| FaultAll | 1 task, 1 refused command of any kind anywhere, 1 worker crash; 203 k states | `NoTaskVanishes` for refused SET, ZREM and XACK; `HeldOnce`, `LookupIsSound`, `DeadLetterCommitted` for all |
| AdminLive | 1 task with a retry, 1 process, 1 scheduler, 1 crash, 1 abandoned submission, expiry, 1 admin request of any kind, cut short at any command or not; fairness; 254 k states | `RetryKeepsTask`, `FailedIsListed`: a retry neither loses the task nor a dead-letter entry added meanwhile; `EverythingSettles`: every task ends in a final state and all queues drain |
| PoolLife | 1 worker goroutine, the recovery loop, heartbeat, 1 reader, 1 operator, 1 pause, 1 late beat, a signal at any point; fairness; 202 k states | `StopReturns` with a handler that hangs; `GracefulMeansDone`, `OneMoreTask`, `NoGhostWorker` over the shutdown; `StaysListed` against the reader's SREM; `KeepsDequeuing` through pauses of both kinds; `PoolInv` |
| EventStream | 1 client, 2 events, channels of capacity 1, a stop, a failed connection and a `Close` at any point; fairness; 142 k states | Hub: `CompleteView`, `NoSilentGap`, `ClosedOnce`, `PumpsEnd`, `StopReturns`, `HubInv`. Client: `FreshView`, `CloseEnds`, `ClientInv`. Both: `EveryEventAccounted`, `MissedIsTold` |
| Limiter | 1 client, 2 concurrent requests, 2 tokens, 3 ticks to the second, 7 ticks, 1 clean-up; 519 k states | `OneBucket`, `WindowBound`, `NoFalseRefusal`, `LimitInv` |

The bounds. Two tasks on different streams are the least that strands an entry, and two
processes the least for a claim from a process other than the owner's. A crash in these models
empties hands and nothing else, so a second crash finds a state that a slower first one leaves
too; one crash at each point is what the order of commands is about. `MaxRetries` 1 and 2 reach
the exhausted and the retried outcome. One cancel request, one abandoned submission, one
refused command and one admin request suffice for the two-actor races the properties name: the
other actor is a worker, the scheduler or the recovery loop. The proofs of section 4 lift all bounds
for 30 of the 40 properties: every safety property of the passing runs and both refinements. The
other ten are liveness properties.
One worker goroutine is enough where workers touch only the semaphore and the wait group in common,
both with room for every one of them, and a hub treats its clients one by one; the invariants of
PoolLife also hold with two workers (2.4 M states), those of the hub with two clients (2.6 M), and
those of EventStream with three events (0.9 M), where the liveness check takes too long. Capacity 1
makes every channel full after one event, so that two events fill the hub's buffer of a client or
join in one message, and skip or drop one. In Limiter seven ticks are two windows of a second and a rest, which
a refill that is not a whole token needs to show. WorkerCrash and Limiter use the symmetry of the
two processes or requests (the initial state, the actions and the properties treat them alike); the
liveness runs use none. Deadlock is checked where a scheduler polls for ever; in the other runs the
system may fall quiet: the workers of `WorkerSystem` with empty queues, a pool or a hub that ended,
an admin request cut short that left no group for workers to read, a clock at its bound.

Fairness. A worker loop and a ticker run on while their process is up (`for` loops over
`DequeueBlocking` and `time.Ticker`), a handler returns because its context has a timeout, and a
dead worker process is restarted by whatever supervises it (`docker compose` in
`deployments/docker`). Those are weak fairness of `WorkerNext`, `RecoveryNext`, `Restart`. The
schedulers get strong fairness, since one of them finds the lock taken whenever another has it,
and every member of the sorted set is due some day. Clients owe nothing: no fairness for
submission, cancel or crash.

`FairAdminSpec` is that of the whole service with one addition: an admin request, once made, runs on
(it may still be cut short). Operators owe no request.

In PoolControl, `main`, the worker loops and the heartbeat run on; a handler need not return and
a signal need not come. In `FairStreamSpec` the goroutines of the hub run on, reads and writes of a
closed connection fail, and a write ends at its deadline. Go's `select` picks at random among its ready
cases, so a case that is ready again and again is taken some time: that is the strong fairness of
`BeatEnd`, `ForwardStop`, `HubBroadcast`, `HubStop` and `HubUnregister`. `readLoop` and a `Close` that was
called run on; the application need not receive, nor call `Close`.

### Runs that end in a counterexample

| Run | What happens | Against |
|---|---|---|
| RetryOvertaken | The scheduler adds the entry (scheduler.go:142); a worker takes it, fails the task, and ZADDs the retry; the scheduler's ZREM (155) removes it. The task stays *retrying* for ever. No crash, no error | README.md:15 |
| CanceledRunsAgain | A canceled pending task keeps its entry; `Start` refuses it, recovery claims the entry and `PrepareForRequeue` forces *pending* | state.go:94, README.md:286 |
| BatchLost | Two events wait in the buffer of a client; `WritePump` writes both into one message (client.go:147-152), and the Go client skips the message as malformed (pkg/client/websocket.go:129-131) | docs/api.md:307 |
| QueuedGrows | A task was run and acknowledged; `XLEN` still counts its entry as queued | redis_streams.go:310-311, docs/openapi.yaml:610 |

Seen while modelling, in the models, and without a run of its own:

* An API server that dies between `UpdateTask` (scheduler.go:136) and `XADD` (142) leaves a *pending* task
  which the next tick takes for handled and removes from the sorted set (`SchedulerCrash`;
  QueueChaos with `NoLostTask` shows it, against README.md:15).
* A handler slower than `claimMinIdle` (30 s against a default handler timeout of 5 min) has its entry
  taken and runs twice at once, against docs/architecture.md:76 (`Claim` with `MaxSlow = 1`).
* The clean-up of a failed `ZADD` (scheduler.go:214) deletes the record of the task that pool.go:407-408
  means to leave for recovery (`ScheduleDel`); a refused `XADD` does the same to a recovered task
  (`RequeueDel`) and to one an operator retries (`Cleanup`). Two operators who retry the same
  task can lose it this way: one request succeeds and removes the dead-letter entry, the `XADD` of the
  other is refused, and its clean-up deletes the record the first has just written. All that is left is
  an entry without a record (`Quiet` allows one request at most once one was cut short).
* `DequeueBlocking` acknowledges an entry on any error of `GetTask` (`GetRefused`), and a refused
  `DLQ.Add` is only logged (`DlqRefused`).
* `DLQ.Add` marks its own copy dead_letter, so the stored record stays *failed*, where
  docs/architecture.md:137 has `FAILED → DEAD_LETTER`; `RetryTask` of such a task leaves its dead-letter
  entry behind, and `RetryDLQ` retries the oldest entry of the task whichever was named.
* `RemoveSRem` takes a task out of the lookup set although a newer entry of it may be in the stream.
* When the `XGROUP CREATE` of `PurgeQueue` fails, the answer is success (admin.go:355-357) and no worker
  is handed an entry of *any* stream until some process starts (`nogroup`; `EverythingSettles` excepts
  requests that were cut short).
* A pending entry without a record is claimed again for ever (`ReadMissing`).
* `GetQueueDepth` counts the PEL only, so the limit of README.md:223 does not see undelivered tasks
  (`QueueDepth`, `HasCapacity`). The statistics are read stream by stream and the sorted set last, so
  a task activated in between is counted nowhere.
* The branch that removes a canceled task from the sorted set cannot be reached, because task.go:187
  looks at the state after `sm.Cancel()` (`CancelRemovesSchedule`).
* A `Resume` between a worker's test of the state (pool.go:238) and its read of `resumeCh` (239) leaves
  it waiting until a second pause and resume (`MaxMissed`; nothing outside tests calls the two).
* `Hub.Stop` waits for ever when the forwarder stands before a full broadcast channel (hub.go:58) that
  the hub goroutine has left (`StopReturns` excepts this state); and after the hub has ended nobody
  receives from `unregister`, so `ReadPump` and the goroutines of `broadcastEvent` wait for ever, which
  the end of the process soon cures (`PumpsEnd`).
* The client of the rate limiter is `RemoteAddr` with its port when no X-Forwarded-For is set
  (ratelimit.go:138-141), that is one connection; every round of the clean-up gives everyone a full bucket
  (`Cleanup`).

## 4. The proofs

Eight modules hold theorems, each for any values of the constants its assumptions allow: any tasks,
workers, processes, schedulers, clients and capacities, and any bounds on crashes, slow handlers,
cancels, expiries and refusals. Every invariant was first evaluated by TLC on small instances.

| Module | Theorems | Properties they state |
|---|---|---|
| WorkerSystemProofs | `TypeCorrect`, `NoTaskIsLost`, `OneOwner`, `ExhaustedTasksAreKept` | `TypeInv`; `NoLostTask`, `HeldOnce`, `FailedReachesDLQ` while `slow = 0` |
| TaskQueueProofs | `SystemTypeCorrect`, `OneScheduler`, `StrandedTasksWait`, `OneOwnerInService`, `ExhaustedInService` | `SystemTypeInv`, `SchedulerExclusion`; `LostIsWaiting`, `HeldOnce`, `FailedReachesDLQ` while `slow = 0` |
| PromiseProofs | `WorkersKeepThePromise`, `ServiceKeepsThePromise` | `QueuePromise`, `ServicePromise` |
| FaultProofs | `FaultyTypeCorrect`, `LookupNamesDeadLetters`, `DeadLettersAreCommitted`, `OneOwnerDespiteFaults`, `NothingVanishes` | `FaultyTypeInv`, `LookupIsSound`, `DeadLetterCommitted`; `HeldOnce` while `slow = 0`; `NoTaskVanishes` while `Steady` |
| PoolControlProofs | `PoolIsSound`, `GracefulIsGraceful`, `StopsDequeuing`, `LeavesNoGhost` | `PoolInv`, `GracefulMeansDone`, `OneMoreTask`, `NoGhostWorker` |
| AdminProofs | `AdminTypeCorrect`, `RetriesKeepTasks`, `FailedTasksAreListed`, `OneOwnerNextToOperators`, `OneSchedulerNextToOperators` | `AdminTypeInv`, `RetryKeepsTask`, `SchedulerExclusion`; `FailedIsListed`, `HeldOnce` while `slow = 0` |
| EventStreamProofs | `PumpsFollowTheHub`, `NoPanicOnClose`, `SkippedClientsLeave`, `ClientsSeeEverything`; `StreamKeepsHub`, `ReaderIsSound`, `EventsComeInOrder`, `NoEventVanishes` | `HubInv`, `ClosedOnce`, `NoSilentGap`, `CompleteView`; `ClientInv`, `FreshView`, `EveryEventAccounted` |
| RateLimiterProofs | `LimitersAgree`, `OneBucketPerRound`, `WindowsAreBounded`, `RefusalsAreDeserved` | `LimitInv`, `OneBucket`, `WindowBound`, `NoFalseRefusal` |

`Spec => [](slow = 0 => P)` says that *P* holds until the first claim of an entry somebody still
holds. It is stronger than a statement about `MaxSlow = 0`: it also speaks of the behaviours that
have such a claim, up to it. `HeldOnce` is run by FaultAll and proved for `Spec`, `SystemSpec`,
`FaultySpec` and `AdminSpec`.

### The workers

`TypeInv` is `TypeOK` with three statements about control: a worker holds an entry exactly when it
is not idle or stopped and carries a running record while it executes (`WorkerControl`); a recovery
loop holds a claim or a current item exactly at the points that need one (`RecoveryControl`); a
process is down as a whole (`StoppedTogether`).

`NoLostTask` is not inductive: that an entry is pending says nothing about whether its holder
will still write the record before the XACK. `IInv` strengthens it:

* `EntriesInv`: ids grow, and an entry is undelivered or pending, not both.
* `HeldIsPending`, `HeldOnce`: what a worker or a batch holds is in the PEL, and nobody else
  holds it. This is where `slow = 0` is needed: a claim of a held entry breaks `HeldOnce`, and
  with a second owner the XACK of one removes the entry under the other.
* `RequestInv`: only finished submissions are accepted; cancel requests carry canceled records.
* `Carried`: an accepted task that is not settled is in the sorted set or has an entry that is
  not `Spent`, an entry whose holder (if any) has not yet written its last record.
* `FailuresKept`: a failed task is in the lookup set, or has a pending entry that is in nobody's hands
  or in those of a worker on its way through `DLQ.Add`, and that no recovery loop has begun to replace.

The proof goes action by action. `HoldingWorker`, `HoldingRecovery`, `HoldingApi` and
`HoldingCrash` preserve the first three; `CarriedFrame` says that a step that changes neither
records, entries nor `Spent` preserves `Carried`; `CarriedWorker`, `CarriedRecovery`,
`CarriedApi` and `CarriedCrash` treat the steps that do; the `Failures` lemmas do the same for the
last. `SlowGrows` makes the invariant conditional: `slow` is never reset, so `slow' = 0` gives
everything for the state before.

### The service

`SystemIInv` adds what schedulers bring:

* `LockInv`: whoever is at work holds the lock. It is lost with the first early expiry.
* `RecordsKept`: which of the five programs that write records wrote last says where the entry or
  member is. A *running* record has a pending entry whose handler has not returned (`RunKept`); a
  *scheduled* one is a member that no scheduler has activated (`ScheduleKept`); of an unfinished
  creation nobody has heard (`Unheard`). Only *pending* and *retrying* records can be stranded,
  which is `LostIsWaiting`. Deaths of schedulers and the loss of the lock do not matter to it.

The lemmas of WorkerSystemProofs are used as they stand (`WithoutScheduler`). `SchedulerWrites` says
the little that a scheduler changes, from which its half of each invariant follows.

### The refinements

Both say that every step maps to a step of WorkQueue or to none it can see. WorkQueue counts runs
and excludes second ones only until the first disturbance, so the invariants have a calm half:

* `CalmInv` (`SystemCalmInv` with schedulers), while nothing has disturbed the system: a task has at
  most one unspent entry, or is a member of the sorted set and has none (`OneCarrier`); every copy
  of its record, in a worker, a recovery batch or the store, is the same or follows it by the one
  transition under way (`InStep`), with attempts left; a creation that is not finished has at most its
  record (`InCreation`); what a scheduler has read is still so (`ScheduleInStep`).
* `OutcomeInv`, always: no stored record is *dead_letter*, and a cancel request has been counted.

tlapm does not reason about the instances, so the proof goes by way of `Allowed(d)`, the next-state
relation of WorkQueue written out over the three mapped functions `StatusNow`, `BusyNow`,
`RunsNow`, and `Shakes`, its disturbance. The `Shape` and `Effect` lemmas say what each action
does to the three; `WorkerAllowed`, `RecoveryAllowed`, `ApiAllowed`, `PoolAllowed` and
`SchedulerAllowed` that this is allowed; `QueueAllows` and `ServiceAllows` that what is allowed is a step
of the instance. No condition on slow handlers, crashes or races is left in the theorems.

### Refused commands

`FaultIInv` extends the invariant of the service to a Redis that refuses commands. Its parts need
different things of the environment, and say so:

* `FaultyTypeInv`, `LockInv` and `DeadLetterInv` hold always. `DeadLetterInv` says from where a worker
  may come to its XACK: a completed run, the sorted set, or `DLQ.Add`, whose entry is then there
  unless one of its own commands was refused.
* `HoldingInv`, `RequestInv` and `NewsInv` hold while `slow = 0`. `NewsInv` (nobody has heard of an
  unfinished creation, and its record says how it will be queued) is what keeps an API server from
  adding an entry for a task that somebody else moves.
* `KeptInv` holds while SET, ZREM and XACK are all that was refused and the system is `Steady`: no slow
  handler, no dead scheduler, no lock that expired early, no overtaken retry. `Carried` does not
  survive a refused SET: the worker goes on, and the stored record no longer says what was done.
  `IsKept` therefore goes by the stored record: *pending* or *running* needs an entry in nobody's hands
  or at a command where a record is still to come, or a scheduler about to add one; *retrying* the
  same or a member; *scheduled* a member not yet activated. After a refused SET of a failed record
  the entry counts until `DLQ.Add` has added the task to its stream (`Unsettled`).

`Steady` is a condition the code does not ensure. Each of the four can leave a task without entry and
member though nothing is refused, as TLC shows with one of each: a dead scheduler and an overtaken
retry for good (section 3), a slow handler and an expired lock at least until the process that has
the task in hand issues its XADD. `LostIsWaiting` says what is kept after the last three. Worker
processes may crash at any point in all of it. `FaultWrites` and `FaultHands` say what the error branches of all processes
have in common: they write no record, add no entry, acknowledge none, and hand nothing over.

### The requests of operators

A request writes records, adds and removes entries, deletes records and whole streams, and holds
an entry and a record it read several commands ago. Neither `RetryKeepsTask` nor `FailedIsListed` is
inductive; `AdminIInv` is, and its parts again hold under different conditions.

* `AdminTypeInv`, `AdminControl`, `LockInv` and `NewsInv` hold always. `AdminControl` says that the entry a
  request is to remove belongs to its task and is one the dead-letter stream has had (so that the entry
  a worker adds next is another one), that the record it writes is pending, and that while one
  request has been made one operator at most is busy. `NewsInv` is that of the faulty service with the
  requests added: of an unfinished creation no request, list or dead-letter entry has heard.
* `AdminHolding` holds while `slow = 0`. A purge takes pending entries away from those who hold them, so
  `HeldIsPending` is lost. What is held is still *delivered*, never again in the stream, and pending
  unless its task was discarded (`HeldWasDelivered`): enough for `HeldOnce`.
* `FailuresListed`, while `slow = 0`: the task of a failed record has an entry in the dead-letter stream
  that no request is about to remove, or a pending entry held by nobody or by a worker before its
  `XADD` to that stream. A request at "xadd", "cleanup" or "xdel" may remove its entry because `RetrySet`
  has made the record pending; when a worker fails the task again, that is a new entry.
* `RetriesListed`, while `slow = 0`, no worker has died and one request was made at most: up to its `XADD`
  the request can be cut short without loss, because an entry of its task stays in the dead-letter
  stream or a worker is about to add one (`StaysListed`).
* `KeptInv`, while `Quiet`: an accepted task that is not discarded is kept (`IsKept`), or a request was cut
  short and `StaysListed` holds. `IsKept` says that whoever wrote the record last still carries the
  task: the request itself, a scheduler about to add an entry, an entry that is `Loose` (in nobody's
  hands, or in those of a worker that has yet to write), or, for a waiting task, a member of the sorted set.

The steps of the rest of the system go through the lemmas about workers, recovery loops, schedulers
and API requests: `HandsSystem`, `NewsBeside`, `ListSystem`, `StaysSystem` and `KeptSystem`. Those of a
request go through `OperatorWrites`, which says what its steps can do to each key,
`RequestIsAbout`, which says where its task comes from, and `NextCommands`. `DisturbancesGrow` makes the
conditions monotone: what is quiet after a step was quiet before it. `FirstEntryIs` proves that the oldest
entry `DLQ.Retry` looks for exists, by the least element of a set of numbers.

### The worker process

`PoolInv` is inductive as it stands: `MainOrder` ties the place of `main` to which goroutines exist
and which channels are closed, `WaitGroup` and `Semaphore` say what the two counters count,
`LastDequeue` where a worker may be that has dequeued after the close, `Deregistered` which keys
are gone. `Semaphore` uses the theorems on finite sets: a worker enters or leaves the set that is
counted. The other three theorems follow from it. The proof goes along `ProcessStep` and
`OutsideStep`: `MainInv`, `SpawnInv`, `PauseInv`, `LoopInv`, `RecoveryInv` and `RegistryInv` treat the
steps of `main`, the spawn, pause and resume, the worker loop, the recovery loop, and the registry.

### The event stream

`HubIInv` needs one addition to the four properties it proves, `Unserved`: a client that has not been
registered has no history, so its channel is registered, closed and given up once. `CompleteView`
is about sequences: `ViewKept` says how the three parts of a view and the suffix of `sent` move when
an event is broadcast, drained or written.

`StreamKeepsHub` says that the hub with a client at the other end behaves like the hub alone, so that
everything proved of Hub holds of the composition. `FreshView` needs the order of the events on the
whole way: `FeedOrder` from the publisher to the hub, `ServedOrder` in the channel and the messages
of a client, `ClientOrder` on the wire and in the client, each saying that what is further along is
older. `GotAccounted` says where everything is that was written to the connection.

### The rate limiter

A limiter of the present round is the one in the map (`InMap`), so a creation under the write lock
cannot meet another. `WindowBound` and `NoFalseRefusal` are not inductive: both compare history with
the clock, and what a bucket holds is missing from them. `BucketInv` is the balance of a bucket for
every moment *a* up to its last refill: what it holds and what it has let through since *a*
(`Flow`) is at most a full bucket and the refill since *a* (`NotTooMuch`), and at least a full
bucket or the refill since *a* (`NotTooLittle`, the part of the refill the cap cut off being the
first case). `RefilledFacts`, `AllowFlow` and `AllowBalance` carry the balance over a request that is
let through or refused, `TickInv` over the clock, `MakeInv` starts it for a new bucket. The
inductive invariant is `LimitIInv`.

### Assumptions, and what is only model-checked

The assumptions are those of the modules: `Priority` and `MaxRetries` are functions on the
tasks (a retry limit is at least 1, as `New` and `FromRequest` make it), `PoolOf` maps workers to
processes, budgets are natural numbers, capacities positive ones, and the null values are outside the
sets they stand beside: `NoTask` is no record and no task (`NoTaskInHand`, for a scheduler that has
nothing in hand), `NoEntry` no entry. The set of workers of a pool is finite.

Only model-checked: the liveness properties (`EventuallySettled`, `QueuesDrain`, `EverythingSettles`,
`StopReturns` of PoolControl and of Hub, `StaysListed`, `KeepsDequeuing`, `PumpsEnd`, `MissedIsTold`, `CloseEnds`),
which are outside what TLAPS can do: it has no rules for fairness. And what `Quiet` and `Steady` exclude:
no theorem says what is left of a task after a dead scheduler in RedisFaults or Admin.

## 5. What is not modelled

Payload, result, error text, timestamps and JSON: no decision of the modelled code reads them,
except the times, which are abstracted (any scheduled task may be due, any unheld entry may be
idle). The backoff of `CalculateBackoff`, for the same reason. The limit of 100 pending entries per
scan and of 100 entries per list. A Redis command that takes effect but whose answer is lost. Loss of
data in Redis itself. `Dequeue`, `UpdateTaskWithTTL`, `DeleteTask`, `ScheduleTask`, `RateLimit` and
`Hub.Broadcast`, which nothing outside tests calls. The publishing of events by handlers and workers,
whose errors are only logged. `pkg/client/client_gen.go`, 2475 lines of generated HTTP bindings, and
the TypeScript client. `PROJECT.json` gives the reason for every component that is left out.

## 6. Plan

Done: the modules above, and the proofs of every safety property of the passing runs. What could
come next:

1. The shutdown of an API server (`cmd/api-server/main.go`): its order against the hub's `Stop` and the
   scheduler's, as PoolControl has it for a worker process.
2. `LostIsWaiting` next to refused commands and operators: with `StrandedTasksWait` as the pattern, what an
   operator can still tell of a task that was lost to a dead scheduler.
