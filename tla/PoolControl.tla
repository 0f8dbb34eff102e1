----------------------------- MODULE PoolControl -----------------------------
(***************************************************************************)
(* The life of one worker process: Start, Stop, Pause and Resume of        *)
(* internal/worker/pool.go, the loops of its goroutines, and the main      *)
(* function that waits for a signal.  What a worker does with a task is    *)
(* module Worker; here it is the one step from "process" to "release",     *)
(* which may never come.  main cancels its context only after Stop has     *)
(* returned, so the branches on ctx.Done() of the loops are never taken.   *)
(***************************************************************************)
EXTENDS Heartbeat, FiniteSets

CONSTANTS
  Workers,    \* the goroutines, one per slot of the semaphore
  MaxPauses,  \* bound on the calls of Pause that take effect
  MaxMissed   \* bound on the missed wake-ups described at Resume

ASSUME PoolAssumption == MaxPauses \in Nat /\ MaxMissed \in Nat

VARIABLES
  mpc,        \* main
  state,      \* Pool.state
  resumes,    \* number of channels resumeCh that have been closed so far
  stopCh,     \* Pool.stopCh is closed
  wg,         \* the workers and the loop that wg still counts
  sem,        \* number of slots taken of concurrencySem
  wpc,
  wchan,      \* the resumeCh a paused worker waits on, counted like resumes
  rpc,        \* the recovery loop
  extra,      \* extra[w]: dequeues since stopCh was closed
  graceful,   \* Stop saw every goroutine end
  pauses,
  missed

mainVars == <<mpc, graceful>>
pauseVars == <<resumes, pauses>>
loopVars == <<wg, sem, wpc, wchan, rpc, extra, missed>>

poolVars == <<heartbeatVars, mainVars, state, stopCh, pauseVars, loopVars>>

Loop == "recovery"

ASSUME WorkersAssumption == IsFiniteSet(Workers) /\ Loop \notin Workers

MainPc == {"start", "sadd", "set_info", "spawn", "serving", "close", "waiting",
           "hb_close", "hb_wait", "srem", "del", "exited"}

WorkerPc == {"unborn", "check", "state", "channel", "wait", "flag", "sleep",
             "acquire", "process", "release", "done"}

PoolTypeOK ==
  /\ HeartbeatTypeOK
  /\ mpc \in MainPc
  /\ state \in {"idle", "busy", "paused", "shutting_down"}
  /\ stopCh \in BOOLEAN /\ graceful \in BOOLEAN
  /\ resumes \in 0..pauses /\ pauses \in 0..MaxPauses
  /\ wg \subseteq Workers \union {Loop}
  /\ sem \in Nat
  /\ wpc \in [Workers -> WorkerPc]
  /\ wchan \in [Workers -> 0..MaxPauses]
  /\ rpc \in {"unborn", "tick", "recover", "done"}
  /\ extra \in [Workers -> Nat]
  /\ missed \in 0..MaxMissed

PoolInit ==
  /\ HeartbeatInit
  /\ mpc = "start"
  /\ state = "idle"
  /\ stopCh = FALSE
  /\ graceful = FALSE
  /\ resumes = 0 /\ pauses = 0
  /\ wg = {} /\ sem = 0
  /\ wpc = [w \in Workers |-> "unborn"]
  /\ wchan = [w \in Workers |-> 0]
  /\ rpc = "unborn"
  /\ extra = [w \in Workers |-> 0]
  /\ missed = 0

(***************************************************************************)
(* main: Start, the signal, Stop.                                          *)
(***************************************************************************)
MainGoto(pc) == mpc' = pc

\* The heartbeat goroutine is off before register writes anything.
StartHeartbeat ==
  /\ mpc = "start"
  /\ state' = "busy"
  /\ hpc' = "set_key"
  /\ MainGoto("sadd")
  /\ UNCHANGED <<registryVars, hbStop, late, readPc, adminPc,
                 graceful, stopCh, pauseVars, loopVars>>

RegisterMember ==
  /\ mpc = "sadd"
  /\ active' = TRUE
  /\ MainGoto("set_info")
  /\ UNCHANGED <<beatKey, infoKey, pauseKey, hpc, hbStop, late, readPc, adminPc,
                 graceful, state, stopCh, pauseVars, loopVars>>

RegisterInfo ==
  /\ mpc = "set_info"
  /\ infoKey' = TRUE
  /\ MainGoto("spawn")
  /\ UNCHANGED <<active, beatKey, pauseKey, hpc, hbStop, late, readPc, adminPc,
                 graceful, state, stopCh, pauseVars, loopVars>>

SpawnWith(counted) ==
  /\ mpc = "spawn"
  /\ wg' = counted
  /\ wpc' = [w \in Workers |-> "check"]
  /\ rpc' = "tick"
  /\ MainGoto("serving")
  /\ UNCHANGED <<heartbeatVars, graceful, state, stopCh, pauseVars,
                 sem, wchan, extra, missed>>

\* Variant: no wg.Add for the recovery loop.
SpawnUncounted == SpawnWith(Workers)

Spawn == SpawnWith(Workers \union {Loop})

\* A signal arrives: Stop marks the pool before it closes the channel.
BeginStop ==
  /\ mpc = "serving"
  /\ state' = "shutting_down"
  /\ MainGoto("close")
  /\ UNCHANGED <<heartbeatVars, graceful, stopCh, pauseVars, loopVars>>

CloseStop ==
  /\ mpc = "close"
  /\ stopCh' = TRUE
  /\ MainGoto("waiting")
  /\ UNCHANGED <<heartbeatVars, graceful, state, pauseVars, loopVars>>

AllDone ==
  /\ mpc = "waiting"
  /\ wg = {}
  /\ graceful' = TRUE
  /\ MainGoto("hb_close")
  /\ UNCHANGED <<heartbeatVars, state, stopCh, pauseVars, loopVars>>

\* Variant: Stop waits for the goroutines only.
NeverTimesOut == FALSE /\ UNCHANGED poolVars

\* ShutdownTimeout, of Stop or of the context main hands it.
TimedOut ==
  /\ mpc = "waiting"
  /\ MainGoto("hb_close")
  /\ UNCHANGED <<heartbeatVars, graceful, state, stopCh, pauseVars, loopVars>>

HeartbeatClose ==
  /\ mpc = "hb_close"
  /\ hbStop' = TRUE
  /\ MainGoto("hb_wait")
  /\ UNCHANGED <<registryVars, hpc, late, readPc, adminPc,
                 graceful, state, stopCh, pauseVars, loopVars>>

\* Variant: deregister without waiting for the last beat.
HeartbeatLeft ==
  /\ mpc = "hb_wait"
  /\ MainGoto("srem")
  /\ UNCHANGED <<heartbeatVars, graceful, state, stopCh, pauseVars, loopVars>>

HeartbeatWait ==
  /\ mpc = "hb_wait"
  /\ hpc = "done"
  /\ MainGoto("srem")
  /\ UNCHANGED <<heartbeatVars, graceful, state, stopCh, pauseVars, loopVars>>

DeregisterMember ==
  /\ mpc = "srem"
  /\ active' = FALSE
  /\ MainGoto("del")
  /\ UNCHANGED <<beatKey, infoKey, pauseKey, hpc, hbStop, late, readPc, adminPc,
                 graceful, state, stopCh, pauseVars, loopVars>>

\* The process ends with main; the pause flag is nobody's to delete.  Redis does
\* not fail in this module: an error of these two commands is ignored.
DeregisterKeys ==
  /\ mpc = "del"
  /\ beatKey' = FALSE /\ infoKey' = FALSE
  /\ MainGoto("exited")
  /\ UNCHANGED <<active, pauseKey, hpc, hbStop, late, readPc, adminPc,
                 graceful, state, stopCh, pauseVars, loopVars>>

MainStep ==
  \/ StartHeartbeat \/ RegisterMember \/ RegisterInfo \/ Spawn
  \/ CloseStop \/ AllDone \/ TimedOut
  \/ HeartbeatClose \/ HeartbeatWait \/ DeregisterMember \/ DeregisterKeys

(***************************************************************************)
(* Pause and Resume.  A Resume closes the channel the paused workers wait  *)
(* on and replaces it.  A worker that has seen the pause but not yet read  *)
(* the channel misses the wake-up: it waits on the channel that only the   *)
(* Resume after another Pause closes.  MaxMissed bounds these cases.       *)
(***************************************************************************)
Pause ==
  /\ state = "busy"
  /\ pauses < MaxPauses
  /\ state' = "paused"
  /\ pauses' = pauses + 1
  /\ UNCHANGED <<heartbeatVars, mainVars, stopCh, resumes, loopVars>>

Resume ==
  /\ state = "paused"
  /\ state' = "busy"
  /\ resumes' = resumes + 1
  /\ IF \E w \in Workers : wpc[w] = "channel"
     THEN missed < MaxMissed /\ missed' = missed + 1
     ELSE UNCHANGED missed
  /\ UNCHANGED <<heartbeatVars, mainVars, stopCh, pauses,
                 wg, sem, wpc, wchan, rpc, extra>>

(***************************************************************************)
(* The goroutines.                                                         *)
(***************************************************************************)
Outside == UNCHANGED <<heartbeatVars, mainVars, state, stopCh, pauseVars>>

Goto(w, pc) == wpc' = [wpc EXCEPT ![w] = pc]

Leave(w) ==
  /\ Goto(w, "done")
  /\ wg' = wg \ {w}
  /\ UNCHANGED <<sem, wchan, rpc, extra, missed>>
  /\ Outside

\* The states in which a select of the worker has stopCh among its cases.
Listening(w) == wpc[w] \in {"check", "wait", "sleep", "acquire"}

ExitOnStop(w) == stopCh /\ Listening(w) /\ Leave(w)

Moves(w, from, to) ==
  /\ wpc[w] = from
  /\ Goto(w, to)
  /\ UNCHANGED <<wg, sem, wchan, rpc, extra, missed>>
  /\ Outside

\* Variant: the loop does not begin with a look at stopCh.
EnterLoop(w) == Moves(w, "check", "state")

\* The default case: only if the channel is not closed.
CheckStop(w) == ~ stopCh /\ Moves(w, "check", "state")

CheckState(w) == Moves(w, "state", IF state = "paused" THEN "channel" ELSE "flag")

\* The channel is read some time after the state, without the mutex.
ReadResumeCh(w) ==
  /\ wpc[w] = "channel"
  /\ wchan' = [wchan EXCEPT ![w] = resumes]
  /\ Goto(w, "wait")
  /\ UNCHANGED <<wg, sem, rpc, extra, missed>>
  /\ Outside

Resumed(w) == wchan[w] < resumes /\ Moves(w, "wait", "flag")

\* IsWorkerPaused; an error counts as no.
CheckFlag(w) == Moves(w, "flag", IF pauseKey THEN "sleep" ELSE "acquire")

SleepOver(w) == Moves(w, "sleep", "check")

\* The select may take the slot although stopCh is closed.
Acquire(w) ==
  /\ wpc[w] = "acquire"
  /\ sem < Cardinality(Workers)
  /\ sem' = sem + 1
  /\ extra' = [extra EXCEPT ![w] = IF stopCh THEN @ + 1 ELSE @]
  /\ Goto(w, "process")
  /\ UNCHANGED <<wg, wchan, rpc, missed>>
  /\ Outside

ProcessEnds(w) == Moves(w, "process", "release")

\* Variant: the slot is kept.
ReleaseNothing(w) == Moves(w, "release", "check")

Release(w) ==
  /\ wpc[w] = "release"
  /\ sem' = sem - 1
  /\ Goto(w, "check")
  /\ UNCHANGED <<wg, wchan, rpc, extra, missed>>
  /\ Outside

LoopStep(w) ==
  \/ ExitOnStop(w) \/ CheckStop(w) \/ CheckState(w) \/ ReadResumeCh(w) \/ Resumed(w)
  \/ CheckFlag(w) \/ SleepOver(w) \/ Acquire(w) \/ Release(w)

RecoveryTick ==
  /\ \/ rpc = "tick" /\ rpc' = "recover"
     \/ rpc = "recover" /\ rpc' = "tick"
  /\ UNCHANGED <<wg, sem, wpc, wchan, extra, missed>>
  /\ Outside

RecoveryExit ==
  /\ stopCh
  /\ rpc = "tick"
  /\ rpc' = "done"
  /\ wg' = wg \ {Loop}
  /\ UNCHANGED <<sem, wpc, wchan, extra, missed>>
  /\ Outside

Beyond == UNCHANGED <<mainVars, state, stopCh, pauseVars, loopVars>>

\* What the process does while main has not returned.
ProcessStep ==
  /\ mpc # "exited"
  /\ \/ MainStep \/ BeginStop \/ Pause \/ Resume
     \/ \E w \in Workers : LoopStep(w) \/ ProcessEnds(w)
     \/ RecoveryTick \/ RecoveryExit
     \/ HeartbeatStep /\ Beyond

OutsideStep ==
  /\ \/ KeyExpires \/ InfoExpires
     \/ \E r \in Readers : ReaderStep(r)
     \/ \E a \in Admins : AdminStep(a)
  /\ Beyond

PoolNext == ProcessStep \/ OutsideStep

PoolSpec == PoolInit /\ [][PoolNext]_poolVars

(***************************************************************************)
(* Goroutines that can run do run; main goes on.  No signal need come, a   *)
(* handler need not return.  The select of the heartbeat does not prefer   *)
(* its ticker to stopCh for ever.                                          *)
(***************************************************************************)
FairPoolSpec ==
  /\ PoolSpec
  /\ WF_poolVars(MainStep)
  /\ WF_poolVars(mpc # "exited" /\ HeartbeatStep /\ Beyond)
  /\ SF_poolVars(mpc # "exited" /\ BeatEnd /\ Beyond)
  /\ \A w \in Workers : WF_poolVars(mpc # "exited" /\ LoopStep(w))

(***************************************************************************)
(* Properties.                                                             *)
(***************************************************************************)

Early == {"start", "sadd", "set_info", "spawn"}
Leaving == {"srem", "del", "exited"}

\* Where main is decides which goroutines exist and which channels are closed.
MainOrder ==
  /\ mpc \in Early <=> rpc = "unborn"
  /\ \A w \in Workers : wpc[w] = "unborn" <=> mpc \in Early
  /\ stopCh <=> mpc \notin Early \union {"serving", "close"}
  /\ hbStop <=> mpc \in Leaving \union {"hb_wait"}
  /\ hpc = "off" <=> mpc = "start"
  /\ mpc \in Leaving => hpc = "done"

\* The wait group counts the goroutines that have not ended, and a graceful end is
\* one that saw none.
WaitGroup ==
  /\ wg = {w \in Workers : wpc[w] \notin {"unborn", "done"}}
             \union (IF rpc \in {"unborn", "done"} THEN {} ELSE {Loop})
  /\ graceful => wg = {} /\ mpc \notin Early

\* The semaphore counts the workers that are processing.
Processing == {w \in Workers : wpc[w] \in {"process", "release"}}

Semaphore == sem = Cardinality(Processing)

\* A dequeue after the close is the last one: the way back leads past the test.
LastDequeue ==
  \A w \in Workers :
    /\ extra[w] <= 1
    /\ extra[w] = 1 => stopCh /\ wpc[w] \in {"process", "release", "check", "done"}

Deregistered ==
  /\ mpc \in {"del", "exited"} => ~ active
  /\ mpc = "exited" => ~ beatKey /\ ~ infoKey

\* What the goroutines, channels, counters and keys say about each other.
PoolInv ==
  /\ PoolTypeOK
  /\ state = "paused" => resumes < pauses
  /\ MainOrder /\ WaitGroup /\ Semaphore /\ LastDequeue /\ Deregistered

\* When Stop reports a graceful shutdown no goroutine of the pool is left that
\* could touch a task (Stop and the deferred wg.Done of worker and recoveryLoop).
GracefulMeansDone ==
  graceful => rpc = "done" /\ \A w \in Workers : wpc[w] = "done"

\* After Stop has closed stopCh a worker dequeues at most once more (the select
\* at the semaphore picks any ready case; the one at the top of the loop does
\* not).
OneMoreTask == \A w \in Workers : extra[w] <= 1

\* A process that has ended in order leaves no trace in the registry, and none
\* comes back: the last beat is over before deregister runs (Heartbeat.Stop).
NoGhostWorker == mpc = "exited" => ~ Registered

\* Stop returns although a handler never does (pool.go:166, ShutdownTimeout).
StopReturns == mpc = "close" ~> mpc = "exited"

\* A running pool is in the list of workers again after a reader that saw its
\* information expired took it out (sendHeartbeat, "Ensure worker is in active
\* set").
StaysListed == (<>[](mpc = "serving")) => <>[]active

\* While handlers return, every worker of a running pool dequeues again and
\* again, unless the pool is paused over and over or for good (worker, Resume,
\* ResumeWorker).
KeepsDequeuing ==
  \A w \in Workers :
    ([]<>(wpc[w] # "process")) =>
      []<>(wpc[w] = "process" \/ pauseKey \/ state # "busy")

=============================================================================
