-------------------------- MODULE PoolControlProofs --------------------------
(***************************************************************************)
(* Proofs about PoolControl, for any finite set of worker goroutines, any  *)
(* readers and operators, and any bounds.                                  *)
(***************************************************************************)
EXTENDS PoolControl, FiniteSetTheorems, TLAPS

LEMMA ProcessingIsFinite == IsFiniteSet(Processing)
  <1>1. Processing \subseteq Workers
    BY DEF Processing
  <1> QED BY <1>1, WorkersAssumption, FS_Subset

LEMMA SemaphoreKept ==
  ASSUME Semaphore, UNCHANGED sem, Processing' = Processing
  PROVE  Semaphore'
  BY DEF Semaphore

LEMMA InitInv == PoolInit => PoolInv
  <1> SUFFICES ASSUME PoolInit PROVE PoolInv
    OBVIOUS
  <1>1. Processing = {}
    BY DEF PoolInit, Processing
  <1>2. Semaphore
    BY <1>1, FS_EmptySet DEF PoolInit, Semaphore
  <1>3. PoolTypeOK
    <2>1. HeartbeatTypeOK
      <3>1. late \in 0..MaxLate
        BY LateAssumption DEF PoolInit, HeartbeatInit
      <3>2. /\ readPc \in [Readers -> {"idle", "get", "srem"}]
            /\ adminPc \in [Admins -> {"idle", "set", "del"}]
        BY DEF PoolInit, HeartbeatInit
      <3> QED BY <3>1, <3>2 DEF PoolInit, HeartbeatInit, HeartbeatTypeOK
    <2>2. wpc \in [Workers -> WorkerPc] /\ mpc \in MainPc
      BY DEF PoolInit, WorkerPc, MainPc
    <2>3. wchan \in [Workers -> 0..MaxPauses] /\ extra \in [Workers -> Nat]
      BY PoolAssumption DEF PoolInit
    <2>4. resumes \in 0..pauses /\ pauses \in 0..MaxPauses /\ missed \in 0..MaxMissed
      BY PoolAssumption DEF PoolInit
    <2> QED BY <2>1, <2>2, <2>3, <2>4 DEF PoolInit, PoolTypeOK
  <1>4. MainOrder
    BY DEF PoolInit, HeartbeatInit, MainOrder, Early, Leaving
  <1>5. WaitGroup
    BY DEF PoolInit, WaitGroup
  <1>6. LastDequeue /\ Deregistered
    BY DEF PoolInit, LastDequeue, Deregistered
  <1> QED BY <1>2, <1>3, <1>4, <1>5, <1>6 DEF PoolInv, PoolInit

\* The steps of main that leave the goroutines alone (pool.go:117-170,
\* heartbeat.go:65-89).
LEMMA MainInv ==
  ASSUME PoolInv, MainStep \/ BeginStop, ~ Spawn
  PROVE  PoolInv'
  <1> USE DEF MainGoto, registryVars, heartbeatVars, mainVars, pauseVars, loopVars,
              StartHeartbeat, RegisterMember, RegisterInfo, BeginStop, CloseStop,
              AllDone, TimedOut, HeartbeatClose, HeartbeatWait, DeregisterMember,
              DeregisterKeys, MainStep
  <1>1. PoolTypeOK'
    <2>1. HeartbeatTypeOK'
      BY DEF PoolInv, PoolTypeOK, HeartbeatTypeOK
    <2>2. mpc' \in MainPc
      BY DEF PoolInv, PoolTypeOK, MainPc
    <2> QED BY <2>1, <2>2 DEF PoolInv, PoolTypeOK
  <1>2. MainOrder'
    BY DEF PoolInv, MainOrder, Early, Leaving
  <1>3. WaitGroup'
    BY DEF PoolInv, WaitGroup, Early
  <1>4. Semaphore'
    BY SemaphoreKept DEF PoolInv, Processing
  <1>5. LastDequeue'
    BY DEF PoolInv, MainOrder, LastDequeue
  <1>6. Deregistered'
    BY DEF PoolInv, Deregistered
  <1> QED BY <1>1, <1>2, <1>3, <1>4, <1>5, <1>6 DEF PoolInv

\* Start starts every goroutine and counts every one (pool.go:125-133).
LEMMA SpawnInv ==
  ASSUME PoolInv, Spawn
  PROVE  PoolInv'
  <1> USE DEF Spawn, SpawnWith, MainGoto, heartbeatVars, registryVars, pauseVars
  <1>1. PoolTypeOK'
    BY DEF PoolInv, PoolTypeOK, HeartbeatTypeOK, MainPc, WorkerPc
  <1>2. MainOrder'
    BY DEF PoolInv, MainOrder, Early, Leaving
  <1>3. WaitGroup'
    <2>1. \A w \in Workers : wpc'[w] = "check"
      OBVIOUS
    <2>2. ~ graceful
      BY DEF PoolInv, WaitGroup, Early
    <2> QED BY <2>1, <2>2 DEF WaitGroup
  <1>4. Processing = {} /\ Processing' = {}
    BY DEF PoolInv, MainOrder, Early, Processing
  <1>5. Semaphore'
    BY <1>4, SemaphoreKept DEF PoolInv
  <1>6. LastDequeue' /\ Deregistered'
    BY DEF PoolInv, MainOrder, Early, LastDequeue, Deregistered
  <1> QED BY <1>1, <1>2, <1>3, <1>5, <1>6 DEF PoolInv

\* Pause and Resume disturb nothing but the state (pool.go:173-196).
LEMMA PauseInv ==
  ASSUME PoolInv, Pause \/ Resume
  PROVE  PoolInv'
  <1> USE DEF Pause, Resume, heartbeatVars, registryVars, mainVars, loopVars
  <1>1. PoolTypeOK'
    <2>1. HeartbeatTypeOK'
      BY DEF PoolInv, PoolTypeOK, HeartbeatTypeOK
    <2>2. state' \in {"idle", "busy", "paused", "shutting_down"}
      OBVIOUS
    <2>3. resumes' \in 0..pauses' /\ pauses' \in 0..MaxPauses
      BY PoolAssumption DEF PoolInv, PoolTypeOK
    <2>4. missed' \in 0..MaxMissed
      BY PoolAssumption DEF PoolInv, PoolTypeOK
    <2> QED BY <2>1, <2>2, <2>3, <2>4 DEF PoolInv, PoolTypeOK
  <1>2. MainOrder' /\ WaitGroup' /\ LastDequeue' /\ Deregistered'
    BY DEF PoolInv, MainOrder, WaitGroup, LastDequeue, Deregistered
  <1>3. Semaphore'
    BY SemaphoreKept DEF PoolInv, Processing
  <1>4. (state = "paused" => resumes < pauses)'
    BY PoolAssumption DEF PoolInv, PoolTypeOK
  <1> QED BY <1>1, <1>2, <1>3, <1>4 DEF PoolInv

\* The loop of a worker (pool.go:221-278).
LEMMA LoopInv ==
  ASSUME PoolInv, NEW w \in Workers, LoopStep(w) \/ ProcessEnds(w)
  PROVE  PoolInv'
  <1> USE DEF LoopStep, ExitOnStop, CheckStop, CheckState, ReadResumeCh, Resumed,
              CheckFlag, SleepOver, Acquire, ProcessEnds, Release, Moves, Leave,
              Listening, Goto, Outside, heartbeatVars, registryVars, mainVars, pauseVars
  <1>1. IsFiniteSet(Processing')
    <2>1. Processing' \subseteq Workers
      BY DEF Processing
    <2> QED BY <2>1, WorkersAssumption, FS_Subset
  <1>2. Semaphore'
    <2>1. CASE Acquire(w)
      <3>1. w \notin Processing /\ Processing' = Processing \union {w}
        BY <2>1 DEF PoolInv, PoolTypeOK, Processing
      <3> QED BY <2>1, <3>1, ProcessingIsFinite, FS_AddElement DEF PoolInv, Semaphore
    <2>2. CASE Release(w)
      <3>1. w \in Processing /\ Processing' = Processing \ {w}
        BY <2>2 DEF PoolInv, PoolTypeOK, Processing
      <3> QED BY <2>2, <3>1, ProcessingIsFinite, FS_RemoveElement DEF PoolInv, Semaphore
    <2>3. CASE ~ Acquire(w) /\ ~ Release(w)
      <3>1. UNCHANGED sem /\ Processing' = Processing
        BY <2>3 DEF PoolInv, PoolTypeOK, Processing
      <3> QED BY <3>1, SemaphoreKept DEF PoolInv
    <2> QED BY <2>1, <2>2, <2>3
  <1>3. PoolTypeOK'
    <2>1. HeartbeatTypeOK'
      BY DEF PoolInv, PoolTypeOK, HeartbeatTypeOK
    <2>2. wpc' \in [Workers -> WorkerPc]
      BY DEF PoolInv, PoolTypeOK, WorkerPc
    <2>3. sem' \in Nat
      BY <1>1, <1>2, FS_CardinalityType DEF Semaphore
    <2>4. wg' \subseteq Workers \union {Loop}
      BY DEF PoolInv, PoolTypeOK
    <2>5. wchan' \in [Workers -> 0..MaxPauses]
      BY PoolAssumption DEF PoolInv, PoolTypeOK
    <2>6. extra' \in [Workers -> Nat]
      BY DEF PoolInv, PoolTypeOK
    <2> QED BY <2>1, <2>2, <2>3, <2>4, <2>5, <2>6 DEF PoolInv, PoolTypeOK
  <1>4. MainOrder'
    BY DEF PoolInv, PoolTypeOK, MainOrder
  <1>5. WaitGroup'
    BY WorkersAssumption DEF PoolInv, PoolTypeOK, MainOrder, WaitGroup
  <1>6. LastDequeue'
    BY DEF PoolInv, PoolTypeOK, LastDequeue
  <1>7. Deregistered'
    BY DEF PoolInv, Deregistered
  <1> QED BY <1>2, <1>3, <1>4, <1>5, <1>6, <1>7 DEF PoolInv

\* The recovery loop ends on stopCh only (pool.go:457-473).
LEMMA RecoveryInv ==
  ASSUME PoolInv, RecoveryTick \/ RecoveryExit
  PROVE  PoolInv'
  <1> USE DEF RecoveryTick, RecoveryExit, Outside, heartbeatVars, registryVars, mainVars,
              pauseVars
  <1>1. PoolTypeOK'
    BY DEF PoolInv, PoolTypeOK, HeartbeatTypeOK
  <1>2. MainOrder'
    BY DEF PoolInv, MainOrder
  <1>3. WaitGroup'
    BY WorkersAssumption DEF PoolInv, MainOrder, WaitGroup
  <1>4. Semaphore'
    BY SemaphoreKept DEF PoolInv, Processing
  <1>5. LastDequeue' /\ Deregistered'
    BY DEF PoolInv, LastDequeue, Deregistered
  <1> QED BY <1>1, <1>2, <1>3, <1>4, <1>5 DEF PoolInv

\* Beats, expiring keys, readers and operators: no beat comes after the goroutine
\* has ended, and nobody else creates a key deregister has removed.
LEMMA RegistryInv ==
  ASSUME PoolInv, OutsideStep \/ (HeartbeatStep /\ Beyond)
  PROVE  PoolInv'
  <1> USE DEF OutsideStep, HeartbeatStep, Beyond, KeyExpires, InfoExpires, ReaderStep,
              ReadMembers, ReadInfo, ReadRemove, ReadGoto, AdminStep, AdminAlive,
              PauseWorker, ResumeWorker, AdminGoto, BeatSetKey, BeatSetInfo, BeatSAdd,
              BeatTick, BeatEnd, BeatGoto, registryVars, mainVars, pauseVars, loopVars
  <1>1. HeartbeatTypeOK'
    <2>1. late' \in 0..MaxLate
      BY LateAssumption DEF PoolInv, PoolTypeOK, HeartbeatTypeOK
    <2>2. hpc' \in {"off", "set_key", "set_info", "sadd", "wait", "done"}
      BY DEF PoolInv, PoolTypeOK, HeartbeatTypeOK
    <2>3. /\ readPc' \in [Readers -> {"idle", "get", "srem"}]
          /\ adminPc' \in [Admins -> {"idle", "set", "del"}]
      BY DEF PoolInv, PoolTypeOK, HeartbeatTypeOK
    <2>4. /\ active' \in BOOLEAN /\ beatKey' \in BOOLEAN /\ infoKey' \in BOOLEAN
          /\ pauseKey' \in BOOLEAN /\ hbStop' \in BOOLEAN
      BY DEF PoolInv, PoolTypeOK, HeartbeatTypeOK
    <2> QED BY <2>1, <2>2, <2>3, <2>4 DEF HeartbeatTypeOK
  <1>2. PoolTypeOK'
    BY <1>1 DEF PoolInv, PoolTypeOK
  <1>3. MainOrder'
    BY DEF PoolInv, MainOrder, Early, Leaving
  <1>4. WaitGroup' /\ LastDequeue'
    BY DEF PoolInv, WaitGroup, LastDequeue
  <1>5. Semaphore'
    BY SemaphoreKept DEF PoolInv, Processing
  <1>6. Deregistered'
    BY DEF PoolInv, MainOrder, Leaving, Deregistered
  <1> QED BY <1>2, <1>3, <1>4, <1>5, <1>6 DEF PoolInv

\* Nothing happens to an invariant when nothing happens.
LEMMA StutterInv ==
  ASSUME PoolInv, UNCHANGED poolVars
  PROVE  PoolInv'
  <1> USE DEF poolVars, heartbeatVars, registryVars, mainVars, pauseVars, loopVars
  <1>1. PoolTypeOK' /\ MainOrder'
    BY DEF PoolInv, PoolTypeOK, HeartbeatTypeOK, MainOrder
  <1>2. WaitGroup' /\ LastDequeue' /\ Deregistered'
    BY DEF PoolInv, WaitGroup, LastDequeue, Deregistered
  <1>3. Semaphore'
    BY SemaphoreKept DEF PoolInv, Processing
  <1> QED BY <1>1, <1>2, <1>3 DEF PoolInv

\* The goroutines, counters, channels and registry keys of a pool always agree
\* (pool.go:117-278, heartbeat.go).
THEOREM PoolIsSound == PoolSpec => []PoolInv
  <1>1. PoolInv /\ [PoolNext]_poolVars => PoolInv'
    <2> SUFFICES ASSUME PoolInv, [PoolNext]_poolVars PROVE PoolInv'
      OBVIOUS
    <2>1. CASE ProcessStep
      BY <2>1, MainInv, SpawnInv, PauseInv, LoopInv, RecoveryInv, RegistryInv DEF ProcessStep
    <2>2. CASE OutsideStep
      BY <2>2, RegistryInv
    <2>3. CASE UNCHANGED poolVars
      BY <2>3, StutterInv
    <2> QED BY <2>1, <2>2, <2>3 DEF PoolNext
  <1> QED BY <1>1, InitInv, PTL DEF PoolSpec

\* A shutdown reported as graceful has left no goroutine behind (pool.go:152-160).
THEOREM GracefulIsGraceful == PoolSpec => []GracefulMeansDone
  <1>1. PoolInv => GracefulMeansDone
    BY WorkersAssumption DEF PoolInv, PoolTypeOK, WaitGroup, MainOrder, GracefulMeansDone
  <1> QED BY <1>1, PoolIsSound, PTL

\* After the close of stopCh a worker dequeues once more at most (pool.go:228-268).
THEOREM StopsDequeuing == PoolSpec => []OneMoreTask
  <1>1. PoolInv => OneMoreTask
    BY DEF PoolInv, LastDequeue, OneMoreTask
  <1> QED BY <1>1, PoolIsSound, PTL

\* A process that ended in order is not in the registry (heartbeat.go:79-89).
THEOREM LeavesNoGhost == PoolSpec => []NoGhostWorker
  <1>1. PoolInv => NoGhostWorker
    BY DEF PoolInv, Deregistered, NoGhostWorker, Registered
  <1> QED BY <1>1, PoolIsSound, PTL

=============================================================================
