------------------------------ MODULE Heartbeat ------------------------------
(***************************************************************************)
(* The registry of worker pools in Redis and everybody who touches it: the *)
(* heartbeat of one pool (internal/worker/heartbeat.go), readers of the    *)
(* list of workers (GetActiveWorkers) and the pause and resume endpoints   *)
(* (internal/api/handlers/admin.go).  One Redis command is one step.       *)
(***************************************************************************)
EXTENDS Integers

CONSTANTS
  Readers,  \* requests for the list of workers
  Admins,   \* operators who pause and resume the pool
  MaxLate   \* bound on beats that come after the key of the last one expired

ASSUME LateAssumption == MaxLate \in Nat

VARIABLES
  active,    \* the pool is a member of workers:active
  beatKey,   \* worker:<id>:heartbeat exists
  infoKey,   \* worker:<id>:info exists
  pauseKey,  \* worker:<id>:paused exists
  hpc,       \* the heartbeat goroutine
  hbStop,    \* Heartbeat.stopCh is closed
  late,
  readPc,
  adminPc

registryVars == <<active, beatKey, infoKey, pauseKey>>

heartbeatVars == <<registryVars, hpc, hbStop, late, readPc, adminPc>>

HeartbeatTypeOK ==
  /\ active \in BOOLEAN /\ beatKey \in BOOLEAN /\ infoKey \in BOOLEAN
  /\ pauseKey \in BOOLEAN /\ hbStop \in BOOLEAN
  /\ hpc \in {"off", "set_key", "set_info", "sadd", "wait", "done"}
  /\ late \in 0..MaxLate
  /\ readPc \in [Readers -> {"idle", "get", "srem"}]
  /\ adminPc \in [Admins -> {"idle", "set", "del"}]

HeartbeatInit ==
  /\ active = FALSE /\ beatKey = FALSE /\ infoKey = FALSE /\ pauseKey = FALSE
  /\ hpc = "off"
  /\ hbStop = FALSE
  /\ late = 0
  /\ readPc = [r \in Readers |-> "idle"]
  /\ adminPc = [a \in Admins |-> "idle"]

BeatGoto(pc) == hpc' = pc /\ UNCHANGED <<hbStop, late, readPc, adminPc>>

\* sendHeartbeat: without the first SET the other two commands are not tried.
BeatSetKey ==
  /\ hpc = "set_key"
  /\ beatKey' = TRUE
  /\ BeatGoto("set_info")
  /\ UNCHANGED <<active, infoKey, pauseKey>>

BeatSetInfo ==
  /\ hpc = "set_info"
  /\ infoKey' = TRUE
  /\ BeatGoto("sadd")
  /\ UNCHANGED <<active, beatKey, pauseKey>>

\* Variant: the membership is left to register.
BeatOnly ==
  /\ hpc = "sadd"
  /\ BeatGoto("wait")
  /\ UNCHANGED registryVars

BeatSAdd ==
  /\ hpc = "sadd"
  /\ active' = TRUE
  /\ BeatGoto("wait")
  /\ UNCHANGED <<beatKey, infoKey, pauseKey>>

BeatTick == hpc = "wait" /\ BeatGoto("set_key") /\ UNCHANGED registryVars

BeatEnd == hpc = "wait" /\ hbStop /\ BeatGoto("done") /\ UNCHANGED registryVars

HeartbeatStep == BeatSetKey \/ BeatSetInfo \/ BeatSAdd \/ BeatTick \/ BeatEnd

(***************************************************************************)
(* A beat is late: the goroutine is held up, or Redis refuses its SET,     *)
(* until the key expires.  The information lives twice as long.            *)
(***************************************************************************)
KeyExpires ==
  /\ beatKey
  /\ beatKey' = FALSE
  /\ IF hpc = "done" THEN UNCHANGED late
                     ELSE late < MaxLate /\ late' = late + 1
  /\ UNCHANGED <<active, infoKey, pauseKey, hpc, hbStop, readPc, adminPc>>

InfoExpires ==
  /\ infoKey
  /\ ~ beatKey
  /\ infoKey' = FALSE
  /\ IF hpc = "done" THEN UNCHANGED late
                     ELSE late < MaxLate /\ late' = late + 1
  /\ UNCHANGED <<active, beatKey, pauseKey, hpc, hbStop, readPc, adminPc>>

ReadGoto(r, pc) ==
  readPc' = [readPc EXCEPT ![r] = pc] /\ UNCHANGED <<hpc, hbStop, late, adminPc>>

\* GetActiveWorkers: SMEMBERS, GET of the information, SREM when it is gone.
ReadMembers(r) ==
  /\ readPc[r] = "idle"
  /\ active
  /\ ReadGoto(r, "get")
  /\ UNCHANGED registryVars

ReadInfo(r) ==
  /\ readPc[r] = "get"
  /\ ReadGoto(r, IF infoKey THEN "idle" ELSE "srem")
  /\ UNCHANGED registryVars

ReadRemove(r) ==
  /\ readPc[r] = "srem"
  /\ active' = FALSE
  /\ ReadGoto(r, "idle")
  /\ UNCHANGED <<beatKey, infoKey, pauseKey>>

ReaderStep(r) == ReadMembers(r) \/ ReadInfo(r) \/ ReadRemove(r)

AdminGoto(a, pc) ==
  adminPc' = [adminPc EXCEPT ![a] = pc] /\ UNCHANGED <<hpc, hbStop, late, readPc>>

\* PauseWorker and ResumeWorker: 404 unless IsWorkerAlive.
AdminAlive(a) ==
  /\ adminPc[a] = "idle"
  /\ beatKey
  /\ \E pc \in {"set", "del"} : AdminGoto(a, pc)
  /\ UNCHANGED registryVars

PauseWorker(a) ==
  /\ adminPc[a] = "set"
  /\ pauseKey' = TRUE
  /\ AdminGoto(a, "idle")
  /\ UNCHANGED <<active, beatKey, infoKey>>

ResumeWorker(a) ==
  /\ adminPc[a] = "del"
  /\ pauseKey' = FALSE
  /\ AdminGoto(a, "idle")
  /\ UNCHANGED <<active, beatKey, infoKey>>

AdminStep(a) == AdminAlive(a) \/ PauseWorker(a) \/ ResumeWorker(a)

Registered == active \/ beatKey \/ infoKey

=============================================================================
