------------------------------ MODULE WorkQueue ------------------------------
(***************************************************************************)
(* What the service promises about a task, without streams, entries and    *)
(* records: at-least-once execution.  A task that was submitted is open    *)
(* until a worker that ran its handler, or a cancel request, settles it.   *)
(* As long as nothing disturbs the service a task is run by one worker at  *)
(* a time, at most MaxRuns times, and what settled it is final; afterwards *)
(* a task may run twice at once and a settled one may be opened again, but *)
(* still none is settled by anything but a run or a cancel request.        *)
(***************************************************************************)
EXTENDS Integers

CONSTANTS Tasks, Workers, NoTask, MaxRuns

VARIABLES
  status,    \* of each task
  answered,  \* the submissions that were confirmed
  busy,      \* the task whose handler a worker runs
  runs,      \* how often it was begun; counted until the first disturbance
  disturbed  \* a crash, a slow handler, a cancel request, a lock that expired

promiseVars == <<status, answered, busy, runs, disturbed>>

Outcome == {"completed", "failed", "canceled"}

Init ==
  /\ status = [t \in Tasks |-> "absent"]
  /\ answered = {}
  /\ busy = [w \in Workers |-> NoTask]
  /\ runs = [t \in Tasks |-> 0]
  /\ disturbed = FALSE

Become(t, s) == status' = [status EXCEPT ![t] = s]

Submit(t) ==
  /\ status[t] = "absent"
  /\ Become(t, "open")
  /\ UNCHANGED <<answered, busy, runs, disturbed>>

Answer(t) ==
  /\ status[t] # "absent"
  /\ answered' = answered \union {t}
  /\ UNCHANGED <<status, busy, runs, disturbed>>

Alone(t) == \A w \in Workers : busy[w] # t

Begin(w, t) ==
  /\ busy[w] = NoTask
  /\ disturbed \/ (status[t] = "open" /\ Alone(t) /\ runs[t] < MaxRuns[t])
  /\ busy' = [busy EXCEPT ![w] = t]
  /\ runs' = IF disturbed THEN runs ELSE [runs EXCEPT ![t] = @ + 1]
  /\ Become(t, "open")
  /\ UNCHANGED <<answered, disturbed>>

\* Without an outcome the task will be tried again.
End(w, t) ==
  /\ busy[w] = t
  /\ busy' = [busy EXCEPT ![w] = NoTask]
  /\ \/ Become(t, "completed") \/ Become(t, "failed")
     \/ Become(t, "open") /\ (disturbed \/ runs[t] < MaxRuns[t])
  /\ UNCHANGED <<answered, runs, disturbed>>

Cancel(t) ==
  /\ disturbed
  /\ Become(t, "canceled")
  /\ UNCHANGED <<answered, busy, runs, disturbed>>

\* The handlers on the workers of a process that dies end without a trace.
Disturb ==
  /\ disturbed' = TRUE
  /\ runs' = [t \in Tasks |-> 0]
  /\ \E dead \in SUBSET Workers :
       busy' = [w \in Workers |-> IF w \in dead THEN NoTask ELSE busy[w]]
  /\ UNCHANGED <<status, answered>>

Reopen(t) ==
  /\ disturbed
  /\ status[t] \in Outcome
  /\ Become(t, "open")
  /\ UNCHANGED <<answered, busy, runs, disturbed>>

Forget(t) ==
  /\ status[t] \in Outcome
  /\ Become(t, "absent")
  /\ answered' = answered \ {t}
  /\ runs' = [runs EXCEPT ![t] = 0]
  /\ UNCHANGED <<busy, disturbed>>

Next ==
  \/ Disturb
  \/ \E t \in Tasks :
       \/ Submit(t) \/ Answer(t) \/ Cancel(t) \/ Reopen(t) \/ Forget(t)
       \/ \E w \in Workers : Begin(w, t) \/ End(w, t)

Spec == Init /\ [][Next]_promiseVars

=============================================================================
