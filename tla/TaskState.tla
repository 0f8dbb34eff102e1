------------------------------ MODULE TaskState ------------------------------
(***************************************************************************)
(* The life cycle of one task: internal/task/state.go and the parts of     *)
(* task.go and retry.go that decide a transition.  A task record keeps the *)
(* two fields every decision reads, the state and the attempt counter; the *)
(* retry limit never changes after creation and is the constant            *)
(* MaxRetries.  Timestamps, payload, result and error text are left out.   *)
(*                                                                         *)
(* A transition the table refuses leaves the record unchanged and reports  *)
(* an error; callers that look at the error test CanTransitionTo first.    *)
(***************************************************************************)
EXTENDS Integers

State == {"pending", "scheduled", "running", "completed",
          "failed", "retrying", "canceled", "dead_letter"}

ValidTransitions ==
  [s \in State |->
     CASE s = "pending"     -> {"scheduled", "running", "canceled"}
       [] s = "scheduled"   -> {"pending", "running", "canceled"}
       [] s = "running"     -> {"completed", "failed", "retrying", "canceled"}
       [] s = "retrying"    -> {"running", "failed", "dead_letter", "canceled", "pending"}
       [] s = "failed"      -> {"retrying", "dead_letter", "pending"}
       [] s = "completed"   -> {}
       [] s = "canceled"    -> {}
       [] s = "dead_letter" -> {"pending"}]

CanTransitionTo(s, target) == target \in ValidTransitions[s]

IsFinal(s) == s \in {"completed", "failed", "canceled", "dead_letter"}

\* What the models keep of task.Task.
Record == [state : State, attempts : Nat]

\* Variant for the sensitivity checks: one attempt too many.
CanRetryOnceMore(r, max) == r.attempts <= max

CanRetry(r, max) == r.attempts < max

Transition(r, target) ==
  IF CanTransitionTo(r.state, target) THEN [r EXCEPT !.state = target] ELSE r

\* The attempt is counted only when the transition is allowed.
Start(r) ==
  IF CanTransitionTo(r.state, "running")
  THEN [state |-> "running", attempts |-> r.attempts + 1]
  ELSE r

Complete(r)  == Transition(r, "completed")
Fail(r)      == Transition(r, "failed")
Cancel(r)    == Transition(r, "canceled")
MoveToDLQ(r) == Transition(r, "dead_letter")

Retry(r, max) ==
  Transition(r, IF CanRetry(r, max) THEN "retrying" ELSE "dead_letter")

\* Retryer.ScheduleRetry.  When the task is due is left open: any member of the
\* sorted set may be, so the back-off decides nothing here.
ScheduleRetry(r, max) == Retry(r, max)

\* The attempts are reset before the transition is tried, also when it fails.
Requeue(r) == Transition([r EXCEPT !.attempts = 0], "pending")

\* Orphan recovery: Retry's verdict is ignored and the state forced.
PrepareForRequeue(r, max) == [Retry(r, max) EXCEPT !.state = "pending"]

=============================================================================
