----------------------------- MODULE TaskService -----------------------------
(***************************************************************************)
(* What a worker promises the host that calls `exec`, whatever the script  *)
(* does: one task at a time; each task replied to at most once, and told   *)
(* when it will get no reply; success reported only for a task whose       *)
(* result was sent; a scheduled task that fails says so; and nothing       *)
(* begins once the worker is closed.                                       *)
(***************************************************************************)
CONSTANTS FetchTasks, ScheduledTasks, NoTask

Tasks == FetchTasks \cup ScheduledTasks

VARIABLES
  serving,  \* the task exec is pending for, or NoTask
  closed,   \* abort was called
  status,   \* task -> what exec returned for it, or "none"
  reply     \* task -> what its caller was told

Init ==
  /\ serving = NoTask
  /\ closed = FALSE
  /\ status = [t \in Tasks |-> "none"]
  /\ reply = [t \in Tasks |-> "none"]

Waiting(t) == serving = NoTask /\ status[t] = "none" /\ reply[t] = "none"

Begin(t) ==
  /\ Waiting(t) /\ ~closed
  /\ serving' = t
  /\ UNCHANGED <<closed, status, reply>>

\* The result is sent while the task is still being served.
Reply(t) ==
  /\ serving = t /\ reply[t] = "none"
  /\ reply' = [reply EXCEPT ![t] = "sent"]
  /\ UNCHANGED <<serving, closed, status>>

Return(t, outcome, told) ==
  /\ serving' = NoTask
  /\ status' = [status EXCEPT ![t] = outcome]
  /\ reply' = [reply EXCEPT ![t] = told]
  /\ UNCHANGED closed

Succeed(t) == serving = t /\ reply[t] = "sent" /\ Return(t, "ok", "sent")

\* A fetch that fails drops its channel; a scheduled task reports the error.
Fail(t) ==
  /\ serving = t /\ reply[t] = "none"
  /\ Return(t, "err", IF t \in FetchTasks THEN "dropped" ELSE "error")

\* The result was sent, and what was left to do then failed.
FailLate(t) == serving = t /\ reply[t] = "sent" /\ Return(t, "err", "sent")

\* An event that cannot be served at all.
Reject(t) == Waiting(t) /\ ~closed /\ Return(t, "err", "dropped")

Refuse(t) == Waiting(t) /\ closed /\ Return(t, "refused", "dropped")

\* The host gives up on the task it waits for.
Abandon(t) ==
  /\ serving = t
  /\ Return(t, "dropped", IF reply[t] = "none" THEN "dropped" ELSE reply[t])

Close ==
  /\ serving = NoTask
  /\ closed' = TRUE
  /\ UNCHANGED <<serving, status, reply>>

Next ==
  \/ \E t \in Tasks :
       \/ Begin(t) \/ Reply(t) \/ Succeed(t) \/ Fail(t) \/ FailLate(t)
       \/ Reject(t) \/ Refuse(t) \/ Abandon(t)
  \/ Close

Spec == Init /\ [][Next]_<<serving, closed, status, reply>>
=============================================================================
