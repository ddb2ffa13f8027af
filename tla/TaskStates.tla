----------------------------- MODULE TaskStates -----------------------------
(***************************************************************************)
(* The code-change task state machine: the statuses of a Task, the table   *)
(* ALLOWED_TRANSITIONS and the function transition().  A task record is    *)
(* any record with a "status" and an "error" field.                        *)
(***************************************************************************)
EXTENDS Naturals

Statuses ==
  {"CREATED", "QUEUED", "PLANNING", "RETRIEVING_CONTEXT", "PATCH_RECEIVED",
   "VALIDATING_PATCH", "GENERATING_PATCH", "APPLYING_PATCH", "RUNNING_TESTS",
   "REVIEWING", "HANDOFF_READY", "APPROVED", "CHANGES_REQUESTED",
   "PR_CREATED", "FAILED", "ROLLED_BACK"}

AllowedTransitions ==
  [s \in Statuses |->
    CASE s = "CREATED"            -> {"QUEUED", "PLANNING", "FAILED"}
      [] s = "QUEUED"             -> {"PLANNING", "FAILED"}
      [] s = "PLANNING"           -> {"RETRIEVING_CONTEXT", "FAILED"}
      [] s = "RETRIEVING_CONTEXT" -> {"PATCH_RECEIVED", "GENERATING_PATCH", "FAILED"}
      [] s = "PATCH_RECEIVED"     -> {"VALIDATING_PATCH", "FAILED"}
      [] s = "VALIDATING_PATCH"   -> {"APPLYING_PATCH", "FAILED"}
      [] s = "GENERATING_PATCH"   -> {"VALIDATING_PATCH", "FAILED"}
      [] s = "APPLYING_PATCH"     -> {"RUNNING_TESTS", "FAILED", "ROLLED_BACK"}
      [] s = "RUNNING_TESTS"      -> {"REVIEWING", "FAILED"}
      [] s = "REVIEWING"          -> {"HANDOFF_READY", "FAILED"}
      [] s = "HANDOFF_READY"      -> {"APPROVED", "CHANGES_REQUESTED"}
      [] s = "APPROVED"           -> {"PR_CREATED"}
      [] s = "CHANGES_REQUESTED"  -> {"QUEUED"}
      [] s = "FAILED"             -> {"QUEUED"}
      [] OTHER                    -> {}]

\* transition() raises InvalidTransition unless this holds.
CanMove(rec, status) == status \in AllowedTransitions[rec.status]

\* The exception handlers of execute_task: the task is FAILED with an error
\* code, unless it already is.  Every status an execution passes may move to
\* FAILED, so this transition itself never raises.
Fail(rec, code) ==
  IF rec.status = "FAILED" THEN rec
  ELSE [rec EXCEPT !.status = "FAILED", !.error = code]

\* transition() as execute_task calls it: an InvalidTransition it raises ends
\* in the catch-all handler.
Move(rec, status) ==
  IF CanMove(rec, status) THEN [rec EXCEPT !.status = status]
  ELSE Fail(rec, "TASK_EXECUTION_FAILED")

-----------------------------------------------------------------------------
\* The life of a task as task.json shows it: an execution goes from QUEUED (or,
\* for run_task_now, from nothing) to HANDOFF_READY or FAILED in one save, and
\* every other step is one transition of the table.
Lifecycle ==
  [s \in Statuses |->
    CASE s = "CREATED"           -> {"QUEUED", "FAILED", "HANDOFF_READY"}
      [] s = "QUEUED"            -> {"FAILED", "HANDOFF_READY"}
      [] s = "HANDOFF_READY"     -> {"APPROVED", "CHANGES_REQUESTED"}
      [] s = "CHANGES_REQUESTED" -> {"QUEUED"}
      [] s = "FAILED"            -> {"QUEUED"}
      [] OTHER                   -> {}]
=============================================================================
