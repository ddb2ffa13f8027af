----------------------------- MODULE Subagents -----------------------------
(***************************************************************************)
(* Subagents in the background: SubagentExecutor.execute_async and its     *)
(* scheduler threads, the coroutine _aexecute on the isolated loop         *)
(* (subagents/executor.py), and the task tool that starts one, polls for   *)
(* its end, and is cancelled with its run (tools/builtins/task_tool.py).   *)
(*                                                                         *)
(* Three threads share a SubagentResult: the loop of the run, where the    *)
(* tool polls, a scheduler thread, which waits with a timeout, and the     *)
(* isolated loop.  Readers of a result do not take its lock, so a terminal *)
(* write is two steps, payload and status.                                 *)
(***************************************************************************)
EXTENDS Naturals, Sequences, FiniteSets

CONSTANTS Tasks,    \* tool calls, each one the id of its background task
          PoolSize  \* max_workers of the scheduler pool

ASSUME SubagentsAssumption == PoolSize \in Nat \ {0}

VARIABLES
  \* SubagentResult
  status,     \* "none" before execute_async
  setting,    \* the status try_set_terminal is setting under the lock, or "none"
  payload,    \* the status that result, error and completed_at belong to, or "none"
  usage,      \* the tasks with token_usage_records
  cancelled,  \* the tasks whose cancel_event is set
  \* the executor
  entries,    \* _background_tasks
  backlog,    \* the tasks waiting for a scheduler thread
  sched,      \* where run_task is
  co,         \* where _aexecute is
  killed,     \* the tasks whose future was cancelled
  \* the tool
  tool,       \* where task_tool is
  answer,     \* what it returned
  reported,   \* the tasks whose usage was reported to the journal
  cleaner,    \* the deferred cleanup of a task
  \* bookkeeping
  waited,     \* history: the tasks that found no scheduler thread free
  unheard     \* history: the tasks that had not ended when their cancelled
              \* tool stopped waiting for them

resultVars == <<status, setting, payload, usage, cancelled>>
execVars   == <<entries, backlog, sched, co, killed>>
toolVars   == <<tool, answer, reported, cleaner, waited, unheard>>
vars == <<resultVars, execVars, toolVars>>

Terminal == {"completed", "failed", "cancelled", "timed_out"}
Statuses == {"none", "pending", "running"} \cup Terminal

Init ==
  /\ status = [t \in Tasks |-> "none"]
  /\ setting = [t \in Tasks |-> "none"]
  /\ payload = [t \in Tasks |-> "none"]
  /\ usage = {}
  /\ cancelled = {}
  /\ entries = {}
  /\ backlog = <<>>
  /\ sched = [t \in Tasks |-> "none"]
  /\ co = [t \in Tasks |-> "none"]
  /\ killed = {}
  /\ tool = [t \in Tasks |-> "idle"]
  /\ answer = [t \in Tasks |-> "none"]
  /\ reported = {}
  /\ cleaner = [t \in Tasks |-> "none"]
  /\ waited = {}
  /\ unheard = {}

-----------------------------------------------------------------------------
(* SubagentResult *)

\* Mutant of Settled: the first terminal status does not win.
SettledNever(t) == FALSE

\* What try_set_terminal looks at first.
Settled(t) == status[t] \in Terminal

\* Mutant of Enter: the status is set first.
EnterStatusFirst(t, s) ==
  /\ setting' = [setting EXCEPT ![t] = s]
  /\ status' = [status EXCEPT ![t] = s]
  /\ UNCHANGED payload

\* try_set_terminal up to its last assignment.
Enter(t, s) ==
  /\ setting' = [setting EXCEPT ![t] = s]
  /\ payload' = [payload EXCEPT ![t] = s]
  /\ UNCHANGED status

\* Its last assignment.
Leave(t) ==
  /\ status' = [status EXCEPT ![t] = setting[t]]
  /\ setting' = [setting EXCEPT ![t] = "none"]
  /\ UNCHANGED payload

\* Mutant of Finished: a task that is to be cancelled counts as finished.
FinishedOrCancelled(t) == status[t] \in Terminal \/ setting[t] # "none" \/ t \in cancelled

\* _is_subagent_terminal and cleanup_background_task also look at
\* completed_at, which is set before the status.
Finished(t) == status[t] \in Terminal \/ setting[t] # "none"

-----------------------------------------------------------------------------
(* Scheduler threads: run_task *)

InPool == {t \in Tasks : sched[t] \notin {"none", "queued", "done"}}

\* ThreadPoolExecutor takes tasks in the order of their submission.
Start(t) ==
  /\ backlog # <<>> /\ t = Head(backlog)
  /\ Cardinality(InPool) < PoolSize
  /\ backlog' = Tail(backlog)
  /\ IF t \in entries
     THEN /\ status' = [status EXCEPT ![t] = "running"]
          /\ sched' = [sched EXCEPT ![t] = "submit"]
     ELSE /\ sched' = [sched EXCEPT ![t] = "done"]
          /\ UNCHANGED status
  /\ UNCHANGED <<setting, payload, usage, cancelled, entries, co, killed, toolVars>>

Submit(t) ==
  /\ sched[t] = "submit"
  /\ sched' = [sched EXCEPT ![t] = "wait"]
  /\ co' = [co EXCEPT ![t] = "build"]
  /\ UNCHANGED <<resultVars, entries, backlog, killed, toolVars>>

\* The isolated loop does not start.
SubmitFails(t) ==
  /\ sched[t] = "submit"
  /\ Enter(t, "failed")
  /\ sched' = [sched EXCEPT ![t] = "settling"]
  /\ UNCHANGED <<usage, cancelled, entries, backlog, co, killed, toolVars>>

\* The future has its result.
Ends(t) ==
  /\ sched[t] = "wait" /\ co[t] = "end"
  /\ sched' = [sched EXCEPT ![t] = "done"]
  /\ UNCHANGED <<resultVars, entries, backlog, co, killed, toolVars>>

\* future.result times out: cancel_event is set.
Expire(t) ==
  /\ sched[t] = "wait" /\ co[t] # "end"
  /\ cancelled' = cancelled \cup {t}
  /\ sched' = [sched EXCEPT ![t] = "expired"]
  /\ UNCHANGED <<status, setting, payload, usage, entries, backlog, co, killed, toolVars>>

\* Mutant of ExpiredNext: the task is cancelled but has no status.
ExpiredUnmarked(t) == "cancel"

ExpiredNext(t) == IF Settled(t) THEN "cancel" ELSE "settling"

\* try_set_terminal(TIMED_OUT).
MarkTimedOut(t) ==
  /\ sched[t] = "expired" /\ setting[t] = "none"
  /\ sched' = [sched EXCEPT ![t] = ExpiredNext(t)]
  /\ IF ExpiredNext(t) = "settling" THEN Enter(t, "timed_out")
                                    ELSE UNCHANGED <<status, setting, payload>>
  /\ UNCHANGED <<usage, cancelled, entries, backlog, co, killed, toolVars>>

Marked(t) ==
  /\ sched[t] = "settling"
  /\ Leave(t)
  /\ sched' = [sched EXCEPT ![t] = "cancel"]
  /\ UNCHANGED <<usage, cancelled, entries, backlog, co, killed, toolVars>>

\* Mutant of Kill: nothing but cancel_event stops the coroutine.
KillNothing(t) == killed' = killed

Kill(t) == killed' = killed \cup {t}

\* future.cancel().
CancelFuture(t) ==
  /\ sched[t] = "cancel"
  /\ Kill(t)
  /\ sched' = [sched EXCEPT ![t] = "done"]
  /\ UNCHANGED <<resultVars, entries, backlog, co, toolVars>>

Schedule(t) ==
  \/ Start(t) \/ Submit(t) \/ SubmitFails(t) \/ Ends(t)
  \/ Expire(t) \/ MarkTimedOut(t) \/ Marked(t) \/ CancelFuture(t)

-----------------------------------------------------------------------------
(* The isolated loop: _aexecute *)

\* try_set_terminal; with the usage that was collected, if any.
Finish(t, s, used) ==
  /\ setting[t] = "none"
  /\ IF Settled(t)
     THEN /\ co' = [co EXCEPT ![t] = "end"]
          /\ UNCHANGED <<status, setting, payload, usage>>
     ELSE /\ Enter(t, s)
          /\ usage' = IF used THEN usage \cup {t} ELSE usage
          /\ co' = [co EXCEPT ![t] = "settling"]
  /\ UNCHANGED <<cancelled, entries, backlog, sched, killed, toolVars>>

\* The agent cannot be built; there is no collector yet, or an empty one.
BuildFails(t) == co[t] = "build" /\ Finish(t, "failed", FALSE)

\* The agent is built, and the task was not cancelled meanwhile.
Stream(t) ==
  /\ co[t] = "build" /\ t \notin cancelled
  /\ co' = [co EXCEPT ![t] = "stream"]
  /\ UNCHANGED <<resultVars, entries, backlog, sched, killed, toolVars>>

\* cancel_event is seen, before the stream or at a chunk of it.
Notice(t) ==
  /\ co[t] \in {"build", "stream"} /\ t \in cancelled
  /\ Finish(t, "cancelled", TRUE)

\* The stream ends or raises; the event is not looked at.
StreamEnds(t) == co[t] = "stream" /\ \E s \in {"completed", "failed"} : Finish(t, s, TRUE)

Finishes(t) ==
  /\ co[t] = "settling"
  /\ Leave(t)
  /\ co' = [co EXCEPT ![t] = "end"]
  /\ UNCHANGED <<usage, cancelled, entries, backlog, sched, killed, toolVars>>

\* CancelledError at an await; no handler of _aexecute takes it.
Die(t) ==
  /\ co[t] \in {"build", "stream"} /\ t \in killed
  /\ co' = [co EXCEPT ![t] = "end"]
  /\ UNCHANGED <<resultVars, entries, backlog, sched, killed, toolVars>>

Execute(t) == BuildFails(t) \/ Stream(t) \/ Notice(t) \/ StreamEnds(t) \/ Finishes(t) \/ Die(t)

-----------------------------------------------------------------------------
(* The tool *)

\* execute_async.
Call(t) ==
  /\ tool[t] = "idle"
  /\ status' = [status EXCEPT ![t] = "pending"]
  /\ entries' = entries \cup {t}
  /\ backlog' = Append(backlog, t)
  /\ sched' = [sched EXCEPT ![t] = "queued"]
  /\ waited' = IF Cardinality(InPool) + Len(backlog) < PoolSize THEN waited ELSE waited \cup {t}
  /\ tool' = [tool EXCEPT ![t] = "poll"]
  /\ UNCHANGED <<setting, payload, usage, cancelled, co, killed, answer, reported, cleaner,
                 unheard>>

\* _report_subagent_usage: only what there is, and once.
Report(t) == reported' = IF t \in usage THEN reported \cup {t} ELSE reported

\* cleanup_background_task.
Remove(t) == entries' = IF Finished(t) THEN entries \ {t} ELSE entries

\* Mutant of Return: the tool answers with the status of the task, ended or not.
ReturnStatus(t, a) ==
  /\ tool' = [tool EXCEPT ![t] = "done"]
  /\ answer' = [answer EXCEPT ![t] = status[t]]

Return(t, a) ==
  /\ tool' = [tool EXCEPT ![t] = "done"]
  /\ answer' = [answer EXCEPT ![t] = a]

\* One look at the task: it has ended, it is gone, or the tool sleeps.
Poll(t) ==
  /\ tool[t] = "poll"
  /\ IF t \notin entries
     THEN Return(t, "disappeared") /\ UNCHANGED <<entries, reported>>
     ELSE IF status[t] \in Terminal
     THEN Return(t, status[t]) /\ Report(t) /\ Remove(t)
     ELSE /\ tool' = [tool EXCEPT ![t] = "sleep"]
          /\ UNCHANGED <<entries, answer, reported>>
  /\ UNCHANGED <<resultVars, backlog, sched, co, killed, cleaner, waited, unheard>>

Wake(t) ==
  /\ tool[t] = "sleep"
  /\ tool' = [tool EXCEPT ![t] = "poll"]
  /\ UNCHANGED <<resultVars, execVars, answer, reported, cleaner, waited, unheard>>

\* The execution timeout and a minute have passed since the call: that comes
\* after the timeout of the scheduler thread, unless the task had to wait
\* for a thread.
PollsOut(t) ==
  /\ tool[t] = "sleep" /\ t \in waited
  /\ Report(t)
  /\ cancelled' = IF t \in entries THEN cancelled \cup {t} ELSE cancelled
  /\ cleaner' = [cleaner EXCEPT ![t] = "active"]
  /\ Return(t, "polled_out")
  /\ UNCHANGED <<status, setting, payload, usage, execVars, waited, unheard>>

\* The run is cancelled; the tool can take that up where it awaits.
CancelTool(t) ==
  /\ tool[t] = "sleep"
  /\ cancelled' = IF t \in entries THEN cancelled \cup {t} ELSE cancelled
  /\ tool' = [tool EXCEPT ![t] = "drain"]
  /\ UNCHANGED <<status, setting, payload, usage, execVars, answer, reported, cleaner,
                 waited, unheard>>

Leftover(t) == ~Finished(t)

\* The task has ended: its usage is reported.
Drained(t) ==
  /\ tool[t] = "drain" /\ Finished(t)
  /\ Report(t)
  /\ tool' = [tool EXCEPT ![t] = "leave"]
  /\ UNCHANGED <<resultVars, execVars, answer, cleaner, waited, unheard>>

\* The run is cancelled again, or the polls of _await_subagent_terminal are
\* used up: what there is by now is reported.
DrainGivesUp(t) ==
  /\ tool[t] = "drain"
  /\ Report(t)
  /\ unheard' = IF Finished(t) THEN unheard ELSE unheard \cup {t}
  /\ tool' = [tool EXCEPT ![t] = "leave"]
  /\ UNCHANGED <<resultVars, execVars, answer, cleaner, waited>>

\* The end of the handler of the cancellation.  The task may have ended since
\* its usage was read.
Raise(t) ==
  /\ tool[t] = "leave"
  /\ Remove(t)
  /\ cleaner' = [cleaner EXCEPT ![t] = IF Leftover(t) THEN "active" ELSE "none"]
  /\ Return(t, "raised")
  /\ UNCHANGED <<resultVars, backlog, sched, co, killed, reported, waited, unheard>>

\* _deferred_cleanup_subagent_task
Clean(t) ==
  /\ cleaner[t] = "active" /\ Finished(t)
  /\ Remove(t)
  /\ cleaner' = [cleaner EXCEPT ![t] = "cleaned"]
  /\ UNCHANGED <<resultVars, backlog, sched, co, killed, tool, answer, reported, waited, unheard>>

CleanGivesUp(t) ==
  /\ cleaner[t] = "active" /\ t \in waited /\ ~Finished(t)
  /\ cleaner' = [cleaner EXCEPT ![t] = "gave_up"]
  /\ UNCHANGED <<resultVars, execVars, tool, answer, reported, waited, unheard>>

Serve(t) == Poll(t) \/ Wake(t) \/ Drained(t) \/ Raise(t) \/ Clean(t)

-----------------------------------------------------------------------------

Next ==
  \E t \in Tasks :
    \/ Call(t) \/ Serve(t) \/ PollsOut(t) \/ CancelTool(t) \/ DrainGivesUp(t) \/ CleanGivesUp(t)
    \/ Schedule(t) \/ Execute(t)

Spec == Init /\ [][Next]_vars

\* Threads run and timeouts fire.  A stream may stay silent for ever: of the
\* coroutine only what follows its waking is fair.
FairSpec ==
  /\ Spec
  /\ \A t \in Tasks : WF_vars(Schedule(t)) /\ WF_vars(Serve(t)) /\ WF_vars(Finishes(t) \/ Die(t))

-----------------------------------------------------------------------------
(* Correctness *)

TypeOK ==
  /\ status \in [Tasks -> Statuses]
  /\ setting \in [Tasks -> {"none"} \cup Terminal]
  /\ payload \in [Tasks -> {"none"} \cup Terminal]
  /\ usage \in SUBSET Tasks
  /\ cancelled \in SUBSET Tasks
  /\ entries \in SUBSET Tasks
  /\ backlog \in Seq(Tasks)
  /\ sched \in [Tasks -> {"none", "queued", "submit", "wait", "expired", "settling", "cancel", "done"}]
  /\ co \in [Tasks -> {"none", "build", "stream", "settling", "end"}]
  /\ killed \in SUBSET Tasks
  /\ tool \in [Tasks -> {"idle", "poll", "sleep", "drain", "leave", "done"}]
  /\ answer \in [Tasks -> {"none", "disappeared", "polled_out", "raised"} \cup Terminal]
  /\ reported \in SUBSET Tasks
  /\ cleaner \in [Tasks -> {"none", "active", "cleaned", "gave_up"}]
  /\ waited \in SUBSET Tasks
  /\ unheard \in SUBSET Tasks

\* The first terminal status of a subagent wins: the timeout and the end of
\* the execution, however they race, never rewrite one another's outcome
\* (try_set_terminal).
FirstTerminalWins ==
  [][\A t \in Tasks :
       status[t] \in Terminal => status'[t] = status[t] /\ payload'[t] = payload[t]]_<<status, payload>>

\* What the tool answers is what the task came to, and the tokens it used
\* are in the journal by then, although the tool reads without the lock; so
\* they are when a cancelled tool has heard of the end.  A task that ends while
\* its tool already leaves, or that is left to a deferred cleanup, may never
\* be reported.
AnswersAreComplete ==
  \A t \in Tasks :
    /\ answer[t] # "disappeared"
    /\ answer[t] \in Terminal => answer[t] = status[t] /\ payload[t] = status[t]
    /\ tool[t] = "done" /\ cleaner[t] = "none" /\ t \in usage => t \in reported \cup unheard

\* A task keeps its entry until its thread has found it there, and an entry
\* whose tool call is over has somebody to remove it, unless that one gave up.
EntriesAreOwned ==
  \A t \in Tasks :
    /\ sched[t] = "queued" => t \in entries
    /\ t \in entries /\ tool[t] = "done" => cleaner[t] \in {"active", "gave_up"}

\* Every tool call ends, although subagents hang.
ToolsReturn == \A t \in Tasks : tool[t] = "poll" ~> tool[t] = "done"

\* No subagent outlives its timeout, whether anybody still waits for it.
SubagentsStop == \A t \in Tasks : co[t] = "build" ~> co[t] = "end"
=============================================================================
