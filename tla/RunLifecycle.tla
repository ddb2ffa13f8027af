---------------------------- MODULE RunLifecycle ----------------------------
(***************************************************************************)
(* The runs of one thread: RunManager (runtime/runs/manager.py), the       *)
(* coroutine run_agent of each run (runtime/runs/worker.py), the requests  *)
(* that create and cancel runs (gateway/services.py, thread_runs.py) and   *)
(* the start and stop of the gateway process.                              *)
(*                                                                         *)
(* asyncio interleaves coroutines at their awaits only: what happens       *)
(* between two awaits is one action.  Two things hold RunManager._lock     *)
(* across an await, creating a run and nothing else, so the lock is "taken *)
(* while some run is being put into the store".                            *)
(*                                                                         *)
(* A checkpoint is the set of the runs whose writes it contains.           *)
(***************************************************************************)
EXTENDS Naturals

CONSTANTS MaxRuns,     \* bound: how many runs are created
          FaultKinds,  \* the faults that may happen
          MaxFaults    \* bound: how many of them

Faults == {"crash", "store_error", "bad_request", "checkpoint_error", "early_cancel"}

ASSUME RunLifecycleAssumption ==
  /\ MaxRuns \in Nat
  /\ FaultKinds \subseteq Faults
  /\ MaxFaults \in Nat

\* Runs are numbered in the order of their creation, the order of the thread
\* index of RunManager.
Runs == 1..MaxRuns

VARIABLES
  \* RunRecord
  status,    \* its status, "none" when the manager has no such run
  fin,       \* the runs that are finalizing
  action,    \* abort_action once abort_event is set, else "none"
  strategy,  \* the multitask_strategy of the request, while it is in create_or_reject
  \* run_agent
  pc,        \* where the request or the task is
  kill,      \* the runs whose task has a CancelledError coming
  captured,  \* pre_run_snapshot: "no", "failed" or "yes"
  snap,      \* the snapshot
  base,      \* the checkpoint that what it writes next is built on
  \* the stores
  row,       \* the status in the run store
  late,      \* the runs a request that cancelled them has yet to store so
  ckpt,      \* the checkpoint of the thread
  \* the process
  mode,      \* "up", "draining" or "down"
  \* bookkeeping
  faults,    \* how many faults happened
  unsaved,   \* history: the runs a status write of which failed
  unborn     \* history: the runs cancelled while start_run had made no task of them

recordVars == <<status, fin, action, strategy>>
workerVars == <<pc, kill, captured, snap, base>>
storeVars  == <<row, late, ckpt>>
bookVars   == <<faults, unsaved>>
vars == <<recordVars, workerVars, storeVars, mode, bookVars, unborn>>

Active == {"pending", "running"}
Terminal == {"success", "error", "interrupted"}
Strategies == {"reject", "interrupt", "rollback"}
\* Where a task can be that is not done; "failing" is the wait for the lock
\* in the handler of an exception.
TaskPCs == {"new", "wait", "snapshot", "graph", "failing", "restore", "complete",
            "title", "title_read", "title_put", "close"}
PCs == {"none", "refused", "put", "launch", "aborted", "dead", "done", "lost"} \cup TaskPCs
\* Inside the try block of run_agent, where a cancellation finds its handler.
Trying == {"wait", "snapshot", "graph"}

Init ==
  /\ status = [r \in Runs |-> "none"]
  /\ fin = {}
  /\ action = [r \in Runs |-> "none"]
  /\ strategy = [r \in Runs |-> "reject"]
  /\ pc = [r \in Runs |-> "none"]
  /\ kill = {}
  /\ captured = [r \in Runs |-> "no"]
  /\ snap = [r \in Runs |-> {}]
  /\ base = [r \in Runs |-> {}]
  /\ row = [r \in Runs |-> "none"]
  /\ late = {}
  /\ ckpt = {}
  /\ mode = "up"
  /\ faults = 0
  /\ unsaved = {}
  /\ unborn = {}

-----------------------------------------------------------------------------
(* The lock, the thread index and the run store *)

LockFree == \A r \in Runs : pc[r] # "put"

\* asyncio.Lock is fair: whoever waits for it goes first.
LockQueueEmpty == \A r \in Runs : pc[r] # "failing"

Serving == mode # "down"

TaskActive(r) == pc[r] \in TaskPCs

Inflight(r) == status[r] \in Active \/ r \in fin

\* Mutants of PriorFinalizing: a run waits for older ones that are active, or
\* for all others.
PriorActive(r) == \E q \in Runs : q < r /\ status[q] \in Active
OtherFinalizing(r) == \E q \in Runs : q # r /\ q \in fin

PriorFinalizing(r) == \E q \in Runs : q < r /\ q \in fin

LaterStarted(r) == \E q \in Runs : q > r /\ (status[q] \notin {"none", "pending"} \/ q \in fin)

Fault(kind) == kind \in FaultKinds /\ faults < MaxFaults /\ faults' = faults + 1

\* Of the runs that are cancelled one has no task yet: counted among the faults
\* to bound what follows from it.
Early(cancelled) ==
  IF \E q \in cancelled : pc[q] = "launch" THEN Fault("early_cancel") ELSE UNCHANGED faults

\* _persist_status: best effort, five attempts.
Persist(r, s) ==
  \/ row' = [row EXCEPT ![r] = s] /\ UNCHANGED bookVars
  \/ Fault("store_error") /\ unsaved' = unsaved \cup {r} /\ UNCHANGED row

\* Mutant of SetFinalizing: the mark is never set.
SetFinalizingNever(r, b) == fin' = fin \ {r}

SetFinalizing(r, b) == fin' = IF b THEN fin \cup {r} ELSE fin \ {r}

Goto(r, p) == pc' = [pc EXCEPT ![r] = p]

-----------------------------------------------------------------------------
(* Requests *)

\* create_or_reject up to the await: the record is in the index, the lock is
\* held.
Request(r, s) ==
  /\ mode = "up" /\ LockFree /\ LockQueueEmpty
  /\ pc[r] = "none" /\ \A q \in Runs : q < r => pc[q] # "none"
  /\ \/ s = "reject" /\ (\A q \in Runs : ~Inflight(q)) /\ UNCHANGED faults
     \/ s # "reject" /\ Early({q \in Runs : status[q] \in Active})
  /\ status' = [status EXCEPT ![r] = "pending"]
  /\ strategy' = [strategy EXCEPT ![r] = s]
  /\ Goto(r, "put")
  /\ UNCHANGED <<fin, action, kill, captured, snap, base, storeVars, mode, unborn, unsaved>>

\* The runs create_or_reject cancels once the new one is stored.
Cut(r) == {q \in Runs : q # r /\ strategy[r] # "reject" /\ status[q] \in Active /\ q \notin fin}

\* create_or_reject after the await: the row is there, the lock is released.
Admit(r) ==
  /\ Serving /\ pc[r] = "put"
  /\ action' = [q \in Runs |-> IF q \in Cut(r) THEN strategy[r] ELSE action[q]]
  /\ fin' = fin \cup {q \in Cut(r) : TaskActive(q)}
  /\ kill' = kill \cup {q \in Cut(r) : TaskActive(q)}
  /\ status' = [q \in Runs |-> IF q \in Cut(r) THEN "interrupted" ELSE status[q]]
  /\ late' = late \cup Cut(r)
  /\ unborn' = unborn \cup {q \in Cut(r) : pc[q] = "launch"}
  /\ row' = [row EXCEPT ![r] = "pending"]
  /\ strategy' = [strategy EXCEPT ![r] = "reject"]
  /\ Goto(r, "launch")
  /\ UNCHANGED <<captured, snap, base, ckpt, mode, bookVars>>

\* The row cannot be written, or the request is cancelled while it is: the
\* record is dropped, the row may be there.
Refuse(r) ==
  /\ Serving /\ pc[r] = "put" /\ Fault("store_error")
  /\ status' = [status EXCEPT ![r] = "none"]
  /\ \E s \in {"none", "pending"} : row' = [row EXCEPT ![r] = s]
  /\ unsaved' = unsaved \cup {r}
  /\ strategy' = [strategy EXCEPT ![r] = "reject"]
  /\ Goto(r, "refused")
  /\ UNCHANGED <<fin, action, kill, captured, snap, base, late, ckpt, mode, unborn>>

\* The rest of start_run: the task is created.
Launch(r) ==
  /\ Serving /\ pc[r] = "launch"
  /\ Goto(r, "new")
  /\ UNCHANGED <<recordVars, kill, captured, snap, base, storeVars, mode, unborn, bookVars>>

\* The checkpoint the request names does not exist: the run is left pending.
LaunchFails(r) ==
  /\ Serving /\ pc[r] = "launch" /\ Fault("bad_request")
  /\ Goto(r, "aborted")
  /\ UNCHANGED <<recordVars, kill, captured, snap, base, storeVars, mode, unborn, unsaved>>

Cancellable(r) == status[r] \in Active

\* RunManager.cancel, of a cancel request or of a client that disconnected.
Cancel(r, a) ==
  /\ Serving /\ LockFree /\ LockQueueEmpty
  /\ Cancellable(r) /\ Early({r})
  /\ action' = [action EXCEPT ![r] = a]
  /\ SetFinalizing(r, TaskActive(r))
  /\ kill' = IF TaskActive(r) THEN kill \cup {r} ELSE kill
  /\ status' = [status EXCEPT ![r] = "interrupted"]
  /\ late' = late \cup {r}
  /\ unborn' = IF pc[r] = "launch" THEN unborn \cup {r} ELSE unborn
  /\ UNCHANGED <<strategy, pc, captured, snap, base, row, ckpt, mode, unsaved>>

\* The write of "interrupted" that create_or_reject or cancel started after
\* it had released the lock reaches the store.
PersistLate(r) ==
  /\ Serving /\ r \in late
  /\ Persist(r, "interrupted")
  /\ late' = late \ {r}
  /\ UNCHANGED <<recordVars, workerVars, ckpt, mode, unborn>>

-----------------------------------------------------------------------------
(* run_agent *)

Begin(r) ==
  /\ pc[r] = "new" /\ r \notin kill
  /\ Goto(r, "wait")
  /\ UNCHANGED <<recordVars, kill, captured, snap, base, storeVars, mode, unborn, bookVars>>

\* A task that is cancelled before its first step, by a request or by the
\* drain, never enters run_agent: nobody takes the finalizing mark away.
NeverRuns(r) ==
  /\ pc[r] = "new" /\ r \in kill
  /\ Goto(r, "dead")
  /\ kill' = kill \ {r}
  /\ UNCHANGED <<recordVars, captured, snap, base, storeVars, mode, unborn, bookVars>>

\* wait_for_prior_finalizing returns; set_status(running).
Proceed(r) ==
  /\ pc[r] = "wait" /\ r \notin kill /\ LockFree
  /\ ~PriorFinalizing(r)
  /\ status' = [status EXCEPT ![r] = "running"]
  /\ Persist(r, "running")
  /\ Goto(r, "snapshot")
  /\ UNCHANGED <<fin, action, strategy, kill, captured, snap, base, late, ckpt, mode, unborn>>

\* The checkpoint is read, for a rollback, and by the graph as it starts.
Snapshot(r) ==
  /\ pc[r] = "snapshot" /\ r \notin kill
  /\ \/ /\ captured' = [captured EXCEPT ![r] = "yes"]
        /\ snap' = [snap EXCEPT ![r] = ckpt]
        /\ UNCHANGED faults
     \/ /\ Fault("checkpoint_error")
        /\ captured' = [captured EXCEPT ![r] = "failed"]
        /\ UNCHANGED snap
  /\ base' = [base EXCEPT ![r] = ckpt]
  /\ Goto(r, "graph")
  /\ UNCHANGED <<recordVars, kill, storeVars, mode, unborn, unsaved>>

\* The graph writes a checkpoint, unless it stops at the chunk because
\* abort_event is set.
Turn(r) ==
  /\ pc[r] = "graph" /\ r \notin kill /\ r \notin base[r]
  /\ base' = [base EXCEPT ![r] = @ \cup {r}]
  /\ ckpt' = base[r] \cup {r}
  /\ UNCHANGED <<recordVars, pc, kill, captured, snap, row, late, mode, unborn, bookVars>>

\* The graph ends, its answer or the provider's failure in the last chunk.
GraphEnds(r) ==
  /\ pc[r] = "graph" /\ r \notin kill /\ action[r] = "none" /\ LockFree
  /\ \E s \in {"success", "error"} :
       /\ status' = [status EXCEPT ![r] = s]
       /\ Persist(r, s)
  /\ Goto(r, "complete")
  /\ UNCHANGED <<fin, action, strategy, kill, captured, snap, base, late, ckpt, mode, unborn>>

\* set_status(error) of the handler of an exception.
SetError(r) ==
  /\ status' = [status EXCEPT ![r] = "error"]
  /\ Persist(r, "error")
  /\ Goto(r, "complete")
  /\ UNCHANGED <<fin, action, strategy, kill, captured, snap, base, late, ckpt, mode, unborn>>

GraphRaises(r) == pc[r] = "graph" /\ r \notin kill /\ LockFree /\ SetError(r)

GraphRaisesLocked(r) ==
  /\ pc[r] = "graph" /\ r \notin kill /\ ~LockFree
  /\ Goto(r, "failing")
  /\ UNCHANGED <<recordVars, kill, captured, snap, base, storeVars, mode, unborn, bookVars>>

Fail(r) == pc[r] = "failing" /\ r \notin kill /\ LockFree /\ SetError(r)

\* The request that holds the lock cancels the run in its handler: no handler
\* takes that up, and the run goes on with the finally block.
FailCancelled(r) ==
  /\ pc[r] = "failing" /\ r \in kill
  /\ kill' = kill \ {r}
  /\ Goto(r, "complete")
  /\ UNCHANGED <<recordVars, captured, snap, base, storeVars, mode, unborn, bookVars>>

\* Mutant of AbortStatus: the action is taken for a status.
AbortStatusNamed(r) == action[r]

AbortStatus(r) == IF action[r] = "rollback" THEN "error" ELSE "interrupted"

\* The end of an aborted run: CancelledError is raised at the await where the
\* run is, or a chunk comes and abort_event is set.
CleanUp(r) ==
  /\ pc[r] \in Trying /\ LockFree
  /\ r \in kill \/ (pc[r] = "graph" /\ action[r] # "none")
  /\ kill' = kill \ {r}
  /\ SetFinalizing(r, TRUE)
  /\ status' = [status EXCEPT ![r] = AbortStatus(r)]
  /\ Persist(r, AbortStatus(r))
  /\ Goto(r, IF action[r] = "rollback" THEN "restore" ELSE "complete")
  /\ UNCHANGED <<action, strategy, captured, snap, base, late, ckpt, mode, unborn>>

\* Mutant of Restored: the run's last own checkpoint is put back.
RestoredLast(r) == IF captured[r] = "failed" THEN ckpt ELSE base[r]

Restored(r) == IF captured[r] = "failed" THEN ckpt ELSE snap[r]

\* _rollback_to_pre_run_checkpoint: without a snapshot the thread is deleted,
\* also when none was taken.
Restore(r) ==
  /\ pc[r] = "restore"
  /\ \/ /\ ckpt' = Restored(r)
        /\ UNCHANGED <<captured, faults>>
     \/ /\ Fault("checkpoint_error")
        /\ captured' = [captured EXCEPT ![r] = "failed"]
        /\ UNCHANGED ckpt
  /\ Goto(r, "complete")
  /\ UNCHANGED <<recordVars, kill, snap, base, row, late, mode, unborn, unsaved>>

\* The finally block: update_run_completion writes the status once more, if
\* there is a journal and the store takes it.
Complete(r) ==
  /\ pc[r] = "complete" /\ LockFree
  /\ \E s \in {row[r], status[r]} : row' = [row EXCEPT ![r] = s]
  /\ Goto(r, IF status[r] = "interrupted" THEN "title" ELSE "close")
  /\ UNCHANGED <<recordVars, kill, captured, snap, base, late, ckpt, mode, unborn, bookVars>>

\* An interrupted run waits and looks whether it may write a title.
Title(r) ==
  /\ pc[r] = "title" /\ LockFree
  /\ ~PriorFinalizing(r)
  /\ Goto(r, IF LaterStarted(r) THEN "close" ELSE "title_read")
  /\ UNCHANGED <<recordVars, kill, captured, snap, base, storeVars, mode, unborn, bookVars>>

\* _ensure_interrupted_title: there is a title already, or none to derive.
TitleSkipped(r) ==
  /\ pc[r] = "title_read"
  /\ Goto(r, "close")
  /\ UNCHANGED <<recordVars, kill, captured, snap, base, storeVars, mode, unborn, bookVars>>

TitleRead(r) ==
  /\ pc[r] = "title_read"
  /\ base' = [base EXCEPT ![r] = ckpt]
  /\ Goto(r, "title_put")
  /\ UNCHANGED <<recordVars, kill, captured, snap, storeVars, mode, unborn, bookVars>>

TitlePut(r) ==
  /\ pc[r] = "title_put"
  /\ ckpt' = base[r]
  /\ Goto(r, "close")
  /\ UNCHANGED <<recordVars, kill, captured, snap, base, row, late, mode, unborn, bookVars>>

\* set_finalizing(False), publish_end; the locals of the coroutine are gone.
Close(r) ==
  /\ pc[r] = "close"
  /\ r \in fin => LockFree
  /\ SetFinalizing(r, FALSE)
  /\ snap' = [snap EXCEPT ![r] = {}]
  /\ base' = [base EXCEPT ![r] = {}]
  /\ Goto(r, "done")
  /\ UNCHANGED <<status, action, strategy, kill, captured, storeVars, mode, unborn, bookVars>>

Work(r) ==
  \/ Begin(r) \/ NeverRuns(r) \/ Proceed(r) \/ Snapshot(r)
  \/ Turn(r) \/ GraphEnds(r) \/ GraphRaises(r) \/ GraphRaisesLocked(r)
  \/ Fail(r) \/ FailCancelled(r)
  \/ CleanUp(r) \/ Restore(r)
  \/ Complete(r) \/ Title(r) \/ TitleSkipped(r) \/ TitleRead(r) \/ TitlePut(r) \/ Close(r)

-----------------------------------------------------------------------------
(* The process *)

\* shutdown: every run that is active is cancelled and awaited.
ShutDown ==
  /\ mode = "up" /\ LockFree /\ LockQueueEmpty
  /\ LET drained == {r \in Runs : status[r] \in Active /\ TaskActive(r)}
     IN /\ action' = [r \in Runs |-> IF r \in drained THEN "interrupt" ELSE action[r]]
        /\ kill' = kill \cup drained
  /\ mode' = "draining"
  /\ UNCHANGED <<status, fin, strategy, pc, captured, snap, base, storeVars, bookVars, unborn>>

\* The memory of the process is gone.
Forget ==
  /\ mode' = "down"
  /\ status' = [r \in Runs |-> "none"]
  /\ fin' = {}
  /\ kill' = {}
  /\ late' = {}
  /\ pc' = [r \in Runs |-> IF pc[r] = "none" THEN "none" ELSE "lost"]
  /\ action' = [r \in Runs |-> "none"]
  /\ strategy' = [r \in Runs |-> "reject"]
  /\ captured' = [r \in Runs |-> "no"]
  /\ snap' = [r \in Runs |-> {}]
  /\ base' = [r \in Runs |-> {}]
  /\ UNCHANGED <<ckpt, unborn>>

\* The drain is over: the tasks that did not settle are marked, if time is
\* left for it.
Exit ==
  /\ mode = "draining" /\ LockFree
  /\ \E marked \in SUBSET {r \in Runs : action[r] = "interrupt" /\ pc[r] \in TaskPCs \cup {"dead"}} :
       row' = [r \in Runs |-> IF r \in marked THEN "interrupted" ELSE row[r]]
  /\ Forget
  /\ UNCHANGED bookVars

Crash ==
  /\ Serving /\ Fault("crash")
  /\ \E stored \in SUBSET {r \in Runs : pc[r] = "put"} :
       row' = [r \in Runs |-> IF r \in stored THEN "pending" ELSE row[r]]
  /\ Forget
  /\ UNCHANGED unsaved

\* Mutant of Orphans: a run that had not started is no orphan.
OrphansRunning == {r \in Runs : row[r] = "running"}

Orphans == {r \in Runs : row[r] \in Active}

\* reconcile_orphaned_inflight_runs, before requests are served: a row that
\* cannot be written is skipped.
Recover ==
  /\ mode = "down" /\ mode' = "up"
  /\ \E failed \in SUBSET Orphans :
       /\ row' = [r \in Runs |-> IF r \in Orphans \ failed THEN "error" ELSE row[r]]
       /\ unsaved' = unsaved \cup failed
       /\ IF failed = {} THEN UNCHANGED faults ELSE Fault("store_error")
  /\ UNCHANGED <<recordVars, workerVars, late, ckpt, unborn>>

-----------------------------------------------------------------------------

Next ==
  \/ \E r \in Runs :
       \/ \E s \in Strategies : Request(r, s)
       \/ \E a \in {"interrupt", "rollback"} : Cancel(r, a)
       \/ Admit(r) \/ Refuse(r) \/ Launch(r) \/ LaunchFails(r) \/ PersistLate(r)
       \/ Work(r)
  \/ ShutDown \/ Exit \/ Crash \/ Recover

Spec == Init /\ [][Next]_vars

\* Every coroutine that can go on does: the event loop is fair, the stores
\* answer, and the graph ends (its steps are bounded by recursion_limit).
FairSpec ==
  /\ Spec
  /\ \A r \in Runs : WF_vars(Admit(r) \/ Refuse(r) \/ Launch(r) \/ LaunchFails(r) \/ Work(r))

-----------------------------------------------------------------------------
(* Correctness *)

TypeOK ==
  /\ status \in [Runs -> {"none"} \cup Active \cup Terminal]
  /\ fin \in SUBSET Runs
  /\ action \in [Runs -> {"none", "interrupt", "rollback"}]
  /\ strategy \in [Runs -> Strategies]
  /\ pc \in [Runs -> PCs]
  /\ kill \in SUBSET Runs
  /\ captured \in [Runs -> {"no", "failed", "yes"}]
  /\ snap \in [Runs -> SUBSET Runs]
  /\ base \in [Runs -> SUBSET Runs]
  /\ row \in [Runs -> {"none"} \cup Active \cup Terminal]
  /\ late \in SUBSET Runs
  /\ ckpt \in SUBSET Runs
  /\ mode \in {"up", "draining", "down"}
  /\ faults \in Nat
  /\ unsaved \in SUBSET Runs
  /\ unborn \in SUBSET Runs

\* A thread has one active run, whatever was created, cancelled or failed
\* while a new one was put into the store (create_or_reject); only a run that
\* was cancelled before it had a task runs all the same, beside newer ones.
OneActive ==
  \A q, r \in Runs :
    status[q] \in Active /\ status[r] \in Active /\ q < r => pc[r] = "put" \/ q \in unborn

\* Where what a run read of the checkpoint goes back into it.
Writing(r) ==
  \/ pc[r] \in {"graph", "title_put"}
  \/ pc[r] = "restore" /\ captured[r] = "yes"

\* One run at a time works on the thread's checkpoint: the clean-up of a run
\* that was cut and the start of the run that cut it do not overlap
\* (wait_for_prior_finalizing, finalizing), but for a run that was cut before
\* it had a task.
OneWriter == \A q, r \in Runs : q < r /\ Writing(q) /\ Writing(r) => q \in unborn

\* A checkpoint written by one run keeps the writes of all other runs; only a
\* rollback that has no snapshot deletes the thread (while no run is unborn).
OthersKept ==
  [][\A q \in ckpt \ ckpt' :
       \/ unborn # {}
       \/ \E r \in Runs : pc[r] = "restore" /\ (q = r \/ captured[r] = "no")]_ckpt

\* A rollback takes back the writes of its own run and of no other one
\* (cancel: reverts to pre-run state).
RollbackRestores ==
  [][\A r \in Runs : pc[r] = "restore" => ckpt' = ckpt \ {r}]_ckpt

\* A run that was rolled back has left nothing in the thread, not even after
\* later runs and the titles of interrupted ones were written (while no run is
\* unborn).
RolledBackIsGone ==
  \A r \in Runs :
    /\ pc[r] \in {"complete", "close", "done"}
    /\ status[r] = "error" /\ action[r] = "rollback" /\ captured[r] # "failed"
    => r \notin ckpt \/ unborn # {}

\* A run that succeeded or failed keeps its status: no late cancellation and
\* no later request rewrites the outcome.
OutcomeStays ==
  [][\A r \in Runs :
       status[r] \in {"success", "error"} => status'[r] \in {status[r], "none"}]_status

\* An active row in the run store has a run behind it in this process, also
\* after crashes and drains and with late writes of cancelling requests.
ActiveRowsAreOwned ==
  \A r \in Runs :
    row[r] \in Active /\ mode # "down" /\ r \notin unsaved =>
      \/ r \in late
      \/ pc[r] \in {"put", "launch", "aborted"} \cup TaskPCs
      \/ pc[r] = "dead" /\ mode = "draining"

\* A run that came to its end has left the state in which later runs wait for
\* it; one that was cancelled before its first step never does.
DoneIsNotFinalizing == \A r \in Runs : pc[r] = "done" => r \notin fin

\* Every run that starts reaches its END event, however the runs before it
\* are cancelled and wait for each other, unless it waits for one that was
\* cancelled before its first step (wait_for_prior_finalizing).
StartedRunsEnd ==
  \A r \in Runs :
    pc[r] = "wait" ~> \/ pc[r] \in {"done", "lost"}
                      \/ \E q \in Runs : q < r /\ pc[q] = "dead" /\ q \in fin

-----------------------------------------------------------------------------
(* The runs as if each read and wrote the checkpoint in one step *)

\* What a run has read of the checkpoint and may put back.
Held(r) ==
  IF ~Writing(r) THEN {}
  ELSE (IF pc[r] # "restore" THEN base[r] ELSE {})
       \cup (IF pc[r] # "title_put" /\ captured[r] = "yes" THEN snap[r] ELSE {})

Deleted == (UNION {Held(r) : r \in Runs}) \ ckpt

Stopped == {r \in Runs : pc[r] \notin {"none", "put", "launch", "new", "wait", "snapshot", "graph"}}

\* The snapshots, checkpoints and titles that runs read and later write back
\* come to what ThreadContents says, although runs are cut, cancelled, rolled
\* back and lost between the two, as long as no run is unborn.
Contents == INSTANCE ThreadContents WITH content <- ckpt, deleted <- Deleted, stopped <- Stopped
ContentsAreAtomic ==
  Contents!ContentsInit /\ [][unborn' # {} \/ Contents!ContentsNext]_(Contents!contentsVars)

\* A stopped run that is neither in the thread nor in what another may bring
\* back stays out of it for good, also after a restart.
StaysOut ==
  [][unborn' = {} =>
       \A r \in Stopped : r \notin ckpt \cup Deleted => r \notin ckpt' \cup Deleted']_vars

-----------------------------------------------------------------------------
(* What makes them inductive *)

\* Runs are created one after the other, and only the last one can be on its
\* way into the store.
OrderInv ==
  \A q, r \in Runs : q < r =>
    /\ pc[q] = "none" => pc[r] = "none"
    /\ pc[q] = "put" => pc[r] = "none"

\* A run that has not come to its end has no outcome.
NoOutcomeYet ==
  \A r \in Runs :
    /\ pc[r] = "none" => status[r] = "none"
    /\ pc[r] = "put" => status[r] = "pending"
    /\ pc[r] \in {"none", "put"} => row[r] = "none" /\ r \notin late
    /\ pc[r] \in {"launch", "aborted", "new", "failing", "dead"} \cup Trying =>
         status[r] \in Active \cup {"interrupted"}
    /\ pc[r] \in {"none", "put", "launch", "new", "wait", "snapshot"} => captured[r] = "no"

\* What the record says of a run whose task is at p: the manager's view of a
\* run and the run's own.
Unmarked(r) == r \notin fin /\ r \notin kill

Untouched(r) == Unmarked(r) /\ action[r] = "none"

\* Cancelled while it had no task, and not again.
Beside(r) == Unmarked(r) /\ r \in unborn

CutShort(r) == r \in fin /\ r \in kill /\ status[r] = "interrupted"

Drained(r) == r \notin fin /\ r \in kill /\ status[r] \in Active /\ mode = "draining"

RecordOK(r) ==
  /\ pc[r] \in {"none", "put", "refused", "lost"} => Untouched(r)
  /\ pc[r] \in {"none", "put", "refused"} => r \notin unborn
  /\ pc[r] = "launch" => (Untouched(r) /\ status[r] = "pending") \/ (Beside(r) /\ status[r] = "interrupted")
  /\ pc[r] = "new" =>
       \/ (Untouched(r) \/ Drained(r)) /\ status[r] = "pending"
       \/ CutShort(r)
       \/ Beside(r) /\ status[r] = "interrupted"
  /\ pc[r] = "aborted" => Unmarked(r)
  /\ pc[r] = "wait" =>
       CutShort(r) \/ Drained(r) \/ (Untouched(r) /\ status[r] \in Active)
         \/ (Beside(r) /\ status[r] = "interrupted")
  /\ pc[r] \in {"snapshot", "graph"} =>
       CutShort(r) \/ Drained(r) \/ ((Untouched(r) \/ Beside(r)) /\ status[r] \in Active)
  /\ pc[r] = "failing" => CutShort(r) \/ ((Untouched(r) \/ Beside(r)) /\ status[r] \in Active)
  /\ pc[r] \in {"restore", "title", "title_read", "title_put"} => r \in fin /\ r \notin kill
  /\ pc[r] = "restore" => status[r] = "error"
  /\ pc[r] \in {"title", "title_read", "title_put"} => status[r] = "interrupted"
  /\ pc[r] \in {"complete", "close", "done"} => status[r] \in Terminal /\ r \notin kill
  /\ pc[r] = "complete" /\ status[r] = "interrupted" => r \in fin
  /\ pc[r] = "done" => r \notin fin
  /\ pc[r] \in {"refused", "lost"} => status[r] = "none"
  /\ pc[r] = "dead" =>
       r \notin kill /\ (IF r \in fin THEN status[r] = "interrupted" ELSE mode = "draining")

ModeOK(r) ==
  /\ mode = "down" => pc[r] \in {"none", "lost"}
  /\ mode = "draining" => pc[r] # "put"

RecordInv == \A r \in Runs : RecordOK(r) /\ ModeOK(r)

Admitted(r) == pc[r] \notin {"none", "put", "refused", "lost"}

\* A run that was admitted found no older one active, or cancelled it; one
\* that rejects company found none as it took the lock.
Alone(r) == Admitted(r) \/ (pc[r] = "put" /\ strategy[r] = "reject")

OlderInactive ==
  \A q, r \in Runs : q < r /\ Alone(r) /\ q \notin unborn => status[q] \notin Active

PastWait(r) ==
  \/ pc[r] \in {"snapshot", "graph", "failing", "title_read", "title_put"}
  \/ pc[r] = "restore" /\ captured[r] # "no"

\* A run that works found no older one in its clean-up.
OlderSettled == \A q, r \in Runs : q < r /\ PastWait(r) /\ q \notin unborn => q \notin fin

\* A row that is active and no write of which failed is one a cancelling
\* request has yet to correct, or the record agrees.
RowInv ==
  \A r \in Runs :
    row[r] \in Active /\ mode # "down" /\ r \notin unsaved =>
      \/ r \in late
      \/ status[r] \in Active
         /\ pc[r] \in {"launch", "aborted", "new", "failing", "dead"} \cup Trying

\* What a run read of the checkpoint is what it may put back: while it writes,
\* the checkpoint holds nothing its base lacks, and its base nothing but its
\* own writes that its snapshot lacks.
SnapshotOK(r) ==
  /\ pc[r] = "graph" => captured[r] # "no"
  /\ r \notin snap[r]
  /\ captured[r] = "no" => snap[r] = {}
  /\ pc[r] \in {"graph", "title_put"} => ckpt \subseteq base[r]
  /\ pc[r] = "graph" /\ captured[r] = "yes" => base[r] \subseteq snap[r] \cup {r}
  /\ pc[r] = "restore" /\ captured[r] = "yes" => ckpt \subseteq snap[r] \cup {r}

\* A run that has not reached its graph is in no checkpoint, nor in one that
\* was read.
NotWrittenYet(r) ==
  captured[r] = "no" /\ pc[r] # "lost" =>
    r \notin ckpt /\ \A q \in Runs : r \notin base[q] \cup snap[q]

RolledBack(r) ==
  /\ pc[r] \in {"complete", "close", "done"} /\ captured[r] = "yes"
  /\ status[r] = "error" /\ action[r] = "rollback"

\* A run that was rolled back is neither in the checkpoint nor in what a run
\* may yet put there.
Gone(r) ==
  RolledBack(r) =>
    /\ r \notin ckpt
    /\ \A q \in Runs :
         /\ pc[q] \in {"graph", "title_put"} => r \notin base[q]
         /\ pc[q] \in {"graph", "restore"} /\ captured[q] = "yes" => r \notin snap[q]

CheckpointInv == \A r \in Runs : SnapshotOK(r) /\ NotWrittenYet(r) /\ Gone(r)

IInv == TypeOK /\ OrderInv /\ NoOutcomeYet /\ RecordInv /\ OlderInactive /\ OlderSettled /\ RowInv
=============================================================================
