----------------------------- MODULE CodeChange -----------------------------
(***************************************************************************)
(* The code-change platform: worker processes that claim, execute and save *)
(* tasks (code_change/worker.py), the claim heartbeat of each, and the     *)
(* control plane (create, retry, resubmit, review: worker.py, review.py)   *)
(* that edits the same task files.  The store is CodeChangeStore.          *)
(*                                                                         *)
(* The artifact directory of a task is shared by all executions of it:     *)
(* requested_patch.diff, the workspace, patch.diff, the reports and        *)
(* human_review.json are written without the claim lock.                   *)
(***************************************************************************)
EXTENDS CodeChangeStore

CONSTANTS Controllers,  \* concurrent requests to the control plane
          FaultKinds,   \* the faults that may happen
          MaxFaults     \* bound: how many of them

Faults == {"worker_crash", "controller_crash", "heartbeat_error", "late_heartbeat", "error"}

ASSUME CodeChangeAssumption ==
  /\ FaultKinds \subseteq Faults
  /\ MaxFaults \in Nat

VARIABLES
  \* the artifact directory of each task
  requested,   \* requested_patch.diff
  workspace,   \* the diffs applied to workspace/ since it was exported
  patchDiff,   \* patch.diff, the file the PR handoff script applies
  report,      \* the claim under which task_report.md and audit.json were written
  reviewDoc,   \* the decision in human_review.json
  \* worker processes
  pc,          \* where each worker is
  task,        \* the task it looks at or executes
  rec,         \* its in-memory Task
  held,        \* its claim_id, 0 for none
  beat,        \* its heartbeat thread
  scan,        \* what is left of the queue it read
  \* control-plane requests
  cpc, ctask, crec,
  \* bookkeeping
  faults,      \* how many faults happened
  granted,     \* history: the newest claim id of each task
  results      \* history: the claims whose results task.json took, in order

dirVars     == <<requested, workspace, patchDiff, report, reviewDoc>>
workerVars  == <<pc, task, rec, held, beat, scan>>
controlVars == <<cpc, ctask, crec>>
history     == <<granted, results>>
vars == <<storeVars, dirVars, workerVars, controlVars, faults, history>>

WorkerPCs == {"idle", "scan", "claim", "prepare", "patch", "apply", "test",
              "assert", "report", "save", "release"}
Executing == {"prepare", "patch", "apply", "test", "assert", "report", "save", "release"}
ControlPCs == {"idle", "write", "save", "enqueue"}

\* What the variables of an idle process hold, its last task being forgotten.
AnyTask == CHOOSE t \in Tasks : TRUE
NoRecord == NewTask("external")

Init ==
  /\ StoreInit
  /\ requested = [t \in Tasks |-> NoPatch]
  /\ workspace = [t \in Tasks |-> {}]
  /\ patchDiff = [t \in Tasks |-> NoPatch]
  /\ report = [t \in Tasks |-> 0]
  /\ reviewDoc = [t \in Tasks |-> "none"]
  /\ pc = [w \in Workers |-> "idle"]
  /\ task = [w \in Workers |-> AnyTask]
  /\ rec = [w \in Workers |-> NoRecord]
  /\ held = [w \in Workers |-> 0]
  /\ beat = [w \in Workers |-> "off"]
  /\ scan = [w \in Workers |-> <<>>]
  /\ cpc = [c \in Controllers |-> "idle"]
  /\ ctask = [c \in Controllers |-> AnyTask]
  /\ crec = [c \in Controllers |-> NoRecord]
  /\ faults = 0
  /\ granted = [t \in Tasks |-> 0]
  /\ results = [t \in Tasks |-> <<>>]

\* Mutant of Fresh: a task directory that exists is taken again.
FreshOrNot(t) == TRUE

\* new_task_dir draws a fresh id: no file and no process knows of it yet.
Fresh(t) ==
  /\ ~Exists(t)
  /\ \A w \in Workers : pc[w] = "idle" \/ task[w] # t
  /\ \A c \in Controllers : cpc[c] = "idle" \/ ctask[c] # t

\* A fault of the given kind happens in this step.
Fault(kind) ==
  /\ kind \in FaultKinds
  /\ faults < MaxFaults
  /\ faults' = faults + 1

-----------------------------------------------------------------------------
(* run_next_task: claim_next_task *)

\* The worker that is done forgets its Task.
Idle(w) ==
  /\ pc' = [pc EXCEPT ![w] = "idle"]
  /\ task' = [task EXCEPT ![w] = AnyTask]
  /\ rec' = [rec EXCEPT ![w] = NoRecord]
  /\ held' = [held EXCEPT ![w] = 0]
  /\ beat' = [beat EXCEPT ![w] = "off"]
  /\ scan' = [scan EXCEPT ![w] = <<>>]

\* queued_items reads the whole log; the scan goes through that copy.  The
\* poll of an empty log returns None.
ReadQueue(w) ==
  /\ pc[w] = "idle"
  /\ \/ queueLog = <<>> /\ UNCHANGED <<pc, task, scan>>
     \/ /\ queueLog # <<>>
        /\ pc' = [pc EXCEPT ![w] = "scan"]
        /\ task' = [task EXCEPT ![w] = Head(queueLog)]
        /\ scan' = [scan EXCEPT ![w] = Tail(queueLog)]
  /\ UNCHANGED <<storeVars, dirVars, rec, held, beat, controlVars, faults, history>>

\* The next item of the scan, or nothing to do (claim_next_task returns None).
NextItem(w) ==
  IF scan[w] = <<>> THEN Idle(w)
  ELSE /\ pc' = [pc EXCEPT ![w] = "scan"]
       /\ task' = [task EXCEPT ![w] = Head(scan[w])]
       /\ scan' = [scan EXCEPT ![w] = Tail(scan[w])]
       /\ UNCHANGED <<rec, held, beat>>

\* get_task without the lock: a task that does not look QUEUED is passed over.
ScanItem(w) ==
  /\ pc[w] = "scan"
  /\ IF disk[task[w]].status = "QUEUED"
     THEN /\ pc' = [pc EXCEPT ![w] = "claim"]
          /\ UNCHANGED <<task, rec, held, beat, scan>>
     ELSE NextItem(w)
  /\ UNCHANGED <<storeVars, dirVars, controlVars, faults, history>>

\* _claim_task_file, then heartbeat.start().
ClaimTask(w) ==
  LET t == task[w] IN
  /\ pc[w] = "claim"
  /\ GrantClaim(t, w)
  /\ granted' = [granted EXCEPT ![t] = NextClaim]
  /\ pc' = [pc EXCEPT ![w] = "prepare"]
  /\ rec' = [rec EXCEPT ![w] = [disk[t] EXCEPT !.claimId = NextClaim]]
  /\ held' = [held EXCEPT ![w] = NextClaim]
  /\ beat' = [beat EXCEPT ![w] = "beating"]
  /\ UNCHANGED <<dirVars, task, scan, controlVars, faults, results>>

\* The task is taken or no longer QUEUED (or the bound on claims is reached).
PassOver(w) ==
  /\ pc[w] = "claim"
  /\ ~Claimable(task[w]) \/ lastClaim = MaxClaims
  /\ NextItem(w)
  /\ UNCHANGED <<storeVars, dirVars, controlVars, faults, history>>

\* run_task_now: a task that is not queued, executed without a claim.
RunNow(w, t, m, p) ==
  /\ pc[w] = "idle"
  /\ Fresh(t)
  /\ m = "agent" => p = NoPatch
  /\ requested' = [requested EXCEPT ![t] = p]
  /\ pc' = [pc EXCEPT ![w] = "prepare"]
  /\ task' = [task EXCEPT ![w] = t]
  /\ rec' = [rec EXCEPT ![w] = NewTask(m)]
  /\ UNCHANGED <<storeVars, workspace, patchDiff, report, reviewDoc, held, beat, scan,
                 controlVars, faults, history>>

-----------------------------------------------------------------------------
(* run_next_task: execute_task.  Until the save, only the artifact          *)
(* directory and the in-memory Task change.                                 *)

GoTo(w, label, r) ==
  /\ pc' = [pc EXCEPT ![w] = label]
  /\ rec' = [rec EXCEPT ![w] = r]
  /\ UNCHANGED <<storeVars, task, held, beat, scan, controlVars, faults, granted, results>>

\* The task of an execution that begins: attempt_count is raised in memory.
Started(r) == Move([r EXCEPT !.attempts = @ + 1], "PLANNING")

\* Mutant of Exported: the export is unpacked over the old workspace.
ExportedOver(t) == workspace[t]

\* What is applied to workspace/ after the export has replaced it: nothing.
Exported(t) == {}

\* prepare_workspace.  An exception fails the task, the workspace already
\* replaced or not.
PrepareWorkspace(w) ==
  LET started == Started(rec[w]) IN
  /\ pc[w] = "prepare"
  /\ \/ /\ workspace' = [workspace EXCEPT ![task[w]] = Exported(task[w])]
        /\ GoTo(w, "patch", Move(started, "RETRIEVING_CONTEXT"))
     \/ /\ \E left \in {Exported(task[w]), workspace[task[w]]} :
             workspace' = [workspace EXCEPT ![task[w]] = left]
        /\ GoTo(w, "assert", Fail(started, "TASK_EXECUTION_FAILED"))
  /\ UNCHANGED <<requested, patchDiff, report, reviewDoc>>

\* Agent mode: the generated diff replaces requested_patch.diff.
GeneratePatch(w) ==
  LET generating == Move(rec[w], "GENERATING_PATCH") IN
  /\ pc[w] = "patch"
  /\ rec[w].mode = "agent"
  /\ \/ \E p \in Patches :
          /\ requested' = [requested EXCEPT ![task[w]] = p]
          /\ GoTo(w, "apply", Move(generating, "VALIDATING_PATCH"))
     \/ /\ GoTo(w, "assert", Fail(generating, "AGENT_GENERATION_FAILED"))
        /\ UNCHANGED requested
  /\ UNCHANGED <<workspace, patchDiff, report, reviewDoc>>

\* External mode: the diff must be there.
ReceivePatch(w) ==
  /\ pc[w] = "patch"
  /\ rec[w].mode = "external"
  /\ IF requested[task[w]] = NoPatch
     THEN GoTo(w, "assert", Fail(rec[w], "PATCH_REQUIRED"))
     ELSE GoTo(w, "apply", Move(Move(rec[w], "PATCH_RECEIVED"), "VALIDATING_PATCH"))
  /\ UNCHANGED dirVars

\* apply_patch_text with whatever requested_patch.diff holds now.  A diff
\* applies at most once; it may also conflict with what the workspace holds.
ApplyPatch(w) ==
  LET t == task[w]
      p == requested[t]
      applying == Move(rec[w], "APPLYING_PATCH") IN
  /\ pc[w] = "apply"
  /\ patchDiff' = [patchDiff EXCEPT ![t] = p]
  /\ \/ /\ p \in Patches \ workspace[t]
        /\ workspace' = [workspace EXCEPT ![t] = @ \cup {p}]
        /\ GoTo(w, "test", Move([applying EXCEPT !.patch = p], "RUNNING_TESTS"))
     \/ /\ GoTo(w, "assert", Fail([applying EXCEPT !.patch = NoPatch], "PATCH_APPLY_FAILED"))
        /\ UNCHANGED workspace
     \/ /\ GoTo(w, "assert", Fail(applying, "TASK_EXECUTION_FAILED"))
        /\ UNCHANGED workspace
  /\ UNCHANGED <<requested, report, reviewDoc>>

\* run_tests in the shared workspace, then the PR body and handoff.
RunTests(w) ==
  LET tested == [rec[w] EXCEPT !.tested = workspace[task[w]]] IN
  /\ pc[w] = "test"
  /\ \/ GoTo(w, "assert", Move(Move(tested, "REVIEWING"), "HANDOFF_READY"))
     \/ GoTo(w, "assert", Fail(tested, "TEST_FAILED"))
     \/ \E r \in {rec[w], tested} : GoTo(w, "assert", Fail(r, "TASK_EXECUTION_FAILED"))
  /\ UNCHANGED dirVars

\* assert_task_claim: the stale worker goes straight to its finally clause.
AssertClaim(w) ==
  /\ pc[w] = "assert"
  /\ IF held[w] # 0 /\ ~HoldsLease(task[w], w, held[w])
     THEN GoTo(w, "release", rec[w])
     ELSE GoTo(w, "report", rec[w])
  /\ UNCHANGED dirVars

\* write_reports.
WriteReports(w) ==
  /\ pc[w] = "report"
  /\ report' = [report EXCEPT ![task[w]] = held[w]]
  /\ GoTo(w, "save", rec[w])
  /\ UNCHANGED <<requested, workspace, patchDiff, reviewDoc>>

\* save_task under the claim.
SaveResult(w) ==
  LET t == task[w] IN
  /\ pc[w] = "save"
  /\ SaveClaimed(t, rec[w], w, held[w])
  /\ results' = [results EXCEPT ![t] = Append(@, held[w])]
  /\ pc' = [pc EXCEPT ![w] = "release"]
  /\ UNCHANGED <<dirVars, task, rec, held, beat, scan, controlVars, faults, granted>>

\* save_task raises StaleTaskClaim.
RejectStaleResult(w) ==
  /\ pc[w] = "save"
  /\ held[w] # 0
  /\ ~HoldsLease(task[w], w, held[w])
  /\ GoTo(w, "release", rec[w])
  /\ UNCHANGED dirVars

\* save_task of a run_task_now, which has no claim to release.
SaveRunNow(w) ==
  LET t == task[w] IN
  /\ pc[w] = "save"
  /\ held[w] = 0
  /\ SaveUnclaimed(t, rec[w])
  /\ results' = [results EXCEPT ![t] = Append(@, 0)]
  /\ Idle(w)
  /\ UNCHANGED <<dirVars, controlVars, faults, granted>>

\* An exception outside the try of execute_task: get_project before it; the
\* claim check, write_reports, whose files may be there already, and save_task
\* after it.  Nothing is saved.  run_next_task still gives the claim back.
Abandon(w) ==
  /\ pc[w] \in {"prepare", "assert", "report", "save"}
  /\ Fault("error")
  /\ \/ UNCHANGED report
     \/ pc[w] = "report" /\ report' = [report EXCEPT ![task[w]] = held[w]]
  /\ IF held[w] = 0
     THEN Idle(w)
     ELSE /\ pc' = [pc EXCEPT ![w] = "release"]
          /\ UNCHANGED <<task, rec, held, beat, scan>>
  /\ UNCHANGED <<storeVars, requested, workspace, patchDiff, reviewDoc, controlVars, history>>

\* The finally clause: heartbeat.stop() and release_task_claim, which returns
\* False when the claim is no longer the worker's.
Release(w) ==
  /\ pc[w] = "release"
  /\ \/ ReleaseClaim(task[w], w, held[w])
     \/ ~OwnsClaim(task[w], w, held[w]) /\ UNCHANGED storeVars
  /\ Idle(w)
  /\ UNCHANGED <<dirVars, controlVars, faults, history>>

-----------------------------------------------------------------------------
(* _TaskClaimHeartbeat, and time *)

\* One round of the heartbeat thread: renew, or stop for good.
Heartbeat(w) ==
  /\ beat[w] = "beating"
  /\ IF HoldsLease(task[w], w, held[w])
     THEN RenewClaim(task[w], w, held[w]) /\ UNCHANGED beat
     ELSE beat' = [beat EXCEPT ![w] = "stopped"] /\ UNCHANGED storeVars
  /\ UNCHANGED <<dirVars, pc, task, rec, held, scan, controlVars, faults, history>>

\* Any exception ends the thread; the worker goes on.
HeartbeatError(w) ==
  /\ beat[w] = "beating"
  /\ Fault("heartbeat_error")
  /\ beat' = [beat EXCEPT ![w] = "stopped"]
  /\ UNCHANGED <<storeVars, dirVars, pc, task, rec, held, scan, controlVars, history>>

\* Mutant of Renewed: heartbeats outlive the worker that started them.
RenewedByOrphan(t) == claim[t].live

\* Some running heartbeat thread keeps the lease on t alive.
Renewed(t) == \E w \in Workers : beat[w] = "beating" /\ HoldsLease(t, w, held[w])

\* A lease nobody renews expires; one that is renewed every third of its
\* length expires only when its heartbeat comes late.
LeaseExpires(t) ==
  /\ ~Renewed(t)
  /\ Expire(t)
  /\ UNCHANGED <<dirVars, workerVars, controlVars, faults, history>>

LateHeartbeat(t) ==
  /\ Renewed(t)
  /\ Fault("late_heartbeat")
  /\ Expire(t)
  /\ UNCHANGED <<dirVars, workerVars, controlVars, history>>

\* A worker process dies.  Its memory is gone, its files stay as they are.
WorkerCrash(w) ==
  LET t == task[w] IN
  /\ pc[w] # "idle"
  /\ Fault("worker_crash")
  /\ \/ UNCHANGED <<storeVars, granted>>
     \/ /\ pc[w] = "claim"
        /\ TearClaim(t, w)
        /\ granted' = [granted EXCEPT ![t] = NextClaim]
     \/ /\ pc[w] = "claim"
        /\ Claimable(t)
        /\ TearUnlink(t)
        /\ UNCHANGED granted
     \/ /\ pc[w] = "release"
        /\ TearRelease(t, w, held[w])
        /\ UNCHANGED granted
  /\ Idle(w)
  /\ UNCHANGED <<dirVars, controlVars, results>>

-----------------------------------------------------------------------------
(* The control plane: every request reads task.json without the lock,      *)
(* edits its copy, and saves it without a claim.                            *)

Proceed(c, label) ==
  /\ cpc' = [cpc EXCEPT ![c] = label]
  /\ UNCHANGED <<ctask, crec>>

Answer(c) ==
  /\ cpc' = [cpc EXCEPT ![c] = "idle"]
  /\ ctask' = [ctask EXCEPT ![c] = AnyTask]
  /\ crec' = [crec EXCEPT ![c] = NoRecord]

\* A request that passed its checks and moved its copy r of task t to status s.
Edit(c, t, r, s, label) ==
  /\ cpc[c] = "idle"
  /\ CanMove(r, s)
  /\ cpc' = [cpc EXCEPT ![c] = label]
  /\ ctask' = [ctask EXCEPT ![c] = t]
  /\ crec' = [crec EXCEPT ![c] = [r EXCEPT !.status = s]]
  /\ UNCHANGED <<storeVars, workerVars, faults, history>>

\* create_task with enqueue: an agent task takes no external diff.
CreateTask(c, t, m, p) ==
  /\ Fresh(t)
  /\ m = "agent" => p = NoPatch
  /\ requested' = [requested EXCEPT ![t] = p]
  /\ Edit(c, t, NewTask(m), "QUEUED", "save")
  /\ UNCHANGED <<workspace, patchDiff, report, reviewDoc>>

\* Mutant of RetryTask: attempts are not limited.
RetryTaskUnlimited(c, t) ==
  /\ disk[t].status = "FAILED"
  /\ disk[t].error # "PATCH_REQUIRED"
  /\ Edit(c, t, [disk[t] EXCEPT !.error = "none"], "QUEUED", "save")
  /\ UNCHANGED dirVars

\* retry_task.
RetryTask(c, t) ==
  /\ disk[t].status = "FAILED"
  /\ disk[t].error # "PATCH_REQUIRED"
  /\ disk[t].attempts < MaxAttempts
  /\ Edit(c, t, [disk[t] EXCEPT !.error = "none"], "QUEUED", "save")
  /\ UNCHANGED dirVars

\* resubmit_patch up to the write of the diff; the result fields of the copy
\* are reset.
ResubmitPatch(c, t) ==
  /\ \/ disk[t].status = "CHANGES_REQUESTED"
     \/ disk[t].status = "FAILED" /\ disk[t].error = "PATCH_REQUIRED"
  /\ disk[t].attempts < MaxAttempts
  /\ Edit(c, t, [disk[t] EXCEPT !.error = "none", !.mode = "external", !.patch = NoPatch,
                                !.tested = {}], "QUEUED", "write")
  /\ UNCHANGED dirVars

\* review_task up to the write of human_review.json.
ReviewTask(c, t, decision) ==
  /\ disk[t].status = "HANDOFF_READY"
  /\ Edit(c, t, disk[t], decision, "write")
  /\ UNCHANGED dirVars

\* resubmit_patch writes requested_patch.diff before it saves the task.
WriteRequestedPatch(c, p) ==
  /\ cpc[c] = "write"
  /\ crec[c].status = "QUEUED"
  /\ requested' = [requested EXCEPT ![ctask[c]] = p]
  /\ Proceed(c, "save")
  /\ UNCHANGED <<storeVars, workspace, patchDiff, report, reviewDoc, workerVars, faults, history>>

\* review_task writes human_review.json before it saves the task.
WriteReviewDoc(c) ==
  /\ cpc[c] = "write"
  /\ crec[c].status # "QUEUED"
  /\ reviewDoc' = [reviewDoc EXCEPT ![ctask[c]] = crec[c].status]
  /\ Proceed(c, "save")
  /\ UNCHANGED <<storeVars, requested, workspace, patchDiff, report, workerVars, faults, history>>

\* After its save, a request that queued the task appends it to the log.
Continue(c) == IF crec[c].status = "QUEUED" THEN Proceed(c, "enqueue") ELSE Answer(c)

\* save_task without a claim.
SaveEdit(c) ==
  /\ cpc[c] = "save"
  /\ SaveUnclaimed(ctask[c], crec[c])
  /\ Continue(c)
  /\ UNCHANGED <<dirVars, workerVars, faults, history>>

\* save_task raises StaleTaskClaim: a worker holds a live lease.
RefuseEdit(c) ==
  /\ cpc[c] = "save"
  /\ claim[ctask[c]].live
  /\ Answer(c)
  /\ UNCHANGED <<storeVars, dirVars, workerVars, faults, history>>

EnqueueTask(c) ==
  /\ cpc[c] = "enqueue"
  /\ Enqueue(ctask[c])
  /\ Answer(c)
  /\ UNCHANGED <<dirVars, workerVars, faults, history>>

\* The process serving the request dies, in the middle of a save at worst.
ControllerCrash(c) ==
  /\ cpc[c] # "idle"
  /\ Fault("controller_crash")
  /\ \/ UNCHANGED storeVars
     \/ cpc[c] = "save" /\ TearUnlink(ctask[c])
  /\ Answer(c)
  /\ UNCHANGED <<dirVars, workerVars, history>>

-----------------------------------------------------------------------------

WorkerStep(w) ==
  \/ ReadQueue(w) \/ ScanItem(w) \/ ClaimTask(w) \/ PassOver(w)
  \/ PrepareWorkspace(w) \/ GeneratePatch(w) \/ ReceivePatch(w) \/ ApplyPatch(w)
  \/ RunTests(w) \/ AssertClaim(w) \/ WriteReports(w)
  \/ SaveResult(w) \/ RejectStaleResult(w) \/ SaveRunNow(w) \/ Release(w)

ControllerStep(c) ==
  \/ \E p \in Patches : WriteRequestedPatch(c, p)
  \/ WriteReviewDoc(c) \/ SaveEdit(c) \/ RefuseEdit(c) \/ EnqueueTask(c)

Request(c) ==
  \E t \in Tasks :
    \/ \E m \in Modes, p \in Patches \cup {NoPatch} : CreateTask(c, t, m, p)
    \/ RetryTask(c, t)
    \/ ResubmitPatch(c, t)
    \/ \E decision \in {"APPROVED", "CHANGES_REQUESTED"} : ReviewTask(c, t, decision)

Next ==
  \/ \E w \in Workers :
       \/ WorkerStep(w)
       \/ \E t \in Tasks, m \in Modes, p \in Patches \cup {NoPatch} : RunNow(w, t, m, p)
       \/ Abandon(w) \/ Heartbeat(w) \/ HeartbeatError(w) \/ WorkerCrash(w)
  \/ \E t \in Tasks : LeaseExpires(t) \/ LateHeartbeat(t)
  \/ \E c \in Controllers : Request(c) \/ ControllerStep(c) \/ ControllerCrash(c)

Spec == Init /\ [][Next]_vars

\* Running processes keep running, some process keeps calling run_next_task,
\* and expires_at of a lease nobody renews is reached.  Nobody has to make a
\* request, and a heartbeat need not ever be late.
Fairness ==
  /\ \A w \in Workers : WF_vars(WorkerStep(w))
  /\ \A c \in Controllers : WF_vars(ControllerStep(c))
  /\ \A t \in Tasks : WF_vars(LeaseExpires(t))

FairSpec == Spec /\ Fairness

-----------------------------------------------------------------------------
(* Properties *)

DirTypeOK ==
  /\ requested \in [Tasks -> Patches \cup {NoPatch}]
  /\ workspace \in [Tasks -> SUBSET Patches]
  /\ patchDiff \in [Tasks -> Patches \cup {NoPatch}]
  /\ report \in [Tasks -> Nat]
  /\ reviewDoc \in [Tasks -> {"none", "APPROVED", "CHANGES_REQUESTED"}]

WorkerTypeOK ==
  /\ pc \in [Workers -> WorkerPCs]
  /\ task \in [Workers -> Tasks]
  /\ rec \in [Workers -> Record]
  /\ held \in [Workers -> Nat]
  /\ beat \in [Workers -> {"off", "beating", "stopped"}]
  /\ scan \in [Workers -> Seq(Tasks)]

ControlTypeOK ==
  /\ cpc \in [Controllers -> ControlPCs]
  /\ ctask \in [Controllers -> Tasks]
  /\ crec \in [Controllers -> Record]

HistoryTypeOK ==
  /\ faults \in Nat
  /\ granted \in [Tasks -> Nat]
  /\ results \in [Tasks -> Seq(Nat)]

\* Every variable has its type; the records on the disk and in memory stay
\* within MaxAttempts (Task.max_attempts).
TypeOK == StoreTypeOK /\ DirTypeOK /\ WorkerTypeOK /\ ControlTypeOK /\ HistoryTypeOK

\* An expired or superseded claim never comes back: the claim file of a task
\* always is the newest claim granted on it, whoever crashed, expired or
\* released in between (_claim_task_file, renew_task_claim, save_task).
ClaimIsNewest == \A t \in Tasks : claim[t].id \in {0, granted[t]}

\* Whatever the races and faults, a queued task has an attempt left, so that
\* attempt_count never passes max_attempts (retry_task, resubmit_patch).
AttemptLimit ==
  \A t \in Tasks : disk[t].status = "QUEUED" => disk[t].attempts < MaxAttempts

\* The store does what FencedResults promises: only the newest claim's result
\* is taken, and once (save_task, assert_task_claim).
Fenced == INSTANCE FencedResults WITH Tasks <- Tasks, granted <- granted, results <- results
ResultsAreFenced == Fenced!FencedSpec

\* While heartbeats come in time, one process at a time executes a task: the
\* artifact directory has one user.
OneExecutor ==
  \A v, w \in Workers :
    pc[v] \in Executing /\ pc[w] \in Executing /\ task[v] = task[w] => v = w

\* A task that is ready for review or approved has evidence for its own diff:
\* the tests ran on exactly the diff the record names, patch.diff, which the
\* handoff script applies, still is that diff, and the report is the one of
\* the attempt whose result was taken.
HandoffIsEvidence ==
  \A t \in Tasks :
    disk[t].status \in {"HANDOFF_READY", "APPROVED"} =>
      /\ disk[t].tested = {disk[t].patch}
      /\ patchDiff[t] = disk[t].patch
      /\ report[t] = results[t][Len(results[t])]

\* task.json shows one status after another only along the life of a task, so
\* that an approval or a result is not overwritten by a decision taken on an
\* older record.
StatusFollowsLifecycle ==
  [][\A t \in Tasks :
       disk'[t].status \in {disk[t].status} \cup Lifecycle[disk[t].status]]_disk

\* Every queued task is executed and gets a result, although workers crash and
\* some of its executions end in an exception that saves nothing.
QueuedIsExecuted == \A t \in Tasks : disk[t].status = "QUEUED" ~> disk[t].status # "QUEUED"

\* Every lease ends, by release or expiry, so that the control plane is not
\* refused for ever.
LeasesEnd == \A t \in Tasks : claim[t].live ~> ~claim[t].live

-----------------------------------------------------------------------------
(* What makes AttemptLimit, ClaimIsNewest and ResultsAreFenced inductive *)

\* A worker about to start an execution has an attempt left, and from the start
\* to the save the in-memory Task is in flight or done.
ExecutionsInv ==
  \A w \in Workers :
    /\ pc[w] = "prepare" => rec[w].attempts < MaxAttempts
    /\ pc[w] \in Executing \ {"prepare", "release"} => rec[w].status \notin {"CREATED", "QUEUED"}

\* A request about to queue a task has an attempt left, whatever the disk
\* holds by now.
RequestsInv ==
  \A c \in Controllers :
    cpc[c] # "idle" =>
      /\ crec[c].status \in {"QUEUED", "APPROVED", "CHANGES_REQUESTED"}
      /\ crec[c].status = "QUEUED" => crec[c].attempts < MaxAttempts

AttemptInv == AttemptLimit /\ ExecutionsInv /\ RequestsInv

Untaken(t, id) == \A i \in 1..Len(results[t]) : results[t][i] # id

\* Executions under run_task_now.
Unclaimed(w) == pc[w] \in Executing /\ held[w] = 0

\* Claim ids only grow, no result carries one newer than the newest, and a
\* task nobody saved yet was never claimed.
GrantedInv ==
  \A t \in Tasks :
    /\ granted[t] <= lastClaim
    /\ \A i \in 1..Len(results[t]) : results[t][i] <= granted[t]
    /\ ~Exists(t) => granted[t] = 0 /\ results[t] = <<>>

\* A claim is held only during an execution, and until that one has saved no
\* result of it was taken.
HeldInv ==
  \A w \in Workers :
    /\ held[w] <= granted[task[w]]
    /\ pc[w] \notin Executing => held[w] = 0
    /\ pc[w] \in Executing \ {"release"} /\ held[w] # 0 => Untaken(task[w], held[w])

\* No two workers hold the same claim.
HeldOnce == \A v, w \in Workers : held[v] = held[w] /\ held[v] # 0 => v = w

\* The task run_task_now executes is on no disk and in nobody else's hands.
RunNowAlone ==
  \A w \in Workers :
    Unclaimed(w) =>
      /\ ~Exists(task[w])
      /\ \A v \in Workers : pc[v] \in Executing /\ task[v] = task[w] => v = w
      /\ \A c \in Controllers : cpc[c] # "idle" => ctask[c] # task[w]

FenceInv == ClaimIsNewest /\ GrantedInv /\ HeldInv /\ HeldOnce /\ RunNowAlone

IInv == TypeOK /\ AttemptInv /\ FenceInv

-----------------------------------------------------------------------------
(* What makes OneExecutor inductive, when heartbeats come in time *)

HeartbeatsInTime == FaultKinds \cap {"heartbeat_error", "late_heartbeat"} = {}

\* Executions under a claim.
Claimed(w) == pc[w] \in Executing /\ held[w] # 0

\* They hold the lease on file, and their heartbeat renews it.
LeaseInv ==
  \A w \in Workers : Claimed(w) => beat[w] = "beating" /\ HoldsLease(task[w], w, held[w])

-----------------------------------------------------------------------------
(* What makes HandoffIsEvidence and StatusFollowsLifecycle inductive, when   *)
(* requests come one at a time besides                                       *)

OneRequest == \A c, d \in Controllers : c = d

\* Until it saves its result, an execution under a claim finds its task QUEUED
\* on the disk.
WaitsQueued ==
  \A w \in Workers : Claimed(w) /\ pc[w] # "release" => disk[task[w]].status = "QUEUED"

\* The evidence an execution has for its record, stage by stage.
StageAt(w) ==
  LET t == task[w]
      r == rec[w] IN
  /\ pc[w] \in {"patch", "apply"} => workspace[t] = {}
  /\ pc[w] = "test" => workspace[t] = {r.patch} /\ patchDiff[t] = r.patch
  /\ pc[w] \in {"assert", "report", "save"} =>
       \/ r.status = "FAILED"
       \/ r.status = "HANDOFF_READY" /\ r.tested = {r.patch} /\ patchDiff[t] = r.patch
  /\ pc[w] = "save" => report[t] = held[w]

StageInv == \A w \in Workers : StageAt(w)

\* What a request decided still suits the record on the disk when it saves.
DecisionInv ==
  \A c \in Controllers :
    cpc[c] \in {"write", "save"} =>
      /\ crec[c].status \in Lifecycle[disk[ctask[c]].status]
      /\ crec[c].status = "APPROVED" =>
           /\ crec[c].tested = disk[ctask[c]].tested
           /\ crec[c].patch = disk[ctask[c]].patch

SerialInv == WaitsQueued /\ StageInv /\ DecisionInv /\ HandoffIsEvidence
=============================================================================
