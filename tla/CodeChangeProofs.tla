-------------------------- MODULE CodeChangeProofs --------------------------
(***************************************************************************)
(* Proofs about CodeChange for any number of tasks, workers, requests,     *)
(* claims and faults of every kind.                                        *)
(***************************************************************************)
EXTENDS CodeChange, TLAPS

\* Facts about transition() and the exception handlers of execute_task.
LEMMA FailFacts ==
  ASSUME NEW r \in Record, NEW code \in Errors
  PROVE  /\ Fail(r, code) \in Record
         /\ Fail(r, code).status = "FAILED"
         /\ Fail(r, code).attempts = r.attempts
  BY DEF Fail, Record, Statuses

LEMMA MoveFacts ==
  ASSUME NEW r \in Record, NEW s \in Statuses
  PROVE  /\ Move(r, s) \in Record
         /\ Move(r, s).status \in {s, "FAILED"}
         /\ Move(r, s).attempts = r.attempts
<1>1. CASE CanMove(r, s)
  BY <1>1 DEF Move, Record
<1>2. CASE ~CanMove(r, s)
  BY <1>2, FailFacts DEF Move, Errors
<1>3. QED
  BY <1>1, <1>2

LEMMA NewTaskFacts ==
  ASSUME NEW m \in Modes
  PROVE  NewTask(m) \in Record
  BY StoreAssumption DEF NewTask, Record, Modes, Statuses, Errors

LEMMA AnyTaskType == AnyTask \in Tasks
  BY StoreAssumption DEF AnyTask

LEMMA InitType == Init => TypeOK /\ AttemptInv
<1> SUFFICES ASSUME Init PROVE TypeOK /\ AttemptInv
  OBVIOUS
<1>1. NoRecord \in Record /\ NewTask("external") \in Record
  BY NewTaskFacts DEF NoRecord, Modes
<1>2. NoClaim \in Claim
  BY DEF NoClaim, Claim
<1>3. StoreTypeOK
  BY <1>1, <1>2 DEF Init, StoreInit, StoreTypeOK
<1>4. DirTypeOK /\ ControlTypeOK /\ HistoryTypeOK
  BY <1>1, AnyTaskType DEF Init, DirTypeOK, ControlTypeOK, HistoryTypeOK, ControlPCs
<1>5. WorkerTypeOK
  BY <1>1, AnyTaskType DEF Init, WorkerTypeOK, WorkerPCs
<1>6. AttemptInv
  BY DEF Init, StoreInit, NewTask, AttemptInv, AttemptLimit, ExecutionsInv, RequestsInv, Executing
<1>7. QED
  BY <1>3, <1>4, <1>5, <1>6 DEF TypeOK

LEMMA ClaimIdFacts ==
  ASSUME NEW r \in Record, NEW id \in Nat
  PROVE  /\ [r EXCEPT !.claimId = id] \in Record
         /\ [r EXCEPT !.claimId = id].status = r.status
         /\ [r EXCEPT !.claimId = id].attempts = r.attempts
  BY DEF Record

\* Writing a claim id into task.json.
LEMMA ClaimIdStep ==
  ASSUME disk \in [Tasks -> Record], AttemptLimit, NEW t \in Tasks, NEW id \in Nat,
         disk' = [disk EXCEPT ![t].claimId = id]
  PROVE  disk' \in [Tasks -> Record] /\ AttemptLimit'
<1> DEFINE r == [disk[t] EXCEPT !.claimId = id]
<1>1. disk' = [disk EXCEPT ![t] = r]
  OBVIOUS
<1>2. r \in Record /\ r.status = disk[t].status /\ r.attempts = disk[t].attempts
  BY ClaimIdFacts
<1> HIDE DEF r
<1>3. QED
  BY <1>1, <1>2 DEF AttemptLimit

\* What the operations of the store do to its types and to AttemptLimit.
LEMMA StoreStep ==
  ASSUME StoreTypeOK, AttemptLimit, NEW t \in Tasks,
         \/ \E w \in Workers, id \in Nat :
              \/ GrantClaim(t, w) \/ TearClaim(t, w) \/ RenewClaim(t, w, id)
              \/ ReleaseClaim(t, w, id) \/ TearRelease(t, w, id)
         \/ Expire(t) \/ Enqueue(t) \/ TearUnlink(t)
  PROVE  StoreTypeOK' /\ AttemptLimit'
<1>1. ASSUME NEW w \in Workers, GrantClaim(t, w)
      PROVE  StoreTypeOK' /\ AttemptLimit'
  <2>1. NextClaim \in Nat /\ lastClaim' = NextClaim /\ queueLog' = queueLog
    BY <1>1 DEF GrantClaim, NextClaim, StoreTypeOK
  <2>2. claim' \in [Tasks -> Claim]
    BY <1>1, <2>1 DEF GrantClaim, StoreTypeOK, Claim
  <2>3. disk' \in [Tasks -> Record] /\ AttemptLimit'
    BY <1>1, <2>1, ClaimIdStep DEF GrantClaim, StoreTypeOK
  <2>4. QED
    BY <2>1, <2>2, <2>3 DEF StoreTypeOK
<1>2. ASSUME NEW w \in Workers, TearClaim(t, w)
      PROVE  StoreTypeOK' /\ AttemptLimit'
  BY <1>2 DEF TearClaim, NextClaim, StoreTypeOK, AttemptLimit, Claim
<1>3. ASSUME NEW w \in Workers, NEW id \in Nat, RenewClaim(t, w, id)
      PROVE  StoreTypeOK' /\ AttemptLimit'
  <2>1. disk' \in [Tasks -> Record] /\ AttemptLimit'
    BY <1>3, ClaimIdStep DEF RenewClaim, StoreTypeOK
  <2>2. QED
    BY <1>3, <2>1 DEF RenewClaim, StoreTypeOK, Claim
<1>4. ASSUME NEW w \in Workers, NEW id \in Nat, ReleaseClaim(t, w, id)
      PROVE  StoreTypeOK' /\ AttemptLimit'
  <2>1. disk' \in [Tasks -> Record] /\ AttemptLimit'
    BY <1>4, ClaimIdStep DEF ReleaseClaim, StoreTypeOK
  <2>2. QED
    BY <1>4, <2>1 DEF ReleaseClaim, NoClaim, StoreTypeOK, Claim
<1>5. ASSUME NEW w \in Workers, NEW id \in Nat, TearRelease(t, w, id)
      PROVE  StoreTypeOK' /\ AttemptLimit'
  <2>1. disk' \in [Tasks -> Record] /\ AttemptLimit'
    BY <1>5, ClaimIdStep DEF TearRelease, StoreTypeOK
  <2>2. QED
    BY <1>5, <2>1 DEF TearRelease, StoreTypeOK
<1>6. CASE Expire(t)
  BY <1>6 DEF Expire, StoreTypeOK, AttemptLimit, Claim
<1>7. CASE Enqueue(t)
  BY <1>7 DEF Enqueue, StoreTypeOK, AttemptLimit
<1>8. CASE TearUnlink(t)
  BY <1>8 DEF TearUnlink, NoClaim, StoreTypeOK, AttemptLimit, Claim
<1>9. QED
  BY <1>1, <1>2, <1>3, <1>4, <1>5, <1>6, <1>7, <1>8

\* ... and those that save a record r, which must itself keep to the limit.
LEMMA SaveStep ==
  ASSUME StoreTypeOK, AttemptLimit, NEW t \in Tasks, NEW r \in Record,
         r.status = "QUEUED" => r.attempts < MaxAttempts,
         (\E w \in Workers, id \in Nat : SaveClaimed(t, r, w, id)) \/ SaveUnclaimed(t, r)
  PROVE  StoreTypeOK' /\ AttemptLimit'
<1>1. CASE \E w \in Workers, id \in Nat : SaveClaimed(t, r, w, id)
  BY <1>1 DEF SaveClaimed, StoreTypeOK, AttemptLimit
<1>2. CASE SaveUnclaimed(t, r)
  <2>1. NoClaim \in Claim
    BY DEF NoClaim, Claim
  <2>2. QED
    BY <1>2, <2>1, ClaimIdFacts DEF SaveUnclaimed, StoreTypeOK, AttemptLimit
<1>3. QED
  BY <1>1, <1>2

\* A step that leaves the store, the workers or the requests alone keeps what
\* is said of them.
LEMMA StoreUnchanged ==
  StoreTypeOK /\ AttemptLimit /\ UNCHANGED storeVars => StoreTypeOK' /\ AttemptLimit'
  BY DEF storeVars, StoreTypeOK, AttemptLimit

LEMMA WorkersUnchanged ==
  WorkerTypeOK /\ ExecutionsInv /\ UNCHANGED workerVars => WorkerTypeOK' /\ ExecutionsInv'
  BY DEF workerVars, WorkerTypeOK, ExecutionsInv

LEMMA ControlUnchanged ==
  ControlTypeOK /\ RequestsInv /\ UNCHANGED controlVars => ControlTypeOK' /\ RequestsInv'
  BY DEF controlVars, ControlTypeOK, RequestsInv

LEMMA DirUnchanged == DirTypeOK /\ UNCHANGED dirVars => DirTypeOK'
  BY DEF dirVars, DirTypeOK

LEMMA HistoryUnchanged ==
  HistoryTypeOK /\ UNCHANGED faults /\ UNCHANGED history => HistoryTypeOK'
  BY DEF history, HistoryTypeOK

\* How a worker moves on: to idle, to the next item of its scan, or to the
\* next stage of an execution.
LEMMA IdleStep ==
  ASSUME WorkerTypeOK, ExecutionsInv, NEW w \in Workers, Idle(w)
  PROVE  WorkerTypeOK' /\ ExecutionsInv'
<1>1. NoRecord \in Record
  BY NewTaskFacts DEF NoRecord, Modes
<1>2. <<>> \in Seq(Tasks)
  OBVIOUS
<1>3. WorkerTypeOK'
  BY <1>1, <1>2, AnyTaskType DEF Idle, WorkerTypeOK, WorkerPCs
<1>4. ExecutionsInv'
  BY DEF Idle, WorkerTypeOK, ExecutionsInv, Executing
<1>5. QED
  BY <1>3, <1>4

LEMMA NextItemStep ==
  ASSUME WorkerTypeOK, ExecutionsInv, NEW w \in Workers, NextItem(w)
  PROVE  WorkerTypeOK' /\ ExecutionsInv'
<1>1. CASE scan[w] = <<>>
  BY <1>1, IdleStep DEF NextItem
<1>2. CASE scan[w] # <<>>
  <2>1. scan[w] \in Seq(Tasks) /\ Head(scan[w]) \in Tasks /\ Tail(scan[w]) \in Seq(Tasks)
    BY <1>2 DEF WorkerTypeOK
  <2>2. WorkerTypeOK'
    <3>1. task' \in [Workers -> Tasks] /\ scan' \in [Workers -> Seq(Tasks)]
      BY <1>2, <2>1 DEF NextItem, WorkerTypeOK
    <3>2. pc' \in [Workers -> WorkerPCs] /\ UNCHANGED <<rec, held, beat>>
      BY <1>2 DEF NextItem, WorkerTypeOK, WorkerPCs
    <3>3. QED
      BY <3>1, <3>2 DEF WorkerTypeOK
  <2>3. ExecutionsInv'
    BY <1>2 DEF NextItem, WorkerTypeOK, ExecutionsInv, Executing
  <2>4. QED
    BY <2>2, <2>3
<1>3. QED
  BY <1>1, <1>2

LEMMA GoToStep ==
  ASSUME TypeOK, AttemptInv, NEW w \in Workers,
         NEW label \in WorkerPCs \ {"prepare"}, NEW r \in Record,
         r.status \notin {"CREATED", "QUEUED"}, GoTo(w, label, r)
  PROVE  /\ StoreTypeOK' /\ AttemptLimit'
         /\ WorkerTypeOK' /\ ExecutionsInv'
         /\ ControlTypeOK' /\ RequestsInv'
<1>1. StoreTypeOK' /\ AttemptLimit' /\ ControlTypeOK' /\ RequestsInv'
  BY StoreUnchanged, ControlUnchanged DEF GoTo, TypeOK, AttemptInv
<1>2. WorkerTypeOK'
  BY DEF GoTo, TypeOK, WorkerTypeOK
<1>3. ExecutionsInv'
  BY DEF GoTo, TypeOK, WorkerTypeOK, AttemptInv, ExecutionsInv
<1>4. QED
  BY <1>1, <1>2, <1>3

LEMMA AnswerStep ==
  ASSUME ControlTypeOK, RequestsInv, NEW c \in Controllers, Answer(c)
  PROVE  ControlTypeOK' /\ RequestsInv'
<1>1. NoRecord \in Record
  BY NewTaskFacts DEF NoRecord, Modes
<1>2. QED
  BY <1>1, AnyTaskType DEF Answer, ControlTypeOK, RequestsInv, ControlPCs

LEMMA ProceedStep ==
  ASSUME ControlTypeOK, RequestsInv, NEW c \in Controllers, NEW label \in ControlPCs,
         cpc[c] # "idle", Proceed(c, label)
  PROVE  ControlTypeOK' /\ RequestsInv'
  BY DEF Proceed, ControlTypeOK, RequestsInv

\* A request that passed its checks on the record r it read.
LEMMA EditStep ==
  ASSUME ControlTypeOK, RequestsInv, NEW c \in Controllers, NEW t \in Tasks, NEW r \in Record,
         NEW s \in {"QUEUED", "APPROVED", "CHANGES_REQUESTED"},
         s = "QUEUED" => r.attempts < MaxAttempts,
         NEW label \in ControlPCs, Edit(c, t, r, s, label)
  PROVE  ControlTypeOK' /\ RequestsInv'
<1>1. [r EXCEPT !.status = s] \in Record
  BY DEF Record, Statuses
<1>2. [r EXCEPT !.status = s].status = s /\ [r EXCEPT !.status = s].attempts = r.attempts
  BY DEF Record
<1>3. QED
  BY <1>1, <1>2 DEF Edit, ControlTypeOK, RequestsInv

\* The steps of a worker: claiming, executing, saving and releasing.
LEMMA WorkerTypeStep ==
  ASSUME TypeOK, AttemptInv, NEW w \in Workers, WorkerStep(w)
  PROVE  TypeOK' /\ AttemptInv'
<1> USE DEF TypeOK, AttemptInv
<1>t. task[w] \in Tasks /\ rec[w] \in Record /\ held[w] \in Nat
  BY DEF WorkerTypeOK
<1>1. CASE ReadQueue(w)
  <2>1. queueLog # <<>> => Head(queueLog) \in Tasks /\ Tail(queueLog) \in Seq(Tasks)
    BY DEF StoreTypeOK
  <2>2. WorkerTypeOK'
    <3>1. CASE queueLog = <<>>
      BY <1>1, <3>1 DEF ReadQueue, WorkerTypeOK
    <3>2. CASE queueLog # <<>>
      <4>1. task' \in [Workers -> Tasks] /\ scan' \in [Workers -> Seq(Tasks)]
        <5>1. /\ task' = [task EXCEPT ![w] = Head(queueLog)]
              /\ scan' = [scan EXCEPT ![w] = Tail(queueLog)]
          BY <1>1, <3>2 DEF ReadQueue
        <5>2. task' \in [Workers -> Tasks]
          BY <2>1, <3>2, <5>1 DEF WorkerTypeOK
        <5>3. scan' \in [Workers -> Seq(Tasks)]
          BY <2>1, <3>2, <5>1 DEF WorkerTypeOK
        <5>4. QED
          BY <5>2, <5>3
      <4>2. pc' \in [Workers -> WorkerPCs] /\ UNCHANGED <<rec, held, beat>>
        BY <1>1, <3>2 DEF ReadQueue, WorkerTypeOK, WorkerPCs
      <4>3. QED
        BY <4>1, <4>2 DEF WorkerTypeOK
    <3>3. QED
      BY <3>1, <3>2
  <2>3. ExecutionsInv'
    BY <1>1 DEF ReadQueue, WorkerTypeOK, ExecutionsInv, Executing
  <2>4. QED
    BY <1>1, <2>2, <2>3, StoreUnchanged, ControlUnchanged, DirUnchanged, HistoryUnchanged DEF ReadQueue
<1>2. CASE ScanItem(w)
  <2>1. WorkerTypeOK' /\ ExecutionsInv'
    <3>1. CASE disk[task[w]].status = "QUEUED"
      BY <1>2, <3>1 DEF ScanItem, WorkerTypeOK, WorkerPCs, ExecutionsInv, Executing
    <3>2. CASE disk[task[w]].status # "QUEUED"
      BY <1>2, <3>2, NextItemStep DEF ScanItem
    <3>3. QED
      BY <3>1, <3>2
  <2>2. QED
    BY <1>2, <2>1, StoreUnchanged, ControlUnchanged, DirUnchanged, HistoryUnchanged DEF ScanItem
<1>3. CASE ClaimTask(w)
  <2> DEFINE t == task[w]
             r == [disk[t] EXCEPT !.claimId = NextClaim]
  <2>1. GrantClaim(t, w)
    BY <1>3 DEF ClaimTask
  <2>2. StoreTypeOK' /\ AttemptLimit'
    BY <1>t, <2>1, StoreStep
  <2>3. NextClaim \in Nat /\ disk[t] \in Record
    BY <1>t DEF NextClaim, StoreTypeOK
  <2>4. disk[t].attempts < MaxAttempts
    BY <1>t, <2>1 DEF GrantClaim, Claimable, AttemptLimit
  <2>5. r \in Record /\ r.attempts = disk[t].attempts
    BY <2>3 DEF Record
  <2>6. WorkerTypeOK' /\ ExecutionsInv'
    <3> HIDE DEF r
    <3>1. /\ pc' = [pc EXCEPT ![w] = "prepare"] /\ rec' = [rec EXCEPT ![w] = r]
          /\ held' = [held EXCEPT ![w] = NextClaim] /\ beat' = [beat EXCEPT ![w] = "beating"]
          /\ task' = task /\ scan' = scan
      BY <1>3 DEF ClaimTask, r
    <3>2. ExecutionsInv'
      BY <2>4, <2>5, <3>1 DEF WorkerTypeOK, ExecutionsInv, Executing
    <3>3. WorkerTypeOK'
      BY <2>3, <2>5, <3>1 DEF WorkerTypeOK, WorkerPCs
    <3>4. QED
      BY <3>2, <3>3
  <2>7. HistoryTypeOK'
    BY <1>3, <2>3 DEF ClaimTask, HistoryTypeOK
  <2>8. QED
    BY <1>3, <2>2, <2>6, <2>7, ControlUnchanged, DirUnchanged DEF ClaimTask
<1>4. CASE PassOver(w)
  BY <1>4, NextItemStep, StoreUnchanged, ControlUnchanged, DirUnchanged, HistoryUnchanged
  DEF PassOver
<1>5. CASE PrepareWorkspace(w)
  <2> DEFINE counted == [rec[w] EXCEPT !.attempts = @ + 1]
             started == Started(rec[w])
  <2>1. counted \in Record
    BY <1>t, <1>5, StoreAssumption DEF PrepareWorkspace, ExecutionsInv, Record
  <2>2. started \in Record /\ started.status \in {"PLANNING", "FAILED"}
    BY <2>1, MoveFacts DEF Started, Statuses
  <2>3. /\ Move(started, "RETRIEVING_CONTEXT") \in Record
        /\ Move(started, "RETRIEVING_CONTEXT").status \in {"RETRIEVING_CONTEXT", "FAILED"}
        /\ Fail(started, "TASK_EXECUTION_FAILED") \in Record
        /\ Fail(started, "TASK_EXECUTION_FAILED").status = "FAILED"
    BY <2>2, MoveFacts, FailFacts DEF Statuses, Errors
  <2>4. \E label \in {"patch", "assert"}, r \in Record :
           r.status \notin {"CREATED", "QUEUED"} /\ GoTo(w, label, r)
    BY <1>5, <2>3 DEF PrepareWorkspace
  <2>5. /\ StoreTypeOK' /\ AttemptLimit' /\ WorkerTypeOK' /\ ExecutionsInv'
        /\ ControlTypeOK' /\ RequestsInv'
    BY <2>4, GoToStep DEF WorkerPCs
  <2>6. DirTypeOK'
    BY <1>t, <1>5 DEF PrepareWorkspace, Exported, DirTypeOK
  <2>7. HistoryTypeOK'
    BY <1>t, <1>5 DEF PrepareWorkspace, GoTo, HistoryTypeOK
  <2>8. QED
    BY <2>5, <2>6, <2>7
<1>6. CASE GeneratePatch(w)
  <2> DEFINE generating == Move(rec[w], "GENERATING_PATCH")
  <2>1. generating \in Record /\ generating.status \in {"GENERATING_PATCH", "FAILED"}
    BY <1>t, MoveFacts DEF Statuses
  <2>2. /\ Move(generating, "VALIDATING_PATCH") \in Record
        /\ Move(generating, "VALIDATING_PATCH").status \in {"VALIDATING_PATCH", "FAILED"}
        /\ Fail(generating, "AGENT_GENERATION_FAILED") \in Record
        /\ Fail(generating, "AGENT_GENERATION_FAILED").status = "FAILED"
    BY <2>1, MoveFacts, FailFacts DEF Statuses, Errors
  <2>3. \E label \in {"apply", "assert"}, r \in Record :
           r.status \notin {"CREATED", "QUEUED"} /\ GoTo(w, label, r)
    BY <1>6, <2>2 DEF GeneratePatch
  <2>4. /\ StoreTypeOK' /\ AttemptLimit' /\ WorkerTypeOK' /\ ExecutionsInv'
        /\ ControlTypeOK' /\ RequestsInv'
    BY <2>3, GoToStep DEF WorkerPCs
  <2>5. DirTypeOK'
    BY <1>t, <1>6 DEF GeneratePatch, DirTypeOK
  <2>6. HistoryTypeOK'
    BY <1>6 DEF GeneratePatch, GoTo, HistoryTypeOK
  <2>7. QED
    BY <2>4, <2>5, <2>6
<1>7. CASE ReceivePatch(w)
  <2> DEFINE received == Move(rec[w], "PATCH_RECEIVED")
  <2>1. /\ received \in Record
        /\ Fail(rec[w], "PATCH_REQUIRED") \in Record
        /\ Fail(rec[w], "PATCH_REQUIRED").status = "FAILED"
    BY <1>t, MoveFacts, FailFacts DEF Statuses, Errors
  <2>2. /\ Move(received, "VALIDATING_PATCH") \in Record
        /\ Move(received, "VALIDATING_PATCH").status \in {"VALIDATING_PATCH", "FAILED"}
    BY <2>1, MoveFacts DEF Statuses
  <2>3. \E label \in {"apply", "assert"}, r \in Record :
           r.status \notin {"CREATED", "QUEUED"} /\ GoTo(w, label, r)
    BY <1>7, <2>1, <2>2 DEF ReceivePatch
  <2>4. /\ StoreTypeOK' /\ AttemptLimit' /\ WorkerTypeOK' /\ ExecutionsInv'
        /\ ControlTypeOK' /\ RequestsInv'
    BY <2>3, GoToStep DEF WorkerPCs
  <2>5. DirTypeOK' /\ HistoryTypeOK'
    BY <1>7, DirUnchanged DEF ReceivePatch, GoTo, HistoryTypeOK
  <2>6. QED
    BY <2>4, <2>5
<1>8. CASE ApplyPatch(w)
  <2> DEFINE p == requested[task[w]]
             applying == Move(rec[w], "APPLYING_PATCH")
             applied == [applying EXCEPT !.patch = p]
             refused == [applying EXCEPT !.patch = NoPatch]
  <2>1. applying \in Record /\ p \in Patches \cup {NoPatch}
    BY <1>t, MoveFacts DEF DirTypeOK, Statuses
  <2>2. applied \in Record /\ refused \in Record
    BY <2>1 DEF Record
  <2>3. /\ Move(applied, "RUNNING_TESTS") \in Record
        /\ Move(applied, "RUNNING_TESTS").status \in {"RUNNING_TESTS", "FAILED"}
        /\ Fail(refused, "PATCH_APPLY_FAILED") \in Record
        /\ Fail(refused, "PATCH_APPLY_FAILED").status = "FAILED"
        /\ Fail(applying, "TASK_EXECUTION_FAILED") \in Record
        /\ Fail(applying, "TASK_EXECUTION_FAILED").status = "FAILED"
    BY <2>1, <2>2, MoveFacts, FailFacts DEF Statuses, Errors
  <2>4. \E label \in {"test", "assert"}, r \in Record :
           r.status \notin {"CREATED", "QUEUED"} /\ GoTo(w, label, r)
    BY <1>8, <2>3 DEF ApplyPatch
  <2>5. /\ StoreTypeOK' /\ AttemptLimit' /\ WorkerTypeOK' /\ ExecutionsInv'
        /\ ControlTypeOK' /\ RequestsInv'
    BY <2>4, GoToStep DEF WorkerPCs
  <2>6. workspace' \in [Tasks -> SUBSET Patches]
    BY <1>t, <1>8 DEF ApplyPatch, DirTypeOK
  <2>7. HistoryTypeOK' /\ DirTypeOK'
    BY <1>t, <1>8, <2>1, <2>6 DEF ApplyPatch, GoTo, HistoryTypeOK, DirTypeOK
  <2>8. QED
    BY <2>5, <2>7
<1>9. CASE RunTests(w)
  <2> DEFINE tested == [rec[w] EXCEPT !.tested = workspace[task[w]]]
             reviewing == Move(tested, "REVIEWING")
  <2>1. tested \in Record
    BY <1>t DEF DirTypeOK, Record
  <2>2. reviewing \in Record
    BY <2>1, MoveFacts DEF Statuses
  <2>3. /\ Move(reviewing, "HANDOFF_READY") \in Record
        /\ Move(reviewing, "HANDOFF_READY").status \in {"HANDOFF_READY", "FAILED"}
        /\ Fail(tested, "TEST_FAILED") \in Record /\ Fail(tested, "TEST_FAILED").status = "FAILED"
        /\ \A r \in {rec[w], tested} :
              /\ Fail(r, "TASK_EXECUTION_FAILED") \in Record
              /\ Fail(r, "TASK_EXECUTION_FAILED").status = "FAILED"
    BY <1>t, <2>1, <2>2, MoveFacts, FailFacts DEF Statuses, Errors
  <2>4. \E r \in Record : r.status \notin {"CREATED", "QUEUED"} /\ GoTo(w, "assert", r)
    BY <1>9, <2>3 DEF RunTests
  <2>5. /\ StoreTypeOK' /\ AttemptLimit' /\ WorkerTypeOK' /\ ExecutionsInv'
        /\ ControlTypeOK' /\ RequestsInv'
    BY <2>4, GoToStep DEF WorkerPCs
  <2>6. DirTypeOK' /\ HistoryTypeOK'
    BY <1>9, DirUnchanged DEF RunTests, GoTo, HistoryTypeOK
  <2>7. QED
    BY <2>5, <2>6
<1>10. CASE AssertClaim(w) \/ WriteReports(w) \/ RejectStaleResult(w)
  <2>1. rec[w].status \notin {"CREATED", "QUEUED"}
    BY <1>10 DEF AssertClaim, WriteReports, RejectStaleResult, ExecutionsInv, Executing
  <2>2. \E label \in {"release", "report", "save"} : GoTo(w, label, rec[w])
    BY <1>10 DEF AssertClaim, WriteReports, RejectStaleResult
  <2>3. /\ StoreTypeOK' /\ AttemptLimit' /\ WorkerTypeOK' /\ ExecutionsInv'
        /\ ControlTypeOK' /\ RequestsInv'
    BY <1>t, <2>1, <2>2, GoToStep DEF WorkerPCs
  <2>4. DirTypeOK'
    BY <1>t, <1>10, DirUnchanged DEF AssertClaim, WriteReports, RejectStaleResult, DirTypeOK
  <2>5. HistoryTypeOK'
    BY <1>10 DEF AssertClaim, WriteReports, RejectStaleResult, GoTo, HistoryTypeOK
  <2>6. QED
    BY <2>3, <2>4, <2>5
<1>11. CASE SaveResult(w)
  <2>1. rec[w].status # "QUEUED"
    BY <1>11 DEF SaveResult, ExecutionsInv, Executing
  <2>2. StoreTypeOK' /\ AttemptLimit'
    BY <1>t, <1>11, <2>1, SaveStep DEF SaveResult
  <2>3. WorkerTypeOK' /\ ExecutionsInv'
    BY <1>11 DEF SaveResult, WorkerTypeOK, WorkerPCs, ExecutionsInv, Executing
  <2>4. HistoryTypeOK'
    BY <1>t, <1>11 DEF SaveResult, HistoryTypeOK
  <2>5. QED
    BY <1>11, <2>2, <2>3, <2>4, DirUnchanged, ControlUnchanged DEF SaveResult
<1>12. CASE SaveRunNow(w)
  <2>1. rec[w].status # "QUEUED"
    BY <1>12 DEF SaveRunNow, ExecutionsInv, Executing
  <2>2. StoreTypeOK' /\ AttemptLimit'
    BY <1>t, <1>12, <2>1, SaveStep DEF SaveRunNow
  <2>3. HistoryTypeOK'
    BY <1>t, <1>12 DEF SaveRunNow, HistoryTypeOK
  <2>4. QED
    BY <1>12, <2>2, <2>3, IdleStep, DirUnchanged, ControlUnchanged DEF SaveRunNow
<1>13. CASE Release(w)
  <2>1. StoreTypeOK' /\ AttemptLimit'
    BY <1>t, <1>13, StoreStep, StoreUnchanged DEF Release
  <2>2. QED
    BY <1>13, <2>1, IdleStep, DirUnchanged, ControlUnchanged, HistoryUnchanged DEF Release
<1>14. QED
  BY <1>1, <1>2, <1>3, <1>4, <1>5, <1>6, <1>7, <1>8, <1>9, <1>10, <1>11, <1>12, <1>13
  DEF WorkerStep

\* The other steps that happen to a worker or a lease.
LEMMA EventTypeStep ==
  ASSUME TypeOK, AttemptInv,
         \/ \E w \in Workers :
              \/ \E t \in Tasks, m \in Modes, p \in Patches \cup {NoPatch} : RunNow(w, t, m, p)
              \/ Abandon(w) \/ Heartbeat(w) \/ HeartbeatError(w) \/ WorkerCrash(w)
         \/ \E t \in Tasks : LeaseExpires(t) \/ LateHeartbeat(t)
  PROVE  TypeOK' /\ AttemptInv'
<1> USE DEF TypeOK, AttemptInv
<1>1. ASSUME NEW w \in Workers, NEW t \in Tasks, NEW m \in Modes,
             NEW p \in Patches \cup {NoPatch}, RunNow(w, t, m, p)
      PROVE  TypeOK' /\ AttemptInv'
  <2>1. NewTask(m) \in Record /\ NewTask(m).attempts < MaxAttempts
    BY NewTaskFacts, StoreAssumption DEF NewTask
  <2>2. WorkerTypeOK'
    BY <1>1, <2>1 DEF RunNow, WorkerTypeOK, WorkerPCs
  <2>3. ExecutionsInv'
    BY <1>1, <2>1 DEF RunNow, WorkerTypeOK, ExecutionsInv, Executing
  <2>4. DirTypeOK'
    BY <1>1 DEF RunNow, DirTypeOK
  <2>5. QED
    BY <1>1, <2>2, <2>3, <2>4, StoreUnchanged, ControlUnchanged, HistoryUnchanged DEF RunNow
<1>2. ASSUME NEW w \in Workers, Heartbeat(w)
      PROVE  TypeOK' /\ AttemptInv'
  <2>1. StoreTypeOK' /\ AttemptLimit'
    BY <1>2, StoreStep, StoreUnchanged DEF Heartbeat, WorkerTypeOK
  <2>2. WorkerTypeOK' /\ ExecutionsInv'
    BY <1>2 DEF Heartbeat, WorkerTypeOK, ExecutionsInv
  <2>3. QED
    BY <1>2, <2>1, <2>2, DirUnchanged, ControlUnchanged, HistoryUnchanged DEF Heartbeat
<1>3. ASSUME NEW w \in Workers, HeartbeatError(w)
      PROVE  TypeOK' /\ AttemptInv'
  <2>1. WorkerTypeOK' /\ ExecutionsInv'
    BY <1>3 DEF HeartbeatError, WorkerTypeOK, ExecutionsInv
  <2>2. HistoryTypeOK'
    BY <1>3 DEF HeartbeatError, Fault, history, HistoryTypeOK
  <2>3. QED
    BY <1>3, <2>1, <2>2, StoreUnchanged, DirUnchanged, ControlUnchanged DEF HeartbeatError
<1>4. ASSUME NEW w \in Workers, WorkerCrash(w)
      PROVE  TypeOK' /\ AttemptInv'
  <2>1. task[w] \in Tasks /\ held[w] \in Nat
    BY DEF WorkerTypeOK
  <2>2. StoreTypeOK' /\ AttemptLimit'
    BY <1>4, <2>1, StoreStep, StoreUnchanged DEF WorkerCrash
  <2>3. NextClaim \in Nat
    BY DEF NextClaim, StoreTypeOK
  <2>4. granted' \in [Tasks -> Nat]
    BY <1>4, <2>1, <2>3 DEF WorkerCrash, HistoryTypeOK
  <2>5. HistoryTypeOK'
    BY <1>4, <2>4 DEF WorkerCrash, Fault, HistoryTypeOK
  <2>6. QED
    BY <1>4, <2>2, <2>5, IdleStep, DirUnchanged, ControlUnchanged DEF WorkerCrash
<1>5. ASSUME NEW t \in Tasks, LeaseExpires(t) \/ LateHeartbeat(t)
      PROVE  TypeOK' /\ AttemptInv'
  <2>1. Expire(t)
    BY <1>5 DEF LeaseExpires, LateHeartbeat
  <2>2. StoreTypeOK' /\ AttemptLimit'
    BY <2>1, StoreStep
  <2>3. HistoryTypeOK'
    BY <1>5 DEF LeaseExpires, LateHeartbeat, Fault, history, HistoryTypeOK
  <2>4. QED
    BY <1>5, <2>2, <2>3, WorkersUnchanged, DirUnchanged, ControlUnchanged
    DEF LeaseExpires, LateHeartbeat
<1>6. ASSUME NEW w \in Workers, Abandon(w)
      PROVE  TypeOK' /\ AttemptInv'
  <2>1. DirTypeOK'
    BY <1>6 DEF Abandon, DirTypeOK, WorkerTypeOK
  <2>2. HistoryTypeOK'
    BY <1>6 DEF Abandon, Fault, history, HistoryTypeOK
  <2>3. WorkerTypeOK' /\ ExecutionsInv'
    <3>1. CASE Idle(w)
      BY <3>1, IdleStep
    <3>2. CASE pc' = [pc EXCEPT ![w] = "release"] /\ UNCHANGED <<task, rec, held, beat, scan>>
      BY <3>2 DEF WorkerTypeOK, WorkerPCs, ExecutionsInv
    <3>3. QED
      BY <1>6, <3>1, <3>2 DEF Abandon
  <2>4. QED
    BY <1>6, <2>1, <2>2, <2>3, StoreUnchanged, ControlUnchanged DEF Abandon
<1>7. QED
  BY <1>1, <1>2, <1>3, <1>4, <1>5, <1>6

\* The steps of the control plane.
LEMMA ControllerTypeStep ==
  ASSUME TypeOK, AttemptInv, NEW c \in Controllers,
         Request(c) \/ ControllerStep(c) \/ ControllerCrash(c)
  PROVE  TypeOK' /\ AttemptInv'
<1> USE DEF TypeOK, AttemptInv
<1>t. ctask[c] \in Tasks /\ crec[c] \in Record
  BY DEF ControlTypeOK
<1>1. ASSUME NEW t \in Tasks, NEW r \in Record, NEW label \in ControlPCs,
             NEW s \in {"QUEUED", "APPROVED", "CHANGES_REQUESTED"},
             s = "QUEUED" => r.attempts < MaxAttempts,
             Edit(c, t, r, s, label), DirTypeOK'
      PROVE  TypeOK' /\ AttemptInv'
  <2>1. ControlTypeOK' /\ RequestsInv'
    BY <1>1, EditStep
  <2>2. QED
    BY <1>1, <2>1, StoreUnchanged, WorkersUnchanged, HistoryUnchanged DEF Edit
<1>2. ASSUME NEW t \in Tasks, NEW m \in Modes, NEW p \in Patches \cup {NoPatch},
             CreateTask(c, t, m, p)
      PROVE  TypeOK' /\ AttemptInv'
  <2>1. NewTask(m) \in Record /\ NewTask(m).attempts < MaxAttempts
    BY NewTaskFacts, StoreAssumption DEF NewTask
  <2>2. DirTypeOK'
    BY <1>2 DEF CreateTask, DirTypeOK
  <2>3. QED
    BY <1>1, <1>2, <2>1, <2>2 DEF CreateTask, ControlPCs
<1>3. ASSUME NEW t \in Tasks, RetryTask(c, t)
      PROVE  TypeOK' /\ AttemptInv'
  <2> DEFINE r == [disk[t] EXCEPT !.error = "none"]
  <2>1. r \in Record /\ r.attempts < MaxAttempts
    BY <1>3 DEF RetryTask, StoreTypeOK, Record, Errors
  <2>2. QED
    BY <1>1, <1>3, <2>1, DirUnchanged DEF RetryTask, ControlPCs
<1>4. ASSUME NEW t \in Tasks, ResubmitPatch(c, t)
      PROVE  TypeOK' /\ AttemptInv'
  <2> DEFINE r == [disk[t] EXCEPT !.error = "none", !.mode = "external", !.patch = NoPatch,
                                  !.tested = {}]
  <2>1. r \in Record /\ r.attempts < MaxAttempts
    BY <1>4 DEF ResubmitPatch, StoreTypeOK, Record, Errors, Modes
  <2>2. QED
    BY <1>1, <1>4, <2>1, DirUnchanged DEF ResubmitPatch, ControlPCs
<1>5. ASSUME NEW t \in Tasks, NEW decision \in {"APPROVED", "CHANGES_REQUESTED"},
             ReviewTask(c, t, decision)
      PROVE  TypeOK' /\ AttemptInv'
  <2>1. disk[t] \in Record /\ decision # "QUEUED"
    BY DEF StoreTypeOK
  <2>2. QED
    BY <1>1, <1>5, <2>1, DirUnchanged DEF ReviewTask, ControlPCs
<1>6. ASSUME NEW p \in Patches, WriteRequestedPatch(c, p)
      PROVE  TypeOK' /\ AttemptInv'
  <2>1. DirTypeOK'
    BY <1>t, <1>6 DEF WriteRequestedPatch, DirTypeOK
  <2>2. ControlTypeOK' /\ RequestsInv'
    BY <1>6, ProceedStep DEF WriteRequestedPatch, ControlPCs
  <2>3. QED
    BY <1>6, <2>1, <2>2, StoreUnchanged, WorkersUnchanged, HistoryUnchanged
    DEF WriteRequestedPatch
<1>7. CASE WriteReviewDoc(c)
  <2>1. crec[c].status \in {"APPROVED", "CHANGES_REQUESTED"}
    BY <1>7 DEF WriteReviewDoc, RequestsInv
  <2>2. DirTypeOK'
    BY <1>t, <1>7, <2>1 DEF WriteReviewDoc, DirTypeOK
  <2>3. ControlTypeOK' /\ RequestsInv'
    BY <1>7, ProceedStep DEF WriteReviewDoc, ControlPCs
  <2>4. QED
    BY <1>7, <2>2, <2>3, StoreUnchanged, WorkersUnchanged, HistoryUnchanged DEF WriteReviewDoc
<1>8. CASE SaveEdit(c)
  <2>1. crec[c].status = "QUEUED" => crec[c].attempts < MaxAttempts
    BY <1>8 DEF SaveEdit, RequestsInv
  <2>2. StoreTypeOK' /\ AttemptLimit'
    BY <1>t, <1>8, <2>1, SaveStep DEF SaveEdit
  <2>3. ControlTypeOK' /\ RequestsInv'
    BY <1>8, ProceedStep, AnswerStep DEF SaveEdit, Continue, ControlPCs
  <2>4. QED
    BY <1>8, <2>2, <2>3, DirUnchanged, WorkersUnchanged, HistoryUnchanged DEF SaveEdit
<1>9. CASE EnqueueTask(c)
  <2>1. StoreTypeOK' /\ AttemptLimit'
    BY <1>t, <1>9, StoreStep DEF EnqueueTask
  <2>2. QED
    BY <1>9, <2>1, AnswerStep, DirUnchanged, WorkersUnchanged, HistoryUnchanged DEF EnqueueTask
<1>10. CASE RefuseEdit(c)
  BY <1>10, AnswerStep, StoreUnchanged, DirUnchanged, WorkersUnchanged, HistoryUnchanged
  DEF RefuseEdit
<1>11. CASE ControllerCrash(c)
  <2>1. HistoryTypeOK'
    BY <1>11 DEF ControllerCrash, Fault, history, HistoryTypeOK
  <2>2. StoreTypeOK' /\ AttemptLimit'
    BY <1>t, <1>11, StoreStep, StoreUnchanged DEF ControllerCrash
  <2>3. QED
    BY <1>11, <2>1, <2>2, AnswerStep, DirUnchanged, WorkersUnchanged DEF ControllerCrash
<1>12. QED
  BY <1>2, <1>3, <1>4, <1>5, <1>6, <1>7, <1>8, <1>9, <1>10, <1>11 DEF Request, ControllerStep

LEMMA TypeStep == TypeOK /\ AttemptInv /\ [Next]_vars => TypeOK' /\ AttemptInv'
<1> SUFFICES ASSUME TypeOK, AttemptInv, [Next]_vars
             PROVE  TypeOK' /\ AttemptInv'
  OBVIOUS
<1>1. CASE UNCHANGED vars
  BY <1>1, StoreUnchanged, DirUnchanged, WorkersUnchanged, ControlUnchanged, HistoryUnchanged
  DEF vars, TypeOK, AttemptInv
<1>2. CASE Next
  BY <1>2, WorkerTypeStep, EventTypeStep, ControllerTypeStep DEF Next
<1>3. QED
  BY <1>1, <1>2

-----------------------------------------------------------------------------
(* Fencing *)

LEMMA InitFence == Init => FenceInv
<1> SUFFICES ASSUME Init PROVE FenceInv
  OBVIOUS
<1>1. ClaimIsNewest /\ GrantedInv
  BY DEF Init, StoreInit, NoClaim, ClaimIsNewest, GrantedInv
<1>2. HeldInv /\ HeldOnce /\ RunNowAlone
  BY AnyTaskType
  DEF Init, HeldInv, HeldOnce, RunNowAlone, Unclaimed, Executing
<1>3. QED
  BY <1>1, <1>2 DEF FenceInv

\* What a step does to the claims does not depend on the rest of the records:
\* tasks stay on the disk, and nobody's claim changes.
LEMMA ClaimsUnchanged ==
  ASSUME ClaimIsNewest, GrantedInv, UNCHANGED <<granted, results, lastClaim>>,
         \A t \in Tasks : claim'[t].id \in {0, claim[t].id},
         \A t \in Tasks : Exists(t) => Exists(t)'
  PROVE  ClaimIsNewest' /\ GrantedInv'
  BY DEF ClaimIsNewest, GrantedInv

\* A worker that moves within an execution.
LEMMA StageFence ==
  ASSUME IInv, NEW w \in Workers, pc[w] \in Executing \ {"release"}, NEW label \in Executing,
         NEW r \in Record, GoTo(w, label, r)
  PROVE  FenceInv'
<1> USE DEF IInv, TypeOK, FenceInv
<1>1. /\ UNCHANGED <<disk, claim, lastClaim, granted, results, task, held, cpc, ctask>>
      /\ pc' = [pc EXCEPT ![w] = label]
  BY DEF GoTo, storeVars, controlVars
<1>2. ClaimIsNewest' /\ GrantedInv'
  BY <1>1, ClaimsUnchanged DEF Exists
<1>3. HeldInv' /\ HeldOnce'
  BY <1>1 DEF HeldInv, HeldOnce, Untaken, WorkerTypeOK
<1>4. RunNowAlone'
  BY <1>1 DEF RunNowAlone, Unclaimed, Exists, WorkerTypeOK
<1>5. QED
  BY <1>2, <1>3, <1>4

\* A worker that has no claim any more, while the claims of the others grow no
\* smaller and no result of theirs is taken.
LEMMA HeldKept ==
  ASSUME WorkerTypeOK, HistoryTypeOK, HistoryTypeOK', HeldInv, HeldOnce, NEW w \in Workers,
         held'[w] = 0, task'[w] \in Tasks,
         \A v \in Workers \ {w} : pc'[v] = pc[v] /\ held'[v] = held[v] /\ task'[v] = task[v],
         \A t \in Tasks : granted'[t] >= granted[t],
         \A t \in Tasks : results'[t] \in {results[t], Append(results[t], 0)}
  PROVE  HeldInv' /\ HeldOnce'
<1>1. HeldOnce'
  BY DEF HeldOnce
<1>2. ASSUME NEW t \in Tasks, NEW id \in Nat \ {0}, Untaken(t, id),
             NEW i \in 1..Len(results'[t])
      PROVE  results'[t][i] # id
  <2>1. results[t] \in Seq(Nat)
    BY DEF HistoryTypeOK
  <2>2. CASE results'[t] = results[t]
    BY <1>2, <2>2 DEF Untaken
  <2>3. CASE results'[t] = Append(results[t], 0)
    <3>1. i \in 1..Len(results[t]) => results'[t][i] = results[t][i]
      BY <2>1, <2>3
    <3>2. i \notin 1..Len(results[t]) => results'[t][i] = 0
      BY <2>1, <2>3
    <3>3. QED
      BY <1>2, <3>1, <3>2 DEF Untaken
  <2>4. QED
    BY <2>2, <2>3
<1>3. ASSUME NEW v \in Workers, v # w
      PROVE  /\ held'[v] <= granted'[task'[v]]
             /\ pc'[v] \notin Executing => held'[v] = 0
             /\ pc'[v] \in Executing \ {"release"} /\ held'[v] # 0
                  => \A i \in 1..Len(results'[task'[v]]) : results'[task'[v]][i] # held'[v]
  <2>1. task[v] \in Tasks /\ held[v] \in Nat
    BY DEF WorkerTypeOK
  <2>2. granted[task[v]] \in Nat /\ granted'[task[v]] \in Nat
    BY <2>1 DEF HistoryTypeOK
  <2>3. held'[v] <= granted'[task'[v]]
    BY <1>3, <2>1, <2>2 DEF HeldInv
  <2>4. pc'[v] \in Executing \ {"release"} /\ held'[v] # 0 => Untaken(task[v], held[v])
    BY <1>3 DEF HeldInv
  <2>5. pc'[v] \notin Executing => held'[v] = 0
    BY <1>3 DEF HeldInv
  <2>6. QED
    BY <1>2, <1>3, <2>1, <2>3, <2>4, <2>5
<1>4. HeldInv'
  <2>1. granted'[task'[w]] \in Nat
    BY DEF HistoryTypeOK
  <2>2. QED
    BY <1>3, <2>1 DEF HeldInv, Untaken
<1>5. QED
  BY <1>1, <1>4

\* A worker that is not executing any more, or not yet.
LEMMA AwayFence ==
  ASSUME IInv, TypeOK', NEW w \in Workers, pc'[w] \notin Executing, held'[w] = 0,
         \A v \in Workers \ {w} : pc'[v] = pc[v] /\ held'[v] = held[v] /\ task'[v] = task[v],
         \A t \in Tasks : granted'[t] >= granted[t],
         \A t \in Tasks : results'[t] \in {results[t], Append(results[t], 0)},
         \A v \in Workers \ {w} : Unclaimed(v) => disk'[task[v]].status = disk[task[v]].status,
         UNCHANGED <<cpc, ctask>>
  PROVE  HeldInv' /\ HeldOnce' /\ RunNowAlone'
<1> USE DEF IInv, TypeOK, FenceInv
<1>1. task'[w] \in Tasks
  BY DEF WorkerTypeOK
<1>2. HeldInv' /\ HeldOnce'
  BY <1>1, HeldKept
<1>3. RunNowAlone'
  BY DEF RunNowAlone, Unclaimed, Exists
<1>4. QED
  BY <1>2, <1>3

\* How Idle and NextItem change what the others see of a worker.
LEMMA AwayFacts ==
  ASSUME WorkerTypeOK, NEW w \in Workers, Idle(w) \/ NextItem(w)
  PROVE  /\ \A v \in Workers \ {w} : pc'[v] = pc[v] /\ held'[v] = held[v] /\ task'[v] = task[v]
         /\ pc'[w] \notin Executing
         /\ held'[w] \in {0, held[w]}
         /\ Idle(w) => held'[w] = 0
  BY DEF Idle, NextItem, WorkerTypeOK, Executing

\* The workers' steps once more.
LEMMA WorkerFenceStep ==
  ASSUME IInv, TypeOK', NEW w \in Workers, WorkerStep(w)
  PROVE  FenceInv'
<1> USE DEF IInv, TypeOK, FenceInv
<1>t. /\ task[w] \in Tasks /\ rec[w] \in Record /\ held[w] \in Nat /\ pc[w] \in WorkerPCs
      /\ \A t \in Tasks : granted[t] \in Nat /\ results[t] \in Seq(Nat)
      /\ \A v \in Workers : task[v] \in Tasks
  BY DEF WorkerTypeOK, HistoryTypeOK
<1>1. CASE PrepareWorkspace(w) \/ GeneratePatch(w) \/ ReceivePatch(w) \/ ApplyPatch(w)
           \/ RunTests(w) \/ AssertClaim(w) \/ WriteReports(w) \/ RejectStaleResult(w)
  <2>1. pc[w] \in Executing \ {"release"}
    BY <1>1 DEF PrepareWorkspace, GeneratePatch, ReceivePatch, ApplyPatch, RunTests, AssertClaim,
                WriteReports, RejectStaleResult, Executing
  <2>2. \E label \in Executing : \E r \in {rec'[w]} : GoTo(w, label, r)
    BY <1>1, <1>t DEF PrepareWorkspace, GeneratePatch, ReceivePatch, ApplyPatch, RunTests, AssertClaim,
                WriteReports, RejectStaleResult, Executing, GoTo, WorkerTypeOK
  <2>3. rec'[w] \in Record
    BY DEF WorkerTypeOK
  <2>4. QED
    BY <2>1, <2>2, <2>3, StageFence
<1>2. CASE ReadQueue(w) \/ ScanItem(w) \/ PassOver(w)
  <2>1. held[w] = 0 /\ UNCHANGED <<disk, claim, lastClaim, granted, results, cpc, ctask>>
    BY <1>2 DEF ReadQueue, ScanItem, PassOver, HeldInv, Executing, storeVars, controlVars, history
  <2>2. /\ pc'[w] \notin Executing /\ held'[w] = 0
        /\ \A v \in Workers \ {w} : pc'[v] = pc[v] /\ held'[v] = held[v] /\ task'[v] = task[v]
    BY <1>2, <2>1, AwayFacts DEF ReadQueue, ScanItem, PassOver, WorkerTypeOK, Executing
  <2>3. HeldInv' /\ HeldOnce' /\ RunNowAlone'
    BY <1>t, <2>1, <2>2, AwayFence
  <2>4. ClaimIsNewest' /\ GrantedInv'
    BY <2>1, ClaimsUnchanged DEF Exists
  <2>5. QED
    BY <2>3, <2>4
<1>3. CASE ClaimTask(w)
  <2> DEFINE t == task[w]
             id == NextClaim
  <2>1. /\ disk[t].status = "QUEUED" /\ Exists(t)
        /\ \A u \in Tasks : Exists(u)' = Exists(u)
    BY <1>3, <1>t DEF ClaimTask, GrantClaim, Claimable, Exists, StoreTypeOK, Record
  <2>2. /\ id \in Nat /\ id > lastClaim /\ lastClaim' = id
        /\ granted' = [granted EXCEPT ![t] = id] /\ results' = results
        /\ claim' = [claim EXCEPT ![t] = [id |-> id, worker |-> w, live |-> TRUE]]
        /\ pc' = [pc EXCEPT ![w] = "prepare"] /\ held' = [held EXCEPT ![w] = id]
        /\ UNCHANGED <<task, cpc, ctask>>
    BY <1>3 DEF ClaimTask, GrantClaim, NextClaim, StoreTypeOK, controlVars
  <2> HIDE DEF id
  <2>3. \A u \in Tasks : granted[u] < id
    BY <1>t, <2>2 DEF GrantedInv, StoreTypeOK
  <2>4. ClaimIsNewest'
    BY <2>2 DEF ClaimIsNewest, StoreTypeOK, HistoryTypeOK
  <2>5. GrantedInv'
    <3> SUFFICES ASSUME NEW u \in Tasks
                 PROVE  /\ granted'[u] <= lastClaim'
                        /\ \A i \in 1..Len(results'[u]) : results'[u][i] <= granted'[u]
                        /\ disk'[u].status = "CREATED" => granted'[u] = 0 /\ results'[u] = <<>>
      BY <2>2 DEF GrantedInv, Exists
    <3>1. CASE u = t
      <4>1. granted'[t] = id /\ disk'[t].status # "CREATED"
        BY <1>t, <2>1, <2>2 DEF HistoryTypeOK, Exists
      <4>2. \A i \in 1..Len(results[t]) : results[t][i] \in Nat /\ results[t][i] <= granted[t]
        BY <1>t DEF GrantedInv
      <4>3. ASSUME NEW i \in 1..Len(results[t]) PROVE results[t][i] <= id
        <5>1. granted[t] \in Nat /\ granted[t] < id
          BY <1>t, <2>3
        <5>2. id \in Nat
          BY <2>2
        <5>3. results[t][i] \in Nat /\ results[t][i] <= granted[t]
          BY <4>2, <4>3
        <5>4. QED
          BY <5>1, <5>2, <5>3
      <4>4. QED
        BY <2>2, <3>1, <4>1, <4>3
    <3>2. CASE u # t
      <4>1. granted'[u] = granted[u] /\ granted[u] <= lastClaim /\ lastClaim <= lastClaim'
        BY <1>t, <2>2, <3>2 DEF GrantedInv, HistoryTypeOK, StoreTypeOK
      <4>2. disk'[u].status = "CREATED" => disk[u].status = "CREATED"
        BY <2>1, <2>2 DEF Exists
      <4>3. granted'[u] <= lastClaim'
        BY <1>t, <2>2, <4>1 DEF StoreTypeOK
      <4>4. QED
        BY <2>2, <4>1, <4>2, <4>3 DEF GrantedInv, Exists
    <3>3. QED
      BY <3>1, <3>2
  <2>6. ASSUME NEW v \in Workers
        PROVE  held[v] < id /\ held[v] \in Nat
    <3>1. held[v] \in Nat /\ held[v] <= granted[task[v]]
      BY DEF HeldInv, WorkerTypeOK
    <3>2. granted[task[v]] \in Nat /\ granted[task[v]] < id
      BY <1>t, <2>3
    <3>3. QED
      BY <2>2, <3>1, <3>2
  <2>7. HeldOnce'
    BY <2>2, <2>6 DEF HeldOnce, WorkerTypeOK
  <2>8. HeldInv'
    <3> SUFFICES ASSUME NEW v \in Workers
                 PROVE  /\ held'[v] <= granted'[task[v]]
                        /\ pc'[v] \notin Executing => held'[v] = 0
                        /\ pc'[v] \in Executing \ {"release"} /\ held'[v] # 0 =>
                             \A i \in 1..Len(results[task[v]]) : results[task[v]][i] # held'[v]
      BY <2>2 DEF HeldInv, Untaken
    <3>1. CASE v = w
      <4>1. held'[w] = id /\ granted'[t] = id /\ pc'[w] = "prepare"
        BY <1>t, <2>2 DEF WorkerTypeOK, HistoryTypeOK
      <4>2. \A i \in 1..Len(results[t]) : results[t][i] \in Nat /\ results[t][i] <= granted[t]
        BY <1>t DEF GrantedInv
      <4>3. ASSUME NEW i \in 1..Len(results[t]) PROVE results[t][i] # id
        <5>1. granted[t] \in Nat /\ granted[t] < id
          BY <1>t, <2>3
        <5>2. id \in Nat
          BY <2>2
        <5>3. results[t][i] \in Nat /\ results[t][i] <= granted[t]
          BY <4>2, <4>3
        <5>4. QED
          BY <5>1, <5>2, <5>3
      <4>4. QED
        BY <2>2, <3>1, <4>1, <4>3 DEF Executing
    <3>2. CASE v # w
      <4>1. held'[v] = held[v] /\ pc'[v] = pc[v]
        BY <2>2, <3>2 DEF WorkerTypeOK
      <4>2. granted'[task[v]] >= granted[task[v]] /\ granted'[task[v]] \in Nat
        BY <1>t, <2>2, <2>3 DEF HistoryTypeOK
      <4>3. QED
        BY <1>t, <2>6, <4>1, <4>2 DEF HeldInv, Untaken
    <3>3. QED
      BY <3>1, <3>2
  <2>9. RunNowAlone'
    <3>1. ASSUME NEW v \in Workers, Unclaimed(v)'
          PROVE  v # w /\ Unclaimed(v) /\ task[v] # t
      <4>1. id # 0
        BY <2>2 DEF StoreTypeOK
      <4>2. v # w
        BY <2>2, <3>1, <4>1 DEF Unclaimed, WorkerTypeOK
      <4>3. Unclaimed(v)
        BY <2>2, <3>1, <4>2 DEF Unclaimed, WorkerTypeOK
      <4>4. QED
        BY <2>1, <4>2, <4>3 DEF RunNowAlone
    <3>2. QED
      BY <2>1, <2>2, <3>1 DEF RunNowAlone, WorkerTypeOK
  <2>10. QED
    BY <2>4, <2>5, <2>7, <2>8, <2>9
<1>4. CASE SaveResult(w)
  <2> DEFINE t == task[w]
  <2>1. /\ held[w] # 0 /\ claim[t].id = held[w] /\ granted[t] = held[w]
        /\ disk' = [disk EXCEPT ![t] = rec[w]]
        /\ results' = [results EXCEPT ![t] = Append(@, held[w])]
        /\ pc' = [pc EXCEPT ![w] = "release"]
        /\ UNCHANGED <<claim, lastClaim, granted, task, held, cpc, ctask>>
    BY <1>4, <1>t DEF SaveResult, SaveClaimed, HoldsLease, OwnsClaim, ClaimIsNewest, controlVars
  <2>2. Exists(t)' /\ \A u \in Tasks \ {t} : Exists(u)' = Exists(u)
    BY <1>4, <1>t, <2>1 DEF SaveResult, ExecutionsInv, AttemptInv, Executing, Exists, StoreTypeOK
  <2>3. ClaimIsNewest'
    BY <2>1 DEF ClaimIsNewest
  <2>4. GrantedInv'
    <3> SUFFICES ASSUME NEW u \in Tasks
                 PROVE  /\ granted[u] <= lastClaim
                        /\ \A i \in 1..Len(results'[u]) : results'[u][i] <= granted[u]
                        /\ ~Exists(u)' => granted[u] = 0 /\ results'[u] = <<>>
      BY <2>1 DEF GrantedInv, Exists
    <3>1. CASE u = t
      <4>1. results'[t] = Append(results[t], held[w])
        BY <1>t, <2>1 DEF HistoryTypeOK
      <4>2. \A i \in 1..Len(results'[t]) : i \in 1..Len(results[t]) \/ results'[t][i] = held[w]
        BY <1>t, <4>1
      <4>3. \A i \in 1..Len(results[t]) : results'[t][i] = results[t][i]
        BY <1>t, <4>1
      <4>4. QED
        BY <1>t, <2>1, <2>2, <3>1, <4>2, <4>3 DEF GrantedInv
    <3>2. CASE u # t
      BY <2>1, <2>2, <3>2 DEF GrantedInv, HistoryTypeOK
    <3>3. QED
      BY <3>1, <3>2
  <2>5. HeldOnce'
    BY <2>1 DEF HeldOnce
  <2>6. HeldInv'
    <3> SUFFICES ASSUME NEW v \in Workers
                 PROVE  /\ held[v] <= granted[task[v]]
                        /\ pc'[v] \notin Executing => held[v] = 0
                        /\ pc'[v] \in Executing \ {"release"} /\ held[v] # 0 =>
                             \A i \in 1..Len(results'[task[v]]) : results'[task[v]][i] # held[v]
      BY <2>1 DEF HeldInv, Untaken
    <3>1. CASE v = w
      BY <2>1, <3>1 DEF HeldInv, Executing, WorkerTypeOK
    <3>2. ASSUME v # w, pc[v] \in Executing \ {"release"}, held[v] # 0,
                 NEW i \in 1..Len(results'[task[v]])
          PROVE  results'[task[v]][i] # held[v]
      <4>1. held[v] # held[w]
        BY <3>2 DEF HeldOnce
      <4>2. results'[task[v]] = results[task[v]]
            \/ results'[task[v]] = Append(results[task[v]], held[w])
        BY <1>t, <2>1 DEF HistoryTypeOK
      <4>3. CASE results'[task[v]] = results[task[v]]
        BY <3>2, <4>3 DEF HeldInv, Untaken
      <4>4. CASE results'[task[v]] = Append(results[task[v]], held[w])
        <5>1. results[task[v]] \in Seq(Nat)
          BY <1>t
        <5>2. i \in 1..Len(results[task[v]]) => results'[task[v]][i] = results[task[v]][i]
          BY <4>4, <5>1
        <5>3. i \notin 1..Len(results[task[v]]) => results'[task[v]][i] = held[w]
          BY <3>2, <4>4, <5>1
        <5>4. QED
          BY <3>2, <4>1, <5>2, <5>3 DEF HeldInv, Untaken
      <4>5. QED
        BY <4>2, <4>3, <4>4
    <3>3. QED
      BY <2>1, <3>1, <3>2 DEF HeldInv, WorkerTypeOK
  <2>7. RunNowAlone'
    <3>1. \A v \in Workers : Unclaimed(v)' => v # w /\ Unclaimed(v) /\ task[v] # t
      BY <1>4, <2>1 DEF SaveResult, Unclaimed, RunNowAlone, WorkerTypeOK, Executing
    <3>2. QED
      BY <1>4, <1>t, <2>1, <2>2, <3>1 DEF SaveResult, RunNowAlone, WorkerTypeOK, Executing
  <2>8. QED
    BY <2>3, <2>4, <2>5, <2>6, <2>7
<1>5. CASE SaveRunNow(w)
  <2> DEFINE t == task[w]
  <2>1. /\ Unclaimed(w) /\ ~Exists(t) /\ granted[t] = 0 /\ results[t] = <<>>
        /\ \A v \in Workers \ {w} : Unclaimed(v) => task[v] # t
    BY <1>5, <1>t DEF SaveRunNow, Unclaimed, Executing, RunNowAlone, GrantedInv
  <2>2. /\ results' = [results EXCEPT ![t] = Append(@, 0)]
        /\ \A u \in Tasks : claim'[u].id \in {0, claim[u].id}
        /\ \A u \in Tasks \ {t} : disk'[u] = disk[u]
        /\ UNCHANGED <<lastClaim, granted, cpc, ctask>>
    BY <1>5, <1>t DEF SaveRunNow, SaveUnclaimed, NoClaim, controlVars, StoreTypeOK
  <2>3. disk'[t].status # "CREATED"
    <3>1. rec[w].status # "CREATED"
      BY <1>5 DEF SaveRunNow, AttemptInv, ExecutionsInv, Executing
    <3>2. disk'[t].status = rec[w].status
      BY <1>5, <1>t DEF SaveRunNow, SaveUnclaimed, StoreTypeOK, Record
    <3>3. QED
      BY <3>1, <3>2
  <2>4. ClaimIsNewest'
    BY <2>2 DEF ClaimIsNewest
  <2>5. GrantedInv'
    <3> SUFFICES ASSUME NEW u \in Tasks
                 PROVE  /\ granted[u] <= lastClaim
                        /\ \A i \in 1..Len(results'[u]) : results'[u][i] <= granted[u]
                        /\ disk'[u].status = "CREATED" => granted[u] = 0 /\ results'[u] = <<>>
      BY <2>2 DEF GrantedInv, Exists
    <3>1. CASE u = t
      <4>1. results'[t] = <<0>>
        BY <1>t, <2>1, <2>2 DEF HistoryTypeOK
      <4>2. QED
        BY <2>1, <2>3, <3>1, <4>1 DEF GrantedInv
    <3>2. CASE u # t
      BY <2>2, <3>2 DEF GrantedInv, HistoryTypeOK, Exists
    <3>3. QED
      BY <3>1, <3>2
  <2>6. /\ pc'[w] \notin Executing /\ held'[w] = 0
        /\ \A v \in Workers \ {w} : pc'[v] = pc[v] /\ held'[v] = held[v] /\ task'[v] = task[v]
    BY <1>5, AwayFacts DEF SaveRunNow
  <2>7. \A u \in Tasks : granted'[u] >= granted[u]
    BY <1>t, <2>2
  <2>8. \A u \in Tasks : results'[u] \in {results[u], Append(results[u], 0)}
    BY <1>t, <2>2 DEF HistoryTypeOK
  <2>9. \A v \in Workers \ {w} : Unclaimed(v) => disk'[task[v]].status = disk[task[v]].status
    BY <1>t, <2>1, <2>2
  <2>10. HeldInv' /\ HeldOnce' /\ RunNowAlone'
    BY <2>2, <2>6, <2>7, <2>8, <2>9, AwayFence
  <2>11. QED
    BY <2>4, <2>5, <2>10
<1>6. CASE Release(w)
  <2>1. /\ UNCHANGED <<lastClaim, granted, results, cpc, ctask>>
        /\ \A u \in Tasks : claim'[u].id \in {0, claim[u].id}
        /\ \A u \in Tasks : disk'[u].status = disk[u].status
    <3>1. UNCHANGED <<lastClaim, granted, results, cpc, ctask>>
      BY <1>6 DEF Release, ReleaseClaim, storeVars, controlVars, history
    <3>2. CASE ReleaseClaim(task[w], w, held[w])
      BY <1>t, <3>1, <3>2 DEF ReleaseClaim, NoClaim, StoreTypeOK, Record
    <3>3. CASE UNCHANGED storeVars
      BY <3>1, <3>3 DEF storeVars
    <3>4. QED
      BY <1>6, <3>2, <3>3 DEF Release
  <2>2. ClaimIsNewest' /\ GrantedInv'
    BY <2>1, ClaimsUnchanged DEF Exists
  <2>3. /\ pc'[w] \notin Executing /\ held'[w] = 0
        /\ \A v \in Workers \ {w} : pc'[v] = pc[v] /\ held'[v] = held[v] /\ task'[v] = task[v]
    BY <1>6, AwayFacts DEF Release
  <2>4. HeldInv' /\ HeldOnce' /\ RunNowAlone'
    BY <1>t, <2>1, <2>3, AwayFence
  <2>5. QED
    BY <2>2, <2>4
<1>7. QED
  BY <1>1, <1>2, <1>3, <1>4, <1>5, <1>6 DEF WorkerStep

\* The other steps of workers and leases.
LEMMA EventFenceStep ==
  ASSUME IInv, TypeOK',
         \/ \E w \in Workers :
              \/ \E t \in Tasks, m \in Modes, p \in Patches \cup {NoPatch} : RunNow(w, t, m, p)
              \/ Abandon(w) \/ Heartbeat(w) \/ HeartbeatError(w) \/ WorkerCrash(w)
         \/ \E t \in Tasks : LeaseExpires(t) \/ LateHeartbeat(t)
  PROVE  FenceInv'
<1> USE DEF IInv, TypeOK, FenceInv
<1>t. /\ \A w \in Workers : task[w] \in Tasks /\ held[w] \in Nat
      /\ \A t \in Tasks : granted[t] \in Nat /\ results[t] \in Seq(Nat) /\ claim[t] \in Claim
  BY DEF WorkerTypeOK, HistoryTypeOK, StoreTypeOK
<1>1. ASSUME NEW w \in Workers, NEW t \in Tasks, NEW m \in Modes,
             NEW p \in Patches \cup {NoPatch}, RunNow(w, t, m, p)
      PROVE  FenceInv'
  <2>1. /\ UNCHANGED <<disk, claim, lastClaim, granted, results, held, cpc, ctask>>
        /\ pc' = [pc EXCEPT ![w] = "prepare"] /\ task' = [task EXCEPT ![w] = t]
        /\ held[w] = 0
    BY <1>1 DEF RunNow, storeVars, controlVars, history, HeldInv, Executing
  <2>2. /\ ~Exists(t) /\ granted[t] = 0
        /\ \A v \in Workers : pc[v] \in Executing => task[v] # t
        /\ \A c \in Controllers : cpc[c] # "idle" => ctask[c] # t
    BY <1>1 DEF RunNow, Fresh, GrantedInv, Executing
  <2>3. ClaimIsNewest' /\ GrantedInv'
    BY <2>1, ClaimsUnchanged DEF Exists
  <2>4. HeldInv' /\ HeldOnce'
    BY <1>t, <2>1, <2>2 DEF HeldInv, HeldOnce, Untaken, WorkerTypeOK
  <2>5. RunNowAlone'
    <3> SUFFICES ASSUME NEW u \in Workers, Unclaimed(u)'
                 PROVE  /\ disk[task'[u]].status = "CREATED"
                        /\ \A v \in Workers : pc'[v] \in Executing /\ task'[v] = task'[u] => v = u
                        /\ \A c \in Controllers : cpc[c] # "idle" => ctask[c] # task'[u]
      BY <2>1 DEF RunNowAlone, Exists
    <3>1. pc'[w] = "prepare" /\ task'[w] = t
      BY <2>1 DEF WorkerTypeOK
    <3>2. \A v \in Workers \ {w} : pc'[v] = pc[v] /\ task'[v] = task[v]
      BY <2>1 DEF WorkerTypeOK
    <3>3. CASE u = w
      BY <2>2, <3>1, <3>2, <3>3, <2>1 DEF Exists
    <3>4. CASE u # w
      <4>1. Unclaimed(u) /\ pc[u] \in Executing
        BY <2>1, <3>2, <3>4 DEF Unclaimed
      <4>2. QED
        BY <2>2, <3>1, <3>2, <3>4, <4>1 DEF RunNowAlone, Exists
    <3>5. QED
      BY <3>3, <3>4
  <2>6. QED
    BY <2>3, <2>4, <2>5
<1>2. ASSUME /\ UNCHANGED <<lastClaim, granted, results, pc, task, held, cpc, ctask>>
             /\ \A u \in Tasks : claim'[u].id = claim[u].id
             /\ \A u \in Tasks : disk'[u].status = disk[u].status
      PROVE  FenceInv'
  <2>1. ClaimIsNewest' /\ GrantedInv'
    BY <1>2, ClaimsUnchanged DEF Exists
  <2>2. HeldInv' /\ HeldOnce'
    BY <1>2 DEF HeldInv, HeldOnce, Untaken
  <2>3. RunNowAlone'
    BY <1>t, <1>2 DEF RunNowAlone, Unclaimed, Exists
  <2>4. QED
    BY <2>1, <2>2, <2>3
<1>3. ASSUME NEW w \in Workers, Heartbeat(w) \/ HeartbeatError(w)
      PROVE  FenceInv'
  <2>1. UNCHANGED <<lastClaim, granted, results, pc, task, held, cpc, ctask>>
    BY <1>3 DEF Heartbeat, HeartbeatError, RenewClaim, storeVars, controlVars, history
  <2>2. /\ \A u \in Tasks : claim'[u].id = claim[u].id
        /\ \A u \in Tasks : disk'[u].status = disk[u].status
    <3>1. CASE HoldsLease(task[w], w, held[w]) /\ RenewClaim(task[w], w, held[w])
      BY <1>t, <3>1 DEF HoldsLease, OwnsClaim, RenewClaim, StoreTypeOK, Record, Claim
    <3>2. CASE UNCHANGED storeVars
      BY <3>2 DEF storeVars
    <3>3. QED
      BY <1>3, <3>1, <3>2 DEF Heartbeat, HeartbeatError
  <2>3. QED
    BY <1>2, <2>1, <2>2
<1>4. ASSUME NEW t \in Tasks, LeaseExpires(t) \/ LateHeartbeat(t)
      PROVE  FenceInv'
  <2>1. Expire(t) /\ UNCHANGED <<granted, results, pc, task, held, cpc, ctask>>
    BY <1>4 DEF LeaseExpires, LateHeartbeat, workerVars, controlVars, history
  <2>2. \A u \in Tasks : claim'[u].id = claim[u].id
    BY <1>t, <2>1 DEF Expire, StoreTypeOK, Claim
  <2>3. QED
    BY <1>2, <2>1, <2>2 DEF Expire
<1>5. ASSUME NEW w \in Workers, WorkerCrash(w)
      PROVE  FenceInv'
  <2> DEFINE t == task[w]
  <2>1. /\ results' = results /\ UNCHANGED <<cpc, ctask>>
        /\ pc'[w] \notin Executing /\ held'[w] = 0
        /\ \A v \in Workers \ {w} : pc'[v] = pc[v] /\ held'[v] = held[v] /\ task'[v] = task[v]
    BY <1>5, AwayFacts DEF WorkerCrash, controlVars
  <2>2. /\ \A u \in Tasks : disk'[u].status = disk[u].status
        /\ \A u \in Tasks : granted'[u] >= granted[u]
        /\ ClaimIsNewest' /\ GrantedInv'
    <3>1. CASE UNCHANGED <<storeVars, granted>>
      <4>1. UNCHANGED <<disk, claim, lastClaim, granted>>
        BY <3>1 DEF storeVars
      <4>2. QED
        BY <1>t, <2>1, <4>1, ClaimsUnchanged DEF Exists
    <3>2. CASE TearClaim(t, w) /\ granted' = [granted EXCEPT ![t] = NextClaim]
      <4>1. NextClaim \in Nat /\ NextClaim > lastClaim /\ lastClaim' = NextClaim /\ disk' = disk
            /\ disk[t].status = "QUEUED"
        BY <3>2 DEF TearClaim, Claimable, NextClaim, StoreTypeOK
      <4>2. \A u \in Tasks : granted[u] < NextClaim
        BY <1>t, <4>1 DEF GrantedInv, StoreTypeOK
      <4>3. \A u \in Tasks : granted'[u] >= granted[u] /\ granted'[u] <= lastClaim'
        <5> SUFFICES ASSUME NEW u \in Tasks
                     PROVE  granted'[u] >= granted[u] /\ granted'[u] <= lastClaim'
          OBVIOUS
        <5>1. granted'[u] \in {granted[u], NextClaim}
          BY <3>2 DEF HistoryTypeOK
        <5>2. QED
          BY <1>t, <4>1, <4>2, <5>1
      <4>4. ClaimIsNewest'
        BY <1>t, <3>2 DEF TearClaim, ClaimIsNewest, StoreTypeOK, HistoryTypeOK
      <4>5. GrantedInv'
        <5> SUFFICES ASSUME NEW u \in Tasks
                     PROVE  /\ granted'[u] <= lastClaim'
                            /\ \A i \in 1..Len(results[u]) : results[u][i] <= granted'[u]
                            /\ disk[u].status = "CREATED" => granted'[u] = 0 /\ results[u] = <<>>
          BY <2>1, <4>1 DEF GrantedInv, Exists
        <5>1. /\ granted'[u] >= granted[u] /\ granted'[u] <= lastClaim'
              /\ granted[u] \in Nat /\ granted'[u] \in Nat
          BY <1>t, <4>3 DEF HistoryTypeOK
        <5>2. \A i \in 1..Len(results[u]) : results[u][i] \in Nat /\ results[u][i] <= granted[u]
          BY <1>t DEF GrantedInv
        <5>3. disk[u].status = "CREATED" => granted'[u] = 0 /\ results[u] = <<>>
          BY <1>t, <3>2, <4>1 DEF GrantedInv, Exists, HistoryTypeOK
        <5>4. QED
          BY <5>1, <5>2, <5>3
      <4>6. QED
        BY <4>1, <4>3, <4>4, <4>5
    <3>3. CASE TearRelease(t, w, held[w]) /\ granted' = granted
      <4>1. \A u \in Tasks : disk'[u].status = disk[u].status
        BY <1>t, <3>3 DEF TearRelease, StoreTypeOK, Record
      <4>2. UNCHANGED <<claim, lastClaim, granted>>
        BY <3>3 DEF TearRelease
      <4>3. QED
        BY <1>t, <2>1, <4>1, <4>2, ClaimsUnchanged DEF Exists
    <3>4. CASE TearUnlink(t) /\ granted' = granted
      <4>1. \A u \in Tasks : claim'[u].id \in {0, claim[u].id}
        BY <1>t, <3>4 DEF TearUnlink, NoClaim, StoreTypeOK
      <4>2. UNCHANGED <<disk, lastClaim, granted>>
        BY <3>4 DEF TearUnlink
      <4>3. QED
        BY <1>t, <2>1, <4>1, <4>2, ClaimsUnchanged DEF Exists
    <3>5. QED
      BY <1>5, <3>1, <3>2, <3>3, <3>4 DEF WorkerCrash
  <2>3. \A u \in Tasks : results'[u] \in {results[u], Append(results[u], 0)}
    BY <2>1
  <2>4. HeldInv' /\ HeldOnce' /\ RunNowAlone'
    BY <1>t, <2>1, <2>2, <2>3, AwayFence
  <2>5. QED
    BY <2>2, <2>4
<1>6. ASSUME NEW w \in Workers, Abandon(w)
      PROVE  FenceInv'
  <2>1. /\ UNCHANGED <<disk, claim, lastClaim, granted, results, cpc, ctask>>
        /\ pc[w] \in Executing
    BY <1>6 DEF Abandon, storeVars, controlVars, history, Executing
  <2>2. ClaimIsNewest' /\ GrantedInv'
    BY <2>1, ClaimsUnchanged DEF Exists
  <2>3. CASE Idle(w)
    <3>1. /\ pc'[w] \notin Executing /\ held'[w] = 0
          /\ \A v \in Workers \ {w} : pc'[v] = pc[v] /\ held'[v] = held[v] /\ task'[v] = task[v]
      BY <2>3, AwayFacts
    <3>2. HeldInv' /\ HeldOnce' /\ RunNowAlone'
      BY <1>t, <2>1, <3>1, AwayFence
    <3>3. QED
      BY <2>2, <3>2
  <2>4. CASE pc' = [pc EXCEPT ![w] = "release"] /\ UNCHANGED <<task, held>>
    <3>1. HeldInv' /\ HeldOnce'
      BY <2>1, <2>4 DEF HeldInv, HeldOnce, Untaken, WorkerTypeOK, Executing
    <3>2. RunNowAlone'
      BY <2>1, <2>4 DEF RunNowAlone, Unclaimed, Exists, WorkerTypeOK
    <3>3. QED
      BY <2>2, <3>1, <3>2
  <2>5. QED
    BY <1>6, <2>3, <2>4 DEF Abandon
<1>7. QED
  BY <1>1, <1>3, <1>4, <1>5, <1>6

\* The control plane.
LEMMA ControllerFenceStep ==
  ASSUME IInv, TypeOK', NEW c \in Controllers,
         Request(c) \/ ControllerStep(c) \/ ControllerCrash(c)
  PROVE  FenceInv'
<1> USE DEF IInv, TypeOK, FenceInv
<1>t. /\ ctask[c] \in Tasks /\ crec[c] \in Record
      /\ \A w \in Workers : task[w] \in Tasks
      /\ \A t \in Tasks : granted[t] \in Nat /\ results[t] \in Seq(Nat)
  BY DEF ControlTypeOK, WorkerTypeOK, HistoryTypeOK
\* No step of a request puts a worker's unclaimed task on the disk or in its hands.
<1>1. ASSUME /\ UNCHANGED <<lastClaim, granted, results, pc, task, held>>
             /\ \A u \in Tasks : claim'[u].id \in {0, claim[u].id}
             /\ \A u \in Tasks : disk'[u].status = disk[u].status
                                 \/ (cpc[c] # "idle" /\ u = ctask[c] /\ disk'[u].status # "CREATED")
             /\ \A d \in Controllers \ {c} : cpc'[d] = cpc[d] /\ ctask'[d] = ctask[d]
             /\ \/ cpc'[c] = "idle"
                \/ (cpc[c] # "idle" /\ ctask'[c] = ctask[c])
                \/ disk[ctask'[c]].status # "CREATED"
                \/ \A w \in Workers : pc[w] = "idle" \/ task[w] # ctask'[c]
      PROVE  FenceInv'
  <2>1. ClaimIsNewest' /\ GrantedInv'
    BY <1>1, ClaimsUnchanged DEF Exists
  <2>2. HeldInv' /\ HeldOnce'
    BY <1>1 DEF HeldInv, HeldOnce, Untaken
  <2>3. RunNowAlone'
    <3> SUFFICES ASSUME NEW w \in Workers, Unclaimed(w)
                 PROVE  /\ disk'[task[w]].status = "CREATED"
                        /\ \A v \in Workers : pc[v] \in Executing /\ task[v] = task[w] => v = w
                        /\ \A d \in Controllers : cpc'[d] # "idle" => ctask'[d] # task[w]
      BY <1>1 DEF RunNowAlone, Unclaimed, Exists
    <3>1. ~Exists(task[w]) /\ pc[w] # "idle"
      BY DEF RunNowAlone, Unclaimed, Executing
    <3>2. \A d \in Controllers : cpc[d] # "idle" => ctask[d] # task[w]
      BY DEF RunNowAlone
    <3>3. disk'[task[w]].status = "CREATED"
      BY <1>t, <1>1, <3>1, <3>2 DEF Exists
    <3>4. ASSUME NEW d \in Controllers, cpc'[d] # "idle" PROVE ctask'[d] # task[w]
      <4>1. CASE d = c
        BY <1>1, <3>1, <3>2, <3>4, <4>1 DEF Exists
      <4>2. CASE d # c
        BY <1>1, <3>2, <3>4, <4>2
      <4>3. QED
        BY <4>1, <4>2
    <3>5. QED
      BY <3>3, <3>4 DEF RunNowAlone
  <2>4. QED
    BY <2>1, <2>2, <2>3
<1>2. ASSUME NEW t \in Tasks, NEW r, NEW s, NEW label,
             Exists(t) \/ Fresh(t), Edit(c, t, r, s, label)
      PROVE  FenceInv'
  <2>1. /\ UNCHANGED <<disk, claim, lastClaim, granted, results, pc, task, held>>
        /\ \A d \in Controllers \ {c} : cpc'[d] = cpc[d] /\ ctask'[d] = ctask[d]
        /\ ctask'[c] = t
        /\ UNCHANGED <<lastClaim, granted, results, pc, task, held>>
    BY <1>2 DEF Edit, storeVars, workerVars, history, ControlTypeOK
  <2>2. \/ disk[ctask'[c]].status # "CREATED"
        \/ \A w \in Workers : pc[w] = "idle" \/ task[w] # ctask'[c]
    BY <1>2, <2>1 DEF Exists, Fresh
  <2>3. /\ \A u \in Tasks : claim'[u].id \in {0, claim[u].id}
        /\ \A u \in Tasks : disk'[u].status = disk[u].status
    BY <2>1
  <2>4. QED
    BY <1>1, <2>1, <2>2, <2>3
<1>3. CASE Request(c)
  <2>1. ASSUME NEW t \in Tasks, NEW m \in Modes, NEW p \in Patches \cup {NoPatch},
               CreateTask(c, t, m, p)
        PROVE  FenceInv'
    BY <1>2, <2>1 DEF CreateTask
  <2>2. ASSUME NEW t \in Tasks, RetryTask(c, t)
        PROVE  FenceInv'
    BY <1>2, <2>2 DEF RetryTask, Exists
  <2>3. ASSUME NEW t \in Tasks, ResubmitPatch(c, t)
        PROVE  FenceInv'
    BY <1>2, <2>3 DEF ResubmitPatch, Exists
  <2>4. ASSUME NEW t \in Tasks, NEW decision \in {"APPROVED", "CHANGES_REQUESTED"},
               ReviewTask(c, t, decision)
        PROVE  FenceInv'
    BY <1>2, <2>4 DEF ReviewTask, Exists
  <2>5. QED
    BY <1>3, <2>1, <2>2, <2>3, <2>4 DEF Request
<1>4. CASE ControllerStep(c) \/ ControllerCrash(c)
  <2>1. cpc[c] # "idle"
    BY <1>4 DEF ControllerStep, ControllerCrash, WriteRequestedPatch, WriteReviewDoc, SaveEdit,
                RefuseEdit, EnqueueTask
  <2>a. Answer(c) \/ \E label \in ControlPCs : Proceed(c, label)
    BY <1>4 DEF ControllerStep, ControllerCrash, WriteRequestedPatch, WriteReviewDoc, SaveEdit,
                Continue, RefuseEdit, EnqueueTask, ControlPCs
  <2>2. /\ \A d \in Controllers \ {c} : cpc'[d] = cpc[d] /\ ctask'[d] = ctask[d]
        /\ cpc'[c] = "idle" \/ ctask'[c] = ctask[c]
    BY <2>a DEF Answer, Proceed, ControlTypeOK
  <2>3. UNCHANGED <<lastClaim, granted, results, pc, task, held>>
    BY <1>4 DEF ControllerStep, ControllerCrash, WriteRequestedPatch, WriteReviewDoc, SaveEdit,
                SaveUnclaimed, RefuseEdit, EnqueueTask, Enqueue, TearUnlink, storeVars, workerVars,
                history
  <2>4. CASE SaveEdit(c)
    <3>1. \A u \in Tasks : claim'[u].id \in {0, claim[u].id}
      BY <1>t, <2>4 DEF SaveEdit, SaveUnclaimed, NoClaim, StoreTypeOK
    <3>2. crec[c].status # "CREATED"
      BY <2>1 DEF AttemptInv, RequestsInv
    <3>3. \A u \in Tasks : u # ctask[c] => disk'[u] = disk[u]
      BY <1>t, <2>4 DEF SaveEdit, SaveUnclaimed, StoreTypeOK
    <3>4. disk'[ctask[c]].status = crec[c].status
      BY <1>t, <2>4 DEF SaveEdit, SaveUnclaimed, StoreTypeOK, Record
    <3>5. \A u \in Tasks : disk'[u].status = disk[u].status
                           \/ (cpc[c] # "idle" /\ u = ctask[c] /\ disk'[u].status # "CREATED")
      BY <2>1, <3>2, <3>3, <3>4
    <3>6. cpc'[c] = "idle" \/ (cpc[c] # "idle" /\ ctask'[c] = ctask[c])
      BY <2>1, <2>2
    <3>7. QED
      BY <1>1, <2>2, <2>3, <3>1, <3>5, <3>6
  <2>5. CASE ~SaveEdit(c)
    <3>1. disk' = disk /\ (claim' = claim \/ TearUnlink(ctask[c]))
      BY <1>4, <2>5 DEF ControllerStep, ControllerCrash, WriteRequestedPatch, WriteReviewDoc,
                        RefuseEdit, EnqueueTask, Enqueue, TearUnlink, storeVars
    <3>2. /\ \A u \in Tasks : claim'[u].id \in {0, claim[u].id}
          /\ \A u \in Tasks : disk'[u].status = disk[u].status
      BY <1>t, <3>1 DEF TearUnlink, NoClaim, StoreTypeOK
    <3>3. cpc'[c] = "idle" \/ (cpc[c] # "idle" /\ ctask'[c] = ctask[c])
      BY <2>1, <2>2
    <3>4. QED
      BY <1>1, <2>2, <2>3, <3>2, <3>3
  <2>6. QED
    BY <2>4, <2>5
<1>5. QED
  BY <1>3, <1>4

LEMMA FenceStep == IInv /\ TypeOK' /\ [Next]_vars => FenceInv'
<1> SUFFICES ASSUME IInv, TypeOK', [Next]_vars
             PROVE  FenceInv'
  OBVIOUS
<1>1. CASE UNCHANGED vars
  <2>1. UNCHANGED <<disk, claim, lastClaim, granted, results, pc, task, held, cpc, ctask>>
    BY <1>1 DEF vars, storeVars, workerVars, controlVars, history
  <2>2. ClaimIsNewest' /\ GrantedInv' /\ HeldInv' /\ HeldOnce'
    BY <2>1
    DEF IInv, FenceInv, ClaimIsNewest, GrantedInv, HeldInv, HeldOnce, Untaken, Exists
  <2>3. RunNowAlone'
    BY <2>1 DEF IInv, FenceInv, RunNowAlone, Unclaimed, Exists
  <2>4. QED
    BY <2>2, <2>3 DEF FenceInv
<1>2. CASE Next
  BY <1>2, WorkerFenceStep, EventFenceStep, ControllerFenceStep DEF Next
<1>3. QED
  BY <1>1, <1>2

\* The inductive invariant holds in every reachable state.
THEOREM Invariance == Spec => []IInv
<1>1. Init => IInv
  BY InitType, InitFence DEF IInv
<1>2. IInv /\ [Next]_vars => IInv'
  BY TypeStep, FenceStep DEF IInv
<1>3. QED
  BY <1>1, <1>2, PTL DEF Spec

-----------------------------------------------------------------------------
(* The theorems *)

\* Types hold in every reachable state; with them, task.json and every copy in
\* memory stay within Task.max_attempts (Record).
THEOREM TypeCorrect == Spec => []TypeOK
<1>1. IInv => TypeOK
  BY DEF IInv
<1>2. QED
  BY <1>1, Invariance, PTL

\* A QUEUED task always has an attempt left: retry_task and resubmit_patch
\* cannot queue one past max_attempts, whatever else writes task.json between
\* their read and their save.
THEOREM AttemptsLimited == Spec => []AttemptLimit
<1>1. IInv => AttemptLimit
  BY DEF IInv, AttemptInv
<1>2. QED
  BY <1>1, Invariance, PTL

\* A claim file always holds the newest claim of its task: no crash, expiry,
\* heartbeat or release brings an older one back.
THEOREM NewestClaim == Spec => []ClaimIsNewest
<1>1. IInv => ClaimIsNewest
  BY DEF IInv, FenceInv
<1>2. QED
  BY <1>1, Invariance, PTL

\* How the steps map to those of FencedResults: a claim that is written is a
\* Grant, a result that is saved an Accept, and nothing else is seen there.
LEMMA FencedStep == IInv /\ TypeOK' /\ [Next]_vars => [Fenced!FencedNext]_(Fenced!fencedVars)
<1> SUFFICES ASSUME IInv, TypeOK', [Next]_vars
             PROVE  Fenced!FencedNext \/ UNCHANGED <<granted, results>>
  BY DEF Fenced!fencedVars
<1> USE DEF IInv, TypeOK, FenceInv
<1>1. ASSUME NEW t \in Tasks, granted' = [granted EXCEPT ![t] = NextClaim], results' = results
      PROVE  Fenced!Grant(t)
  <2>1. \A u \in Tasks : granted[u] \in Nat /\ granted[u] <= lastClaim /\ lastClaim \in Nat
    BY DEF GrantedInv, HistoryTypeOK, StoreTypeOK
  <2>2. granted'[t] = NextClaim /\ \A u \in Tasks : granted[u] < NextClaim
    BY <1>1, <2>1 DEF HistoryTypeOK, NextClaim
  <2>3. QED
    BY <1>1, <2>1, <2>2 DEF Fenced!Grant, NextClaim
<1>2. ASSUME NEW w \in Workers, SaveResult(w)
      PROVE  Fenced!Accept(task[w])
  <2>1. held[w] # 0 /\ granted[task[w]] = held[w]
    BY <1>2 DEF SaveResult, SaveClaimed, HoldsLease, OwnsClaim, ClaimIsNewest, WorkerTypeOK
  <2>2. Untaken(task[w], granted[task[w]])
    BY <1>2, <2>1 DEF SaveResult, HeldInv, Executing
  <2>3. QED
    BY <1>2, <2>1, <2>2 DEF SaveResult, Fenced!Accept, Fenced!Taken, Untaken
<1>3. ASSUME NEW w \in Workers, SaveRunNow(w)
      PROVE  Fenced!Accept(task[w])
  <2>1. granted[task[w]] = 0 /\ results[task[w]] = <<>>
    BY <1>3 DEF SaveRunNow, RunNowAlone, Unclaimed, Executing, GrantedInv, WorkerTypeOK
  <2>2. QED
    BY <1>3, <2>1 DEF SaveRunNow, Fenced!Accept, Fenced!Taken
<1>4. CASE UNCHANGED vars
  BY <1>4 DEF vars, history
<1>5. ASSUME NEW w \in Workers, WorkerStep(w)
      PROVE  Fenced!FencedNext \/ UNCHANGED <<granted, results>>
  <2>t. task[w] \in Tasks
    BY DEF WorkerTypeOK
  <2>1. CASE ClaimTask(w)
    BY <1>1, <2>t, <2>1 DEF ClaimTask, Fenced!FencedNext
  <2>2. CASE SaveResult(w) \/ SaveRunNow(w)
    BY <1>2, <1>3, <2>t, <2>2 DEF Fenced!FencedNext
  <2>3. CASE ReadQueue(w) \/ ScanItem(w) \/ PassOver(w) \/ Release(w)
    BY <2>3 DEF ReadQueue, ScanItem, PassOver, Release, history
  <2>4. CASE PrepareWorkspace(w) \/ GeneratePatch(w) \/ ReceivePatch(w) \/ ApplyPatch(w)
             \/ RunTests(w) \/ AssertClaim(w) \/ WriteReports(w) \/ RejectStaleResult(w)
    BY <2>4 DEF PrepareWorkspace, GeneratePatch, ReceivePatch, ApplyPatch, RunTests, AssertClaim,
                WriteReports, RejectStaleResult, GoTo
  <2>5. QED
    BY <1>5, <2>1, <2>2, <2>3, <2>4 DEF WorkerStep
<1>6. ASSUME NEW w \in Workers, WorkerCrash(w)
      PROVE  Fenced!FencedNext \/ UNCHANGED <<granted, results>>
  <2>1. task[w] \in Tasks /\ results' = results
    BY <1>6 DEF WorkerCrash, WorkerTypeOK
  <2>2. granted' = granted \/ granted' = [granted EXCEPT ![task[w]] = NextClaim]
    BY <1>6 DEF WorkerCrash
  <2>3. QED
    BY <1>1, <2>1, <2>2 DEF Fenced!FencedNext
<1>7. ASSUME NEW w \in Workers,
             \/ \E t \in Tasks, m \in Modes, p \in Patches \cup {NoPatch} : RunNow(w, t, m, p)
             \/ Abandon(w) \/ Heartbeat(w) \/ HeartbeatError(w)
      PROVE  UNCHANGED <<granted, results>>
  BY <1>7 DEF RunNow, Abandon, Heartbeat, HeartbeatError, history
<1>8. ASSUME NEW t \in Tasks, LeaseExpires(t) \/ LateHeartbeat(t)
      PROVE  UNCHANGED <<granted, results>>
  BY <1>8 DEF LeaseExpires, LateHeartbeat, history
<1>9. ASSUME NEW c \in Controllers, Request(c) \/ ControllerStep(c) \/ ControllerCrash(c)
      PROVE  UNCHANGED <<granted, results>>
  BY <1>9 DEF Request, CreateTask, RetryTask, ResubmitPatch, ReviewTask, Edit, ControllerStep,
              ControllerCrash, WriteRequestedPatch, WriteReviewDoc, SaveEdit, RefuseEdit,
              EnqueueTask, history
<1>10. QED
  BY <1>4, <1>5, <1>6, <1>7, <1>8, <1>9 DEF Next

\* Fencing: whatever crashes, expires or comes late, task.json takes a result
\* only from the newest claim of the task, and once.
THEOREM Fencing == Spec => ResultsAreFenced
<1>1. Init => Fenced!FencedInit
  BY DEF Init, Fenced!FencedInit
<1>2. IInv /\ IInv' /\ [Next]_vars => [Fenced!FencedNext]_(Fenced!fencedVars)
  BY FencedStep DEF IInv
<1>3. QED
  BY <1>1, <1>2, Invariance, PTL DEF Spec, ResultsAreFenced, Fenced!FencedSpec

-----------------------------------------------------------------------------
(* One executor *)

\* What a step does to the lease of an execution: nothing, unless it is a step
\* of that very worker.
LEMMA LeaseKept ==
  ASSUME LeaseInv, NEW w \in Workers,
         Claimed(w)' => (beat[w] = "beating" /\ HoldsLease(task[w], w, held[w]))',
         \A v \in Workers \ {w} :
           pc'[v] = pc[v] /\ task'[v] = task[v] /\ held'[v] = held[v] /\ beat'[v] = beat[v],
         \A v \in Workers \ {w} : Claimed(v) => claim'[task[v]] = claim[task[v]]
  PROVE  LeaseInv'
  BY DEF LeaseInv, Claimed, HoldsLease, OwnsClaim

\* The claim file of an execution changes only by its worker's hand: the other
\* writers want an expired lease or their own.
LEMMA LeaseUntouched ==
  ASSUME StoreTypeOK, LeaseInv, NEW v \in Workers, Claimed(v), task[v] \in Tasks,
         NEW t \in Tasks, NEW w, w # v, NEW id,
         \/ GrantClaim(t, w) \/ TearClaim(t, w) \/ TearUnlink(t)
         \/ \E r : SaveUnclaimed(t, r)
         \/ RenewClaim(t, w, id) \/ ReleaseClaim(t, w, id)
  PROVE  claim'[task[v]] = claim[task[v]]
<1>1. claim[task[v]].live /\ claim[task[v]].worker = v
  BY DEF LeaseInv, HoldsLease, OwnsClaim
<1>2. t # task[v]
  BY <1>1 DEF GrantClaim, TearClaim, Claimable, TearUnlink, SaveUnclaimed, RenewClaim,
              ReleaseClaim, HoldsLease, OwnsClaim
<1>3. CASE TearClaim(t, w)
  BY <1>2, <1>3 DEF TearClaim, StoreTypeOK
<1>4. CASE ~TearClaim(t, w)
  BY <1>2, <1>4 DEF GrantClaim, TearUnlink, SaveUnclaimed, RenewClaim, ReleaseClaim, StoreTypeOK
<1>5. QED
  BY <1>3, <1>4

\* A worker's step keeps the leases of executions.
LEMMA WorkerLeaseStep ==
  ASSUME IInv, LeaseInv, NEW w \in Workers, WorkerStep(w)
  PROVE  LeaseInv'
<1> USE DEF IInv, TypeOK
<1>t. \A v \in Workers : task[v] \in Tasks
  BY DEF WorkerTypeOK
<1>1. CASE PrepareWorkspace(w) \/ GeneratePatch(w) \/ ReceivePatch(w) \/ ApplyPatch(w)
           \/ RunTests(w) \/ AssertClaim(w) \/ WriteReports(w) \/ RejectStaleResult(w)
           \/ SaveResult(w)
  <2>1. /\ pc[w] \in Executing
        /\ \A v \in Workers \ {w} : pc'[v] = pc[v]
        /\ UNCHANGED <<claim, task, held, beat>>
    BY <1>1 DEF PrepareWorkspace, GeneratePatch, ReceivePatch, ApplyPatch, RunTests, AssertClaim,
                WriteReports, RejectStaleResult, SaveResult, SaveClaimed, GoTo, storeVars, Executing,
                WorkerTypeOK
  <2>2. Claimed(w)' => (beat[w] = "beating" /\ HoldsLease(task[w], w, held[w]))'
    BY <2>1 DEF LeaseInv, Claimed, HoldsLease, OwnsClaim
  <2>3. QED
    BY <2>1, <2>2, LeaseKept
<1>2. CASE ReadQueue(w) \/ ScanItem(w) \/ PassOver(w)
  <2>1. /\ pc'[w] \notin Executing /\ claim' = claim
        /\ \A v \in Workers \ {w} :
             pc'[v] = pc[v] /\ task'[v] = task[v] /\ held'[v] = held[v] /\ beat'[v] = beat[v]
    BY <1>2 DEF ReadQueue, ScanItem, PassOver, NextItem, Idle, storeVars, Executing, WorkerTypeOK
  <2>2. QED
    BY <2>1, LeaseKept DEF Claimed
<1>3. CASE ClaimTask(w)
  <2>1. /\ GrantClaim(task[w], w)
        /\ UNCHANGED task
        /\ held'[w] = NextClaim /\ beat'[w] = "beating"
        /\ \A v \in Workers \ {w} : pc'[v] = pc[v] /\ held'[v] = held[v] /\ beat'[v] = beat[v]
    BY <1>3 DEF ClaimTask, WorkerTypeOK
  <2>2. claim'[task[w]] = [id |-> NextClaim, worker |-> w, live |-> TRUE]
    BY <1>t, <2>1 DEF GrantClaim, StoreTypeOK
  <2>3. NextClaim # 0
    BY DEF NextClaim, StoreTypeOK
  <2>4. (beat[w] = "beating" /\ HoldsLease(task[w], w, held[w]))'
    BY <2>1, <2>2, <2>3 DEF HoldsLease, OwnsClaim
  <2>5. \A v \in Workers \ {w} : Claimed(v) => claim'[task[v]] = claim[task[v]]
    BY <1>t, <2>1, LeaseUntouched
  <2>6. QED
    BY <2>1, <2>4, <2>5, LeaseKept
<1>4. CASE SaveRunNow(w) \/ Release(w)
  <2>1. /\ pc'[w] \notin Executing
        /\ \A v \in Workers \ {w} :
             pc'[v] = pc[v] /\ task'[v] = task[v] /\ held'[v] = held[v] /\ beat'[v] = beat[v]
    BY <1>4 DEF SaveRunNow, Release, Idle, Executing, WorkerTypeOK
  <2>2. \/ SaveUnclaimed(task[w], rec[w]) \/ ReleaseClaim(task[w], w, held[w])
        \/ claim' = claim
    BY <1>4 DEF SaveRunNow, Release, storeVars
  <2>3. \A v \in Workers \ {w} : Claimed(v) => claim'[task[v]] = claim[task[v]]
    BY <1>t, <2>2, LeaseUntouched
  <2>4. QED
    BY <2>1, <2>3, LeaseKept DEF Claimed
<1>5. QED
  BY <1>1, <1>2, <1>3, <1>4 DEF WorkerStep

\* A run_task_now, a crash, a heartbeat and the end of a lease: a lease that is
\* renewed in time does not end.
LEMMA EventLeaseStep ==
  ASSUME IInv, LeaseInv, HeartbeatsInTime,
         \/ \E w \in Workers :
              \/ \E t \in Tasks, m \in Modes, p \in Patches \cup {NoPatch} : RunNow(w, t, m, p)
              \/ Abandon(w) \/ Heartbeat(w) \/ HeartbeatError(w) \/ WorkerCrash(w)
         \/ \E t \in Tasks : LeaseExpires(t) \/ LateHeartbeat(t)
  PROVE  LeaseInv'
<1> USE DEF IInv, TypeOK
<1>t. \A v \in Workers : task[v] \in Tasks
  BY DEF WorkerTypeOK
<1>1. ASSUME NEW w \in Workers,
             \E t \in Tasks, m \in Modes, p \in Patches \cup {NoPatch} : RunNow(w, t, m, p)
      PROVE  LeaseInv'
  <2>1. /\ held[w] = 0 /\ UNCHANGED <<claim, held, beat>>
        /\ \A v \in Workers \ {w} : pc'[v] = pc[v] /\ task'[v] = task[v]
    BY <1>1 DEF RunNow, FenceInv, HeldInv, Executing, storeVars, WorkerTypeOK
  <2>2. QED
    BY <2>1, LeaseKept DEF Claimed
<1>2. ASSUME NEW w \in Workers, Heartbeat(w)
      PROVE  LeaseInv'
  <2>1. UNCHANGED <<pc, task, held>>
    BY <1>2 DEF Heartbeat
  <2>2. CASE HoldsLease(task[w], w, held[w])
    <3>1. RenewClaim(task[w], w, held[w]) /\ UNCHANGED beat
      BY <1>2, <2>2 DEF Heartbeat
    <3>2. HoldsLease(task[w], w, held[w])'
      BY <1>t, <2>1, <2>2, <3>1 DEF RenewClaim, HoldsLease, OwnsClaim, StoreTypeOK
    <3>3. \A v \in Workers \ {w} : Claimed(v) => claim'[task[v]] = claim[task[v]]
      BY <1>t, <3>1, LeaseUntouched
    <3>4. Claimed(w)' => beat'[w] = "beating"
      BY <1>2, <3>1 DEF Heartbeat
    <3>5. QED
      BY <2>1, <3>1, <3>2, <3>3, <3>4, LeaseKept
  <2>3. CASE ~HoldsLease(task[w], w, held[w])
    <3>1. claim' = claim /\ \A v \in Workers \ {w} : beat'[v] = beat[v]
      BY <1>2, <2>3 DEF Heartbeat, storeVars, WorkerTypeOK
    <3>2. ~Claimed(w)'
      BY <2>1, <2>3 DEF LeaseInv, Claimed
    <3>3. QED
      BY <2>1, <3>1, <3>2, LeaseKept
  <2>4. QED
    BY <2>2, <2>3
<1>3. ASSUME NEW w \in Workers, WorkerCrash(w)
      PROVE  LeaseInv'
  <2>1. /\ pc'[w] \notin Executing
        /\ \A v \in Workers \ {w} :
             pc'[v] = pc[v] /\ task'[v] = task[v] /\ held'[v] = held[v] /\ beat'[v] = beat[v]
    BY <1>3 DEF WorkerCrash, Idle, Executing, WorkerTypeOK
  <2>2. claim' = claim \/ TearClaim(task[w], w) \/ TearUnlink(task[w])
    BY <1>3 DEF WorkerCrash, TearRelease, storeVars
  <2>3. \A v \in Workers \ {w} : Claimed(v) => claim'[task[v]] = claim[task[v]]
    BY <1>t, <2>2, LeaseUntouched
  <2>4. QED
    BY <2>1, <2>3, LeaseKept DEF Claimed
<1>4. ASSUME NEW t \in Tasks, LeaseExpires(t)
      PROVE  LeaseInv'
  <2>1. UNCHANGED <<pc, task, held, beat>>
    BY <1>4 DEF LeaseExpires, workerVars
  <2>2. \A v \in Workers : Claimed(v) => task[v] # t
    BY <1>4 DEF LeaseExpires, Renewed, LeaseInv
  <2>3. \A v \in Workers : Claimed(v) => claim'[task[v]] = claim[task[v]]
    BY <1>4, <1>t, <2>2 DEF LeaseExpires, Expire, StoreTypeOK
  <2>4. QED
    BY <2>1, <2>3 DEF LeaseInv, Claimed, HoldsLease, OwnsClaim
<1>5. (\A w \in Workers : ~HeartbeatError(w)) /\ (\A t \in Tasks : ~LateHeartbeat(t))
  BY DEF HeartbeatsInTime, HeartbeatError, LateHeartbeat, Fault
<1>6. ASSUME NEW w \in Workers, Abandon(w)
      PROVE  LeaseInv'
  <2>1. /\ claim' = claim /\ pc[w] \in Executing
        /\ \A v \in Workers \ {w} :
             pc'[v] = pc[v] /\ task'[v] = task[v] /\ held'[v] = held[v] /\ beat'[v] = beat[v]
    BY <1>6 DEF Abandon, Idle, storeVars, Executing, WorkerTypeOK
  <2>2. CASE Idle(w)
    BY <2>1, <2>2, LeaseKept DEF Idle, Claimed, Executing, WorkerTypeOK
  <2>3. CASE UNCHANGED <<task, held, beat>>
    <3>1. Claimed(w)' => (beat[w] = "beating" /\ HoldsLease(task[w], w, held[w]))'
      BY <2>1, <2>3 DEF LeaseInv, Claimed, HoldsLease, OwnsClaim
    <3>2. QED
      BY <2>1, <3>1, LeaseKept
  <2>4. QED
    BY <1>6, <2>2, <2>3 DEF Abandon
<1>7. QED
  BY <1>1, <1>2, <1>3, <1>4, <1>5, <1>6

\* The control plane touches no live lease.
LEMMA ControllerLeaseStep ==
  ASSUME IInv, LeaseInv, NEW c \in Controllers,
         Request(c) \/ ControllerStep(c) \/ ControllerCrash(c)
  PROVE  LeaseInv'
<1> USE DEF IInv, TypeOK
<1>t. (\A v \in Workers : task[v] \in Tasks) /\ ctask[c] \in Tasks
  BY DEF WorkerTypeOK, ControlTypeOK
<1>1. UNCHANGED <<pc, task, held, beat>>
  BY DEF Request, CreateTask, RetryTask, ResubmitPatch, ReviewTask, Edit, ControllerStep,
         ControllerCrash, WriteRequestedPatch, WriteReviewDoc, SaveEdit, RefuseEdit,
         EnqueueTask, workerVars
<1>2. claim' = claim \/ SaveUnclaimed(ctask[c], crec[c]) \/ TearUnlink(ctask[c])
  BY DEF Request, CreateTask, RetryTask, ResubmitPatch, ReviewTask, Edit, ControllerStep,
         ControllerCrash, WriteRequestedPatch, WriteReviewDoc, SaveEdit, RefuseEdit,
         EnqueueTask, Enqueue, storeVars
<1>3. \A v \in Workers : v # NoWorker
  BY StoreAssumption
<1>4. \A v \in Workers : Claimed(v) => claim'[task[v]] = claim[task[v]]
  BY <1>t, <1>2, <1>3, LeaseUntouched
<1>5. QED
  BY <1>1, <1>4 DEF LeaseInv, Claimed, HoldsLease, OwnsClaim

\* While heartbeats come in time, an execution keeps its lease until it
\* releases it.
LEMMA LeasesAreKept == HeartbeatsInTime => (Spec => []LeaseInv)
<1> SUFFICES ASSUME HeartbeatsInTime PROVE Spec => []LeaseInv
  OBVIOUS
<1>1. Init => LeaseInv
  BY DEF Init, LeaseInv, Claimed, Executing
<1>2. IInv /\ LeaseInv /\ [Next]_vars => LeaseInv'
  <2> SUFFICES ASSUME IInv, LeaseInv, [Next]_vars PROVE LeaseInv'
    OBVIOUS
  <2>1. CASE UNCHANGED vars
    BY <2>1 DEF vars, storeVars, workerVars, LeaseInv, Claimed, HoldsLease, OwnsClaim
  <2>2. CASE Next
    BY <2>2, WorkerLeaseStep, EventLeaseStep, ControllerLeaseStep DEF Next
  <2>3. QED
    BY <2>1, <2>2
<1>3. QED
  BY <1>1, <1>2, Invariance, PTL DEF Spec

\* Leases exclude each other, and nobody else knows the task of run_task_now.
LEMMA LeasesExclude == IInv /\ LeaseInv => OneExecutor
<1> SUFFICES ASSUME IInv, LeaseInv, NEW v \in Workers, NEW w \in Workers,
                    pc[v] \in Executing, pc[w] \in Executing, task[v] = task[w]
             PROVE  v = w
  BY DEF OneExecutor
<1>1. CASE Unclaimed(v) \/ Unclaimed(w)
  BY <1>1 DEF IInv, FenceInv, RunNowAlone
<1>2. CASE Claimed(v) /\ Claimed(w)
  BY <1>2 DEF LeaseInv, HoldsLease, OwnsClaim
<1>3. QED
  BY <1>1, <1>2 DEF Unclaimed, Claimed

\* While heartbeats come in time, whoever crashes and whatever is requested,
\* no two processes execute a task at a time: the artifact directory, which no
\* lock protects, has one user (claim_next_task, run_task_now).
THEOREM OneExecutorAtATime == HeartbeatsInTime => (Spec => []OneExecutor)
  BY LeasesExclude, LeasesAreKept, Invariance, PTL

-----------------------------------------------------------------------------
(* When heartbeats come in time and requests to the control plane come one   *)
(* at a time, for any number of tasks, workers, claims and crashes.  Without *)
(* the one or the other the results are false.                              *)

\* What the properties look at in the artifact directory.
evidence == <<workspace, patchDiff, report>>

\* A claim id that is written into a record or cleared there.
SameRecords ==
  \A t \in Tasks :
    /\ disk'[t].status = disk[t].status
    /\ disk'[t].tested = disk[t].tested
    /\ disk'[t].patch = disk[t].patch

\* A worker whose execution goes on as it was, ends, or is about to start.
Steady(w) ==
  \/ pc'[w] = pc[w] /\ task'[w] = task[w] /\ rec'[w] = rec[w] /\ held'[w] = held[w]
  \/ pc'[w] \notin Executing
  \/ pc'[w] = "prepare" /\ (held'[w] = 0 \/ disk'[task'[w]].status = "QUEUED")

\* Steps that neither save a record nor touch the evidence.
LEMMA Quiet ==
  ASSUME IInv, SerialInv, SameRecords, UNCHANGED <<evidence, results, controlVars>>,
         \A w \in Workers : Steady(w)
  PROVE  SerialInv'
<1> USE DEF IInv, TypeOK, SerialInv, evidence, SameRecords
<1>1. WaitsQueued'
  <2> SUFFICES ASSUME NEW w \in Workers, Claimed(w)', pc'[w] # "release"
               PROVE  disk'[task'[w]].status = "QUEUED"
    BY DEF WaitsQueued
  <2>1. CASE pc'[w] = pc[w] /\ task'[w] = task[w] /\ held'[w] = held[w]
    <3>1. disk[task[w]].status = "QUEUED" /\ task[w] \in Tasks
      BY <2>1 DEF WaitsQueued, Claimed, WorkerTypeOK
    <3>2. QED
      BY <2>1, <3>1
  <2>2. CASE pc'[w] = "prepare" /\ disk'[task'[w]].status = "QUEUED"
    BY <2>2
  <2>3. QED
    BY <2>1, <2>2 DEF Steady, Claimed
<1>2. StageInv'
  BY DEF StageInv, StageAt, Steady, Executing
<1>3. DecisionInv'
  BY DEF DecisionInv, controlVars, ControlTypeOK
<1>4. HandoffIsEvidence'
  BY DEF HandoffIsEvidence
<1>5. QED
  BY <1>1, <1>2, <1>3, <1>4

\* A step of an execution before its save: nobody else executes the task, and
\* the evidence for what is ready for review belongs to other tasks.
LEMMA Stage ==
  ASSUME IInv, TypeOK', LeaseInv, SerialInv,
         NEW w \in Workers, pc[w] \in Executing \ {"release"},
         NEW label \in Executing, GoTo(w, label, rec'[w]), StageAt(w)',
         \A t \in Tasks \ {task[w]} :
           workspace'[t] = workspace[t] /\ patchDiff'[t] = patchDiff[t] /\ report'[t] = report[t]
  PROVE  SerialInv'
<1> USE DEF IInv, TypeOK, SerialInv
<1>1. /\ UNCHANGED <<disk, results, task, held, cpc, ctask, crec>>
      /\ pc' = [pc EXCEPT ![w] = label]
      /\ \A v \in Workers \ {w} : pc'[v] = pc[v] /\ rec'[v] = rec[v]
      /\ \A v \in Workers : task[v] \in Tasks
  BY DEF GoTo, storeVars, controlVars, WorkerTypeOK
<1>2. WaitsQueued'
  BY <1>1 DEF WaitsQueued, Claimed, WorkerTypeOK
<1>3. \A v \in Workers \ {w} : pc[v] \in Executing => task[v] # task[w]
  BY LeasesExclude DEF OneExecutor
<1>4. \A v \in Workers \ {w} : StageAt(v)'
  BY <1>1, <1>3 DEF StageInv, StageAt, Executing
<1>5. DecisionInv'
  BY <1>1 DEF DecisionInv
<1>6. disk[task[w]].status \in {"QUEUED", "CREATED"}
  BY DEF WaitsQueued, Claimed, FenceInv, RunNowAlone, Unclaimed, Exists
<1>7. HandoffIsEvidence'
  BY <1>1, <1>6 DEF HandoffIsEvidence
<1>8. QED
  BY <1>2, <1>4, <1>5, <1>7 DEF StageInv

LEMMA MoveEvidence ==
  ASSUME NEW r \in Record, NEW s \in Statuses
  PROVE  Move(r, s).patch = r.patch /\ Move(r, s).tested = r.tested
  BY DEF Move, Fail, Record

\* What a stage leaves in the hands of its worker.
LEMMA StageFacts ==
  ASSUME IInv, TypeOK', StageInv, NEW w \in Workers,
         \/ PrepareWorkspace(w) \/ GeneratePatch(w) \/ ReceivePatch(w) \/ ApplyPatch(w)
         \/ RunTests(w) \/ AssertClaim(w) \/ WriteReports(w) \/ RejectStaleResult(w)
  PROVE  StageAt(w)'
<1>t. task[w] \in Tasks /\ rec[w] \in Record /\ DirTypeOK
  BY DEF IInv, TypeOK, WorkerTypeOK
<1>g. ASSUME NEW label, NEW r, GoTo(w, label, r)
      PROVE  pc'[w] = label /\ rec'[w] = r /\ task'[w] = task[w] /\ held'[w] = held[w]
  BY <1>g DEF IInv, TypeOK, GoTo, WorkerTypeOK
<1> DEFINE t == task[w]
<1>1. CASE PrepareWorkspace(w)
  <2> DEFINE started == Started(rec[w])
  <2>0. started \in Record
    <3>1. [rec[w] EXCEPT !.attempts = @ + 1] \in Record
      BY <1>1, <1>t, StoreAssumption DEF PrepareWorkspace, IInv, AttemptInv, ExecutionsInv, Record
    <3>2. QED
      BY <3>1, MoveFacts DEF Started, Statuses
  <2> HIDE DEF started
  <2>1. CASE /\ workspace' = [workspace EXCEPT ![t] = Exported(t)]
             /\ GoTo(w, "patch", Move(started, "RETRIEVING_CONTEXT"))
    BY <2>1, <1>g, <1>t DEF StageAt, Exported, DirTypeOK
  <2>2. CASE GoTo(w, "assert", Fail(started, "TASK_EXECUTION_FAILED"))
    BY <2>0, <2>2, <1>g, FailFacts DEF StageAt, Errors
  <2>3. QED
    BY <1>1, <2>1, <2>2 DEF PrepareWorkspace, started
<1>2. CASE GeneratePatch(w)
  <2> DEFINE generating == Move(rec[w], "GENERATING_PATCH")
  <2>0. generating \in Record /\ UNCHANGED workspace /\ pc[w] = "patch"
    BY <1>2, <1>t, MoveFacts, MoveEvidence DEF GeneratePatch, Statuses
  <2> HIDE DEF generating
  <2>1. CASE GoTo(w, "apply", Move(generating, "VALIDATING_PATCH"))
    BY <2>0, <2>1, <1>g DEF StageInv, StageAt
  <2>2. CASE GoTo(w, "assert", Fail(generating, "AGENT_GENERATION_FAILED"))
    BY <2>0, <2>2, <1>g, FailFacts DEF StageAt, Errors
  <2>3. QED
    BY <1>2, <2>1, <2>2 DEF GeneratePatch, generating
<1>3. CASE ReceivePatch(w)
  <2>0. UNCHANGED workspace /\ pc[w] = "patch"
    BY <1>3 DEF ReceivePatch, dirVars
  <2>1. CASE GoTo(w, "assert", Fail(rec[w], "PATCH_REQUIRED"))
    BY <2>1, <1>g, <1>t, FailFacts DEF StageAt, Errors
  <2>2. CASE GoTo(w, "apply", Move(Move(rec[w], "PATCH_RECEIVED"), "VALIDATING_PATCH"))
    BY <2>0, <2>2, <1>g DEF StageInv, StageAt
  <2>3. QED
    BY <1>3, <2>1, <2>2 DEF ReceivePatch
<1>4. CASE ApplyPatch(w)
  <2> DEFINE p == requested[t]
             applying == Move(rec[w], "APPLYING_PATCH")
  <2>0. /\ applying \in Record /\ pc[w] = "apply" /\ workspace[t] = {}
        /\ p \in Patches \cup {NoPatch} /\ patchDiff'[t] = p
    BY <1>4, <1>t, MoveFacts, MoveEvidence DEF ApplyPatch, Statuses, StageInv, StageAt, DirTypeOK
  <2> HIDE DEF applying, p
  <2>1. CASE /\ workspace' = [workspace EXCEPT ![t] = @ \cup {p}]
             /\ GoTo(w, "test", Move([applying EXCEPT !.patch = p], "RUNNING_TESTS"))
    <3>1. [applying EXCEPT !.patch = p] \in Record /\ [applying EXCEPT !.patch = p].patch = p
      BY <2>0 DEF Record
    <3>2. Move([applying EXCEPT !.patch = p], "RUNNING_TESTS").patch = p
      BY <3>1, MoveFacts, MoveEvidence DEF Statuses
    <3>3. workspace'[t] = {p}
      BY <1>t, <2>0, <2>1 DEF DirTypeOK
    <3>4. QED
      BY <2>0, <2>1, <3>2, <3>3, <1>g DEF StageAt
  <2>2. CASE GoTo(w, "assert", Fail([applying EXCEPT !.patch = NoPatch], "PATCH_APPLY_FAILED"))
    <3>1. [applying EXCEPT !.patch = NoPatch] \in Record
      BY <2>0 DEF Record
    <3>2. QED
      BY <2>2, <3>1, <1>g, FailFacts DEF StageAt, Errors
  <2>3. CASE GoTo(w, "assert", Fail(applying, "TASK_EXECUTION_FAILED"))
    BY <2>0, <2>3, <1>g, FailFacts DEF StageAt, Errors
  <2>4. QED
    BY <1>4, <2>1, <2>2, <2>3 DEF ApplyPatch, applying, p
<1>5. CASE RunTests(w)
  <2> DEFINE tested == [rec[w] EXCEPT !.tested = workspace[t]]
  <2>0. /\ tested \in Record /\ tested.tested = {tested.patch} /\ patchDiff[t] = tested.patch
        /\ UNCHANGED patchDiff
    <3>1. pc[w] = "test" /\ workspace[t] \in SUBSET Patches /\ UNCHANGED patchDiff
      BY <1>5, <1>t DEF RunTests, DirTypeOK, dirVars
    <3>2. workspace[t] = {rec[w].patch} /\ patchDiff[t] = rec[w].patch
      BY <3>1 DEF StageInv, StageAt
    <3>3. QED
      BY <1>t, <3>1, <3>2 DEF Record
  <2> HIDE DEF tested
  <2>1. CASE GoTo(w, "assert", Move(Move(tested, "REVIEWING"), "HANDOFF_READY"))
    <3> DEFINE moved == Move(Move(tested, "REVIEWING"), "HANDOFF_READY")
    <3>1. Move(tested, "REVIEWING") \in Record /\ Move(tested, "REVIEWING").patch = tested.patch
          /\ Move(tested, "REVIEWING").tested = tested.tested
      BY <2>0, MoveFacts, MoveEvidence DEF Statuses
    <3>2. /\ moved.status \in {"HANDOFF_READY", "FAILED"}
          /\ moved.patch = tested.patch /\ moved.tested = tested.tested
      BY <3>1, MoveFacts, MoveEvidence DEF Statuses
    <3> HIDE DEF moved
    <3>3. pc'[w] = "assert" /\ rec'[w] = moved /\ task'[w] = t
      BY <2>1, <1>g DEF moved
    <3>4. QED
      BY <2>0, <3>2, <3>3 DEF StageAt
  <2>2. CASE GoTo(w, "assert", Fail(tested, "TEST_FAILED"))
    BY <2>0, <2>2, <1>g, FailFacts DEF StageAt, Errors
  <2>3. CASE \E r \in {rec[w], tested} : GoTo(w, "assert", Fail(r, "TASK_EXECUTION_FAILED"))
    BY <2>0, <2>3, <1>t, <1>g, FailFacts DEF StageAt, Errors
  <2>4. QED
    BY <1>5, <2>1, <2>2, <2>3 DEF RunTests, tested
<1>6. CASE AssertClaim(w) \/ RejectStaleResult(w)
  <2>1. /\ pc'[w] = "release" \/ (pc[w] = "assert" /\ pc'[w] = "report")
        /\ rec'[w] = rec[w] /\ task'[w] = task[w] /\ UNCHANGED patchDiff
    BY <1>6, <1>g DEF AssertClaim, RejectStaleResult, dirVars
  <2>2. QED
    BY <2>1 DEF StageInv, StageAt
<1>7. CASE WriteReports(w)
  <2>1. /\ pc[w] = "report" /\ pc'[w] = "save" /\ UNCHANGED patchDiff
        /\ rec'[w] = rec[w] /\ task'[w] = t /\ held'[w] = held[w]
    BY <1>7, <1>g DEF WriteReports
  <2>2. report'[t] = held[w]
    BY <1>7, <1>t DEF WriteReports, DirTypeOK
  <2>3. QED
    BY <2>1, <2>2 DEF StageInv, StageAt
<1>8. QED
  BY <1>1, <1>2, <1>3, <1>4, <1>5, <1>6, <1>7
\* A save of a record of task t: no execution of t is left, and no request
\* waits to save t.
LEMMA Save ==
  ASSUME IInv, SerialInv, NEW t \in Tasks,
         \A u \in Tasks \ {t} : disk'[u] = disk[u] /\ results'[u] = results[u],
         UNCHANGED evidence,
         \A w \in Workers :
           \/ pc'[w] \in {"release"} \cup (WorkerPCs \ Executing)
           \/ /\ pc'[w] = pc[w] /\ task'[w] = task[w] /\ rec'[w] = rec[w] /\ held'[w] = held[w]
              /\ pc[w] \in Executing \ {"release"} => task[w] # t,
         \A c \in Controllers :
           \/ cpc'[c] \notin {"write", "save"}
           \/ /\ cpc'[c] = cpc[c] /\ ctask'[c] = ctask[c] /\ crec'[c] = crec[c]
              /\ ctask[c] # t,
         disk'[t].status \in {"HANDOFF_READY", "APPROVED"} =>
           /\ disk'[t].tested = {disk'[t].patch}
           /\ patchDiff[t] = disk'[t].patch
           /\ report[t] = results'[t][Len(results'[t])]
  PROVE  SerialInv'
<1> USE DEF IInv, TypeOK, SerialInv, evidence
<1>1. WaitsQueued'
  BY DEF WaitsQueued, Claimed, WorkerTypeOK
<1>2. StageInv'
  BY DEF StageInv, StageAt, Executing
<1>3. DecisionInv'
  BY DEF DecisionInv, ControlTypeOK
<1>4. HandoffIsEvidence'
  BY DEF HandoffIsEvidence
<1>5. QED
  BY <1>1, <1>2, <1>3, <1>4

\* Nobody decides on a task while it is executed.
LEMMA NoDecision ==
  ASSUME IInv, LeaseInv, SerialInv, NEW w \in Workers, pc[w] \in Executing \ {"release"},
         NEW c \in Controllers, cpc[c] \in {"write", "save"}
  PROVE  ctask[c] # task[w]
<1>1. CASE Unclaimed(w)
  BY <1>1 DEF IInv, FenceInv, RunNowAlone
<1>2. CASE Claimed(w)
  <2>1. disk[task[w]].status = "QUEUED"
    BY <1>2 DEF SerialInv, WaitsQueued
  <2>2. crec[c].status \notin Lifecycle["QUEUED"]
    BY DEF IInv, AttemptInv, RequestsInv, Lifecycle, Statuses
  <2>3. QED
    BY <2>1, <2>2 DEF SerialInv, DecisionInv
<1>3. QED
  BY <1>1, <1>2 DEF Unclaimed, Claimed

\* A saved result comes with its evidence.
LEMMA ResultStep ==
  ASSUME IInv, TypeOK', LeaseInv, SerialInv, NEW w \in Workers, SaveResult(w) \/ SaveRunNow(w)
  PROVE  SerialInv' /\ disk'[task[w]].status \in Lifecycle[disk[task[w]].status]
<1> USE DEF IInv, TypeOK, SerialInv
<1> DEFINE t == task[w]
<1>t. t \in Tasks /\ rec[w] \in Record /\ results[t] \in Seq(Nat) /\ held[w] \in Nat
  BY DEF WorkerTypeOK, HistoryTypeOK
<1>1. pc[w] = "save" /\ UNCHANGED <<evidence, controlVars>>
  BY DEF SaveResult, SaveRunNow, dirVars, evidence
<1>2. /\ disk'[t].status = rec[w].status /\ disk'[t].tested = rec[w].tested
      /\ disk'[t].patch = rec[w].patch
      /\ \A u \in Tasks \ {t} : disk'[u] = disk[u]
  BY <1>t DEF SaveResult, SaveClaimed, SaveRunNow, SaveUnclaimed, StoreTypeOK, Record
<1>3. results' = [results EXCEPT ![t] = Append(@, held[w])]
  BY DEF SaveResult, SaveRunNow
<1>4. results'[t][Len(results'[t])] = held[w]
  <2>1. results'[t] = Append(results[t], held[w])
    BY <1>t, <1>3 DEF HistoryTypeOK
  <2>2. QED
    BY <1>t, <2>1
<1>5. /\ rec[w].status \in {"FAILED", "HANDOFF_READY"}
      /\ rec[w].status = "HANDOFF_READY" => rec[w].tested = {rec[w].patch} /\ patchDiff[t] = rec[w].patch
      /\ report[t] = held[w]
  BY <1>1 DEF StageInv, StageAt
<1>6. \A v \in Workers \ {w} :
        /\ pc'[v] = pc[v] /\ task'[v] = task[v] /\ rec'[v] = rec[v] /\ held'[v] = held[v]
        /\ pc[v] \in Executing => task[v] # t
  BY <1>1, LeasesExclude DEF SaveResult, SaveRunNow, Idle, WorkerTypeOK, OneExecutor, Executing
<1>7. pc'[w] \in {"release", "idle"}
  BY DEF SaveResult, SaveRunNow, Idle, WorkerTypeOK
<1>8. \A c \in Controllers : cpc[c] \in {"write", "save"} => ctask[c] # t
  BY <1>1, NoDecision DEF Executing
<1>9. SerialInv'
  <2>1. \A u \in Tasks \ {t} : results'[u] = results[u]
    BY <1>3 DEF HistoryTypeOK
  <2>2. {"release", "idle"} \subseteq {"release"} \cup (WorkerPCs \ Executing)
    BY DEF WorkerPCs, Executing
  <2> HIDE DEF IInv, TypeOK, SerialInv
  <2>3. QED
    BY <1>t, <1>1, <1>2, <1>4, <1>5, <1>6, <1>7, <1>8, <2>1, <2>2, Save DEF controlVars
<1>10. disk[t].status \in {"QUEUED", "CREATED"}
  BY <1>1 DEF WaitsQueued, Claimed, FenceInv, RunNowAlone, Unclaimed, Exists, Executing
<1>11. disk'[t].status \in Lifecycle[disk[t].status]
  BY <1>2, <1>5, <1>10 DEF Lifecycle, Statuses
<1>12. QED
  BY <1>9, <1>11

\* A request that saves decided on the record that is still there.
LEMMA DecisionStep ==
  ASSUME OneRequest, IInv, TypeOK', LeaseInv, SerialInv, NEW c \in Controllers, SaveEdit(c)
  PROVE  SerialInv' /\ disk'[ctask[c]].status \in Lifecycle[disk[ctask[c]].status]
<1> USE DEF IInv, TypeOK, SerialInv
<1> DEFINE t == ctask[c]
<1>t. t \in Tasks /\ crec[c] \in Record /\ cpc[c] = "save"
  BY DEF ControlTypeOK, SaveEdit
<1>1. /\ disk'[t].status = crec[c].status /\ disk'[t].tested = crec[c].tested
      /\ disk'[t].patch = crec[c].patch
      /\ \A u \in Tasks \ {t} : disk'[u] = disk[u]
  BY <1>t DEF SaveEdit, SaveUnclaimed, StoreTypeOK, Record
<1>2. UNCHANGED <<evidence, results, pc, task, rec, held>>
  BY DEF SaveEdit, dirVars, evidence, workerVars, history
<1>3. cpc'[c] \in {"idle", "enqueue"}
  BY DEF SaveEdit, Continue, Proceed, Answer, ControlTypeOK
<1>4. disk'[t].status \in Lifecycle[disk[t].status]
  BY <1>t, <1>1 DEF DecisionInv
<1>5. disk'[t].status \in {"HANDOFF_READY", "APPROVED"} =>
        /\ disk[t].status = "HANDOFF_READY"
        /\ disk'[t].tested = disk[t].tested /\ disk'[t].patch = disk[t].patch
  <2>1. crec[c].status \in {"QUEUED", "APPROVED", "CHANGES_REQUESTED"}
    BY <1>t DEF AttemptInv, RequestsInv
  <2>2. disk[t].status \in Statuses
    BY <1>t DEF StoreTypeOK, Record
  <2>3. crec[c].status = "APPROVED" => disk[t].status = "HANDOFF_READY"
    BY <1>1, <1>4, <2>2 DEF Lifecycle, Statuses
  <2>4. QED
    BY <1>t, <1>1, <2>1, <2>3 DEF DecisionInv
<1>6. disk'[t].status \in {"HANDOFF_READY", "APPROVED"} =>
        /\ disk'[t].tested = {disk'[t].patch} /\ patchDiff[t] = disk'[t].patch
        /\ report[t] = results'[t][Len(results'[t])]
  BY <1>t, <1>2, <1>5 DEF HandoffIsEvidence
<1>7. \A w \in Workers : pc[w] \in Executing \ {"release"} => task[w] # t
  BY <1>t, NoDecision
<1>8. \A d \in Controllers : cpc'[d] \notin {"write", "save"}
  BY <1>3 DEF OneRequest
<1> HIDE DEF IInv, TypeOK, SerialInv
<1>9. SerialInv'
  BY <1>t, <1>1, <1>2, <1>6, <1>7, <1>8, Save
<1>10. QED
  BY <1>4, <1>9
LEMMA ClaimIdWritten ==
  ASSUME StoreTypeOK, NEW t \in Tasks, NEW id \in Nat,
         disk' = disk \/ disk' = [disk EXCEPT ![t].claimId = id]
  PROVE  SameRecords
<1> SUFFICES ASSUME NEW u \in Tasks
             PROVE  /\ disk'[u].status = disk[u].status
                    /\ disk'[u].tested = disk[u].tested
                    /\ disk'[u].patch = disk[u].patch
  BY DEF SameRecords
<1>1. disk'[u] \in {disk[u], [disk[u] EXCEPT !.claimId = id]}
  BY DEF StoreTypeOK
<1>2. disk[u] \in Record
  BY DEF StoreTypeOK
<1>3. QED
  BY <1>1, <1>2 DEF Record

\* The workers' steps.  Only a save changes what records say.
LEMMA WorkerSerialStep ==
  ASSUME IInv, TypeOK', LeaseInv, SerialInv, NEW w \in Workers, WorkerStep(w)
  PROVE  SerialInv' /\ (SameRecords \/ SaveResult(w) \/ SaveRunNow(w))
<1>t. /\ task[w] \in Tasks /\ StoreTypeOK /\ WorkerTypeOK
      /\ DirTypeOK /\ DirTypeOK'
  BY DEF IInv, TypeOK, WorkerTypeOK
<1>1. CASE PrepareWorkspace(w) \/ GeneratePatch(w) \/ ReceivePatch(w) \/ ApplyPatch(w)
           \/ RunTests(w) \/ AssertClaim(w) \/ WriteReports(w) \/ RejectStaleResult(w)
  <2>1. StageAt(w)'
    BY <1>1, StageFacts DEF SerialInv
  <2>2. \E label \in Executing : GoTo(w, label, rec'[w])
    BY <1>1, <1>t DEF PrepareWorkspace, GeneratePatch, ReceivePatch, ApplyPatch, RunTests, AssertClaim,
                WriteReports, RejectStaleResult, Executing, GoTo, WorkerTypeOK
  <2>3. pc[w] \in Executing \ {"release"}
    BY <1>1 DEF PrepareWorkspace, GeneratePatch, ReceivePatch, ApplyPatch, RunTests, AssertClaim,
                WriteReports, RejectStaleResult, Executing
  <2>4. \A t \in Tasks \ {task[w]} :
          workspace'[t] = workspace[t] /\ patchDiff'[t] = patchDiff[t] /\ report'[t] = report[t]
    BY <1>1, <1>t DEF PrepareWorkspace, GeneratePatch, ReceivePatch, ApplyPatch, RunTests, AssertClaim,
                WriteReports, RejectStaleResult, dirVars, DirTypeOK
  <2>5. SerialInv'
    BY <2>1, <2>2, <2>3, <2>4, Stage
  <2>6. SameRecords
    BY <2>2 DEF GoTo, storeVars, SameRecords
  <2>7. QED
    BY <2>5, <2>6
<1>2. CASE SaveResult(w) \/ SaveRunNow(w)
  BY <1>2, ResultStep
<1>3. CASE ReadQueue(w) \/ ScanItem(w) \/ PassOver(w)
  <2>1. SameRecords /\ UNCHANGED <<evidence, results, controlVars>>
    BY <1>3 DEF ReadQueue, ScanItem, PassOver, storeVars, dirVars, evidence, history, SameRecords
  <2>2. \A v \in Workers : Steady(v)
    BY <1>3, <1>t DEF ReadQueue, ScanItem, PassOver, NextItem, Idle, Steady, Executing, WorkerTypeOK
  <2>3. QED
    BY <2>1, <2>2, Quiet
<1>4. CASE ClaimTask(w)
  <2>1. SameRecords /\ disk[task[w]].status = "QUEUED"
    BY <1>4, <1>t DEF ClaimTask, GrantClaim, Claimable, SameRecords, StoreTypeOK, Record
  <2>2. UNCHANGED <<evidence, results, controlVars>>
    BY <1>4 DEF ClaimTask, dirVars, evidence
  <2>3. \A v \in Workers : Steady(v)
    BY <1>4, <1>t, <2>1 DEF ClaimTask, Steady, SameRecords, WorkerTypeOK
  <2>4. QED
    BY <2>1, <2>2, <2>3, Quiet
<1>5. CASE Release(w)
  <2>1. disk' = disk \/ disk' = [disk EXCEPT ![task[w]].claimId = 0]
    BY <1>5 DEF Release, ReleaseClaim, storeVars
  <2>r. SameRecords
    BY <1>t, <2>1, ClaimIdWritten
  <2>2. UNCHANGED <<evidence, results, controlVars>>
    BY <1>5 DEF Release, dirVars, evidence, history
  <2>3. \A v \in Workers : Steady(v)
    BY <1>5, <1>t DEF Release, Idle, Steady, Executing, WorkerTypeOK
  <2>4. QED
    BY <2>r, <2>2, <2>3, Quiet
<1>6. QED
  BY <1>1, <1>2, <1>3, <1>4, <1>5 DEF WorkerStep

\* An execution that ends in an exception leaves at most a report, of a task
\* that is neither ready for review nor in other hands.
LEMMA AbandonSerialStep ==
  ASSUME IInv, TypeOK', LeaseInv, SerialInv, NEW w \in Workers, Abandon(w)
  PROVE  SerialInv' /\ SameRecords
<1> USE DEF IInv, TypeOK, SerialInv
<1>1. /\ UNCHANGED <<disk, workspace, patchDiff, results, cpc, ctask, crec>>
      /\ pc[w] \in Executing \ {"release"}
      /\ pc'[w] \in {"idle", "release"}
      /\ \A v \in Workers \ {w} :
           pc'[v] = pc[v] /\ rec'[v] = rec[v] /\ task'[v] = task[v] /\ held'[v] = held[v]
      /\ \A t \in Tasks \ {task[w]} : report'[t] = report[t]
      /\ \A v \in Workers : task[v] \in Tasks
  BY DEF Abandon, Idle, storeVars, controlVars, history, Executing, WorkerTypeOK, DirTypeOK
<1>2. WaitsQueued'
  BY <1>1 DEF WaitsQueued, Claimed, Executing
<1>3. \A v \in Workers \ {w} : pc[v] \in Executing => task[v] # task[w]
  BY <1>1, LeasesExclude DEF OneExecutor
<1>4. StageInv'
  BY <1>1, <1>3 DEF StageInv, StageAt, Executing
<1>5. DecisionInv'
  BY <1>1 DEF DecisionInv
<1>6. disk[task[w]].status \in {"QUEUED", "CREATED"}
  BY <1>1 DEF WaitsQueued, Claimed, FenceInv, RunNowAlone, Unclaimed, Exists
<1>7. HandoffIsEvidence'
  BY <1>1, <1>6 DEF HandoffIsEvidence
<1>8. QED
  BY <1>1, <1>2, <1>4, <1>5, <1>7 DEF SameRecords

\* A run_task_now, heartbeats, crashes and the end of a lease.
LEMMA EventSerialStep ==
  ASSUME IInv, TypeOK', LeaseInv, SerialInv,
         \/ \E w \in Workers :
              \/ \E t \in Tasks, m \in Modes, p \in Patches \cup {NoPatch} : RunNow(w, t, m, p)
              \/ Heartbeat(w) \/ HeartbeatError(w) \/ WorkerCrash(w)
         \/ \E t \in Tasks : LeaseExpires(t) \/ LateHeartbeat(t)
  PROVE  SerialInv' /\ SameRecords
<1>t. /\ \A w \in Workers : task[w] \in Tasks
      /\ StoreTypeOK /\ WorkerTypeOK
  BY DEF IInv, TypeOK, WorkerTypeOK
<1>1. SameRecords
  <2>1. ASSUME NEW w \in Workers, Heartbeat(w) \/ WorkerCrash(w)
        PROVE  \E id \in Nat : disk' = disk \/ disk' = [disk EXCEPT ![task[w]].claimId = id]
    <3>1. held[w] \in Nat /\ 0 \in Nat
      BY <1>t DEF WorkerTypeOK
    <3>2. CASE Heartbeat(w)
      BY <3>1, <3>2 DEF Heartbeat, RenewClaim, storeVars
    <3>3. CASE WorkerCrash(w)
      BY <3>1, <3>3 DEF WorkerCrash, TearClaim, TearUnlink, TearRelease, storeVars
    <3>4. QED
      BY <2>1, <3>2, <3>3
  <2>2. \/ disk' = disk
        \/ \E w \in Workers : Heartbeat(w) \/ WorkerCrash(w)
    BY DEF RunNow, HeartbeatError, LeaseExpires, LateHeartbeat, Expire, storeVars
  <2>3. disk' = disk => SameRecords
    BY DEF SameRecords
  <2>4. QED
    BY <1>t, <2>1, <2>2, <2>3, ClaimIdWritten
<1>2. UNCHANGED <<evidence, results, controlVars>>
  BY DEF RunNow, Heartbeat, HeartbeatError, WorkerCrash, LeaseExpires, LateHeartbeat, dirVars,
         evidence, history
<1>3. \A v \in Workers : Steady(v)
  <2>1. ASSUME NEW w \in Workers,
               \E t \in Tasks, m \in Modes, p \in Patches \cup {NoPatch} : RunNow(w, t, m, p)
        PROVE  \A v \in Workers : Steady(v)
    <3>1. held'[w] = 0 /\ pc'[w] = "prepare"
      BY <2>1, <1>t DEF RunNow, IInv, FenceInv, HeldInv, Executing, WorkerTypeOK
    <3>2. \A v \in Workers \ {w} :
            pc'[v] = pc[v] /\ task'[v] = task[v] /\ rec'[v] = rec[v] /\ held'[v] = held[v]
      BY <2>1, <1>t DEF RunNow, WorkerTypeOK
    <3>3. QED
      BY <3>1, <3>2 DEF Steady
  <2>2. ASSUME NEW w \in Workers, Heartbeat(w) \/ HeartbeatError(w) \/ WorkerCrash(w)
        PROVE  \A v \in Workers : Steady(v)
    BY <2>2, <1>t DEF Heartbeat, HeartbeatError, WorkerCrash, Idle, Steady, Executing, WorkerTypeOK
  <2>3. ASSUME NEW t \in Tasks, LeaseExpires(t) \/ LateHeartbeat(t)
        PROVE  \A v \in Workers : Steady(v)
    BY <2>3 DEF LeaseExpires, LateHeartbeat, workerVars, Steady
  <2>4. QED
    BY <2>1, <2>2, <2>3
<1>4. QED
  BY <1>1, <1>2, <1>3, Quiet

\* The requests.
LEMMA ControllerSerialStep ==
  ASSUME OneRequest, IInv, TypeOK', LeaseInv, SerialInv, NEW c \in Controllers,
         Request(c) \/ ControllerStep(c) \/ ControllerCrash(c)
  PROVE  SerialInv' /\ (SameRecords \/ SaveEdit(c))
<1>1. CASE SaveEdit(c)
  BY <1>1, DecisionStep
<1>2. CASE ~SaveEdit(c)
  <2>1. UNCHANGED <<disk, evidence, results, pc, task, rec, held>>
    BY <1>2 DEF Request, CreateTask, RetryTask, ResubmitPatch, ReviewTask, Edit, ControllerStep,
                ControllerCrash, WriteRequestedPatch, WriteReviewDoc, RefuseEdit, EnqueueTask,
                Enqueue, TearUnlink, storeVars, dirVars, evidence, workerVars, history
  <2>2. WaitsQueued' /\ StageInv' /\ HandoffIsEvidence' /\ SameRecords
    BY <2>1 DEF SerialInv, WaitsQueued, Claimed, StageInv, StageAt, HandoffIsEvidence, evidence,
                SameRecords
  <2>3. \A d \in Controllers : d = c
    BY DEF OneRequest
  <2>4. CASE Request(c)
    <3>1. PICK t \in Tasks :
            \/ \E m \in Modes, p \in Patches \cup {NoPatch} : CreateTask(c, t, m, p)
            \/ RetryTask(c, t)
            \/ ResubmitPatch(c, t)
            \/ \E decision \in {"APPROVED", "CHANGES_REQUESTED"} : ReviewTask(c, t, decision)
      BY <2>4 DEF Request
    <3>t. disk[t] \in Record /\ ControlTypeOK
      BY DEF IInv, TypeOK, StoreTypeOK
    <3>2. CASE \E m \in Modes, p \in Patches \cup {NoPatch} : CreateTask(c, t, m, p)
      <4>1. disk[t].status = "CREATED" /\ ctask'[c] = t /\ crec'[c].status = "QUEUED"
        BY <3>2, <3>t DEF CreateTask, Fresh, Exists, Edit, NewTask, ControlTypeOK
      <4>2. QED
        BY <2>1, <2>2, <2>3, <4>1 DEF SerialInv, DecisionInv, Lifecycle, Statuses
    <3>3. CASE RetryTask(c, t)
      <4>1. disk[t].status = "FAILED" /\ ctask'[c] = t /\ crec'[c].status = "QUEUED"
        BY <3>3, <3>t DEF RetryTask, Edit, Record, ControlTypeOK
      <4>2. QED
        BY <2>1, <2>2, <2>3, <4>1 DEF SerialInv, DecisionInv, Lifecycle, Statuses
    <3>4. CASE ResubmitPatch(c, t)
      <4>1. /\ disk[t].status \in {"CHANGES_REQUESTED", "FAILED"}
            /\ ctask'[c] = t /\ crec'[c].status = "QUEUED"
        BY <3>4, <3>t DEF ResubmitPatch, Edit, Record, ControlTypeOK
      <4>2. QED
        BY <2>1, <2>2, <2>3, <4>1 DEF SerialInv, DecisionInv, Lifecycle, Statuses
    <3>5. CASE \E decision \in {"APPROVED", "CHANGES_REQUESTED"} : ReviewTask(c, t, decision)
      <4>1. /\ disk[t].status = "HANDOFF_READY" /\ ctask'[c] = t
            /\ crec'[c].status \in {"APPROVED", "CHANGES_REQUESTED"}
            /\ crec'[c].tested = disk[t].tested /\ crec'[c].patch = disk[t].patch
        BY <3>5, <3>t DEF ReviewTask, Edit, Record, ControlTypeOK
      <4>2. QED
        BY <2>1, <2>2, <2>3, <4>1 DEF SerialInv, DecisionInv, Lifecycle, Statuses
    <3>6. QED
      BY <3>1, <3>2, <3>3, <3>4, <3>5
  <2>5. CASE ControllerStep(c) \/ ControllerCrash(c)
    <3>1. \/ cpc'[c] = "idle"
          \/ cpc[c] = "write" /\ cpc'[c] = "save" /\ UNCHANGED <<ctask, crec>>
      BY <1>2, <2>5 DEF ControllerStep, ControllerCrash, WriteRequestedPatch, WriteReviewDoc,
                        RefuseEdit, EnqueueTask, Proceed, Answer, IInv, TypeOK, ControlTypeOK
    <3>2. QED
      BY <2>1, <2>2, <2>3, <3>1 DEF SerialInv, DecisionInv
  <2>6. QED
    BY <2>4, <2>5
<1>3. QED
  BY <1>1, <1>2

\* Every step, and what it does to the statuses on the disk.
LEMMA SerialStep ==
  ASSUME OneRequest, IInv, TypeOK', LeaseInv, SerialInv, [Next]_vars
  PROVE  /\ SerialInv'
         /\ \A t \in Tasks : disk'[t].status \in {disk[t].status} \cup Lifecycle[disk[t].status]
<1>t. StoreTypeOK /\ (\A w \in Workers : task[w] \in Tasks) /\ (\A c \in Controllers : ctask[c] \in Tasks)
  BY DEF IInv, TypeOK, WorkerTypeOK, ControlTypeOK
<1>1. CASE UNCHANGED vars
  <2>1. SameRecords /\ UNCHANGED <<evidence, results, controlVars>> /\ \A w \in Workers : Steady(w)
    BY <1>1 DEF vars, storeVars, dirVars, workerVars, history, evidence, SameRecords, Steady
  <2>2. QED
    BY <2>1, Quiet DEF SameRecords
<1>2. ASSUME NEW w \in Workers, WorkerStep(w)
      PROVE  /\ SerialInv'
             /\ \A t \in Tasks : disk'[t].status \in {disk[t].status} \cup Lifecycle[disk[t].status]
  <2>1. CASE SameRecords
    BY <1>2, <2>1, WorkerSerialStep DEF SameRecords
  <2>2. CASE SaveResult(w) \/ SaveRunNow(w)
    <3>1. \A t \in Tasks \ {task[w]} : disk'[t] = disk[t]
      BY <1>t, <2>2 DEF SaveResult, SaveClaimed, SaveRunNow, SaveUnclaimed, StoreTypeOK
    <3>2. QED
      BY <2>2, <3>1, ResultStep
  <2>3. QED
    BY <1>2, <2>1, <2>2, WorkerSerialStep
<1>3. ASSUME NEW c \in Controllers, Request(c) \/ ControllerStep(c) \/ ControllerCrash(c)
      PROVE  /\ SerialInv'
             /\ \A t \in Tasks : disk'[t].status \in {disk[t].status} \cup Lifecycle[disk[t].status]
  <2>1. CASE SameRecords
    BY <1>3, <2>1, ControllerSerialStep DEF SameRecords
  <2>2. CASE SaveEdit(c)
    <3>1. \A t \in Tasks \ {ctask[c]} : disk'[t] = disk[t]
      BY <1>t, <2>2 DEF SaveEdit, SaveUnclaimed, StoreTypeOK
    <3>2. QED
      BY <2>2, <3>1, DecisionStep
  <2>3. QED
    BY <1>3, <2>1, <2>2, ControllerSerialStep
<1>4. CASE \/ \E w \in Workers :
                \/ \E t \in Tasks, m \in Modes, p \in Patches \cup {NoPatch} : RunNow(w, t, m, p)
                \/ Abandon(w) \/ Heartbeat(w) \/ Abandon(w) \/ HeartbeatError(w) \/ WorkerCrash(w)
           \/ \E t \in Tasks : LeaseExpires(t) \/ LateHeartbeat(t)
  BY <1>4, EventSerialStep, AbandonSerialStep DEF SameRecords
<1>5. QED
  BY <1>1, <1>2, <1>3, <1>4 DEF Next

LEMMA InitSerial == Init => SerialInv
<1> SUFFICES ASSUME Init PROVE SerialInv
  OBVIOUS
<1>1. \A t \in Tasks : disk[t].status = "CREATED"
  BY DEF Init, StoreInit, NewTask
<1>2. WaitsQueued /\ StageInv /\ DecisionInv
  BY DEF Init, WaitsQueued, Claimed, StageInv, StageAt, DecisionInv, Executing
<1>3. HandoffIsEvidence
  BY <1>1 DEF HandoffIsEvidence
<1>4. QED
  BY <1>2, <1>3 DEF SerialInv

LEMMA SerialInvariance == HeartbeatsInTime /\ OneRequest => (Spec => []SerialInv)
<1> SUFFICES ASSUME HeartbeatsInTime, OneRequest PROVE Spec => []SerialInv
  OBVIOUS
<1>1. Spec => []LeaseInv
  BY LeasesAreKept
<1>2. IInv /\ IInv' /\ LeaseInv /\ SerialInv /\ [Next]_vars => SerialInv'
  BY SerialStep DEF IInv
<1>3. QED
  BY <1>1, <1>2, InitSerial, Invariance, PTL DEF Spec

-----------------------------------------------------------------------------
(* The theorems *)

\* A task that is ready for review or approved has evidence for its own diff:
\* tests that ran on exactly that diff, the patch.diff that the handoff script
\* applies, and the report of the execution whose result was taken; whatever
\* crashes, if heartbeats come in time and requests one at a time
\* (execute_task, save_task, review_task).
THEOREM EvidenceStands == HeartbeatsInTime /\ OneRequest => (Spec => []HandoffIsEvidence)
<1>1. SerialInv => HandoffIsEvidence
  BY DEF SerialInv
<1>2. QED
  BY <1>1, SerialInvariance, PTL

\* task.json shows only steps in the life of a task, under the same conditions:
\* nothing overwrites an approval or a result with what was decided on an older
\* record (save_task).
THEOREM LifecycleFollowed == HeartbeatsInTime /\ OneRequest => (Spec => StatusFollowsLifecycle)
<1> SUFFICES ASSUME HeartbeatsInTime, OneRequest PROVE Spec => StatusFollowsLifecycle
  OBVIOUS
<1>1. Spec => []LeaseInv /\ []SerialInv
  BY LeasesAreKept, SerialInvariance, PTL
<1>2. IInv /\ IInv' /\ LeaseInv /\ SerialInv /\ [Next]_vars =>
        [\A t \in Tasks :
           disk'[t].status \in {disk[t].status} \cup Lifecycle[disk[t].status]]_disk
  BY SerialStep DEF IInv
<1>3. QED
  BY <1>1, <1>2, Invariance, PTL DEF Spec, StatusFollowsLifecycle
=============================================================================
