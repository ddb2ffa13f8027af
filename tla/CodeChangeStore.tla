--------------------------- MODULE CodeChangeStore ---------------------------
(***************************************************************************)
(* The file store of the code-change platform (code_change/store.py): one  *)
(* task.json and one .claim.json per task and the append-only log          *)
(* task_queue.jsonl.  Every operation below that the code runs under the   *)
(* flock of _task_claim_lock is one atomic step of its caller; get_task    *)
(* and queued_items take no lock, so a caller that reads first and writes  *)
(* later does so in two steps.                                             *)
(*                                                                         *)
(* Time is abstract.  What the code asks of a lease is only whether        *)
(* expires_at is past: claim[t].live.  A renewal before that moves         *)
(* expires_at on and leaves the lease live; Expire(t) is the moment it     *)
(* passes.                                                                 *)
(***************************************************************************)
EXTENDS TaskStates, Sequences

CONSTANTS Tasks,        \* task ids, each the name of an artifact directory
          Workers,      \* worker processes (run_next_task, run_task_now)
          NoWorker,     \* the owner of no claim
          Patches,      \* contents of a unified diff
          NoPatch,      \* no diff, or one that was not applied
          MaxAttempts,  \* Task.max_attempts
          MaxClaims     \* bound: claims ever granted

ASSUME StoreAssumption ==
  /\ Tasks # {}
  /\ NoWorker \notin Workers
  /\ NoPatch \notin Patches
  /\ MaxAttempts \in Nat \ {0}
  /\ MaxClaims \in Nat

VARIABLES disk,       \* task.json of each task
          claim,      \* .claim.json of each task
          queueLog,   \* task_queue.jsonl
          lastClaim   \* the claim ids handed out so far are 1..lastClaim

storeVars == <<disk, claim, queueLog, lastClaim>>

Modes == {"external", "agent"}

\* error_code: only PATCH_REQUIRED is ever looked at again.
Errors == {"none", "PATCH_REQUIRED", "AGENT_GENERATION_FAILED", "PATCH_APPLY_FAILED",
           "TEST_FAILED", "TASK_EXECUTION_FAILED"}

\* A Task.  claimId 0 is the empty claim_id; patch is the diff patch_result
\* reports as applied; tested is the set of diffs the workspace held when
\* test_result was obtained.
Record == [status : Statuses, error : Errors, attempts : 0..MaxAttempts, mode : Modes,
           claimId : Nat, patch : Patches \cup {NoPatch}, tested : SUBSET Patches]

\* A claim file; id 0 stands for no file.
Claim == [id : Nat, worker : Workers \cup {NoWorker}, live : BOOLEAN]

NoClaim == [id |-> 0, worker |-> NoWorker, live |-> FALSE]

NewTask(m) ==
  [status |-> "CREATED", error |-> "none", attempts |-> 0, mode |-> m,
   claimId |-> 0, patch |-> NoPatch, tested |-> {}]

\* create_task does not write task.json before the task is QUEUED, so CREATED
\* on the disk stands for a file that does not exist.
Exists(t) == disk[t].status # "CREATED"

StoreInit ==
  /\ disk = [t \in Tasks |-> NewTask("external")]
  /\ claim = [t \in Tasks |-> NoClaim]
  /\ queueLog = <<>>
  /\ lastClaim = 0

StoreTypeOK ==
  /\ disk \in [Tasks -> Record]
  /\ claim \in [Tasks -> Claim]
  /\ queueLog \in Seq(Tasks)
  /\ lastClaim \in Nat

\* Mutant of HoldsLease: whose claim it is goes unchecked.
HoldsLeaseOfAnyone(t, w, id) == claim[t].live

\* _validate_claim, with and without require_unexpired.
OwnsClaim(t, w, id) == claim[t].id # 0 /\ claim[t].worker = w /\ claim[t].id = id
HoldsLease(t, w, id) == OwnsClaim(t, w, id) /\ claim[t].live

\* Mutants of Claimable: the lease is not looked at; an expired claim is not
\* recovered.
ClaimableIgnoringLease(t) == disk[t].status = "QUEUED"
ClaimableUnexpired(t) == disk[t].status = "QUEUED" /\ claim[t].id = 0

\* _claim_task_file: the re-read under the lock must find the task QUEUED and
\* without a live claim; the claim file and task.json are then written.
Claimable(t) == disk[t].status = "QUEUED" /\ ~claim[t].live

NextClaim == lastClaim + 1

GrantClaim(t, w) ==
  /\ Claimable(t)
  /\ lastClaim < MaxClaims
  /\ lastClaim' = NextClaim
  /\ claim' = [claim EXCEPT ![t] = [id |-> NextClaim, worker |-> w, live |-> TRUE]]
  /\ disk' = [disk EXCEPT ![t].claimId = NextClaim]
  /\ UNCHANGED queueLog

\* A process that dies inside _claim_task_file leaves the claim file without
\* the record; a torn file reads as {} and counts as expired.
TearClaim(t, w) ==
  /\ Claimable(t)
  /\ lastClaim < MaxClaims
  /\ lastClaim' = NextClaim
  /\ \E readable \in BOOLEAN :
       claim' = [claim EXCEPT ![t] = [id |-> NextClaim, worker |-> w, live |-> readable]]
  /\ UNCHANGED <<disk, queueLog>>

\* ... or died before: the expired claim is unlinked and nothing is written
\* yet.  save_task without a claim can be interrupted in the same way.
TearUnlink(t) ==
  /\ ~claim[t].live
  /\ claim' = [claim EXCEPT ![t] = NoClaim]
  /\ UNCHANGED <<disk, queueLog, lastClaim>>

\* renew_task_claim of a valid claim: the claim file is rewritten with a later
\* expires_at, and the record read under the lock gets the claim fields again.
RenewClaim(t, w, id) ==
  /\ HoldsLease(t, w, id)
  /\ claim' = [claim EXCEPT ![t] = [id |-> id, worker |-> w, live |-> TRUE]]
  /\ disk' = [disk EXCEPT ![t].claimId = id]
  /\ UNCHANGED <<queueLog, lastClaim>>

\* expires_at passes.
Expire(t) ==
  /\ claim[t].live
  /\ claim' = [claim EXCEPT ![t].live = FALSE]
  /\ UNCHANGED <<disk, queueLog, lastClaim>>

\* save_task with an expected_claim_id.
SaveClaimed(t, r, w, id) ==
  /\ HoldsLease(t, w, id)
  /\ disk' = [disk EXCEPT ![t] = r]
  /\ UNCHANGED <<claim, queueLog, lastClaim>>

\* save_task without one: refused while a lease is live; an expired claim is
\* unlinked and the claim fields of the saved record are cleared.
SaveUnclaimed(t, r) ==
  /\ ~claim[t].live
  /\ disk' = [disk EXCEPT ![t] = IF claim[t].id = 0 THEN r ELSE [r EXCEPT !.claimId = 0]]
  /\ claim' = [claim EXCEPT ![t] = NoClaim]
  /\ UNCHANGED <<queueLog, lastClaim>>

\* release_task_claim of the caller's own claim, expired or not.
ReleaseClaim(t, w, id) ==
  /\ OwnsClaim(t, w, id)
  /\ disk' = [disk EXCEPT ![t].claimId = 0]
  /\ claim' = [claim EXCEPT ![t] = NoClaim]
  /\ UNCHANGED <<queueLog, lastClaim>>

\* ... interrupted by a crash between its two writes.
TearRelease(t, w, id) ==
  /\ OwnsClaim(t, w, id)
  /\ disk' = [disk EXCEPT ![t].claimId = 0]
  /\ UNCHANGED <<claim, queueLog, lastClaim>>

\* enqueue_task.
Enqueue(t) ==
  /\ queueLog' = Append(queueLog, t)
  /\ UNCHANGED <<disk, claim, lastClaim>>
=============================================================================
