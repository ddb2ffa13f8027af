---------------------------- MODULE MCCodeChange ----------------------------
(* Instances of CodeChange for TLC: which process set each run uses is in   *)
(* its cfg; processes of one kind are interchangeable in the safety runs.   *)
EXTENDS CodeChange, TLC, FiniteSets

Crashes == {"worker_crash", "controller_crash", "error"}
WorkerFaults == {"worker_crash", "late_heartbeat", "heartbeat_error", "error"}

Symmetry == Permutations(Workers) \cup Permutations(Controllers) \cup Permutations(Patches)
=============================================================================
