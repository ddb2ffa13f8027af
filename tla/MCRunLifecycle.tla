--------------------------- MODULE MCRunLifecycle ---------------------------
(* Instances of RunLifecycle for TLC: which faults each run allows is in    *)
(* its cfg.  Runs are numbered, so there is no symmetry.                    *)
EXTENDS RunLifecycle

AllFaults == Faults
NoFaults == {}
=============================================================================
