----------------------------- MODULE MCRunStream -----------------------------
(* Small instances of RunStream for TLC.  Every bound is a constant of the  *)
(* specification, given in the cfg; the runs check a liveness property, so  *)
(* they use no symmetry.                                                    *)
EXTENDS RunStream
=============================================================================
