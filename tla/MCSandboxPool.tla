--------------------------- MODULE MCSandboxPool ---------------------------
(* Instances of SandboxPool for TLC: a and b work on the same thread, or  *)
(* on two.                                                                  *)
EXTENDS SandboxPool, TLC

CONSTANTS a, b, x, y

MCUsers == {a, b}
MCSame == a :> x @@ b :> x
MCOther == a :> x @@ b :> y
MCSymmetry == Permutations({a, b})
=============================================================================
