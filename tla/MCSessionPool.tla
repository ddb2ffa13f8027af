--------------------------- MODULE MCSessionPool ---------------------------
(* Instances of SessionPool for TLC: g1 and g2 run on the loop of the       *)
(* gateway, s1 on one that asyncio.run closes.                              *)
EXTENDS SessionPool, TLC

CONSTANTS g1, g2, s1, gateway, short

MCCalls == {g1, g2, s1}
MCLoopOf == g1 :> gateway @@ g2 :> gateway @@ s1 :> short
MCShortLived == {short}

Symmetry == Permutations(Keys) \cup Permutations({g1, g2})
=============================================================================
