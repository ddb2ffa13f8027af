----------------------------- MODULE MCChannels -----------------------------
(* Instances of Channels for TLC, all of one chat: the deliveries p1, p2,   *)
(* p3 are of message p, q1, r1 and n1 of q, r and n; r and n come over     *)
(* another connection than p and q.                                              *)
EXTENDS Channels, TLC

CONSTANTS p1, p2, p3, q1, r1, n1, p, q, r, n, chat, here, there

MCDeliveries == {p1, p2, r1, n1}
MCMessageOf == p1 :> p @@ p2 :> p @@ r1 :> r @@ n1 :> n
MCThrice == {p1, p2, p3, q1}
MCThriceOf == p1 :> p @@ p2 :> p @@ p3 :> p @@ q1 :> q
MCConversationOf == [m \in Messages |-> chat]
MCMappingOf == [m \in Messages |-> IF m \in {r, n} THEN there ELSE here]
=============================================================================
