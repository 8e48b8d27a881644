--------------------------- MODULE MCEventStreams ---------------------------
(***************************************************************************)
(* The instances of EventStreams that TLC checks.  Partition a is an action, *)
(* b the run of all actions, x the isolation scope of a breaker decision.   *)
(***************************************************************************)
EXTENDS EventStreams

CONSTANTS w1, w2, w3, w4, a, b, x, k1

\* w1 is a chain over both partitions with two events in the second, as the
\* gateway's; w2 and w3 contend with it in one partition each; w4 is a breaker
\* with a scope of its own.
Lifecycle ==
  [w \in Writers |-> CASE w = w1 -> <<a, b, b>> [] w = w2 -> <<a>>
                       [] w = w4 -> <<x>> [] OTHER -> <<b>>]

\* w1 and w2 contend for one key; the loser records a refusal in both partitions,
\* so that w3 may lose two attempts to them and give up.
Contended == [w \in Writers |-> IF w \in {w1, w2} THEN k1 ELSE None]
Refusals == [w \in Writers |-> IF w \in {w1, w2} THEN <<a, b>> ELSE <<>>]
=============================================================================
