--------------------------- MODULE OneUseAuthority ---------------------------
(***************************************************************************)
(* What the kernel promises about authority, with nothing of how: a key is  *)
(* granted to one contract and never taken back or handed on, and the       *)
(* authority under it admits one mutation, ever.                            *)
(***************************************************************************)
CONSTANTS Keys, Holders, Uses, NoHolder

VARIABLES
  holder,   \* key -> the contract its authority was granted to
  uses      \* key -> the mutations admitted under it

authorityVars == <<holder, uses>>

Init ==
  /\ holder = [k \in Keys |-> NoHolder]
  /\ uses = [k \in Keys |-> {}]

Grant(k, c) ==
  /\ holder[k] = NoHolder
  /\ \A other \in Keys : holder[other] # c
  /\ holder' = [holder EXCEPT ![k] = c]
  /\ UNCHANGED uses

Use(k, m) ==
  /\ holder[k] # NoHolder
  /\ uses[k] = {}
  /\ \A other \in Keys : m \notin uses[other]
  /\ uses' = [uses EXCEPT ![k] = {m}]
  /\ UNCHANGED holder

Next ==
  \/ \E k \in Keys, c \in Holders : Grant(k, c)
  \/ \E k \in Keys, m \in Uses : Use(k, m)

Spec == Init /\ [][Next]_authorityVars
=============================================================================
