------------------------------- MODULE MCIntake -------------------------------
(***************************************************************************)
(* One program at a time, over every kind of block; programs share nothing  *)
(* but the world.                                                           *)
(***************************************************************************)
EXTENDS Intake

CONSTANTS asked, other

Node(classification, allowed) ==
  [classification |-> classification, allowed |-> allowed, params |-> asked]
Good == Node("candidate_action_eligible", TRUE)
Barred == Node("candidate_action_eligible", FALSE)
Raw == Node("bypass_risk", TRUE)
Vague == Node("ambiguous", TRUE)

Block(kind, actions, observed, complete) ==
  [kind |-> kind, actions |-> actions, observed |-> observed, complete |-> complete, expires |-> 2]

MCBlocks ==
  {Block("codemode", <<Good, Good, Good>>, TRUE, TRUE),
   Block("codemode", <<Barred, Good>>, TRUE, TRUE),
   Block("ingress", <<Good, Barred, Good>>, TRUE, TRUE),
   Block("ingress", <<Raw, Good>>, TRUE, TRUE),
   Block("ingress", <<Vague, Good>>, TRUE, TRUE),
   Block("ingress", <<Good>>, FALSE, TRUE),
   Block("ingress", <<Good>>, TRUE, FALSE)}

\* Another caller may finalize with other parameters, abandon, or stream on
\* with a later expiry.
Moved(state, params, expires) == [state |-> state, params |-> params, expires |-> expires]
MCTransitionInputs ==
  {Moved("finalized", other, None), Moved("abandoned", None, None), Moved("streaming", None, 3)}
=============================================================================
