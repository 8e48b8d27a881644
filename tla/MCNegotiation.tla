---------------------------- MODULE MCNegotiation ----------------------------
(***************************************************************************)
(* The instance of Negotiation that TLC checks: two parties haggle over one *)
(* obligation that two contracts would clear.                               *)
(***************************************************************************)
EXTENDS Negotiation, TLC

CONSTANTS f1, f2, d1, d2, a1, a2, b1, b2, t1, t2, e1, e2, c1, c2, o1, p1, p2, v1, v2, x, y, s1

\* A first offer, a later one that refers to it, supersedes it and lapses, and a
\* rival of the first under the same version.
MCOfferInputs ==
  {[version |-> v1, sequence |-> 1, content |-> x, previous |-> None, expires |-> 2],
   [version |-> v2, sequence |-> 2, content |-> y, previous |-> v1, expires |-> 1],
   [version |-> v1, sequence |-> 1, content |-> y, previous |-> None, expires |-> 2]}

\* Both contracts name the obligation.
MCObligationOf == [c \in Contracts |-> o1]
MCCounterpartyOf == [c \in Contracts |-> p1]

\* On one resource.
OneScope == [c \in Contracts |-> s1]

Peers == Permutations(OfferRequests) \cup Permutations(DecisionRequests)
           \cup Permutations(AgreementRequests) \cup Permutations(BindingRequests)
           \cup Permutations(TransitionRequests) \cup Permutations(Evaluations)
           \cup Permutations(Contracts)
=============================================================================
