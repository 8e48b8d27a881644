-------------------------- MODULE MCAuthorityKernel --------------------------
(***************************************************************************)
(* The instances of AuthorityKernel that TLC checks.  At most three         *)
(* contracts on one surface; each cfg picks which keys they share.          *)
(***************************************************************************)
EXTENDS AuthorityKernel, TLC

CONSTANTS c1, c2, c3, s1, s2, k1, k2, k3, x1, x2

\* Every contract on one surface, or c3 on one of its own.
OneSurface == [c \in Contracts |-> s1]
SurfaceForC3 == [c \in Contracts |-> IF c = c3 THEN s2 ELSE s1]

\* Ledger keys: the same idempotency key, or a key each.
SharedKey == [c \in Contracts |-> k1]
OwnKey == [c \in Contracts |-> IF c = c1 THEN k1 ELSE IF c = c2 THEN k2 ELSE k3]

\* c2 is reserved under the scoped key k3 of an agreement obligation, whatever
\* idempotency key of its own it has; c3 has the same one and is reserved under it.
KeyOfC2 == [c \in Contracts |-> IF c = c1 THEN k1 ELSE k2]
ObligationKey == [c \in Contracts |-> IF c = c1 THEN k1 ELSE IF c = c2 THEN k3 ELSE k2]

\* Every contract consults all scopes; an orphan isolates the resource scope.
AllScopes == [c \in Contracts |-> Scopes]
Resource == [c \in Contracts |-> x1]

\* No prior contracts, or c3 after c2.
NoPrior == [c \in Contracts |-> {}]
C3AfterC2 == [c \in Contracts |-> IF c = c3 THEN {c2} ELSE {}]

\* Requests are interchangeable within their kind.
Kinds == Permutations(PolicyRequests) \cup Permutations(GatewayRequests)
           \cup Permutations(ReconcileRequests)
=============================================================================
