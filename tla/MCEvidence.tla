----------------------------- MODULE MCEvidence -----------------------------
(***************************************************************************)
(* The instance of AuthorityCertificate that TLC checks: two contracts on   *)
(* one surface, each with its own key, both in one isolation scope.         *)
(***************************************************************************)
EXTENDS AuthorityCertificate, TLC

CONSTANTS c1, c2, s1, k1, k2, x1

\* One surface, a ledger key for each contract, every scope for both.
OneSurface == [c \in Contracts |-> s1]
OwnKey == [c \in Contracts |-> IF c = c1 THEN k1 ELSE k2]
AllScopes == [c \in Contracts |-> Scopes]
Resource == [c \in Contracts |-> x1]

\* No sequence, and the same parameters under every contract.
NoPrior == [c \in Contracts |-> {}]
SameParams == [c \in Contracts |-> "params"]

\* Requests are interchangeable within their kind.
Interchangeable == Permutations(PolicyRequests) \cup Permutations(GatewayRequests)
=============================================================================
