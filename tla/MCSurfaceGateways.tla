-------------------------- MODULE MCSurfaceGateways --------------------------
(***************************************************************************)
(* One surface and three greenlights on it: a payment its caller runs       *)
(* twice, an API call and a local mutation.                                 *)
(***************************************************************************)
EXTENDS SurfaceGateways, TLC

CONSTANTS r1, r2, r3, r4, g1, g2, g3, s1

MCGreenlightOf == (r1 :> g1) @@ (r2 :> g1) @@ (r3 :> g2) @@ (r4 :> g3)
MCSurfaceOf == [g \in Greenlights |-> s1]
MCKindOf == (r1 :> "x402") @@ (r2 :> "x402") @@ (r3 :> "auth_md") @@ (r4 :> "local")
=============================================================================
