------------------------- MODULE MCRecoveryTerminal -------------------------
(***************************************************************************)
(* The instance of RecoveryTerminal that TLC checks: two recommendations,   *)
(* both of which may expire and one of which waits for its retry window.    *)
(***************************************************************************)
EXTENDS RecoveryTerminal

CONSTANTS r1, r2, p1, p2, s1, v1, v2
=============================================================================
