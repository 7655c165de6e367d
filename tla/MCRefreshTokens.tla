---------------------------- MODULE MCRefreshTokens ----------------------------
(***************************************************************************)
(* Small instances of RefreshTokens: three requests, so that two can race  *)
(* while a third presents what they are racing for.                        *)
(***************************************************************************)
EXTENDS RefreshTokens, TLC

CONSTANTS r1, r2, r3

Symmetry == Permutations(Request)

=============================================================================
