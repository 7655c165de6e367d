------------------------- MODULE MCEndpointLifecycle -------------------------
(***************************************************************************)
(* Small instances of EndpointLifecycle: two urls are enough for a change  *)
(* of url, two requests for overlapping verifies.                          *)
(***************************************************************************)
EXTENDS EndpointLifecycle, TLC

CONSTANTS u1, u2, r1, r2

Symmetry == Permutations(Url) \cup Permutations(Request)

=============================================================================
