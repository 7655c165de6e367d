---------------------------- MODULE MCOrganizations ----------------------------
(***************************************************************************)
(* Small instances of Organizations: three users, so that two owners can   *)
(* turn against each other or against a third, and two requests at a time. *)
(***************************************************************************)
EXTENDS Organizations, TLC

CONSTANTS u1, u2, u3, k1, k2, r1, r2

Symmetry == Permutations(User \ {Founder}) \cup Permutations(Key) \cup Permutations(Request)

=============================================================================
