-------------------------- MODULE MCEventIngestion --------------------------
(***************************************************************************)
(* A small instance of EventIngestion: requests enough for two to race and *)
(* a third to come later, with the same or another key and content, and a  *)
(* backlog limit that one of them fills.                                   *)
(***************************************************************************)
EXTENDS EventIngestion, TLC

CONSTANTS r1, r2, r3, q1, q2, k1, k2, c1, c2, e1

Symmetry == Permutations(Request) \cup Permutations(Replayer) \cup Permutations(Key)
              \cup Permutations(Content) \cup Permutations(Endpoint)

=============================================================================
