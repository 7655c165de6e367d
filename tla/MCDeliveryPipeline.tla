------------------------- MODULE MCDeliveryPipeline -------------------------
(***************************************************************************)
(* Small instances of DeliveryPipeline.                                    *)
(***************************************************************************)
EXTENDS DeliveryPipeline, TLC

CONSTANTS d1, d2, e1, e2, w1, w2, p1

\* all deliveries to one endpoint, or each to its own
OneTarget == [d \in Delivery |-> e1]
OwnTarget == [d \in Delivery |-> IF d = d1 THEN e1 ELSE e2]

\* a success, a permanent refusal, an overloaded receiver
Answers == {200, 404, 503}

Symmetry == Permutations(Delivery) \cup Permutations(Worker)

=============================================================================
