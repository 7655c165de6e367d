--------------------------- MODULE MCDeliveryListing ---------------------------
(***************************************************************************)
(* Small instances of DeliveryListing: the first two deliveries have the   *)
(* same created_at, as those of one event do, and a page holds two rows.   *)
(***************************************************************************)
EXTENDS DeliveryListing

Created == [d \in Row |-> (d + 1) \div 2]
Number == [d \in Row |-> d]

=============================================================================
