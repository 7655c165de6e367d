---------------------------- MODULE DeliveryListing ----------------------------
(***************************************************************************)
(* Retention and KeysetPages together: an operator pages through the       *)
(* deliveries of a status while they are created, settled, replayed, and   *)
(* deleted by cleanup passes. Deliveries settle in any order, so rows join *)
(* the list before and behind the cursor, and leave it at any place.       *)
(***************************************************************************)
EXTENDS Retention, KeysetPages

CONSTANT Wanted     \* the phases that the status parameter selects

ASSUME ListingAssumption ==
    /\ Wanted \subseteq {"open", "settled"}
    /\ Delivery \subseteq Row

listingVars == <<vars, listVars>>

\* SqlAlchemyDeliveryRepository.deliveries: organization and status
Selected == {d \in Delivery : phase[d] \in Wanted}

ListingInit == Init /\ ListInit

ListingNext ==
    \/ Next /\ ListBecomes(Selected')
    \/ (OpenList \/ ReadPage) /\ UNCHANGED vars

ListingSpec == ListingInit /\ [][ListingNext]_listingVars /\ Fairness

=============================================================================
