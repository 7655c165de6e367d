------------------------- MODULE DeliveryListing_proofs -------------------------
(***************************************************************************)
(* Proofs about KeysetPages for any rows, any created_at and ids, any      *)
(* limit, either order and any changes of the list, and what follows for   *)
(* the deliveries of DeliveryListing.                                      *)
(***************************************************************************)
EXTENDS DeliveryListing, FiniteSetTheorems, TLAPS

\* ORDER BY created_at, id is a strict order in which any two rows compare.
LEMMA RowsAreOrdered ==
    /\ \A d \in Row : ~Before(CursorOf(d), CursorOf(d))
    /\ \A c, d \in Row : c # d => \/ Before(CursorOf(c), CursorOf(d))
                                  \/ Before(CursorOf(d), CursorOf(c))
    /\ \A c, d, e \in Row :
          Before(CursorOf(c), CursorOf(d)) /\ Before(CursorOf(d), CursorOf(e))
              => Before(CursorOf(c), CursorOf(e))
<1>1. /\ \A d \in Row : ~Less(CursorOf(d), CursorOf(d))
      /\ \A c, d \in Row : c # d => Less(CursorOf(c), CursorOf(d)) \/ Less(CursorOf(d), CursorOf(c))
      /\ \A c, d, e \in Row :
            Less(CursorOf(c), CursorOf(d)) /\ Less(CursorOf(d), CursorOf(e))
                => Less(CursorOf(c), CursorOf(e))
  BY PagesAssumption DEF PagesAssumption, Less, CursorOf
<1>. QED
  BY <1>1 DEF Before

\* Rows are told apart by their cursors, and no cursor is none.
LEMMA CursorsDiffer ==
    /\ \A c, d \in Row : CursorOf(c) = CursorOf(d) => c = d
    /\ \A d \in Row : CursorOf(d) # NoCursor
BY PagesAssumption DEF PagesAssumption, CursorOf, NoCursor

\* What a query leaves out comes after all that it returns.
LEMMA FirstRowsComeFirst ==
    ASSUME NEW S \in SUBSET Row, NEW n \in Nat,
           NEW c \in FirstRows(S, n), NEW d \in S \ FirstRows(S, n)
    PROVE  Before(CursorOf(c), CursorOf(d))
<1>. DEFINE Ahead(e) == {b \in S : Before(CursorOf(b), CursorOf(e))}
<1>1. c \in S /\ d \in S /\ c # d
  BY DEF FirstRows
<1>2. SUFFICES ASSUME Before(CursorOf(d), CursorOf(c)) PROVE FALSE
  BY <1>1, RowsAreOrdered
<1>3. IsFiniteSet(S)
  BY FS_Subset, PagesAssumption DEF PagesAssumption
<1>4. IsFiniteSet(Ahead(c)) /\ Ahead(d) \subseteq Ahead(c)
  <2>1. Ahead(c) \subseteq S
    OBVIOUS
  <2>2. Ahead(d) \subseteq Ahead(c)
    BY <1>1, <1>2, RowsAreOrdered
  <2>. QED
    BY <2>1, <2>2, <1>3, FS_Subset
<1>5. /\ Cardinality(Ahead(c)) \in Nat /\ Cardinality(Ahead(d)) \in Nat
      /\ Cardinality(Ahead(d)) <= Cardinality(Ahead(c))
  BY <1>4, FS_Subset, FS_CardinalityType
<1>6. Cardinality(Ahead(c)) < n /\ ~(Cardinality(Ahead(d)) < n)
  BY DEF FirstRows
<1>. QED
  BY <1>5, <1>6

-----------------------------------------------------------------------------
LEMMA InitHasListInv == ListInit => ListInv
BY DEF ListInit, ListInv, ListTypeOK, NothingRead, CursorDivides, NothingMissed

LEMMA OpenListKeepsInv ==
    ASSUME ListInv, OpenList
    PROVE  ListInv'
BY DEF ListInv, ListTypeOK, NothingRead, CursorDivides, NothingMissed, OpenList, Beyond

LEMMA ListBecomesKeepsInv ==
    ASSUME ListInv, NEW S \in SUBSET Row, ListBecomes(S)
    PROVE  ListInv'
BY DEF ListInv, ListTypeOK, NothingRead, CursorDivides, NothingMissed, ListBecomes, Beyond

\* What is on a page is behind everything that was shown before.
LEMMA PageIsBehind ==
    ASSUME ListInv, reading = "yes", NEW d \in shown, NEW e \in Page
    PROVE  Before(CursorOf(d), CursorOf(e))
<1>1. d \in Row /\ e \in Row /\ (cursor = NoCursor \/ Before(cursor, CursorOf(e)))
  BY DEF ListInv, ListTypeOK, Page, FirstRows, Beyond
<1>2. cursor = CursorOf(d) \/ (cursor # NoCursor /\ Before(CursorOf(d), cursor))
  BY DEF ListInv, CursorDivides
<1>3. PICK c \in Row : cursor = CursorOf(c)
  BY <1>1, <1>2, CursorsDiffer DEF ListInv, ListTypeOK
<1>. QED
  BY <1>1, <1>2, <1>3, CursorsDiffer, RowsAreOrdered

(***************************************************************************)
(* A page that has a next one ends at the new cursor: all that was shown   *)
(* is at it or before it, and a steady row that was not is behind it. One  *)
(* that has none shows all that was left.                                  *)
(***************************************************************************)
LEMMA ReadPageKeepsInv ==
    ASSUME ListInv, ReadPage
    PROVE  ListInv'
<1>. /\ ListTypeOK /\ CursorDivides
     /\ reading = "yes" /\ shown' = shown \cup Page
     /\ listed' = listed /\ steady' = steady
  BY DEF ListInv, ReadPage
<1>1. Beyond(cursor) \in SUBSET Row /\ Page \subseteq Beyond(cursor)
  BY DEF ListTypeOK, Page, FirstRows, Beyond
<1>2. steady \ shown \subseteq Beyond(cursor)
  BY DEF CursorDivides
<1>3. CASE HasNext
  <2>1. PICK c \in Page : LastOf(Page, c) /\ cursor' = CursorOf(c)
    BY <1>3 DEF ReadPage
  <2>2. reading' = "yes" /\ c \in Row
    BY <1>1, <1>3 DEF ReadPage
  <2>3. ListTypeOK'
    BY <2>1, <2>2, <1>1 DEF ListTypeOK
  <2>4. ASSUME NEW d \in steady \ shown' PROVE d \in Beyond(cursor)'
    <3>1. d \in Beyond(cursor) \ Page
      BY <2>4, <1>2
    <3>2. Before(CursorOf(c), CursorOf(d))
      BY <3>1, <1>1, <2>1, FirstRowsComeFirst, PagesAssumption DEF Page, PagesAssumption
    <3>. QED
      BY <3>1, <3>2, <2>1 DEF Beyond, ListTypeOK
  <2>5. ASSUME NEW d \in shown'
        PROVE  cursor' = CursorOf(d) \/ (cursor' # NoCursor /\ Before(CursorOf(d), cursor'))
    <3>1. CASE d \in shown
      BY <3>1, <2>1, <2>2, PageIsBehind, CursorsDiffer
    <3>2. CASE d \in Page
      BY <3>2, <2>1, <2>2, CursorsDiffer DEF LastOf
    <3>. QED
      BY <3>1, <3>2
  <2>. QED
    BY <2>2, <2>3, <2>4, <2>5 DEF ListInv, NothingRead, CursorDivides, NothingMissed
<1>4. CASE ~HasNext
  <2>1. reading' = "done" /\ cursor' = NoCursor
    BY <1>4 DEF ReadPage
  <2>2. steady \subseteq shown'
    BY <1>2, <1>4 DEF HasNext
  <2>. QED
    BY <2>1, <2>2, <1>1 DEF ListInv, ListTypeOK, NothingRead, CursorDivides, NothingMissed
<1>. QED
  BY <1>3, <1>4

LEMMA NextKeepsListInv ==
    ASSUME ListInv, [ListNext]_listVars
    PROVE  ListInv'
<1>1. CASE OpenList
  BY <1>1, OpenListKeepsInv
<1>2. CASE ReadPage
  BY <1>2, ReadPageKeepsInv
<1>3. CASE \E S \in SUBSET Row : ListBecomes(S)
  BY <1>3, ListBecomesKeepsInv
<1>4. CASE UNCHANGED listVars
  BY <1>4 DEF listVars, ListInv, ListTypeOK, CursorDivides, NothingMissed, NothingRead, Beyond
<1>. QED
  BY <1>1, <1>2, <1>3, <1>4 DEF ListNext

-----------------------------------------------------------------------------
(***************************************************************************)
(* The cursor divides what was shown from what is still to come, whatever  *)
(* happens to the list between two pages.                                  *)
(***************************************************************************)
THEOREM ListsAreConsistent == ListSpec => []ListInv
<1>1. ListInv /\ [ListNext]_listVars => ListInv'
  BY NextKeepsListInv
<1>. QED
  BY <1>1, InitHasListInv, PTL DEF ListSpec

(***************************************************************************)
(* Whoever follows next_cursor to the end is given every row that was in   *)
(* the list all the while (the lists of every repository, pagination.py).  *)
(***************************************************************************)
THEOREM NoRowIsMissed == ListSpec => []NothingMissed
<1>1. ListInv => NothingMissed
  BY DEF ListInv
<1>. QED
  BY <1>1, ListsAreConsistent, PTL

(***************************************************************************)
(* No page repeats a row or goes back in the order of the list.            *)
(***************************************************************************)
THEOREM NoPageGoesBack == ListSpec => PagesInOrder
<1>1. ListInv /\ [ListNext]_listVars =>
        [ReadPage => \A d \in shown, e \in Page : Before(CursorOf(d), CursorOf(e))]_listVars
  BY PageIsBehind DEF ReadPage
<1>. QED
  BY <1>1, ListsAreConsistent, PTL DEF ListSpec, PagesInOrder

(***************************************************************************)
(* The list of deliveries of a status is such a list, and its rows are     *)
(* those of Retention: paging changes nothing of what the passes do, and   *)
(* what the passes do takes nothing from a page that should be there.      *)
(***************************************************************************)
THEOREM DeliveriesAreAList == ListingSpec => Spec /\ ListSpec /\ []NothingMissed /\ PagesInOrder
<1>1. ListingInit => Init /\ ListInit
  BY DEF ListingInit
<1>2. [ListingNext]_listingVars => [Next]_vars
  BY DEF ListingNext, listingVars
<1>3. [ListingNext]_listingVars => [ListNext]_listVars
  <2>1. Selected' \in SUBSET Row
    BY ListingAssumption DEF ListingAssumption, Selected
  <2>. QED
    BY <2>1 DEF ListingNext, listingVars, ListNext
<1>4. ListingSpec => Spec /\ ListSpec
  BY <1>1, <1>2, <1>3, PTL DEF ListingSpec, Spec, ListSpec
<1>. QED
  BY <1>4, NoRowIsMissed, NoPageGoesBack, PTL

=============================================================================
