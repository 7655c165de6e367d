------------------------------ MODULE KeysetPages ------------------------------
(***************************************************************************)
(* How a client reads a list page by page while its rows come and go: the  *)
(* lists of organizations, members, API keys, endpoints, events,           *)
(* deliveries (newest first) and attempts (oldest first). A page is a      *)
(* query of its own, in a transaction of its own. The server keeps nothing *)
(* between two pages; next_cursor names the last row of a page by its      *)
(* created_at and its id, and that row may be gone when it comes back.     *)
(***************************************************************************)
EXTENDS Naturals, FiniteSets

CONSTANTS
    Row,        \* the rows that may ever be in the list
    CreatedAt,  \* created_at of every row; rows of a transaction have the same
    Id,         \* id of every row, as it is compared
    Ascending,  \* ORDER BY created_at, id; or both of them DESC
    PageSize    \* limit of the request

ASSUME PagesAssumption ==
    /\ IsFiniteSet(Row)
    /\ CreatedAt \in [Row -> Nat]
    /\ Id \in [Row -> Nat] /\ \A d, e \in Row : Id[d] = Id[e] => d = e
    /\ Ascending \in BOOLEAN
    /\ PageSize \in Nat \ {0}

VARIABLES
    listed,     \* the rows that the list's WHERE selects now
    reading,    \* "no", "yes", or "done": the last page had no next_cursor
    cursor,     \* next_cursor of the last page
    shown,      \* history: the rows the client has been given
    steady      \* history: the rows that were listed all the time it has read

listVars == <<listed, reading, cursor, shown, steady>>

NoCursor == <<>>

\* encode_cursor
CursorOf(d) == <<CreatedAt[d], Id[d]>>

ListTypeOK ==
    /\ listed \subseteq Row /\ shown \subseteq Row
    /\ steady \subseteq listed
    /\ reading \in {"no", "yes", "done"}
    /\ cursor \in {CursorOf(d) : d \in Row} \cup {NoCursor}

ListInit ==
    /\ listed = {} /\ shown = {} /\ steady = {}
    /\ reading = "no"
    /\ cursor = NoCursor

-----------------------------------------------------------------------------
Less(k, l) == k[1] < l[1] \/ (k[1] = l[1] /\ k[2] < l[2])
Before(k, l) == IF Ascending THEN Less(k, l) ELSE Less(l, k)

\* faulty variant of Beyond: rows are compared by created_at alone
BeyondTime(c) ==
    {d \in listed : c = NoCursor \/ (IF Ascending THEN c[1] < CreatedAt[d] ELSE CreatedAt[d] < c[1])}

\* faulty variant of Beyond: the row of the cursor itself is selected again
BeyondOrSame(c) == {d \in listed : c = NoCursor \/ c = CursorOf(d) \/ Before(c, CursorOf(d))}

\* the rows behind a cursor
Beyond(c) == {d \in listed : c = NoCursor \/ Before(c, CursorOf(d))}

\* ORDER BY and LIMIT
FirstRows(S, n) == {d \in S : Cardinality({e \in S : Before(CursorOf(e), CursorOf(d))}) < n}
Page == FirstRows(Beyond(cursor), PageSize)

\* one row more than a page is asked for, to know whether there is a next one
HasNext == Beyond(cursor) # Page

LastOf(S, d) == d \in S /\ \A e \in S \ {d} : Before(CursorOf(e), CursorOf(d))

-----------------------------------------------------------------------------
\* the client asks without a cursor; another reading would start like this one
OpenList ==
    /\ reading = "no"
    /\ reading' = "yes"
    /\ steady' = listed
    /\ UNCHANGED <<listed, cursor, shown>>

\* a page, and next_cursor if there is more
ReadPage ==
    /\ reading = "yes"
    /\ shown' = shown \cup Page
    /\ \/ /\ HasNext
          /\ \E d \in Page : LastOf(Page, d) /\ cursor' = CursorOf(d)
          /\ UNCHANGED reading
       \/ /\ ~HasNext
          /\ cursor' = NoCursor
          /\ reading' = "done"
    /\ UNCHANGED <<listed, steady>>

\* rows are inserted, updated or deleted by others
ListBecomes(S) ==
    /\ listed' = S
    /\ steady' = steady \cap S
    /\ UNCHANGED <<reading, cursor, shown>>

ListNext == OpenList \/ ReadPage \/ \E S \in SUBSET Row : ListBecomes(S)

ListSpec == ListInit /\ [][ListNext]_listVars

-----------------------------------------------------------------------------
(***************************************************************************)
(* A client that follows next_cursor to the end has been given every row   *)
(* that was in the list all the while, whatever was inserted or deleted    *)
(* around it and however many rows have one created_at: "Lists use opaque  *)
(* keyset cursor (created_at,id)", PROJECT_SPECIFICATION.md:118.           *)
(***************************************************************************)
NothingMissed == reading = "done" => steady \subseteq shown

(***************************************************************************)
(* No page repeats a row or goes back: all that a page adds is behind all  *)
(* that was shown before.                                                  *)
(***************************************************************************)
PagesInOrder ==
    [][ReadPage => \A d \in shown, e \in Page : Before(CursorOf(d), CursorOf(e))]_listVars

(***************************************************************************)
(* The inductive invariant: the cursor divides what was shown from what is *)
(* still to come.                                                          *)
(***************************************************************************)
CursorDivides ==
    reading = "yes" =>
        /\ \A d \in steady \ shown : d \in Beyond(cursor)
        /\ \A d \in shown : cursor = CursorOf(d) \/ (cursor # NoCursor /\ Before(CursorOf(d), cursor))

NothingRead == reading = "no" => shown = {} /\ cursor = NoCursor

ListInv == ListTypeOK /\ NothingRead /\ CursorDivides /\ NothingMissed

=============================================================================
