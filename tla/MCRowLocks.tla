------------------------------ MODULE MCRowLocks ------------------------------
(***************************************************************************)
(* A small instance of RowLocks: three deliveries, two of them to one      *)
(* endpoint, and one transaction of every kind, all of them at once.       *)
(***************************************************************************)
EXTENDS RowLocks, TLC

CONSTANTS d1, d2, d3, e1, e2, c1, f1, s1, u1, i1, q1

Targets == (d1 :> e1) @@ (d2 :> e2) @@ (d3 :> e1)
Subjects == (c1 :> d1) @@ (f1 :> d3) @@ (q1 :> d2) @@ (u1 :> e1)
Statuses == (d1 :> {"queued"}) @@ (d2 :> {"delivering", "settled"}) @@ (d3 :> {"delivering"})

=============================================================================
