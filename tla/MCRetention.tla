------------------------------ MODULE MCRetention ------------------------------
(***************************************************************************)
(* Small instances of Retention. With as many deliveries as a batch holds  *)
(* a pass always reaches them all; with one more it does not.              *)
(***************************************************************************)
EXTENDS Retention

=============================================================================
