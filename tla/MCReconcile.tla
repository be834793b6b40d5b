------------------------------ MODULE MCReconcile ------------------------------
(***************************************************************************)
(* Instances of Reconcile for TLC: one issue Linear's integration created, *)
(* and one for a finding it never heard of.                                *)
(***************************************************************************)
EXTENDS Reconcile

CONSTANTS i1, i2, m1, m2

MCAbout == [i \in Issues |-> IF i = i1 THEN m1 ELSE m2]
================================================================================
