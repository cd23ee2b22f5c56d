---------------------------- MODULE MCReconcile ----------------------------
(* Reconcile for TLC. *)
EXTENDS Reconcile, TLC

Symmetry == Permutations(Workers)

=============================================================================
