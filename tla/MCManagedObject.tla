-------------------------- MODULE MCManagedObject --------------------------
(* ManagedObject for TLC. *)
EXTENDS ManagedObject

=============================================================================
