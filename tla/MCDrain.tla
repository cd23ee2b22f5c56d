------------------------------- MODULE MCDrain -------------------------------
(***************************************************************************)
(* Drain on a small pool.                                                  *)
(***************************************************************************)
EXTENDS Drain, TLC

Symmetry == Permutations(Workers)

=============================================================================
