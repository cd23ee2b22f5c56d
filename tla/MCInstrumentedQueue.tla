------------------------- MODULE MCInstrumentedQueue -------------------------
(***************************************************************************)
(* InstrumentedQueue on a few items and workers.                           *)
(***************************************************************************)
EXTENDS InstrumentedQueue, TLC

Symmetry == Permutations(Workers) \cup Permutations(Keys)

=============================================================================
