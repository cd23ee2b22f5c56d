---------------------------- MODULE CreateMarks ----------------------------
(***************************************************************************)
(* pkg/meta on the create marks, as the reconciler uses them.              *)
(*                                                                         *)
(* The marks are three annotations with RFC3339 times, whole seconds; a    *)
(* tick is one second.  What the code asks of them is kept instead of the  *)
(* times:                                                                  *)
(*   started     the pending mark is there                                 *)
(*   age         ticks since it was set, up to Grace                       *)
(*   outcomeNow  a succeeded or failed mark has the current second         *)
(*   incomplete  the pending mark is later than both other marks           *)
(* open is history: no outcome was written since the pending mark.         *)
(* CreateMarkTimes has the times themselves, and shows that nothing the    *)
(* code asks is lost.                                                      *)
(***************************************************************************)
EXTENDS Integers

CONSTANT Grace  \* externalCreateRecoveryGracePeriod, in ticks

ASSUME GraceAssumption == Grace \in Nat \ {0}

SetExternalCreatePending(o) ==
  [o EXCEPT !.started = TRUE, !.age = 0, !.incomplete = ~o.outcomeNow, !.open = TRUE]

\* SetExternalCreateSucceeded and SetExternalCreateFailed.
SetExternalCreateOutcome(o) ==
  [o EXCEPT !.outcomeNow = TRUE, !.incomplete = FALSE, !.open = FALSE]

RemovePending(o) ==
  [o EXCEPT !.started = FALSE, !.age = 0, !.incomplete = FALSE, !.open = FALSE]

ExternalCreateIncomplete(o) == o.incomplete

\* Mutant: the grace period is cut short.
ExternalCreatePendingDuringLess(o) == o.started /\ o.age < Grace - 1

ExternalCreatePendingDuring(o) == o.started /\ o.age < Grace

\* A second passes.
Older(o) ==
  [o EXCEPT !.age = IF o.started /\ @ < Grace THEN @ + 1 ELSE @, !.outcomeNow = FALSE]

=============================================================================
