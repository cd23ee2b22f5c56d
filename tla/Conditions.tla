----------------------------- MODULE Conditions -----------------------------
(***************************************************************************)
(* status.conditions: pkg/tools/unstructured and its package condition.    *)
(*                                                                         *)
(* A condition is its type, status and reason.  ok says that GetConditions *)
(* can read it: it is an object with a string type and status and an       *)
(* RFC3339 lastTransitionTime.  more says that it has fields which         *)
(* GetConditions does not read, such as observedGeneration.                *)
(***************************************************************************)
EXTENDS Integers, SequencesExt

\* The types that hold one of the words of IsAvailable's list: the runtime's own
\* and, for all that other controllers write, one more.
Positive == {"Ready", "Healthy"}

Condition(t, s, r) == [type |-> t, status |-> s, reason |-> r, ok |-> TRUE, more |-> FALSE]

Available == Condition("Ready", "True", "Available")
ReconcileSuccess == Condition("Synced", "True", "ReconcileSuccess")

\* Unavailable, Creating, Deleting and FailWithReason.
NotReady(reason) == Condition("Ready", "False", reason)

\* ReconcileError and ReconcilePaused.
NotSynced(reason) == Condition("Synced", "False", reason)

-----------------------------------------------------------------------------
(* Lists of conditions                                                     *)

IndexOfType(conds, t) == SelectInSeq(conds, LAMBDA c : c.type = t)

Upsert(conds, co) ==
  LET i == IndexOfType(conds, co.type)
  IN IF i = 0 THEN Append(conds, co) ELSE ReplaceAt(conds, i, co)

\* Join upserts conds into itself; its second argument is not used.
Join(conds, all) == FoldLeft(Upsert, conds, conds)

\* condition.Remove.
RemoveCondition(conds, t) ==
  LET i == IndexOfType(conds, t) IN IF i = 0 THEN conds ELSE RemoveAt(conds, i)

-----------------------------------------------------------------------------
(* The object's conditions                                                 *)

\* What is read of an item, and written back by the next SetConditions.
ReadItem(item) == [item EXCEPT !.more = FALSE]

\* Mutant: only the condition types of the runtime are read.
GetConditionsOurs(items) == SelectSeq(items, LAMBDA c : c.type \in {"Ready", "Synced"})

\* One item that cannot be read, and the result is nil.
GetConditions(items) ==
  IF \A i \in DOMAIN items : items[i].ok THEN [i \in DOMAIN items |-> ReadItem(items[i])] ELSE <<>>

SetConditions(items, conds) == FoldLeft(Upsert, GetConditions(items), conds)

IsAvailable(items) ==
  \A c \in Range(GetConditions(items)) : c.type \in Positive => c.status = "True"

\* GetCondition asks for type and reason, IsConditionSet for the status too.
IsConditionSet(items, co) ==
  \E c \in Range(GetConditions(items)) :
    c.type = co.type /\ c.reason = co.reason /\ c.status = co.status

=============================================================================
