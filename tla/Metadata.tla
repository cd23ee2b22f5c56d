------------------------------ MODULE Metadata ------------------------------
(***************************************************************************)
(* pkg/meta on finalizers, annotations and policies.                       *)
(*                                                                         *)
(* Finalizers are a sequence.  Annotations are a function whose domain is  *)
(* the annotations that are set; a missing one is read as "".              *)
(***************************************************************************)
EXTENDS Integers, SequencesExt

-----------------------------------------------------------------------------
(* Finalizers                                                              *)

FinalizerExists(f, x) == Contains(f, x)

\* Mutant: the list is not searched first.
AddFinalizerAlways(f, x) == Append(f, x)

AddFinalizer(f, x) == IF FinalizerExists(f, x) THEN f ELSE Append(f, x)

\* RemoveFinalizer cuts f while it ranges over it.  The range keeps the length
\* and the array it began with; append shifts the rest of that array in place.
\* panics: f[i+1:] is out of range.
RemovalStep(x, s, i) ==
  IF s.panics \/ s.array[i] # x THEN s
  ELSE IF i > s.len THEN [s EXCEPT !.panics = TRUE]
  ELSE [s EXCEPT !.array = [j \in DOMAIN @ |-> IF j \in i..(s.len - 1) THEN @[j + 1] ELSE @[j]],
                 !.len = @ - 1]

Removal(f, x) ==
  FoldLeft(LAMBDA s, i : RemovalStep(x, s, i), [array |-> f, len |-> Len(f), panics |-> FALSE],
           [i \in DOMAIN f |-> i])

RemoveFinalizer(f, x) == LET r == Removal(f, x) IN SubSeq(r.array, 1, r.len)

-----------------------------------------------------------------------------
(* Annotations                                                             *)

\* AddLabels does the same to the labels, RemoveLabels as RemoveAnnotations.
AddAnnotations(a, new) == new @@ a

RemoveAnnotations(a, keys) == [k \in DOMAIN a \ keys |-> a[k]]

Annotation(a, k) == IF k \in DOMAIN a THEN a[k] ELSE ""

-----------------------------------------------------------------------------
(* Policies                                                                *)

ManagementPolicy(a) ==
  LET p == Annotation(a, "management-policy") IN IF p = "" THEN "default" ELSE p

DeletionPolicy(a) ==
  LET p == Annotation(a, "deletion-policy") IN IF p = "" THEN "delete" ELSE p

IsActionAllowed(a, action) ==
  ManagementPolicy(a) \in
    {"default", IF action \in {"create", "update"} THEN "observe-create-update"
                                                   ELSE "observe-delete"}

\* Mutant: the management policy is not looked at.
ShouldDeleteByDeletion(a) == DeletionPolicy(a) = "delete"

ShouldDelete(a) ==
  \/ DeletionPolicy(a) = "delete" /\ ManagementPolicy(a) = "default"
  \/ ManagementPolicy(a) = "observe-delete"

ShouldOnlyObserve(a) == ManagementPolicy(a) = "observe"

\* ShouldCreate and ShouldUpdate.
ShouldCreate(a) == ManagementPolicy(a) \in {"default", "observe-create-update"}

=============================================================================
