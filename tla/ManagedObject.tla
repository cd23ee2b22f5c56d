--------------------------- MODULE ManagedObject ---------------------------
(***************************************************************************)
(* One object in the hands of the runtime, its users and other             *)
(* controllers: the sequences of operations that the packages meta,        *)
(* unstructured, condition and statusprojection are used with.             *)
(*                                                                         *)
(* The operations on the finalizers, the annotations, the create marks,    *)
(* the conditions and the projected status touch disjoint parts of the     *)
(* object.  part says which of them a behaviour is about, so that TLC      *)
(* explores them one after the other and not their product.                *)
(***************************************************************************)
EXTENDS CreateMarkTimes, Metadata, Conditions, StatusProjection

CONSTANTS
  Finalizers,
  ManagementPolicies,
  DeletionPolicies,
  MaxConditions,  \* bound: conditions of other controllers
  MaxMappings     \* bound: mappings of one call

ASSUME ObjectConstants ==
  /\ "" \notin ManagementPolicies \cup DeletionPolicies
  /\ MaxConditions \in Nat /\ MaxMappings \in Nat

VARIABLES part, finalizers, annotations, conditions, status

vars == <<markVars, part, finalizers, annotations, conditions, status>>

Parts == {"finalizers", "annotations", "marks", "conditions", "status"}

Init ==
  /\ MarksInit
  /\ part \in Parts
  /\ finalizers = <<>>
  /\ annotations = <<>>
  /\ conditions = <<>>
  /\ status = Absent

-----------------------------------------------------------------------------
(* Finalizers and annotations                                              *)

ChangeFinalizers ==
  /\ part = "finalizers"
  /\ \E x \in Finalizers :
       \/ finalizers' = AddFinalizer(finalizers, x)
       \/ ~Removal(finalizers, x).panics /\ finalizers' = RemoveFinalizer(finalizers, x)
  /\ UNCHANGED <<markVars, part, annotations, conditions, status>>

Annotated ==
  {"management-policy" :> p : p \in ManagementPolicies}
  \cup {"deletion-policy" :> p : p \in DeletionPolicies}

ChangeAnnotations ==
  /\ part = "annotations"
  /\ \/ \E new \in Annotated : annotations' = AddAnnotations(annotations, new)
     \/ \E k \in DOMAIN annotations : annotations' = RemoveAnnotations(annotations, {k})
  /\ UNCHANGED <<markVars, part, finalizers, conditions, status>>

ChangeMarks ==
  /\ part = "marks"
  /\ MarksNext
  /\ UNCHANGED <<part, finalizers, annotations, conditions, status>>

-----------------------------------------------------------------------------
(* Conditions                                                              *)

Written ==
  {Available, ReconcileSuccess}
  \cup {NotReady(r) : r \in {"Creating", "Deleting"}}
  \cup {NotSynced(r) : r \in {"ReconcileError", "ReconcilePaused"}}

\* What one reconcile hands to SetConditions.
Batches == {<<c>> : c \in Written} \cup {<<c, d>> : c \in Written, d \in Written}

\* What other controllers write, readable or not, with fields of their own or not.
Foreign ==
  [type : {"Other", "Healthy"}, status : {"True", "False"}, reason : {"-"},
   ok : BOOLEAN, more : BOOLEAN]

ChangeConditions ==
  /\ part = "conditions"
  /\ \/ \E b \in Batches : conditions' = SetConditions(conditions, b)
     \/ \E c \in Foreign :
          /\ IndexOfType(conditions, c.type) # 0 \/ Len(conditions) < MaxConditions + 2
          /\ conditions' = Upsert(conditions, c)
     \/ \E t \in {"Ready", "Synced", "Other"} : conditions' = RemoveCondition(conditions, t)
     \/ conditions' = Join(conditions, <<>>)
  /\ UNCHANGED <<markVars, part, finalizers, annotations, status>>

-----------------------------------------------------------------------------
(* Status projection                                                       *)

Mappings ==
  [path : {<<"a">>, <<"b">>, <<"a", "b">>},
   expr : {"literal", "self", "status", "nothing", "error"}]
  \cup {[path |-> <<>>, expr |-> "literal"]}

MappingLists == BoundedSeq(Mappings, MaxMappings)
Sources == {"plain", "status", "unsafe"}

ProjectStatus ==
  /\ part = "status"
  /\ \E r \in Sources, ms \in MappingLists : status' = Project(status, r, ms).status
  /\ UNCHANGED <<markVars, part, finalizers, annotations, conditions>>

SetObservedGeneration ==
  /\ part = "status"
  /\ status' = SetNestedField(status, <<"observedGeneration">>, "generation")
  /\ UNCHANGED <<markVars, part, finalizers, annotations, conditions>>

Next ==
  \/ ChangeFinalizers
  \/ ChangeAnnotations
  \/ ChangeMarks
  \/ ChangeConditions
  \/ ProjectStatus
  \/ SetObservedGeneration

Spec == Init /\ [][Next]_vars

-----------------------------------------------------------------------------
(* Properties                                                              *)

\* The finalizers are distinct, the conditions have distinct types, and no
\* status field is both a value and an object.
TypeOK ==
  /\ finalizers \in Seq(Finalizers)
  /\ IsInjective(finalizers)
  /\ IsInjective([i \in DOMAIN conditions |-> conditions[i].type])
  /\ status # Absent => \A p, q \in DOMAIN status : ~IsStrictPrefix(p, q)

\* meta.RemoveFinalizer edits the list it ranges over.  On every list that
\* AddFinalizer and RemoveFinalizer can build it still removes just the one
\* finalizer, keeps the order of the others, and never slices out of range.
RemovalIsExact ==
  \A x \in Finalizers :
    /\ ~Removal(finalizers, x).panics
    /\ RemoveFinalizer(finalizers, x) = RemoveFirst(finalizers, x)

\* The five policy functions of pkg/meta agree with one another: what is only
\* observed is neither created, updated nor deleted; delete needs a policy
\* that allows the action; an unknown management policy allows nothing.
PoliciesAgree ==
  LET allowed == {x \in {"create", "update", "delete"} : IsActionAllowed(annotations, x)}
  IN /\ ShouldOnlyObserve(annotations) => allowed = {}
     /\ ShouldCreate(annotations) = ({"create", "update"} \cap allowed # {})
     /\ ShouldDelete(annotations) => "delete" \in allowed
     /\ ManagementPolicy(annotations) \notin
          {"default", "observe", "observe-create-update", "observe-delete"} => allowed = {}

\* The last condition of each type in a batch.
Effective(b) == {b[i] : i \in {i \in DOMAIN b : \A j \in i + 1..Len(b) : b[j].type # b[i].type}}

\* SetConditions sets the last condition of each type it is given, whatever was in
\* the list before, and keeps every other one in its place if all of them can be
\* read; of those it keeps what GetConditions reads, and drops the other fields.
\* The object is available iff no positive condition, its own or that of another
\* controller that was kept, is other than True.
ConditionsAreKept ==
  \A b \in Batches :
    LET after == SetConditions(conditions, b)
        given == {b[i].type : i \in DOMAIN b}
        stay  == {c \in Range(GetConditions(conditions)) : c.type \notin given}
    IN /\ \A c \in Effective(b) : IsConditionSet(after, c)
       /\ IsAvailable(after) <=>
            \A c \in stay \cup Effective(b) : c.type \in Positive => c.status = "True"
       /\ (\A i \in DOMAIN conditions : conditions[i].ok) =>
            \A i \in DOMAIN conditions :
              conditions[i].type \notin given => after[i] = ReadItem(conditions[i])

\* "a failing mapping degrades that one field; the others still apply": without a
\* mapping that fails, Project leaves the same status and the same other errors.
FailureIsLocal ==
  part = "status" =>
    \A r \in Sources, ms \in MappingLists :
      LET all == Project(status, r, ms)
      IN \A i \in all.failed :
           Project(status, r, RemoveAt(ms, i)) =
             [status |-> all.status,
              failed |-> {IF j < i THEN j ELSE j - 1 : j \in all.failed \ {i}}]

-----------------------------------------------------------------------------
(* Statements that do not hold                                             *)

\* A condition of another controller survives SetConditions as it was.  One item
\* without a lastTransitionTime is enough to lose all of them; otherwise the fields
\* that GetConditions does not read are lost, observedGeneration among them.
ForeignSurvives ==
  \A b \in Batches, i \in DOMAIN conditions :
    conditions[i].type \notin {"Ready", "Synced"}
      => conditions[i] \in Range(SetConditions(conditions, b))

\* "status" is sugar for self.status.  Not while the object has no status.
SugarIsSelf ==
  part = "status" =>
    \A ms \in MappingLists :
      Project(status, "plain", ms)
        = Project(status, "plain",
                  [i \in DOMAIN ms |-> [ms[i] EXCEPT !.expr = IF @ = "status" THEN "self" ELSE @]])

\* A mapping does not see what another one wrote.
MappingsAreIsolated ==
  part = "status" =>
    \A m, n \in Mappings :
      ~IsPrefix(m.path, n.path) /\ ~IsPrefix(n.path, m.path)
        => Project(status, "plain", <<m, n>>).status = Project(status, "plain", <<n, m>>).status

\* The deletion policy "orphan" keeps the external resource.
OrphanIsKept == DeletionPolicy(annotations) = "orphan" => ~ShouldDelete(annotations)

=============================================================================
