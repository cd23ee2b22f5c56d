-------------------------- MODULE InformerHandlers --------------------------
(***************************************************************************)
(* How the informer's handlers classify a notification: AddFunc,           *)
(* UpdateFunc and DeleteFunc of pkg/controller/controller.go, with the     *)
(* default ActionsEvent and watched annotations of the builder.            *)
(***************************************************************************)
EXTENDS Integers, Sequences

LowPriority == -100
NormalPriority == 0
HighPriority == 100
AllPriorities == {LowPriority, NormalPriority, HighPriority}

EventTypes == {"Observe", "Create", "Update", "Delete"}

\* The default ActionsEvent.
GetEventType ==
  [CRCreated |-> "Observe", CRUpdated |-> "Update", CRDeleted |-> "Delete",
   CRObserved |-> "Observe"]

Changes == {"same", "created", "deleted", "changed"}

\* The default watched annotations, in order.
WatchAnnotations ==
  << [type |-> "Observe", annotation |-> "paused", onAction |-> "OnAny"],
     [type |-> "Create", annotation |-> "pending", onAction |-> "OnDelete"] >>

Trigger(onAction, change) ==
  \/ onAction = "OnDelete" /\ change = "deleted"
  \/ onAction = "OnCreate" /\ change = "created"
  \/ onAction = "OnChange" /\ change = "changed"
  \/ onAction = "OnAny" /\ change # "same"

\* What an update notification tells: is the new object being deleted, how did
\* the watched annotations and the spec change, is it the same ResourceVersion.
\* A resync repeats the object the informer has, so nothing differs in it.
UpdateNote ==
  {n \in [deleting : BOOLEAN, paused : Changes, pending : Changes,
          spec : {"same", "changed", "malformed"}, sameVersion : BOOLEAN] :
     n.sameVersion => n.paused = "same" /\ n.pending = "same" /\ n.spec # "changed"}

Triggered(n) ==
  {i \in DOMAIN WatchAnnotations :
     Trigger(WatchAnnotations[i].onAction, n[WatchAnnotations[i].annotation])}

\* What a handler decides: the type and the priority of the event it creates and
\* whether the digest map guards it.  Ignored when it creates none.
Ignored == [type |-> "none", priority |-> 0, guarded |-> FALSE]

AddFunc(createStarted) ==
  [type |-> GetEventType.CRCreated,
   priority |-> IF createStarted THEN LowPriority ELSE NormalPriority, guarded |-> TRUE]

UpdateFunc(n) ==
  IF n.deleting THEN
    [type |-> GetEventType.CRDeleted, priority |-> HighPriority, guarded |-> TRUE]
  ELSE IF Triggered(n) # {} THEN
    LET first == CHOOSE i \in Triggered(n) : \A j \in Triggered(n) : i <= j
    IN [type |-> WatchAnnotations[first].type, priority |-> NormalPriority, guarded |-> FALSE]
  ELSE IF n.spec = "malformed" THEN Ignored
  ELSE IF n.spec = "changed" THEN
    [type |-> GetEventType.CRUpdated, priority |-> HighPriority, guarded |-> TRUE]
  ELSE IF n.sameVersion THEN
    [type |-> GetEventType.CRObserved, priority |-> LowPriority, guarded |-> TRUE]
  ELSE Ignored

\* A tombstone is unwrapped first; an object without a deletion timestamp only
\* left the informer's view.
DeleteFunc(deletionRequested) ==
  IF deletionRequested
  THEN [type |-> GetEventType.CRDeleted, priority |-> HighPriority, guarded |-> FALSE]
  ELSE Ignored

Decisions ==
  {AddFunc(b) : b \in BOOLEAN} \cup {UpdateFunc(n) : n \in UpdateNote}
    \cup {DeleteFunc(b) : b \in BOOLEAN}

=============================================================================
