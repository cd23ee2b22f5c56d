--------------------------- MODULE ReconcileProofs ---------------------------
(***************************************************************************)
(* Theorems about Reconcile.  For one worker: nothing leaks, no create     *)
(* begins within the grace period of another, and the create handshake is  *)
(* rolled back only when nothing landed.  For any number of workers: the   *)
(* types, and that Delete is called only for what is to be deleted.        *)
(*                                                                         *)
(* None of the four is inductive.  They need what a worker knows between   *)
(* two calls: that the finalizer is in place while it creates (LeakInv),   *)
(* that the marks are complete once it is past the recovery (GraceInv),    *)
(* how old a mark can be while the resource it stands for cannot be seen   *)
(* (RollbackInv), and that a Delete event comes from a deletion            *)
(* (DeleteInv).                                                            *)
(***************************************************************************)
EXTENDS Reconcile, TLAPS

-----------------------------------------------------------------------------
(* The parts of the inductive invariant                                    *)

\* The calls that use the object in hand.
ElCalls == {"recover", "extObserve", "extCreate", "extUpdate"}

StoreInv ==
  /\ obj \in Object \cup {Gone}
  /\ transit \subseteq [type : EventTypes, guarded : BOOLEAN]
  /\ kept \in BOOLEAN

\* A worker that is not idle has an event, and the object its call needs.
WorkInv ==
  /\ queued \cup delayed \subseteq EventTypes
  /\ digests \subseteq EventTypes
  /\ pc \in [Workers -> Calls]
  /\ evt \in [Workers -> EventTypes \cup {Absent}]
  /\ el \in [Workers -> Object \cup {Absent}]
  /\ spared \in [Workers -> BOOLEAN]
  /\ \A w \in Workers :
       /\ pc[w] # "idle" => evt[w] \in EventTypes
       /\ pc[w] \in ElCalls => el[w] \in Object

\* A copy that is the latest version is a copy of something.
FreshInv ==
  /\ fresh \in [Workers -> BOOLEAN]
  /\ \A w \in Workers : fresh[w] => obj # Gone

BoundsInv ==
  /\ acts \in 0..MaxUserActs
  /\ faults \in 0..MaxFaults
  /\ crashes \in 0..MaxCrashes

ReconcileInv ==
  /\ StoreInv
  /\ ext \in External
  /\ WorkInv
  /\ FreshInv
  /\ BoundsInv

-----------------------------------------------------------------------------
(* What holds with one worker                                              *)

OneWorker == \E w : Workers = {w}

\* Users ask for an object to be orphaned, when they create it or later.
MayOrphan == "orphan" \in UserActs \/ "policy" \in UserActs

\* Nobody else puts a finalizer on the object; and an object whose deletion
\* policy is to orphan is not created again under the same name.
PlainUsers ==
  /\ "foreign" \notin UserActs
  /\ MayOrphan => "recreate" \notin UserActs

\* The object holds the finalizer, or is gone for good.
Held ==
  IF obj = Gone THEN acts > 0 /\ "recreate" \notin UserActs ELSE obj.ours

\* What is in the API server: no finalizer but ours, which a deletion waits for.
ObjectClause ==
  obj # Gone => /\ acts > 0
                /\ ~obj.foreign
                /\ obj.deleting => obj.ours
                /\ obj.orphan => MayOrphan

\* Whatever there is to clean up, the finalizer is there to see to it.
ExtClause == obj = Gone \/ ~obj.ours => ~ext.there \/ kept

Creating == {"create", "markPending", "creating", "extCreate"}
Deleted == {"deleted", "statusDeleting", "unfinalize"}

\* A create is under way only with the finalizer in place, and what was deleted
\* is still gone when the finalizer is removed.
WorkerClause(w) ==
  /\ pc[w] = "orphan" => MayOrphan
  /\ pc[w] = "orphan" /\ fresh[w] => obj.deleting /\ obj.orphan
  /\ pc[w] \in Creating => Held
  /\ pc[w] = "extCreate" => obj # Gone
  /\ pc[w] \in Deleted => ~ext.there

LeakInv == ObjectClause /\ ExtClause /\ \A w \in Workers : WorkerClause(w)

\* Once past the recovery, no create is incomplete until the next one begins.
GraceInv ==
  \A w \in Workers :
    pc[w] \in {"finalize", "create", "markPending"} /\ obj # Gone => ~obj.incomplete

\* A create lands and is visible before the grace period of its mark is over.
VisibleInGrace == CreateTicks + Lag <= Grace

\* A resource that is there and cannot be seen yet has a young mark: the time
\* left until it is visible and the age of the mark stay within what Create and
\* the visibility take together.
MarkClause ==
  obj # Gone => /\ obj.incomplete => obj.started
                /\ ext.lag > 0 => obj.age + ext.lag <= CreateTicks + Lag

CallClause(w) ==
  /\ pc[w] \in {"creating", "extCreate"} /\ obj # Gone => obj.age <= CreateTicks
  /\ pc[w] = "recover" /\ fresh[w] => el[w] = obj /\ obj.incomplete
  /\ pc[w] = "clearPending" /\ fresh[w] => ~ext.there

RollbackInv == MarkClause /\ \A w \in Workers : CallClause(w)

-----------------------------------------------------------------------------
(* Lemmas about the operators                                              *)

\* The handlers of the informer create an event of a known type, or none.
LEMMA UpdateFuncType ==
  ASSUME NEW n,
         UpdateFunc(n) # Ignored
  PROVE  UpdateFunc(n).type \in EventTypes /\ UpdateFunc(n).guarded \in BOOLEAN
<1>1. DOMAIN WatchAnnotations = 1..2
  BY DEF WatchAnnotations
<1>2. \A i \in 1..2 : WatchAnnotations[i].type \in EventTypes
  BY DEF WatchAnnotations, EventTypes
<1>3. CASE ~n.deleting /\ Triggered(n) # {}
  <2>1. Triggered(n) \subseteq 1..2
    BY <1>1 DEF Triggered
  <2> DEFINE first == CHOOSE i \in Triggered(n) : \A j \in Triggered(n) : i <= j
  <2>2. \E i \in Triggered(n) : \A j \in Triggered(n) : i <= j
    <3>1. CASE 1 \in Triggered(n)
      BY <3>1, <2>1
    <3>2. CASE 1 \notin Triggered(n)
      BY <3>2, <2>1, <1>3
    <3> QED BY <3>1, <3>2
  <2>3. first \in 1..2
    BY <2>1, <2>2
  <2>4. UpdateFunc(n) = [type |-> WatchAnnotations[first].type,
                         priority |-> NormalPriority, guarded |-> FALSE]
    BY <1>3 DEF UpdateFunc
  <2> HIDE DEF first
  <2> QED BY <2>3, <2>4, <1>2
<1>4. CASE n.deleting \/ Triggered(n) = {}
  BY <1>4 DEF UpdateFunc, EventTypes, GetEventType, Ignored
<1> QED BY <1>3, <1>4

\* A notification has the type of an event.
LEMMA NotesType ==
  ASSUME NEW old \in Object \cup {Gone}, NEW new \in Object \cup {Gone}
  PROVE  Notes(old, new) \subseteq [type : EventTypes, guarded : BOOLEAN]
<1> DEFINE n == [deleting |-> new.deleting,
                 paused   |-> Change(old.paused, new.paused),
                 pending  |-> Change(old.started, new.started),
                 spec     |-> IF old.spec = new.spec THEN "same" ELSE "changed",
                 sameVersion |-> FALSE]
<1> DEFINE Created(d) == IF d = Ignored THEN {} ELSE {[type |-> d.type, guarded |-> d.guarded]}
<1>1. CASE old = Gone
  <2>1. Notes(old, new) = Created(AddFunc(new.started))
    BY <1>1 DEF Notes
  <2>2. AddFunc(new.started).type \in EventTypes /\ AddFunc(new.started).guarded \in BOOLEAN
    BY DEF AddFunc, GetEventType, EventTypes
  <2> QED BY <2>1, <2>2
<1>2. CASE old # Gone /\ new = Gone
  <2>1. Notes(old, new) = Created(DeleteFunc(old.deleting))
    BY <1>2 DEF Notes
  <2>2. DeleteFunc(old.deleting) # Ignored =>
          /\ DeleteFunc(old.deleting).type \in EventTypes
          /\ DeleteFunc(old.deleting).guarded \in BOOLEAN
    BY Zenon DEF DeleteFunc, GetEventType, EventTypes
  <2> QED BY <2>1, <2>2
<1>3. CASE old # Gone /\ new # Gone
  <2>1. Notes(old, new) = Created(UpdateFunc(n))
    BY <1>3 DEF Notes
  <2> HIDE DEF n
  <2> QED BY <2>1, UpdateFuncType
<1> QED BY <1>1, <1>2, <1>3

\* Where a worker goes is a call.
LEMMA HandlerType == \A e \in EventTypes : Handler[e] \in Calls \ (ElCalls \cup {"idle"})
BY DEF EventTypes, Handler, Calls, ElCalls, AfterGet

\* After the recovery comes a call, ...
LEMMA AfterRecoveryType ==
  ASSUME NEW o \in Object, NEW e \in EventTypes
  PROVE  AfterRecovery(o, e) \in Calls
BY HandlerType DEF AfterRecovery, Calls, UpdateCalls

\* ... after the orphan path too, ...
LEMMA AfterOrphanType ==
  ASSUME NEW o \in Object, NEW e \in EventTypes
  PROVE  AfterOrphan(o, e) \in Calls
BY AfterRecoveryType DEF AfterOrphan, Calls

\* ... and after the first Get.
LEMMA AfterFetchType ==
  ASSUME NEW o \in Object, NEW e \in EventTypes
  PROVE  AfterFetch(o, e) \in Calls
BY AfterOrphanType DEF AfterFetch, Calls, StatusCalls, UpdateCalls

\* The places a handler, the recovery and the orphan path lead to.
Places == {"observe", "create", "update", "delete"}

\* They lead nowhere else, and to the recovery only for an incomplete create.
LEMMA PlacesOf ==
  ASSUME NEW o, NEW e \in EventTypes
  PROVE  /\ Handler[e] \in Places
         /\ AfterRecovery(o, e) \in Places \cup {"finalize"}
         /\ AfterOrphan(o, e) \in Places \cup {"finalize", "recover"}
         /\ AfterOrphan(o, e) = "recover" => o.incomplete
<1>1. Handler[e] \in Places
  BY DEF Handler, EventTypes, Places
<1>2. AfterRecovery(o, e) \in Places \cup {"finalize"}
  BY <1>1 DEF AfterRecovery
<1>3. AfterRecovery(o, e) # "recover"
  BY <1>2 DEF Places
<1> QED BY <1>1, <1>2, <1>3 DEF AfterOrphan, ExternalCreateIncomplete

\* Which Get leads to the calls the proofs ask about.
LEMMA AfterGetFrom ==
  ASSUME NEW label \in DOMAIN AfterGet
  PROVE  /\ AfterGet[label] = "markPending" => label = "create"
         /\ AfterGet[label] = "extCreate" => label = "creating"
         /\ AfterGet[label] = "statusDeleting" => label = "deleted"
         /\ AfterGet[label] \notin {"create", "creating", "deleted", "unfinalize", "orphan",
                                    "recover", "clearPending", "finalize"}
<1>1. label \in {"observe", "create", "update", "delete", "sawNothing", "sawOld", "sawCurrent",
                 "creating", "failed", "created", "report", "explain", "deleted"}
  BY DEF AfterGet
<1>2. CASE label \in {"observe", "create", "update", "delete"}
  BY <1>2 DEF AfterGet
<1>3. CASE label \in {"sawNothing", "sawOld", "sawCurrent", "creating"}
  BY <1>3 DEF AfterGet
<1>4. CASE label \in {"failed", "created", "report", "explain", "deleted"}
  BY <1>4 DEF AfterGet
<1> QED BY <1>1, <1>2, <1>3, <1>4

\* A later Get leads to a call.
LEMMA AfterGetType == \A label \in DOMAIN AfterGet : AfterGet[label] \in Calls
BY DEF AfterGet, Calls, UpdateCalls, StatusCalls

\* An Update that does not end the reconcile leads to a call.
LEMMA AfterUpdateType ==
  ASSUME NEW label \in UpdateCalls, label # "unfinalize",
         NEW o \in Object, NEW e \in EventTypes
  PROVE  AfterUpdate(label, o, e) \in Calls
<1>1. CASE label = "orphan"
  BY <1>1, AfterOrphanType DEF AfterUpdate
<1>2. CASE label \in {"markSucceeded", "clearPending"}
  BY <1>2, AfterRecoveryType DEF AfterUpdate
<1>3. CASE label = "finalize"
  BY <1>3, HandlerType DEF AfterUpdate
<1>4. CASE label \in {"markPending", "markFailed", "markCreated"}
  BY <1>4 DEF AfterUpdate, Calls, AfterGet, StatusCalls
<1> QED BY <1>1, <1>2, <1>3, <1>4 DEF UpdateCalls

\* What is written is an object.
LEMMA MarksType ==
  ASSUME NEW o \in Object
  PROVE  /\ SetExternalCreatePending(o) \in Object
         /\ SetExternalCreateOutcome(o) \in Object
         /\ RemovePending(o) \in Object
         /\ Older(o) \in Object
<1>0. 0 \in 0..Grace
  BY GraceAssumption
<1>1. SetExternalCreatePending(o) \in Object
  <2>1. (~o.outcomeNow) \in BOOLEAN
    OBVIOUS
  <2> QED BY <1>0, <2>1, Zenon DEF SetExternalCreatePending, Object
<1>2. SetExternalCreateOutcome(o) \in Object
  BY Zenon DEF SetExternalCreateOutcome, Object
<1>3. RemovePending(o) \in Object
  BY <1>0, Zenon DEF RemovePending, Object
<1>4. Older(o) \in Object
  <2>1. o.age \in 0..Grace
    BY DEF Object
  <2>2. (IF o.started /\ o.age < Grace THEN o.age + 1 ELSE o.age) \in 0..Grace
    BY <2>1, GraceAssumption
  <2> QED BY <2>2, Zenon DEF Older, Object
<1> QED BY <1>1, <1>2, <1>3, <1>4

\* Every Update writes an object.
LEMMA WrittenType ==
  ASSUME obj \in Object, NEW label \in UpdateCalls
  PROVE  Written[label] \in Object
<1>1. CASE label = "orphan"
  BY <1>1, Zenon DEF Written, Object
<1>2. CASE label \in {"markSucceeded", "markFailed", "markCreated"}
  BY <1>2, MarksType DEF Written
<1>3. CASE label = "clearPending"
  BY <1>3, MarksType DEF Written
<1>4. CASE label = "finalize"
  BY <1>4, Zenon DEF Written, Object
<1>5. CASE label = "markPending"
  BY <1>5, MarksType DEF Written
<1>6. CASE label = "unfinalize"
  BY <1>6, Zenon DEF Written, Object
<1> QED BY <1>1, <1>2, <1>3, <1>4, <1>5, <1>6 DEF UpdateCalls

\* The fields the proofs below ask about.
LEMMA WrittenFields ==
  ASSUME obj \in Object
  PROVE  /\ \A label \in {"markSucceeded", "markFailed", "markCreated"} :
              Written[label] = SetExternalCreateOutcome(obj)
         /\ Written["clearPending"] = RemovePending(obj)
         /\ Written["markPending"] = SetExternalCreatePending(obj)
         /\ Written["finalize"] = [obj EXCEPT !.ours = TRUE]
         /\ Written["orphan"] = [obj EXCEPT !.ours = FALSE]
         /\ Written["unfinalize"] = [obj EXCEPT !.ours = FALSE, !.foreign = FALSE]
BY DEF Written

SameHold(o, n) ==
  /\ n.ours = o.ours /\ n.foreign = o.foreign /\ n.orphan = o.orphan
  /\ n.deleting = o.deleting

\* What the setters of the create annotations change, and what they keep.
LEMMA MarksFields ==
  ASSUME NEW o \in Object
  PROVE  /\ SetExternalCreateOutcome(o).incomplete = FALSE
         /\ SetExternalCreateOutcome(o).age = o.age
         /\ SameHold(o, SetExternalCreateOutcome(o))
         /\ RemovePending(o).incomplete = FALSE
         /\ RemovePending(o).age = 0
         /\ SameHold(o, RemovePending(o))
         /\ SetExternalCreatePending(o).started = TRUE
         /\ SetExternalCreatePending(o).age = 0
         /\ SameHold(o, SetExternalCreatePending(o))
<1>1. /\ SetExternalCreateOutcome(o).incomplete = FALSE
      /\ SetExternalCreateOutcome(o).age = o.age
      /\ SameHold(o, SetExternalCreateOutcome(o))
  BY DEF SetExternalCreateOutcome, Object, SameHold
<1>2. /\ RemovePending(o).incomplete = FALSE
      /\ RemovePending(o).age = 0
      /\ SameHold(o, RemovePending(o))
  BY DEF RemovePending, Object, SameHold
<1>3. /\ SetExternalCreatePending(o).started = TRUE
      /\ SetExternalCreatePending(o).age = 0
      /\ SameHold(o, SetExternalCreatePending(o))
  BY DEF SetExternalCreatePending, Object, SameHold
<1> QED BY <1>1, <1>2, <1>3

\* A settled object is an object or gone.
LEMMA SettleType ==
  ASSUME NEW o \in Object
  PROVE  Settle(o) \in Object \cup {Gone}
BY DEF Settle

-----------------------------------------------------------------------------
(* Lemmas about the parts of an action                                     *)

\* A write keeps the types of the store, ...
LEMMA StoreKeeps ==
  ASSUME StoreInv, NEW new \in Object \cup {Gone}, Store(new)
  PROVE  StoreInv'
<1>1. obj' = new /\ transit' = transit \cup Notes(obj, new)
  BY DEF Store
<1>2. kept' \in BOOLEAN
  BY DEF Store
<1> QED BY <1>1, <1>2, NotesType DEF StoreInv

\* ... the end of a reconcile those of the workers and the queue, ...
LEMMA EndKeeps ==
  ASSUME WorkInv, NEW w \in Workers, pc[w] # "idle",
         NEW now \in SUBSET EventTypes, NEW later \in SUBSET EventTypes, NEW failed,
         End(w, now, later, failed)
  PROVE  WorkInv'
<1>1. evt[w] \in EventTypes
  BY DEF WorkInv
<1>2. queued' \cup delayed' \subseteq EventTypes /\ digests' \subseteq EventTypes
  BY <1>1 DEF End, WorkInv
<1>3. /\ pc' = [pc EXCEPT ![w] = "idle"]
      /\ evt' = [evt EXCEPT ![w] = Absent]
      /\ el' = [el EXCEPT ![w] = Absent]
      /\ spared' = [spared EXCEPT ![w] = FALSE]
  BY DEF End
<1>4. "idle" \in Calls /\ "idle" \notin ElCalls
  BY DEF Calls, ElCalls
<1> QED BY <1>2, <1>3, <1>4 DEF WorkInv

\* ... and so does going on to the next call.
LEMMA GotoKeeps ==
  ASSUME WorkInv, NEW w \in Workers, pc[w] # "idle",
         NEW label \in Calls, NEW o, label \in ElCalls => o \in Object,
         pc[w] = "fetch" => o \in Object, Goto(w, label, o)
  PROVE  WorkInv'
<1>1. evt[w] \in EventTypes
  BY DEF WorkInv
<1>2. /\ pc' = [pc EXCEPT ![w] = label]
      /\ el' = [el EXCEPT ![w] = IF label \in ElCalls THEN o ELSE Absent]
      /\ UNCHANGED <<evt, queued, delayed, digests>>
  BY DEF Goto, ElCalls
<1>3. (IF pc[w] = "fetch" THEN o.orphan ELSE spared[w]) \in BOOLEAN
  BY DEF WorkInv, Object
<1>4. spared' \in [Workers -> BOOLEAN]
  BY <1>3 DEF Goto, WorkInv
<1> QED BY <1>1, <1>2, <1>4 DEF WorkInv

\* The environment's part of an action.
LEMMA FaultKeeps ==
  ASSUME BoundsInv, Fault \/ NoFault, UNCHANGED <<acts, crashes>>
  PROVE  BoundsInv'
BY ReconcileConstants DEF BoundsInv, Fault, NoFault

-----------------------------------------------------------------------------
(* Types                                                                   *)

\* The invariant holds initially.
LEMMA ReconcileInitInv == Init => ReconcileInv
<1> SUFFICES ASSUME Init PROVE ReconcileInv
  OBVIOUS
<1>1. StoreInv /\ FreshInv
  BY Zenon DEF Init, StoreInv, FreshInv
<1>2. ext \in External
  BY ReconcileConstants DEF Init, External
<1>3. WorkInv
  BY DEF Init, WorkInv, Calls, ElCalls
<1>4. BoundsInv
  BY ReconcileConstants DEF Init, BoundsInv
<1> QED BY <1>1, <1>2, <1>3, <1>4 DEF ReconcileInv

\* A call of a worker keeps the invariant.
LEMMA StepInv ==
  ASSUME ReconcileInv, NEW w \in Workers, Step(w)
  PROVE  ReconcileInv'
<1> USE DEF ReconcileInv
<1>0. /\ fresh \in [Workers -> BOOLEAN]
      /\ pc[w] # "idle" => evt[w] \in EventTypes
      /\ fresh[w] => obj \in Object
      /\ obj # Gone => obj \in Object
      /\ pc[w] \in ElCalls => el[w] \in Object
  BY DEF FreshInv, WorkInv, StoreInv
<1>1. CASE Fetch(w)
  <2>1. pc[w] # "idle" /\ UNCHANGED <<obj, ext, transit, kept, acts, crashes>>
    BY <1>1 DEF Fetch
  <2>2. BoundsInv'
    BY <1>1, <2>1, FaultKeeps DEF Fetch
  <2>3. StoreInv' /\ (ext \in External)'
    BY <2>1 DEF StoreInv
  <2>4. FreshInv'
    BY <1>1, <2>1, Zenon DEF Fetch, FreshInv
  <2>5. WorkInv'
    <3>1. CASE obj # Gone /\ Goto(w, AfterFetch(obj, evt[w]), obj)
      BY <3>1, <2>1, <1>0, AfterFetchType, GotoKeeps
    <3>2. CASE Return(w)
      BY <3>2, <2>1, EndKeeps, Zenon DEF Return
    <3> QED BY <1>1, <3>1, <3>2 DEF Fetch
  <2> QED BY <2>2, <2>3, <2>4, <2>5
<1>2. CASE Recover(w)
  <2>1. pc[w] \notin {"idle", "fetch"} /\ UNCHANGED <<obj, ext, transit, fresh, kept, acts, crashes>>
    BY <1>2 DEF Recover
  <2>2. BoundsInv'
    BY <1>2, <2>1, FaultKeeps, Zenon DEF Recover
  <2>3. StoreInv' /\ (ext \in External)' /\ FreshInv'
    BY <2>1 DEF StoreInv, FreshInv
  <2>4. WorkInv'
    <3>1. CASE \E label \in {"refuse", "markSucceeded", "clearPending"} : Goto(w, label, Absent)
      <4>1. \A label \in {"refuse", "markSucceeded", "clearPending"} :
              label \in Calls /\ label \notin ElCalls
        BY DEF Calls, ElCalls, UpdateCalls, StatusCalls
      <4> QED BY <3>1, <4>1, <2>1, GotoKeeps
    <3>2. CASE End(w, {}, {evt[w]}, FALSE)
      BY <3>2, <2>1, <1>0, EndKeeps, Zenon
    <3> QED BY <1>2, <3>1, <3>2, Zenon DEF Recover
  <2> QED BY <2>2, <2>3, <2>4
<1>3. CASE Get(w)
  <2>1. pc[w] \notin {"idle", "fetch"} /\ UNCHANGED <<obj, ext, transit, kept, acts, crashes>>
    BY <1>3 DEF Get, AfterGet
  <2>2. BoundsInv'
    BY <1>3, <2>1, FaultKeeps DEF Get
  <2>3. StoreInv' /\ (ext \in External)'
    BY <2>1 DEF StoreInv
  <2>4. FreshInv'
    BY <1>3, <2>1, Zenon DEF Get, FreshInv
  <2>5. WorkInv'
    <3>1. CASE obj # Gone /\ Goto(w, AfterGet[pc[w]], obj)
      BY <1>3, <3>1, <2>1, <1>0, AfterGetType, GotoKeeps DEF Get
    <3>2. CASE ReturnError(w)
      BY <3>2, <2>1, EndKeeps, Zenon DEF ReturnError
    <3> QED BY <1>3, <3>1, <3>2 DEF Get
  <2> QED BY <2>2, <2>3, <2>4, <2>5
<1>4. CASE Update(w)
  <2> DEFINE new == Written[pc[w]]
  <2>1. pc[w] \notin {"idle", "fetch"} /\ pc[w] \in UpdateCalls /\ fresh[w] /\ UNCHANGED <<ext, bounds>>
    BY <1>4 DEF Update, UpdateCalls
  <2>2. new \in Object
    BY <2>1, <1>0, WrittenType
  <2>3. Store(Settle(new))
    BY <1>4 DEF Update
  <2>4. StoreInv'
    BY <2>2, <2>3, SettleType, StoreKeeps
  <2>5. FreshInv'
    <3>1. CASE Settle(new) = Gone
      BY <1>4, <3>1, Zenon DEF Update, FreshInv
    <3>2. CASE Settle(new) # Gone
      <4>1. obj' # Gone
        BY <3>2, <2>3 DEF Store
      <4>2. fresh' = [v \in Workers |-> v = w]
        BY <1>4, <3>2 DEF Update, Wrote
      <4> QED BY <4>1, <4>2 DEF FreshInv
    <3> QED BY <3>1, <3>2
  <2>6. WorkInv'
    <3>1. CASE pc[w] = "unfinalize"
      <4>1. End(w, {}, {}, FALSE)
        BY <1>4, <3>1, Zenon DEF Update, Return
      <4> QED BY <4>1, <2>1, EndKeeps, Zenon
    <3>2. CASE pc[w] # "unfinalize"
      <4>1. Goto(w, AfterUpdate(pc[w], new, evt[w]), new)
        BY <1>4, <3>2 DEF Update
      <4>2. AfterUpdate(pc[w], new, evt[w]) \in Calls
        BY <3>2, <2>1, <2>2, <1>0, AfterUpdateType
      <4> HIDE DEF new
      <4> QED BY <4>1, <4>2, <2>1, <2>2, GotoKeeps, Zenon
    <3> QED BY <3>1, <3>2
  <2>7. BoundsInv' /\ (ext \in External)'
    BY <2>1 DEF BoundsInv, bounds
  <2> QED BY <2>4, <2>5, <2>6, <2>7
<1>5. CASE UpdateFails(w)
  <2>1. pc[w] \notin {"idle", "fetch"} /\ UNCHANGED <<obj, ext, transit, fresh, kept, acts, crashes>>
    BY <1>5 DEF UpdateFails, UpdateCalls
  <2>2. BoundsInv'
    BY <1>5, <2>1, FaultKeeps DEF UpdateFails
  <2>3. StoreInv' /\ (ext \in External)' /\ FreshInv'
    BY <2>1 DEF StoreInv, FreshInv
  <2>4. WorkInv'
    <3>1. CASE Goto(w, "explain", Absent)
      <4>1. "explain" \in Calls /\ "explain" \notin ElCalls
        BY DEF Calls, ElCalls, AfterGet
      <4> QED BY <3>1, <4>1, <2>1, GotoKeeps
    <3>2. CASE ReturnError(w)
      BY <3>2, <2>1, EndKeeps, Zenon DEF ReturnError
    <3> QED BY <1>5, <3>1, <3>2 DEF UpdateFails
  <2> QED BY <2>2, <2>3, <2>4
<1>6. CASE UpdateStatus(w)
  <2>1. pc[w] \notin {"idle", "fetch"} /\ fresh[w] /\ UNCHANGED <<ext, bounds>>
    BY <1>6 DEF UpdateStatus, StatusCalls
  <2>2. Store(obj) /\ fresh' = [v \in Workers |-> v = w]
    BY <1>6 DEF UpdateStatus, Wrote
  <2>3. StoreInv'
    BY <2>1, <2>2, <1>0, StoreKeeps
  <2>4. FreshInv'
    <3>1. obj' # Gone
      BY <2>1, <2>2 DEF Store, FreshInv
    <3> QED BY <3>1, <2>2 DEF FreshInv
  <2>5. WorkInv'
    <3>1. CASE Goto(w, "unfinalize", Absent)
      <4>1. "unfinalize" \in Calls /\ "unfinalize" \notin ElCalls
        BY DEF Calls, ElCalls, UpdateCalls
      <4> QED BY <3>1, <4>1, <2>1, GotoKeeps
    <3>2. CASE End(w, {}, {}, pc[w] = "statusError")
      BY <3>2, <2>1, EndKeeps
    <3> QED BY <1>6, <3>1, <3>2 DEF UpdateStatus
  <2>6. BoundsInv' /\ (ext \in External)'
    BY <2>1 DEF BoundsInv, bounds
  <2> QED BY <2>3, <2>4, <2>5, <2>6
<1>7. CASE UpdateStatusFails(w)
  <2>1. pc[w] \notin {"idle", "fetch"} /\ UNCHANGED <<obj, ext, transit, fresh, kept, acts, crashes>>
    BY <1>7 DEF UpdateStatusFails, StatusCalls
  <2>2. BoundsInv'
    BY <1>7, <2>1, FaultKeeps DEF UpdateStatusFails
  <2>3. StoreInv' /\ (ext \in External)' /\ FreshInv'
    BY <2>1 DEF StoreInv, FreshInv
  <2>4. WorkInv'
    BY <1>7, <2>1, EndKeeps, Zenon DEF UpdateStatusFails, ReturnError
  <2> QED BY <2>2, <2>3, <2>4
<1>8. CASE QueueFollowUp(w)
  <2>1. pc[w] \notin {"idle", "fetch"} /\ UNCHANGED <<obj, ext, transit, fresh, kept, bounds>>
    BY <1>8, Zenon DEF QueueFollowUp
  <2>2. StoreInv' /\ (ext \in External)' /\ FreshInv' /\ BoundsInv'
    BY <2>1 DEF StoreInv, FreshInv, BoundsInv, bounds
  <2>3. \E e \in EventTypes : End(w, {e}, {}, FALSE)
    BY <1>8, Zenon DEF QueueFollowUp, EventTypes
  <2>4. WorkInv'
    BY <2>1, <2>3, EndKeeps, Zenon
  <2> QED BY <2>2, <2>4
<1>9. CASE ExtObserve(w)
  <2>1. pc[w] \notin {"idle", "fetch"} /\ UNCHANGED <<obj, ext, transit, fresh, kept, acts, crashes>>
    BY <1>9 DEF ExtObserve
  <2>2. BoundsInv'
    BY <1>9, <2>1, FaultKeeps DEF ExtObserve
  <2>3. StoreInv' /\ (ext \in External)' /\ FreshInv'
    BY <2>1 DEF StoreInv, FreshInv
  <2>4. \E label \in {"explain", "sawNothing", "sawOld", "sawCurrent"} : Goto(w, label, Absent)
    BY <1>9 DEF ExtObserve
  <2>5. \A label \in {"explain", "sawNothing", "sawOld", "sawCurrent"} :
          label \in Calls /\ label \notin ElCalls
    BY DEF Calls, ElCalls, AfterGet
  <2>6. WorkInv'
    BY <2>1, <2>4, <2>5, GotoKeeps
  <2> QED BY <2>2, <2>3, <2>6
<1>10. CASE ExtCreate(w)
  <2>1. pc[w] \notin {"idle", "fetch"} /\ pc[w] \in ElCalls /\ UNCHANGED <<obj, transit, fresh, acts, crashes>>
    BY <1>10 DEF ExtCreate, ElCalls
  <2>2. BoundsInv'
    BY <1>10, <2>1, FaultKeeps DEF ExtCreate
  <2>3. FreshInv'
    BY <2>1 DEF FreshInv
  <2>4. el[w].spec \in {1, 2}
    BY <2>1, <1>0 DEF Object
  <2>5. (ext \in External)' /\ kept' \in BOOLEAN
    <3>1. CASE UNCHANGED <<ext, kept>>
      BY <3>1 DEF StoreInv
    <3>2. CASE kept' = FALSE /\ \E lag \in 0..Lag :
                 ext' = [there |-> TRUE, lag |-> lag, spec |-> el[w].spec]
      <4>1. PICK lag \in 0..Lag : ext' = [there |-> TRUE, lag |-> lag, spec |-> el[w].spec]
        BY <3>2, Zenon
      <4>2. ext' \in [there : BOOLEAN, lag : 0..Lag, spec : {1, 2}]
        BY <4>1, <2>4
      <4> QED BY <3>2, <4>2, Zenon DEF External
    <3> QED BY <1>10, <3>1, <3>2, Zenon DEF ExtCreate, Land
  <2>6. StoreInv'
    BY <2>1, <2>5 DEF StoreInv
  <2>7. "created" \in Calls \ ElCalls /\ "failed" \in Calls \ ElCalls
    BY Zenon DEF Calls, ElCalls, AfterGet
  <2>8. WorkInv'
    BY <1>10, <2>1, <2>7, GotoKeeps DEF ExtCreate
  <2> QED BY <2>2, <2>3, <2>5, <2>6, <2>8
<1>11. CASE ExtUpdate(w)
  <2>1. pc[w] \notin {"idle", "fetch"} /\ pc[w] \in ElCalls /\ UNCHANGED <<obj, transit, fresh, kept, acts, crashes>>
    BY <1>11 DEF ExtUpdate, ElCalls
  <2>2. BoundsInv'
    BY <1>11, <2>1, FaultKeeps DEF ExtUpdate
  <2>3. StoreInv' /\ FreshInv'
    BY <2>1 DEF StoreInv, FreshInv
  <2>4. el[w].spec \in {1, 2}
    BY <2>1, <1>0 DEF Object
  <2>5. (ext \in External)'
    BY <1>11, <2>4 DEF ExtUpdate, External
  <2>6. "report" \in Calls \ ElCalls /\ "explain" \in Calls \ ElCalls
    BY DEF Calls, ElCalls, AfterGet
  <2>7. WorkInv'
    BY <1>11, <2>1, <2>6, GotoKeeps DEF ExtUpdate
  <2> QED BY <2>2, <2>3, <2>5, <2>7
<1>12. CASE ExtDelete(w)
  <2>1. pc[w] \notin {"idle", "fetch"} /\ UNCHANGED <<obj, transit, fresh, acts, crashes>>
    BY <1>12 DEF ExtDelete
  <2>2. BoundsInv'
    BY <1>12, <2>1, FaultKeeps DEF ExtDelete
  <2>3. (ext \in External)' /\ kept' \in BOOLEAN
    <3>1. CASE UNCHANGED <<ext, kept>>
      BY <3>1 DEF StoreInv
    <3>2. CASE ext' = [ext EXCEPT !.there = FALSE, !.lag = 0] /\ kept' = FALSE
      <4>1. 0 \in 0..Lag
        BY ReconcileConstants
      <4> QED BY <3>2, <4>1, Zenon DEF External
    <3> QED BY <1>12, <3>1, <3>2, Zenon DEF ExtDelete
  <2>4. StoreInv' /\ FreshInv'
    BY <2>1, <2>3 DEF StoreInv, FreshInv
  <2>5. "deleted" \in Calls \ ElCalls /\ "statusError" \in Calls \ ElCalls
    BY DEF Calls, ElCalls, AfterGet, StatusCalls
  <2>6. WorkInv'
    BY <1>12, <2>1, <2>5, GotoKeeps DEF ExtDelete
  <2> QED BY <2>2, <2>3, <2>4, <2>6
<1> QED
  BY <1>1, <1>2, <1>3, <1>4, <1>5, <1>6, <1>7, <1>8, <1>9, <1>10, <1>11, <1>12 DEF Step

\* So does what happens around the workers.
LEMMA UserWriteKeeps ==
  ASSUME ReconcileInv, NEW new \in Object \cup {Gone}, UserWrite(new)
  PROVE  ReconcileInv'
<1> USE DEF ReconcileInv
<1>1. Store(new) /\ UNCHANGED <<ext, queued, delayed, digests, pc, evt, el, spared, faults, crashes>>
  BY DEF UserWrite
<1>2. StoreInv'
  BY <1>1, StoreKeeps
<1>3. WorkInv' /\ (ext \in External)'
  BY <1>1 DEF WorkInv
<1>4. FreshInv'
  BY DEF UserWrite, FreshInv
<1>5. BoundsInv'
  BY <1>1, ReconcileConstants DEF UserWrite, BoundsInv
<1> QED BY <1>2, <1>3, <1>4, <1>5

\* What users do keeps the invariant.
LEMMA UsersInv ==
  ASSUME ReconcileInv, Users
  PROVE  ReconcileInv'
<1>0. obj # Gone => obj \in Object
  BY DEF ReconcileInv, StoreInv
<1>1. CASE UserCreate
  <2>1. PICK f, o \in BOOLEAN : UserWrite(NewObject(f, o))
    BY <1>1 DEF UserCreate
  <2>2. NewObject(f, o) \in Object
    <3>1. 0 \in 0..Grace
      BY GraceAssumption
    <3> QED BY <3>1 DEF NewObject, Object
  <2> QED BY <2>1, <2>2, UserWriteKeeps
<1>2. CASE UserEdit
  <2>1. obj \in Object /\ UserWrite([obj EXCEPT !.spec = 3 - @])
    BY <1>0, <1>2 DEF UserEdit
  <2>2. obj.spec \in {1, 2}
    BY <2>1 DEF Object
  <2>3. 3 - obj.spec \in {1, 2}
    BY <2>2
  <2>4. [obj EXCEPT !.spec = 3 - @] \in Object
    BY <2>1, <2>3 DEF Object
  <2> QED BY <2>1, <2>4, UserWriteKeeps
<1>3. CASE UserPause
  <2>1. obj \in Object /\ UserWrite([obj EXCEPT !.paused = ~@])
    BY <1>0, <1>3 DEF UserPause
  <2>2. (~obj.paused) \in BOOLEAN
    OBVIOUS
  <2>3. [obj EXCEPT !.paused = ~@] \in Object
    BY <2>1, <2>2, Zenon DEF Object
  <2> QED BY <2>1, <2>3, UserWriteKeeps
<1>4. CASE UserDelete
  <2>1. obj \in Object /\ UserWrite(Settle([obj EXCEPT !.deleting = TRUE]))
    BY <1>0, <1>4 DEF UserDelete
  <2>2. [obj EXCEPT !.deleting = TRUE] \in Object
    BY <2>1, Zenon DEF Object
  <2> QED BY <2>1, <2>2, SettleType, UserWriteKeeps
<1>5. CASE UserUnmark
  BY <1>0, <1>5, MarksType, UserWriteKeeps DEF UserUnmark
<1>6. CASE ForeignRelease
  <2>1. obj \in Object /\ UserWrite(Settle([obj EXCEPT !.foreign = FALSE]))
    BY <1>0, <1>6 DEF ForeignRelease
  <2>2. [obj EXCEPT !.foreign = FALSE] \in Object
    BY <2>1, Zenon DEF Object
  <2> QED BY <2>1, <2>2, SettleType, UserWriteKeeps
<1>7. CASE Drift
  <2>1. 0 \in 0..Lag /\ MaxUserActs \in Nat
    BY ReconcileConstants
  <2>2. (ext \in External)'
    BY <1>7, <2>1, Zenon DEF Drift, External, ReconcileInv
  <2>3. StoreInv' /\ WorkInv' /\ FreshInv'
    BY <1>7 DEF Drift, work, ReconcileInv, StoreInv, WorkInv, FreshInv
  <2>4. BoundsInv'
    BY <1>7, <2>1 DEF Drift, ReconcileInv, BoundsInv
  <2> QED BY <2>2, <2>3, <2>4 DEF ReconcileInv
<1>8. CASE UserPolicy
  <2>1. obj \in Object /\ UserWrite([obj EXCEPT !.orphan = ~@])
    BY <1>0, <1>8 DEF UserPolicy
  <2>2. (~obj.orphan) \in BOOLEAN
    OBVIOUS
  <2>3. [obj EXCEPT !.orphan = ~@] \in Object
    BY <2>1, <2>2, Zenon DEF Object
  <2> QED BY <2>1, <2>3, UserWriteKeeps
<1> QED BY <1>1, <1>2, <1>3, <1>4, <1>5, <1>6, <1>7, <1>8 DEF Users

\* Ageing an object makes its annotations older; nothing else ages.
LEMMA AgedType ==
  ASSUME NEW o \in Object \cup {Gone, Absent}
  PROVE  /\ Aged(o) = IF o \in Object THEN Older(o) ELSE o
         /\ o \in Object => Aged(o) \in Object
BY MarksType, ReconcileConstants DEF Aged

\* The passing of time keeps the invariant.
LEMMA TickInv ==
  ASSUME ReconcileInv, Tick
  PROVE  ReconcileInv'
<1> USE DEF ReconcileInv
<1>1. obj' \in Object \cup {Gone} /\ (obj' = Gone <=> obj = Gone)
  BY AgedType, ReconcileConstants DEF Tick, StoreInv
<1>2. StoreInv' /\ FreshInv' /\ BoundsInv'
  BY <1>1 DEF Tick, StoreInv, FreshInv, BoundsInv, bounds
<1>3. (ext \in External)'
  <2> DEFINE left == IF ext.lag > 0 THEN ext.lag - 1 ELSE 0
  <2>1. left \in 0..Lag
    <3>1. ext.lag \in 0..Lag /\ Lag \in Nat
      BY ReconcileConstants DEF External
    <3> QED BY <3>1
  <2>2. ext' = [ext EXCEPT !.lag = left]
    BY DEF Tick
  <2> HIDE DEF left
  <2> QED BY <2>1, <2>2 DEF External
<1>4. WorkInv'
  <2>0. el' = [w \in Workers |-> Aged(el[w])]
    BY DEF Tick
  <2>1. \A w \in Workers : /\ Aged(el[w]) \in Object \cup {Absent}
                           /\ el[w] \in Object => Aged(el[w]) \in Object
    <3> TAKE w \in Workers
    <3>1. el[w] \in Object \cup {Absent}
      BY DEF WorkInv
    <3> QED BY <3>1, AgedType
  <2>2. el' \in [Workers -> Object \cup {Absent}]
    BY <2>0, <2>1
  <2> QED BY <2>0, <2>1, <2>2 DEF Tick, WorkInv
<1> QED BY <1>2, <1>3, <1>4

\* A crash of the controller keeps the invariant.
LEMMA CrashInv ==
  ASSUME ReconcileInv, Crash
  PROVE  ReconcileInv'
<1> USE DEF ReconcileInv
<1>1. transit' \subseteq [type : EventTypes, guarded : BOOLEAN]
  BY NotesType DEF Crash, StoreInv
<1>2. StoreInv' /\ (ext \in External)' /\ FreshInv'
  BY <1>1 DEF Crash, StoreInv, FreshInv
<1>3. WorkInv'
  BY DEF Crash, WorkInv, Calls, ElCalls
<1>4. BoundsInv'
  BY ReconcileConstants DEF Crash, BoundsInv
<1> QED BY <1>2, <1>3, <1>4

\* Every step keeps the invariant.
LEMMA ReconcileNextInv == ReconcileInv /\ [Next]_vars => ReconcileInv'
<1> SUFFICES ASSUME ReconcileInv, [Next]_vars PROVE ReconcileInv'
  OBVIOUS
<1>1. ASSUME NEW w \in Workers, NEW e \in EventTypes, Take(w, e)
      PROVE  ReconcileInv'
  <2>1. StoreInv' /\ (ext \in External)' /\ FreshInv' /\ BoundsInv'
    BY <1>1 DEF Take, ReconcileInv, StoreInv, FreshInv, BoundsInv, bounds
  <2>2. "fetch" \in Calls /\ "fetch" \notin ElCalls
    BY DEF Calls, ElCalls
  <2>3. WorkInv'
    BY <1>1, <2>2 DEF Take, ReconcileInv, WorkInv
  <2> QED BY <2>1, <2>3 DEF ReconcileInv
<1>2. ASSUME Deliver PROVE ReconcileInv'
  <2>1. PICK n \in transit : n \in [type : EventTypes, guarded : BOOLEAN] /\
          transit' = transit \ {n} /\ queued' \in {queued, queued \cup {n.type}} /\
          digests' \in {digests, digests \cup {n.type}}
    BY <1>2 DEF Deliver, ReconcileInv, StoreInv
  <2>2. UNCHANGED <<obj, ext, delayed, work, kept, bounds>>
    BY <1>2 DEF Deliver
  <2>3. StoreInv' /\ (ext \in External)' /\ FreshInv' /\ BoundsInv'
    BY <2>1, <2>2 DEF ReconcileInv, StoreInv, FreshInv, BoundsInv, bounds, work
  <2>4. WorkInv'
    BY <2>1, <2>2 DEF ReconcileInv, WorkInv, work
  <2> QED BY <2>3, <2>4 DEF ReconcileInv
<1>3. ASSUME Resync PROVE ReconcileInv'
  <2> DEFINE n == [deleting |-> obj.deleting, paused |-> "same", pending |-> "same",
                   spec |-> "same", sameVersion |-> TRUE]
  <2>1. /\ transit' = transit \cup {[type |-> UpdateFunc(n).type, guarded |-> UpdateFunc(n).guarded]}
        /\ UNCHANGED <<obj, ext, queued, delayed, digests, work, kept, bounds>>
    BY <1>3 DEF Resync
  <2>2. UpdateFunc(n) # Ignored
    <3>1. n.sameVersion /\ n.spec = "same" /\ n.paused = "same" /\ n.pending = "same"
      OBVIOUS
    <3>2. ~Trigger("OnAny", "same") /\ ~Trigger("OnDelete", "same")
      BY Zenon DEF Trigger
    <3>3. \A i \in 1..2 :
            ~Trigger(WatchAnnotations[i].onAction, n[WatchAnnotations[i].annotation])
      BY <3>1, <3>2 DEF WatchAnnotations
    <3> HIDE DEF n
    <3>4. Triggered(n) = {}
      BY <3>3 DEF Triggered, WatchAnnotations
    <3> QED BY <3>1, <3>4 DEF UpdateFunc, Ignored, GetEventType
  <2>3. UpdateFunc(n).type \in EventTypes /\ UpdateFunc(n).guarded \in BOOLEAN
    BY <2>2, UpdateFuncType
  <2> HIDE DEF n
  <2>4. StoreInv'
    BY <2>1, <2>3 DEF ReconcileInv, StoreInv
  <2>5. (ext \in External)' /\ FreshInv' /\ BoundsInv' /\ WorkInv'
    BY <2>1 DEF ReconcileInv, FreshInv, BoundsInv, WorkInv, bounds, work
  <2> QED BY <2>4, <2>5 DEF ReconcileInv
<1>4. CASE UNCHANGED vars
  BY <1>4 DEF vars, work, bounds, ReconcileInv, StoreInv, FreshInv, BoundsInv, WorkInv
<1> QED BY <1>1, <1>2, <1>3, <1>4, StepInv, UsersInv, TickInv, CrashInv DEF Next

\* Every variable keeps its type, for any number of workers, any bounds and
\* whatever users do: no call is made without an event and the object it
\* needs, and no write with a copy that is still current finds the object gone.
THEOREM ReconcileTypes == Spec => []TypeOK
<1>1. ReconcileInv => TypeOK
  BY DEF ReconcileInv, StoreInv, WorkInv, FreshInv, BoundsInv, TypeOK
<1> QED BY <1>1, ReconcileInitInv, ReconcileNextInv, PTL DEF Spec

-----------------------------------------------------------------------------
(* What a call does to the worker that makes it and to the two resources   *)

\* Where Goto takes the worker, and with which copy of the object.
LEMMA GotoAt ==
  ASSUME WorkInv, NEW w \in Workers, NEW label, NEW o, Goto(w, label, o)
  PROVE  /\ pc'[w] = label
         /\ label \in ElCalls => el'[w] = o
BY DEF WorkInv, Goto, ElCalls

\* The policy is looked at when the worker leaves the first Get.
LEMMA GotoSpares ==
  ASSUME WorkInv, NEW w \in Workers, NEW label, NEW o, Goto(w, label, o), pc[w] = "fetch"
  PROVE  spared'[w] = o.orphan
BY DEF WorkInv, Goto

\* After the end of a reconcile the worker is idle.
LEMMA EndAt ==
  ASSUME WorkInv, NEW w \in Workers, NEW now, NEW later, NEW failed,
         End(w, now, later, failed)
  PROVE  pc'[w] = "idle"
BY Zenon DEF WorkInv, End

\* The first Get writes nothing; its copy decides where the worker goes.
LEMMA FetchEffect ==
  ASSUME ReconcileInv, NEW w \in Workers, Fetch(w)
  PROVE  /\ UNCHANGED <<obj, ext, kept, acts>>
         /\ \/ /\ pc'[w] = AfterFetch(obj, evt[w])
               /\ pc'[w] \in ElCalls => el'[w] = obj
               /\ spared'[w] = obj.orphan
               /\ obj # Gone
            \/ pc'[w] = "idle"
<1> USE DEF ReconcileInv
<1>1. CASE obj # Gone /\ Goto(w, AfterFetch(obj, evt[w]), obj)
  <2>1. spared'[w] = obj.orphan
    BY <1>1, GotoSpares DEF Fetch
  <2> QED BY <1>1, <2>1, GotoAt DEF Fetch
<1>2. CASE Return(w)
  BY <1>2, EndAt, Zenon DEF Fetch, Return
<1> QED BY <1>1, <1>2, Zenon DEF Fetch

\* A later Get writes nothing; the worker goes on or gives up.
LEMMA GetEffect ==
  ASSUME ReconcileInv, NEW w \in Workers, Get(w)
  PROVE  /\ UNCHANGED <<obj, ext, kept, acts>>
         /\ \/ /\ pc[w] \in DOMAIN AfterGet
               /\ pc'[w] = AfterGet[pc[w]]
               /\ obj # Gone
            \/ pc'[w] = "idle"
<1> USE DEF ReconcileInv
<1>1. CASE obj # Gone /\ Goto(w, AfterGet[pc[w]], obj)
  BY <1>1, GotoAt DEF Get
<1>2. CASE ReturnError(w)
  BY <1>2, EndAt, Zenon DEF Get, ReturnError
<1> QED BY <1>1, <1>2, Zenon DEF Get

\* The recovery writes nothing, and decides by the copy it was handed and what
\* is visible.
LEMMA RecoverEffect ==
  ASSUME ReconcileInv, NEW w \in Workers, Recover(w)
  PROVE  /\ UNCHANGED <<obj, ext, kept, acts, fresh>>
         /\ pc[w] = "recover"
         /\ pc'[w] \in {"refuse", "markSucceeded", "clearPending", "idle"}
         /\ pc'[w] = "clearPending" => ~Visible /\ ~ExternalCreatePendingDuring(el[w])
<1> USE DEF ReconcileInv
<1>0. UNCHANGED <<obj, ext, kept, acts, fresh>> /\ pc[w] = "recover"
  BY DEF Recover
<1>1. CASE Goto(w, "refuse", Absent) \/ Goto(w, "markSucceeded", Absent)
  <2>1. pc'[w] \in {"refuse", "markSucceeded"}
    BY <1>1, GotoAt
  <2> QED BY <1>0, <2>1
<1>2. CASE End(w, {}, {evt[w]}, FALSE)
  <2>1. pc'[w] = "idle"
    BY <1>2, EndAt, Zenon
  <2> QED BY <1>0, <2>1
<1>3. CASE /\ ~Visible /\ ~ExternalCreatePendingDuring(el[w])
           /\ Goto(w, "clearPending", Absent)
  <2>1. pc'[w] = "clearPending"
    BY <1>3, GotoAt
  <2> QED BY <1>0, <1>3, <2>1
<1>4. \/ Goto(w, "refuse", Absent) \/ Goto(w, "markSucceeded", Absent)
      \/ End(w, {}, {evt[w]}, FALSE)
      \/ /\ ~Visible /\ ~ExternalCreatePendingDuring(el[w])
         /\ Goto(w, "clearPending", Absent)
  BY Zenon DEF Recover
<1> QED BY <1>1, <1>2, <1>3, <1>4, Zenon

\* Calls that change neither resource, and after which nothing is known.
LEMMA QuietEffect ==
  ASSUME ReconcileInv, NEW w \in Workers,
         UpdateFails(w) \/ UpdateStatusFails(w) \/ QueueFollowUp(w) \/ ExtObserve(w)
  PROVE  /\ UNCHANGED <<obj, ext, kept, acts>>
         /\ pc'[w] \in {"idle", "explain", "sawNothing", "sawOld", "sawCurrent"}
<1> USE DEF ReconcileInv
<1>1. CASE UpdateFails(w)
  BY <1>1, GotoAt, EndAt, Zenon DEF UpdateFails, ReturnError
<1>2. CASE UpdateStatusFails(w)
  BY <1>2, EndAt, Zenon DEF UpdateStatusFails, ReturnError
<1>3. CASE QueueFollowUp(w)
  BY <1>3, EndAt, Zenon DEF QueueFollowUp, bounds
<1>4. CASE ExtObserve(w)
  BY <1>4, GotoAt, Zenon DEF ExtObserve
<1> QED BY <1>1, <1>2, <1>3, <1>4

\* A status write changes nothing that is modelled of the object.
LEMMA StatusEffect ==
  ASSUME ReconcileInv, NEW w \in Workers, UpdateStatus(w)
  PROVE  /\ UNCHANGED <<obj, ext, kept, acts>>
         /\ obj # Gone
         /\ \/ pc[w] = "statusDeleting" /\ pc'[w] = "unfinalize"
            \/ pc'[w] = "idle"
<1> USE DEF ReconcileInv
<1>1. obj # Gone /\ UNCHANGED <<ext, acts>>
  BY Zenon DEF UpdateStatus, FreshInv, bounds
<1>2. obj' = obj /\ kept' = kept
  BY <1>1, Zenon DEF UpdateStatus, Store, StoreInv
<1>3. CASE pc[w] = "statusDeleting"
  BY <1>1, <1>2, <1>3, GotoAt, Zenon DEF UpdateStatus
<1>4. CASE pc[w] # "statusDeleting"
  BY <1>1, <1>2, <1>4, EndAt DEF UpdateStatus
<1> QED BY <1>3, <1>4

\* What Create does to the external resource, and where it leads.
LEMMA ExtCreateEffect ==
  ASSUME ReconcileInv, NEW w \in Workers, ExtCreate(w)
  PROVE  /\ pc[w] = "extCreate"
         /\ UNCHANGED <<obj, acts>>
         /\ pc'[w] \in {"created", "failed"}
         /\ \/ UNCHANGED ext
            \/ ext'.there /\ ext'.lag \in 0..Lag
<1>1. pc[w] = "extCreate" /\ UNCHANGED <<obj, acts>>
  BY DEF ExtCreate
<1>2. pc'[w] \in {"created", "failed"}
  BY GotoAt DEF ReconcileInv, ExtCreate
<1>3. UNCHANGED ext \/ Land(el[w].spec)
  BY DEF ExtCreate
<1> QED BY <1>1, <1>2, <1>3 DEF Land

\* What Update does to the external resource, and where it leads.
LEMMA ExtUpdateEffect ==
  ASSUME ReconcileInv, NEW w \in Workers, ExtUpdate(w)
  PROVE  /\ UNCHANGED <<obj, kept, acts>>
         /\ pc'[w] \in {"report", "explain"}
         /\ ext'.there = ext.there /\ ext'.lag = ext.lag
BY GotoAt DEF ReconcileInv, ExtUpdate, External

\* What Delete does to the external resource, and where it leads.
LEMMA ExtDeleteEffect ==
  ASSUME ReconcileInv, NEW w \in Workers, ExtDelete(w)
  PROVE  /\ UNCHANGED <<obj, acts>>
         /\ \/ pc'[w] = "deleted" /\ ~ext'.there /\ ext'.lag = 0
            \/ pc'[w] = "statusError" /\ UNCHANGED <<ext, kept>>
<1>1. WorkInv /\ UNCHANGED <<obj, acts>>
  BY DEF ReconcileInv, ExtDelete
<1>2. CASE ext' = [ext EXCEPT !.there = FALSE, !.lag = 0] /\ Goto(w, "deleted", Absent)
  <2>1. ~ext'.there /\ ext'.lag = 0
    BY <1>2 DEF ReconcileInv, External
  <2>2. pc'[w] = "deleted"
    BY <1>1, <1>2, GotoAt
  <2> QED BY <1>1, <2>1, <2>2
<1>3. CASE UNCHANGED <<ext, kept>> /\ Goto(w, "statusError", Absent)
  BY <1>1, <1>3, GotoAt, Zenon
<1> QED BY <1>2, <1>3 DEF ExtDelete

\* An Update writes over the object the worker has read, and nothing else.
LEMMA UpdateEffect ==
  ASSUME ReconcileInv, NEW w \in Workers, Update(w)
  PROVE  /\ UNCHANGED <<ext, acts>>
         /\ pc[w] \in UpdateCalls /\ fresh[w] /\ obj \in Object /\ obj # Gone
         /\ Written[pc[w]] \in Object
         /\ obj' = Settle(Written[pc[w]])
         /\ kept' = (kept \/ (obj' = Gone /\ obj.orphan))
         /\ pc[w] = "unfinalize" => pc'[w] = "idle"
         /\ pc[w] # "unfinalize" =>
              /\ pc'[w] = AfterUpdate(pc[w], Written[pc[w]], evt[w])
              /\ pc'[w] \in ElCalls => el'[w] = Written[pc[w]]
<1> USE DEF ReconcileInv
<1> DEFINE new == Written[pc[w]]
<1>1. UNCHANGED <<ext, acts>> /\ pc[w] \in UpdateCalls /\ fresh[w]
  BY Zenon DEF Update, bounds
<1>2. obj \in Object /\ obj # Gone
  BY <1>1, Zenon DEF FreshInv, StoreInv
<1>3. new \in Object
  BY <1>1, <1>2, WrittenType, Zenon
<1>4. obj' = Settle(new) /\ kept' = (kept \/ (obj' = Gone /\ obj.orphan))
  BY <1>2 DEF Update, Store
<1>5. CASE pc[w] = "unfinalize"
  BY <1>1, <1>2, <1>3, <1>4, <1>5, EndAt, Zenon DEF Update, Return
<1>6. CASE pc[w] # "unfinalize"
  <2>1. Goto(w, AfterUpdate(pc[w], new, evt[w]), new)
    BY <1>6, Zenon DEF Update
  <2>2. /\ pc'[w] = AfterUpdate(pc[w], new, evt[w])
        /\ pc'[w] \in ElCalls => el'[w] = new
    BY <2>1, GotoAt
  <2> QED BY <1>1, <1>2, <1>3, <1>4, <1>6, <2>2, Zenon
<1> QED BY <1>5, <1>6

\* How a user may change an object: the finalizer stays, the deletion policy becomes
\* to orphan only where users change it, a deletion is not taken back, and no create
\* becomes incomplete.
EditOf(old, new) ==
  /\ new \in Object
  /\ new.ours = old.ours
  /\ new.orphan => old.orphan \/ "policy" \in UserActs
  /\ new.foreign => old.foreign
  /\ old.deleting => new.deleting
  /\ new.incomplete => old.incomplete /\ new.started = old.started
  /\ new.age \in {0, old.age}

\* A write of a user makes every copy stale.
LEMMA UserWriteEffect ==
  ASSUME NEW new, UserWrite(new)
  PROVE  /\ UNCHANGED <<ext, pc, el>> /\ acts' = acts + 1
         /\ \A w \in Workers : ~fresh'[w]
         /\ obj' = new
         /\ kept' = (kept \/ (new = Gone /\ obj # Gone /\ obj.orphan))
BY DEF UserWrite, Store

\* What users do is a new object, an edit or the loss of the external resource.
LEMMA UsersEffect ==
  ASSUME ReconcileInv, Users
  PROVE  /\ UNCHANGED <<pc, el>> /\ acts' = acts + 1
         /\ \/ UNCHANGED <<obj, kept, fresh>> /\ ~ext'.there /\ ext'.lag = 0
            \/ /\ UNCHANGED ext
               /\ \A w \in Workers : ~fresh'[w]
               /\ \/ /\ obj = Gone
                     /\ acts > 0 => "recreate" \in UserActs
                     /\ \E f, o \in BOOLEAN : /\ f => "foreign" \in UserActs
                                              /\ o => "orphan" \in UserActs
                                              /\ obj' = NewObject(f, o)
                     /\ obj' \in Object
                     /\ kept' = kept
                  \/ /\ obj # Gone
                     /\ kept' = (kept \/ (obj' = Gone /\ obj.orphan))
                     /\ \E new : /\ EditOf(obj, new)
                                 /\ \/ obj' = Settle(new)
                                    \/ /\ obj' = new
                                       /\ new.deleting = obj.deleting
                                       /\ new.foreign = obj.foreign
<1>0. /\ obj # Gone => obj \in Object
      /\ kept \in BOOLEAN
      /\ 0 \in 0..Grace
  BY GraceAssumption DEF ReconcileInv, StoreInv
<1>1. CASE UserCreate
  <2>1. PICK f, o \in BOOLEAN : /\ f => "foreign" \in UserActs
                                /\ o => "orphan" \in UserActs
                                /\ UserWrite(NewObject(f, o))
    BY <1>1 DEF UserCreate
  <2>2. NewObject(f, o) \in Object
    BY <1>0 DEF NewObject, Object
  <2>3. NewObject(f, o) # Gone
    BY <2>2, ReconcileConstants
  <2>4. obj = Gone /\ (acts > 0 => "recreate" \in UserActs)
    BY <1>1 DEF UserCreate
  <2>5. kept' = kept
    BY <1>0, <2>1, <2>3, UserWriteEffect
  <2> QED BY <2>1, <2>2, <2>4, <2>5, UserWriteEffect
<1>2. CASE UserEdit
  <2> DEFINE new == [obj EXCEPT !.spec = 3 - @]
  <2>1. obj \in Object /\ obj # Gone /\ UserWrite(new)
    BY <1>0, <1>2 DEF UserEdit
  <2>2. 3 - obj.spec \in {1, 2}
    <3>1. obj.spec \in {1, 2}
      BY <2>1 DEF Object
    <3> QED BY <3>1
  <2>3. EditOf(obj, new) /\ new.deleting = obj.deleting /\ new.foreign = obj.foreign
    BY <2>1, <2>2 DEF EditOf, Object
  <2> HIDE DEF new
  <2> QED BY <2>1, <2>3, UserWriteEffect
<1>3. CASE UserPause
  <2> DEFINE new == [obj EXCEPT !.paused = ~@]
  <2>1. obj \in Object /\ obj # Gone /\ UserWrite(new)
    BY <1>0, <1>3 DEF UserPause
  <2>2. (~obj.paused) \in BOOLEAN
    OBVIOUS
  <2>3. EditOf(obj, new) /\ new.deleting = obj.deleting /\ new.foreign = obj.foreign
    BY <2>1, <2>2, Zenon DEF EditOf, Object
  <2> HIDE DEF new
  <2> QED BY <2>1, <2>3, UserWriteEffect
<1>4. CASE UserDelete
  <2> DEFINE new == [obj EXCEPT !.deleting = TRUE]
  <2>1. obj \in Object /\ obj # Gone /\ UserWrite(Settle(new))
    BY <1>0, <1>4 DEF UserDelete
  <2>2. EditOf(obj, new)
    BY <2>1, Zenon DEF EditOf, Object
  <2> HIDE DEF new
  <2> QED BY <2>1, <2>2, UserWriteEffect
<1>5. CASE UserUnmark
  <2> DEFINE new == RemovePending(obj)
  <2>1. obj \in Object /\ obj # Gone /\ UserWrite(new)
    BY <1>0, <1>5 DEF UserUnmark
  <2>2. new \in Object
    BY <2>1, MarksType
  <2>3. EditOf(obj, new) /\ new.deleting = obj.deleting /\ new.foreign = obj.foreign
    BY <2>1, <2>2 DEF EditOf, RemovePending, Object
  <2> HIDE DEF new
  <2> QED BY <2>1, <2>3, UserWriteEffect
<1>6. CASE ForeignRelease
  <2> DEFINE new == [obj EXCEPT !.foreign = FALSE]
  <2>1. obj \in Object /\ obj # Gone /\ UserWrite(Settle(new))
    BY <1>0, <1>6 DEF ForeignRelease
  <2>2. EditOf(obj, new)
    BY <2>1, Zenon DEF EditOf, Object
  <2> HIDE DEF new
  <2> QED BY <2>1, <2>2, UserWriteEffect
<1>7. CASE Drift
  BY <1>7, Zenon DEF Drift, work, ReconcileInv, External
<1>8. CASE UserPolicy
  <2> DEFINE new == [obj EXCEPT !.orphan = ~@]
  <2>1. obj \in Object /\ obj # Gone /\ UserWrite(new) /\ "policy" \in UserActs
    BY <1>0, <1>8 DEF UserPolicy
  <2>2. (~obj.orphan) \in BOOLEAN
    OBVIOUS
  <2>3. EditOf(obj, new) /\ new.deleting = obj.deleting /\ new.foreign = obj.foreign
    BY <2>1, <2>2, Zenon DEF EditOf, Object
  <2> HIDE DEF new
  <2> QED BY <2>1, <2>3, UserWriteEffect
<1> QED BY <1>1, <1>2, <1>3, <1>4, <1>5, <1>6, <1>7, <1>8, Zenon DEF Users

\* Of the rest, only time changes the resources.
LEMMA OtherEffect ==
  ASSUME ReconcileInv, NEW w \in Workers,
         \/ \E v \in Workers, e \in EventTypes : v = w /\ Take(v, e)
         \/ Deliver \/ Resync \/ Crash \/ UNCHANGED vars
  PROVE  /\ UNCHANGED <<obj, ext, kept, acts>>
         /\ \/ pc'[w] \in {"idle", "fetch"}
            \/ pc'[w] = pc[w] /\ el'[w] = el[w] /\ fresh'[w] = fresh[w]
BY DEF Take, Deliver, Resync, Crash, vars, work, bounds, ReconcileInv, WorkInv

-----------------------------------------------------------------------------
(* The grace period                                                        *)

\* Every step keeps GraceInv.
LEMMA GraceNextInv ==
  ASSUME OneWorker, ReconcileInv, GraceInv, [Next]_vars
  PROVE  GraceInv'
<1>0. PICK w : Workers = {w}
  BY DEF OneWorker
<1> DEFINE Past == {"finalize", "create", "markPending"}
<1> SUFFICES ASSUME pc'[w] \in Past, obj' # Gone
             PROVE  ~obj'.incomplete
  BY <1>0 DEF GraceInv
<1>i. w \in Workers /\ (pc[w] \in Past /\ obj # Gone => ~obj.incomplete)
  BY <1>0 DEF GraceInv
<1>a. ASSUME NEW o, NEW e, AfterOrphan(o, e) \in Past
      PROVE  ~o.incomplete
  BY <1>a DEF AfterOrphan, ExternalCreateIncomplete
<1>1. CASE Fetch(w)
  <2>1. AfterFetch(obj, evt[w]) \in Past /\ UNCHANGED obj
    BY <1>1, <1>i, FetchEffect, Zenon
  <2>2. AfterOrphan(obj, evt[w]) \in Past
    BY <2>1 DEF AfterFetch
  <2> QED BY <2>1, <2>2, <1>a
<1>2. CASE Get(w)
  <2>1. UNCHANGED obj /\ pc[w] \in DOMAIN AfterGet /\ AfterGet[pc[w]] \in Past
    BY <1>2, <1>i, GetEffect
  <2>2. pc[w] = "create"
    BY <2>1, AfterGetFrom
  <2> QED BY <2>1, <2>2, <1>i, Zenon
<1>3. CASE Update(w)
  <2> DEFINE new == Written[pc[w]]
  <2>1. pc[w] \in UpdateCalls /\ pc[w] # "unfinalize" /\ obj \in Object /\ obj # Gone
    BY <1>3, <1>i, UpdateEffect, Zenon
  <2>2. obj' = new
    BY <1>3, <1>i, UpdateEffect, Zenon DEF Settle
  <2>3. AfterUpdate(pc[w], new, evt[w]) \in Past
    BY <1>3, <1>i, <2>1, UpdateEffect
  <2>4. CASE pc[w] = "orphan"
    BY <2>2, <2>3, <2>4, <1>a DEF AfterUpdate
  <2>5. CASE pc[w] \in {"markSucceeded", "markFailed", "markCreated"}
    BY <2>1, <2>2, <2>5, WrittenFields, MarksFields, Zenon
  <2>6. CASE pc[w] = "clearPending"
    <3>1. new = RemovePending(obj)
      BY <2>1, <2>6, WrittenFields
    <3> QED BY <2>1, <2>2, <3>1, MarksFields, Zenon
  <2>7. CASE pc[w] = "finalize"
    BY <2>1, <2>2, <2>7, <1>i DEF Written, Object
  <2>8. CASE pc[w] = "markPending"
    BY <2>3, <2>8 DEF AfterUpdate
  <2> QED BY <2>1, <2>4, <2>5, <2>6, <2>7, <2>8, Zenon DEF UpdateCalls
<1>4. CASE Recover(w)
  BY <1>4, <1>i, RecoverEffect
<1>5. CASE UpdateFails(w) \/ UpdateStatusFails(w) \/ QueueFollowUp(w) \/ ExtObserve(w)
  BY <1>5, <1>i, QuietEffect
<1>6. CASE UpdateStatus(w)
  BY <1>6, <1>i, StatusEffect, Zenon
<1>7. CASE ExtCreate(w) \/ ExtUpdate(w) \/ ExtDelete(w)
  BY <1>7, <1>i, ExtCreateEffect, ExtUpdateEffect, ExtDeleteEffect
<1>8. CASE Users
  <2>1. CASE obj = Gone
    <3>1. PICK f, o : obj' = NewObject(f, o)
      BY <1>8, <2>1, UsersEffect
    <3> QED BY <3>1 DEF NewObject
  <2>2. CASE obj # Gone
    <3>1. CASE UNCHANGED obj
      BY <1>8, <2>2, <3>1, <1>i, UsersEffect
    <3>2. CASE \E new : EditOf(obj, new) /\ obj' \in {new, Settle(new)}
      <4>1. PICK new : EditOf(obj, new) /\ obj' = new
        BY <3>2 DEF Settle
      <4>2. pc' = pc
        BY <1>8, UsersEffect
      <4> QED BY <2>2, <4>1, <4>2, <1>i DEF EditOf
    <3> QED BY <1>8, <2>2, <3>1, <3>2, UsersEffect, Zenon
  <2> QED BY <2>1, <2>2
<1>9. CASE Tick
  <2>1. obj \in Object /\ obj' = Older(obj) /\ pc' = pc
    BY <1>9, AgedType, ReconcileConstants, Zenon DEF Tick, ReconcileInv, StoreInv
  <2> QED BY <2>1, <1>i, ReconcileConstants DEF Older, Object
<1>10. CASE \/ \E v \in Workers, e \in EventTypes : v = w /\ Take(v, e)
            \/ Deliver \/ Resync \/ Crash \/ UNCHANGED vars
  BY <1>10, <1>i, OtherEffect
<1> QED
  BY <1>0, <1>1, <1>2, <1>3, <1>4, <1>5, <1>6, <1>7, <1>8, <1>9, <1>10 DEF Next, Step

\* With one worker no new create begins while an incomplete one is within its
\* grace period, whatever users, crashes and failed calls do in between: past
\* the recovery of processItem the marks of the object are complete, and only
\* the worker itself can begin a create (docs/overview.md:169).
THEOREM GraceTheorem ==
  ASSUME OneWorker
  PROVE  Spec => GraceIsHonoured
<1>1. Init => GraceInv
  BY DEF Init, GraceInv
<1>2. ReconcileInv /\ GraceInv /\ [Next]_vars => GraceInv'
  BY GraceNextInv, Zenon
<1>3. ReconcileInv /\ GraceInv /\ [Next]_vars =>
        [\A w \in Workers : Update(w) /\ pc[w] = "markPending" =>
            ~(ExternalCreateIncomplete(obj) /\ ExternalCreatePendingDuring(obj))]_vars
  <2> SUFFICES ASSUME ReconcileInv, GraceInv, NEW w \in Workers,
                      Update(w), pc[w] = "markPending"
               PROVE  ~obj.incomplete
    BY DEF ExternalCreateIncomplete
  <2> QED BY UpdateEffect DEF GraceInv
<1> QED
  BY <1>1, <1>2, <1>3, ReconcileInitInv, ReconcileNextInv, PTL DEF Spec, GraceIsHonoured

-----------------------------------------------------------------------------
(* Nothing leaks                                                           *)

\* Where an object that holds the finalizer or is being deleted goes on.
LEMMA HandlerIsNoSpecial ==
  ASSUME NEW e \in EventTypes
  PROVE  /\ Handler[e] \notin Deleted /\ Handler[e] \notin {"orphan", "extCreate"}
         /\ Handler[e] \in Creating => Handler[e] = "create"
BY DEF Handler, EventTypes, Deleted, Creating

\* What the orphan path and the recovery lead to: never to a deletion, and to a
\* create only for an object that is held or being deleted.
LEMMA AfterOrphanHolds ==
  ASSUME NEW o \in Object, NEW e \in EventTypes
  PROVE  /\ AfterOrphan(o, e) \notin Deleted
         /\ AfterOrphan(o, e) \notin {"orphan", "extCreate"}
         /\ AfterOrphan(o, e) \in Creating => o.ours \/ o.deleting
         /\ AfterRecovery(o, e) \notin Deleted
         /\ AfterRecovery(o, e) \notin {"orphan", "extCreate"}
         /\ AfterRecovery(o, e) \in Creating => o.ours \/ o.deleting
BY HandlerIsNoSpecial DEF AfterOrphan, AfterRecovery, Deleted, Creating

\* An Update of the worker keeps the finalizer where it is needed.
LEMMA LeakUpdate ==
  ASSUME PlainUsers, ReconcileInv, ReconcileInv', NEW w \in Workers, Update(w),
         ObjectClause, ExtClause, WorkerClause(w)
  PROVE  ObjectClause' /\ ExtClause' /\ WorkerClause(w)'
<1> DEFINE new == Written[pc[w]]
<1>1. /\ UNCHANGED <<ext, acts>> /\ pc[w] \in UpdateCalls /\ fresh[w]
      /\ obj \in Object /\ obj # Gone /\ new \in Object
      /\ obj' = Settle(new)
      /\ kept' = (kept \/ (obj' = Gone /\ obj.orphan))
      /\ pc[w] = "unfinalize" => pc'[w] = "idle"
      /\ pc[w] # "unfinalize" => pc'[w] = AfterUpdate(pc[w], new, evt[w])
  BY UpdateEffect, Zenon
<1>2. acts > 0 /\ ~obj.foreign /\ (obj.deleting => obj.ours)
      /\ (obj.orphan => MayOrphan)
  BY <1>1, Zenon DEF ObjectClause
<1>3. evt[w] \in EventTypes
  BY <1>1, Zenon DEF ReconcileInv, WorkInv, UpdateCalls
<1>4. CASE pc[w] = "orphan"
  <2>1. obj.deleting /\ obj.orphan /\ MayOrphan /\ "recreate" \notin UserActs
    BY <1>1, <1>4 DEF WorkerClause, PlainUsers
  <2>2. new = [obj EXCEPT !.ours = FALSE]
    BY <1>1, <1>4, WrittenFields
  <2>3. obj' = Gone /\ kept'
    BY <1>1, <1>2, <2>1, <2>2 DEF Settle, Object
  <2>4. pc'[w] = AfterOrphan(new, evt[w])
    BY <1>1, <1>4, Zenon DEF AfterUpdate
  <2>5. pc'[w] \notin Deleted /\ pc'[w] \notin {"orphan", "extCreate"}
    BY <1>1, <1>3, <2>4, AfterOrphanHolds
  <2>6. Held'
    BY <1>1, <1>2, <2>1, <2>3, Zenon DEF Held
  <2> QED BY <2>3, <2>5, <2>6, Zenon DEF ObjectClause, ExtClause, WorkerClause
<1>5. CASE pc[w] = "unfinalize"
  <2>1. ~ext.there /\ pc'[w] = "idle"
    BY <1>1, <1>5, Zenon DEF WorkerClause, Deleted
  <2>2. new = [obj EXCEPT !.ours = FALSE, !.foreign = FALSE]
    BY <1>1, <1>5, WrittenFields
  <2>3. obj' = Gone \/ (obj' = new /\ ~new.deleting)
    BY <1>1, <2>2 DEF Settle, Object
  <2>4. ObjectClause'
    BY <1>1, <1>2, <2>2, <2>3, Zenon DEF ObjectClause, Object
  <2> QED BY <1>1, <2>1, <2>4, Zenon DEF ExtClause, WorkerClause, Creating, Deleted
<1>6. CASE pc[w] \notin {"orphan", "unfinalize"}
  <2>1. \/ SameHold(obj, new)
        \/ pc[w] = "finalize" /\ new = [obj EXCEPT !.ours = TRUE]
    <3>1. CASE pc[w] \in {"markSucceeded", "markFailed", "markCreated"}
      BY <1>1, <3>1, WrittenFields, MarksFields, Zenon
    <3>2. CASE pc[w] = "clearPending"
      <4>1. new = RemovePending(obj)
        BY <1>1, <3>2, WrittenFields
      <4>2. SameHold(obj, RemovePending(obj))
        BY <1>1, MarksFields, Zenon
      <4> QED BY <4>1, <4>2
    <3>3. CASE pc[w] = "markPending"
      <4>1. new = SetExternalCreatePending(obj)
        BY <1>1, <3>3, WrittenFields
      <4>2. SameHold(obj, SetExternalCreatePending(obj))
        BY <1>1, MarksFields, Zenon
      <4> QED BY <4>1, <4>2
    <3>4. CASE pc[w] = "finalize"
      BY <1>1, <3>4, WrittenFields, Zenon
    <3> QED BY <1>1, <1>6, <3>1, <3>2, <3>3, <3>4 DEF UpdateCalls
  <2>2. /\ ~new.foreign /\ new.deleting = obj.deleting /\ new.orphan = obj.orphan
        /\ obj.ours => new.ours
        /\ SameHold(obj, new) => new.ours = obj.ours
    BY <1>1, <1>2, <2>1 DEF SameHold, Object
  <2>3. obj' = new /\ obj' # Gone
    BY <1>1, <1>2, <2>2, ReconcileConstants, Zenon DEF Settle
  <2>4. kept' = kept
    <3>1. kept \in BOOLEAN
      BY DEF ReconcileInv, StoreInv
    <3>2. kept' = (kept \/ (obj' = Gone /\ obj.orphan))
      BY <1>1, Zenon
    <3> QED BY <2>3, <3>1, <3>2
  <2>5. ObjectClause'
    BY <1>1, <1>2, <2>2, <2>3, Zenon DEF ObjectClause
  <2>6. ExtClause'
    BY <1>1, <2>2, <2>3, <2>4, Zenon DEF ExtClause
  <2>7. pc'[w] = AfterUpdate(pc[w], new, evt[w])
    BY <1>1, <1>6, Zenon
  <2>8. CASE pc[w] \in {"markSucceeded", "clearPending"}
    <3>1. pc'[w] = AfterRecovery(new, evt[w])
      BY <2>7, <2>8 DEF AfterUpdate
    <3>2. pc'[w] \in Creating => new.ours
      BY <1>1, <1>2, <1>3, <2>2, <3>1, AfterOrphanHolds, Zenon
    <3>3. pc'[w] \notin Deleted /\ pc'[w] \notin {"orphan", "extCreate"}
      BY <1>1, <1>3, <3>1, AfterOrphanHolds
    <3> QED BY <2>3, <2>5, <2>6, <3>2, <3>3 DEF WorkerClause, Held
  <2>9. CASE pc[w] = "finalize"
    <3>1. pc'[w] = Handler[evt[w]]
      BY <2>7, <2>9 DEF AfterUpdate
    <3>2. new.ours
      BY <1>1, <2>9, WrittenFields, Zenon DEF Object
    <3>3. pc'[w] \notin Deleted /\ pc'[w] \notin {"orphan", "extCreate"}
      BY <1>3, <3>1, HandlerIsNoSpecial
    <3> QED BY <2>3, <2>5, <2>6, <3>2, <3>3, Zenon DEF WorkerClause, Held
  <2>10. CASE pc[w] = "markPending"
    <3>1. pc'[w] = "creating"
      BY <2>7, <2>10 DEF AfterUpdate
    <3>2. new.ours
      BY <1>1, <2>2, <2>10, Zenon DEF WorkerClause, Creating, Held
    <3> QED BY <2>3, <2>5, <2>6, <3>1, <3>2, Zenon DEF WorkerClause, Held, Deleted
  <2>11. CASE pc[w] \in {"markFailed", "markCreated"}
    <3>1. pc'[w] \in {"statusError", "report"}
      BY <2>7, <2>11, Zenon DEF AfterUpdate
    <3> QED BY <2>5, <2>6, <3>1, Zenon DEF WorkerClause, Creating, Deleted
  <2> QED BY <1>1, <1>6, <2>8, <2>9, <2>10, <2>11 DEF UpdateCalls
<1> QED BY <1>4, <1>5, <1>6, Zenon

\* So does everything users do, as long as they put no finalizers on it and do
\* not re-create what they orphaned.
LEMMA LeakUsers ==
  ASSUME PlainUsers, ReconcileInv, NEW w \in Workers, Users,
         ObjectClause, ExtClause, WorkerClause(w)
  PROVE  ObjectClause' /\ ExtClause' /\ WorkerClause(w)'
<1>0. /\ pc' = pc /\ acts' = acts + 1 /\ acts \in Nat
  <2>1. pc' = pc /\ acts' = acts + 1
    BY UsersEffect, Zenon
  <2>2. acts \in Nat
    BY ReconcileConstants DEF ReconcileInv, BoundsInv
  <2> QED BY <2>1, <2>2, Zenon
<1>1. CASE UNCHANGED <<obj, kept, fresh>> /\ ~ext'.there
  BY <1>0, <1>1 DEF ObjectClause, ExtClause, WorkerClause, Held
<1>2. CASE /\ UNCHANGED ext /\ ~fresh'[w] /\ obj = Gone /\ obj' \in Object /\ kept' = kept
           /\ acts > 0 => "recreate" \in UserActs
           /\ \E f, o \in BOOLEAN : /\ f => "foreign" \in UserActs
                                    /\ o => "orphan" \in UserActs
                                    /\ obj' = NewObject(f, o)
  <2>1. PICK f, o \in BOOLEAN : /\ f => "foreign" \in UserActs
                                /\ o => "orphan" \in UserActs
                                /\ obj' = NewObject(f, o)
    BY <1>2, Zenon
  <2>2. ~obj'.foreign /\ ~obj'.deleting /\ ~obj'.ours /\ obj'.orphan = o
    BY <2>1, Zenon DEF NewObject, PlainUsers
  <2>3. pc[w] \notin Creating /\ obj' # Gone
    BY <1>2, ReconcileConstants DEF WorkerClause, Held
  <2>4. ObjectClause'
    BY <1>0, <2>1, <2>2 DEF ObjectClause, MayOrphan
  <2>5. ExtClause'
    BY <1>2, Zenon DEF ExtClause
  <2> QED BY <1>0, <1>2, <2>3, <2>4, <2>5, Zenon DEF WorkerClause
<1>3. CASE /\ UNCHANGED ext /\ ~fresh'[w] /\ obj # Gone
           /\ kept' = (kept \/ (obj' = Gone /\ obj.orphan))
           /\ \E new : /\ EditOf(obj, new)
                       /\ \/ obj' = Settle(new)
                          \/ obj' = new /\ new.deleting = obj.deleting
  <2>1. PICK new : /\ EditOf(obj, new)
                   /\ \/ obj' = Settle(new)
                      \/ obj' = new /\ new.deleting = obj.deleting
    BY <1>3, Zenon
  <2>2. /\ new \in Object /\ new # Gone /\ ~new.foreign
        /\ new.ours = obj.ours /\ (new.orphan => MayOrphan)
    BY <1>3, <2>1, ReconcileConstants DEF EditOf, ObjectClause, MayOrphan
  <2>3. \/ obj' = Gone /\ ~obj.ours
        \/ obj' = new /\ (new.deleting => new.ours)
    BY <1>3, <2>1, <2>2, Zenon DEF Settle, ObjectClause
  <2>4. ObjectClause'
    BY <1>0, <1>3, <2>2, <2>3 DEF ObjectClause
  <2>5. ExtClause'
    BY <1>3, <2>2, <2>3, Zenon DEF ExtClause
  <2>6. pc[w] \in Creating => obj.ours
    BY <1>3 DEF WorkerClause, Held
  <2>7. pc[w] \in Creating => obj' # Gone /\ obj'.ours
    BY <2>2, <2>3, <2>6
  <2>8. pc[w] = "extCreate" => pc[w] \in Creating
    BY Zenon DEF Creating
  <2> QED BY <1>0, <1>3, <2>4, <2>5, <2>7, <2>8 DEF WorkerClause, Held
<1> QED BY <1>1, <1>2, <1>3, UsersEffect, Zenon

\* Every step keeps LeakInv.
LEMMA LeakNextInv ==
  ASSUME OneWorker, PlainUsers, ReconcileInv, ReconcileInv', LeakInv, [Next]_vars
  PROVE  LeakInv'
<1>0. PICK w : Workers = {w}
  BY DEF OneWorker
<1> SUFFICES ObjectClause' /\ ExtClause' /\ WorkerClause(w)'
  BY <1>0 DEF LeakInv
<1>i. w \in Workers /\ ObjectClause /\ ExtClause /\ WorkerClause(w)
  BY <1>0 DEF LeakInv
\* With both resources as they were, what matters is where the worker goes.
<1>q. ASSUME UNCHANGED <<obj, ext, kept, acts>>,
             pc'[w] \notin Creating \cup Deleted \cup {"orphan"}
      PROVE  ObjectClause' /\ ExtClause' /\ WorkerClause(w)'
  BY <1>i, <1>q, Zenon DEF ObjectClause, ExtClause, WorkerClause, Creating
<1>1. CASE Fetch(w)
  <2>1. UNCHANGED <<obj, ext, kept, acts>>
    BY <1>1, <1>i, FetchEffect, Zenon
  <2>2. CASE pc'[w] = "idle"
    BY <2>1, <2>2, <1>q, Zenon DEF Creating, Deleted
  <2>3. CASE pc'[w] = AfterFetch(obj, evt[w]) /\ obj # Gone
    <3>1. obj \in Object /\ evt[w] \in EventTypes
      BY <1>1, <1>i, <2>3 DEF ReconcileInv, StoreInv, WorkInv, Fetch
    <3>2. CASE pc'[w] = "paused"
      BY <2>1, <3>2, <1>q DEF Creating, Deleted
    <3>3. CASE pc'[w] = "orphan" /\ obj.deleting /\ obj.orphan
      BY <1>i, <2>1, <2>3, <3>3, Zenon DEF ObjectClause, ExtClause, WorkerClause, Creating, Deleted
    <3>4. CASE pc'[w] = AfterOrphan(obj, evt[w])
      <4>1. /\ pc'[w] \notin Deleted /\ pc'[w] \notin {"orphan", "extCreate"}
            /\ pc'[w] \in Creating => obj.ours
        BY <1>i, <2>3, <3>1, <3>4, AfterOrphanHolds DEF ObjectClause
      <4> QED
        BY <1>i, <2>1, <2>3, <4>1, Zenon DEF ObjectClause, ExtClause, WorkerClause, Held
    <3> QED BY <2>3, <3>2, <3>3, <3>4, Zenon DEF AfterFetch
  <2> QED BY <1>1, <1>i, <2>2, <2>3, FetchEffect, Zenon
<1>2. CASE Get(w)
  <2>1. UNCHANGED <<obj, ext, kept, acts>>
    BY <1>2, <1>i, GetEffect, Zenon
  <2>2. CASE pc'[w] = "idle"
    BY <2>1, <2>2, <1>q DEF Creating, Deleted
  <2>3. CASE pc[w] \in DOMAIN AfterGet /\ pc'[w] = AfterGet[pc[w]] /\ obj # Gone
    <3>1. /\ pc'[w] \in Creating => pc[w] \in Creating
          /\ pc'[w] \in Deleted => pc[w] \in Deleted
          /\ pc'[w] # "orphan"
      BY <2>3, AfterGetFrom DEF Creating, Deleted
    <3> QED BY <1>i, <2>1, <2>3, <3>1, Zenon DEF ObjectClause, ExtClause, WorkerClause, Held
  <2> QED BY <1>2, <1>i, <2>2, <2>3, GetEffect, Zenon
<1>3. CASE Update(w)
  BY <1>3, <1>i, LeakUpdate, Zenon
<1>4. CASE Recover(w)
  BY <1>4, <1>i, <1>q, RecoverEffect DEF Creating, Deleted
<1>5. CASE UpdateFails(w) \/ UpdateStatusFails(w) \/ QueueFollowUp(w) \/ ExtObserve(w)
  BY <1>5, <1>i, <1>q, QuietEffect, Zenon DEF Creating, Deleted
<1>6. CASE UpdateStatus(w)
  <2>1. UNCHANGED <<obj, ext, kept, acts>>
    BY <1>6, <1>i, StatusEffect, Zenon
  <2>2. CASE pc[w] = "statusDeleting" /\ pc'[w] = "unfinalize"
    BY <1>i, <2>1, <2>2, Zenon DEF ObjectClause, ExtClause, WorkerClause, Creating, Deleted
  <2>3. CASE pc'[w] = "idle"
    BY <2>1, <2>3, <1>q DEF Creating, Deleted
  <2> QED BY <1>6, <1>i, <2>2, <2>3, StatusEffect
<1>7. CASE ExtCreate(w)
  <2>1. pc[w] = "extCreate" /\ UNCHANGED <<obj, acts>> /\ pc'[w] \in {"created", "failed"}
    BY <1>7, <1>i, ExtCreateEffect, Zenon
  <2>2. obj # Gone /\ obj.ours
    BY <1>i, <2>1, Zenon DEF WorkerClause, Creating, Held
  <2> QED BY <1>i, <2>1, <2>2, Zenon DEF ObjectClause, ExtClause, WorkerClause, Creating, Deleted
<1>8. CASE ExtUpdate(w)
  BY <1>8, <1>i, ExtUpdateEffect, Zenon
     DEF ObjectClause, ExtClause, WorkerClause, Creating, Deleted
<1>9. CASE ExtDelete(w)
  <2>1. CASE pc'[w] = "deleted" /\ ~ext'.there
    BY <1>9, <1>i, <2>1, ExtDeleteEffect, Zenon
       DEF ObjectClause, ExtClause, WorkerClause, Creating
  <2>2. CASE pc'[w] = "statusError" /\ UNCHANGED <<ext, kept>>
    BY <1>9, <1>i, <2>2, <1>q, ExtDeleteEffect DEF Creating, Deleted
  <2> QED BY <1>9, <1>i, <2>1, <2>2, ExtDeleteEffect, Zenon
<1>10. CASE Users
  BY <1>10, <1>i, LeakUsers
<1>11. CASE Tick
  <2>1. UNCHANGED <<pc, fresh, kept, acts>>
    BY <1>11 DEF Tick, bounds
  <2>2. ext'.there = ext.there
    BY <1>11, Zenon DEF Tick, ReconcileInv, External
  <2>3. CASE obj = Gone
    <3>1. obj' = Gone
      BY <1>11, <2>3, Zenon DEF Tick, Aged
    <3> QED BY <1>i, <2>1, <2>2, <2>3, <3>1 DEF ObjectClause, ExtClause, WorkerClause, Held
  <2>4. CASE obj # Gone
    <3>1. obj \in Object /\ obj' = Older(obj) /\ obj' # Gone
      BY <1>11, <2>4, AgedType, ReconcileConstants DEF Tick, ReconcileInv, StoreInv
    <3>2. SameHold(obj, obj')
      BY <3>1 DEF SameHold, Older, Object
    <3> QED
      BY <1>i, <2>1, <2>2, <2>4, <3>1, <3>2
         DEF ObjectClause, ExtClause, WorkerClause, Held, SameHold
  <2> QED BY <2>3, <2>4
<1>12. CASE \/ \E v \in Workers, e \in EventTypes : v = w /\ Take(v, e)
            \/ Deliver \/ Resync \/ Crash \/ UNCHANGED vars
  <2>1. UNCHANGED <<obj, ext, kept, acts>>
    BY <1>12, <1>i, OtherEffect, Zenon
  <2>2. CASE pc'[w] \in {"idle", "fetch"}
    BY <2>1, <2>2, <1>q, Zenon DEF Creating, Deleted
  <2>3. CASE pc'[w] = pc[w] /\ fresh'[w] = fresh[w]
    BY <1>i, <2>1, <2>3, Zenon DEF ObjectClause, ExtClause, WorkerClause, Held
  <2> QED BY <1>12, <1>i, <2>2, <2>3, OtherEffect, Zenon
<1> QED
  BY <1>0, <1>1, <1>2, <1>3, <1>4, <1>5, <1>6, <1>7, <1>8, <1>9, <1>10, <1>11, <1>12
     DEF Next, Step

\* With one worker an external resource never outlives its custom resource, for
\* any number of user actions, crashes and failed calls and any grace period
\* and lag, provided that no other controller holds the object with a finalizer
\* of its own and that an object to be orphaned is not created anew under its
\* name.  Both conditions are needed (README, "Where the code and its documents
\* differ"), and so is the single worker.
THEOREM NoLeakTheorem ==
  ASSUME OneWorker, PlainUsers
  PROVE  Spec => []NoLeak
<1>1. Init => LeakInv
  <2> SUFFICES ASSUME Init PROVE LeakInv
    OBVIOUS
  <2>1. obj = Gone /\ ~ext.there /\ \A w \in Workers : pc[w] = "idle"
    BY DEF Init
  <2>2. ObjectClause /\ ExtClause
    BY <2>1 DEF ObjectClause, ExtClause
  <2>3. \A w \in Workers : WorkerClause(w)
    BY <2>1 DEF WorkerClause, Creating, Deleted
  <2> QED BY <2>2, <2>3 DEF LeakInv
<1>2. ReconcileInv /\ ReconcileInv' /\ LeakInv /\ [Next]_vars => LeakInv'
  BY LeakNextInv
<1>3. LeakInv => NoLeak
  BY DEF LeakInv, ExtClause, NoLeak
<1> QED BY <1>1, <1>2, <1>3, ReconcileInitInv, ReconcileNextInv, PTL DEF Spec

-----------------------------------------------------------------------------
(* The rollback                                                            *)

\* An Update begins the age of a mark anew or leaves it alone, and goes to the
\* recovery with what it wrote.
LEMMA RollbackUpdate ==
  ASSUME ReconcileInv, ReconcileInv', NEW w \in Workers, Update(w),
         MarkClause, CallClause(w)
  PROVE  MarkClause' /\ CallClause(w)'
<1> DEFINE new == Written[pc[w]]
<1>1. /\ UNCHANGED ext /\ pc[w] \in UpdateCalls
      /\ obj \in Object /\ obj # Gone /\ new \in Object
      /\ obj' = Settle(new)
      /\ pc[w] = "unfinalize" => pc'[w] = "idle"
      /\ pc[w] # "unfinalize" =>
           /\ pc'[w] = AfterUpdate(pc[w], new, evt[w])
           /\ pc'[w] \in ElCalls => el'[w] = new
  BY UpdateEffect, Zenon
<1>2. /\ evt[w] \in EventTypes
      /\ obj.age \in Nat /\ CreateTicks \in Nat /\ Lag \in Nat /\ ext.lag \in 0..Lag
  <2>1. evt[w] \in EventTypes
    BY <1>1 DEF ReconcileInv, WorkInv, UpdateCalls
  <2>2. obj.age \in 0..Grace
    BY <1>1, Zenon DEF Object
  <2>3. ext.lag \in 0..Lag
    BY DEF ReconcileInv, External
  <2> QED BY <2>1, <2>2, <2>3, ReconcileConstants
<1>3. obj' \in {Gone, new} /\ (fresh'[w] => obj' = new)
  BY <1>1, Zenon DEF Settle, ReconcileInv, FreshInv
<1>4. /\ new.incomplete => new.started
      /\ new.age \in {0, obj.age}
  <2>1. obj.incomplete => obj.started
    BY <1>1, Zenon DEF MarkClause
  <2>2. CASE pc[w] \in {"markSucceeded", "markFailed", "markCreated"}
    <3>1. new = SetExternalCreateOutcome(obj)
      BY <1>1, <2>2, WrittenFields
    <3> QED BY <1>1, <3>1, MarksFields, Zenon
  <2>3. CASE pc[w] = "clearPending"
    <3>1. new = RemovePending(obj)
      BY <1>1, <2>3, WrittenFields
    <3> QED BY <1>1, <3>1, MarksFields, Zenon
  <2>4. CASE pc[w] = "markPending"
    <3>1. new = SetExternalCreatePending(obj)
      BY <1>1, <2>4, WrittenFields
    <3> QED BY <1>1, <3>1, MarksFields, Zenon
  <2>5. CASE pc[w] \in {"orphan", "finalize", "unfinalize"}
    <3>1. \/ new = [obj EXCEPT !.ours = FALSE]
          \/ new = [obj EXCEPT !.ours = TRUE]
          \/ new = [obj EXCEPT !.ours = FALSE, !.foreign = FALSE]
      BY <1>1, <2>5, WrittenFields
    <3> HIDE DEF new
    <3>2. new.incomplete = obj.incomplete /\ new.started = obj.started /\ new.age = obj.age
      <4>1. obj \in Object
        BY <1>1, Zenon
      <4> QED BY <4>1, <3>1, Zenon DEF Object
    <3> QED BY <2>1, <3>2
  <2> QED BY <1>1, <2>2, <2>3, <2>4, <2>5, Zenon DEF UpdateCalls
<1>5. MarkClause'
  <2>1. ext.lag > 0 => new.age + ext.lag <= CreateTicks + Lag
    <3>1. ext.lag > 0 => obj.age + ext.lag <= CreateTicks + Lag
      BY <1>1, Zenon DEF MarkClause
    <3>2. new.age = 0 \/ new.age = obj.age
      BY <1>4
    <3> HIDE DEF new
    <3> QED BY <1>2, <3>1, <3>2
  <2> QED BY <1>1, <1>3, <1>4, <2>1, Zenon DEF MarkClause
<1>6. CallClause(w)'
  <2>1. CASE pc[w] = "orphan"
    <3>1. pc'[w] = AfterOrphan(new, evt[w])
      BY <1>1, <2>1, Zenon DEF AfterUpdate
    <3>2. pc'[w] \notin {"creating", "extCreate", "clearPending"}
      BY <1>2, <3>1, PlacesOf DEF Places
    <3>3. pc'[w] = "recover" => new.incomplete /\ el'[w] = new
      BY <1>1, <1>2, <2>1, <3>1, PlacesOf, Zenon DEF ElCalls
    <3> QED BY <1>3, <3>2, <3>3, Zenon DEF CallClause
  <2>2. CASE pc[w] \in {"markSucceeded", "clearPending", "finalize"}
    <3>1. pc'[w] \in {AfterRecovery(new, evt[w]), Handler[evt[w]]}
      BY <1>1, <2>2, Zenon DEF AfterUpdate
    <3>2. pc'[w] \notin {"creating", "extCreate", "recover", "clearPending"}
      BY <1>2, <3>1, PlacesOf DEF Places
    <3> QED BY <3>2 DEF CallClause
  <2>3. CASE pc[w] = "markPending"
    <3>1. pc'[w] = "creating"
      BY <1>1, <2>3 DEF AfterUpdate
    <3>2. new = SetExternalCreatePending(obj)
      BY <1>1, <2>3, WrittenFields
    <3>3. new.age = 0
      BY <1>1, <3>2, MarksFields, Zenon
    <3>4. new.age <= CreateTicks
      BY <1>2, <3>3
    <3> QED BY <1>3, <3>1, <3>4 DEF CallClause
  <2>4. CASE pc[w] \in {"markFailed", "markCreated", "unfinalize"}
    <3>1. pc'[w] \in {"statusError", "report", "idle"}
      BY <1>1, <2>4, Zenon DEF AfterUpdate
    <3> QED BY <3>1, Zenon DEF CallClause
  <2> QED BY <1>1, <2>1, <2>2, <2>3, <2>4, Zenon DEF UpdateCalls
<1> QED BY <1>5, <1>6

\* Every step keeps RollbackInv.
LEMMA RollbackNextInv ==
  ASSUME OneWorker, VisibleInGrace, ReconcileInv, ReconcileInv', RollbackInv, [Next]_vars
  PROVE  RollbackInv'
<1>0. PICK w : Workers = {w}
  BY DEF OneWorker
<1> SUFFICES MarkClause' /\ CallClause(w)'
  BY <1>0 DEF RollbackInv
<1>i. w \in Workers /\ MarkClause /\ CallClause(w)
  BY <1>0, Zenon DEF RollbackInv
<1>t. /\ CreateTicks \in Nat /\ Lag \in Nat /\ Grace \in Nat
      /\ ext.lag \in 0..Lag /\ ext'.lag \in 0..Lag
      /\ obj # Gone => obj \in Object /\ obj.age \in 0..Grace
  BY ReconcileConstants, GraceAssumption DEF ReconcileInv, StoreInv, External, Object
<1> DEFINE Timed == {"creating", "extCreate", "recover", "clearPending"}
<1>q. ASSUME UNCHANGED obj, ext'.lag = ext.lag \/ ext'.lag = 0, pc'[w] \notin Timed
      PROVE  MarkClause' /\ CallClause(w)'
  <2>1. MarkClause'
    BY <1>i, <1>q DEF MarkClause
  <2>2. CallClause(w)'
    BY <1>q, Zenon DEF CallClause
  <2> QED BY <2>1, <2>2
<1>1. CASE Fetch(w)
  <2>1. UNCHANGED <<obj, ext>>
    BY <1>1, <1>i, FetchEffect
  <2>2. CASE pc'[w] = "idle"
    BY <2>1, <2>2, <1>q, Zenon
  <2>3. CASE /\ pc'[w] = AfterFetch(obj, evt[w])
             /\ pc'[w] \in ElCalls => el'[w] = obj
    <3>1. evt[w] \in EventTypes
      BY <1>1, <1>i, Zenon DEF ReconcileInv, WorkInv, Fetch
    <3>2. /\ pc'[w] \notin {"creating", "extCreate", "clearPending"}
          /\ pc'[w] = "recover" => obj.incomplete /\ el'[w] = obj
      <4>1. \/ pc'[w] \in {"paused", "orphan"}
            \/ pc'[w] = AfterOrphan(obj, evt[w])
        BY <2>3, Zenon DEF AfterFetch
      <4>2. CASE pc'[w] \in {"paused", "orphan"}
        BY <4>2, Zenon
      <4>3. CASE pc'[w] = AfterOrphan(obj, evt[w])
        <5>1. /\ pc'[w] \in Places \cup {"finalize", "recover"}
              /\ pc'[w] = "recover" => obj.incomplete
          BY <3>1, <4>3, PlacesOf, Zenon
        <5> QED BY <2>3, <5>1, Zenon DEF Places, ElCalls
      <4> QED BY <4>1, <4>2, <4>3, Zenon
    <3> QED BY <1>i, <2>1, <3>2, Zenon DEF MarkClause, CallClause
  <2> QED BY <1>1, <1>i, <2>2, <2>3, FetchEffect, Zenon
<1>2. CASE Get(w)
  <2>1. UNCHANGED <<obj, ext>>
    BY <1>2, <1>i, GetEffect, Zenon
  <2>2. CASE pc'[w] = "idle"
    BY <2>1, <2>2, <1>q
  <2>3. CASE pc[w] \in DOMAIN AfterGet /\ pc'[w] = AfterGet[pc[w]]
    <3>1. pc'[w] \in Timed => pc'[w] = "extCreate" /\ pc[w] = "creating"
      BY <2>3, AfterGetFrom
    <3> QED BY <1>i, <2>1, <3>1, Zenon DEF MarkClause, CallClause
  <2> QED BY <1>2, <1>i, <2>2, <2>3, GetEffect, Zenon
<1>3. CASE Update(w)
  BY <1>3, <1>i, RollbackUpdate, Zenon
\* The recovery finds nothing and the grace period over: nothing is there.
<1>4. CASE Recover(w)
  <2>1. /\ UNCHANGED <<obj, ext, fresh>> /\ pc[w] = "recover"
        /\ pc'[w] \in {"refuse", "markSucceeded", "clearPending", "idle"}
        /\ pc'[w] = "clearPending" => ~Visible /\ ~ExternalCreatePendingDuring(el[w])
    BY <1>4, <1>i, RecoverEffect, Zenon
  <2>2. CASE pc'[w] # "clearPending"
    BY <2>1, <2>2, <1>q, Zenon
  <2>3. CASE pc'[w] = "clearPending" /\ ~fresh'[w]
    BY <1>i, <2>1, <2>3, Zenon DEF MarkClause, CallClause
  <2>4. CASE pc'[w] = "clearPending" /\ fresh'[w]
    <3>1. fresh[w] /\ obj # Gone /\ el[w] = obj /\ obj.incomplete
      BY <1>i, <2>1, <2>4, Zenon DEF CallClause, ReconcileInv, FreshInv
    <3>2. obj.started /\ (ext.lag > 0 => obj.age + ext.lag <= CreateTicks + Lag)
      BY <1>i, <3>1 DEF MarkClause
    <3>3. obj.age >= Grace
      <4>1. ~(obj.age < Grace)
        BY <2>1, <2>4, <3>1, <3>2, Zenon DEF ExternalCreatePendingDuring
      <4>2. obj.age \in Nat /\ Grace \in Nat
        BY <1>t, <3>1
      <4> QED BY <4>1, <4>2
    <3>4. ext.lag = 0
      BY <1>t, <3>1, <3>2, <3>3 DEF VisibleInGrace
    <3>5. ~ext.there
      BY <2>1, <2>4, <3>4, Zenon DEF Visible
    <3> QED BY <1>i, <2>1, <2>4, <3>5, Zenon DEF MarkClause, CallClause
  <2> QED BY <2>2, <2>3, <2>4, Zenon
<1>5. CASE UpdateFails(w) \/ UpdateStatusFails(w) \/ QueueFollowUp(w) \/ ExtObserve(w)
  BY <1>5, <1>i, <1>q, QuietEffect, Zenon
<1>6. CASE UpdateStatus(w)
  BY <1>6, <1>i, <1>q, StatusEffect
\* Create lands while its mark is young.
<1>7. CASE ExtCreate(w)
  <2>1. pc[w] = "extCreate" /\ UNCHANGED obj /\ pc'[w] \in {"created", "failed"}
    BY <1>7, <1>i, ExtCreateEffect, Zenon
  <2>2. obj # Gone => obj.age <= CreateTicks
    BY <1>i, <2>1 DEF CallClause
  <2>3. obj # Gone => obj.age + ext'.lag <= CreateTicks + Lag
    BY <1>t, <2>2
  <2> QED BY <1>i, <2>1, <2>3, Zenon DEF MarkClause, CallClause
<1>8. CASE ExtUpdate(w)
  BY <1>8, <1>i, <1>q, ExtUpdateEffect, Zenon
<1>9. CASE ExtDelete(w)
  BY <1>9, <1>i, <1>q, ExtDeleteEffect, Zenon
<1>10. CASE Users
  <2>1. pc' = pc /\ el' = el
    BY <1>10, UsersEffect, Zenon
  <2>2. CASE UNCHANGED <<obj, fresh>> /\ ~ext'.there /\ ext'.lag = 0
    BY <1>i, <2>1, <2>2 DEF MarkClause, CallClause
  <2>3. CASE UNCHANGED ext /\ ~fresh'[w] /\ \E f, o : obj' = NewObject(f, o)
    <3>1. obj'.age = 0 /\ obj'.incomplete = FALSE
      BY <2>3 DEF NewObject
    <3>2. 0 <= CreateTicks /\ 0 + ext.lag <= CreateTicks + Lag
      BY <1>t
    <3>3. MarkClause'
      BY <2>3, <3>1, <3>2 DEF MarkClause
    <3> QED BY <2>1, <2>3, <3>1, <3>2, <3>3, Zenon DEF CallClause
  <2>4. CASE UNCHANGED ext /\ ~fresh'[w] /\ obj # Gone
             /\ \E new : EditOf(obj, new) /\ obj' \in {new, Settle(new)}
    <3>1. PICK new : EditOf(obj, new) /\ obj' \in {new, Gone}
      BY <2>4, Zenon DEF Settle
    <3>2. /\ new.incomplete => new.started
          /\ ext.lag > 0 => new.age + ext.lag <= CreateTicks + Lag
      BY <1>i, <1>t, <2>4, <3>1 DEF MarkClause, EditOf
    <3>3. pc[w] \in {"creating", "extCreate"} => new.age <= CreateTicks
      <4>1. pc[w] \in {"creating", "extCreate"} => obj.age <= CreateTicks
        BY <1>i, <2>4, Zenon DEF CallClause
      <4>2. new.age = 0 \/ new.age = obj.age
        BY <3>1 DEF EditOf
      <4> QED BY <1>t, <4>1, <4>2
    <3> QED BY <2>1, <2>4, <3>1, <3>2, <3>3, Zenon DEF MarkClause, CallClause
  <2> QED BY <1>10, <1>i, <2>2, <2>3, <2>4, UsersEffect, Zenon
\* Time makes the mark older by as much as it brings the resource closer.
<1>11. CASE Tick
  <2>1. UNCHANGED <<pc, fresh>> /\ el' = [v \in Workers |-> Aged(el[v])]
    BY <1>11 DEF Tick
  <2>2. ext'.there = ext.there /\ ext'.lag = IF ext.lag > 0 THEN ext.lag - 1 ELSE 0
    BY <1>11, Zenon DEF Tick, ReconcileInv, External
  <2>3. CASE obj = Gone
    <3>1. obj' = Gone
      BY <1>11, <2>3 DEF Tick, Aged
    <3>2. ~fresh[w]
      BY <1>i, <2>3, Zenon DEF ReconcileInv, FreshInv
    <3> QED BY <2>1, <3>1, <3>2 DEF MarkClause, CallClause
  <2>4. CASE obj # Gone
    <3>1. obj \in Object /\ obj' = Older(obj) /\ obj' = Aged(obj)
      BY <1>11, <2>4, AgedType, ReconcileConstants DEF Tick, ReconcileInv, StoreInv
    <3>2. /\ obj'.incomplete = obj.incomplete /\ obj'.started = obj.started
          /\ obj'.age \in {obj.age, obj.age + 1}
      BY <3>1, Zenon DEF Older, Object
    <3>3. MarkClause'
      <4>1. /\ obj.incomplete => obj.started
            /\ ext.lag > 0 => obj.age + ext.lag <= CreateTicks + Lag
        BY <1>i, <2>4 DEF MarkClause
      <4>2. ext'.lag > 0 => ext.lag > 0 /\ ext'.lag = ext.lag - 1
        BY <1>t, <2>2
      <4>3. obj.age \in Nat /\ (obj'.age = obj.age \/ obj'.age = obj.age + 1)
        BY <1>t, <2>4, <3>2
      <4>4. ext'.lag > 0 => obj'.age + ext'.lag <= CreateTicks + Lag
        BY <1>t, <4>1, <4>2, <4>3
      <4> QED BY <3>2, <4>1, <4>4 DEF MarkClause
    <3>4. pc[w] \in {"creating", "extCreate"} => obj.age < CreateTicks
      BY <1>11, <1>i, Zenon DEF Tick
    <3>5. pc'[w] \in {"creating", "extCreate"} => obj'.age <= CreateTicks
      BY <1>t, <2>1, <2>4, <3>2, <3>4
    <3>6. pc'[w] = "recover" /\ fresh'[w] => el'[w] = obj' /\ obj'.incomplete
      BY <1>i, <2>1, <3>1, <3>2, Zenon DEF CallClause
    <3> QED BY <1>i, <2>1, <2>2, <3>3, <3>5, <3>6 DEF CallClause
  <2> QED BY <2>3, <2>4
<1>12. CASE \/ \E v \in Workers, e \in EventTypes : v = w /\ Take(v, e)
            \/ Deliver \/ Resync \/ Crash \/ UNCHANGED vars
  <2>1. UNCHANGED <<obj, ext>>
    BY <1>12, <1>i, OtherEffect, Zenon
  <2>2. CASE pc'[w] \in {"idle", "fetch"}
    BY <2>1, <2>2, <1>q, Zenon
  <2>3. CASE pc'[w] = pc[w] /\ el'[w] = el[w] /\ fresh'[w] = fresh[w]
    BY <1>i, <2>1, <2>3 DEF MarkClause, CallClause
  <2> QED BY <1>12, <1>i, <2>2, <2>3, OtherEffect
<1> QED
  BY <1>0, <1>1, <1>2, <1>3, <1>4, <1>5, <1>6, <1>7, <1>8, <1>9, <1>10, <1>11, <1>12, Zenon
     DEF Next, Step

\* With one worker, and a created resource that is visible within the grace
\* period, the recovery of processItem removes the pending mark only when the
\* create did not land: through users that pause, unmark, delete and re-create
\* the object, finalizers of others, crashes and failed calls
\* (docs/overview.md:172).
THEOREM RollbackTheorem ==
  ASSUME OneWorker, VisibleInGrace
  PROVE  Spec => RollbackIsRight
<1>1. Init => RollbackInv
  BY DEF Init, RollbackInv, MarkClause, CallClause
<1>2. ReconcileInv /\ ReconcileInv' /\ RollbackInv /\ [Next]_vars => RollbackInv'
  BY RollbackNextInv
<1>3. ReconcileInv /\ RollbackInv /\ [Next]_vars =>
        [\A w \in Workers : Update(w) /\ pc[w] = "clearPending" => ~ext.there]_vars
  BY UpdateEffect, Zenon DEF RollbackInv, CallClause
<1> QED
  BY <1>1, <1>2, <1>3, ReconcileInitInv, ReconcileNextInv, PTL DEF Spec, RollbackIsRight

-----------------------------------------------------------------------------
(* Deletions, for any number of workers                                    *)

\* Something in memory leads to a Delete.
Asked ==
  \/ "Delete" \in queued \cup delayed
  \/ \E n \in transit : n.type = "Delete"
  \/ \E w \in Workers : pc[w] # "idle" /\ evt[w] = "Delete"

\* The deletion was requested, or is over.
Doomed == acts > 0 /\ (obj = Gone \/ obj.deleting)

\* A deletion waits for a finalizer.
HeldClause ==
  obj # Gone => acts > 0 /\ (obj.deleting => obj.ours \/ obj.foreign)

\* A finalizer is added only to an object that stays; only a Delete event leads to
\* the Delete of the ExternalClient; and it gets there past the orphan path, which
\* an object found to be orphaned leaves without our finalizer.
DeleteClause(w) ==
  /\ pc[w] = "finalize" /\ fresh[w] => obj # Gone /\ ~obj.deleting
  /\ pc[w] \in {"delete", "extDelete"} => evt[w] = "Delete"
  /\ evt[w] = "Delete" /\ pc[w] \notin {"idle", "fetch", "paused", "orphan"} /\ obj # Gone
       => ~(spared[w] /\ obj.ours)

DeleteInv ==
  /\ HeldClause
  /\ Asked => Doomed
  /\ \A w \in Workers : DeleteClause(w)

\* What becomes of an object by anything but its re-creation: a deletion is not
\* taken back, and our finalizer is not put on what is deleted.
Follows(o, n) ==
  \/ n = Gone
  \/ /\ o \in Object /\ n \in Object
     /\ o.deleting => n.deleting
     /\ n.deleting => (n.ours => o.ours) /\ (n.ours \/ n.foreign)

\* A worker that a step is not about: its copy is at most as fresh as before.
Bystander(v) ==
  /\ pc'[v] = pc[v] /\ evt'[v] = evt[v] /\ spared'[v] = spared[v]
  /\ fresh'[v] => /\ fresh[v]
                  /\ obj' # Gone /\ obj # Gone => obj'.deleting = obj.deleting

\* Only a notification of a deletion becomes a Delete event.
LEMMA UpdateFuncDelete ==
  ASSUME NEW n, UpdateFunc(n).type = "Delete"
  PROVE  n.deleting
<1> SUFFICES ASSUME ~n.deleting PROVE FALSE
  OBVIOUS
<1>1. DOMAIN WatchAnnotations = 1..2
  BY DEF WatchAnnotations
<1>2. \A i \in 1..2 : WatchAnnotations[i].type # "Delete"
  BY DEF WatchAnnotations
<1>3. CASE Triggered(n) # {}
  <2>1. Triggered(n) \subseteq 1..2
    BY <1>1 DEF Triggered
  <2> DEFINE first == CHOOSE i \in Triggered(n) : \A j \in Triggered(n) : i <= j
  <2>2. \E i \in Triggered(n) : \A j \in Triggered(n) : i <= j
    <3>1. CASE 1 \in Triggered(n)
      BY <3>1, <2>1
    <3>2. CASE 1 \notin Triggered(n)
      BY <3>2, <2>1, <1>3
    <3> QED BY <3>1, <3>2
  <2>3. first \in 1..2
    BY <2>1, <2>2
  <2>4. UpdateFunc(n).type = WatchAnnotations[first].type
    BY <1>3, Zenon DEF UpdateFunc
  <2> HIDE DEF first
  <2> QED BY <2>3, <2>4, <1>2
<1>4. CASE Triggered(n) = {}
  BY <1>4, Zenon DEF UpdateFunc, GetEventType, Ignored
<1> QED BY <1>3, <1>4

\* A Delete event is about an object that is gone or is being deleted.
LEMMA NotesDelete ==
  ASSUME NEW old \in Object \cup {Gone}, NEW new \in Object \cup {Gone},
         NEW note \in Notes(old, new), note.type = "Delete"
  PROVE  old # Gone /\ (new = Gone \/ new.deleting)
<1> DEFINE n == [deleting |-> new.deleting,
                 paused   |-> Change(old.paused, new.paused),
                 pending  |-> Change(old.started, new.started),
                 spec     |-> IF old.spec = new.spec THEN "same" ELSE "changed",
                 sameVersion |-> FALSE]
           d == IF old = Gone THEN AddFunc(new.started)
                ELSE IF new = Gone THEN DeleteFunc(old.deleting)
                ELSE UpdateFunc(n)
<1>1. Notes(old, new) = IF d = Ignored THEN {} ELSE {[type |-> d.type, guarded |-> d.guarded]}
  BY Zenon DEF Notes
<1>2. n.deleting = new.deleting
  OBVIOUS
<1> HIDE DEF n
<1>3. (old = Gone => d = AddFunc(new.started)) /\ (old # Gone /\ new # Gone => d = UpdateFunc(n))
  BY Zenon
<1> HIDE DEF d
<1>4. note.type = d.type
  BY <1>1
<1>5. CASE old = Gone
  BY <1>3, <1>4, <1>5 DEF AddFunc, GetEventType
<1>6. CASE old # Gone /\ new # Gone
  BY <1>2, <1>3, <1>4, <1>6, UpdateFuncDelete
<1> QED BY <1>5, <1>6

\* What an Update writes, as far as deletions are concerned.
LEMMA WrittenFollows ==
  ASSUME obj \in Object, NEW label \in UpdateCalls, label = "finalize" => ~obj.deleting
  PROVE  LET new == Written[label]
         IN /\ new \in Object
            /\ new.deleting = obj.deleting
            /\ new.deleting => (new.ours => obj.ours)
            /\ label = "orphan" => ~new.ours
<1> DEFINE new == Written[label]
<1>1. new \in Object
  BY WrittenType
<1>2. CASE label \in {"orphan", "unfinalize"}
  <2>1. \/ new = [obj EXCEPT !.ours = FALSE]
        \/ new = [obj EXCEPT !.ours = FALSE, !.foreign = FALSE]
    BY <1>2, WrittenFields
  <2> HIDE DEF new
  <2>2. new.deleting = obj.deleting /\ ~new.ours
    BY <2>1, Zenon DEF Object
  <2> QED BY <1>1, <2>2 DEF new
<1>3. CASE label = "finalize"
  <2>1. new = [obj EXCEPT !.ours = TRUE]
    BY <1>3, WrittenFields
  <2> HIDE DEF new
  <2>2. new.deleting = obj.deleting
    BY <2>1, Zenon DEF Object
  <2> QED BY <1>1, <1>3, <2>2 DEF new
<1>4. CASE label \in {"markSucceeded", "markFailed", "markCreated", "clearPending", "markPending"}
  <2>1. new \in {SetExternalCreateOutcome(obj), RemovePending(obj), SetExternalCreatePending(obj)}
    BY <1>4, WrittenFields
  <2> HIDE DEF new
  <2>2. SameHold(obj, new)
    BY <2>1, MarksFields, Zenon
  <2> QED BY <1>1, <1>4, <2>2 DEF SameHold, new
<1> QED BY <1>2, <1>3, <1>4 DEF UpdateCalls

\* The API server removes what is deleted and has no finalizer.
LEMMA SettleFollows ==
  ASSUME NEW o \in Object, NEW n \in Object, o.deleting => n.deleting,
         n.deleting => (n.ours => o.ours)
  PROVE  Follows(o, Settle(n))
BY Zenon DEF Follows, Settle

\* What a call of a worker leaves alone, and what it may queue.
CallFrame(w) ==
  /\ \A v \in Workers \ {w} : pc'[v] = pc[v] /\ evt'[v] = evt[v] /\ spared'[v] = spared[v]
  /\ pc'[w] = "idle" \/ evt'[w] = evt[w]
  /\ pc'[w] = "idle" \/ pc[w] = "fetch" \/ spared'[w] = spared[w]
  /\ queued' \cup delayed' \subseteq queued \cup delayed \cup {evt[w], "Create", "Update"}

\* Going on to the next call queues nothing, ...
LEMMA GotoFrame ==
  ASSUME WorkInv, NEW w \in Workers, NEW label, NEW o, Goto(w, label, o)
  PROVE  CallFrame(w) /\ evt' = evt /\ pc'[w] = label
BY Zenon DEF WorkInv, Goto, CallFrame

\* ... the end of a reconcile at most the event again, a Create or an Update,
\* ...
LEMMA EndFrame ==
  ASSUME WorkInv, NEW w \in Workers, NEW now, NEW later, NEW failed,
         now \cup later \subseteq {evt[w], "Create", "Update"}, End(w, now, later, failed)
  PROVE  CallFrame(w) /\ pc'[w] = "idle"
<1>1. /\ queued' = queued \cup now
      /\ delayed' = delayed \cup later \cup (IF failed THEN {evt[w]} ELSE {})
      /\ pc' = [pc EXCEPT ![w] = "idle"] /\ evt' = [evt EXCEPT ![w] = Absent]
      /\ spared' = [spared EXCEPT ![w] = FALSE]
  BY DEF End
<1>2. queued' \cup delayed' \subseteq queued \cup delayed \cup {evt[w], "Create", "Update"}
  BY <1>1
<1> QED BY <1>1, <1>2, Zenon DEF WorkInv, CallFrame

\* ... and no step of a worker more than that.
LEMMA StepFrame ==
  ASSUME ReconcileInv, NEW w \in Workers, Step(w)
  PROVE  CallFrame(w)
<1>0. WorkInv
  BY Zenon DEF ReconcileInv
<1>1. ASSUME NEW failed, End(w, {}, {}, failed) PROVE CallFrame(w)
  <2>1. {} \cup {} \subseteq {evt[w], "Create", "Update"}
    OBVIOUS
  <2> QED BY <1>0, <1>1, <2>1, EndFrame
<1>2. Return(w) \/ ReturnError(w) => CallFrame(w)
  BY <1>1, Zenon DEF Return, ReturnError
<1>3. ASSUME NEW label, NEW o, Goto(w, label, o) PROVE CallFrame(w)
  BY <1>0, <1>3, GotoFrame
<1>4. CASE Fetch(w) \/ Get(w)
  BY <1>2, <1>3, <1>4, Zenon DEF Fetch, Get
<1>5. CASE Recover(w)
  <2>1. End(w, {}, {evt[w]}, FALSE) => CallFrame(w)
    <3>1. {} \cup {evt[w]} \subseteq {evt[w], "Create", "Update"}
      OBVIOUS
    <3> QED BY <1>0, <3>1, EndFrame, Zenon
  <2>2. \/ End(w, {}, {evt[w]}, FALSE)
        \/ \E label, o : Goto(w, label, o)
    BY <1>5, Zenon DEF Recover
  <2> QED BY <1>3, <2>1, <2>2, Zenon
<1>6. CASE Update(w) \/ UpdateFails(w)
  BY <1>2, <1>3, <1>6, Zenon DEF Update, UpdateFails
<1>7. CASE UpdateStatus(w) \/ UpdateStatusFails(w)
  <2>1. \/ ReturnError(w)
        \/ \E failed : End(w, {}, {}, failed)
        \/ \E label, o : Goto(w, label, o)
    BY <1>7, Zenon DEF UpdateStatus, UpdateStatusFails
  <2> QED BY <1>1, <1>2, <1>3, <2>1, Zenon
<1>8. CASE QueueFollowUp(w)
  <2>1. CASE End(w, {"Create"}, {}, FALSE)
    <3>1. {"Create"} \cup {} \subseteq {evt[w], "Create", "Update"}
      OBVIOUS
    <3> QED BY <1>0, <2>1, <3>1, EndFrame, Zenon
  <2>2. CASE End(w, {"Update"}, {}, FALSE)
    <3>1. {"Update"} \cup {} \subseteq {evt[w], "Create", "Update"}
      OBVIOUS
    <3> QED BY <1>0, <2>2, <3>1, EndFrame, Zenon
  <2> QED BY <1>8, <2>1, <2>2, Zenon DEF QueueFollowUp
<1>9. CASE ExtObserve(w) \/ ExtCreate(w) \/ ExtUpdate(w) \/ ExtDelete(w)
  <2>1. \E label, o : Goto(w, label, o)
    BY <1>9, Zenon DEF ExtObserve, ExtCreate, ExtUpdate, ExtDelete
  <2> QED BY <1>3, <2>1
<1> QED BY <1>4, <1>5, <1>6, <1>7, <1>8, <1>9 DEF Step

\* A worker that makes a call is not idle.
LEMMA StepIsBusy ==
  ASSUME NEW w, Step(w)
  PROVE  pc[w] # "idle"
<1>1. CASE Fetch(w) \/ Recover(w) \/ QueueFollowUp(w)
  BY <1>1, Zenon DEF Fetch, Recover, QueueFollowUp
<1>2. CASE Get(w)
  BY <1>2, Zenon DEF Get, AfterGet
<1>3. CASE Update(w) \/ UpdateFails(w)
  BY <1>3, Zenon DEF Update, UpdateFails, UpdateCalls
<1>4. CASE UpdateStatus(w) \/ UpdateStatusFails(w)
  BY <1>4 DEF UpdateStatus, UpdateStatusFails, StatusCalls
<1>5. CASE ExtObserve(w) \/ ExtCreate(w) \/ ExtUpdate(w) \/ ExtDelete(w)
  BY <1>5 DEF ExtObserve, ExtCreate, ExtUpdate, ExtDelete
<1> QED BY <1>1, <1>2, <1>3, <1>4, <1>5 DEF Step

\* What a call does to the object, and what others learn of it.
LEMMA StepObject ==
  ASSUME ReconcileInv, DeleteInv, NEW w \in Workers, Step(w)
  PROVE  /\ acts' = acts
         /\ transit' \subseteq transit \cup Notes(obj, obj')
         /\ obj' = obj \/ (obj # Gone /\ Follows(obj, obj'))
         /\ \A v \in Workers \ {w} : fresh'[v] => fresh[v] /\ obj' = obj
<1>0. fresh \in [Workers -> BOOLEAN]
  BY DEF ReconcileInv, FreshInv
<1>1. CASE Fetch(w) \/ Get(w)
  <2>1. UNCHANGED <<obj, transit, acts>>
    BY <1>1, Zenon DEF Fetch, Get
  <2>2. fresh' \in {fresh, [fresh EXCEPT ![w] = TRUE]}
    BY <1>1 DEF Fetch, Get
  <2> QED BY <1>0, <2>1, <2>2
<1>2. CASE Recover(w) \/ UpdateFails(w) \/ UpdateStatusFails(w) \/ QueueFollowUp(w)
  BY <1>2, Zenon DEF Recover, UpdateFails, UpdateStatusFails, QueueFollowUp, bounds
<1>3. CASE ExtObserve(w) \/ ExtCreate(w) \/ ExtUpdate(w) \/ ExtDelete(w)
  BY <1>3 DEF ExtObserve, ExtCreate, ExtUpdate, ExtDelete
<1>4. CASE Update(w)
  <2> DEFINE new == Written[pc[w]]
  <2>1. /\ pc[w] \in UpdateCalls /\ fresh[w] /\ obj \in Object /\ obj # Gone
        /\ obj' = Settle(new) /\ acts' = acts
    BY <1>4, UpdateEffect, Zenon
  <2>2. transit' = transit \cup Notes(obj, obj')
    BY <1>4, Zenon DEF Update, Store
  <2>3. pc[w] = "finalize" => ~obj.deleting
    BY <2>1, Zenon DEF DeleteInv, DeleteClause
  <2>4. /\ new \in Object
        /\ new.deleting = obj.deleting
        /\ new.deleting => (new.ours => obj.ours)
    BY <2>1, <2>3, WrittenFollows
  <2>5. \A v \in Workers \ {w} : ~fresh'[v]
    BY <1>4, Zenon DEF Update, Wrote
  <2> HIDE DEF new
  <2>6. Follows(obj, obj')
    BY <2>1, <2>4, SettleFollows, Zenon
  <2> QED BY <2>1, <2>2, <2>5, <2>6, Zenon
<1>5. CASE UpdateStatus(w)
  <2>1. obj' = obj /\ transit' = transit \cup Notes(obj, obj') /\ acts' = acts
    BY <1>5, Zenon DEF UpdateStatus, Store, bounds
  <2>2. \A v \in Workers \ {w} : ~fresh'[v]
    BY <1>5, Zenon DEF UpdateStatus, Wrote
  <2> QED BY <2>1, <2>2
<1> QED BY <1>1, <1>2, <1>3, <1>4, <1>5, Zenon DEF Step

\* Where an event leads: to the Delete handler only when it is a Delete, to a new
\* finalizer only for an object that stays, and past the orphan path only what is
\* not to be orphaned.
LEMMA LabelsOf ==
  ASSUME NEW o \in Object, NEW e \in EventTypes
  PROVE  /\ Handler[e] # "finalize" /\ (Handler[e] \in {"delete", "extDelete"} => e = "Delete")
         /\ AfterRecovery(o, e) = "finalize" => ~o.deleting
         /\ AfterRecovery(o, e) \in {"delete", "extDelete"} => e = "Delete"
         /\ AfterOrphan(o, e) = "finalize" => ~o.deleting
         /\ AfterOrphan(o, e) \in {"delete", "extDelete"} => e = "Delete"
         /\ AfterFetch(o, e) = "finalize" => ~o.deleting
         /\ AfterFetch(o, e) \in {"delete", "extDelete"} => e = "Delete"
         /\ AfterFetch(o, e) \notin {"paused", "orphan"} => ~(o.deleting /\ o.orphan /\ o.ours)
<1>1. Handler[e] # "finalize" /\ (Handler[e] \in {"delete", "extDelete"} => e = "Delete")
  BY DEF Handler, EventTypes
<1>2. /\ AfterRecovery(o, e) = "finalize" => ~o.deleting
      /\ AfterRecovery(o, e) \in {"delete", "extDelete"} => e = "Delete"
  BY <1>1 DEF AfterRecovery
<1>3. /\ AfterOrphan(o, e) = "finalize" => ~o.deleting
      /\ AfterOrphan(o, e) \in {"delete", "extDelete"} => e = "Delete"
  BY <1>2 DEF AfterOrphan
<1>4. /\ AfterFetch(o, e) = "finalize" => ~o.deleting
      /\ AfterFetch(o, e) \in {"delete", "extDelete"} => e = "Delete"
  BY <1>3 DEF AfterFetch
<1>5. AfterFetch(o, e) \notin {"paused", "orphan"} => ~(o.deleting /\ o.orphan /\ o.ours)
  BY DEF AfterFetch
<1> QED BY <1>1, <1>2, <1>3, <1>4, <1>5, Zenon

\* A later Get leads to the deletion only in the handler of a Delete.
LEMMA AfterGetDelete ==
  ASSUME NEW label \in DOMAIN AfterGet
  PROVE  /\ AfterGet[label] # "delete"
         /\ AfterGet[label] = "extDelete" => label = "delete"
<1>1. label \in {"observe", "create", "update", "delete", "sawNothing", "sawOld", "sawCurrent",
                 "creating", "failed", "created", "report", "explain", "deleted"}
  BY DEF AfterGet
<1>2. CASE label \in {"observe", "create", "update", "delete"}
  BY <1>2 DEF AfterGet
<1>3. CASE label \in {"sawNothing", "sawOld", "sawCurrent", "creating"}
  BY <1>3 DEF AfterGet
<1>4. CASE label \in {"failed", "created", "report", "explain", "deleted"}
  BY <1>4 DEF AfterGet
<1> QED BY <1>1, <1>2, <1>3, <1>4, Zenon

\* A step after which the object is the one it was, or what became of it.
Grows == acts' >= acts /\ (obj' = obj \/ (obj # Gone /\ Follows(obj, obj')))

\* Such a step keeps what is known of the object, ...
LEMMA GrowsKeeps ==
  ASSUME ReconcileInv, ReconcileInv', DeleteInv, Grows
  PROVE  /\ HeldClause'
         /\ Doomed => Doomed'
<1>0. acts \in Nat /\ acts' \in Nat /\ acts' >= acts
  BY ReconcileConstants DEF ReconcileInv, BoundsInv, Grows
<1>1. obj # Gone => obj \in Object
  BY DEF ReconcileInv, StoreInv
<1>2. CASE obj' = obj
  <2>1. HeldClause
    BY DEF DeleteInv
  <2>2. HeldClause'
    BY <1>0, <1>2, <2>1 DEF HeldClause
  <2>3. Doomed => Doomed'
    BY <1>0, <1>2 DEF Doomed
  <2> QED BY <2>2, <2>3
<1>3. CASE obj # Gone /\ Follows(obj, obj')
  <2>1. acts > 0 /\ acts' > 0
    BY <1>0, <1>3 DEF DeleteInv, HeldClause
  <2>2. HeldClause'
    BY <1>3, <2>1, Zenon DEF HeldClause, Follows
  <2>3. Doomed => Doomed'
    BY <1>3, <2>1, Zenon DEF Doomed, Follows
  <2> QED BY <2>2, <2>3
<1> QED BY <1>2, <1>3 DEF Grows

\* ... and what a worker relies on that processes a Delete.
LEMMA OrphanClauseKeeps ==
  ASSUME ReconcileInv, DeleteInv, Grows, NEW w \in Workers, evt[w] = "Delete",
         pc[w] \notin {"idle", "fetch", "paused", "orphan"}, obj' # Gone
  PROVE  ~(spared[w] /\ obj'.ours)
<1>1. CASE obj' = obj
  BY <1>1, Zenon DEF DeleteInv, DeleteClause
<1>2. CASE obj # Gone /\ Follows(obj, obj')
  <2>1. ~(spared[w] /\ obj.ours)
    BY <1>2 DEF DeleteInv, DeleteClause
  <2>2. Asked
    BY Zenon DEF Asked
  <2>3. obj.deleting
    BY <1>2, <2>2, Zenon DEF DeleteInv, Doomed
  <2> QED BY <1>2, <2>1, <2>3, Zenon DEF Follows
<1> QED BY <1>1, <1>2, Zenon DEF Grows

\* A step of another worker keeps the clause of a worker that does not move.
LEMMA BystanderKeeps ==
  ASSUME ReconcileInv, ReconcileInv', DeleteInv, Grows, NEW v \in Workers, Bystander(v)
  PROVE  DeleteClause(v)'
<1>1. DeleteClause(v)
  BY Zenon DEF DeleteInv
<1>2. pc'[v] = "finalize" /\ fresh'[v] => obj' # Gone /\ ~obj'.deleting
  <2> SUFFICES ASSUME pc'[v] = "finalize", fresh'[v]
               PROVE  obj' # Gone /\ ~obj'.deleting
    BY Zenon
  <2>1. obj' # Gone
    BY Zenon DEF ReconcileInv, FreshInv
  <2>2. pc[v] = "finalize" /\ fresh[v]
    BY Zenon DEF Bystander
  <2>3. obj # Gone /\ ~obj.deleting
    BY <1>1, <2>2, Zenon DEF DeleteClause
  <2> QED BY <2>1, <2>3, Zenon DEF Bystander
<1>3. pc'[v] \in {"delete", "extDelete"} => evt'[v] = "Delete"
  BY <1>1, Zenon DEF DeleteClause, Bystander
<1>4. evt'[v] = "Delete" /\ pc'[v] \notin {"idle", "fetch", "paused", "orphan"} /\ obj' # Gone
        => ~(spared'[v] /\ obj'.ours)
  <2> SUFFICES ASSUME evt'[v] = "Delete", obj' # Gone,
                      pc'[v] \notin {"idle", "fetch", "paused", "orphan"}
               PROVE  ~(spared'[v] /\ obj'.ours)
    BY Zenon
  <2>1. evt[v] = "Delete" /\ pc[v] \notin {"idle", "fetch", "paused", "orphan"}
    BY Zenon DEF Bystander
  <2>2. spared'[v] = spared[v]
    BY Zenon DEF Bystander
  <2> QED BY <2>1, <2>2, OrphanClauseKeeps, Zenon
<1> QED BY <1>2, <1>3, <1>4 DEF DeleteClause

\* The worker that makes the call.
LEMMA CallerKeeps ==
  ASSUME ReconcileInv, ReconcileInv', DeleteInv, Grows, NEW w \in Workers, Step(w)
  PROVE  DeleteClause(w)'
<1>0. /\ WorkInv /\ pc[w] # "idle" /\ evt[w] \in EventTypes
      /\ obj # Gone => obj \in Object
  BY StepIsBusy DEF ReconcileInv, WorkInv, StoreInv
<1>1. CallFrame(w)
  BY StepFrame, Zenon
<1>2. CASE pc'[w] = "idle"
  BY <1>2 DEF DeleteClause
<1> SUFFICES ASSUME pc'[w] # "idle" PROVE DeleteClause(w)'
  BY <1>2, Zenon
<1>3. evt'[w] = evt[w]
  BY <1>1 DEF CallFrame
\* A call from past the orphan path to a label of no interest.
<1>4. ASSUME pc[w] \notin {"fetch", "paused", "orphan"},
             pc'[w] = "finalize" => obj' # Gone /\ ~obj'.deleting,
             pc'[w] \in {"delete", "extDelete"} => evt[w] = "Delete"
      PROVE  DeleteClause(w)'
  <2>1. evt[w] = "Delete" /\ obj' # Gone => ~(spared[w] /\ obj'.ours)
    BY <1>0, <1>4, OrphanClauseKeeps
  <2>2. spared'[w] = spared[w]
    BY <1>1, <1>4, Zenon DEF CallFrame
  <2> QED BY <1>3, <1>4, <2>1, <2>2, Zenon DEF DeleteClause
<1>5. CASE Fetch(w)
  <2>1. pc'[w] = AfterFetch(obj, evt[w]) /\ obj # Gone /\ obj' = obj /\ spared'[w] = obj.orphan
    BY <1>5, FetchEffect, Zenon
  <2>2. evt[w] = "Delete" => obj.deleting
    BY <1>0, <2>1 DEF DeleteInv, Asked, Doomed
  <2> DEFINE label == AfterFetch(obj, evt[w])
  <2>3. /\ label = "finalize" => ~obj.deleting
        /\ label \in {"delete", "extDelete"} => evt[w] = "Delete"
        /\ label \notin {"paused", "orphan"} => ~(obj.deleting /\ obj.orphan /\ obj.ours)
    BY <1>0, <2>1, LabelsOf, Zenon
  <2>4. pc'[w] = label
    BY <2>1, Zenon
  <2> HIDE DEF label
  <2> QED BY <1>3, <2>1, <2>2, <2>3, <2>4, Zenon DEF DeleteClause
<1>6. CASE Get(w)
  <2>1. pc[w] \in DOMAIN AfterGet /\ pc'[w] = AfterGet[pc[w]]
    BY <1>6, GetEffect
  <2>2. pc[w] \notin {"fetch", "paused", "orphan"}
    BY <2>1, Zenon DEF AfterGet
  <2>3. pc'[w] # "finalize"
    BY <2>1, AfterGetFrom, Zenon
  <2>4. pc'[w] \in {"delete", "extDelete"} => pc[w] = "delete"
    BY <2>1, AfterGetDelete, Zenon
  <2>5. pc[w] = "delete" => evt[w] = "Delete"
    BY Zenon DEF DeleteInv, DeleteClause
  <2> QED BY <1>4, <2>2, <2>3, <2>4, <2>5, Zenon
<1>7. CASE Recover(w)
  <2>1. pc[w] = "recover" /\ pc'[w] \in {"refuse", "markSucceeded", "clearPending", "idle"}
    BY <1>7, RecoverEffect, Zenon
  <2> QED BY <1>4, <2>1, Zenon
<1>8. CASE UpdateFails(w)
  <2>1. pc'[w] \in {"idle", "explain", "sawNothing", "sawOld", "sawCurrent"}
    BY <1>8, QuietEffect, Zenon
  <2>2. CASE pc[w] \in {"markPending", "markCreated"}
    BY <1>4, <2>1, <2>2
  <2>3. CASE pc[w] \notin {"markPending", "markCreated"}
    <3>1. ReturnError(w)
      BY <1>8, <2>3 DEF UpdateFails
    <3>2. pc'[w] = "idle"
      BY <1>0, <3>1, EndAt, Zenon DEF ReturnError
    <3> QED BY <3>2, Zenon
  <2> QED BY <2>2, <2>3
<1>9. CASE UpdateStatusFails(w)
  <2>1. pc'[w] = "idle"
    BY <1>0, <1>9, EndAt, Zenon DEF UpdateStatusFails, ReturnError
  <2> QED BY <2>1
<1>10. CASE QueueFollowUp(w) \/ ExtObserve(w)
  <2>1. pc'[w] \in {"idle", "explain", "sawNothing", "sawOld", "sawCurrent"}
    BY <1>10, QuietEffect
  <2>2. pc[w] \in {"queueCreate", "queueUpdate", "extObserve"}
    BY <1>10, Zenon DEF QueueFollowUp, ExtObserve
  <2> QED BY <1>4, <2>1, <2>2, Zenon
<1>11. CASE UpdateStatus(w)
  <2>1. pc[w] = "statusDeleting" /\ pc'[w] = "unfinalize"
    BY <1>11, StatusEffect, Zenon
  <2> QED BY <1>4, <2>1, Zenon
<1>12. CASE ExtCreate(w) \/ ExtUpdate(w) \/ ExtDelete(w)
  <2>1. pc[w] \in {"extCreate", "extUpdate", "extDelete"}
    BY <1>12, Zenon DEF ExtCreate, ExtUpdate, ExtDelete
  <2>2. pc'[w] \in {"created", "failed", "report", "explain", "deleted", "statusError"}
    BY <1>12, ExtCreateEffect, ExtUpdateEffect, ExtDeleteEffect, Zenon
  <2> QED BY <1>4, <2>1, <2>2
<1>13. CASE Update(w)
  <2> DEFINE new == Written[pc[w]]
  <2>1. /\ pc[w] \in UpdateCalls /\ fresh[w] /\ obj \in Object /\ obj # Gone
        /\ obj' = Settle(new) /\ new \in Object
        /\ pc[w] # "unfinalize" /\ pc'[w] = AfterUpdate(pc[w], new, evt[w])
    BY <1>13, UpdateEffect, Zenon
  <2>2. pc[w] = "finalize" => ~obj.deleting
    BY <2>1, Zenon DEF DeleteInv, DeleteClause
  <2>3. pc[w] = "orphan" => ~new.ours
    BY <2>1, <2>2, WrittenFollows, Zenon
  <2> HIDE DEF new
  <2>4. new.deleting \/ (obj' = new /\ obj' # Gone)
    BY <2>1, ReconcileConstants DEF Settle
  <2>5. CASE pc[w] = "orphan"
    <3>1. pc'[w] = AfterOrphan(new, evt[w])
      BY <2>1, <2>5, Zenon DEF AfterUpdate
    <3>2. obj' # Gone => ~obj'.ours
      BY <2>1, <2>3, <2>5 DEF Settle
    <3>3. pc'[w] = "finalize" => obj' # Gone /\ ~obj'.deleting
      BY <1>0, <2>1, <2>4, <3>1, LabelsOf, Zenon
    <3>4. pc'[w] \in {"delete", "extDelete"} => evt[w] = "Delete"
      BY <1>0, <2>1, <3>1, LabelsOf, Zenon
    <3> QED BY <1>3, <3>2, <3>3, <3>4, Zenon DEF DeleteClause
  <2>6. CASE pc[w] \in {"markSucceeded", "clearPending"}
    <3>1. pc'[w] = AfterRecovery(new, evt[w])
      BY <2>1, <2>6 DEF AfterUpdate
    <3>2. pc'[w] = "finalize" => obj' # Gone /\ ~obj'.deleting
      BY <1>0, <2>1, <2>4, <3>1, LabelsOf, Zenon
    <3>3. pc'[w] \in {"delete", "extDelete"} => evt[w] = "Delete"
      BY <1>0, <2>1, <3>1, LabelsOf, Zenon
    <3> QED BY <1>4, <2>6, <3>2, <3>3, Zenon
  <2>7. CASE pc[w] = "finalize"
    <3>1. pc'[w] = Handler[evt[w]]
      BY <2>1, <2>7 DEF AfterUpdate
    <3> QED BY <1>0, <1>4, <2>1, <2>7, <3>1, LabelsOf, Zenon
  <2>8. CASE pc[w] \in {"markPending", "markFailed", "markCreated"}
    <3>1. pc'[w] \in {"creating", "statusError", "report"}
      BY <2>1, <2>8 DEF AfterUpdate
    <3> QED BY <1>4, <2>8, <3>1, Zenon
  <2> QED BY <2>1, <2>5, <2>6, <2>7, <2>8 DEF UpdateCalls
<1> QED BY <1>5, <1>6, <1>7, <1>8, <1>9, <1>10, <1>11, <1>12, <1>13, Zenon DEF Step

\* What becomes of an object by what users do to it.
LEMMA EditFollows ==
  ASSUME ReconcileInv, DeleteInv, obj # Gone, NEW new, EditOf(obj, new),
         \/ obj' = Settle(new)
         \/ obj' = new /\ new.deleting = obj.deleting /\ new.foreign = obj.foreign
  PROVE  Follows(obj, obj')
<1>1. obj \in Object /\ new \in Object
  BY Zenon DEF ReconcileInv, StoreInv, EditOf
<1>2. CASE obj' = Settle(new)
  <2>1. Follows(obj, Settle(new))
    BY <1>1, SettleFollows, Zenon DEF EditOf
  <2> QED BY <1>2, <2>1, Zenon
<1>3. CASE obj' = new /\ new.deleting = obj.deleting /\ new.foreign = obj.foreign
  <2>1. obj.deleting => obj.ours \/ obj.foreign
    BY Zenon DEF DeleteInv, HeldClause
  <2> QED BY <1>1, <1>3, <2>1, Zenon DEF EditOf, Follows
<1> QED BY <1>2, <1>3, Zenon

\* Users move no worker and queue nothing; what they change makes every copy
\* stale.
LEMMA UsersFrame ==
  ASSUME Users
  PROVE  /\ UNCHANGED <<pc, evt, spared, queued, delayed>>
         /\ transit' \subseteq transit \cup Notes(obj, obj')
         /\ UNCHANGED <<obj, fresh>> \/ \A v \in Workers : ~fresh'[v]
<1>1. ASSUME NEW new, UserWrite(new)
      PROVE  /\ UNCHANGED <<pc, evt, spared, queued, delayed>>
             /\ transit' \subseteq transit \cup Notes(obj, obj')
             /\ \A v \in Workers : ~fresh'[v]
  BY <1>1 DEF UserWrite, Store
<1>2. (\E new : UserWrite(new)) \/ Drift
  BY DEF Users, UserCreate, UserEdit, UserPause, UserPolicy, UserDelete, UserUnmark, ForeignRelease
<1>3. CASE Drift
  BY <1>3, Zenon DEF Drift, work
<1> QED BY <1>1, <1>2, <1>3, Zenon

\* Nothing asks for a Delete of its own accord.
LEMMA AskedFrom ==
  ASSUME ReconcileInv, ReconcileInv', DeleteInv, Asked',
         acts' >= acts,
         "Delete" \in queued' \cup delayed' => Asked,
         \A n \in transit' : n \in transit \cup Notes(obj, obj'),
         \A w \in Workers : pc'[w] # "idle" /\ evt'[w] = "Delete" => Asked
  PROVE  Asked \/ (obj # Gone /\ Doomed')
<1>1. CASE "Delete" \in queued' \cup delayed'
  BY <1>1, Zenon
<1>2. CASE \E w \in Workers : pc'[w] # "idle" /\ evt'[w] = "Delete"
  BY <1>2, Zenon
<1>3. CASE \E n \in transit' : n.type = "Delete"
  <2>1. PICK n \in transit' : n.type = "Delete"
    BY <1>3
  <2>2. CASE n \in transit
    BY <2>1, <2>2, Zenon DEF Asked
  <2>3. CASE n \in Notes(obj, obj')
    <3>1. obj \in Object \cup {Gone} /\ obj' \in Object \cup {Gone}
      BY Zenon DEF ReconcileInv, StoreInv
    <3>2. obj # Gone /\ (obj' = Gone \/ obj'.deleting)
      BY <2>1, <2>3, <3>1, NotesDelete, Zenon
    <3>3. acts > 0
      BY <3>2, Zenon DEF DeleteInv, HeldClause
    <3>4. acts' > 0
      BY <3>3, ReconcileConstants DEF ReconcileInv, BoundsInv
    <3> QED BY <3>2, <3>4, Zenon DEF Doomed
  <2> QED BY <2>1, <2>2, <2>3, Zenon
<1> QED BY <1>1, <1>2, <1>3, Zenon DEF Asked

\* The invariant holds initially.
LEMMA DeleteInitInv == Init => DeleteInv
BY DEF Init, DeleteInv, HeldClause, Asked, Doomed, DeleteClause

\* The invariant is kept: what users do, ...
LEMMA DeleteUsers ==
  ASSUME "recreate" \notin UserActs, ReconcileInv, ReconcileInv', DeleteInv, Users
  PROVE  DeleteInv'
<1>1. UNCHANGED <<pc, evt, spared, queued, delayed>>
  BY UsersFrame, Zenon
<1>2. acts \in Nat /\ acts' = acts + 1
  BY UsersEffect, ReconcileConstants DEF ReconcileInv, BoundsInv
<1>3. Asked' => Asked \/ (obj # Gone /\ Doomed')
  <2>1. \A n \in transit' : n \in transit \cup Notes(obj, obj')
    BY UsersFrame, Zenon
  <2>2. "Delete" \in queued' \cup delayed' => Asked
    BY <1>1, Zenon DEF Asked
  <2>3. \A w \in Workers : pc'[w] # "idle" /\ evt'[w] = "Delete" => Asked
    BY <1>1 DEF Asked
  <2>4. acts' >= acts
    BY <1>2
  <2> QED BY <2>1, <2>2, <2>3, <2>4, AskedFrom, Zenon
<1>4. CASE Grows
  <2>1. HeldClause' /\ (Asked' => Doomed')
    BY <1>3, <1>4, GrowsKeeps DEF DeleteInv
  <2>2. ASSUME NEW v \in Workers PROVE DeleteClause(v)'
    <3>1. Bystander(v)
      BY <1>1, UsersFrame DEF Bystander
    <3> QED BY <1>4, <3>1, BystanderKeeps, Zenon
  <2> QED BY <2>1, <2>2 DEF DeleteInv
<1>5. CASE obj = Gone /\ acts = 0 /\ \E f, o \in BOOLEAN : obj' = NewObject(f, o)
  <2>1. ~Asked
    BY <1>5 DEF DeleteInv, Doomed
  <2>2. ~Asked'
    BY <1>3, <1>5, <2>1, Zenon
  <2>3. ~obj'.deleting
    BY <1>5 DEF NewObject
  <2>4. HeldClause'
    BY <1>2, <2>3 DEF HeldClause
  <2>5. ASSUME NEW v \in Workers PROVE DeleteClause(v)'
    <3>1. pc[v] = "idle" \/ evt[v] # "Delete"
      BY <2>1, Zenon DEF Asked
    <3>2. pc[v] \in {"delete", "extDelete"} => evt[v] = "Delete"
      BY Zenon DEF DeleteInv, DeleteClause
    <3>3. fresh'[v] => obj' # Gone
      BY DEF ReconcileInv, FreshInv
    <3> QED BY <1>1, <2>3, <3>1, <3>2, <3>3, Zenon DEF DeleteClause
  <2> QED BY <2>2, <2>4, <2>5 DEF DeleteInv
<1>6. Grows \/ (obj = Gone /\ acts = 0 /\ \E f, o \in BOOLEAN : obj' = NewObject(f, o))
  <2>1. acts' >= acts
    BY <1>2
  <2>2. CASE obj = Gone
    <3>1. CASE obj' = obj
      BY <2>1, <3>1 DEF Grows
    <3>2. CASE obj' # obj
      <4>1. ~(acts > 0) /\ \E f, o \in BOOLEAN : obj' = NewObject(f, o)
        BY <2>2, <3>2, UsersEffect
      <4>2. acts = 0
        BY <1>2, <4>1
      <4> QED BY <2>2, <4>1, <4>2, Zenon
    <3> QED BY <3>1, <3>2
  <2>3. CASE obj # Gone
    <3>1. CASE obj' = obj
      BY <2>1, <3>1 DEF Grows
    <3>2. CASE obj' # obj
      <4>1. PICK new : /\ EditOf(obj, new)
                       /\ \/ obj' = Settle(new)
                          \/ /\ obj' = new
                             /\ new.deleting = obj.deleting /\ new.foreign = obj.foreign
        BY <2>3, <3>2, UsersEffect, Zenon
      <4>2. Follows(obj, obj')
        BY <2>3, <4>1, EditFollows, Zenon
      <4> QED BY <2>1, <2>3, <4>2, Zenon DEF Grows
    <3> QED BY <3>1, <3>2
  <2> QED BY <2>2, <2>3, Zenon
<1> QED BY <1>4, <1>5, <1>6

\* ... what a worker does, ...
LEMMA DeleteStep ==
  ASSUME ReconcileInv, ReconcileInv', DeleteInv, NEW w \in Workers, Step(w)
  PROVE  DeleteInv'
<1>1. CallFrame(w) /\ pc[w] # "idle"
  BY StepFrame, StepIsBusy, Zenon
<1>2. /\ acts' = acts
      /\ transit' \subseteq transit \cup Notes(obj, obj')
      /\ obj' = obj \/ (obj # Gone /\ Follows(obj, obj'))
      /\ \A v \in Workers \ {w} : fresh'[v] => fresh[v] /\ obj' = obj
  BY StepObject, Zenon
<1>3. acts' >= acts
  <2>1. acts \in Nat
    BY ReconcileConstants DEF ReconcileInv, BoundsInv
  <2>2. acts' = acts
    BY <1>2, Zenon
  <2> QED BY <2>1, <2>2
<1>4. Grows
  BY <1>2, <1>3, Zenon DEF Grows
<1>5. evt[w] = "Delete" => Asked
  BY <1>1 DEF Asked
<1>6. Asked' => Asked \/ Doomed'
  <2>1. \A n \in transit' : n \in transit \cup Notes(obj, obj')
    BY <1>2, Zenon
  <2>2. "Delete" \in queued' \cup delayed' => Asked
    <3> SUFFICES ASSUME "Delete" \in queued' \cup delayed' PROVE Asked
      BY Zenon
    <3>1. "Delete" \in queued \cup delayed \/ "Delete" = evt[w]
      BY <1>1 DEF CallFrame
    <3> QED BY <1>5, <3>1 DEF Asked
  <2>3. ASSUME NEW v \in Workers, pc'[v] # "idle", evt'[v] = "Delete" PROVE Asked
    <3>1. CASE v = w
      BY <1>1, <1>5, <2>3, <3>1, Zenon DEF CallFrame
    <3>2. CASE v # w
      BY <1>1, <2>3, <3>2, Zenon DEF CallFrame, Asked
    <3> QED BY <3>1, <3>2, Zenon
  <2> QED BY <1>3, <2>1, <2>2, <2>3, AskedFrom, Zenon
<1>7. HeldClause' /\ (Asked' => Doomed')
  BY <1>4, <1>6, GrowsKeeps DEF DeleteInv
<1>8. ASSUME NEW v \in Workers PROVE DeleteClause(v)'
  <2>1. CASE v = w
    BY <1>4, <2>1, CallerKeeps
  <2>2. CASE v # w
    <3>1. Bystander(v)
      BY <1>1, <1>2, <2>2, Zenon DEF CallFrame, Bystander
    <3> QED BY <1>4, <3>1, BystanderKeeps, Zenon
  <2> QED BY <2>1, <2>2
<1> QED BY <1>7, <1>8 DEF DeleteInv

\* ... and the queue, the informer, time and crashes, which leave the object alone
\* but for its age.
LEMMA DeleteOther ==
  ASSUME ReconcileInv, ReconcileInv', DeleteInv,
         acts' = acts, obj' = obj \/ (obj # Gone /\ Follows(obj, obj')), Asked' => Asked \/ Doomed',
         \A v \in Workers : Bystander(v) \/ pc'[v] \in {"idle", "fetch"}
  PROVE  DeleteInv'
<1>1. acts' >= acts
  BY ReconcileConstants DEF ReconcileInv, BoundsInv
<1>2. Grows
  BY <1>1 DEF Grows
<1>3. HeldClause' /\ (Asked' => Doomed')
  BY <1>2, GrowsKeeps, Zenon DEF DeleteInv
<1>4. ASSUME NEW v \in Workers PROVE DeleteClause(v)'
  <2>1. CASE Bystander(v)
    BY <1>2, <2>1, BystanderKeeps, Zenon
  <2>2. CASE pc'[v] \in {"idle", "fetch"}
    BY <2>2, Zenon DEF DeleteClause
  <2> QED BY <2>1, <2>2
<1> QED BY <1>3, <1>4, Zenon DEF DeleteInv

\* Every step keeps the invariant.
LEMMA DeleteNextInv ==
  ASSUME "recreate" \notin UserActs, ReconcileInv, DeleteInv, [Next]_vars
  PROVE  DeleteInv'
<1>0. ReconcileInv'
  BY ReconcileNextInv
<1>1. ASSUME NEW w \in Workers, Step(w) PROVE DeleteInv'
  BY <1>0, <1>1, DeleteStep
<1>2. CASE Users
  BY <1>0, <1>2, DeleteUsers, Zenon
<1>3. ASSUME NEW w \in Workers, NEW e \in EventTypes, Take(w, e) PROVE DeleteInv'
  <2>1. /\ acts' = acts /\ obj' = obj /\ fresh' = fresh /\ transit' = transit
        /\ delayed' = delayed /\ queued' = queued \ {e} /\ e \in queued
        /\ pc' = [pc EXCEPT ![w] = "fetch"] /\ evt' = [evt EXCEPT ![w] = e]
        /\ spared' = spared
    BY <1>3, Zenon DEF Take, bounds
  <2>2. pc \in [Workers -> Calls] /\ evt \in [Workers -> EventTypes \cup {Absent}]
    BY Zenon DEF ReconcileInv, WorkInv
  <2>3. \A v \in Workers : Bystander(v) \/ pc'[v] \in {"idle", "fetch"}
    BY <2>1, <2>2, Zenon DEF Bystander
  <2>4. Asked' => Asked
    BY <2>1, <2>2 DEF Asked
  <2> QED BY <1>0, <2>1, <2>3, <2>4, DeleteOther, Zenon
<1>4. CASE Deliver
  <2>1. PICK n \in transit : /\ transit' = transit \ {n}
                             /\ queued' \in {queued, queued \cup {n.type}}
    BY <1>4, Zenon DEF Deliver
  <2>2. UNCHANGED <<obj, delayed, pc, evt, fresh, spared, acts>>
    BY <1>4, Zenon DEF Deliver, work, bounds
  <2>3. Asked' => Asked
    BY <2>1, <2>2, Zenon DEF Asked
  <2>4. \A v \in Workers : Bystander(v)
    BY <2>2, Zenon DEF Bystander
  <2> QED BY <1>0, <2>2, <2>3, <2>4, DeleteOther, Zenon
<1>5. CASE Resync
  <2> DEFINE n == [deleting |-> obj.deleting, paused |-> "same", pending |-> "same",
                   spec |-> "same", sameVersion |-> TRUE]
             note == [type |-> UpdateFunc(n).type, guarded |-> UpdateFunc(n).guarded]
  <2>1. transit' = transit \cup {note} /\ obj # Gone
    BY <1>5, Zenon DEF Resync
  <2>2. note.type = UpdateFunc(n).type /\ n.deleting = obj.deleting
    BY Zenon
  <2> HIDE DEF n, note
  <2>3. UNCHANGED <<obj, queued, delayed, pc, evt, fresh, spared, acts>>
    BY <1>5 DEF Resync, work, bounds
  <2>4. note.type = "Delete" => obj.deleting
    BY <2>2, UpdateFuncDelete, Zenon
  <2>5. note.type = "Delete" => Doomed'
    BY <2>1, <2>3, <2>4, Zenon DEF Doomed, DeleteInv, HeldClause
  <2>6. Asked' => Asked \/ Doomed'
    BY <2>1, <2>3, <2>5, Zenon DEF Asked
  <2>7. \A v \in Workers : Bystander(v)
    BY <2>3, Zenon DEF Bystander
  <2> QED BY <1>0, <2>3, <2>6, <2>7, DeleteOther, Zenon
<1>6. CASE Tick
  <2>1. /\ obj' = Aged(obj) /\ queued' = queued \cup delayed /\ delayed' = {}
        /\ UNCHANGED <<transit, pc, evt, fresh, spared, acts>>
    BY <1>6 DEF Tick, bounds
  <2>2. obj' = obj \/ (obj # Gone /\ obj' = Older(obj))
    BY <2>1, Zenon DEF Aged
  <2>3. obj # Gone /\ obj' = Older(obj) =>
          /\ obj \in Object /\ obj' \in Object
          /\ obj'.deleting = obj.deleting /\ obj'.orphan = obj.orphan
          /\ obj'.ours = obj.ours /\ obj'.foreign = obj.foreign
    <3> SUFFICES ASSUME obj # Gone, obj' = Older(obj)
                 PROVE  /\ obj \in Object /\ obj' \in Object
                        /\ obj'.deleting = obj.deleting /\ obj'.orphan = obj.orphan
                        /\ obj'.ours = obj.ours /\ obj'.foreign = obj.foreign
      OBVIOUS
    <3>1. obj \in Object
      BY DEF ReconcileInv, StoreInv
    <3>2. SameHold(obj, obj')
      BY <3>1 DEF SameHold, Older, Object
    <3>3. obj' # Gone
      BY <3>1, MarksType, ReconcileConstants, Zenon
    <3> QED BY <1>0, <3>1, <3>2, <3>3, Zenon DEF SameHold, ReconcileInv, StoreInv
  <2>4. obj' = obj \/ (obj # Gone /\ Follows(obj, obj'))
    BY <2>2, <2>3, Zenon DEF Follows, DeleteInv, HeldClause
  <2>5. Asked' => Asked
    BY <2>1, Zenon DEF Asked
  <2>6. \A v \in Workers : Bystander(v)
    BY <2>1, <2>2, <2>3, Zenon DEF Bystander
  <2> QED BY <1>0, <2>1, <2>4, <2>5, <2>6, DeleteOther
<1>7. CASE Crash
  <2>1. /\ obj' = obj /\ acts' = acts /\ queued' = {} /\ delayed' = {}
        /\ \A v \in Workers : pc'[v] = "idle"
        /\ transit' = IF obj = Gone THEN {} ELSE Notes(Gone, obj)
    BY <1>7 DEF Crash
  <2>2. \A n \in transit' : n.type # "Delete"
    <3>1. obj \in Object \cup {Gone}
      BY Zenon DEF ReconcileInv, StoreInv
    <3>2. \A n \in Notes(Gone, obj) : n.type # "Delete"
      BY <3>1, NotesDelete, Zenon
    <3> QED BY <2>1, <3>2
  <2>3. ~Asked'
    BY <2>1, <2>2, Zenon DEF Asked
  <2> QED BY <1>0, <2>1, <2>3, DeleteOther, Zenon
<1>8. CASE UNCHANGED vars
  <2>1. UNCHANGED <<obj, transit, queued, delayed, pc, evt, fresh, spared, acts>>
    BY <1>8, Zenon DEF vars, work, bounds
  <2>2. Asked' => Asked
    BY <2>1, Zenon DEF Asked
  <2>3. \A v \in Workers : Bystander(v)
    BY <2>1 DEF Bystander
  <2> QED BY <1>0, <2>1, <2>2, <2>3, DeleteOther, Zenon
<1> QED BY <1>1, <1>2, <1>3, <1>4, <1>5, <1>6, <1>7, <1>8, Zenon DEF Next

\* The Delete of the ExternalClient is called only for a custom resource that is
\* gone or whose deletion was requested, and never by a worker that found it to be
\* orphaned when it began with the event, unless the finalizer of somebody else
\* keeps it: for any number of workers, with stale events, conflicts, crashes and
\* edits of the policy in between, as long as the object is not created again under
\* its name (pkg/controller/worker.go:307 and :818).  What the policy is by the time
\* of the call the code does not ask, and the theorem does not say.
THEOREM DeleteTheorem ==
  ASSUME "recreate" \notin UserActs
  PROVE  Spec => DeleteIsRequested
<1>1. ReconcileInv /\ DeleteInv /\ [Next]_vars
        => [\A w \in Workers : ExtDelete(w) /\ obj # Gone =>
              obj.deleting /\ (spared[w] => obj.foreign)]_vars
  <2> SUFFICES ASSUME DeleteInv, NEW w \in Workers, ExtDelete(w), obj # Gone
               PROVE  obj.deleting /\ (spared[w] => obj.foreign)
    OBVIOUS
  <2>1. pc[w] = "extDelete"
    BY Zenon DEF ExtDelete
  <2>2. evt[w] = "Delete" /\ ~(spared[w] /\ obj.ours)
    BY <2>1 DEF DeleteInv, DeleteClause
  <2>3. Doomed
    BY <2>1, <2>2, Zenon DEF DeleteInv, Asked
  <2>4. obj.deleting
    BY <2>3 DEF Doomed
  <2>5. obj.ours \/ obj.foreign
    BY <2>4 DEF DeleteInv, HeldClause
  <2> QED BY <2>2, <2>4, <2>5
<1>2. ReconcileInv /\ DeleteInv /\ [Next]_vars => DeleteInv'
  BY DeleteNextInv
<1> QED
  BY <1>1, <1>2, DeleteInitInv, ReconcileInitInv, ReconcileNextInv, PTL
  DEF Spec, DeleteIsRequested

=============================================================================
