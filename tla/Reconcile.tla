------------------------------ MODULE Reconcile ------------------------------
(***************************************************************************)
(* processItem and the handlers of pkg/controller/worker.go, against one   *)
(* custom resource in the API server and the external resource it stands   *)
(* for.                                                                    *)
(*                                                                         *)
(* One action is one call: a Get, an Update or an UpdateStatus on the API  *)
(* server, or one call of the ExternalClient, with the code that runs      *)
(* between its return and the next call.  pc[w] names the call worker w is *)
(* about to make.  Everything else may happen between two calls: users     *)
(* edit, delete and recreate the resource, other workers reconcile it, the *)
(* process crashes and restarts, calls fail.                               *)
(*                                                                         *)
(* The queue is the set of queued event types, taken in any order; the     *)
(* fine steps of the digest map are the subject of EventDispatch.          *)
(***************************************************************************)
EXTENDS InformerHandlers, CreateMarks

CONSTANTS
  Workers,
  Gone,         \* the API server has no such object
  Absent,
  Lag,          \* external: ticks until a created resource is visible, at most
  CreateTicks,  \* external: ticks from the pending mark to the landing of Create, at most
  UserActs,     \* what users and other controllers do in this instance
  MaxUserActs,  \* bound: how often they do something
  MaxFaults,    \* bound: failed calls
  MaxCrashes    \* bound: crashes

\* The object in the API server, with what the create marks say (CreateMarks).
\* orphan stands for ~meta.ShouldDelete.
Object ==
  [deleting : BOOLEAN, ours : BOOLEAN, foreign : BOOLEAN, orphan : BOOLEAN,
   paused : BOOLEAN, spec : {1, 2}, started : BOOLEAN, age : 0..Grace,
   outcomeNow : BOOLEAN, incomplete : BOOLEAN, open : BOOLEAN]

External == [there : BOOLEAN, lag : 0..Lag, spec : {1, 2}]

ASSUME ReconcileConstants ==
  /\ Lag \in Nat /\ CreateTicks \in Nat
  /\ Gone \notin Object /\ Absent \notin Object
  /\ MaxUserActs \in Nat /\ MaxFaults \in Nat /\ MaxCrashes \in Nat

VARIABLES
  obj,      \* the object in the API server
  ext,      \* the external resource
  transit,  \* notifications on their way to the handlers
  queued,   \* event types in the queue, ready to be taken
  delayed,  \* event types in the queue that wait for a retry or re-observe delay
  digests,  \* event types whose digest is claimed
  pc,       \* per worker: its next call
  evt,      \* per worker: the event it processes
  el,       \* per worker: the object it read, where a later call still uses it
  fresh,    \* per worker: what it read is still the latest version
  spared,   \* history, per worker: the policy was to orphan when processItem looked at it
  kept,     \* history: the external resource that is there was left behind on purpose
  acts,
  faults,
  crashes

work == <<pc, evt, el, fresh, spared>>
bounds == <<acts, faults, crashes>>
vars == <<obj, ext, transit, queued, delayed, digests, work, kept, bounds>>

Init ==
  /\ obj = Gone
  /\ ext = [there |-> FALSE, lag |-> 0, spec |-> 1]
  /\ transit = {}
  /\ queued = {}
  /\ delayed = {}
  /\ digests = {}
  /\ pc = [w \in Workers |-> "idle"]
  /\ evt = [w \in Workers |-> Absent]
  /\ el = [w \in Workers |-> Absent]
  /\ fresh = [w \in Workers |-> FALSE]
  /\ spared = [w \in Workers |-> FALSE]
  /\ kept = FALSE
  /\ acts = 0
  /\ faults = 0
  /\ crashes = 0

Fault == faults < MaxFaults /\ faults' = faults + 1
NoFault == UNCHANGED faults

-----------------------------------------------------------------------------
(* The API server and the informer                                         *)

Change(old, new) ==
  CASE old = new   -> "same"
    [] old /\ ~new -> "deleted"
    [] OTHER       -> "created"

\* The notification for a write.  A status write leaves old = new.
Notes(old, new) ==
  LET d == IF old = Gone THEN AddFunc(new.started)
           ELSE IF new = Gone THEN DeleteFunc(old.deleting)
           ELSE UpdateFunc([deleting |-> new.deleting,
                            paused   |-> Change(old.paused, new.paused),
                            pending  |-> Change(old.started, new.started),
                            spec     |-> IF old.spec = new.spec THEN "same" ELSE "changed",
                            sameVersion |-> FALSE])
  IN IF d = Ignored THEN {} ELSE {[type |-> d.type, guarded |-> d.guarded]}

\* An object that is being deleted is removed with its last finalizer.
Settle(o) == IF o.deleting /\ ~o.ours /\ ~o.foreign THEN Gone ELSE o

Store(new) ==
  /\ obj' = new
  /\ transit' = transit \cup Notes(obj, new)
  /\ kept' = (kept \/ (new = Gone /\ obj # Gone /\ obj.orphan))

Deliver ==
  \E n \in transit :
    /\ transit' = transit \ {n}
    /\ IF n.guarded /\ n.type \in digests
       THEN UNCHANGED <<queued, digests>>
       ELSE /\ queued' = queued \cup {n.type}
            /\ digests' = IF n.guarded THEN digests \cup {n.type} ELSE digests
    /\ UNCHANGED <<obj, ext, delayed, work, kept, bounds>>

\* The informer's periodic resync repeats the object.
Resync ==
  /\ obj # Gone
  /\ LET d == UpdateFunc([deleting |-> obj.deleting, paused |-> "same", pending |-> "same",
                          spec |-> "same", sameVersion |-> TRUE])
     IN transit' = transit \cup {[type |-> d.type, guarded |-> d.guarded]}
  /\ UNCHANGED <<obj, ext, queued, delayed, digests, work, kept, bounds>>

-----------------------------------------------------------------------------
(* Users, other controllers, time and crashes                              *)

NewObject(foreign, orphan) ==
  [deleting |-> FALSE, ours |-> FALSE, foreign |-> foreign, orphan |-> orphan,
   paused |-> FALSE, spec |-> 1, started |-> FALSE, age |-> 0,
   outcomeNow |-> FALSE, incomplete |-> FALSE, open |-> FALSE]

UserWrite(new) ==
  /\ acts < MaxUserActs
  /\ acts' = acts + 1
  /\ Store(new)
  /\ fresh' = [w \in Workers |-> FALSE]
  /\ UNCHANGED <<ext, queued, delayed, digests, pc, evt, el, spared, faults, crashes>>

UserCreate ==
  /\ obj = Gone
  /\ acts > 0 => "recreate" \in UserActs
  /\ \E f, o \in BOOLEAN :
       /\ f => "foreign" \in UserActs
       /\ o => "orphan" \in UserActs
       /\ UserWrite(NewObject(f, o))

UserEdit ==
  /\ "edit" \in UserActs
  /\ obj # Gone
  /\ UserWrite([obj EXCEPT !.spec = 3 - @])

UserPause ==
  /\ "pause" \in UserActs
  /\ obj # Gone
  /\ UserWrite([obj EXCEPT !.paused = ~@])

\* The annotations of the deletion and the management policy; no handler watches them.
UserPolicy ==
  /\ "policy" \in UserActs
  /\ obj # Gone
  /\ UserWrite([obj EXCEPT !.orphan = ~@])

UserDelete ==
  /\ "delete" \in UserActs
  /\ obj # Gone
  /\ ~obj.deleting
  /\ UserWrite(Settle([obj EXCEPT !.deleting = TRUE]))

\* The manual escape hatch.
UserUnmark ==
  /\ "unmark" \in UserActs
  /\ obj # Gone
  /\ obj.started
  /\ UserWrite(RemovePending(obj))

\* The owner of the other finalizer removes it.
ForeignRelease ==
  /\ obj # Gone
  /\ obj.foreign
  /\ UserWrite(Settle([obj EXCEPT !.foreign = FALSE]))

\* Somebody removes the external resource.
Drift ==
  /\ "drift" \in UserActs
  /\ acts < MaxUserActs
  /\ ext.there
  /\ ext' = [ext EXCEPT !.there = FALSE, !.lag = 0]
  /\ acts' = acts + 1
  /\ UNCHANGED <<obj, transit, queued, delayed, digests, work, kept, faults, crashes>>

Aged(o) == IF o \in {Gone, Absent} THEN o ELSE Older(o)

Tick ==
  /\ (\E w \in Workers : pc[w] \in {"creating", "extCreate"})
       => obj # Gone /\ obj.age < CreateTicks
  /\ obj' = Aged(obj)
  /\ el' = [w \in Workers |-> Aged(el[w])]
  /\ ext' = [ext EXCEPT !.lag = IF @ > 0 THEN @ - 1 ELSE 0]
  /\ queued' = queued \cup delayed
  /\ delayed' = {}
  /\ UNCHANGED <<transit, digests, pc, evt, fresh, spared, kept, bounds>>

\* Everything in memory is lost; the new process lists the object.
Crash ==
  /\ crashes < MaxCrashes
  /\ crashes' = crashes + 1
  /\ transit' = IF obj = Gone THEN {} ELSE Notes(Gone, obj)
  /\ queued' = {}
  /\ delayed' = {}
  /\ digests' = {}
  /\ pc' = [w \in Workers |-> "idle"]
  /\ evt' = [w \in Workers |-> Absent]
  /\ el' = [w \in Workers |-> Absent]
  /\ fresh' = [w \in Workers |-> FALSE]
  /\ spared' = [w \in Workers |-> FALSE]
  /\ UNCHANGED <<obj, ext, kept, acts, faults>>

-----------------------------------------------------------------------------
(* runWorker, in brief                                                     *)

Take(w, e) ==
  /\ pc[w] = "idle"
  /\ e \in queued
  /\ queued' = queued \ {e}
  /\ evt' = [evt EXCEPT ![w] = e]
  /\ pc' = [pc EXCEPT ![w] = "fetch"]
  /\ UNCHANGED <<obj, ext, delayed, transit, digests, el, fresh, spared, kept, bounds>>

\* processItem returns, having queued the events of now and, with a delay, of
\* later.  The digest is freed, and claimed again for the retry of a failed event.
End(w, now, later, failed) ==
  LET retry == IF failed THEN {evt[w]} ELSE {}
  IN /\ queued' = queued \cup now
     /\ delayed' = delayed \cup later \cup retry
     /\ digests' = (digests \ {evt[w]}) \cup retry
     /\ pc' = [pc EXCEPT ![w] = "idle"]
     /\ evt' = [evt EXCEPT ![w] = Absent]
     /\ el' = [el EXCEPT ![w] = Absent]
     /\ spared' = [spared EXCEPT ![w] = FALSE]

Return(w) == End(w, {}, {}, FALSE)
ReturnError(w) == End(w, {}, {}, TRUE)

\* Go on with the call named by label, with the object o in hand.
Goto(w, label, o) ==
  /\ pc' = [pc EXCEPT ![w] = label]
  /\ el' = [el EXCEPT ![w] =
              IF label \in {"recover", "extObserve", "extCreate", "extUpdate"} THEN o ELSE Absent]
  /\ spared' = [spared EXCEPT ![w] = IF pc[w] = "fetch" THEN o.orphan ELSE @]
  /\ UNCHANGED <<evt, queued, delayed, digests>>

-----------------------------------------------------------------------------
(* processItem                                                             *)

Handler == [Observe |-> "observe", Create |-> "create", Update |-> "update",
            Delete |-> "delete"]

\* Mutant: no finalizer is added.
AfterRecoveryUnfinalized(o, e) == Handler[e]

\* What follows the incomplete-create recovery, for the object o.
AfterRecovery(o, e) == IF ~o.deleting /\ ~o.ours THEN "finalize" ELSE Handler[e]

\* Mutant: no recovery.
AfterOrphanNoRecovery(o, e) == AfterRecovery(o, e)

AfterOrphan(o, e) ==
  IF ExternalCreateIncomplete(o) THEN "recover" ELSE AfterRecovery(o, e)

\* Mutant: the deletion policy is not looked at.
AfterFetchDeletes(o, e) == IF o.paused THEN "paused" ELSE AfterOrphan(o, e)

AfterFetch(o, e) ==
  IF o.paused THEN "paused"
  ELSE IF o.deleting /\ o.orphan /\ o.ours THEN "orphan"
  ELSE AfterOrphan(o, e)

\* The first fetch: any error drops the event.
Fetch(w) ==
  /\ pc[w] = "fetch"
  /\ \/ /\ obj # Gone
        /\ NoFault
        /\ Goto(w, AfterFetch(obj, evt[w]), obj)
        /\ fresh' = [fresh EXCEPT ![w] = TRUE]
     \/ /\ IF obj = Gone THEN NoFault ELSE Fault
        /\ Return(w)
        /\ UNCHANGED fresh
  /\ UNCHANGED <<obj, ext, transit, kept, acts, crashes>>

Visible == ext.there /\ ext.lag = 0

\* Mutant: an absent resource is refused after the grace period, too.
RecoverRefuses(w) ==
  /\ pc[w] = "recover"
  /\ \/ Fault /\ Goto(w, "refuse", Absent)
     \/ NoFault /\ Visible /\ Goto(w, "markSucceeded", Absent)
     \/ NoFault /\ ~Visible /\ ExternalCreatePendingDuring(el[w])
        /\ End(w, {}, {evt[w]}, FALSE)
     \/ NoFault /\ ~Visible /\ ~ExternalCreatePendingDuring(el[w])
        /\ Goto(w, "refuse", Absent)
  /\ UNCHANGED <<obj, ext, transit, fresh, kept, acts, crashes>>

\* Observe for an incomplete create.
Recover(w) ==
  /\ pc[w] = "recover"
  /\ \/ Fault /\ Goto(w, "refuse", Absent)
     \/ NoFault /\ Visible /\ Goto(w, "markSucceeded", Absent)
     \/ NoFault /\ ~Visible /\ ExternalCreatePendingDuring(el[w])
        /\ End(w, {}, {evt[w]}, FALSE)
     \/ NoFault /\ ~Visible /\ ~ExternalCreatePendingDuring(el[w])
        /\ Goto(w, "clearPending", Absent)
  /\ UNCHANGED <<obj, ext, transit, fresh, kept, acts, crashes>>

-----------------------------------------------------------------------------
(* The calls of the handlers                                               *)

\* What a handler does with the object that fetch returns.
AfterGet ==
  [observe    |-> "extObserve",
   create     |-> "markPending",
   update     |-> "extUpdate",
   delete     |-> "extDelete",
   sawNothing |-> "queueCreate",
   sawOld     |-> "queueUpdate",
   sawCurrent |-> "statusOk",
   creating   |-> "extCreate",
   failed     |-> "markFailed",
   created    |-> "markCreated",
   report     |-> "statusOk",
   explain    |-> "statusError",
   deleted    |-> "statusDeleting"]

Get(w) ==
  /\ pc[w] \in DOMAIN AfterGet
  /\ \/ /\ obj # Gone
        /\ NoFault
        /\ Goto(w, AfterGet[pc[w]], obj)
        /\ fresh' = [fresh EXCEPT ![w] = TRUE]
     \/ /\ IF obj = Gone THEN NoFault ELSE Fault
        /\ ReturnError(w)
        /\ UNCHANGED fresh
  /\ UNCHANGED <<obj, ext, transit, kept, acts, crashes>>

\* What tools.Update writes, by call.
Written ==
  [orphan        |-> [obj EXCEPT !.ours = FALSE],
   markSucceeded |-> SetExternalCreateOutcome(obj),
   clearPending  |-> RemovePending(obj),
   finalize      |-> [obj EXCEPT !.ours = TRUE],
   markPending   |-> SetExternalCreatePending(obj),
   markFailed    |-> SetExternalCreateOutcome(obj),
   markCreated   |-> SetExternalCreateOutcome(obj),
   unfinalize    |-> [obj EXCEPT !.ours = FALSE, !.foreign = FALSE]]

UpdateCalls ==
  {"orphan", "markSucceeded", "clearPending", "finalize", "markPending", "markFailed",
   "markCreated", "unfinalize"}

\* The call after a successful Update that returned o.
AfterUpdate(label, o, e) ==
  CASE label = "orphan"      -> AfterOrphan(o, e)
    [] label \in {"markSucceeded", "clearPending"} -> AfterRecovery(o, e)
    [] label = "finalize"    -> Handler[e]
    [] label = "markPending" -> "creating"
    [] label = "markFailed"  -> "statusError"
    [] label = "markCreated" -> "report"

\* The write is the latest version; every other copy is stale.
Wrote(w) == fresh' = [v \in Workers |-> v = w]

Update(w) ==
  /\ pc[w] \in UpdateCalls
  /\ fresh[w]
  /\ LET new == Written[pc[w]]
     IN /\ Store(Settle(new))
        /\ IF pc[w] = "unfinalize" THEN Return(w)
           ELSE Goto(w, AfterUpdate(pc[w], new, evt[w]), new)
  /\ IF Settle(Written[pc[w]]) = Gone
     THEN fresh' = [v \in Workers |-> FALSE] ELSE Wrote(w)
  /\ UNCHANGED <<ext, bounds>>

\* A conflict or a failed call.  handleCreate explains it in the status.
UpdateFails(w) ==
  /\ pc[w] \in UpdateCalls
  /\ IF fresh[w] THEN Fault ELSE NoFault
  /\ IF pc[w] \in {"markPending", "markCreated"}
     THEN Goto(w, "explain", Absent)
     ELSE ReturnError(w)
  /\ UNCHANGED <<obj, ext, transit, fresh, kept, acts, crashes>>

StatusCalls == {"paused", "refuse", "statusOk", "statusError", "statusDeleting"}

UpdateStatus(w) ==
  /\ pc[w] \in StatusCalls
  /\ fresh[w]
  /\ Store(obj)
  /\ IF pc[w] = "statusDeleting" THEN Goto(w, "unfinalize", Absent)
     ELSE End(w, {}, {}, pc[w] = "statusError")
  /\ Wrote(w)
  /\ UNCHANGED <<ext, bounds>>

UpdateStatusFails(w) ==
  /\ pc[w] \in StatusCalls
  /\ IF fresh[w] THEN Fault ELSE NoFault
  /\ ReturnError(w)
  /\ UNCHANGED <<obj, ext, transit, fresh, kept, acts, crashes>>

\* handleObserve queues a Create or an Update event.
QueueFollowUp(w) ==
  /\ \/ pc[w] = "queueCreate" /\ End(w, {"Create"}, {}, FALSE)
     \/ pc[w] = "queueUpdate" /\ End(w, {"Update"}, {}, FALSE)
  /\ UNCHANGED <<obj, ext, transit, fresh, kept, bounds>>

-----------------------------------------------------------------------------
(* The calls of the ExternalClient                                         *)

ExtObserve(w) ==
  /\ pc[w] = "extObserve"
  /\ \/ Fault /\ Goto(w, "explain", Absent)
     \/ NoFault /\ ~Visible /\ Goto(w, "sawNothing", Absent)
     \/ NoFault /\ Visible /\ ext.spec # el[w].spec /\ Goto(w, "sawOld", Absent)
     \/ NoFault /\ Visible /\ ext.spec = el[w].spec /\ Goto(w, "sawCurrent", Absent)
  /\ UNCHANGED <<obj, ext, transit, fresh, kept, acts, crashes>>

\* An idempotent Create: what is there stays.
Land(spec) ==
  IF ext.there THEN UNCHANGED <<ext, kept>>
  ELSE /\ \E lag \in 0..Lag : ext' = [there |-> TRUE, lag |-> lag, spec |-> spec]
       /\ kept' = FALSE

\* A Create that returns an error may have landed.
ExtCreate(w) ==
  /\ pc[w] = "extCreate"
  /\ \/ NoFault /\ Land(el[w].spec) /\ Goto(w, "created", Absent)
     \/ /\ Fault
        /\ Land(el[w].spec) \/ UNCHANGED <<ext, kept>>
        /\ Goto(w, "failed", Absent)
  /\ UNCHANGED <<obj, transit, fresh, acts, crashes>>

ExtUpdate(w) ==
  /\ pc[w] = "extUpdate"
  /\ \/ /\ NoFault
        /\ ext' = IF ext.there THEN [ext EXCEPT !.spec = el[w].spec] ELSE ext
        /\ Goto(w, "report", Absent)
     \/ Fault /\ UNCHANGED ext /\ Goto(w, "explain", Absent)
  /\ UNCHANGED <<obj, transit, fresh, kept, acts, crashes>>

ExtDelete(w) ==
  /\ pc[w] = "extDelete"
  /\ \/ /\ NoFault
        /\ ext' = [ext EXCEPT !.there = FALSE, !.lag = 0]
        /\ kept' = FALSE
        /\ Goto(w, "deleted", Absent)
     \/ Fault /\ UNCHANGED <<ext, kept>> /\ Goto(w, "statusError", Absent)
  /\ UNCHANGED <<obj, transit, fresh, acts, crashes>>

Step(w) ==
  \/ Fetch(w)
  \/ Recover(w)
  \/ Get(w)
  \/ Update(w)
  \/ UpdateFails(w)
  \/ UpdateStatus(w)
  \/ UpdateStatusFails(w)
  \/ QueueFollowUp(w)
  \/ ExtObserve(w)
  \/ ExtCreate(w)
  \/ ExtUpdate(w)
  \/ ExtDelete(w)

Users ==
  \/ UserCreate
  \/ UserEdit
  \/ UserPause
  \/ UserPolicy
  \/ UserDelete
  \/ UserUnmark
  \/ ForeignRelease
  \/ Drift

Next ==
  \/ \E w \in Workers : Step(w) \/ \E e \in EventTypes : Take(w, e)
  \/ Deliver
  \/ Resync
  \/ Users
  \/ Tick
  \/ Crash

Spec == Init /\ [][Next]_vars

\* Workers that can run do run, the informer delivers and resyncs, time passes,
\* and no queued event waits for ever: High goes before Low, and first come first
\* served within a priority.  Nobody has to act, fail or crash.
Fairness ==
  /\ \A w \in Workers : WF_vars(Step(w))
  /\ \A w \in Workers, e \in EventTypes : SF_vars(Take(w, e))
  /\ WF_vars(Deliver)
  /\ WF_vars(Resync)
  /\ WF_vars(Tick)

FairSpec == Spec /\ Fairness

-----------------------------------------------------------------------------
(* Properties                                                              *)

\* The calls a worker can be about to make.
Calls ==
  {"idle", "fetch", "recover", "queueCreate", "queueUpdate",
   "extObserve", "extCreate", "extUpdate", "extDelete"}
    \cup DOMAIN AfterGet \cup UpdateCalls \cup StatusCalls

\* The type of every variable; the age of a pending mark stays within its bound.
TypeOK ==
  /\ obj \in Object \cup {Gone}
  /\ ext \in External
  /\ transit \subseteq [type : EventTypes, guarded : BOOLEAN]
  /\ queued \cup delayed \subseteq EventTypes
  /\ digests \subseteq EventTypes
  /\ pc \in [Workers -> Calls]
  /\ evt \in [Workers -> EventTypes \cup {Absent}]
  /\ el \in [Workers -> Object \cup {Absent}]
  /\ fresh \in [Workers -> BOOLEAN]
  /\ spared \in [Workers -> BOOLEAN]
  /\ kept \in BOOLEAN
  /\ acts \in 0..MaxUserActs
  /\ faults \in 0..MaxFaults
  /\ crashes \in 0..MaxCrashes

\* An external resource never outlives its custom resource, unless the deletion
\* policy says so: the finalizer is there before Create is called and stays
\* until Delete has been called, through crashes, conflicts and failed calls.
\* It holds with one worker, no finalizer of others, and no re-creation of an
\* orphaned object under its name (ReconcileProofs).
NoLeak == obj = Gone => ~ext.there \/ kept

\* The recovery rolls the handshake back only when the create never landed
\* (docs/overview.md:172), provided a created resource is visible within the
\* grace period.
RollbackIsRight ==
  [][\A w \in Workers : Update(w) /\ pc[w] = "clearPending" => ~ext.there]_vars

\* "The runtime requeues a Low-priority re-observe every 15s until the resource
\* appears or the grace period elapses" (docs/overview.md:169): no new attempt
\* is begun over an incomplete one that is within its grace period.
GraceIsHonoured ==
  [][\A w \in Workers : Update(w) /\ pc[w] = "markPending" =>
       ~(ExternalCreateIncomplete(obj) /\ ExternalCreatePendingDuring(obj))]_vars

\* "creation is incomplete iff [...] a create started and the process never
\* persisted its outcome" (docs/overview.md:147).
InterruptedIsIncomplete == obj # Gone /\ obj.open => ExternalCreateIncomplete(obj)

\* "the external resource is left alone" (docs/overview.md:112).
OrphanIsLeftAlone ==
  [][\A w \in Workers : ExtDelete(w) /\ obj # Gone /\ obj.deleting => ~obj.orphan]_vars

\* The external resource is deleted only for a custom resource that is gone, or
\* whose deletion was requested and whose policy was not to orphan it when this
\* worker looked, once per event (worker.go:307).  It holds for any number of
\* workers as long as no object is created again under its name; an object that
\* the finalizer of somebody else keeps is the one exception.  handleDelete reads
\* the object again and does not look at the policy it has by then; that, too, is
\* where OrphanIsLeftAlone fails.
DeleteIsRequested ==
  [][\A w \in Workers : ExtDelete(w) /\ obj # Gone =>
       obj.deleting /\ (spared[w] => obj.foreign)]_vars

\* The external resource agrees with the custom resource.
Agrees ==
  \/ obj = Gone
  \/ obj.paused
  \/ /\ ~obj.deleting
     /\ ext.there
     /\ ext.spec = obj.spec
     /\ ~ExternalCreateIncomplete(obj)

\* Once users, faults and crashes cease, the external resource agrees with the
\* custom resource for good: a deleted one is finalized, a create that was
\* interrupted is recovered, a suppressed notification is made up for.
Converges == <>[]Agrees

=============================================================================
