--------------------------- MODULE EventDispatch ---------------------------
(***************************************************************************)
(* From informer notification to worker: the digest map and the handlers   *)
(* of pkg/controller/controller.go, and runWorker and handleErr of         *)
(* pkg/controller/worker.go.                                               *)
(*                                                                         *)
(* The informer calls its handlers one after the other in one goroutine.   *)
(* A handler turns a notification into an event, claims the event's digest *)
(* in a sync.Map and queues the event.  A worker processes an event, frees *)
(* its digest, returns it to the queue and, after an error, claims the     *)
(* digest again and queues the same event once more.  No lock covers the   *)
(* two steps of either side.                                               *)
(*                                                                         *)
(* The queue is KeyedQueue, which PriorityQueue implements.  Its keys are  *)
(* whole events, QueuedAt included, so two events of one digest are two    *)
(* keys.  Retry delays are left out: an event may be taken at any time.    *)
(* What processItem does to the resource is not modelled here; it ends     *)
(* with or without an error and may queue one further event.               *)
(***************************************************************************)
EXTENDS InformerHandlers, FiniteSets

CONSTANTS
  Objects,       \* managed resources
  Workers,
  MaxRetries,    \* Options.MaxRetries
  Absent,
  MaxEvents,     \* bound: number of events created
  MaxFailures    \* bound: failed attempts of one event

\* QueuedAt is the time of creation; here, the number of the event.
Event == [type : EventTypes, obj : Objects, queuedAt : 1..MaxEvents]

\* DigestForEvent hashes the type and the reference, not QueuedAt.
DigestForEvent(ev) == <<ev.type, ev.obj>>

ASSUME DispatchConstants ==
  /\ MaxRetries \in Nat
  /\ MaxEvents \in Nat
  /\ MaxFailures \in Nat
  /\ IsFiniteSet(Workers)
  /\ Absent \notin Event \cup [priority : AllPriorities, readyAt : {0}]
                     \cup [event : Event, priority : AllPriorities]

VARIABLES
  digests,     \* Controller.items, the sync.Map of digests
  pending,     \* queue: see KeyedQueue
  busy,
  holding,
  closed,      \* stays FALSE: shutdown is the subject of PriorityQueue
  clock,       \* stays 0: no delays
  created,     \* events created so far
  informer,    \* the handler's event between LoadOrStore and AddWithOpts
  pc,          \* per worker
  event,       \* per worker: the event it handles
  priority,    \* per worker: the priority GetWithPriority returned
  failed,      \* per worker: processItem returned an error
  requeues,    \* the rate limiter's count of requeues per event
  inFlight,    \* the reconcile in-flight gauge
  failures,    \* history: failed attempts per event
  stranded     \* history: digests of events dropped for want of a trace id

qvars == <<pending, busy, holding, closed, clock>>
wvars == <<pc, event, priority, failed>>
history == <<failures, stranded>>
vars == <<digests, qvars, created, informer, wvars, requeues, inFlight, history>>

Queue == INSTANCE KeyedQueue WITH
  Keys <- Event, Priorities <- AllPriorities, Delays <- {0}

AddWithOpts(ev, p) == Queue!Add(ev, p, 0)

Init ==
  /\ digests = {}
  /\ Queue!Init
  /\ created = 0
  /\ informer = Absent
  /\ pc = [w \in Workers |-> "idle"]
  /\ event = [w \in Workers |-> Absent]
  /\ priority = [w \in Workers |-> NormalPriority]
  /\ failed = [w \in Workers |-> FALSE]
  /\ requeues = [e \in Event |-> 0]
  /\ inFlight = 0
  /\ failures = [e \in Event |-> 0]
  /\ stranded = {}

-----------------------------------------------------------------------------
(* The informer goroutine                                                  *)

NewEvent(type, obj) == [type |-> type, obj |-> obj, queuedAt |-> created + 1]

\* LoadOrStore for the guarded events: a digest that is already there ends the
\* handler.  The others go straight to the queue.
Notify ==
  /\ informer = Absent
  /\ created < MaxEvents
  /\ \E obj \in Objects, d \in Decisions \ {Ignored} :
       LET ev == NewEvent(d.type, obj)
       IN /\ d.guarded => DigestForEvent(ev) \notin digests
          /\ digests' = IF d.guarded THEN digests \cup {DigestForEvent(ev)} ELSE digests
          /\ informer' = [event |-> ev, priority |-> d.priority]
  /\ created' = created + 1
  /\ UNCHANGED <<qvars, wvars, requeues, inFlight, history>>

NotifyQueue ==
  /\ informer # Absent
  /\ AddWithOpts(informer.event, informer.priority)
  /\ informer' = Absent
  /\ UNCHANGED <<digests, created, wvars, requeues, inFlight, history>>

-----------------------------------------------------------------------------
(* runWorker                                                               *)

Goto(w, label) == pc' = [pc EXCEPT ![w] = label]

\* The end of one turn of the loop.
Idle(w) ==
  /\ Goto(w, "idle")
  /\ event' = [event EXCEPT ![w] = Absent]
  /\ priority' = [priority EXCEPT ![w] = NormalPriority]
  /\ failed' = [failed EXCEPT ![w] = FALSE]

Take(w) ==
  /\ pc[w] = "idle"
  /\ \E ev \in Event :
       /\ Queue!Take(w, ev)
       /\ event' = [event EXCEPT ![w] = ev]
       /\ priority' = [priority EXCEPT ![w] = pending[ev].priority]
  /\ inFlight' = inFlight + 1
  /\ Goto(w, "processing")
  /\ UNCHANGED <<digests, created, informer, failed, requeues, history>>

\* Mutant: the gauge is not lowered.
TraceIdErrorUncounted(w) ==
  /\ pc[w] = "processing"
  /\ holding' = [holding EXCEPT ![w] = Absent]
  /\ Idle(w)
  /\ UNCHANGED <<digests, pending, busy, closed, clock, created, informer, requeues,
                 inFlight, history>>

\* No trace id: the loop continues with the next event and never comes back to
\* this one.  Its digest stays claimed and its key stays locked in the queue.
TraceIdError(w) ==
  /\ pc[w] = "processing"
  /\ inFlight' = inFlight - 1
  /\ holding' = [holding EXCEPT ![w] = Absent]
  /\ Idle(w)
  /\ stranded' = stranded \cup ({DigestForEvent(event[w])} \cap digests)
  /\ UNCHANGED <<digests, pending, busy, closed, clock, created, informer, requeues, failures>>

\* The events processItem queues, always unguarded and before it returns nil:
\* handleObserve asks for a Create or an Update, and the incomplete-create
\* recovery repeats the event it was called with.
FollowUps(type) ==
  {<<type, LowPriority>>} \cup
  (IF type = "Observe" THEN {<<"Create", HighPriority>>, <<"Update", HighPriority>>} ELSE {})

ProcessFollowUp(w) ==
  /\ pc[w] = "processing"
  /\ created < MaxEvents
  /\ \E f \in FollowUps(event[w].type) :
       AddWithOpts(NewEvent(f[1], event[w].obj), f[2])
  /\ created' = created + 1
  /\ failed' = [failed EXCEPT ![w] = FALSE]
  /\ Goto(w, "processed")
  /\ UNCHANGED <<digests, informer, event, priority, requeues, inFlight, history>>

Process(w) ==
  /\ pc[w] = "processing"
  /\ \E err \in BOOLEAN :
       /\ err => failures[event[w]] < MaxFailures
       /\ failed' = [failed EXCEPT ![w] = err]
       /\ failures' = IF err THEN [failures EXCEPT ![event[w]] = @ + 1] ELSE failures
  /\ Goto(w, "processed")
  /\ UNCHANGED <<digests, qvars, created, informer, event, priority, requeues, inFlight,
                 stranded>>

\* Mutant: the digest stays claimed when processing failed.
ReleaseAfterSuccess(w) ==
  digests' = IF failed[w] THEN digests ELSE digests \ {DigestForEvent(event[w])}

\* Mutant: the digest is never freed.
ReleaseNothing(w) == UNCHANGED digests

\* items.Delete.
Release(w) == digests' = digests \ {DigestForEvent(event[w])}

\* queue.Forget with the default limiter (builder/options.go:65), which drops its
\* count; RateLimiter has the limiter of pkg/workqueue, which keeps it.  Only the
\* worker that has the event uses the limiter's entry for it.
ForgetEvent(w) == requeues' = [requeues EXCEPT ![event[w]] = 0]

Finish(w) ==
  /\ pc[w] = "processed"
  /\ Release(w)
  /\ ForgetEvent(w)
  /\ stranded' = stranded \ {DigestForEvent(event[w])}
  /\ Goto(w, "finished")
  /\ UNCHANGED <<qvars, created, informer, event, priority, failed, inFlight, failures>>

-----------------------------------------------------------------------------
(* Done and handleErr                                                      *)

\* Mutant: the queue is not told.
DoneUnsaid(w) ==
  /\ pc[w] = "finished"
  /\ holding' = [holding EXCEPT ![w] = Absent]
  /\ Goto(w, "checking")
  /\ UNCHANGED <<digests, pending, busy, closed, clock, created, informer, event, priority,
                 failed, requeues, inFlight, history>>

Done(w) ==
  /\ pc[w] = "finished"
  /\ Queue!Return(w)
  /\ Goto(w, "checking")
  /\ UNCHANGED <<digests, created, informer, event, priority, failed, requeues,
                 inFlight, history>>

Exhausted(w) == requeues[event[w]] >= MaxRetries

\* Nothing to retry: no error, or the retries are used up.
GiveUp(w) ==
  /\ pc[w] = "checking"
  /\ ~failed[w] \/ Exhausted(w)
  /\ inFlight' = inFlight - 1
  /\ Idle(w)
  /\ UNCHANGED <<digests, qvars, created, informer, requeues, history>>

\* Load finds the digest: an event of the same digest is to be processed.
LeaveToOther(w) ==
  /\ pc[w] = "checking"
  /\ failed[w] /\ ~Exhausted(w)
  /\ DigestForEvent(event[w]) \in digests
  /\ inFlight' = inFlight - 1
  /\ Idle(w)
  /\ UNCHANGED <<digests, qvars, created, informer, requeues, history>>

RetryLoad(w) ==
  /\ pc[w] = "checking"
  /\ failed[w] /\ ~Exhausted(w)
  /\ DigestForEvent(event[w]) \notin digests
  /\ Goto(w, "storing")
  /\ UNCHANGED <<digests, qvars, created, informer, event, priority, failed, requeues,
                 inFlight, history>>

RetryStore(w) ==
  /\ pc[w] = "storing"
  /\ digests' = digests \cup {DigestForEvent(event[w])}
  /\ Goto(w, "requeueing")
  /\ UNCHANGED <<qvars, created, informer, event, priority, failed, requeues, inFlight,
                 history>>

\* AddWithOpts with RateLimited asks the limiter, which counts the requeue.
RetryQueue(w) ==
  /\ pc[w] = "requeueing"
  /\ AddWithOpts(event[w], priority[w])
  /\ requeues' = [requeues EXCEPT ![event[w]] = @ + 1]
  /\ inFlight' = inFlight - 1
  /\ Idle(w)
  /\ UNCHANGED <<digests, created, informer, history>>

Worker(w) ==
  \/ Take(w)
  \/ TraceIdError(w)
  \/ ProcessFollowUp(w)
  \/ Process(w)
  \/ Finish(w)
  \/ Done(w)
  \/ GiveUp(w)
  \/ LeaveToOther(w)
  \/ RetryLoad(w)
  \/ RetryStore(w)
  \/ RetryQueue(w)

Next ==
  \/ Notify
  \/ NotifyQueue
  \/ \E w \in Workers : Worker(w)

Spec == Init /\ [][Next]_vars

\* The informer goroutine and every worker that can run do run.
Fairness ==
  /\ WF_vars(NotifyQueue)
  /\ \A w \in Workers : WF_vars(Worker(w))

FairSpec == Spec /\ Fairness

-----------------------------------------------------------------------------
(* Properties                                                              *)

\* The type of every variable: in particular the in-flight gauge is never negative.
TypeOK ==
  /\ digests \subseteq EventTypes \X Objects
  /\ pending \in [Event -> [priority : AllPriorities, readyAt : {0}] \cup {Absent}]
  /\ busy \subseteq Event
  /\ holding \in [Workers -> Event \cup {Absent}]
  /\ ~closed /\ clock = 0
  /\ created \in 0..MaxEvents
  /\ informer \in [event : Event, priority : AllPriorities] \cup {Absent}
  /\ pc \in [Workers -> {"idle", "processing", "processed", "finished", "checking",
                          "storing", "requeueing"}]
  /\ event \in [Workers -> Event \cup {Absent}]
  /\ priority \in [Workers -> AllPriorities]
  /\ failed \in [Workers -> BOOLEAN]
  /\ requeues \in [Event -> Nat]
  /\ inFlight \in Nat
  /\ failures \in [Event -> Nat]
  /\ stranded \subseteq digests

\* Events waiting in the queue, or on their way into it.
Waiting ==
  {e \in Event : pending[e] # Absent}
    \cup (IF informer = Absent THEN {} ELSE {informer.event})
    \cup {event[w] : w \in {v \in Workers : pc[v] = "requeueing"}}

\* Events a worker has and whose digest it has still to free.
InProcess == {event[w] : w \in {v \in Workers : pc[v] \in {"processing", "processed"}}}

Live == Waiting \cup InProcess

\* A claimed digest belongs to an event that is queued or in flight, so the
\* handlers never suppress a notification on behalf of an event that is gone.
\* "The digest is deleted after processing, so the next classification for that
\* object queues normally" (docs/overview.md:76-78).  The one exception is an
\* event that was dropped because shortid.Generate failed.
DigestHasOwner ==
  \A d \in digests \ stranded : \E e \in Live : DigestForEvent(e) = d

\* A failed event with retries left is not lost: when handleErr leaves it to the
\* event that claimed the digest meanwhile, that event is still to be processed
\* or is being processed.  The exception is the same: behind the digest of an
\* event dropped without a trace id there is nobody.
FailedIsCovered ==
  [][\A w \in Workers : LeaveToOther(w) =>
       \/ \E e \in Live : DigestForEvent(e) = DigestForEvent(event[w])
       \/ DigestForEvent(event[w]) \in stranded]_vars

\* The gauge counts the workers between GetWithPriority and the end of handleErr
\* on every path through the loop.
InFlightIsExact == inFlight = Cardinality({w \in Workers : pc[w] # "idle"})

\* Every claimed digest is freed again, or stranded: no object is shut out of the
\* queue in any other way.
DigestIsFreed ==
  \A d \in EventTypes \X Objects : d \in digests ~> d \notin digests \/ d \in stranded

\* Every queued event reaches a worker.
EventIsProcessed ==
  \A e \in Event : e \in Waiting ~> \E w \in Workers : event[w] = e

\* "an event already queued or in flight is not queued again"
\* (docs/overview.md:76): no two live events have the same digest.
NoDuplicate ==
  \A e, f \in Live : e # f => DigestForEvent(e) # DigestForEvent(f)

\* No event is dropped with its digest claimed.  It does not hold: TraceIdError.
NothingStranded == stranded = {}

\* "until MaxRetries (default 5) is reached, then drops the event"
\* (docs/overview.md:91): the first attempt and MaxRetries more.
RetriesAreBounded == \A e \in Event : failures[e] <= MaxRetries + 1

=============================================================================
