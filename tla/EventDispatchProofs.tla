------------------------ MODULE EventDispatchProofs ------------------------
(***************************************************************************)
(* TypeOK, InFlightIsExact, DigestHasOwner and FailedIsCovered, for any    *)
(* number of objects, workers and events.                                  *)
(***************************************************************************)
EXTENDS EventDispatch, FiniteSetTheorems, TLAPS

(* The inductive invariant.  A worker that is not idle has an event, so    *)
(* every step that takes an event out of Live hands it on, frees its       *)
(* digest or strands it.                                                   *)
WorkerHasEvent == \A w \in Workers : pc[w] # "idle" => event[w] \in Event

DispatchInv == TypeOK /\ WorkerHasEvent /\ InFlightIsExact /\ DigestHasOwner

Labels == {"idle", "processing", "processed", "finished", "checking", "storing", "requeueing"}
Entries == [priority : AllPriorities, readyAt : {0}]

-----------------------------------------------------------------------------
(* The parts of a step                                                     *)

(* What a handler decides is an event type and a priority.                 *)
LEMMA DecisionTypes ==
  ASSUME NEW d \in Decisions \ {Ignored}
  PROVE  d.type \in EventTypes /\ d.priority \in AllPriorities
<1> USE DEF EventTypes, AllPriorities, LowPriority, NormalPriority, HighPriority, GetEventType, Ignored
<1>1. CASE \E b \in BOOLEAN : d = AddFunc(b)
  BY <1>1 DEF AddFunc
<1>2. CASE \E b \in BOOLEAN : d = DeleteFunc(b)
  BY <1>2 DEF DeleteFunc
<1>3. ASSUME NEW n \in UpdateNote, d = UpdateFunc(n)
      PROVE  d.type \in EventTypes /\ d.priority \in AllPriorities
  <2>1. CASE n.deleting
    BY <1>3, <2>1 DEF UpdateFunc
  <2>2. CASE ~n.deleting /\ Triggered(n) # {}
    <3> DEFINE first == CHOOSE i \in Triggered(n) : \A j \in Triggered(n) : i <= j
    <3>1. Triggered(n) \subseteq {1, 2}
      BY DEF Triggered, WatchAnnotations
    <3>2. \E i \in Triggered(n) : \A j \in Triggered(n) : i <= j
      BY <2>2, <3>1
    <3>3. first \in {1, 2}
      BY <3>1, <3>2
    <3>4. d = [type |-> WatchAnnotations[first].type, priority |-> NormalPriority, guarded |-> FALSE]
      BY <1>3, <2>2 DEF UpdateFunc
    <3> HIDE DEF first
    <3>5. WatchAnnotations[first].type \in {"Observe", "Create"}
      BY <3>3 DEF WatchAnnotations
    <3> QED BY <3>4, <3>5
  <2>3. CASE ~n.deleting /\ Triggered(n) = {}
    BY <1>3, <2>3 DEF UpdateFunc
  <2> QED BY <2>1, <2>2, <2>3
<1> QED BY <1>1, <1>2, <1>3 DEF Decisions

\* An event created below the bound is an event.
LEMMA NewEventType ==
  ASSUME created \in 0..MaxEvents, created < MaxEvents,
         NEW type \in EventTypes, NEW obj \in Objects
  PROVE  NewEvent(type, obj) \in Event
<1>1. created + 1 \in 1..MaxEvents
  BY DispatchConstants
<1> QED BY <1>1 DEF NewEvent, Event

(* The queue's Add leaves the event in the queue, at once ready.           *)
LEMMA AddFacts ==
  ASSUME TypeOK, NEW ev \in Event, NEW p \in AllPriorities, AddWithOpts(ev, p)
  PROVE  /\ pending' \in [Event -> Entries \cup {Absent}]
         /\ \A e \in Event : pending'[e] # Absent <=> (pending[e] # Absent \/ e = ev)
         /\ UNCHANGED <<busy, holding, closed, clock>>
<1> DEFINE old == pending[ev]
           new == [priority |-> p, readyAt |-> 0]
           merged == IF old = Absent THEN new
                     ELSE [priority |-> Queue!Later(old.priority, new.priority),
                           readyAt  |-> Queue!Sooner(old.readyAt, new.readyAt)]
<1>1. pending' = [pending EXCEPT ![ev] = merged] /\ UNCHANGED <<busy, holding, closed, clock>>
  BY DEF AddWithOpts, Queue!Add, Queue!Merge, Queue!Entry
<1>2. pending \in [Event -> Entries \cup {Absent}] /\ old \in Entries \cup {Absent}
  BY DEF TypeOK, Entries
<1>3. merged \in Entries
  <2>1. CASE old = Absent
    BY <2>1 DEF Entries
  <2>2. CASE old # Absent
    <3>1. old.priority \in AllPriorities /\ old.readyAt = 0
      BY <1>2, <2>2 DEF Entries
    <3>2. Queue!Later(old.priority, p) \in AllPriorities /\ Queue!Sooner(old.readyAt, 0) = 0
      BY <3>1 DEF Queue!Later, Queue!Sooner
    <3> QED BY <2>2, <3>2 DEF Entries
  <2> QED BY <2>1, <2>2
<1>4. merged # Absent
  BY <1>3, DispatchConstants DEF Entries
<1> HIDE DEF merged
<1> QED BY <1>1, <1>2, <1>3, <1>4

(* The end of a turn.                                                      *)
LEMMA IdleFacts ==
  ASSUME TypeOK, NEW w \in Workers, Idle(w)
  PROVE  /\ pc' \in [Workers -> Labels] /\ event' \in [Workers -> Event \cup {Absent}]
         /\ priority' \in [Workers -> AllPriorities] /\ failed' \in [Workers -> BOOLEAN]
         /\ pc'[w] = "idle"
         /\ \A v \in Workers : v # w => pc'[v] = pc[v] /\ event'[v] = event[v]
<1>1. /\ pc' = [pc EXCEPT ![w] = "idle"] /\ event' = [event EXCEPT ![w] = Absent]
      /\ failed' = [failed EXCEPT ![w] = FALSE]
      /\ priority' = [priority EXCEPT ![w] = NormalPriority]
  BY DEF Idle, Goto
<1>2. NormalPriority \in AllPriorities
  BY DEF AllPriorities
<1> QED BY <1>1, <1>2 DEF TypeOK, Labels

-----------------------------------------------------------------------------
(* The initial states                                                      *)

\* The invariant holds initially: nothing is queued, claimed or in flight.
LEMMA DispatchInit_Inv == Init => DispatchInv
<1> SUFFICES ASSUME Init PROVE DispatchInv
    OBVIOUS
<1>1. /\ pending = [k \in Event |-> Absent] /\ busy = {} /\ holding = [w \in Workers |-> Absent]
      /\ closed = FALSE /\ clock = 0
  BY DEF Init, Queue!Init
<1>2. /\ \A w \in Workers : pc[w] = "idle"
      /\ pc \in [Workers -> Labels] /\ event \in [Workers -> Event \cup {Absent}]
      /\ failed \in [Workers -> BOOLEAN] /\ requeues \in [Event -> Nat] /\ failures \in [Event -> Nat]
  BY DEF Init, Labels
<1>3. priority \in [Workers -> AllPriorities]
  BY DEF Init, AllPriorities
<1>4. /\ digests = {} /\ stranded = {} /\ created \in 0..MaxEvents /\ informer = Absent /\ inFlight = 0
  BY DispatchConstants DEF Init
<1>5. TypeOK
  BY <1>1, <1>2, <1>3, <1>4 DEF TypeOK, Labels
<1>6. InFlightIsExact
  <2>1. {w \in Workers : pc[w] # "idle"} = {}
    BY <1>2
  <2> QED BY <1>4, <2>1, FS_EmptySet DEF InFlightIsExact
<1>7. WorkerHasEvent /\ DigestHasOwner
  BY <1>2, <1>4 DEF WorkerHasEvent, DigestHasOwner
<1> QED BY <1>5, <1>6, <1>7 DEF DispatchInv

-----------------------------------------------------------------------------
(* The gauge                                                               *)

(* Every step counts a worker that leaves or enters the idle state.        *)
LEMMA DispatchNext_InFlight ==
  ASSUME DispatchInv, Next
  PROVE  InFlightIsExact' /\ inFlight' \in Nat
<1> DEFINE B == {w \in Workers : pc[w] # "idle"}
<1>0. /\ TypeOK /\ inFlight = Cardinality(B) /\ inFlight \in Nat
      /\ pc \in [Workers -> Labels]
  BY DEF DispatchInv, InFlightIsExact, TypeOK, Labels
<1>1. IsFiniteSet(B)
  BY DispatchConstants, FS_Subset
<1>2. ASSUME inFlight' = inFlight, \A w \in Workers : pc'[w] = "idle" <=> pc[w] = "idle"
      PROVE  InFlightIsExact' /\ inFlight' \in Nat
  <2>1. B' = B
    BY <1>2
  <2> QED BY <1>0, <1>2, <2>1 DEF InFlightIsExact
<1>3. ASSUME NEW w \in Workers, NEW l \in Labels \ {"idle"},
             pc[w] # "idle", pc' = [pc EXCEPT ![w] = l], inFlight' = inFlight
      PROVE  InFlightIsExact' /\ inFlight' \in Nat
  BY <1>0, <1>2, <1>3
<1>4. ASSUME NEW w \in Workers, Take(w) PROVE InFlightIsExact' /\ inFlight' \in Nat
  <2>1. pc[w] = "idle" /\ pc' = [pc EXCEPT ![w] = "processing"] /\ inFlight' = inFlight + 1
    BY <1>4 DEF Take, Goto
  <2>2. B' = B \cup {w} /\ w \notin B
    BY <1>0, <2>1
  <2>3. Cardinality(B') = Cardinality(B) + 1
    BY <1>1, <2>2, FS_AddElement
  <2> QED BY <1>0, <2>1, <2>3 DEF InFlightIsExact
<1>5. ASSUME NEW w \in Workers, pc[w] # "idle", Idle(w), inFlight' = inFlight - 1
      PROVE  InFlightIsExact' /\ inFlight' \in Nat
  <2>1. B' = B \ {w} /\ w \in B
    BY <1>0, <1>5, IdleFacts
  <2>2. Cardinality(B') = Cardinality(B) - 1 /\ IsFiniteSet(B')
    BY <1>1, <2>1, FS_RemoveElement
  <2>3. Cardinality(B') \in Nat
    BY <2>2, FS_CardinalityType
  <2> QED BY <1>0, <1>5, <2>2, <2>3 DEF InFlightIsExact
<1>6. CASE Notify \/ NotifyQueue
  BY <1>2, <1>6 DEF Notify, NotifyQueue, wvars
<1>7. ASSUME NEW w \in Workers,
             TraceIdError(w) \/ GiveUp(w) \/ LeaveToOther(w) \/ RetryQueue(w)
      PROVE  InFlightIsExact' /\ inFlight' \in Nat
  BY <1>5, <1>7 DEF TraceIdError, GiveUp, LeaveToOther, RetryQueue
<1>8. ASSUME NEW w \in Workers,
             ProcessFollowUp(w) \/ Process(w) \/ Finish(w) \/ Done(w) \/ RetryLoad(w) \/ RetryStore(w)
      PROVE  InFlightIsExact' /\ inFlight' \in Nat
  <2>1. inFlight' = inFlight /\ pc[w] # "idle"
    BY <1>8 DEF ProcessFollowUp, Process, Finish, Done, RetryLoad, RetryStore
  <2>2. \E l \in Labels \ {"idle"} : pc' = [pc EXCEPT ![w] = l]
    BY <1>8 DEF ProcessFollowUp, Process, Finish, Done, RetryLoad, RetryStore, Goto, Labels
  <2> QED BY <1>3, <2>1, <2>2
<1> QED BY <1>4, <1>6, <1>7, <1>8 DEF Next, Worker

-----------------------------------------------------------------------------
(* Types                                                                   *)

(* The steps of a worker that go on with the event it has.                 *)
LEMMA GoOnFacts ==
  ASSUME TypeOK, WorkerHasEvent, NEW w \in Workers, NEW l \in Labels \ {"idle"},
         pc[w] # "idle", Goto(w, l), UNCHANGED event
  PROVE  pc' \in [Workers -> Labels] /\ WorkerHasEvent' /\ event[w] \in Event
<1>1. pc' = [pc EXCEPT ![w] = l] /\ pc \in [Workers -> Labels]
  BY DEF Goto, TypeOK, Labels
<1>2. event[w] \in Event
  BY DEF WorkerHasEvent
<1> QED BY <1>1, <1>2 DEF WorkerHasEvent

\* The digest of an event is its type and its object.
LEMMA DigestType ==
  ASSUME NEW e \in Event
  PROVE  DigestForEvent(e) \in EventTypes \X Objects
BY DEF DigestForEvent, Event

\* Every step keeps the types, and a worker that is not idle has its event.
LEMMA DispatchNext_Type ==
  ASSUME TypeOK, WorkerHasEvent, inFlight' \in Nat, Next
  PROVE  TypeOK' /\ WorkerHasEvent'
<1> USE DEF Labels, Entries, history
<1>1. CASE Notify
  <2>1. PICK obj \in Objects, d \in Decisions \ {Ignored} :
          /\ digests' = IF d.guarded THEN digests \cup {DigestForEvent(NewEvent(d.type, obj))} ELSE digests
          /\ informer' = [event |-> NewEvent(d.type, obj), priority |-> d.priority]
    BY <1>1 DEF Notify
  <2>2. NewEvent(d.type, obj) \in Event /\ d.priority \in AllPriorities
    BY <1>1, DecisionTypes, NewEventType DEF Notify, TypeOK
  <2>3. informer' \in [event : Event, priority : AllPriorities]
    BY <2>1, <2>2
  <2>4. digests' \subseteq EventTypes \X Objects /\ digests \subseteq digests'
    BY <2>1, <2>2, DigestType DEF TypeOK
  <2>5. created' \in 0..MaxEvents
    BY <1>1, DispatchConstants DEF Notify, TypeOK
  <2>6. UNCHANGED <<qvars, wvars, requeues, failures, stranded>>
    BY <1>1 DEF Notify
  <2> QED BY <2>3, <2>4, <2>5, <2>6 DEF TypeOK, WorkerHasEvent, qvars, wvars
<1>2. CASE NotifyQueue
  <2>1. informer.event \in Event /\ informer.priority \in AllPriorities
    BY <1>2 DEF NotifyQueue, TypeOK
  <2>2. pending' \in [Event -> Entries \cup {Absent}] /\ UNCHANGED <<busy, holding, closed, clock>>
    BY <1>2, <2>1, AddFacts DEF NotifyQueue
  <2> QED BY <1>2, <2>2 DEF NotifyQueue, TypeOK, WorkerHasEvent, wvars
<1>3. ASSUME NEW w \in Workers, Take(w) PROVE TypeOK' /\ WorkerHasEvent'
  <2>1. PICK ev \in Event :
          /\ Queue!Take(w, ev)
          /\ event' = [event EXCEPT ![w] = ev]
          /\ priority' = [priority EXCEPT ![w] = pending[ev].priority]
    BY <1>3 DEF Take
  <2>2. /\ pending[ev] # Absent /\ pending' = [pending EXCEPT ![ev] = Absent]
        /\ busy' = busy \cup {ev} /\ holding' = [holding EXCEPT ![w] = ev]
        /\ UNCHANGED <<closed, clock>>
    BY <2>1 DEF Queue!Take
  <2>3. pending[ev].priority \in AllPriorities
    BY <2>2 DEF TypeOK
  <2>4. /\ pending' \in [Event -> Entries \cup {Absent}] /\ busy' \subseteq Event
        /\ holding' \in [Workers -> Event \cup {Absent}]
    BY <2>2 DEF TypeOK
  <2>5. /\ event' \in [Workers -> Event \cup {Absent}] /\ priority' \in [Workers -> AllPriorities]
    BY <2>1, <2>3 DEF TypeOK
  <2>6. pc' = [pc EXCEPT ![w] = "processing"]
    BY <1>3 DEF Take, Goto
  <2>7. pc' \in [Workers -> Labels] /\ WorkerHasEvent'
    BY <2>1, <2>6 DEF TypeOK, WorkerHasEvent
  <2> QED BY <1>3, <2>2, <2>4, <2>5, <2>7 DEF Take, TypeOK
<1>4. ASSUME NEW w \in Workers, Idle(w) PROVE WorkerHasEvent'
  BY <1>4, IdleFacts DEF WorkerHasEvent
<1>5. ASSUME NEW w \in Workers, TraceIdError(w) PROVE TypeOK' /\ WorkerHasEvent'
  <2>1. Idle(w) /\ stranded' = stranded \cup ({DigestForEvent(event[w])} \cap digests)
        /\ UNCHANGED <<digests, pending, busy, closed, clock, created, informer, requeues, failures>>
    BY <1>5 DEF TraceIdError
  <2>2. holding' \in [Workers -> Event \cup {Absent}] /\ stranded' \subseteq digests'
    BY <1>5, <2>1 DEF TraceIdError, TypeOK
  <2> QED BY <1>4, <2>1, <2>2, IdleFacts DEF TypeOK
<1>6. ASSUME NEW w \in Workers, ProcessFollowUp(w) PROVE TypeOK' /\ WorkerHasEvent'
  <2>0. pc' \in [Workers -> Labels] /\ WorkerHasEvent' /\ event[w] \in Event
    BY <1>6, GoOnFacts DEF ProcessFollowUp
  <2>1. PICK f \in FollowUps(event[w].type) : AddWithOpts(NewEvent(f[1], event[w].obj), f[2])
    BY <1>6 DEF ProcessFollowUp
  <2>2. f[1] \in EventTypes /\ f[2] \in AllPriorities /\ event[w].obj \in Objects
    BY <2>0, <2>1 DEF FollowUps, Event, EventTypes, AllPriorities
  <2>3. NewEvent(f[1], event[w].obj) \in Event
    BY <1>6, <2>2, NewEventType DEF ProcessFollowUp, TypeOK
  <2>4. pending' \in [Event -> Entries \cup {Absent}] /\ UNCHANGED <<busy, holding, closed, clock>>
    BY <2>1, <2>2, <2>3, AddFacts
  <2>5. created' \in 0..MaxEvents
    BY <1>6, DispatchConstants DEF ProcessFollowUp, TypeOK
  <2>6. failed' \in [Workers -> BOOLEAN]
    BY <1>6 DEF ProcessFollowUp, TypeOK
  <2> QED BY <1>6, <2>0, <2>4, <2>5, <2>6 DEF ProcessFollowUp, TypeOK
<1>7. ASSUME NEW w \in Workers, Process(w) PROVE TypeOK' /\ WorkerHasEvent'
  <2>0. pc' \in [Workers -> Labels] /\ WorkerHasEvent' /\ event[w] \in Event
    BY <1>7, GoOnFacts DEF Process
  <2>1. PICK err \in BOOLEAN :
          /\ failed' = [failed EXCEPT ![w] = err]
          /\ failures' = IF err THEN [failures EXCEPT ![event[w]] = @ + 1] ELSE failures
    BY <1>7 DEF Process
  <2>2. failed' \in [Workers -> BOOLEAN]
    BY <2>1 DEF TypeOK
  <2>3. failures' \in [Event -> Nat]
    BY <2>0, <2>1 DEF TypeOK
  <2> QED BY <1>7, <2>0, <2>2, <2>3 DEF Process, TypeOK, qvars
<1>8. ASSUME NEW w \in Workers, Finish(w) PROVE TypeOK' /\ WorkerHasEvent'
  <2>0. pc' \in [Workers -> Labels] /\ WorkerHasEvent' /\ event[w] \in Event
    BY <1>8, GoOnFacts DEF Finish
  <2>1. requeues' \in [Event -> Nat]
    BY <1>8 DEF Finish, ForgetEvent, TypeOK
  <2>2. digests' \subseteq EventTypes \X Objects /\ stranded' \subseteq digests'
    BY <1>8 DEF Finish, Release, TypeOK
  <2> QED BY <1>8, <2>0, <2>1, <2>2 DEF Finish, TypeOK, qvars
<1>9. ASSUME NEW w \in Workers, Done(w) PROVE TypeOK' /\ WorkerHasEvent'
  <2>0. pc' \in [Workers -> Labels] /\ WorkerHasEvent'
    BY <1>9, GoOnFacts DEF Done
  <2>1. /\ busy' \subseteq Event /\ holding' \in [Workers -> Event \cup {Absent}]
        /\ UNCHANGED <<pending, closed, clock>>
    BY <1>9 DEF Done, Queue!Return, TypeOK
  <2> QED BY <1>9, <2>0, <2>1 DEF Done, TypeOK
<1>10. ASSUME NEW w \in Workers, GiveUp(w) \/ LeaveToOther(w) PROVE TypeOK' /\ WorkerHasEvent'
  <2>1. Idle(w) /\ UNCHANGED <<digests, qvars, created, informer, requeues, failures, stranded>>
    BY <1>10 DEF GiveUp, LeaveToOther
  <2> QED BY <1>4, <2>1, IdleFacts DEF TypeOK, qvars
<1>11. ASSUME NEW w \in Workers, RetryLoad(w) \/ RetryStore(w) PROVE TypeOK' /\ WorkerHasEvent'
  <2>0. pc' \in [Workers -> Labels] /\ WorkerHasEvent' /\ event[w] \in Event
    BY <1>11, GoOnFacts DEF RetryLoad, RetryStore
  <2>1. digests' \subseteq EventTypes \X Objects /\ digests \subseteq digests'
    BY <1>11, <2>0, DigestType DEF RetryLoad, RetryStore, TypeOK
  <2>2. UNCHANGED <<qvars, created, informer, event, priority, failed, requeues, failures, stranded>>
    BY <1>11 DEF RetryLoad, RetryStore
  <2> QED BY <2>0, <2>1, <2>2 DEF TypeOK, qvars
<1>12. ASSUME NEW w \in Workers, RetryQueue(w) PROVE TypeOK' /\ WorkerHasEvent'
  <2>1. event[w] \in Event /\ priority[w] \in AllPriorities /\ Idle(w)
    BY <1>12 DEF RetryQueue, WorkerHasEvent, TypeOK
  <2>2. pending' \in [Event -> Entries \cup {Absent}] /\ UNCHANGED <<busy, holding, closed, clock>>
    BY <1>12, <2>1, AddFacts DEF RetryQueue
  <2>3. requeues' \in [Event -> Nat]
    BY <1>12, <2>1 DEF RetryQueue, TypeOK
  <2> QED BY <1>4, <1>12, <2>1, <2>2, <2>3, IdleFacts DEF RetryQueue, TypeOK
<1> QED
  BY <1>1, <1>2, <1>3, <1>5, <1>6, <1>7, <1>8, <1>9, <1>10, <1>11, <1>12 DEF Next, Worker

-----------------------------------------------------------------------------
(* The owners of the digests                                               *)

(* Every step keeps DigestHasOwner: an event that is live stays live, but  *)
(* for the one whose digest Finish frees or TraceIdError strands; and who  *)
(* claims a digest is live.                                                *)
LEMMA DispatchNext_Owner ==
  ASSUME DispatchInv, Next
  PROVE  DigestHasOwner'
<1>0. /\ TypeOK /\ WorkerHasEvent /\ DigestHasOwner
      /\ pc \in [Workers -> Labels] /\ event \in [Workers -> Event \cup {Absent}]
      /\ pending \in [Event -> Entries \cup {Absent}]
  BY DEF DispatchInv, TypeOK, Labels, Entries
<1> DEFINE Have(w, e) == event[w] = e /\ pc[w] \in {"processing", "processed", "requeueing"}
           Told(e) == informer # Absent /\ e = informer.event
<1>1. \A e : e \in Live <=> \/ e \in Event /\ pending[e] # Absent
                            \/ Told(e)
                            \/ \E w \in Workers : Have(w, e)
  BY DEF Live, Waiting, InProcess
<1>2. \A e : e \in Live' <=> \/ e \in Event /\ pending'[e] # Absent
                             \/ informer' # Absent /\ e = informer'.event
                             \/ \E w \in Workers :
                                  event'[w] = e /\ pc'[w] \in {"processing", "processed", "requeueing"}
  BY DEF Live, Waiting, InProcess
<1>3. ASSUME Live \subseteq Live', digests' \subseteq digests, stranded \subseteq stranded'
      PROVE  DigestHasOwner'
  BY <1>0, <1>3 DEF DigestHasOwner
<1>4. ASSUME Live \subseteq Live', UNCHANGED stranded,
             NEW e \in Live', digests' \subseteq digests \cup {DigestForEvent(e)}
      PROVE  DigestHasOwner'
  BY <1>0, <1>4 DEF DigestHasOwner
<1> HIDE DEF Live
<1>k. ASSUME NEW w \in Workers, UNCHANGED informer,
             \A v \in Workers : v # w => event'[v] = event[v] /\ pc'[v] = pc[v],
             \A e \in Event : pending[e] # Absent => pending'[e] # Absent,
             pc[w] \in {"processing", "processed", "requeueing"} => event[w] \in Live'
      PROVE  Live \subseteq Live'
  <2>1. ASSUME NEW e \in Live PROVE e \in Live'
    <3>1. CASE e \in Event /\ pending[e] # Absent
      BY <1>2, <1>k, <3>1
    <3>2. CASE Told(e)
      BY <1>2, <1>k, <3>2
    <3>3. ASSUME NEW v \in Workers, Have(v, e) PROVE e \in Live'
      BY <1>2, <1>k, <3>3
    <3> QED BY <1>1, <2>1, <3>1, <3>2, <3>3
  <2> QED BY <2>1
<1>5. CASE Notify
  <2>1. PICK obj \in Objects, d \in Decisions \ {Ignored} :
          /\ digests' = IF d.guarded THEN digests \cup {DigestForEvent(NewEvent(d.type, obj))} ELSE digests
          /\ informer' = [event |-> NewEvent(d.type, obj), priority |-> d.priority]
    BY <1>5 DEF Notify
  <2>2. /\ informer = Absent /\ UNCHANGED <<pending, pc, event, stranded>>
    BY <1>5 DEF Notify, qvars, wvars, history
  <2>3. NewEvent(d.type, obj) \in Event /\ d.priority \in AllPriorities
    BY <1>0, <1>5, DecisionTypes, NewEventType DEF Notify, TypeOK
  <2>4. informer' # Absent /\ informer'.event = NewEvent(d.type, obj)
    BY <2>1, <2>3, DispatchConstants
  <2>5. Live \subseteq Live' /\ NewEvent(d.type, obj) \in Live'
    BY <1>1, <1>2, <2>2, <2>4
  <2> QED BY <1>4, <2>1, <2>2, <2>5
<1>6. CASE NotifyQueue
  <2>1. informer.event \in Event /\ informer.priority \in AllPriorities
    BY <1>0, <1>6 DEF NotifyQueue, TypeOK
  <2>2. \A e \in Event : pending'[e] # Absent <=> (pending[e] # Absent \/ e = informer.event)
    BY <1>0, <1>6, <2>1, AddFacts DEF NotifyQueue
  <2>3. UNCHANGED <<digests, stranded, pc, event>>
    BY <1>6 DEF NotifyQueue, wvars, history
  <2>4. Live \subseteq Live'
    BY <1>1, <1>2, <2>1, <2>2, <2>3
  <2> QED BY <1>3, <2>3, <2>4
<1>7. ASSUME NEW w \in Workers, Take(w) PROVE DigestHasOwner'
  <2>1. PICK ev \in Event : Queue!Take(w, ev) /\ event' = [event EXCEPT ![w] = ev]
    BY <1>7 DEF Take
  <2>2. /\ pending' = [pending EXCEPT ![ev] = Absent] /\ pc[w] = "idle"
        /\ pc' = [pc EXCEPT ![w] = "processing"]
        /\ UNCHANGED <<digests, stranded, informer>>
    BY <1>7, <2>1 DEF Take, Queue!Take, Goto, history
  <2>3. /\ event'[w] = ev /\ pc'[w] = "processing"
        /\ \A v \in Workers : v # w => event'[v] = event[v] /\ pc'[v] = pc[v]
        /\ \A e \in Event : e # ev => pending'[e] = pending[e]
    BY <1>0, <2>1, <2>2
  <2>4. Live \subseteq Live'
    BY <1>1, <1>2, <2>2, <2>3
  <2> QED BY <1>3, <2>2, <2>4
<1>8. ASSUME NEW w \in Workers, TraceIdError(w) \/ Finish(w) PROVE DigestHasOwner'
  <2>1. /\ UNCHANGED <<pending, informer>>
        /\ \A v \in Workers : v # w => event'[v] = event[v] /\ pc'[v] = pc[v]
    <3>1. CASE TraceIdError(w)
      BY <1>0, <3>1, IdleFacts DEF TraceIdError
    <3>2. CASE Finish(w)
      BY <1>0, <3>2 DEF Finish, Goto, qvars
    <3> QED BY <1>8, <3>1, <3>2
  <2>2. \A e \in Live : e = event[w] \/ e \in Live'
    BY <1>1, <1>2, <2>1
  <2>3. /\ digests' \subseteq digests
        /\ stranded \ {DigestForEvent(event[w])} \subseteq stranded'
        /\ DigestForEvent(event[w]) \notin digests' \ stranded'
    BY <1>8 DEF TraceIdError, Finish, Release
  <2>4. ASSUME NEW d \in digests' \ stranded' PROVE \E e \in Live' : DigestForEvent(e) = d
    <3>1. d # DigestForEvent(event[w]) /\ d \in digests \ stranded
      BY <2>3
    <3>2. PICK e \in Live : DigestForEvent(e) = d
      BY <1>0, <3>1 DEF DigestHasOwner
    <3> QED BY <2>2, <3>1, <3>2
  <2> QED BY <2>4 DEF DigestHasOwner
<1>9. ASSUME NEW w \in Workers, ProcessFollowUp(w) \/ Process(w) PROVE DigestHasOwner'
  <2>1. /\ pc[w] = "processing" /\ pc' = [pc EXCEPT ![w] = "processed"]
        /\ UNCHANGED <<digests, stranded, informer, event>>
    BY <1>9 DEF ProcessFollowUp, Process, Goto, history
  <2>2. \A e \in Event : pending[e] # Absent => pending'[e] # Absent
    <3>1. CASE Process(w)
      BY <3>1 DEF Process, qvars
    <3>2. CASE ProcessFollowUp(w)
      <4>1. PICK f \in FollowUps(event[w].type) : AddWithOpts(NewEvent(f[1], event[w].obj), f[2])
        BY <3>2 DEF ProcessFollowUp
      <4>2. event[w] \in Event
        BY <1>0, <2>1 DEF WorkerHasEvent
      <4>3. f[1] \in EventTypes /\ f[2] \in AllPriorities /\ event[w].obj \in Objects
        BY <4>1, <4>2 DEF FollowUps, Event, EventTypes, AllPriorities
      <4>4. NewEvent(f[1], event[w].obj) \in Event
        BY <1>0, <3>2, <4>3, NewEventType DEF ProcessFollowUp, TypeOK
      <4> QED BY <1>0, <4>1, <4>3, <4>4, AddFacts
    <3> QED BY <1>9, <3>1, <3>2
  <2>3. /\ pc'[w] = "processed" /\ event'[w] = event[w]
        /\ \A v \in Workers : v # w => event'[v] = event[v] /\ pc'[v] = pc[v]
    BY <1>0, <2>1
  <2>4. event[w] \in Live'
    BY <1>2, <2>3
  <2>5. Live \subseteq Live'
    BY <1>k, <2>1, <2>2, <2>3, <2>4
  <2> QED BY <1>3, <2>1, <2>5
<1>10. ASSUME NEW w \in Workers, Done(w) \/ GiveUp(w) \/ LeaveToOther(w) \/ RetryLoad(w)
       PROVE  DigestHasOwner'
  <2>1. pc[w] \in {"finished", "checking"} /\ UNCHANGED <<digests, stranded, informer, pending>>
    BY <1>10 DEF Done, GiveUp, LeaveToOther, RetryLoad, Queue!Return, qvars, history
  <2>2. \A v \in Workers : v # w => event'[v] = event[v] /\ pc'[v] = pc[v]
    <3>1. CASE Done(w) \/ RetryLoad(w)
      BY <1>0, <3>1 DEF Done, RetryLoad, Goto
    <3>2. CASE GiveUp(w) \/ LeaveToOther(w)
      BY <1>0, <3>2, IdleFacts DEF GiveUp, LeaveToOther
    <3> QED BY <1>10, <3>1, <3>2
  <2>3. Live \subseteq Live'
    BY <1>k, <2>1, <2>2
  <2> QED BY <1>3, <2>1, <2>3
<1>11. ASSUME NEW w \in Workers, RetryStore(w) PROVE DigestHasOwner'
  <2>1. /\ pc[w] = "storing" /\ pc' = [pc EXCEPT ![w] = "requeueing"]
        /\ digests' = digests \cup {DigestForEvent(event[w])}
        /\ UNCHANGED <<stranded, informer, event, pending>>
    BY <1>11 DEF RetryStore, Goto, qvars, history
  <2>2. /\ pc'[w] = "requeueing" /\ event'[w] = event[w]
        /\ \A v \in Workers : v # w => event'[v] = event[v] /\ pc'[v] = pc[v]
    BY <1>0, <2>1
  <2>3. event[w] \in Live'
    BY <1>2, <2>2
  <2>4. Live \subseteq Live'
    BY <1>k, <2>1, <2>2, <2>3
  <2> QED BY <1>4, <2>1, <2>3, <2>4
<1>12. ASSUME NEW w \in Workers, RetryQueue(w) PROVE DigestHasOwner'
  <2>1. event[w] \in Event /\ priority[w] \in AllPriorities
    BY <1>0, <1>12 DEF RetryQueue, WorkerHasEvent, TypeOK
  <2>2. \A e \in Event : pending'[e] # Absent <=> (pending[e] # Absent \/ e = event[w])
    BY <1>0, <1>12, <2>1, AddFacts DEF RetryQueue
  <2>3. /\ UNCHANGED <<digests, stranded, informer>>
        /\ \A v \in Workers : v # w => event'[v] = event[v] /\ pc'[v] = pc[v]
    BY <1>0, <1>12, IdleFacts DEF RetryQueue, history
  <2>4. event[w] \in Live'
    BY <1>2, <2>1, <2>2
  <2>5. Live \subseteq Live'
    BY <1>k, <2>2, <2>3, <2>4
  <2> QED BY <1>3, <2>3, <2>5
<1> QED
  BY <1>5, <1>6, <1>7, <1>8, <1>9, <1>10, <1>11, <1>12 DEF Next, Worker

-----------------------------------------------------------------------------
(* The theorems                                                            *)

\* Every step keeps the invariant.
LEMMA DispatchNext_Inv == DispatchInv /\ [Next]_vars => DispatchInv'
<1>1. ASSUME DispatchInv, Next PROVE DispatchInv'
  BY <1>1, DispatchNext_InFlight, DispatchNext_Type, DispatchNext_Owner DEF DispatchInv
<1>2. ASSUME DispatchInv, UNCHANGED vars PROVE DispatchInv'
  <2>1. TypeOK'
    BY <1>2 DEF vars, qvars, wvars, history, DispatchInv, TypeOK
  <2>2. WorkerHasEvent' /\ InFlightIsExact'
    BY <1>2 DEF vars, wvars, DispatchInv, WorkerHasEvent, InFlightIsExact
  <2>3. Live' = Live
    BY <1>2 DEF vars, qvars, wvars, Live, Waiting, InProcess
  <2>4. DigestHasOwner'
    BY <1>2, <2>3 DEF vars, history, DispatchInv, DigestHasOwner
  <2> QED BY <2>1, <2>2, <2>4 DEF DispatchInv
<1> QED BY <1>1, <1>2

\* The invariant holds throughout.
LEMMA DispatchInvariant == Spec => []DispatchInv
BY DispatchInit_Inv, DispatchNext_Inv, PTL DEF Spec

(* The variables keep their types for any number of objects, workers and   *)
(* events: the in-flight gauge, above all, never goes below zero.          *)
THEOREM DispatchTypeTheorem == Spec => []TypeOK
<1>1. DispatchInv => TypeOK
  BY DEF DispatchInv
<1> QED BY <1>1, DispatchInvariant, PTL

(* The in-flight gauge is the number of workers that have an event.        *)
THEOREM InFlightTheorem == Spec => []InFlightIsExact
<1>1. DispatchInv => InFlightIsExact
  BY DEF DispatchInv
<1> QED BY <1>1, DispatchInvariant, PTL

(* A digest that is claimed, and not stranded by a missing trace id,       *)
(* belongs to an event that is queued or being processed: the handlers     *)
(* suppress no notification on behalf of an event that is gone.            *)
THEOREM DigestTheorem == Spec => []DigestHasOwner
<1>1. DispatchInv => DigestHasOwner
  BY DEF DispatchInv
<1> QED BY <1>1, DispatchInvariant, PTL

(* A failed event that handleErr leaves to the event that has claimed its  *)
(* digest is covered by it.                                                *)
THEOREM FailedTheorem == Spec => FailedIsCovered
<1>1. ASSUME DispatchInv, NEW w \in Workers, LeaveToOther(w)
      PROVE  \/ \E e \in Live : DigestForEvent(e) = DigestForEvent(event[w])
             \/ DigestForEvent(event[w]) \in stranded
  BY <1>1 DEF DispatchInv, DigestHasOwner, LeaveToOther
<1>2. DispatchInv =>
        [\A w \in Workers : LeaveToOther(w) =>
           \/ \E e \in Live : DigestForEvent(e) = DigestForEvent(event[w])
           \/ DigestForEvent(event[w]) \in stranded]_vars
  BY <1>1
<1> QED BY <1>2, DispatchInvariant, PTL DEF FailedIsCovered

(* The controller uses the queue as KeyedQueue allows, but for one step: a *)
(* worker without a trace id goes on to its next event and never tells the *)
(* queue that it is done with this one (worker.go:151-158).                *)
THEOREM DispatchUsesQueue ==
  Spec => Queue!Init /\ [][Queue!Next \/ \E w \in Workers : TraceIdError(w)]_qvars
<1>1. Init => Queue!Init
  BY DEF Init
<1>2. DispatchInv /\ [Next]_vars => [Queue!Next \/ \E w \in Workers : TraceIdError(w)]_qvars
  <2> SUFFICES ASSUME DispatchInv, [Next]_vars
               PROVE  \/ Queue!Next
                      \/ \E w \in Workers : TraceIdError(w)
                      \/ UNCHANGED qvars
    OBVIOUS
  <2>0. ASSUME NEW ev \in Event, NEW p \in AllPriorities, AddWithOpts(ev, p) PROVE Queue!Next
    BY <2>0 DEF AddWithOpts, Queue!Next
  <2>1. CASE NotifyQueue
    <3>1. informer \in [event : Event, priority : AllPriorities]
      BY <2>1 DEF NotifyQueue, DispatchInv, TypeOK
    <3>2. AddWithOpts(informer.event, informer.priority)
      BY <2>1 DEF NotifyQueue
    <3> QED BY <2>0, <3>1, <3>2
  <2>2. ASSUME NEW w \in Workers, Take(w) PROVE Queue!Next
    BY <2>2 DEF Take, Queue!Next
  <2>3. ASSUME NEW w \in Workers, ProcessFollowUp(w) PROVE Queue!Next
    <3>1. event[w] \in Event
      BY <2>3 DEF ProcessFollowUp, DispatchInv, WorkerHasEvent
    <3>2. PICK f \in FollowUps(event[w].type) : AddWithOpts(NewEvent(f[1], event[w].obj), f[2])
      BY <2>3 DEF ProcessFollowUp
    <3>3. event[w].type \in EventTypes /\ event[w].obj \in Objects
      BY <3>1 DEF Event
    <3>4. f[1] \in EventTypes /\ f[2] \in AllPriorities
      BY <3>3 DEF FollowUps, EventTypes, AllPriorities
    <3>5. NewEvent(f[1], event[w].obj) \in Event
      BY <2>3, <3>3, <3>4, NewEventType DEF ProcessFollowUp, DispatchInv, TypeOK
    <3> QED BY <2>0, <3>2, <3>4, <3>5
  <2>4. ASSUME NEW w \in Workers, Done(w) PROVE Queue!Next
    BY <2>4 DEF Done, Queue!Next
  <2>5. ASSUME NEW w \in Workers, RetryQueue(w) PROVE Queue!Next
    <3>1. event[w] \in Event /\ priority[w] \in AllPriorities
      BY <2>5 DEF RetryQueue, DispatchInv, WorkerHasEvent, TypeOK
    <3>2. AddWithOpts(event[w], priority[w])
      BY <2>5 DEF RetryQueue
    <3> QED BY <2>0, <3>1, <3>2
  <2>6. CASE Notify \/ UNCHANGED vars
    BY <2>6 DEF Notify, vars
  <2>7. ASSUME NEW w \in Workers,
               \/ Process(w) \/ Finish(w) \/ GiveUp(w) \/ LeaveToOther(w)
               \/ RetryLoad(w) \/ RetryStore(w)
        PROVE  UNCHANGED qvars
    BY <2>7 DEF Process, Finish, GiveUp, LeaveToOther, RetryLoad, RetryStore
  <2> QED BY <2>1, <2>2, <2>3, <2>4, <2>5, <2>6, <2>7 DEF Next, Worker
<1> QED BY <1>1, <1>2, DispatchInvariant, PTL DEF Spec

=============================================================================
