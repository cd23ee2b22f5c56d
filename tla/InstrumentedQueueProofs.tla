----------------------- MODULE InstrumentedQueueProofs -----------------------
(***************************************************************************)
(* For any items and any number of workers, no interleaving of the         *)
(* wrapper's steps with the queue's leaves a stale entry in the gauges or  *)
(* drives the depth below zero.  NoGhost needs that a worker between Get   *)
(* and Done has its item, the type of the gauge that the gauge is the size *)
(* of the map.                                                             *)
(***************************************************************************)
EXTENDS InstrumentedQueue, FiniteSetTheorems, TLAPS

\* The type of every variable but the gauge, and: between Get and Done a worker
\* has its item.
Types ==
  /\ pending \in [Keys -> [priority : {0}, readyAt : {0}] \cup {Absent}]
  /\ busy \subseteq Keys
  /\ holding \in [Workers -> Keys \cup {Absent}]
  /\ closed \in BOOLEAN
  /\ done \in BOOLEAN
  /\ clock = 0
  /\ enqueuedAt \subseteq Keys
  /\ pc \in [Workers -> {"get", "got", "dequeue", "working", "done", "exited"}]
  /\ adding \in [Workers -> Keys \cup {Absent}]
  /\ \A w \in Workers : pc[w] \in {"got", "dequeue", "working"} => holding[w] \in Keys

\* The gauge is the size of the map.
GaugeIsSize == IsFiniteSet(enqueuedAt) /\ depth = Cardinality(enqueuedAt)

\* The inductive invariant.
GhostInv == Types /\ GaugeIsSize /\ NoGhost

\* Initially the queue and the map are empty.
LEMMA GhostInit == Init => GhostInv
<1> SUFFICES ASSUME Init PROVE GhostInv
  OBVIOUS
<1>1. Types
  BY DEF Init, Queue!Init, Types
<1>2. GaugeIsSize
  BY FS_EmptySet DEF Init, GaugeIsSize
<1>3. NoGhost
  BY DEF Init, NoGhost
<1> QED
  BY <1>1, <1>2, <1>3 DEF GhostInv

\* An item added to an open queue is in it; no other item leaves it.
LEMMA QueueAddIsThere ==
  ASSUME Types, NEW k \in Keys, QueueAdd(k)
  PROVE  /\ UNCHANGED <<busy, holding, closed, clock>>
         /\ pending' \in [Keys -> [priority : {0}, readyAt : {0}] \cup {Absent}]
         /\ closed \/ pending'[k] # Absent
         /\ \A j \in Keys : pending[j] # Absent => pending'[j] # Absent
<1>1. CASE closed
  BY <1>1 DEF QueueAdd, qvars, Types
<1>2. CASE ~closed
  <2> DEFINE new == [priority |-> 0, readyAt |-> 0]
  <2>1. new \in [priority : {0}, readyAt : {0}] /\ new # Absent
    BY InstrumentedConstants
  <2>2. Queue!Entry(0, 0) = new
    BY DEF Queue!Entry
  <2>3. Queue!Merge(pending[k], new) = new
    BY DEF Queue!Merge, Queue!Later, Queue!Sooner, Types
  <2>4. /\ pending' = [pending EXCEPT ![k] = new]
        /\ UNCHANGED <<busy, holding, closed, clock>>
    BY <1>2, <2>2, <2>3 DEF QueueAdd, Queue!Add
  <2> HIDE DEF new
  <2> QED
    BY <2>1, <2>4 DEF Types
<1> QED
  BY <1>1, <1>2 DEF Types

\* A step of the informer keeps the invariant.
LEMMA InformerGhost ==
  ASSUME GhostInv, NEW k \in Keys, InformerAdd(k)
  PROVE  GhostInv'
<1>1. QueueAdd(k) /\ UNCHANGED <<enqueuedAt, depth, done, pc, adding>>
  BY DEF InformerAdd
<1>2. Types'
  BY <1>1, QueueAddIsThere DEF GhostInv, Types
<1>3. NoGhost'
  BY <1>1, QueueAddIsThere DEF GhostInv, Types, NoGhost
<1> QED
  BY <1>1, <1>2, <1>3 DEF GhostInv, GaugeIsSize

\* A step of a worker keeps the invariant.
LEMMA WorkerGhost ==
  ASSUME GhostInv, NEW w \in Workers, Worker(w)
  PROVE  GhostInv'
<1> USE DEF GhostInv, Goto, qvars
<1>1. ASSUME NEW k \in Keys, GetItem(w, k) PROVE GhostInv'
  <2>1. Types'
    BY <1>1 DEF GetItem, Queue!Take, Types
  <2>2. NoGhost'
    BY <1>1, InstrumentedConstants DEF GetItem, Queue!Take, Types, NoGhost
  <2> QED
    BY <1>1, <2>1, <2>2 DEF GetItem, GaugeIsSize
<1>2. ASSUME NEW k \in Keys, recordEnqueueAt(w, k) PROVE GhostInv'
  <2>1. Types'
    BY <1>2 DEF recordEnqueueAt, Types
  <2>2. NoGhost'
    <3>1. \A v \in Workers : adding[v] # Absent => adding'[v] = adding[v]
      BY <1>2 DEF recordEnqueueAt, Types
    <3>2. adding'[w] = k
      BY <1>2 DEF recordEnqueueAt, Types
    <3>3. enqueuedAt' = enqueuedAt \cup {k} /\ UNCHANGED <<qvars, pc>>
      BY <1>2 DEF recordEnqueueAt
    <3>4. \A j \in enqueuedAt : j # Absent
      BY InstrumentedConstants DEF Types
    <3> QED
      BY <3>1, <3>2, <3>3, <3>4 DEF NoGhost
  <2>3. GaugeIsSize'
    BY <1>2, FS_AddElement DEF recordEnqueueAt, GaugeIsSize
  <2> QED
    BY <2>1, <2>2, <2>3
<1>3. CASE GetReturn(w)
  <2>1. Types'
    BY <1>3 DEF GetReturn, Queue!Leave, Types
  <2>2. NoGhost'
    BY <1>3 DEF GetReturn, Queue!Leave, Types, NoGhost
  <2> QED
    BY <1>3, <2>1, <2>2 DEF GetReturn, GaugeIsSize
<1>4. CASE GetShutdown(w)
  BY <1>4 DEF GetShutdown, Types, NoGhost, GaugeIsSize
<1>5. CASE recordDequeueAt(w)
  <2>1. Types'
    BY <1>5 DEF recordDequeueAt, Types
  <2>2. NoGhost'
    BY <1>5 DEF recordDequeueAt, Types, NoGhost
  <2>3. GaugeIsSize'
    <3>1. CASE holding[w] \in enqueuedAt
      BY <1>5, <3>1, FS_RemoveElement DEF recordDequeueAt, GaugeIsSize
    <3>2. CASE holding[w] \notin enqueuedAt
      <4>1. enqueuedAt' = enqueuedAt
        BY <1>5, <3>2 DEF recordDequeueAt
      <4> QED
        BY <1>5, <3>2, <4>1 DEF recordDequeueAt, GaugeIsSize
    <3> QED
      BY <3>1, <3>2
  <2> QED
    BY <2>1, <2>2, <2>3
<1>6. CASE AddWithOpts(w)
  <2>1. adding[w] \in Keys /\ QueueAdd(adding[w])
    BY <1>6 DEF AddWithOpts, Types
  <2>2. /\ adding' = [adding EXCEPT ![w] = Absent]
        /\ UNCHANGED <<enqueuedAt, depth, done, pc>>
    BY <1>6 DEF AddWithOpts
  <2>3. Types'
    BY <2>1, <2>2, QueueAddIsThere DEF Types
  <2>4. NoGhost'
    BY <2>1, <2>2, QueueAddIsThere DEF Types, NoGhost
  <2> QED
    BY <2>2, <2>3, <2>4 DEF GaugeIsSize
<1>7. CASE Done(w)
  <2>1. Types'
    BY <1>7 DEF Done, Queue!Return, Types
  <2>2. NoGhost'
    BY <1>7 DEF Done, Queue!Return, Types, NoGhost
  <2> QED
    BY <1>7, <2>1, <2>2 DEF Done, GaugeIsSize
<1>8. CASE Again(w)
  BY <1>8 DEF Again, Types, NoGhost, GaugeIsSize
<1> QED
  BY <1>1, <1>2, <1>3, <1>4, <1>5, <1>6, <1>7, <1>8 DEF Worker

\* Every step keeps the invariant.
LEMMA GhostStep == GhostInv /\ [Next]_vars => GhostInv'
<1> SUFFICES ASSUME GhostInv, [Next]_vars PROVE GhostInv'
  OBVIOUS
<1>1. CASE \E w \in Workers : Worker(w)
  BY <1>1, WorkerGhost
<1>2. CASE \E k \in Keys : InformerAdd(k)
  BY <1>2, InformerGhost
<1> USE DEF GhostInv, qvars, Types, NoGhost, GaugeIsSize
<1>3. CASE ShutDownLoop
  BY <1>3 DEF ShutDownLoop
<1>4. CASE ShutDownQueue
  BY <1>4 DEF ShutDownQueue, Queue!Close
<1>5. CASE UNCHANGED vars
  BY <1>5 DEF vars
<1> QED
  BY <1>1, <1>2, <1>3, <1>4, <1>5 DEF Next

\* The invariant holds throughout.
THEOREM InstrumentedInvariant == Spec => []GhostInv
  BY GhostInit, GhostStep, PTL DEF Spec

\* Every variable has its type; the depth gauge is never negative
\* (queue_instrumentation.go:164-188).
THEOREM InstrumentedTypes == Spec => []TypeOK
<1>1. GhostInv => TypeOK
  <2> SUFFICES ASSUME GhostInv PROVE TypeOK
    OBVIOUS
  <2>1. depth \in Nat
    BY FS_CardinalityType DEF GhostInv, GaugeIsSize
  <2> QED
    BY <2>1 DEF GhostInv, Types, TypeOK
<1> QED
  BY <1>1, InstrumentedInvariant, PTL

\* No order of the recording steps and the queue's steps leaves a stale entry
\* behind (queue_instrumentation.go:82-123).
THEOREM InstrumentedNoGhost == Spec => []NoGhost
<1>1. GhostInv => NoGhost
  BY DEF GhostInv
<1> QED
  BY <1>1, InstrumentedInvariant, PTL

(* The workers, the informer and the shutdown use the queue as KeyedQueue  *)
(* allows: seen through the variables of the queue, every step of the      *)
(* wrapper is a call of it or nothing (queue_instrumentation.go:82-123).   *)
THEOREM InstrumentedUsesQueue == Spec => Queue!Spec
<1>1. Init => Queue!Init
  BY DEF Init
<1>2. GhostInv /\ [Next]_vars => [Queue!Next]_qvars
  <2> SUFFICES ASSUME GhostInv, [Next]_vars PROVE Queue!Next \/ UNCHANGED qvars
    OBVIOUS
  <2>0. ASSUME NEW k \in Keys, QueueAdd(k) PROVE Queue!Next \/ UNCHANGED qvars
    BY <2>0 DEF QueueAdd, Queue!Next
  <2>1. ASSUME NEW w \in Workers, Worker(w) PROVE Queue!Next \/ UNCHANGED qvars
    <3>1. ASSUME NEW k \in Keys, GetItem(w, k) PROVE Queue!Next
      BY <3>1 DEF GetItem, Queue!Next
    <3>2. CASE GetReturn(w)
      BY <3>2 DEF GetReturn, Queue!Next
    <3>3. CASE AddWithOpts(w)
      <4>1. adding[w] \in Keys /\ QueueAdd(adding[w])
        BY <3>3 DEF AddWithOpts, GhostInv, Types
      <4> QED
        BY <2>0, <4>1
    <3>4. CASE Done(w)
      BY <3>4 DEF Done, Queue!Next
    <3>5. CASE (\E k \in Keys : recordEnqueueAt(w, k)) \/ GetShutdown(w)
               \/ recordDequeueAt(w) \/ Again(w)
      BY <3>5 DEF recordEnqueueAt, GetShutdown, recordDequeueAt, Again
    <3> QED
      BY <2>1, <3>1, <3>2, <3>3, <3>4, <3>5 DEF Worker
  <2>2. ASSUME NEW k \in Keys, InformerAdd(k) PROVE Queue!Next \/ UNCHANGED qvars
    BY <2>0, <2>2 DEF InformerAdd
  <2>3. CASE ShutDownLoop \/ UNCHANGED vars
    BY <2>3 DEF ShutDownLoop, vars
  <2>4. CASE ShutDownQueue
    BY <2>4 DEF ShutDownQueue, Queue!Next
  <2> QED
    BY <2>1, <2>2, <2>3, <2>4 DEF Next
<1> QED
  BY <1>1, <1>2, InstrumentedInvariant, PTL DEF Spec, Queue!Spec, qvars, Queue!qvars

=============================================================================
