-------------------------- MODULE InstrumentedQueue --------------------------
(***************************************************************************)
(* InstrumentedQueue of pkg/controller/queue_instrumentation.go: the       *)
(* wrapper that keeps the queue-depth and oldest-item gauges beside the    *)
(* queue, as the controller uses it.                                       *)
(*                                                                         *)
(* The wrapper has a lock of its own, which is not held across the call of *)
(* the queue: an item is recorded before it is added and forgotten after   *)
(* it was taken, and any other step may come between.  The workers use the *)
(* wrapper; the informer's handlers, which were given the queue before it  *)
(* was wrapped (controller.go:174-257), do not.                            *)
(*                                                                         *)
(* The wrapped queue is KeyedQueue, which PriorityQueue implements; delays *)
(* and priorities do not matter to the gauges.                             *)
(***************************************************************************)
EXTENDS Integers, FiniteSets

CONSTANTS Keys, Workers, Absent

ASSUME InstrumentedConstants == Absent \notin Keys \cup [priority : {0}, readyAt : {0}]

VARIABLES
  pending, busy, holding, closed, clock,   \* the queue: see KeyedQueue
  enqueuedAt,  \* the keys of the map enqueuedAt
  depth,       \* the queue-depth gauge
  done,        \* the channel that ends the oldest-item loop is closed
  pc,          \* per worker
  adding       \* per worker: the item it has recorded and not yet added

qvars == <<pending, busy, holding, closed, clock>>
vars == <<qvars, enqueuedAt, depth, done, pc, adding>>

Queue == INSTANCE KeyedQueue WITH Priorities <- {0}, Delays <- {0}

Init ==
  /\ Queue!Init
  /\ enqueuedAt = {}
  /\ depth = 0
  /\ done = FALSE
  /\ pc = [w \in Workers |-> "get"]
  /\ adding = [w \in Workers |-> Absent]

\* The wrapped AddWithOpts: a queue that is shut down accepts nothing.
QueueAdd(k) == IF closed THEN UNCHANGED qvars ELSE Queue!Add(k, 0, 0)

InformerAdd(k) ==
  /\ QueueAdd(k)
  /\ UNCHANGED <<enqueuedAt, depth, done, pc, adding>>

-----------------------------------------------------------------------------
(* GetWithPriority                                                         *)

Goto(w, label) == pc' = [pc EXCEPT ![w] = label]

GetItem(w, k) ==
  /\ pc[w] = "get"
  /\ Queue!Take(w, k)
  /\ Goto(w, "got")
  /\ UNCHANGED <<enqueuedAt, depth, done, adding>>

\* The wrapped queue returns the item with its shutdown flag.
GetReturn(w) ==
  /\ pc[w] = "got"
  /\ IF closed
     THEN Queue!Leave(w) /\ Goto(w, "exited")
     ELSE UNCHANGED qvars /\ Goto(w, "dequeue")
  /\ UNCHANGED <<enqueuedAt, depth, done, adding>>

GetShutdown(w) ==
  /\ pc[w] = "get"
  /\ closed
  /\ Goto(w, "exited")
  /\ UNCHANGED <<qvars, enqueuedAt, depth, done, adding>>

\* Mutant: the item stays recorded.
recordDequeueAtNot(w) ==
  /\ pc[w] = "dequeue"
  /\ Goto(w, "working")
  /\ UNCHANGED <<qvars, enqueuedAt, depth, done, adding>>

recordDequeueAt(w) ==
  /\ pc[w] = "dequeue"
  /\ enqueuedAt' = enqueuedAt \ {holding[w]}
  /\ depth' = IF holding[w] \in enqueuedAt THEN depth - 1 ELSE depth
  /\ Goto(w, "working")
  /\ UNCHANGED <<qvars, done, adding>>

-----------------------------------------------------------------------------
(* AddWithOpts and Done, by a worker                                       *)

\* A worker queues follow-ups while it has its item, a retry after Done.
recordEnqueueAt(w, k) ==
  /\ pc[w] \in {"working", "done"}
  /\ adding[w] = Absent
  /\ enqueuedAt' = enqueuedAt \cup {k}
  /\ depth' = IF k \in enqueuedAt THEN depth ELSE depth + 1
  /\ adding' = [adding EXCEPT ![w] = k]
  /\ UNCHANGED <<qvars, done, pc>>

AddWithOpts(w) ==
  /\ adding[w] # Absent
  /\ QueueAdd(adding[w])
  /\ adding' = [adding EXCEPT ![w] = Absent]
  /\ UNCHANGED <<enqueuedAt, depth, done, pc>>

Done(w) ==
  /\ pc[w] = "working"
  /\ adding[w] = Absent
  /\ Queue!Return(w)
  /\ Goto(w, "done")
  /\ UNCHANGED <<enqueuedAt, depth, done, adding>>

Again(w) ==
  /\ pc[w] = "done"
  /\ adding[w] = Absent
  /\ Goto(w, "get")
  /\ UNCHANGED <<qvars, enqueuedAt, depth, done, adding>>

-----------------------------------------------------------------------------
(* ShutDown: first the loop, then the queue                                *)

ShutDownLoop ==
  /\ ~done
  /\ done' = TRUE
  /\ UNCHANGED <<qvars, enqueuedAt, depth, pc, adding>>

ShutDownQueue ==
  /\ done
  /\ ~closed
  /\ Queue!Close
  /\ UNCHANGED <<enqueuedAt, depth, done, pc, adding>>

Worker(w) ==
  \/ \E k \in Keys : GetItem(w, k) \/ recordEnqueueAt(w, k)
  \/ GetReturn(w)
  \/ GetShutdown(w)
  \/ recordDequeueAt(w)
  \/ AddWithOpts(w)
  \/ Done(w)
  \/ Again(w)

Next ==
  \/ \E w \in Workers : Worker(w)
  \/ \E k \in Keys : InformerAdd(k)
  \/ ShutDownLoop
  \/ ShutDownQueue

Spec == Init /\ [][Next]_vars

-----------------------------------------------------------------------------
(* Properties                                                              *)

\* The type of every variable; the depth gauge is never negative.
TypeOK ==
  /\ pending \in [Keys -> [priority : {0}, readyAt : {0}] \cup {Absent}]
  /\ busy \subseteq Keys
  /\ holding \in [Workers -> Keys \cup {Absent}]
  /\ {closed, done} \subseteq BOOLEAN
  /\ clock = 0
  /\ enqueuedAt \subseteq Keys
  /\ depth \in Nat
  /\ pc \in [Workers -> {"get", "got", "dequeue", "working", "done", "exited"}]
  /\ adding \in [Workers -> Keys \cup {Absent}]

\* An item that the gauges count is in the queue, on its way into it or on its
\* way out of it, until the queue is shut down: no order of the unsynchronised
\* steps leaves an entry behind whose age would grow for ever.
NoGhost ==
  \A k \in enqueuedAt :
    \/ closed
    \/ pending[k] # Absent
    \/ \E w \in Workers : adding[w] = k
    \/ \E w \in Workers : pc[w] \in {"got", "dequeue"} /\ holding[w] = k

\* "queue depth" (docs/overview.md:223; "adds items with options and records
\* queue depth", queue_instrumentation.go:87): when nobody is in the middle of a
\* call, the gauge is the number of items that wait in the queue.
DepthIsQueued ==
  ~closed /\ (\A w \in Workers : adding[w] = Absent /\ pc[w] \notin {"got", "dequeue"}) =>
    depth = Cardinality({k \in Keys : pending[k] # Absent})

=============================================================================
