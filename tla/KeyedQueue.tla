----------------------------- MODULE KeyedQueue -----------------------------
(***************************************************************************)
(* What the priority queue promises its callers, without its B-tree, its   *)
(* locks, its channels and its spin goroutine:                             *)
(*   - a key is pending at most once, with "the max of the passed          *)
(*     priorities and the min of possible durations"                       *)
(*     (priorityqueue.go:25-28);                                           *)
(*   - a worker is given a key that is pending, whose delay has ended and  *)
(*     that nobody has been given since it was last returned;              *)
(*   - a key added while it is busy stays pending for a later hand-out;    *)
(*   - a key is lost only once the queue is closed.                        *)
(***************************************************************************)
EXTENDS Integers

CONSTANTS Keys, Workers, Priorities, Delays, Absent

VARIABLES
  pending,   \* key -> [priority, readyAt], or Absent
  busy,      \* keys given out and not returned
  holding,   \* worker -> key, or Absent
  closed,
  clock

qvars == <<pending, busy, holding, closed, clock>>

\* readyAt = 0 stands for "at once".
Entry(p, d) == [priority |-> p, readyAt |-> IF d = 0 THEN 0 ELSE clock + d]

Later(a, b) == IF a > b THEN a ELSE b
Sooner(a, b) == IF a < b THEN a ELSE b

Merge(old, new) ==
  IF old = Absent THEN new
  ELSE [priority |-> Later(old.priority, new.priority),
        readyAt  |-> Sooner(old.readyAt, new.readyAt)]

Init ==
  /\ pending = [k \in Keys |-> Absent]
  /\ busy = {}
  /\ holding = [w \in Workers |-> Absent]
  /\ closed = FALSE
  /\ clock = 0

Add(k, p, d) ==
  /\ pending' = [pending EXCEPT ![k] = Merge(pending[k], Entry(p, d))]
  /\ UNCHANGED <<busy, holding, closed, clock>>

Take(w, k) ==
  /\ holding[w] = Absent
  /\ pending[k] # Absent
  /\ pending[k].readyAt <= clock
  /\ k \notin busy
  /\ pending' = [pending EXCEPT ![k] = Absent]
  /\ busy' = busy \cup {k}
  /\ holding' = [holding EXCEPT ![w] = k]
  /\ UNCHANGED <<closed, clock>>

Return(w) ==
  /\ holding[w] # Absent
  /\ busy' = busy \ {holding[w]}
  /\ holding' = [holding EXCEPT ![w] = Absent]
  /\ UNCHANGED <<pending, closed, clock>>

\* A closed queue may drop a key on its way to a worker.
Drop(k) ==
  /\ closed
  /\ pending[k] # Absent
  /\ k \notin busy
  /\ pending' = [pending EXCEPT ![k] = Absent]
  /\ busy' = busy \cup {k}
  /\ UNCHANGED <<holding, closed, clock>>

\* A worker that learns that the queue is closed keeps its key busy for ever.
Leave(w) ==
  /\ closed
  /\ holding' = [holding EXCEPT ![w] = Absent]
  /\ UNCHANGED <<pending, busy, closed, clock>>

Close ==
  /\ closed' = TRUE
  /\ UNCHANGED <<pending, busy, holding, clock>>

Advance ==
  /\ clock' = clock + 1
  /\ UNCHANGED <<pending, busy, holding, closed>>

Next ==
  \/ \E k \in Keys, p \in Priorities, d \in Delays : Add(k, p, d)
  \/ \E k \in Keys : Drop(k) \/ \E w \in Workers : Take(w, k)
  \/ \E w \in Workers : Return(w) \/ Leave(w)
  \/ Close
  \/ Advance

Spec == Init /\ [][Next]_qvars

=============================================================================
