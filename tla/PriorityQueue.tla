--------------------------- MODULE PriorityQueue ---------------------------
(***************************************************************************)
(* The generic priority queue of pkg/controller/priorityqueue.             *)
(*                                                                         *)
(* Three kinds of goroutine meet in it.  Callers of AddWithOpts (informer  *)
(* handlers and workers) insert keys.  Workers call GetWithPriority, park  *)
(* on the unbuffered channel get, process the key and call Done.  One      *)
(* goroutine, spin, walks the B-tree in the order of less and hands ready, *)
(* unlocked items to parked workers while it holds w.lock and              *)
(* w.lockedLock.  ShutDown races with all of them.                         *)
(*                                                                         *)
(* One action is one critical section or one atomic operation of the code. *)
(* The walk of spin is cut at every item, because the atomic counter       *)
(* waiters, the clock and the channels move while it holds the locks.      *)
(***************************************************************************)
EXTENDS Integers, FiniteSets

CONSTANTS
  Keys,        \* the comparable keys of the queue (events)
  Workers,     \* goroutines that loop over GetWithPriority and Done
  Adders,      \* goroutines that call AddWithOpts
  Priorities,  \* AddOpts.Priority
  Delays,      \* AddOpts.After, and what rateLimiter.When returns
  Absent,      \* "no entry", for the map items and for the pointers
  MaxAdds      \* bound: no call is made once addedCounter has reached it

\* A nil *time.Time.  Every readyAt the code computes is now + after > 0, and
\* less puts nil before every time, so 0 keeps the order and the test.
NilTime == 0

AddOpts == [key : Keys, priority : Priorities, after : Delays, rateLimited : BOOLEAN]

Item == [key : Keys, addedCounter : Nat, priority : Int, readyAt : Nat]

ASSUME QueueConstants ==
  /\ Priorities \subseteq Int
  /\ Delays \subseteq Nat
  /\ Absent \notin Item \cup [priority : Int, readyAt : Nat]
  /\ Absent \notin Keys
  /\ IsFiniteSet(Workers)
  /\ MaxAdds \in Nat

VARIABLES
  items,         \* map key -> item, Absent when there is no entry
  queue,         \* the B-tree, as the set of its items
  addedCounter,
  becameReady,   \* keys added with a delay whose delay has been seen to end
  locked,        \* keys handed out and not yet Done
  waiters,       \* atomic counter
  signal,        \* the one-slot channel itemOrWaiterAdded is full
  shutdown,      \* atomic flag
  done,          \* the channel done is closed
  now,           \* the clock
  spin,          \* where spin is: select, lock, ascend, offer, stopped
  nextReady,     \* the timer spin selects on; NilTime is blockForever
  rest,          \* items Ascend has still to visit
  toDelete,      \* items handed out in this pass
  pc,            \* per worker
  got,           \* per worker: the key GetWithPriority returned
  adding,        \* adders whose call waits for w.lock
  depth,         \* metrics: depthWithPriority
  addTimes,      \* metrics: keys of addTimes
  started        \* metrics: keys of processingStartTimes

tree == <<items, queue, addedCounter, becameReady>>
chans == <<shutdown, done>>
walk == <<spin, nextReady, rest, toDelete>>
metrics == <<depth, addTimes, started>>
vars == <<tree, locked, waiters, signal, chans, now, walk, pc, got, adding, metrics>>

Present == {k \in Keys : items[k] # Absent}
Ready(i) == i.readyAt <= now

\* spin holds w.lock and w.lockedLock from the start of a pass to its end.
LocksHeld == spin \in {"ascend", "offer"}

less(a, b) ==
  \/ a.readyAt < b.readyAt
  \/ a.readyAt = b.readyAt /\ a.priority > b.priority
  \/ /\ a.readyAt = b.readyAt
     /\ a.priority = b.priority
     /\ a.addedCounter < b.addedCounter

\* The next item of an ascending walk over the items of S.
First(S) == CHOOSE i \in S : \A j \in S \ {i} : less(i, j)

\* Len stops counting at the first item that is not ready.
Len == Cardinality({i \in queue : \A j \in queue : ~Ready(j) => less(i, j)})

Init ==
  /\ items = [k \in Keys |-> Absent]
  /\ queue = {}
  /\ addedCounter = 0
  /\ becameReady = {}
  /\ locked = {}
  /\ waiters = 0
  /\ signal = FALSE
  /\ shutdown = FALSE
  /\ done = FALSE
  /\ now = 0
  /\ spin = "select"
  /\ nextReady = NilTime
  /\ rest = {}
  /\ toDelete = {}
  /\ pc = [w \in Workers |-> "idle"]
  /\ got = [w \in Workers |-> Absent]
  /\ adding = {}
  /\ depth = [p \in Priorities |-> 0]
  /\ addTimes = {}
  /\ started = {}

-----------------------------------------------------------------------------
(* Metrics: what add, get and updateDepthWithPriorityMetric do to depth.   *)

Inc(d, p) == [d EXCEPT ![p] = @ + 1]
Dec(d, p) == [d EXCEPT ![p] = @ - 1]

\* An item is in the depth metric when it was added without a delay, or spin
\* has seen its delay end.
\* Mutant: forgets the items spin has already counted.
CountedFresh(k) == items[k].readyAt = NilTime

Counted(k) == items[k].readyAt = NilTime \/ k \in becameReady

\* Mutant: the notification is lost.
notifyNobody == UNCHANGED signal

\* A non-blocking send on the one-slot channel.
notifyItemOrWaiterAdded == signal' = TRUE

\* Mutant: the changed item is put back without the old one being deleted.
ReinsertOnly(q, old, item) == q \cup {item}

\* The B-tree delete and re-add around a change to an item.
Reinsert(q, old, item) == (q \ {old}) \cup {item}

-----------------------------------------------------------------------------
(* AddWithOpts                                                             *)

\* The shutdown flag is read before w.lock is asked for: a call that passed
\* the test may insert its item after ShutDown.
AddCall(a) ==
  /\ a \notin adding
  /\ ~shutdown
  /\ addedCounter < MaxAdds
  /\ adding' = adding \cup {a}
  /\ UNCHANGED <<tree, locked, waiters, signal, chans, now, walk, pc, got, metrics>>

\* The delay of a call o when the limiter answers rlAfter.
After(o, rlAfter) ==
  IF o.rateLimited /\ (o.after = 0 \/ rlAfter < o.after) THEN rlAfter ELSE o.after

AddNew(o, readyAt) ==
  LET item == [key |-> o.key, addedCounter |-> addedCounter,
               priority |-> o.priority, readyAt |-> readyAt]
  IN /\ items[o.key] = Absent
     /\ items' = [items EXCEPT ![o.key] = item]
     /\ queue' = queue \cup {item}
     /\ addedCounter' = addedCounter + 1
     /\ IF readyAt = NilTime
        THEN /\ depth' = Inc(depth, o.priority)
             /\ addTimes' = addTimes \cup {o.key}
        ELSE UNCHANGED <<depth, addTimes>>

\* Mutant: the last priority wins.
RaisedAlways(o, old) == o.priority # old.priority

Raised(o, old) == o.priority > old.priority

\* A key already queued keeps its place in the map; its item is taken out of
\* the tree, changed and put back.
AddExisting(o, readyAt) ==
  LET old     == items[o.key]
      raised  == Raised(o, old)
      sooner  == old.readyAt # NilTime /\ readyAt < old.readyAt
      counted == Counted(o.key)
      item    == [old EXCEPT !.priority = IF raised THEN o.priority ELSE @,
                             !.readyAt  = IF sooner THEN readyAt ELSE @]
  IN /\ old # Absent
     /\ items' = [items EXCEPT ![o.key] = item]
     /\ queue' = Reinsert(queue, old, item)
     /\ addedCounter' = addedCounter
     /\ depth' = IF counted
                 THEN IF raised THEN Inc(Dec(depth, old.priority), o.priority) ELSE depth
                 ELSE IF readyAt = NilTime THEN Inc(depth, item.priority) ELSE depth
     /\ addTimes' = IF ~counted /\ readyAt = NilTime
                    THEN addTimes \cup {o.key} ELSE addTimes

\* The arguments of a waiting call are chosen when it runs; nothing can observe
\* them earlier.
AddLocked(a) ==
  /\ a \in adding
  /\ ~LocksHeld
  /\ \E o \in AddOpts, rlAfter \in Delays :
       LET after   == After(o, rlAfter)
           readyAt == IF after > 0 THEN now + after ELSE NilTime
       IN AddNew(o, readyAt) \/ AddExisting(o, readyAt)
  /\ notifyItemOrWaiterAdded
  /\ adding' = adding \ {a}
  /\ UNCHANGED <<becameReady, locked, waiters, chans, now, walk, pc, got, started>>

-----------------------------------------------------------------------------
(* spin                                                                    *)

SpinStop ==
  /\ spin = "select"
  /\ done
  /\ spin' = "stopped"
  /\ UNCHANGED <<tree, locked, waiters, signal, chans, now, nextReady, rest,
                 toDelete, pc, got, adding, metrics>>

\* A receive from itemOrWaiterAdded, or the timer.
SpinWake ==
  /\ spin = "select"
  /\ \/ signal /\ signal' = FALSE
     \/ nextReady # NilTime /\ nextReady <= now /\ UNCHANGED signal
  /\ nextReady' = NilTime
  /\ spin' = "lock"
  /\ UNCHANGED <<tree, locked, waiters, chans, now, rest, toDelete, pc, got,
                 adding, metrics>>

SpinLock ==
  /\ spin = "lock"
  /\ spin' = "ascend"
  /\ rest' = queue
  /\ UNCHANGED <<tree, locked, waiters, signal, chans, now, nextReady, toDelete,
                 pc, got, adding, metrics>>

\* Mutant: the walk stops without arming the timer.
VisitUnreadyNoTimer ==
  /\ spin = "ascend"
  /\ rest # {}
  /\ ~Ready(First(rest))
  /\ rest' = {}
  /\ UNCHANGED <<tree, locked, waiters, signal, chans, now, spin, nextReady, toDelete,
                 pc, got, adding, metrics>>

\* The walk meets an item that is not ready: set the timer and stop.
VisitUnready ==
  /\ spin = "ascend"
  /\ rest # {}
  /\ ~Ready(First(rest))
  /\ nextReady' = First(rest).readyAt
  /\ rest' = {}
  /\ UNCHANGED <<tree, locked, waiters, signal, chans, now, spin, toDelete, pc,
                 got, adding, metrics>>

\* metrics.add for an item whose delay ended and that was not yet counted.
NewlyReady(i) == i.readyAt # NilTime /\ i.key \notin becameReady

\* Mutant: a key that a worker still has is offered again.
PassOverNoWaiter(i) == waiters = 0

\* Nobody waits, or a worker still has the key.
PassOver(i) == waiters = 0 \/ i.key \in locked

\* Mutant: the item that was handed out keeps its waiter counted.
KeepWaiter == UNCHANGED waiters

TakeWaiter == waiters' = waiters - 1

\* Count the item and walk on.
VisitSkip ==
  LET i == First(rest)
  IN /\ spin = "ascend"
     /\ rest # {}
     /\ Ready(i)
     /\ PassOver(i)
     /\ IF NewlyReady(i)
        THEN /\ depth' = Inc(depth, i.priority)
             /\ addTimes' = addTimes \cup {i.key}
             /\ becameReady' = becameReady \cup {i.key}
        ELSE UNCHANGED <<depth, addTimes, becameReady>>
     /\ rest' = rest \ {i}
     /\ UNCHANGED <<items, queue, addedCounter, locked, waiters, signal, chans, now,
                    spin, nextReady, toDelete, pc, got, adding, started>>

\* Lock the item, take it out of the map and start the send on get.
VisitOffer ==
  LET i == First(rest)
  IN /\ spin = "ascend"
     /\ rest # {}
     /\ Ready(i)
     /\ ~PassOver(i)
     /\ depth' = Dec(IF NewlyReady(i) THEN Inc(depth, i.priority) ELSE depth, i.priority)
     /\ addTimes' = addTimes \ {i.key}
     /\ started' = started \cup {i.key}
     /\ becameReady' = becameReady \ {i.key}
     /\ locked' = locked \cup {i.key}
     /\ TakeWaiter
     /\ items' = [items EXCEPT ![i.key] = Absent]
     /\ toDelete' = toDelete \cup {i}
     /\ spin' = "offer"
     /\ UNCHANGED <<queue, addedCounter, signal, chans, now, nextReady, rest, pc,
                    got, adding>>

\* The send on get meets a parked worker.
HandOff(w) ==
  /\ spin = "offer"
  /\ pc[w] = "parked"
  /\ pc' = [pc EXCEPT ![w] = "received"]
  /\ got' = [got EXCEPT ![w] = First(rest).key]
  /\ rest' = rest \ {First(rest)}
  /\ spin' = "ascend"
  /\ UNCHANGED <<tree, locked, waiters, signal, chans, now, nextReady, toDelete,
                 adding, metrics>>

\* Mutant: the send on get is not selectable on done.
NeverAbandon == FALSE /\ UNCHANGED vars

\* The queue was shut down: give the send up and end the walk.
Abandon ==
  /\ spin = "offer"
  /\ done
  /\ rest' = {}
  /\ spin' = "ascend"
  /\ UNCHANGED <<tree, locked, waiters, signal, chans, now, nextReady, toDelete,
                 pc, got, adding, metrics>>

\* After the walk: delete what was handed out and release both locks.
SpinUnlock ==
  /\ spin = "ascend"
  /\ rest = {}
  /\ queue' = queue \ toDelete
  /\ toDelete' = {}
  /\ spin' = "select"
  /\ UNCHANGED <<items, addedCounter, becameReady, locked, waiters, signal, chans,
                 now, nextReady, rest, pc, got, adding, metrics>>

-----------------------------------------------------------------------------
(* GetWithPriority, Done and ShutDown                                      *)

GetCheck(w) ==
  /\ pc[w] = "idle"
  /\ pc' = [pc EXCEPT ![w] = IF shutdown THEN "exited" ELSE "entering"]
  /\ UNCHANGED <<tree, locked, waiters, signal, chans, now, walk, got, adding, metrics>>

GetWait(w) ==
  /\ pc[w] = "entering"
  /\ waiters' = waiters + 1
  /\ pc' = [pc EXCEPT ![w] = "announcing"]
  /\ UNCHANGED <<tree, locked, signal, chans, now, walk, got, adding, metrics>>

\* Mutant: the queue is not told of the new waiter.
GetNotifyNobody(w) ==
  /\ pc[w] = "announcing"
  /\ UNCHANGED signal
  /\ pc' = [pc EXCEPT ![w] = "parked"]
  /\ UNCHANGED <<tree, locked, waiters, chans, now, walk, got, adding, metrics>>

GetNotify(w) ==
  /\ pc[w] = "announcing"
  /\ notifyItemOrWaiterAdded
  /\ pc' = [pc EXCEPT ![w] = "parked"]
  /\ UNCHANGED <<tree, locked, waiters, chans, now, walk, got, adding, metrics>>

\* The branch on done; waiters is deliberately left as it is.
GetWoken(w) ==
  /\ pc[w] = "parked"
  /\ done
  /\ pc' = [pc EXCEPT ![w] = "exited"]
  /\ UNCHANGED <<tree, locked, waiters, signal, chans, now, walk, got, adding, metrics>>

\* The flag returned with the item: a worker that sees it stops at once, so the
\* item it was given stays locked and is dropped.
GetReturn(w) ==
  /\ pc[w] = "received"
  /\ pc' = [pc EXCEPT ![w] = IF shutdown THEN "exited" ELSE "working"]
  /\ got' = [got EXCEPT ![w] = IF shutdown THEN Absent ELSE @]
  /\ UNCHANGED <<tree, locked, waiters, signal, chans, now, walk, adding, metrics>>

\* Mutant: the key is not unlocked.
DoneKeepsLock(w) ==
  /\ pc[w] = "working"
  /\ ~LocksHeld
  /\ started' = started \ {got[w]}
  /\ notifyItemOrWaiterAdded
  /\ pc' = [pc EXCEPT ![w] = "idle"]
  /\ got' = [got EXCEPT ![w] = Absent]
  /\ UNCHANGED <<tree, locked, waiters, chans, now, walk, adding, depth, addTimes>>

Done(w) ==
  /\ pc[w] = "working"
  /\ ~LocksHeld
  /\ locked' = locked \ {got[w]}
  /\ started' = started \ {got[w]}
  /\ notifyItemOrWaiterAdded
  /\ pc' = [pc EXCEPT ![w] = "idle"]
  /\ got' = [got EXCEPT ![w] = Absent]
  /\ UNCHANGED <<tree, waiters, chans, now, walk, adding, depth, addTimes>>

\* ShutDown: the CompareAndSwap lets one caller through, which closes done.
ShutDownFlag ==
  /\ ~shutdown
  /\ shutdown' = TRUE
  /\ UNCHANGED <<tree, locked, waiters, signal, done, now, walk, pc, got, adding, metrics>>

ShutDownClose ==
  /\ shutdown
  /\ ~done
  /\ done' = TRUE
  /\ UNCHANGED <<tree, locked, waiters, signal, shutdown, now, walk, pc, got, adding, metrics>>

\* Time is observable only through a delay that has not ended yet.
Tick ==
  /\ \E k \in Present : ~Ready(items[k])
  /\ now' = now + 1
  /\ UNCHANGED <<tree, locked, waiters, signal, chans, walk, pc, got, adding, metrics>>

\* Everything has stopped: the only state in which the system may stay.
Stopped ==
  /\ done
  /\ spin = "stopped"
  /\ \A w \in Workers : pc[w] = "exited"
  /\ adding = {}

Terminated == Stopped /\ UNCHANGED vars

Spin ==
  \/ SpinStop
  \/ SpinWake
  \/ SpinLock
  \/ VisitUnready
  \/ VisitSkip
  \/ VisitOffer
  \/ Abandon
  \/ SpinUnlock

Worker(w) ==
  \/ GetCheck(w)
  \/ GetWait(w)
  \/ GetNotify(w)
  \/ HandOff(w)
  \/ GetWoken(w)
  \/ GetReturn(w)
  \/ Done(w)

Next ==
  \/ Spin
  \/ \E w \in Workers : Worker(w)
  \/ \E a \in Adders : AddCall(a) \/ AddLocked(a)
  \/ ShutDownFlag
  \/ ShutDownClose
  \/ Tick
  \/ Terminated

Spec == Init /\ [][Next]_vars

\* Goroutines that can run do run, workers finish what they were given, and
\* time passes.  Nothing forces an AddWithOpts call or a ShutDown to be made.
Fairness ==
  /\ WF_vars(Spin)
  /\ \A w \in Workers : WF_vars(Worker(w))
  /\ \A a \in Adders : WF_vars(AddLocked(a))
  /\ WF_vars(ShutDownClose)
  /\ WF_vars(Tick)

FairSpec == Spec /\ Fairness

-----------------------------------------------------------------------------
(* Properties                                                              *)

\* The item whose send on get is pending, as a set of at most one key.
OnOffer == IF spin = "offer" THEN {First(rest).key} ELSE {}

Held == {got[w] : w \in {v \in Workers : got[v] # Absent}}

\* The type of every variable.  waiters, which spin decrements, never goes below
\* zero, and the walk only visits items of the tree.
TypeOK ==
  /\ items \in [Keys -> Item \cup {Absent}]
  /\ queue \subseteq Item
  /\ addedCounter \in Nat
  /\ becameReady \subseteq Keys
  /\ locked \subseteq Keys
  /\ waiters \in Nat
  /\ signal \in BOOLEAN
  /\ shutdown \in BOOLEAN
  /\ done \in BOOLEAN
  /\ now \in Nat
  /\ spin \in {"select", "lock", "ascend", "offer", "stopped"}
  /\ nextReady \in Nat
  /\ rest \subseteq queue
  /\ toDelete \subseteq Item
  /\ pc \in [Workers -> {"idle", "entering", "announcing", "parked", "received",
                          "working", "exited"}]
  /\ got \in [Workers -> Keys \cup {Absent}]
  /\ adding \subseteq Adders
  /\ depth \in [Priorities -> Int]
  /\ addTimes \subseteq Keys
  /\ started \subseteq Keys

\* "An item is never handed out again before it is returned"
\* (priorityqueue_test.go:579): two workers never have the same key, and a key
\* that a worker has, or that is being sent to one, is locked.
ExclusiveHandout ==
  /\ \A v, w \in Workers : v # w /\ got[v] # Absent => got[v] # got[w]
  /\ Held \cup OnOffer \subseteq locked
  /\ Held \cap OnOffer = {}

\* Until the queue is shut down no key stays locked without somebody who will
\* call Done for it: the abandoned hand-off of spin and the item dropped by a
\* worker that sees the flag happen only at shutdown.
NoOrphanLock == shutdown \/ locked = Held \cup OnOffer

\* The map and the B-tree hold the same items: the delete and re-add of
\* AddWithOpts and the deletes spin postpones to the end of its pass neither
\* lose nor duplicate one.
MapMatchesTree ==
  queue = {items[k] : k \in Present} \cup toDelete

\* "add is called for ready items only" and "exactly once" (metrics.go:77,
\* priorityqueue.go:107): the depth metric of each priority is the number of
\* its counted items, and addTimes holds exactly the counted keys.
DepthIsExact ==
  /\ \A p \in Priorities :
       depth[p] = Cardinality({k \in Present : Counted(k) /\ items[k].priority = p})
  /\ addTimes = {k \in Present : Counted(k)}
  /\ becameReady \subseteq Present
  /\ started = locked

\* Until shutdown waiters counts the workers between the increment and the
\* receive, less the one a pending send is meant for.
WaitersAreExact ==
  ~done => waiters + Cardinality(OnOffer)
             = Cardinality({w \in Workers : pc[w] \in {"announcing", "parked"}})

\* No lost wakeup: when spin sleeps although a worker waits, each queued key is
\* locked by a worker, or spin has a notification to receive, or its timer is
\* set no later than the time the item becomes ready.
NoLostWakeup ==
  spin = "select" /\ ~done /\ waiters > 0 =>
    \A k \in Present :
      \/ k \in locked
      \/ signal
      \/ \E w \in Workers : pc[w] = "announcing"
      \/ nextReady # NilTime /\ nextReady <= items[k].readyAt

\* A worker that starts to wait while spin is on its way may be handed an item
\* although spin has passed one that less puts before it.  That is all the
\* disorder there is: an item passed over for a later one is locked by a worker,
\* or a notification is under way that sends spin through the tree once more.
OrderIsKept ==
  [][VisitOffer => \A k \in Present :
       less(items[k], First(rest)) =>
         k \in locked \/ signal \/ \E w \in Workers : pc[w] = "announcing"]_vars

\* spin sends an item while it holds both locks, and the send has somebody to
\* receive it: until done is closed, a worker is parked or about to park.
OfferIsTaken ==
  spin = "offer" /\ ~done => \E w \in Workers : pc[w] \in {"announcing", "parked"}

\* Len, which stops at the first item that is not ready, counts every ready
\* item (priorityqueue.go:370).
LenCountsReady == ~LocksHeld => Len = Cardinality({i \in queue : Ready(i)})

\* A queued key is handed out, unless the queue is shut down.
QueuedIsDelivered ==
  \A k \in Keys : k \in Present ~> (k \notin Present \/ shutdown)

\* ShutDown never wedges: every worker leaves GetWithPriority, every blocked
\* AddWithOpts returns and spin stops (drain_test.go:36).
ShutdownCompletes == shutdown ~> Stopped

\* "so patient work never crowds out user actions" (docs/overview.md:87): an
\* item is not handed out while one of higher priority is ready and unlocked.
PatientWorkYields ==
  [][VisitOffer => \A k \in Present :
       Ready(items[k]) /\ k \notin locked => items[k].priority <= First(rest).priority]_vars

-----------------------------------------------------------------------------
(* Refinement                                                              *)

\* An item whose send is pending has left the map but no worker has it yet: to
\* the callers it is still queued.
Queued(k) == IF k \in OnOffer THEN First(rest) ELSE items[k]

Pending ==
  [k \in Keys |-> IF Queued(k) = Absent THEN Absent
                  ELSE [priority |-> Queued(k).priority, readyAt |-> Queued(k).readyAt]]

Abstract == INSTANCE KeyedQueue WITH
  pending <- Pending,
  busy    <- locked \ OnOffer,
  holding <- got,
  closed  <- shutdown,
  clock   <- now

\* The queue implements KeyedQueue: every interleaving of callers, spin, workers
\* and shutdown looks to the callers like single steps of that specification.
ImplementsKeyedQueue == Abstract!Spec

=============================================================================
