------------------------- MODULE PriorityQueueProofs -------------------------
(***************************************************************************)
(* Proofs about PriorityQueue, for every set of keys, workers, callers,    *)
(* priorities and delays.                                                  *)
(***************************************************************************)
EXTENDS PriorityQueue, FiniteSetTheorems, WellFoundedInduction, TLAPS

-----------------------------------------------------------------------------
(* The order of the tree                                                   *)

\* addedCounter tells the items of S apart.
Distinct(S) == \A i, j \in S : i.addedCounter = j.addedCounter => i = j

HasFirst(S) == \E i \in S : \A j \in S \ {i} : less(i, j)

\* less, the comparison of the B-tree, is transitive.
LEMMA LessTransitive ==
  ASSUME NEW a \in Item, NEW b \in Item, NEW c \in Item, less(a, b), less(b, c)
  PROVE  less(a, c)
BY DEF less, Item

\* less orders any two items of different addedCounter.
LEMMA LessTotal ==
  ASSUME NEW a \in Item, NEW b \in Item, a.addedCounter # b.addedCounter
  PROVE  less(a, b) \/ less(b, a)
BY DEF less, Item

\* A tree that is not empty has a first item: Ascend always has a next item to
\* visit.
LEMMA FirstExists ==
  ASSUME NEW S, S \subseteq Item, IsFiniteSet(S), S # {}, Distinct(S)
  PROVE  HasFirst(S)
<1> DEFINE Fin == FiniteSubsetsOf(Item)
           Bad == {T \in Fin : T # {} /\ Distinct(T) /\ ~HasFirst(T)}
<1>1. SUFFICES ASSUME S \in Bad PROVE FALSE
  BY DEF FiniteSubsetsOf
<1>2. PICK T \in Bad : \A U \in Bad : ~(<<U, T>> \in StrictSubsetOrdering(Item))
  <2>1. IsWellFoundedOn(StrictSubsetOrdering(Item), Fin)
    BY FS_StrictSubsetOrderingWellFounded
  <2>2. Bad \subseteq Fin /\ Bad # {}
    BY <1>1
  <2> QED
    BY <2>1, <2>2, WFMin, Zenon
<1>3. T \subseteq Item /\ IsFiniteSet(T) /\ T # {} /\ Distinct(T) /\ ~HasFirst(T)
  BY <1>2 DEF FiniteSubsetsOf
<1>4. PICK x \in T : TRUE
  BY <1>3
<1> DEFINE U == T \ {x}
<1>5. U # {}
  BY <1>3, <1>4 DEF HasFirst
<1>6. HasFirst(U)
  <2>1. U \in Fin
    BY <1>3, FS_RemoveElement DEF FiniteSubsetsOf
  <2>2. <<U, T>> \in StrictSubsetOrdering(Item)
    BY <1>3, <1>4 DEF StrictSubsetOrdering
  <2>3. Distinct(U)
    BY <1>3 DEF Distinct
  <2> QED
    BY <1>2, <1>5, <2>1, <2>2, <2>3
<1>7. PICK m \in U : \A j \in U \ {m} : less(m, j)
  BY <1>6 DEF HasFirst
<1>8. m \in Item /\ x \in Item /\ m # x /\ m.addedCounter # x.addedCounter
  BY <1>3, <1>4, <1>7 DEF Distinct
<1>9. CASE less(m, x)
  <2>1. \A j \in T \ {m} : less(m, j)
    BY <1>7, <1>9
  <2> QED
    BY <1>3, <1>7, <2>1 DEF HasFirst
<1>10. CASE less(x, m)
  <2>1. ASSUME NEW j \in T \ {x} PROVE less(x, j)
    <3>1. CASE j = m
      BY <1>10, <3>1
    <3>2. CASE j # m
      <4>1. less(m, j) /\ j \in Item
        BY <1>3, <1>7, <2>1, <3>2
      <4> QED
        BY <1>8, <1>10, <4>1, LessTransitive
    <3> QED
      BY <3>1, <3>2
  <2> QED
    BY <1>3, <1>4, <2>1 DEF HasFirst
<1> QED
  BY <1>8, <1>9, <1>10, LessTotal

\* First picks an item of the set it is given.
LEMMA FirstIsIn ==
  ASSUME NEW S, S \subseteq Item, IsFiniteSet(S), S # {}, Distinct(S)
  PROVE  First(S) \in S
BY FirstExists DEF HasFirst, First

-----------------------------------------------------------------------------
(* The inductive invariant                                                 *)

\* The tree is finite, addedCounter tells its items apart, and it holds what the
\* map holds and what the walk still has to delete.
TreeInv ==
  /\ IsFiniteSet(queue)
  /\ Distinct(queue)
  /\ \A i \in queue : i.addedCounter < addedCounter
  /\ \A k \in Present : items[k].key = k
  /\ MapMatchesTree

\* Outside a pass there is nothing to visit and nothing to delete.  Within one,
\* the items still to visit are in the map, except the one on offer.
WalkInv ==
  /\ ~LocksHeld => rest = {} /\ toDelete = {}
  /\ spin = "offer" => rest # {} /\ Ready(First(rest)) /\ First(rest) \in toDelete
  /\ \A i \in rest : items[i.key] = i \/ (spin = "offer" /\ i = First(rest))
  /\ \A i \in toDelete : items[i.key] = Absent

\* A worker has a key exactly while it is between the receive and Done.
HandInv ==
  /\ \A w \in Workers : got[w] # Absent <=> pc[w] \in {"received", "working"}
  /\ ExclusiveHandout
  /\ NoOrphanLock
  /\ done => shutdown

Inv == TypeOK /\ TreeInv /\ WalkInv /\ HandInv

\* The next item of a walk is an item of the tree.
LEMMA FirstOfRest ==
  ASSUME Inv, rest # {}
  PROVE  First(rest) \in rest /\ First(rest) \in queue /\ First(rest) \in Item
<1>1. rest \subseteq queue /\ queue \subseteq Item /\ IsFiniteSet(queue) /\ Distinct(queue)
  BY DEF Inv, TypeOK, TreeInv
<1>2. IsFiniteSet(rest)
  BY <1>1, FS_Subset
<1>3. Distinct(rest)
  BY <1>1 DEF Distinct
<1> QED
  BY <1>1, <1>2, <1>3, FirstIsIn

\* A worker that has nothing is not counted in Held.
LEMMA HeldElements ==
  \A k : k \in Held <=> k # Absent /\ \E w \in Workers : got[w] = k
BY DEF Held

\* The queue New returns satisfies the invariant.
LEMMA InitInv == Init => Inv
<1> SUFFICES ASSUME Init PROVE Inv
  OBVIOUS
<1>1. TypeOK
  <2>1. /\ items \in [Keys -> Item \cup {Absent}]
        /\ got \in [Workers -> Keys \cup {Absent}]
    BY DEF Init
  <2>2. pc \in [Workers -> {"idle", "entering", "announcing", "parked", "received",
                            "working", "exited"}]
    BY DEF Init
  <2>3. depth \in [Priorities -> Int]
    BY DEF Init
  <2> QED
    BY <2>1, <2>2, <2>3, Zenon DEF Init, TypeOK, NilTime
<1>2. TreeInv
  BY FS_EmptySet DEF Init, TreeInv, Distinct, Present, MapMatchesTree
<1>3. WalkInv
  BY DEF Init, WalkInv, LocksHeld
<1>4. HandInv
  BY DEF Init, HandInv, ExclusiveHandout, NoOrphanLock, Held, OnOffer
<1> QED
  BY <1>1, <1>2, <1>3, <1>4 DEF Inv

\* The type of an item after AddWithOpts, and the delay of a call.
LEMMA AfterType ==
  ASSUME NEW o \in AddOpts, NEW rlAfter \in Delays
  PROVE  After(o, rlAfter) \in Delays /\ After(o, rlAfter) \in Nat
BY QueueConstants, Zenon DEF After, AddOpts

\* A change of one gauge leaves every gauge an integer.
LEMMA GaugeType ==
  ASSUME NEW d \in [Priorities -> Int], NEW p
  PROVE  Inc(d, p) \in [Priorities -> Int] /\ Dec(d, p) \in [Priorities -> Int]
<1>1. Inc(d, p) = [q \in Priorities |-> IF q = p THEN d[q] + 1 ELSE d[q]]
  BY Zenon DEF Inc
<1>2. Dec(d, p) = [q \in Priorities |-> IF q = p THEN d[q] - 1 ELSE d[q]]
  BY Zenon DEF Dec
<1> QED
  BY <1>1, <1>2

\* A key that is not queued: the new item gets a fresh addedCounter.
LEMMA AddNewInv ==
  ASSUME Inv, ~LocksHeld, NEW o \in AddOpts, NEW readyAt \in Nat, AddNew(o, readyAt),
         UNCHANGED <<toDelete, rest>>
  PROVE  /\ items' \in [Keys -> Item \cup {Absent}]
         /\ queue' \subseteq Item
         /\ addedCounter' \in Nat
         /\ depth' \in [Priorities -> Int]
         /\ addTimes' \subseteq Keys
         /\ TreeInv'
<1> DEFINE item == [key |-> o.key, addedCounter |-> addedCounter,
                    priority |-> o.priority, readyAt |-> readyAt]
<1>1. /\ items[o.key] = Absent
      /\ items' = [items EXCEPT ![o.key] = item]
      /\ queue' = queue \cup {item}
      /\ addedCounter' = addedCounter + 1
  BY DEF AddNew
<1>2. o.key \in Keys /\ o.priority \in Int /\ o.priority \in Priorities
  BY QueueConstants, Zenon DEF AddOpts
<1>3. TypeOK /\ TreeInv /\ toDelete = {} /\ rest = {}
  BY DEF Inv, WalkInv
<1>4. item \in Item
  BY <1>2, <1>3 DEF Item, TypeOK
<1>5. /\ item # Absent
      /\ item.key = o.key
      /\ item.addedCounter = addedCounter
  BY <1>4, QueueConstants
<1> HIDE DEF item
<1>6. items' \in [Keys -> Item \cup {Absent}] /\ queue' \subseteq Item /\ addedCounter' \in Nat
  <2>1. items \in [Keys -> Item \cup {Absent}]
    BY <1>3 DEF TypeOK
  <2>2. items' \in [Keys -> Item \cup {Absent}]
    BY <1>1, <1>4, <2>1, Zenon
  <2> QED
    BY <1>1, <1>3, <1>4, <2>2 DEF TypeOK
<1>7. depth' \in [Priorities -> Int] /\ addTimes' \subseteq Keys
  BY <1>2, <1>3 DEF AddNew, Inc, TypeOK
<1>8. IsFiniteSet(queue')
  BY <1>1, <1>3, FS_AddElement DEF TreeInv
<1>9. Distinct(queue')
  BY <1>1, <1>3, <1>5 DEF TreeInv, Distinct, TypeOK, Item
<1>10. \A i \in queue' : i.addedCounter < addedCounter'
  BY <1>1, <1>3, <1>5 DEF TreeInv, TypeOK, Item
<1>11. Present' = Present \cup {o.key}
  BY <1>1, <1>2, <1>3, <1>5 DEF Present, TypeOK
<1>12. \A k \in Present' : items'[k].key = k
  BY <1>1, <1>2, <1>3, <1>5, <1>11 DEF TreeInv, Present, TypeOK
<1>13. MapMatchesTree'
  <2>1. queue = {items[k] : k \in Present}
    BY <1>3 DEF TreeInv, MapMatchesTree
  <2>2. o.key \notin Present
    BY <1>1 DEF Present
  <2>3. \A k \in Present : items'[k] = items[k]
    BY <1>1, <1>3, <2>2 DEF Present, TypeOK
  <2>4. items'[o.key] = item
    BY <1>1, <1>2, <1>3 DEF TypeOK
  <2>5. queue' = {items'[k] : k \in Present'}
    BY <1>1, <1>11, <2>1, <2>3, <2>4
  <2> QED
    BY <1>3, <2>5 DEF MapMatchesTree
<1> QED
  BY <1>6, <1>7, <1>8, <1>9, <1>10, <1>12, <1>13 DEF TreeInv

\* A key that is queued: its item keeps its key and its addedCounter.
LEMMA AddExistingInv ==
  ASSUME Inv, ~LocksHeld, NEW o \in AddOpts, NEW readyAt \in Nat, AddExisting(o, readyAt),
         UNCHANGED <<toDelete, rest>>
  PROVE  /\ items' \in [Keys -> Item \cup {Absent}]
         /\ queue' \subseteq Item
         /\ addedCounter' \in Nat
         /\ depth' \in [Priorities -> Int]
         /\ addTimes' \subseteq Keys
         /\ TreeInv'
<1> DEFINE old  == items[o.key]
           item == [old EXCEPT !.priority = IF Raised(o, old) THEN o.priority ELSE @,
                               !.readyAt  = IF old.readyAt # NilTime /\ readyAt < old.readyAt
                                            THEN readyAt ELSE @]
<1>1. /\ old # Absent
      /\ items' = [items EXCEPT ![o.key] = item]
      /\ queue' = (queue \ {old}) \cup {item}
      /\ addedCounter' = addedCounter
  BY DEF AddExisting, Reinsert
<1>2. o.key \in Keys /\ o.priority \in Int
  BY QueueConstants, Zenon DEF AddOpts
<1>3. TypeOK /\ TreeInv /\ toDelete = {} /\ rest = {}
  BY DEF Inv, WalkInv
<1>4. old \in Item /\ old.key = o.key /\ old \in queue
  BY <1>1, <1>2, <1>3 DEF TypeOK, TreeInv, MapMatchesTree, Present
<1>5. /\ item \in Item
      /\ item.key = o.key
      /\ item.addedCounter = old.addedCounter
  BY <1>2, <1>4, Zenon DEF Item
<1>6. item # Absent
  BY <1>5, QueueConstants
<1>7. depth' \in [Priorities -> Int]
  <2>1. depth \in [Priorities -> Int]
    BY <1>3 DEF TypeOK
  <2> QED
    BY <2>1, GaugeType DEF AddExisting
<1>8. addTimes' \subseteq Keys
  BY <1>2, <1>3 DEF AddExisting, TypeOK
<1> HIDE DEF item
<1>9. items' \in [Keys -> Item \cup {Absent}]
  <2>1. items \in [Keys -> Item \cup {Absent}]
    BY <1>3 DEF TypeOK
  <2> QED
    BY <1>1, <1>5, <2>1, Zenon
<1>10. queue' \subseteq Item /\ addedCounter' \in Nat
  BY <1>1, <1>3, <1>5 DEF TypeOK
<1>11. IsFiniteSet(queue')
  <2>1. IsFiniteSet(queue \ {old})
    BY <1>3, FS_RemoveElement, Zenon DEF TreeInv
  <2> QED
    BY <1>1, <2>1, FS_AddElement
<1>12. Distinct(queue')
  BY <1>1, <1>3, <1>4, <1>5 DEF TreeInv, Distinct
<1>13. \A i \in queue' : i.addedCounter < addedCounter'
  BY <1>1, <1>3, <1>4, <1>5 DEF TreeInv
<1>14. Present' = Present /\ o.key \in Present
  BY <1>1, <1>2, <1>3, <1>6 DEF Present, TypeOK
<1>15. \A k \in Present' : items'[k] = IF k = o.key THEN item ELSE items[k]
  BY <1>1, <1>3, <1>14 DEF Present, TypeOK
<1>16. \A k \in Present' : items'[k].key = k
  BY <1>3, <1>5, <1>14, <1>15, Zenon DEF TreeInv
<1>17. MapMatchesTree'
  <2>1. queue = {items[k] : k \in Present}
    BY <1>3 DEF TreeInv, MapMatchesTree
  <2>2. \A k \in Present : items[k] = old => k = o.key
    BY <1>3, <1>4 DEF TreeInv
  <2>3. queue' = {items'[k] : k \in Present'}
    BY <1>1, <1>14, <1>15, <2>1, <2>2
  <2> QED
    BY <1>3, <2>3 DEF MapMatchesTree
<1> QED
  BY <1>7, <1>8, <1>9, <1>10, <1>11, <1>12, <1>13, <1>16, <1>17, Zenon DEF TreeInv

\* AddWithOpts runs only while spin is not walking.
LEMMA AddLockedInv ==
  ASSUME Inv, NEW a \in Adders, AddLocked(a)
  PROVE  Inv'
<1>1. ~LocksHeld
  BY DEF AddLocked
<1>2. UNCHANGED <<becameReady, locked, waiters, chans, now, walk, pc, got, started>>
  BY DEF AddLocked
<1>3. PICK o \in AddOpts, rlAfter \in Delays :
        LET after   == After(o, rlAfter)
            readyAt == IF after > 0 THEN now + after ELSE NilTime
        IN AddNew(o, readyAt) \/ AddExisting(o, readyAt)
  BY DEF AddLocked
<1> DEFINE readyAt == IF After(o, rlAfter) > 0 THEN now + After(o, rlAfter) ELSE NilTime
<1>4. readyAt \in Nat
  BY AfterType DEF Inv, TypeOK, NilTime
<1>5. AddNew(o, readyAt) \/ AddExisting(o, readyAt)
  BY <1>3
<1> HIDE DEF readyAt
<1>6. /\ items' \in [Keys -> Item \cup {Absent}]
      /\ queue' \subseteq Item
      /\ addedCounter' \in Nat
      /\ depth' \in [Priorities -> Int]
      /\ addTimes' \subseteq Keys
      /\ TreeInv'
  BY <1>1, <1>2, <1>4, <1>5, AddNewInv, AddExistingInv DEF walk
<1>7. rest = {} /\ toDelete = {} /\ rest' = {} /\ toDelete' = {} /\ ~LocksHeld'
  BY <1>1, <1>2 DEF Inv, WalkInv, walk, LocksHeld
<1>8. TypeOK'
  <2>1. signal' \in BOOLEAN /\ adding' \subseteq Adders
    BY DEF AddLocked, notifyItemOrWaiterAdded, Inv, TypeOK
  <2> QED
    BY <1>2, <1>6, <1>7, <2>1 DEF Inv, TypeOK, chans, walk
<1>9. WalkInv'
  BY <1>7 DEF WalkInv, LocksHeld
<1>10. HandInv'
  BY <1>2, <1>7 DEF Inv, HandInv, ExclusiveHandout, NoOrphanLock, Held, OnOffer, LocksHeld, chans, walk
<1> QED
  BY <1>6, <1>8, <1>9, <1>10 DEF Inv

\* The steps of spin that wait, lock, skip or stop.
LEMMA SpinQuietInv ==
  ASSUME Inv, SpinStop \/ SpinWake \/ SpinLock \/ VisitUnready \/ VisitSkip
  PROVE  Inv'
<1>1. TypeOK'
  <2>1. CASE SpinStop
    BY <2>1 DEF SpinStop, Inv, TypeOK, tree, chans, metrics
  <2>2. CASE SpinWake
    BY <2>2, Zenon DEF SpinWake, Inv, TypeOK, tree, chans, metrics, NilTime
  <2>3. CASE SpinLock
    BY <2>3 DEF SpinLock, Inv, TypeOK, tree, chans, metrics
  <2>4. CASE VisitUnready
    <3>1. First(rest).readyAt \in Nat
      BY <2>4, FirstOfRest, Zenon DEF VisitUnready, Item
    <3> QED
      BY <2>4, <3>1 DEF VisitUnready, Inv, TypeOK, tree, chans, metrics
  <2>5. CASE VisitSkip
    <3>1. First(rest).key \in Keys
      BY <2>5, FirstOfRest, Zenon DEF VisitSkip, Item
    <3>2. depth' \in [Priorities -> Int]
      BY <2>5, GaugeType DEF VisitSkip, Inv, TypeOK
    <3>3. addTimes' \subseteq Keys /\ becameReady' \subseteq Keys
      BY <2>5, <3>1 DEF VisitSkip, Inv, TypeOK
    <3> QED
      BY <2>5, <3>2, <3>3, Zenon DEF VisitSkip, Inv, TypeOK, chans
  <2> QED
    BY <2>1, <2>2, <2>3, <2>4, <2>5
<1>2. UNCHANGED <<items, queue, addedCounter, toDelete, now>>
  BY DEF SpinStop, SpinWake, SpinLock, VisitUnready, VisitSkip, tree
<1>3. TreeInv'
  BY <1>2 DEF Inv, TreeInv, Present, MapMatchesTree
<1>4. WalkInv'
  <2>1. CASE SpinStop \/ SpinWake
    BY <1>2, <2>1, Zenon DEF SpinStop, SpinWake, Inv, WalkInv, LocksHeld
  <2>2. CASE SpinLock
    <3>1. \A i \in queue : items[i.key] = i
      BY <2>2, Zenon DEF SpinLock, Inv, TreeInv, WalkInv, MapMatchesTree, LocksHeld
    <3> QED
      BY <1>2, <2>2, <3>1 DEF SpinLock, Inv, WalkInv, LocksHeld
  <2>3. CASE VisitUnready \/ VisitSkip
    BY <1>2, <2>3, Zenon DEF VisitUnready, VisitSkip, Inv, WalkInv, LocksHeld
  <2> QED
    BY <2>1, <2>2, <2>3, Zenon
<1>5. HandInv'
  <2>1. /\ UNCHANGED <<locked, shutdown, done, pc, got>>
        /\ spin # "offer" /\ spin' # "offer"
    BY DEF SpinStop, SpinWake, SpinLock, VisitUnready, VisitSkip, chans
  <2> QED
    BY <2>1 DEF Inv, HandInv, ExclusiveHandout, NoOrphanLock, Held, OnOffer
<1> QED
  BY <1>1, <1>3, <1>4, <1>5 DEF Inv

\* spin locks an item that nobody has and takes it out of the map.
LEMMA VisitOfferInv ==
  ASSUME Inv, VisitOffer
  PROVE  Inv'
<1> DEFINE i == First(rest)
<1>1. /\ spin = "ascend" /\ rest # {} /\ Ready(i) /\ waiters # 0 /\ i.key \notin locked
      /\ spin' = "offer" /\ waiters' = waiters - 1
      /\ locked' = locked \cup {i.key}
      /\ items' = [items EXCEPT ![i.key] = Absent]
      /\ toDelete' = toDelete \cup {i}
      /\ UNCHANGED <<queue, addedCounter, signal, chans, now, nextReady, rest, pc,
                     got, adding>>
  BY DEF VisitOffer, PassOver, TakeWaiter
<1>2. i \in rest /\ i \in queue /\ i \in Item /\ i.key \in Keys
  BY <1>1, FirstOfRest DEF Item
<1>3. items[i.key] = i /\ i # Absent
  BY <1>1, <1>2, QueueConstants DEF Inv, WalkInv
<1>4. TypeOK'
  <2>1. depth' \in [Priorities -> Int]
    BY GaugeType, Zenon DEF VisitOffer, Inv, TypeOK
  <2>2. /\ addTimes' \subseteq Keys /\ started' \subseteq Keys
        /\ becameReady' \subseteq Keys /\ locked' \subseteq Keys
    BY <1>2 DEF VisitOffer, Inv, TypeOK
  <2>3. waiters' \in Nat
    BY <1>1 DEF Inv, TypeOK
  <2>4. items' \in [Keys -> Item \cup {Absent}]
    BY <1>1, Zenon DEF Inv, TypeOK
  <2>5. toDelete' \subseteq Item
    BY <1>1, <1>2 DEF Inv, TypeOK
  <2> QED
    BY <1>1, <2>1, <2>2, <2>3, <2>4, <2>5, Zenon DEF Inv, TypeOK, chans
<1>5. /\ \A k \in Keys : items'[k] = IF k = i.key THEN Absent ELSE items[k]
      /\ Present' = Present \ {i.key}
  BY <1>1 DEF Inv, TypeOK, Present
<1>6. TreeInv'
  <2>1. queue = {items[k] : k \in Present} \cup toDelete /\ i.key \in Present
    BY <1>2, <1>3 DEF Inv, TreeInv, MapMatchesTree, Present
  <2>2. queue = {items[k] : k \in Present \ {i.key}} \cup (toDelete \cup {i})
    BY <1>3, <2>1
  <2>3. {items'[k] : k \in Present'} = {items[k] : k \in Present \ {i.key}}
    BY <1>5 DEF Present
  <2>4. MapMatchesTree'
    BY <1>1, <2>2, <2>3 DEF MapMatchesTree
  <2> QED
    BY <1>1, <1>5, <2>4 DEF Inv, TreeInv, Present
<1>7. WalkInv'
  <2>1. \A j \in rest : j # i => items'[j.key] = j
    BY <1>1, <1>2, <1>3, <1>5 DEF Inv, WalkInv, TypeOK, Item
  <2>2. \A j \in toDelete' : items'[j.key] = Absent
    BY <1>1, <1>2, <1>5 DEF Inv, WalkInv, TypeOK, Item
  <2> QED
    BY <1>1, <1>2, <2>1, <2>2, Zenon DEF WalkInv, LocksHeld, Ready
<1>8. HandInv'
  <2>1. Held' = Held /\ OnOffer = {} /\ OnOffer' = {i.key}
    BY <1>1 DEF Held, OnOffer
  <2> QED
    BY <1>1, <2>1, Zenon DEF Inv, HandInv, ExclusiveHandout, NoOrphanLock, chans
<1> QED
  BY <1>4, <1>6, <1>7, <1>8 DEF Inv

\* The end of a pass, and the hand-off that shutdown interrupts.
LEMMA SpinEndInv ==
  ASSUME Inv, Abandon \/ SpinUnlock
  PROVE  Inv'
<1>1. CASE Abandon
  <2>1. TypeOK'
    BY <1>1 DEF Abandon, Inv, TypeOK, tree, chans, metrics
  <2>2. TreeInv'
    BY <1>1, Zenon DEF Abandon, Inv, TreeInv, Present, MapMatchesTree, tree
  <2>3. WalkInv'
    BY <1>1 DEF Abandon, Inv, WalkInv, LocksHeld, tree
  <2>4. HandInv'
    <3>1. Held' = Held /\ OnOffer' = {} /\ shutdown' /\ UNCHANGED <<pc, got, locked, done>>
      BY <1>1, Zenon DEF Abandon, Inv, HandInv, Held, OnOffer, chans
    <3> QED
      BY <3>1 DEF Inv, HandInv, ExclusiveHandout, NoOrphanLock
  <2> QED
    BY <2>1, <2>2, <2>3, <2>4, Zenon DEF Inv
<1>2. CASE SpinUnlock
  <2>1. TypeOK'
    BY <1>2 DEF SpinUnlock, Inv, TypeOK, chans, metrics
  <2>2. TreeInv'
    <3>1. \A k \in Present : items[k] \notin toDelete
      BY DEF Inv, TreeInv, WalkInv, Present
    <3>2. queue' = {items[k] : k \in Present}
      BY <1>2, <3>1, Zenon DEF SpinUnlock, Inv, TreeInv, MapMatchesTree
    <3>3. IsFiniteSet(queue') /\ queue' \subseteq queue
      BY <1>2, FS_Subset DEF SpinUnlock, Inv, TreeInv
    <3>4. toDelete' = {} /\ UNCHANGED <<items, addedCounter>>
      BY <1>2 DEF SpinUnlock
    <3>5. UNCHANGED Present
      BY <3>4 DEF Present
    <3>6. MapMatchesTree'
      BY <3>2, <3>4, <3>5 DEF MapMatchesTree
    <3>7. Distinct(queue)'
      BY <3>3 DEF Inv, TreeInv, Distinct
    <3>8. \A i \in queue' : i.addedCounter < addedCounter'
      BY <3>3, <3>4 DEF Inv, TreeInv
    <3>9. \A k \in Present' : items'[k].key = k
      BY <3>4, <3>5 DEF Inv, TreeInv
    <3> QED
      BY <3>3, <3>6, <3>7, <3>8, <3>9 DEF TreeInv
  <2>3. WalkInv'
    BY <1>2, Zenon DEF SpinUnlock, Inv, WalkInv, LocksHeld
  <2>4. HandInv'
    BY <1>2, Zenon DEF SpinUnlock, Inv, HandInv, ExclusiveHandout, NoOrphanLock, Held, OnOffer, chans
  <2> QED
    BY <2>1, <2>2, <2>3, <2>4 DEF Inv
<1> QED
  BY <1>1, <1>2

\* The key on offer is locked and no worker has it, so the worker that receives
\* it has it alone.
LEMMA HandOffInv ==
  ASSUME Inv, NEW w \in Workers, HandOff(w)
  PROVE  Inv'
<1> DEFINE i == First(rest)
<1>1. i \in rest /\ i \in queue /\ i \in Item /\ i.key \in Keys /\ rest # {}
  BY FirstOfRest DEF HandOff, Inv, WalkInv, Item
<1>2. TypeOK'
  <2>1. got' \in [Workers -> Keys \cup {Absent}]
    BY <1>1 DEF HandOff, Inv, TypeOK
  <2> QED
    BY <2>1 DEF HandOff, Inv, TypeOK, tree, chans, metrics
<1>3. TreeInv'
  BY Zenon DEF HandOff, Inv, TreeInv, Present, MapMatchesTree, tree
<1>4. WalkInv'
  BY DEF HandOff, Inv, WalkInv, LocksHeld, tree
<1>5. HandInv'
  <2>1. got[w] = Absent /\ i.key # Absent /\ i.key \notin Held /\ OnOffer = {i.key}
    BY <1>1, QueueConstants DEF HandOff, Inv, HandInv, ExclusiveHandout, OnOffer
  <2>2. \A v \in Workers : got'[v] = IF v = w THEN i.key ELSE got[v]
    BY DEF HandOff, Inv, TypeOK
  <2>3. Held' = Held \cup {i.key} /\ OnOffer' = {}
    <3>1. OnOffer' = {}
      BY Zenon DEF HandOff, OnOffer
    <3>2. \A k : k \in Held' <=> k \in Held \cup {i.key}
      BY <2>1, <2>2, Zenon DEF Held
    <3> QED
      BY <3>1, <3>2
  <2>4. \A v \in Workers : got[v] # i.key
    BY <2>1 DEF Held
  <2>5. \A v \in Workers : got'[v] # Absent <=> pc'[v] \in {"received", "working"}
    BY <2>1, <2>2, Zenon DEF HandOff, Inv, HandInv, TypeOK
  <2>6. ExclusiveHandout'
    <3>1. UNCHANGED locked
      BY DEF HandOff
    <3>2. \A u, v \in Workers : u # v /\ got'[u] # Absent => got'[u] # got'[v]
      BY <2>2, <2>4 DEF Inv, HandInv, ExclusiveHandout
    <3> QED
      BY <2>1, <2>3, <3>1, <3>2 DEF Inv, HandInv, ExclusiveHandout
  <2>7. NoOrphanLock'
    BY <2>1, <2>3 DEF HandOff, Inv, HandInv, NoOrphanLock, chans
  <2> QED
    BY <2>5, <2>6, <2>7 DEF HandOff, Inv, HandInv, chans
<1> QED
  BY <1>2, <1>3, <1>4, <1>5 DEF Inv

\* Done, and the return of GetWithPriority, give up a key that no other worker
\* has.
LEMMA GiveUpInv ==
  ASSUME Inv, NEW w \in Workers, GetReturn(w) \/ Done(w)
  PROVE  Inv'
<1>1. UNCHANGED <<tree, walk, chans, now>>
  BY DEF GetReturn, Done
<1>2. TypeOK'
  <2>1. CASE GetReturn(w)
    BY <2>1, Zenon DEF GetReturn, Inv, TypeOK, tree, walk, chans, metrics
  <2>2. CASE Done(w)
    BY <2>2, Zenon DEF Done, notifyItemOrWaiterAdded, Inv, TypeOK, tree, walk, chans
  <2> QED
    BY <2>1, <2>2, Zenon
<1>3. TreeInv' /\ WalkInv'
  BY <1>1 DEF Inv, TreeInv, WalkInv, Present, MapMatchesTree, LocksHeld, Ready, tree, walk
<1>4. OnOffer' = OnOffer
  BY <1>1 DEF OnOffer, walk
<1>5. HandInv'
  <2>1. CASE GetReturn(w) /\ ~shutdown
    <3>1. got' = got /\ locked' = locked
      BY <2>1 DEF GetReturn, Inv, TypeOK
    <3>2. Held' = Held
      BY <3>1 DEF Held
    <3>3. \A v \in Workers : got'[v] # Absent <=> pc'[v] \in {"received", "working"}
      BY <2>1, <3>1, Zenon DEF GetReturn, Inv, HandInv, TypeOK
    <3> QED
      BY <1>1, <1>4, <3>1, <3>2, <3>3, Zenon DEF Inv, HandInv, ExclusiveHandout, NoOrphanLock, chans
  <2>2. CASE (GetReturn(w) /\ shutdown) \/ Done(w)
    <3>1. \A v \in Workers : got'[v] = IF v = w THEN Absent ELSE got[v]
      BY <2>2, Zenon DEF GetReturn, Done, Inv, TypeOK
    <3>2. got[w] # Absent
      BY <2>2, Zenon DEF GetReturn, Done, Inv, HandInv
    <3>3. Held' = Held \ {got[w]} /\ got[w] \in Held
      <4>1. \A v \in Workers : v # w => got[v] # got[w]
        BY <3>2 DEF Inv, HandInv, ExclusiveHandout
      <4>2. \A k : k \in Held' <=> k \in Held \ {got[w]}
        BY <3>1, <4>1, Zenon DEF Held
      <4> QED
        BY <3>2, <4>2 DEF Held
    <3>4. \A v \in Workers : got'[v] # Absent <=> pc'[v] \in {"received", "working"}
      BY <2>2, <3>1, Zenon DEF GetReturn, Done, Inv, HandInv, TypeOK
    <3>5. /\ locked' = locked \/ locked' = locked \ {got[w]}
          /\ shutdown \/ locked' = locked \ {got[w]}
      BY <2>2, Zenon DEF GetReturn, Done
    <3>6. ExclusiveHandout'
      <4>1. \A u, v \in Workers : u # v /\ got'[u] # Absent => got'[u] # got'[v]
        BY <3>1 DEF Inv, HandInv, ExclusiveHandout
      <4>2. got[w] \notin OnOffer
        BY <3>3, Zenon DEF Inv, HandInv, ExclusiveHandout
      <4> QED
        BY <1>4, <3>3, <3>5, <4>1, <4>2, Zenon DEF Inv, HandInv, ExclusiveHandout
    <3>7. NoOrphanLock'
      BY <1>1, <1>4, <3>3, <3>5 DEF Inv, HandInv, ExclusiveHandout, NoOrphanLock, chans
    <3> QED
      BY <1>1, <3>4, <3>6, <3>7, Zenon DEF Inv, HandInv, chans
  <2> QED
    BY <2>1, <2>2
<1> QED
  BY <1>2, <1>3, <1>5 DEF Inv

\* The steps that move neither an item nor a key.
LEMMA QuietInv ==
  ASSUME Inv,
         \/ \E w \in Workers : GetCheck(w) \/ GetWait(w) \/ GetNotify(w) \/ GetWoken(w)
         \/ \E a \in Adders : AddCall(a)
         \/ ShutDownFlag \/ ShutDownClose \/ Tick \/ UNCHANGED vars
  PROVE  Inv'
<1>1. /\ UNCHANGED <<tree, locked, walk, got, metrics>>
      /\ now' \in Nat /\ now <= now'
      /\ shutdown => shutdown'
      /\ done' => shutdown'
  <2>1. now \in Nat /\ shutdown \in BOOLEAN /\ (done => shutdown)
    BY Zenon DEF Inv, TypeOK, HandInv
  <2>2. CASE \E w \in Workers : GetCheck(w) \/ GetWait(w) \/ GetNotify(w) \/ GetWoken(w)
    <3>1. CASE \E w \in Workers : GetCheck(w)
      BY <2>1, <3>1 DEF GetCheck, chans
    <3>2. CASE \E w \in Workers : GetWait(w)
      BY <2>1, <3>2 DEF GetWait, chans
    <3>3. CASE \E w \in Workers : GetNotify(w)
      BY <2>1, <3>3 DEF GetNotify, chans
    <3>4. CASE \E w \in Workers : GetWoken(w)
      BY <2>1, <3>4 DEF GetWoken, chans
    <3> QED
      BY <2>2, <3>1, <3>2, <3>3, <3>4, Zenon
  <2>3. CASE \E a \in Adders : AddCall(a)
    BY <2>1, <2>3 DEF AddCall, chans
  <2>4. CASE ShutDownFlag \/ ShutDownClose
    BY <2>1, <2>4 DEF ShutDownFlag, ShutDownClose
  <2>5. CASE Tick
    BY <2>1, <2>5 DEF Tick, chans
  <2>6. CASE UNCHANGED vars
    BY <2>1, <2>6 DEF vars, chans
  <2> QED
    BY <2>2, <2>3, <2>4, <2>5, <2>6, Zenon
<1>2. TypeOK'
  <2>1. CASE \E w \in Workers : GetCheck(w) \/ GetWait(w) \/ GetNotify(w) \/ GetWoken(w)
    <3>1. pc' \in [Workers -> {"idle", "entering", "announcing", "parked", "received",
                               "working", "exited"}]
      <4>1. PICK w \in Workers : GetCheck(w) \/ GetWait(w) \/ GetNotify(w) \/ GetWoken(w)
        BY <2>1, Zenon
      <4>2. \E l \in {"exited", "entering", "announcing", "parked"} : pc' = [pc EXCEPT ![w] = l]
        BY <4>1 DEF GetCheck, GetWait, GetNotify, GetWoken
      <4> QED
        BY <4>2 DEF Inv, TypeOK
    <3>2. waiters' \in Nat
      <4>1. waiters' = waiters \/ waiters' = waiters + 1
        BY <2>1 DEF GetCheck, GetWait, GetNotify, GetWoken
      <4>2. waiters \in Nat
        BY DEF Inv, TypeOK
      <4> QED
        BY <4>1, <4>2
    <3>3. signal' \in BOOLEAN
      BY <2>1, Zenon DEF GetCheck, GetWait, GetNotify, GetWoken, notifyItemOrWaiterAdded, Inv, TypeOK
    <3>4. UNCHANGED <<tree, locked, chans, now, walk, got, adding, metrics>>
      BY <2>1, Zenon DEF GetCheck, GetWait, GetNotify, GetWoken
    <3> QED
      BY <3>1, <3>2, <3>3, <3>4, Zenon DEF Inv, TypeOK, tree, walk, chans, metrics
  <2>2. CASE \E a \in Adders : AddCall(a)
    BY <2>2 DEF AddCall, Inv, TypeOK, tree, walk, chans, metrics
  <2>3. CASE ShutDownFlag \/ ShutDownClose \/ Tick
    BY <1>1, <2>3, Zenon DEF ShutDownFlag, ShutDownClose, Tick, Inv, TypeOK, tree, walk, chans, metrics
  <2>4. CASE UNCHANGED vars
    BY <2>4 DEF vars, Inv, TypeOK, tree, walk, chans, metrics
  <2> QED
    BY <2>1, <2>2, <2>3, <2>4, Zenon
<1>3. TreeInv'
  <2>1. UNCHANGED <<items, queue, addedCounter, toDelete>>
    BY <1>1 DEF tree, walk
  <2>2. UNCHANGED Present
    BY <2>1, Zenon DEF Present
  <2>3. MapMatchesTree'
    BY <2>1, <2>2, Zenon DEF Inv, TreeInv, MapMatchesTree
  <2> QED
    BY <2>1, <2>2, <2>3, Zenon DEF Inv, TreeInv, Distinct
<1>4. WalkInv'
  <2>1. Ready(First(rest)) /\ rest # {} => Ready(First(rest))'
    <3> SUFFICES ASSUME Ready(First(rest)), rest # {} PROVE Ready(First(rest))'
      OBVIOUS
    <3>1. First(rest).readyAt \in Nat
      BY FirstOfRest, Zenon DEF Item
    <3>2. rest' = rest /\ now \in Nat /\ now' \in Nat /\ now <= now'
      BY <1>1 DEF walk, Inv, TypeOK
    <3>3. First(rest)' = First(rest)
      BY <3>2
    <3> QED
      BY <3>1, <3>2, <3>3 DEF Ready
  <2> QED
    BY <1>1, <2>1, Zenon DEF Inv, WalkInv, LocksHeld, tree, walk
<1>5. HandInv'
  <2>1. Held' = Held /\ OnOffer' = OnOffer
    BY <1>1, Zenon DEF Held, OnOffer, walk
  <2>2. \A w \in Workers : pc'[w] \in {"received", "working"} <=> pc[w] \in {"received", "working"}
    BY DEF GetCheck, GetWait, GetNotify, GetWoken, AddCall, ShutDownFlag, ShutDownClose,
           Tick, vars, Inv, TypeOK
  <2> QED
    BY <1>1, <2>1, <2>2, Zenon DEF Inv, HandInv, ExclusiveHandout, NoOrphanLock
<1> QED
  BY <1>2, <1>3, <1>4, <1>5, Zenon DEF Inv

\* Every step of the queue preserves the invariant.
LEMMA StepInv == Inv /\ [Next]_vars => Inv'
<1> SUFFICES ASSUME Inv, [Next]_vars PROVE Inv'
  OBVIOUS
<1>1. CASE Spin
  BY <1>1, SpinQuietInv, VisitOfferInv, SpinEndInv, Zenon DEF Spin
<1>2. CASE \E w \in Workers : Worker(w)
  BY <1>2, QuietInv, HandOffInv, GiveUpInv DEF Worker
<1>3. CASE \E a \in Adders : AddCall(a) \/ AddLocked(a)
  BY <1>3, QuietInv, AddLockedInv
<1>4. CASE ShutDownFlag \/ ShutDownClose \/ Tick
  BY <1>4, QuietInv
<1>5. CASE UNCHANGED vars
  BY <1>5, QuietInv
<1> QED
  BY <1>1, <1>2, <1>3, <1>4, <1>5 DEF Next, Terminated

\* The inductive invariant holds in every reachable state of the queue.
THEOREM QueueInvariant == Spec => []Inv
<1> QED
  BY InitInv, StepInv, PTL DEF Spec

\* Every variable keeps its type; the walk of spin stays inside the tree and
\* waiters, which spin decrements, never becomes negative.
THEOREM QueueTypes == Spec => []TypeOK
<1>1. Inv => TypeOK
  BY DEF Inv
<1> QED
  BY <1>1, QueueInvariant, PTL

\* No two workers ever have the same key, whatever the interleaving of callers,
\* spin, workers and shutdown.
THEOREM QueueExclusive == Spec => []ExclusiveHandout
<1>1. Inv => ExclusiveHandout
  BY DEF Inv, HandInv
<1> QED
  BY <1>1, QueueInvariant, PTL

\* Before shutdown each locked key has a worker that will call Done for it.
THEOREM QueueNoOrphanLock == Spec => []NoOrphanLock
<1>1. Inv => NoOrphanLock
  BY DEF Inv, HandInv
<1> QED
  BY <1>1, QueueInvariant, PTL

\* The map and the B-tree never disagree about what is queued.
THEOREM QueueMapMatchesTree == Spec => []MapMatchesTree
<1>1. Inv => MapMatchesTree
  BY DEF Inv, TreeInv
<1> QED
  BY <1>1, QueueInvariant, PTL

-----------------------------------------------------------------------------
(* No lost wakeup, and Len                                                 *)

\* A queued key nobody has will be seen: spin still has to visit it in this
\* pass, or something will start another pass in time.
Seen(k) ==
  \/ k \in locked
  \/ signal
  \/ \E w \in Workers : pc[w] = "announcing"
  \/ nextReady # NilTime /\ nextReady <= items[k].readyAt
  \/ LocksHeld /\ items[k] \in rest

\* NoLostWakeup, carried through a pass: the timer is armed only at the end of
\* the walk.
WakeInv ==
  /\ spin = "lock" \/ (LocksHeld /\ rest # {}) => nextReady = NilTime
  /\ spin \notin {"lock", "stopped"} /\ ~done /\ waiters > 0 => \A k \in Present : Seen(k)
  /\ LocksHeld /\ rest # {} /\ waiters > 0 => \A k \in Present : Seen(k)

\* The first item of a walk is the first to become ready.
LEMMA FirstIsEarliest ==
  ASSUME Inv, rest # {}
  PROVE  \A j \in rest : First(rest).readyAt <= j.readyAt
<1>1. rest \subseteq Item /\ IsFiniteSet(rest) /\ Distinct(rest)
  BY FS_Subset DEF Inv, TypeOK, TreeInv, Distinct
<1>2. \A j \in rest \ {First(rest)} : less(First(rest), j)
  BY <1>1, FirstExists DEF HasFirst, First
<1>3. First(rest) \in Item
  BY FirstOfRest
<1> QED
  BY <1>1, <1>2, <1>3 DEF less, Item

\* The steps of spin neither drop a key they have not seen nor disarm the timer
\* before the next pass.
LEMMA SpinWakeInv ==
  ASSUME Inv, WakeInv, Spin
  PROVE  WakeInv'
<1>1. CASE SpinStop
  BY <1>1 DEF SpinStop, WakeInv, LocksHeld
<1>2. CASE SpinWake
  BY <1>2, Zenon DEF SpinWake, WakeInv, LocksHeld
<1>3. CASE SpinLock
  <2>1. \A k \in Present : items[k] \in queue
    BY DEF Inv, TreeInv, MapMatchesTree
  <2>2. nextReady' = NilTime /\ spin' = "ascend" /\ rest' = queue /\ items' = items
    BY <1>3 DEF SpinLock, WakeInv, tree
  <2> QED
    BY <2>1, <2>2 DEF WakeInv, Seen, Present, LocksHeld
<1>4. CASE VisitUnready
  <2>1. /\ spin = "ascend" /\ rest # {} /\ ~Ready(First(rest)) /\ spin' = spin
        /\ nextReady' = First(rest).readyAt /\ rest' = {}
        /\ UNCHANGED <<items, locked, signal, done, waiters, pc>>
    BY <1>4 DEF VisitUnready, tree, chans
  <2>2. nextReady = NilTime
    BY <2>1 DEF WakeInv, LocksHeld
  <2>3. nextReady' # NilTime
    <3>1. now \in Nat
      BY DEF Inv, TypeOK
    <3>2. First(rest) \in Item
      BY <2>1, FirstOfRest, Zenon
    <3> QED
      BY <2>1, <3>1, <3>2 DEF Ready, NilTime, Item
  <2>4. ASSUME NEW k \in Present, Seen(k) PROVE Seen(k)'
    BY <2>1, <2>2, <2>3, <2>4, FirstIsEarliest, Zenon DEF Seen
  <2> QED
    BY <2>1, <2>4, Zenon DEF WakeInv, Present, LocksHeld
<1>5. CASE VisitSkip
  <2> DEFINE i == First(rest)
  <2>1. /\ spin = "ascend" /\ rest # {} /\ spin' = spin /\ PassOver(i)
        /\ rest' = rest \ {i}
        /\ UNCHANGED <<items, locked, signal, done, waiters, pc, nextReady>>
    BY <1>5 DEF VisitSkip, chans
  <2>2. \A k \in Present : items[k] = i => k = i.key
    BY Zenon DEF Inv, TreeInv
  <2> HIDE DEF i
  <2>3. ASSUME NEW k \in Present, Seen(k), waiters > 0 PROVE Seen(k)'
    <3>0. waiters # 0
      BY <2>3
    <3>1. items[k] = i => k \in locked
      BY <2>1, <2>2, <3>0, Zenon DEF PassOver
    <3> QED
      BY <2>1, <2>3, <3>1 DEF Seen, LocksHeld
  <2> QED
    BY <2>1, <2>3, Zenon DEF WakeInv, Present, LocksHeld
<1>6. CASE VisitOffer
  <2> DEFINE i == First(rest)
  <2>1. /\ spin = "ascend" /\ rest # {} /\ spin' = "offer"
        /\ items' = [items EXCEPT ![i.key] = Absent]
        /\ locked' = locked \cup {i.key}
        /\ waiters' = waiters - 1
        /\ UNCHANGED <<rest, signal, done, pc, nextReady>>
    BY <1>6 DEF VisitOffer, TakeWaiter, chans
  <2>2. waiters \in Nat /\ items \in [Keys -> Item \cup {Absent}]
    BY DEF Inv, TypeOK
  <2>3. \A k \in Present' : k \in Present /\ items'[k] = items[k]
    BY <2>1, <2>2, Zenon DEF Present
  <2>4. ASSUME NEW k \in Present', Seen(k) PROVE Seen(k)'
    BY <2>1, <2>3, <2>4 DEF Seen, LocksHeld
  <2>5. waiters' > 0 => waiters > 0
    BY <2>1, <2>2
  <2> QED
    BY <2>1, <2>3, <2>4, <2>5, Zenon DEF WakeInv, LocksHeld
<1>7. CASE Abandon
  <2>1. done' /\ spin' = "ascend" /\ rest' = {}
    BY <1>7, Zenon DEF Abandon, chans
  <2> QED
    BY <2>1 DEF WakeInv, LocksHeld
<1>8. CASE SpinUnlock
  <2>1. /\ spin = "ascend" /\ spin' = "select" /\ rest = {}
        /\ UNCHANGED <<items, locked, signal, done, waiters, pc, nextReady>>
    BY <1>8 DEF SpinUnlock, chans
  <2> QED
    BY <2>1 DEF WakeInv, Seen, Present, LocksHeld
<1> QED
  BY <1>1, <1>2, <1>3, <1>4, <1>5, <1>6, <1>7, <1>8, Zenon DEF Spin

\* A worker that starts to wait announces itself, and Done wakes spin.
LEMMA WorkerWakeInv ==
  ASSUME Inv, WakeInv, NEW w \in Workers, Worker(w)
  PROVE  WakeInv'
<1>t. pc \in [Workers -> {"idle", "entering", "announcing", "parked", "received",
                          "working", "exited"}]
  BY DEF Inv, TypeOK
<1>1. CASE GetCheck(w) \/ GetReturn(w) \/ GetWoken(w)
  <2>1. /\ UNCHANGED <<items, locked, signal, done, waiters, spin, rest, nextReady>>
        /\ pc[w] \in {"idle", "received", "parked"}
        /\ \A v \in Workers \ {w} : pc'[v] = pc[v]
    BY <1>1, <1>t DEF GetCheck, GetReturn, GetWoken, tree, chans, walk
  <2>2. \A k : Seen(k) => Seen(k)'
    BY <2>1, Zenon DEF Seen, LocksHeld
  <2> QED
    BY <2>1, <2>2, Zenon DEF WakeInv, Present, LocksHeld
<1>2. CASE GetWait(w)
  <2>1. /\ UNCHANGED <<items, spin, rest, nextReady>>
        /\ pc'[w] = "announcing"
    BY <1>2, <1>t, Zenon DEF GetWait, tree, walk
  <2> QED
    BY <2>1 DEF WakeInv, Seen, LocksHeld
<1>3. CASE GetNotify(w) \/ Done(w)
  <2>1. /\ UNCHANGED <<spin, rest, nextReady>>
        /\ signal'
    BY <1>3, Zenon DEF GetNotify, Done, notifyItemOrWaiterAdded, walk
  <2> QED
    BY <2>1, Zenon DEF WakeInv, Seen, LocksHeld
<1>4. CASE HandOff(w)
  <2> DEFINE i == First(rest)
  <2>1. /\ spin = "offer" /\ spin' = "ascend" /\ rest' = rest \ {i} /\ rest # {}
        /\ UNCHANGED <<items, locked, signal, done, waiters, nextReady>>
        /\ pc[w] = "parked"
        /\ \A v \in Workers \ {w} : pc'[v] = pc[v]
    BY <1>4, <1>t, Zenon DEF HandOff, tree, chans, Inv, WalkInv
  <2>2. \A k \in Present : items[k] # i
    BY <2>1, Zenon DEF Inv, WalkInv, TreeInv, Present
  <2>3. \A k \in Present : Seen(k) => Seen(k)'
    BY <2>1, <2>2 DEF Seen, LocksHeld
  <2> QED
    BY <2>1, <2>3, Zenon DEF WakeInv, Present, LocksHeld
<1> QED
  BY <1>1, <1>2, <1>3, <1>4, Zenon DEF Worker

\* The invariant of the wakeups is inductive relative to Inv.
LEMMA WakeStepInv == Inv /\ WakeInv /\ [Next]_vars => WakeInv'
<1> SUFFICES ASSUME Inv, WakeInv, [Next]_vars PROVE WakeInv'
  OBVIOUS
<1>1. CASE Spin
  BY <1>1, SpinWakeInv
<1>2. CASE \E w \in Workers : Worker(w)
  BY <1>2, WorkerWakeInv, Zenon
<1>3. ASSUME NEW a \in Adders, AddLocked(a) PROVE WakeInv'
  <2>1. UNCHANGED <<spin, rest, nextReady>> /\ signal'
    BY <1>3, Zenon DEF AddLocked, notifyItemOrWaiterAdded, walk
  <2> QED
    BY <2>1 DEF WakeInv, Seen, LocksHeld
<1>4. CASE ShutDownClose
  <2>1. UNCHANGED <<items, locked, signal, waiters, spin, rest, nextReady, pc>> /\ done'
    BY <1>4, Zenon DEF ShutDownClose, tree, walk
  <2> QED
    BY <2>1 DEF WakeInv, Seen, Present, LocksHeld
<1>5. CASE \/ \E a \in Adders : AddCall(a)
           \/ ShutDownFlag \/ Tick \/ Terminated \/ UNCHANGED vars
  <2>1. UNCHANGED <<items, locked, signal, done, waiters, spin, rest, nextReady, pc>>
    BY <1>5 DEF AddCall, ShutDownFlag, Tick, Terminated, vars, tree, chans, walk
  <2> QED
    BY <2>1, Zenon DEF WakeInv, Seen, Present, LocksHeld
<1> QED
  BY <1>1, <1>2, <1>3, <1>4, <1>5 DEF Next

\* spin never sleeps on a key that a waiting worker could have: adding an item,
\* starting to wait and calling Done all notify it, in whatever order they meet
\* its pass over the tree.
THEOREM QueueNoLostWakeup == Spec => []NoLostWakeup
<1>1. Init => WakeInv
  BY DEF Init, WakeInv, LocksHeld
<1>2. Inv /\ WakeInv => NoLostWakeup
  BY DEF WakeInv, NoLostWakeup, Seen, LocksHeld
<1> QED
  BY <1>1, <1>2, QueueInvariant, WakeStepInv, PTL DEF Spec

\* What the walk still has to visit comes after the item it offers, so an item that
\* comes before it was passed over in this pass, and WakeInv says why.
LEMMA PassedOverIsSeen ==
  ASSUME Inv, WakeInv, VisitOffer, NEW k \in Present, less(items[k], First(rest))
  PROVE  k \in locked \/ signal \/ \E w \in Workers : pc[w] = "announcing"
<1>1. spin = "ascend" /\ rest # {} /\ waiters # 0 /\ waiters \in Nat
  BY Zenon DEF VisitOffer, PassOver, Inv, TypeOK
<1>2. waiters > 0
  BY <1>1
<1>3. Seen(k) /\ nextReady = NilTime
  BY <1>1, <1>2, Zenon DEF WakeInv, LocksHeld
<1>4. items[k] \notin rest
  <2>1. rest \subseteq Item /\ IsFiniteSet(rest) /\ Distinct(rest)
    BY FS_Subset DEF Inv, TypeOK, TreeInv, Distinct
  <2>2. \A j \in rest \ {First(rest)} : less(First(rest), j)
    BY <1>1, <2>1, FirstExists DEF HasFirst, First
  <2>3. First(rest) \in Item
    BY <1>1, FirstOfRest
  <2>4. SUFFICES ASSUME items[k] \in rest PROVE FALSE
    OBVIOUS
  <2>5. items[k] \in Item
    BY <2>1, <2>4, Zenon
  <2>6. items[k] = First(rest) \/ less(First(rest), items[k])
    BY <2>2, <2>4
  <2> QED
    BY <2>3, <2>5, <2>6 DEF less, Item
<1> QED
  BY <1>3, <1>4, Zenon DEF Seen

\* spin hands items out in the order of less, except that one it has passed in
\* this pass may be overtaken while a notification for another pass is under way.
THEOREM QueueOrderIsKept == Spec => OrderIsKept
<1>1. Init => WakeInv
  BY DEF Init, WakeInv, LocksHeld
<1>2. Inv /\ WakeInv =>
        [VisitOffer => \A k \in Present :
           less(items[k], First(rest)) =>
             k \in locked \/ signal \/ \E w \in Workers : pc[w] = "announcing"]_vars
  BY PassedOverIsSeen
<1> QED
  BY <1>1, <1>2, QueueInvariant, WakeStepInv, PTL DEF Spec, OrderIsKept

\* The workers waiters stands for.
Waiting == {w \in Workers : pc[w] \in {"announcing", "parked"}}

\* The number of workers that wait, and of sends that are pending.
LEMMA WaitingIsFinite ==
  /\ IsFiniteSet(Waiting)
  /\ Cardinality(Waiting) \in Nat
  /\ Cardinality(OnOffer) = IF spin = "offer" THEN 1 ELSE 0
<1>1. IsFiniteSet(Waiting)
  BY QueueConstants, FS_Subset, Zenon DEF Waiting
<1> QED
  BY <1>1, FS_CardinalityType, FS_EmptySet, FS_Singleton, Zenon DEF OnOffer

\* Each step that changes who waits changes the counter with it.
LEMMA WaitersStepInv == Inv /\ WaitersAreExact /\ [Next]_vars => WaitersAreExact'
<1> SUFFICES ASSUME Inv, WaitersAreExact, [Next]_vars, ~done' PROVE WaitersAreExact'
  BY DEF WaitersAreExact
<1> DEFINE offers == IF spin = "offer" THEN 1 ELSE 0
<1>f. /\ IsFiniteSet(Waiting)
      /\ Cardinality(Waiting) \in Nat
      /\ Cardinality(OnOffer) = offers
  BY WaitingIsFinite
<1>o. Cardinality(OnOffer') = IF spin' = "offer" THEN 1 ELSE 0
  BY FS_EmptySet, FS_Singleton, Zenon DEF OnOffer
<1>t. /\ waiters \in Nat
      /\ pc \in [Workers -> {"idle", "entering", "announcing", "parked", "received",
                             "working", "exited"}]
  BY DEF Inv, TypeOK
<1>g. SUFFICES ~done => waiters' + offers' = Cardinality(Waiting')
  <2>1. ~done
    BY Zenon DEF Next, vars, chans, tree, Spin, SpinStop, SpinWake, SpinLock, VisitUnready, VisitSkip,
           VisitOffer, Abandon, SpinUnlock, Worker, GetCheck, GetWait, GetNotify, HandOff, GetWoken,
           GetReturn, Done, AddCall, AddLocked, ShutDownFlag, ShutDownClose, Tick, Terminated
  <2> QED
    BY <1>g, <1>o, <2>1 DEF WaitersAreExact, Waiting
<1> SUFFICES ASSUME ~done PROVE waiters' + offers' = Cardinality(Waiting')
  OBVIOUS
<1>h. waiters + offers = Cardinality(Waiting)
  BY <1>f DEF WaitersAreExact, Waiting
<1>1. CASE VisitOffer
  <2>1. waiters' = waiters - 1 /\ spin = "ascend" /\ spin' = "offer" /\ pc' = pc
    BY <1>1 DEF VisitOffer, TakeWaiter
  <2> QED
    BY <1>h, <1>t, <2>1 DEF Waiting
<1>2. ASSUME NEW w \in Workers, GetWait(w) PROVE waiters' + offers' = Cardinality(Waiting')
  <2>1. waiters' = waiters + 1 /\ spin' = spin /\ Waiting' = Waiting \cup {w} /\ w \notin Waiting
    BY <1>2, <1>t DEF GetWait, Waiting, walk
  <2>2. Cardinality(Waiting') = Cardinality(Waiting) + 1
    BY <1>f, <2>1, FS_AddElement, Zenon
  <2> QED
    BY <1>h, <1>t, <2>1, <2>2
<1>3. ASSUME NEW w \in Workers, HandOff(w) PROVE waiters' + offers' = Cardinality(Waiting')
  <2>1. /\ waiters' = waiters /\ spin = "offer" /\ spin' = "ascend"
        /\ Waiting' = Waiting \ {w} /\ w \in Waiting
    BY <1>3, <1>t DEF HandOff, Waiting
  <2>2. Cardinality(Waiting') = Cardinality(Waiting) - 1
    BY <1>f, <2>1, FS_RemoveElement
  <2> QED
    BY <1>h, <1>t, <1>f, <2>1, <2>2
<1>4. ASSUME NEW w \in Workers,
             GetCheck(w) \/ GetNotify(w) \/ GetReturn(w) \/ Done(w)
      PROVE  waiters' + offers' = Cardinality(Waiting')
  <2>1. waiters' = waiters /\ spin' = spin /\ Waiting' = Waiting
    BY <1>4, <1>t DEF GetCheck, GetNotify, GetReturn, Done, Waiting, walk
  <2> QED
    BY <1>h, <2>1, Zenon
<1>5. CASE \/ SpinStop \/ SpinWake \/ SpinLock \/ VisitUnready \/ VisitSkip \/ SpinUnlock
           \/ \E a \in Adders : AddCall(a) \/ AddLocked(a)
           \/ ShutDownFlag \/ Tick \/ Terminated \/ UNCHANGED vars
  <2>1. waiters' = waiters /\ (spin' = "offer" <=> spin = "offer") /\ pc' = pc
    BY <1>5, Zenon DEF SpinStop, SpinWake, SpinLock, VisitUnready, VisitSkip, SpinUnlock,
                AddCall, AddLocked, ShutDownFlag, Tick, Terminated, vars, walk
  <2>2. Waiting' = Waiting
    BY <2>1, Zenon DEF Waiting
  <2> QED
    BY <1>h, <2>1, <2>2
<1>6. CASE Abandon \/ ShutDownClose \/ \E w \in Workers : GetWoken(w)
  BY <1>6 DEF Abandon, ShutDownClose, GetWoken
<1> QED
  BY <1>1, <1>2, <1>3, <1>4, <1>5, <1>6, Zenon DEF Next, Spin, Worker

\* Until shutdown waiters is the number of workers that wait, less the one a
\* pending send is meant for, however they and spin interleave.
THEOREM QueueWaiters == Spec => []WaitersAreExact
<1>1. Init => WaitersAreExact
  <2> SUFFICES ASSUME Init PROVE WaitersAreExact
    OBVIOUS
  <2>1. {w \in Workers : pc[w] \in {"announcing", "parked"}} = {} /\ OnOffer = {} /\ waiters = 0
    BY DEF Init, OnOffer
  <2> QED
    BY <2>1, FS_EmptySet DEF WaitersAreExact
<1> QED
  BY <1>1, QueueInvariant, WaitersStepInv, PTL DEF Spec

\* spin, which sends with both locks held, never waits for a worker that is not
\* there: the count it takes a waiter from is exact, so the send has a receiver, and
\* the callers that wait for the locks get them.
THEOREM QueueOfferIsTaken == Spec => []OfferIsTaken
<1>1. ASSUME Inv, WaitersAreExact PROVE OfferIsTaken
  <2> SUFFICES ASSUME spin = "offer", ~done,
                      \A w \in Workers : pc[w] \notin {"announcing", "parked"}
               PROVE  FALSE
    BY DEF OfferIsTaken
  <2>1. Waiting = {}
    BY DEF Waiting
  <2>2. Cardinality(Waiting) = 0
    BY <2>1, FS_EmptySet
  <2>3. waiters + Cardinality(OnOffer) = Cardinality(Waiting)
    BY <1>1 DEF WaitersAreExact, Waiting
  <2>4. waiters \in Nat /\ Cardinality(OnOffer) = 1
    BY <1>1, WaitingIsFinite DEF Inv, TypeOK
  <2> QED
    BY <2>2, <2>3, <2>4
<1> QED
  BY <1>1, QueueInvariant, QueueWaiters, PTL

\* Len counts every ready item, although it stops at the first one that is not.
THEOREM QueueLen == Spec => []LenCountsReady
<1>1. ASSUME Inv PROVE LenCountsReady
  <2>1. queue \subseteq Item /\ now \in Nat
    BY <1>1 DEF Inv, TypeOK
  <2>2. \A i \in queue : (\A j \in queue : ~Ready(j) => less(i, j)) <=> Ready(i)
    BY <2>1 DEF Ready, less, Item
  <2>3. {i \in queue : \A j \in queue : ~Ready(j) => less(i, j)} = {i \in queue : Ready(i)}
    BY <2>2
  <2> QED
    BY <2>3 DEF LenCountsReady, Len
<1> QED
  BY <1>1, QueueInvariant, PTL

-----------------------------------------------------------------------------
(* The depth metric                                                        *)

\* The keys the depth metric of priority p counts.
CountedAt(p) == {k \in Present : Counted(k) /\ items[k].priority = p}

\* DepthIsExact, with what makes the counts meaningful: the map is finite.
DepthInv == IsFiniteSet(Present) /\ DepthIsExact

\* What one change of a gauge does to each gauge.
LEMMA IncValue ==
  ASSUME NEW d \in [Priorities -> Int], NEW p, NEW q \in Priorities
  PROVE  Inc(d, p)[q] = IF q = p THEN d[q] + 1 ELSE d[q]
BY DEF Inc

\* What Dec does to one priority of the gauge.
LEMMA DecValue ==
  ASSUME NEW d \in [Priorities -> Int], NEW p, NEW q \in Priorities
  PROVE  Dec(d, p)[q] = IF q = p THEN d[q] - 1 ELSE d[q]
BY Zenon DEF Dec

\* A key that moves from priority p to priority r, and one that is counted and
\* taken off at once.
LEMMA MoveValue ==
  ASSUME NEW d \in [Priorities -> Int], NEW p, NEW r, NEW q \in Priorities
  PROVE  /\ q = r /\ q # p => Inc(Dec(d, p), r)[q] = d[q] + 1
         /\ q = p /\ q # r => Inc(Dec(d, p), r)[q] = d[q] - 1
         /\ q # p /\ q # r => Inc(Dec(d, p), r)[q] = d[q]
         /\ Dec(Inc(d, p), p)[q] = d[q]
<1>1. Dec(d, p) \in [Priorities -> Int] /\ Inc(d, p) \in [Priorities -> Int] /\ d[q] \in Int
  BY GaugeType
<1>2. Dec(d, p)[q] = IF q = p THEN d[q] - 1 ELSE d[q]
  BY DecValue
<1>3. Inc(Dec(d, p), r)[q] = IF q = r THEN Dec(d, p)[q] + 1 ELSE Dec(d, p)[q]
  BY <1>1, IncValue
<1>4. Inc(d, p)[q] = IF q = p THEN d[q] + 1 ELSE d[q]
  BY IncValue
<1>5. Dec(Inc(d, p), p)[q] = IF q = p THEN Inc(d, p)[q] - 1 ELSE Inc(d, p)[q]
  BY <1>1, DecValue
<1>6. d[q] \in Int
  BY <1>1, Zenon
<1>7. q = r /\ q # p => Inc(Dec(d, p), r)[q] = d[q] + 1
  BY <1>2, <1>3, Zenon
<1>8. q = p /\ q # r => Inc(Dec(d, p), r)[q] = d[q] - 1
  BY <1>2, <1>3, Zenon
<1>9. q # p /\ q # r => Inc(Dec(d, p), r)[q] = d[q]
  BY <1>2, <1>3
<1>10. Dec(Inc(d, p), p)[q] = d[q]
  <2> DEFINE v == d[q]
  <2>1. Dec(Inc(d, p), p)[q] = v
    <3>1. CASE q = p
      <4>1. Inc(d, p)[q] = v + 1 /\ Dec(Inc(d, p), p)[q] = Inc(d, p)[q] - 1 /\ v \in Int
        BY <1>4, <1>5, <1>6, <3>1, Zenon
      <4> HIDE DEF v
      <4> QED
        BY <4>1
    <3>2. CASE q # p
      BY <1>4, <1>5, <3>2
    <3> QED
      BY <3>1, <3>2, Zenon
  <2> QED
    BY <2>1
<1> QED
  BY <1>7, <1>8, <1>9, <1>10

\* The keys of one priority are finitely many.
LEMMA CountedIsFinite ==
  ASSUME IsFiniteSet(Present), NEW p
  PROVE  IsFiniteSet(CountedAt(p)) /\ Cardinality(CountedAt(p)) \in Int
<1>1. CountedAt(p) \in SUBSET Present
  BY DEF CountedAt
<1>2. IsFiniteSet(CountedAt(p))
  BY <1>1, FS_Subset
<1> QED
  BY <1>2, FS_CardinalityType

\* A key that starts to count adds one to the gauge of its priority.
LEMMA CountedMore ==
  ASSUME NEW S, NEW x, IsFiniteSet(S), x \notin S
  PROVE  Cardinality(S \cup {x}) = Cardinality(S) + 1
BY FS_AddElement

\* A key that no longer counts takes one from the gauge of its priority.
LEMMA CountedLess ==
  ASSUME NEW S, NEW x, IsFiniteSet(S), x \in S
  PROVE  Cardinality(S \ {x}) = Cardinality(S) - 1
BY FS_RemoveElement, Zenon

\* A step that changes neither the map nor what is counted.
LEMMA QuietDepth ==
  ASSUME DepthInv, UNCHANGED <<items, becameReady, depth, addTimes>>, started' = locked'
  PROVE  DepthInv'
<1>1. Present' = Present
  BY DEF Present
<1>2. \A k : Counted(k)' <=> Counted(k)
  BY DEF Counted
<1>3. \A p : {k \in Present' : Counted(k)' /\ items'[k].priority = p}
              = {k \in Present : Counted(k) /\ items[k].priority = p}
  BY <1>1, <1>2
<1>4. {k \in Present' : Counted(k)'} = {k \in Present : Counted(k)}
  BY <1>1, <1>2
<1> QED
  BY <1>1, <1>3, <1>4 DEF DepthInv, DepthIsExact

\* A step that keeps DepthIsExact, stated with CountedAt.
LEMMA DepthFrom ==
  ASSUME IsFiniteSet(Present'),
         \A p \in Priorities : depth'[p] = Cardinality(CountedAt(p)'),
         \A k \in Keys : k \in addTimes' <=> k \in Present' /\ Counted(k)',
         addTimes' \subseteq Keys,
         becameReady' \subseteq Present',
         started' = locked'
  PROVE  DepthInv'
<1>1. Present' \subseteq Keys
  BY DEF Present
<1>2. addTimes' = {k \in Present' : Counted(k)'}
  BY <1>1, Zenon
<1>3. \A p : CountedAt(p)' = {k \in Present' : Counted(k)' /\ items'[k].priority = p}
  BY Zenon DEF CountedAt
<1> QED
  BY <1>2, <1>3, Zenon DEF DepthInv, DepthIsExact

\* DepthIsExact of the current state, stated with CountedAt.
LEMMA DepthNow ==
  ASSUME Inv, DepthInv
  PROVE  /\ IsFiniteSet(Present)
         /\ depth \in [Priorities -> Int]
         /\ \A p \in Priorities : depth[p] = Cardinality(CountedAt(p))
         /\ \A k \in Keys : k \in addTimes <=> k \in Present /\ Counted(k)
         /\ addTimes \subseteq Keys
         /\ becameReady \subseteq Present
         /\ started = locked
         /\ items \in [Keys -> Item \cup {Absent}]
BY DEF Inv, TypeOK, DepthInv, DepthIsExact, CountedAt, Present

\* A new key is counted at once exactly when it has no delay.
LEMMA AddNewDepth ==
  ASSUME Inv, DepthInv, NEW o \in AddOpts, NEW readyAt \in Nat, AddNew(o, readyAt),
         UNCHANGED <<becameReady, locked, started>>
  PROVE  DepthInv'
<1>d. depth \in [Priorities -> Int]
  BY DepthNow, Zenon
<1> DEFINE item == [key |-> o.key, addedCounter |-> addedCounter,
                    priority |-> o.priority, readyAt |-> readyAt]
<1>1. /\ items[o.key] = Absent
      /\ items' = [items EXCEPT ![o.key] = item]
  BY Zenon DEF AddNew
<1>2. o.key \in Keys /\ o.priority \in Int
  BY QueueConstants, Zenon DEF AddOpts
<1>3. item # Absent /\ item.priority = o.priority /\ item.readyAt = readyAt
  <2>1. item \in Item
    BY <1>2, Zenon DEF Item, Inv, TypeOK
  <2> QED
    BY <2>1, QueueConstants, Zenon
<1> HIDE DEF item
<1>4. items'[o.key] = item /\ \A k \in Keys : k # o.key => items'[k] = items[k]
  BY <1>1, <1>2, DepthNow, Zenon
<1>5. Present' = Present \cup {o.key} /\ o.key \notin Present
  BY <1>1, <1>2, <1>3, <1>4, Zenon DEF Present
<1>6. o.key \notin becameReady
  BY <1>5, DepthNow, Zenon
<1>7. /\ \A k \in Keys : k # o.key => (Counted(k)' <=> Counted(k))
      /\ Counted(o.key)' <=> readyAt = NilTime
  BY <1>3, <1>4, <1>6, Zenon DEF Counted
<1>8. IsFiniteSet(Present')
  BY <1>5, DepthNow, FS_AddElement, Zenon
<1>9. \A p : CountedAt(p)' = IF readyAt = NilTime /\ p = o.priority
                             THEN CountedAt(p) \cup {o.key} ELSE CountedAt(p)
  <2>1. ASSUME NEW p, NEW k
        PROVE  k \in CountedAt(p)' <=>
                 k \in CountedAt(p) \/ (k = o.key /\ readyAt = NilTime /\ p = o.priority)
    <3>1. CASE k = o.key
      BY <1>3, <1>4, <1>5, <1>7, <3>1, Zenon DEF CountedAt
    <3>2. CASE k # o.key
      BY <1>4, <1>5, <1>7, <3>2, Zenon DEF CountedAt, Present
    <3> QED
      BY <3>1, <3>2, Zenon
  <2> QED
    BY <2>1
<1>10. ASSUME NEW p \in Priorities PROVE depth'[p] = Cardinality(CountedAt(p)')
  <2>1. depth[p] = Cardinality(CountedAt(p)) /\ IsFiniteSet(CountedAt(p))
    BY DepthNow, CountedIsFinite, Zenon
  <2>2. o.key \notin CountedAt(p)
    BY <1>5, Zenon DEF CountedAt
  <2>3. CASE readyAt = NilTime
    <3>1. depth' = Inc(depth, o.priority)
      BY <2>3, Zenon DEF AddNew
    <3>2. depth'[p] = IF p = o.priority THEN depth[p] + 1 ELSE depth[p]
      <4>1. Inc(depth, o.priority)[p] = IF p = o.priority THEN depth[p] + 1 ELSE depth[p]
        BY <1>d, IncValue, Zenon
      <4> QED
        BY <3>1, <4>1
    <3>3. Cardinality(CountedAt(p) \cup {o.key}) = Cardinality(CountedAt(p)) + 1
      BY <2>1, <2>2, CountedMore, Zenon
    <3>4. CASE p = o.priority
      <4>1. CountedAt(p)' = CountedAt(p) \cup {o.key}
        BY <1>9, <2>3, <3>4, Zenon
      <4>2. depth'[p] = depth[p] + 1
        BY <3>2, <3>4, Zenon
      <4> QED
        BY <2>1, <3>3, <4>1, <4>2, Zenon
    <3>5. CASE p # o.priority
      <4>1. CountedAt(p)' = CountedAt(p)
        BY <1>9, <2>3, <3>5, Zenon
      <4>2. depth'[p] = depth[p]
        BY <3>2, <3>5, Zenon
      <4> QED
        BY <2>1, <4>1, <4>2, Zenon
    <3> QED
      BY <3>4, <3>5
  <2>4. CASE readyAt # NilTime
    <3>1. depth' = depth
      BY <2>4, Zenon DEF AddNew
    <3> QED
      BY <1>9, <2>1, <2>4, <3>1, Zenon
  <2> QED
    BY <2>3, <2>4, Zenon
<1>11. /\ addTimes' \subseteq Keys
       /\ \A k \in Keys : k \in addTimes' <=> k \in Present' /\ Counted(k)'
  <2>1. addTimes' = IF readyAt = NilTime THEN addTimes \cup {o.key} ELSE addTimes
    BY Zenon DEF AddNew
  <2> QED
    BY <1>2, <1>5, <1>7, <2>1, DepthNow, Zenon
<1>12. becameReady' \subseteq Present' /\ started' = locked'
  BY <1>5, DepthNow, Zenon
<1> QED
  BY <1>8, <1>10, <1>11, <1>12, DepthFrom, Zenon

\* A queued key that changes: its priority moves from one gauge to another when
\* it is counted, and it is counted when its delay is dropped.
LEMMA AddExistingDepth ==
  ASSUME Inv, DepthInv, NEW o \in AddOpts, NEW readyAt \in Nat, AddExisting(o, readyAt),
         UNCHANGED <<becameReady, locked, started>>
  PROVE  DepthInv'
<1>d. depth \in [Priorities -> Int]
  BY DepthNow
<1> DEFINE old  == items[o.key]
           new  == IF Raised(o, old) THEN o.priority ELSE old.priority
           at   == IF old.readyAt # NilTime /\ readyAt < old.readyAt THEN readyAt ELSE old.readyAt
           item == [old EXCEPT !.priority = IF Raised(o, old) THEN o.priority ELSE @,
                               !.readyAt  = IF old.readyAt # NilTime /\ readyAt < old.readyAt
                                            THEN readyAt ELSE @]
<1>1. /\ old # Absent
      /\ items' = [items EXCEPT ![o.key] = item]
  BY DEF AddExisting
<1>2. o.key \in Keys /\ o.priority \in Int
  BY QueueConstants, Zenon DEF AddOpts
<1>3. old \in Item
  BY <1>1, <1>2, DepthNow
<1>4. item \in Item /\ item.priority = new /\ item.readyAt = at
  <2>1. new \in Int /\ at \in Nat
    BY <1>2, <1>3 DEF Item
  <2>2. item = [old EXCEPT !.priority = new, !.readyAt = at]
    OBVIOUS
  <2> HIDE DEF new, at, item, old
  <2> QED
    BY <1>3, <2>1, <2>2, Zenon DEF Item
<1>5. item # Absent
  BY <1>4, QueueConstants
<1>6. new \in Int /\ old.priority \in Int /\ at \in Nat /\ old.readyAt \in Nat
  <2>1. old.priority \in Int /\ old.readyAt \in Nat
    <3> HIDE DEF old
    <3> QED
      BY <1>3 DEF Item
  <2> HIDE DEF old
  <2> QED
    BY <1>2, <2>1
<1>7. Raised(o, old) <=> new # old.priority
  <2>1. Raised(o, old) <=> o.priority > old.priority
    BY Zenon DEF Raised
  <2>2. new = IF Raised(o, old) THEN o.priority ELSE old.priority
    BY Zenon
  <2>3. old.priority \in Int
    BY <1>6, Zenon
  <2> HIDE DEF new, old
  <2> QED
    BY <1>2, <2>1, <2>2, <2>3
<1>8. (at = NilTime <=> old.readyAt = NilTime \/ readyAt = NilTime)
  BY <1>6 DEF NilTime
<1>9. /\ depth' = IF Counted(o.key)
                  THEN IF Raised(o, old) THEN Inc(Dec(depth, old.priority), o.priority) ELSE depth
                  ELSE IF readyAt = NilTime THEN Inc(depth, item.priority) ELSE depth
      /\ addTimes' = IF ~Counted(o.key) /\ readyAt = NilTime
                     THEN addTimes \cup {o.key} ELSE addTimes
  BY Zenon DEF AddExisting
<1>10. Raised(o, old) => new = o.priority
  BY Zenon
<1> HIDE DEF item, new, at
<1>11. items'[o.key] = item /\ \A k \in Keys : k # o.key => items'[k] = items[k]
  BY <1>1, <1>2, DepthNow, Zenon
<1>12. Present' = Present /\ o.key \in Present
  BY <1>1, <1>2, <1>5, <1>11, Zenon DEF Present
<1>13. /\ \A k \in Keys : k # o.key => (Counted(k)' <=> Counted(k))
       /\ Counted(o.key)' <=> Counted(o.key) \/ readyAt = NilTime
  <2>1. Counted(o.key)' <=> at = NilTime \/ o.key \in becameReady
    BY <1>4, <1>11, Zenon DEF Counted
  <2>2. Counted(o.key) <=> old.readyAt = NilTime \/ o.key \in becameReady
    BY Zenon DEF Counted
  <2> QED
    BY <1>8, <1>11, <2>1, <2>2, Zenon DEF Counted
<1>14. ASSUME NEW p
       PROVE  /\ CountedAt(p)' \ {o.key} = CountedAt(p) \ {o.key}
              /\ o.key \in CountedAt(p)' <=> (Counted(o.key) \/ readyAt = NilTime) /\ p = new
              /\ o.key \in CountedAt(p) <=> Counted(o.key) /\ p = old.priority
  <2>1. \A k : k # o.key => (k \in CountedAt(p)' <=> k \in CountedAt(p))
    BY <1>11, <1>12, <1>13, Zenon DEF CountedAt, Present
  <2>2. o.key \in CountedAt(p)' <=> (Counted(o.key) \/ readyAt = NilTime) /\ p = new
    BY <1>4, <1>11, <1>12, <1>13, Zenon DEF CountedAt
  <2>3. o.key \in CountedAt(p) <=> Counted(o.key) /\ p = old.priority
    BY <1>12, Zenon DEF CountedAt
  <2> QED
    BY <2>1, <2>2, <2>3, Zenon
<1> HIDE DEF old
<1>15. ASSUME NEW p \in Priorities PROVE depth'[p] = Cardinality(CountedAt(p)')
  <2> DEFINE before == CountedAt(p)
             after  == CountedAt(p)'
  <2>1. depth[p] = Cardinality(before) /\ IsFiniteSet(before) /\ depth[p] \in Int
    BY DepthNow, CountedIsFinite, Zenon
  <2>2. before \ {o.key} = after \ {o.key}
    BY <1>14, Zenon
  <2>3. o.key \in after <=> (Counted(o.key) \/ readyAt = NilTime) /\ p = new
    BY <1>14, Zenon
  <2>4. o.key \in before <=> Counted(o.key) /\ p = old.priority
    BY <1>14, Zenon
  <2> HIDE DEF before, after
  <2>5. CASE o.key \in after /\ o.key \notin before
    <3>1. Cardinality(after) = Cardinality(before) + 1
      <4>1. after = before \cup {o.key}
        BY <2>2, <2>5, Zenon
      <4> QED
        BY <2>1, <2>5, <4>1, CountedMore, Zenon
    <3>2. depth'[p] = depth[p] + 1
      <4>1. CASE Counted(o.key)
        <5>0. p = new /\ p # old.priority
          BY <2>3, <2>4, <2>5, <4>1, Zenon
        <5>1. Raised(o, old) /\ p = o.priority /\ p # old.priority
          BY <1>7, <1>10, <5>0, Zenon
        <5>2. depth' = Inc(Dec(depth, old.priority), o.priority)
          BY <1>9, <4>1, <5>1, Zenon
        <5>3. Inc(Dec(depth, old.priority), o.priority)[p] = depth[p] + 1
          BY <1>d, <5>1, MoveValue
        <5> QED
          BY <5>2, <5>3, Zenon
      <4>2. CASE ~Counted(o.key)
        <5>1. depth' = Inc(depth, p)
          BY <1>4, <1>9, <2>3, <2>5, <4>2, Zenon
        <5> QED
          <6>1. Inc(depth, p)[p] = depth[p] + 1
            BY <1>d, IncValue
          <6> QED
            BY <5>1, <6>1, Zenon
      <4> QED
        BY <4>1, <4>2, Zenon
    <3> QED
      BY <2>1, <3>1, <3>2, Zenon DEF after
  <2>6. CASE o.key \in before /\ o.key \notin after
    <3>1. Cardinality(after) = Cardinality(before) - 1
      <4>1. after = before \ {o.key}
        BY <2>2, <2>6
      <4> QED
        BY <2>1, <2>6, <4>1, CountedLess, Zenon
    <3>2. Counted(o.key) /\ p = old.priority /\ p # new
      BY <2>3, <2>4, <2>6, Zenon
    <3>3. Raised(o, old) /\ p # o.priority
      BY <1>7, <1>10, <3>2, Zenon
    <3>4. depth' = Inc(Dec(depth, p), o.priority)
      BY <1>9, <3>2, <3>3, Zenon
    <3>5. depth'[p] = depth[p] - 1
      <4>1. Inc(Dec(depth, p), o.priority)[p] = depth[p] - 1
        BY <1>d, <3>3, MoveValue
      <4> QED
        BY <3>4, <4>1, Zenon
    <3> QED
      BY <2>1, <3>1, <3>5, Zenon DEF after
  <2>7. CASE o.key \in before <=> o.key \in after
    <3>1. after = before
      BY <2>2, <2>7
    <3>2. depth'[p] = depth[p]
      <4>1. CASE Counted(o.key) /\ Raised(o, old)
        <5>1. new # old.priority /\ new = o.priority
          BY <1>7, <1>10, <4>1, Zenon
        <5>2. p # old.priority /\ p # o.priority
          BY <2>3, <2>4, <2>7, <4>1, <5>1
        <5>3. depth' = Inc(Dec(depth, old.priority), o.priority)
          BY <1>9, <4>1, Zenon
        <5> QED
          <6>1. Inc(Dec(depth, old.priority), o.priority)[p] = depth[p]
            BY <1>d, <5>2, MoveValue
          <6> QED
            BY <5>3, <6>1, Zenon
      <4>2. CASE ~Counted(o.key) /\ readyAt = NilTime
        <5>1. p # new
          BY <2>3, <2>4, <2>7, <4>2
        <5>2. depth' = Inc(depth, new)
          BY <1>4, <1>9, <4>2, Zenon
        <5> QED
          <6>1. Inc(depth, new)[p] = depth[p]
            BY <1>d, <5>1, IncValue, Zenon
          <6> QED
            BY <5>2, <6>1, Zenon
      <4>3. CASE depth' = depth
        BY <4>3, Zenon
      <4> QED
        BY <1>9, <4>1, <4>2, <4>3, Zenon
    <3> QED
      BY <2>1, <3>1, <3>2, Zenon DEF after
  <2> QED
    BY <2>5, <2>6, <2>7, Zenon
<1>16. /\ addTimes' \subseteq Keys
       /\ \A k \in Keys : k \in addTimes' <=> k \in Present' /\ Counted(k)'
  BY <1>2, <1>9, <1>12, <1>13, DepthNow, Zenon
<1>17. IsFiniteSet(Present') /\ becameReady' \subseteq Present' /\ started' = locked'
  BY <1>12, DepthNow, Zenon
<1> QED
  BY <1>15, <1>16, <1>17, DepthFrom

\* The item the walk visits is the one of its key in the map.
LEMMA VisitedIsQueued ==
  ASSUME Inv, spin = "ascend", rest # {}
  PROVE  LET i == First(rest)
         IN i \in Item /\ i.key \in Keys /\ items[i.key] = i /\ i.key \in Present
<1>1. First(rest) \in rest /\ First(rest) \in Item
  BY FirstOfRest
<1>2. First(rest).key \in Keys
  BY <1>1, Zenon DEF Item
<1>3. items[First(rest).key] = First(rest)
  BY <1>1 DEF Inv, WalkInv
<1> QED
  BY <1>1, <1>2, <1>3, QueueConstants DEF Present

\* A walked-over item is counted the first time spin sees that its delay ended.
LEMMA VisitSkipDepth ==
  ASSUME Inv, DepthInv, VisitSkip
  PROVE  DepthInv'
<1>d. depth \in [Priorities -> Int]
  BY DepthNow
<1>0. PICK i : i = First(rest)
  OBVIOUS
<1>1. i \in Item /\ i.key \in Keys /\ items[i.key] = i /\ i.key \in Present
  BY <1>0, VisitedIsQueued, Zenon DEF VisitSkip
<1>2. UNCHANGED <<items, locked, started>>
  BY DEF VisitSkip
<1>3. CASE ~NewlyReady(i)
  BY <1>0, <1>2, <1>3, QuietDepth, Zenon DEF VisitSkip, DepthInv, DepthIsExact
<1>4. CASE NewlyReady(i)
  <2>1. /\ depth' = Inc(depth, i.priority)
        /\ addTimes' = addTimes \cup {i.key}
        /\ becameReady' = becameReady \cup {i.key}
    BY <1>0, <1>4, Zenon DEF VisitSkip
  <2>2. ~Counted(i.key) /\ Counted(i.key)'
    BY <1>1, <1>2, <1>4, <2>1, Zenon DEF Counted, NewlyReady
  <2>3. \A k : k # i.key => (Counted(k)' <=> Counted(k))
    BY <1>2, <2>1 DEF Counted
  <2>4. Present' = Present
    BY <1>2, Zenon DEF Present
  <2>5. \A p : /\ i.key \notin CountedAt(p)
               /\ CountedAt(p)' = IF p = i.priority THEN CountedAt(p) \cup {i.key} ELSE CountedAt(p)
    <3>1. ASSUME NEW p, NEW k
          PROVE  k \in CountedAt(p)' <=> k \in CountedAt(p) \/ (k = i.key /\ p = i.priority)
      <4>1. CASE k = i.key
        BY <1>1, <1>2, <2>2, <2>4, <4>1, Zenon DEF CountedAt
      <4>2. CASE k # i.key
        BY <1>2, <2>3, <2>4, <4>2, Zenon DEF CountedAt
      <4> QED
        BY <4>1, <4>2, Zenon
    <3>2. \A p : i.key \notin CountedAt(p)
      BY <2>2, Zenon DEF CountedAt
    <3> QED
      BY <3>1, <3>2, Zenon
  <2>6. ASSUME NEW p \in Priorities PROVE depth'[p] = Cardinality(CountedAt(p)')
    <3>1. depth[p] = Cardinality(CountedAt(p)) /\ IsFiniteSet(CountedAt(p))
      BY DepthNow, CountedIsFinite, Zenon
    <3>2. depth'[p] = IF p = i.priority THEN depth[p] + 1 ELSE depth[p]
      <4>1. Inc(depth, i.priority)[p] = IF p = i.priority THEN depth[p] + 1 ELSE depth[p]
        BY <1>d, IncValue, Zenon
      <4> QED
        BY <2>1, <4>1, Zenon
    <3>3. Cardinality(CountedAt(p) \cup {i.key}) = Cardinality(CountedAt(p)) + 1
      BY <2>5, <3>1, CountedMore, Zenon
    <3>4. CASE p = i.priority
      BY <2>5, <3>1, <3>2, <3>3, <3>4, Zenon
    <3>5. CASE p # i.priority
      BY <2>5, <3>1, <3>2, <3>5, Zenon
    <3> QED
      BY <3>4, <3>5, Zenon
  <2>7. /\ addTimes' \subseteq Keys
        /\ \A k \in Keys : k \in addTimes' <=> k \in Present' /\ Counted(k)'
    BY <1>1, <2>1, <2>2, <2>3, <2>4, DepthNow, Zenon
  <2>8. IsFiniteSet(Present') /\ becameReady' \subseteq Present' /\ started' = locked'
    BY <1>1, <1>2, <2>1, <2>4, DepthNow, Zenon
  <2> QED
    BY <2>6, <2>7, <2>8, DepthFrom, Zenon
<1> QED
  BY <1>3, <1>4

\* An item that leaves the map leaves the gauge it was counted in; one that was
\* never counted is counted and taken off in the same step.
LEMMA VisitOfferDepth ==
  ASSUME Inv, DepthInv, VisitOffer
  PROVE  DepthInv'
<1>d. depth \in [Priorities -> Int]
  BY DepthNow
<1> DEFINE i == First(rest)
<1>1. i \in Item /\ i.key \in Keys /\ items[i.key] = i /\ i.key \in Present
  BY VisitedIsQueued, Zenon DEF VisitOffer
<1>2. /\ depth' = Dec(IF NewlyReady(i) THEN Inc(depth, i.priority) ELSE depth, i.priority)
      /\ addTimes' = addTimes \ {i.key}
      /\ started' = started \cup {i.key}
      /\ becameReady' = becameReady \ {i.key}
      /\ locked' = locked \cup {i.key}
      /\ items' = [items EXCEPT ![i.key] = Absent]
  BY Zenon DEF VisitOffer
<1>3. NewlyReady(i) <=> ~Counted(i.key)
  BY <1>1, Zenon DEF NewlyReady, Counted
<1> HIDE DEF i
<1>4. items'[i.key] = Absent /\ \A k \in Keys : k # i.key => items'[k] = items[k]
  BY <1>1, <1>2, DepthNow, Zenon
<1>5. Present' = Present \ {i.key}
  BY <1>4, Zenon DEF Present
<1>6. \A k \in Keys : k # i.key => (Counted(k)' <=> Counted(k))
  BY <1>2, <1>4, Zenon DEF Counted
<1>7. ASSUME NEW p
      PROVE  /\ CountedAt(p)' = CountedAt(p) \ {i.key}
             /\ i.key \in CountedAt(p) <=> Counted(i.key) /\ p = i.priority
  <2>1. \A k : k \in CountedAt(p)' <=> k \in CountedAt(p) /\ k # i.key
    BY <1>4, <1>5, <1>6, Zenon DEF CountedAt, Present
  <2>2. i.key \in CountedAt(p) <=> Counted(i.key) /\ p = i.priority
    BY <1>1 DEF CountedAt
  <2> QED
    BY <2>1, <2>2, Zenon
<1>8. ASSUME NEW p \in Priorities PROVE depth'[p] = Cardinality(CountedAt(p)')
  <2>1. depth[p] = Cardinality(CountedAt(p)) /\ IsFiniteSet(CountedAt(p)) /\ depth[p] \in Int
    BY DepthNow, CountedIsFinite, Zenon
  <2>2. CASE Counted(i.key)
    <3>0. depth' = Dec(depth, i.priority)
      BY <1>2, <1>3, <2>2, Zenon
    <3>1. depth'[p] = IF p = i.priority THEN depth[p] - 1 ELSE depth[p]
      <4>1. Dec(depth, i.priority)[p] = IF p = i.priority THEN depth[p] - 1 ELSE depth[p]
        BY <1>d, DecValue, Zenon
      <4> QED
        BY <3>0, <4>1, Zenon
    <3>2. CASE p = i.priority
      <4>1. i.key \in CountedAt(p) /\ CountedAt(p)' = CountedAt(p) \ {i.key}
        BY <1>7, <2>2, <3>2, Zenon
      <4>2. Cardinality(CountedAt(p) \ {i.key}) = Cardinality(CountedAt(p)) - 1
        BY <2>1, <4>1, CountedLess, Zenon
      <4>3. depth'[p] = depth[p] - 1
        BY <3>1, <3>2, Zenon
      <4> QED
        BY <2>1, <4>1, <4>2, <4>3, Zenon
    <3>3. CASE p # i.priority
      <4>1. CountedAt(p)' = CountedAt(p)
        BY <1>7, <3>3, Zenon
      <4> QED
        BY <2>1, <3>1, <3>3, <4>1, Zenon
    <3> QED
      BY <3>2, <3>3, Zenon
  <2>3. CASE ~Counted(i.key)
    <3>1. depth' = Dec(Inc(depth, i.priority), i.priority)
      BY <1>2, <1>3, <2>3, Zenon
    <3>2. depth'[p] = depth[p]
      <4>1. Dec(Inc(depth, i.priority), i.priority)[p] = depth[p]
        BY <1>d, MoveValue, Zenon
      <4> QED
        BY <3>1, <4>1
    <3>3. CountedAt(p)' = CountedAt(p)
      BY <1>7, <2>3, Zenon
    <3> QED
      BY <2>1, <3>2, <3>3, Zenon
  <2> QED
    BY <2>2, <2>3, Zenon
<1>9. /\ addTimes' \subseteq Keys
      /\ \A k \in Keys : k \in addTimes' <=> k \in Present' /\ Counted(k)'
  BY <1>2, <1>5, <1>6, DepthNow, Zenon
<1>10. IsFiniteSet(Present') /\ becameReady' \subseteq Present' /\ started' = locked'
  BY <1>2, <1>5, DepthNow, FS_RemoveElement, Zenon
<1> QED
  BY <1>8, <1>9, <1>10, DepthFrom

\* One step of any goroutine.
LEMMA DepthStepInv == Inv /\ DepthInv /\ [Next]_vars => DepthInv'
<1> SUFFICES ASSUME Inv, DepthInv, [Next]_vars PROVE DepthInv'
  OBVIOUS
<1>h. started = locked
  BY Zenon DEF DepthInv, DepthIsExact
<1>1. CASE \E a \in Adders : AddLocked(a)
  <2>1. PICK a \in Adders : AddLocked(a)
    BY <1>1, Zenon
  <2>2. UNCHANGED <<becameReady, locked, started>>
    BY <2>1, Zenon DEF AddLocked
  <2>3. PICK o \in AddOpts, rlAfter \in Delays :
          LET after   == After(o, rlAfter)
              readyAt == IF after > 0 THEN now + after ELSE NilTime
          IN AddNew(o, readyAt) \/ AddExisting(o, readyAt)
    BY <2>1, Zenon DEF AddLocked
  <2> DEFINE readyAt == IF After(o, rlAfter) > 0 THEN now + After(o, rlAfter) ELSE NilTime
  <2>4. readyAt \in Nat
    BY AfterType DEF Inv, TypeOK, NilTime
  <2>5. AddNew(o, readyAt) \/ AddExisting(o, readyAt)
    BY <2>3, Zenon
  <2> HIDE DEF readyAt
  <2> QED
    BY <2>2, <2>4, <2>5, AddNewDepth, AddExistingDepth, Zenon
<1>2. CASE VisitSkip
  BY <1>2, VisitSkipDepth
<1>3. CASE VisitOffer
  BY <1>3, VisitOfferDepth
<1>4. CASE \E w \in Workers : Done(w)
  BY <1>h, <1>4, QuietDepth, Zenon DEF Done, tree
<1>5. CASE SpinStop \/ SpinWake \/ SpinLock \/ VisitUnready \/ Abandon \/ SpinUnlock
  BY <1>h, <1>5, QuietDepth, Zenon
  DEF SpinStop, SpinWake, SpinLock, VisitUnready, Abandon, SpinUnlock, tree, metrics
<1>6. CASE \E w \in Workers : GetCheck(w) \/ GetWait(w) \/ GetNotify(w) \/ HandOff(w)
                              \/ GetWoken(w) \/ GetReturn(w)
  BY <1>h, <1>6, QuietDepth, Zenon
  DEF GetCheck, GetWait, GetNotify, HandOff, GetWoken, GetReturn, tree, metrics
<1>7. CASE \E a \in Adders : AddCall(a)
  BY <1>h, <1>7, QuietDepth, Zenon DEF AddCall, tree, metrics
<1>8. CASE ShutDownFlag \/ ShutDownClose \/ Tick \/ UNCHANGED vars
  BY <1>h, <1>8, QuietDepth DEF ShutDownFlag, ShutDownClose, Tick, vars, tree, metrics
<1> QED
  BY <1>1, <1>2, <1>3, <1>4, <1>5, <1>6, <1>7, <1>8, Zenon DEF Next, Spin, Worker, Terminated

\* The depth metric of each priority is the number of its counted items, and
\* the time of the add is kept for exactly those keys, however AddWithOpts, the
\* walk of spin and the hand-offs interleave.
THEOREM QueueDepth == Spec => []DepthIsExact
<1>1. Init => DepthInv
  <2> SUFFICES ASSUME Init PROVE DepthInv
    OBVIOUS
  <2>1. Present = {}
    BY Zenon DEF Init, Present
  <2>2. \A p \in Priorities : depth[p] = 0
    BY DEF Init
  <2>3. \A p : {k \in Present : Counted(k) /\ items[k].priority = p} = {}
    BY <2>1, Zenon
  <2>4. addTimes = {k \in Present : Counted(k)} /\ becameReady \subseteq Present /\ started = locked
    BY <2>1 DEF Init
  <2> QED
    BY <2>1, <2>2, <2>3, <2>4, FS_EmptySet, Zenon DEF DepthInv, DepthIsExact
<1>2. DepthInv => DepthIsExact
  BY DEF DepthInv
<1> QED
  BY <1>1, <1>2, QueueInvariant, DepthStepInv, PTL DEF Spec

-----------------------------------------------------------------------------
(* The queue implements KeyedQueue: what callers see of the B-tree, the    *)
(* locks, the channels and the spin goroutine are single steps of the      *)
(* abstract queue.                                                         *)

\* What KeyedQueue knows of an item.
Entry(i) == [priority |-> i.priority, readyAt |-> i.readyAt]

\* Between two hand-offs the pending keys are those of the map.
LEMMA PendingIsMap ==
  ASSUME spin # "offer"
  PROVE  /\ OnOffer = {}
         /\ Pending = [k \in Keys |-> IF items[k] = Absent THEN Absent ELSE Entry(items[k])]
BY Zenon DEF Pending, Queued, OnOffer, Entry

\* During a hand-off the key on offer, which has left the map, is still pending.
LEMMA PendingOnOffer ==
  ASSUME Inv, spin = "offer"
  PROVE  LET i == First(rest)
         IN /\ OnOffer = {i.key}
            /\ i \in Item /\ i.key \in Keys /\ items[i.key] = Absent /\ Ready(i)
            /\ Pending = [k \in Keys |-> IF k = i.key THEN Entry(i)
                                         ELSE IF items[k] = Absent THEN Absent
                                         ELSE Entry(items[k])]
<1>1. /\ First(rest) \in Item /\ First(rest).key \in Keys
      /\ items[First(rest).key] = Absent /\ Ready(First(rest))
  BY FirstOfRest DEF Inv, WalkInv, Item
<1>2. OnOffer = {First(rest).key}
  BY DEF OnOffer
<1>3. First(rest) # Absent
  BY <1>1, QueueConstants, Zenon
<1> QED
  BY <1>1, <1>2, <1>3, Zenon DEF Pending, Queued, Entry

\* An entry is never mistaken for "no entry".
LEMMA EntryIsPresent ==
  ASSUME NEW i \in Item
  PROVE  Entry(i) # Absent
<1>1. i.priority \in Int /\ i.readyAt \in Nat
  BY Zenon DEF Item
<1>2. Entry(i) \in [priority : Int, readyAt : Nat]
  BY <1>1, Zenon DEF Entry
<1> QED
  BY <1>2, QueueConstants

\* The queue New returns is the empty abstract queue.
LEMMA InitRefines == Init => Abstract!Init
BY PendingIsMap DEF Init, Abstract!Init

\* Steps inside the queue, and of workers and callers that move no key, are
\* invisible.
LEMMA QuietRefines ==
  ASSUME UNCHANGED <<items, locked, got, shutdown, now>>, spin # "offer", spin' # "offer"
  PROVE  UNCHANGED Abstract!qvars
BY PendingIsMap, Zenon DEF Abstract!qvars, Pending, Queued, OnOffer

\* A step that leaves the walk alone is invisible, even during a hand-off.
LEMMA StillRefines ==
  ASSUME UNCHANGED <<items, locked, got, shutdown, now, spin, rest>>
  PROVE  UNCHANGED Abstract!qvars
BY Zenon DEF Abstract!qvars, Pending, Queued, OnOffer

\* The start of a hand-off is invisible: the key stays pending.
LEMMA VisitOfferRefines ==
  ASSUME Inv, Inv', VisitOffer
  PROVE  UNCHANGED Abstract!qvars
<1> DEFINE i == First(rest)
<1>1. /\ spin = "ascend" /\ spin' = "offer" /\ rest # {} /\ i.key \notin locked
      /\ locked' = locked \cup {i.key}
      /\ items' = [items EXCEPT ![i.key] = Absent]
      /\ UNCHANGED <<chans, now, rest, got>>
  BY Zenon DEF VisitOffer, PassOver
<1>2. i \in rest /\ i \in Item /\ i.key \in Keys /\ items[i.key] = i /\ i # Absent
  BY <1>1, FirstOfRest, QueueConstants, Zenon DEF Inv, WalkInv, Item
<1>3. /\ OnOffer = {}
      /\ Pending = [k \in Keys |-> IF items[k] = Absent THEN Absent ELSE Entry(items[k])]
  BY <1>1, PendingIsMap, Zenon
<1>4. /\ OnOffer' = {i.key}
      /\ Pending' = [k \in Keys |-> IF k = i.key THEN Entry(i)
                                    ELSE IF items'[k] = Absent THEN Absent ELSE Entry(items'[k])]
  <2>1. OnOffer' = {i.key}
    BY <1>1, Zenon DEF OnOffer
  <2>2. \A k \in Keys : Queued(k)' = IF k = i.key THEN i ELSE items'[k]
    BY <1>1, <2>1 DEF Queued
  <2> HIDE DEF i
  <2> QED
    BY <1>2, <2>1, <2>2, Zenon DEF Pending, Entry
<1>5. \A k \in Keys : k # i.key => items'[k] = items[k]
  BY <1>1, Zenon DEF Inv, TypeOK
<1>6. Pending' = Pending
  BY <1>2, <1>3, <1>4, <1>5, Zenon
<1>7. (locked \ OnOffer)' = locked \ OnOffer
  BY <1>1, <1>3, <1>4
<1> QED
  BY <1>1, <1>6, <1>7, Zenon DEF Abstract!qvars, chans

\* The receive is the abstract Take; giving it up at shutdown is Drop.
LEMMA HandOffRefines ==
  ASSUME Inv, Inv', NEW w \in Workers, HandOff(w)
  PROVE  Abstract!Next
<1> DEFINE i == First(rest)
<1>1. /\ spin = "offer" /\ spin' = "ascend" /\ pc[w] = "parked"
      /\ got' = [got EXCEPT ![w] = i.key]
      /\ UNCHANGED <<items, locked, shutdown, now>>
  BY DEF HandOff, tree, chans
<1>2. /\ OnOffer = {i.key} /\ i \in Item /\ i.key \in Keys /\ items[i.key] = Absent /\ Ready(i)
      /\ Pending = [k \in Keys |-> IF k = i.key THEN Entry(i)
                                   ELSE IF items[k] = Absent THEN Absent ELSE Entry(items[k])]
  BY <1>1, PendingOnOffer, Zenon
<1>3. /\ OnOffer' = {}
      /\ Pending' = [k \in Keys |-> IF items[k] = Absent THEN Absent ELSE Entry(items[k])]
  BY <1>1, Zenon DEF OnOffer, Pending, Queued, Entry
<1>4. got[w] = Absent
  BY <1>1 DEF Inv, HandInv
<1>5. Pending' = [Pending EXCEPT ![i.key] = Absent]
  BY <1>2, <1>3, Zenon
<1>6. Pending[i.key] # Absent /\ Pending[i.key].readyAt <= now
  BY <1>2, EntryIsPresent, Zenon DEF Entry, Ready
<1>7. i.key \in locked
  BY <1>2, Zenon DEF Inv, HandInv, ExclusiveHandout
<1>8. i.key \notin locked \ OnOffer /\ (locked \ OnOffer)' = (locked \ OnOffer) \cup {i.key}
  BY <1>1, <1>2, <1>3, <1>7, Zenon
<1>9. Abstract!Take(w, i.key)
  BY <1>1, <1>4, <1>5, <1>6, <1>8, Zenon DEF Abstract!Take
<1> QED
  BY <1>2, <1>9, Zenon DEF Abstract!Next

\* The hand-off that shutdown interrupts is the abstract Drop.
LEMMA AbandonRefines ==
  ASSUME Inv, Inv', Abandon
  PROVE  Abstract!Next
<1> DEFINE i == First(rest)
<1>1. /\ spin = "offer" /\ spin' = "ascend" /\ done
      /\ UNCHANGED <<items, locked, got, shutdown, now>>
  BY DEF Abandon, tree, chans
<1>2. /\ OnOffer = {i.key} /\ i \in Item /\ i.key \in Keys /\ items[i.key] = Absent
      /\ Pending = [k \in Keys |-> IF k = i.key THEN Entry(i)
                                   ELSE IF items[k] = Absent THEN Absent ELSE Entry(items[k])]
  BY <1>1, PendingOnOffer, Zenon
<1>3. /\ OnOffer' = {}
      /\ Pending' = [k \in Keys |-> IF items[k] = Absent THEN Absent ELSE Entry(items[k])]
  BY <1>1, Zenon DEF OnOffer, Pending, Queued, Entry
<1>4. shutdown /\ i.key \in locked
  BY <1>1, <1>2, Zenon DEF Inv, HandInv, ExclusiveHandout
<1>5. Pending' = [Pending EXCEPT ![i.key] = Absent] /\ Pending[i.key] # Absent
  BY <1>2, <1>3, EntryIsPresent, Zenon
<1>6. i.key \notin locked \ OnOffer /\ (locked \ OnOffer)' = (locked \ OnOffer) \cup {i.key}
  BY <1>1, <1>2, <1>3, <1>4, Zenon
<1>7. Abstract!Drop(i.key)
  BY <1>1, <1>4, <1>5, <1>6, Zenon DEF Abstract!Drop
<1> QED
  BY <1>2, <1>7, Zenon DEF Abstract!Next

\* AddWithOpts is the abstract Add with the delay it computed: the new item, or
\* the max of the priorities and the min of the times.
LEMMA AddLockedRefines ==
  ASSUME Inv, Inv', NEW a \in Adders, AddLocked(a)
  PROVE  Abstract!Next
<1>1. /\ spin # "offer" /\ spin' # "offer"
      /\ UNCHANGED <<locked, got, shutdown, now>>
  BY Zenon DEF AddLocked, LocksHeld, walk, chans
<1>2. PICK o \in AddOpts, rlAfter \in Delays :
        LET after   == After(o, rlAfter)
            readyAt == IF after > 0 THEN now + after ELSE NilTime
        IN AddNew(o, readyAt) \/ AddExisting(o, readyAt)
  BY DEF AddLocked
<1> DEFINE after   == After(o, rlAfter)
           readyAt == IF after > 0 THEN now + after ELSE NilTime
<1>3. after \in Delays /\ after \in Nat /\ o.key \in Keys /\ o.priority \in Priorities
  BY AfterType DEF AddOpts
<1>4. readyAt = (IF after = 0 THEN 0 ELSE now + after) /\ readyAt \in Nat
  <2>1. now \in Nat
    BY Zenon DEF Inv, TypeOK
  <2> HIDE DEF after
  <2> QED
    BY <1>3, <2>1 DEF NilTime
<1>5. AddNew(o, readyAt) \/ AddExisting(o, readyAt)
  BY <1>2
<1> HIDE DEF after, readyAt
<1>6. /\ OnOffer = {} /\ OnOffer' = {}
      /\ Pending = [k \in Keys |-> IF items[k] = Absent THEN Absent ELSE Entry(items[k])]
      /\ Pending' = [k \in Keys |-> IF items'[k] = Absent THEN Absent ELSE Entry(items'[k])]
  BY <1>1, Zenon DEF OnOffer, Pending, Queued, Entry
<1> DEFINE new == [priority |-> o.priority, readyAt |-> readyAt]
<1>7. Abstract!Entry(o.priority, after) = new
  BY <1>4 DEF Abstract!Entry
<1>8. /\ \A k \in Keys : k # o.key => items'[k] = items[k]
      /\ items'[o.key] # Absent
      /\ Entry(items'[o.key]) = Abstract!Merge(Pending[o.key], new)
  <2>1. items \in [Keys -> Item \cup {Absent}]
    BY DEF Inv, TypeOK
  <2>2. CASE AddNew(o, readyAt)
    <3> DEFINE item == [key |-> o.key, addedCounter |-> addedCounter,
                        priority |-> o.priority, readyAt |-> readyAt]
    <3>1. items[o.key] = Absent /\ items' = [items EXCEPT ![o.key] = item]
      BY <2>2, Zenon DEF AddNew
    <3>2. item \in Item
      BY <1>3, <1>4, QueueConstants, Zenon DEF Item, Inv, TypeOK
    <3>3. item # Absent
      BY <3>2, QueueConstants, Zenon
    <3>4. Entry(item) = new
      BY Zenon DEF Entry
    <3>5. Pending[o.key] = Absent
      BY <1>3, <1>6, <3>1
    <3>6. Abstract!Merge(Pending[o.key], new) = new
      BY <3>5, Zenon DEF Abstract!Merge
    <3> HIDE DEF item
    <3> QED
      BY <1>3, <2>1, <3>1, <3>3, <3>4, <3>6, Zenon
  <2>3. CASE AddExisting(o, readyAt)
    <3> DEFINE old  == items[o.key]
               item == [old EXCEPT !.priority = IF Raised(o, old) THEN o.priority ELSE @,
                                   !.readyAt  = IF old.readyAt # NilTime /\ readyAt < old.readyAt
                                                THEN readyAt ELSE @]
    <3>1. old # Absent /\ items' = [items EXCEPT ![o.key] = item]
      BY <2>3 DEF AddExisting
    <3>2. old \in Item
      BY <1>3, <2>1, <3>1
    <3>3. item \in Item
      <4> DEFINE p == IF Raised(o, old) THEN o.priority ELSE old.priority
                 t == IF old.readyAt # NilTime /\ readyAt < old.readyAt
                      THEN readyAt ELSE old.readyAt
      <4>1. p \in Int /\ t \in Nat
        BY <1>3, <1>4, <3>2, QueueConstants, Zenon DEF Item
      <4>2. item = [old EXCEPT !.priority = p, !.readyAt = t]
        OBVIOUS
      <4> HIDE DEF p, t, item, old
      <4> QED
        BY <3>2, <4>1, <4>2, Zenon DEF Item
    <3>4. item # Absent
      BY <3>3, QueueConstants
    <3>5. Pending[o.key] = Entry(old) /\ Entry(old) # Absent
      BY <1>3, <1>6, <3>1, <3>2, EntryIsPresent
    <3>6. Entry(item) = Abstract!Merge(Entry(old), new)
      <4>1. /\ old.priority \in Int /\ old.readyAt \in Nat
            /\ o.priority \in Int
        BY <1>3, <3>2, QueueConstants, Zenon DEF Item
      <4>2. item.priority = Abstract!Later(old.priority, o.priority)
        BY <3>2, <4>1 DEF Item, Raised, Abstract!Later
      <4>3. item.readyAt = Abstract!Sooner(old.readyAt, readyAt)
        BY <1>4, <3>2, <4>1 DEF Item, NilTime, Abstract!Sooner
      <4> HIDE DEF item
      <4> QED
        BY <3>5, <4>2, <4>3, Zenon DEF Entry, Abstract!Merge
    <3> HIDE DEF item
    <3> QED
      BY <1>3, <2>1, <3>1, <3>4, <3>5, <3>6, Zenon
  <2> QED
    BY <1>5, <2>2, <2>3, Zenon
<1> HIDE DEF new
<1>9. Pending' = [Pending EXCEPT ![o.key] = Abstract!Merge(Pending[o.key], new)]
  BY <1>3, <1>6, <1>8, Zenon
<1>10. Abstract!Add(o.key, o.priority, after)
  BY <1>1, <1>6, <1>7, <1>9, Zenon DEF Abstract!Add
<1> QED
  BY <1>3, <1>10, Zenon DEF Abstract!Next

\* Done is the abstract Return; a worker that sees the flag leaves its key.
LEMMA GiveUpRefines ==
  ASSUME Inv, NEW w \in Workers, GetReturn(w) \/ Done(w)
  PROVE  Abstract!Next \/ UNCHANGED Abstract!qvars
<1>1. CASE GetReturn(w) /\ ~shutdown
  <2>1. UNCHANGED <<items, locked, got, shutdown, now, spin, rest>>
    BY <1>1, Zenon DEF GetReturn, Inv, TypeOK, tree, chans, walk
  <2> QED
    BY <2>1, StillRefines, Zenon
<1>2. CASE GetReturn(w) /\ shutdown
  <2>1. UNCHANGED <<items, locked, shutdown, now, spin, rest>>
    BY <1>2 DEF GetReturn, tree, chans, walk
  <2>2. Pending' = Pending /\ OnOffer' = OnOffer
    BY <2>1, Zenon DEF Pending, Queued, OnOffer
  <2>3. Abstract!Leave(w)
    BY <1>2, <2>1, <2>2, Zenon DEF GetReturn, Abstract!Leave
  <2> QED
    BY <2>3, Zenon DEF Abstract!Next
<1>3. CASE Done(w)
  <2>1. UNCHANGED <<items, shutdown, now, spin, rest>> /\ spin # "offer"
    BY <1>3 DEF Done, LocksHeld, tree, chans, walk
  <2>2. Pending' = Pending /\ OnOffer' = {} /\ OnOffer = {}
    BY <2>1, Zenon DEF Pending, Queued, OnOffer
  <2>3. got[w] # Absent
    BY <1>3, Zenon DEF Done, Inv, HandInv
  <2>4. (locked \ OnOffer)' = (locked \ OnOffer) \ {got[w]}
    BY <1>3, <2>2, Zenon DEF Done
  <2>5. Abstract!Return(w)
    BY <1>3, <2>1, <2>2, <2>3, <2>4, Zenon DEF Done, Abstract!Return
  <2> QED
    BY <2>5, Zenon DEF Abstract!Next
<1> QED
  BY <1>1, <1>2, <1>3, Zenon

\* Every step of the queue is a step of the abstract queue or invisible.
LEMMA StepRefines ==
  Inv /\ Inv' /\ [Next]_vars => [Abstract!Next]_Abstract!qvars
<1> SUFFICES ASSUME Inv, Inv', [Next]_vars
             PROVE  Abstract!Next \/ UNCHANGED Abstract!qvars
  OBVIOUS
<1>1. CASE SpinStop \/ SpinWake \/ SpinLock \/ VisitUnready \/ VisitSkip \/ SpinUnlock
  <2>1. UNCHANGED <<items, locked, got, shutdown, now>> /\ spin # "offer" /\ spin' # "offer"
    BY <1>1, Zenon DEF SpinStop, SpinWake, SpinLock, VisitUnready, VisitSkip, SpinUnlock, tree, chans
  <2> QED
    BY <2>1, QuietRefines
<1>2. CASE VisitOffer
  BY <1>2, VisitOfferRefines
<1>3. CASE Abandon
  BY <1>3, AbandonRefines, Zenon
<1>4. ASSUME NEW w \in Workers, GetCheck(w) \/ GetWait(w) \/ GetNotify(w) \/ GetWoken(w)
      PROVE  UNCHANGED Abstract!qvars
  <2>1. UNCHANGED <<items, locked, got, shutdown, now, spin, rest>>
    BY <1>4 DEF GetCheck, GetWait, GetNotify, GetWoken, tree, chans, walk
  <2> QED
    BY <2>1, StillRefines, Zenon
<1>5. ASSUME NEW w \in Workers, HandOff(w) PROVE Abstract!Next
  BY <1>5, HandOffRefines
<1>6. ASSUME NEW w \in Workers, GetReturn(w) \/ Done(w)
      PROVE  Abstract!Next \/ UNCHANGED Abstract!qvars
  BY <1>6, GiveUpRefines, Zenon
<1>7. ASSUME NEW a \in Adders, AddLocked(a) PROVE Abstract!Next
  BY <1>7, AddLockedRefines
<1>8. CASE (\E a \in Adders : AddCall(a)) \/ ShutDownClose \/ UNCHANGED vars
  <2>1. UNCHANGED <<items, locked, got, shutdown, now, spin, rest>>
    BY <1>8, Zenon DEF AddCall, ShutDownClose, vars, tree, chans, walk
  <2> QED
    BY <2>1, StillRefines, Zenon
<1>9. CASE ShutDownFlag \/ Tick
  <2>1. UNCHANGED <<items, locked, got, spin, rest>>
    BY <1>9 DEF ShutDownFlag, Tick, tree, walk
  <2>2. Pending' = Pending /\ OnOffer' = OnOffer
    BY <2>1, Zenon DEF Pending, Queued, OnOffer
  <2>3. Abstract!Close \/ Abstract!Advance
    BY <1>9, <2>1, <2>2 DEF ShutDownFlag, Tick, chans, Abstract!Close, Abstract!Advance
  <2> QED
    BY <2>3, Zenon DEF Abstract!Next
<1> QED
  BY <1>1, <1>2, <1>3, <1>4, <1>5, <1>6, <1>7, <1>8, <1>9, Zenon DEF Next, Spin, Worker, Terminated

\* The priority queue implements KeyedQueue: whatever the interleaving, callers
\* see a queue in which a key is pending once, with the max of its priorities
\* and the min of its delays, is given to one worker at a time and is lost only
\* after shutdown.
THEOREM QueueRefinement == Spec => ImplementsKeyedQueue
<1> QED
  BY InitRefines, StepRefines, QueueInvariant, PTL
  DEF Spec, ImplementsKeyedQueue, Abstract!Spec

=============================================================================
