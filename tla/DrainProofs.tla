----------------------------- MODULE DrainProofs -----------------------------
(***************************************************************************)
(* The safety of the graceful drain, for any number of workers, any queue  *)
(* bound and any sequence of changes of the grace period.                  *)
(*                                                                         *)
(* None of the three invariants is inductive.  What they need is the order *)
(* in which Run raises its flags (OrderInv): the workers are told to stop  *)
(* before the queue is shut down, the queue is shut down before anything   *)
(* is cancelled, and the grace period is read before all of it; and that a *)
(* worker leaves its loop only because of them (PoolInv).                  *)
(***************************************************************************)
EXTENDS Drain, TLAPS

\* Where Run is when its flags are up.
OrderInv ==
  /\ stopped => run \in {"closing", "draining", "returned"}
  /\ run \in {"closing", "draining"} => stopped
  /\ run = "draining" => timeout # "none"
  /\ cancelled => run = "returned" /\ stopped
  /\ expired => timeout = "bounded" /\ run = "returned"

\* A worker that was started leaves the queue only after Run shut it down, and
\* by then the workers were told to stop.
PoolInv ==
  /\ run = "syncing" => ~shutdown
  /\ run = "syncing" \/ (run = "returned" /\ ~stopped) =>
       \A w \in Workers : pc[w] = "unstarted"
  /\ shutdown => stopped \/ run = "returned"
  /\ \A w \in Workers : pc[w] = "backoff" => shutdown

\* The inductive invariant.
DrainInv == TypeOK /\ OrderInv /\ PoolInv /\ NobodyLeft

\* Initially nothing has happened.
LEMMA DrainInitInv == Init => DrainInv
<1> SUFFICES ASSUME Init PROVE DrainInv
  OBVIOUS
<1>1. TypeOK
  <2>1. Kinds # {} /\ MaxKnob \in Nat /\ MaxItems \in Nat
    BY DrainConstants
  <2>2. (CHOOSE k \in Kinds : TRUE) \in Kinds
    BY <2>1
  <2>3. kind \in [Workers -> Kinds]
    BY <2>2 DEF Init
  <2>4. /\ run = "syncing" /\ knob \in Timeouts /\ timeout = knob
        /\ knobs = 0 /\ items = 0
        /\ {ctxDone, stopped, shutdown, cancelled, expired, informer, ageLoop} \subseteq BOOLEAN
        /\ pc = [w \in Workers |-> "unstarted"]
    BY DEF Init
  <2> QED
    BY <2>1, <2>3, <2>4 DEF TypeOK
<1>2. OrderInv /\ PoolInv /\ NobodyLeft
  BY DEF Init, OrderInv, PoolInv, NobodyLeft
<1> QED
  BY <1>1, <1>2 DEF DrainInv

\* A step of Run keeps the invariant.
LEMMA RunStepInv == DrainInv /\ Run => DrainInv'
<1> SUFFICES ASSUME DrainInv, Run PROVE DrainInv'
  OBVIOUS
<1> USE DEF DrainInv, env, flags, loops, pool
<1>1. CASE SyncOk
  BY <1>1 DEF SyncOk, TypeOK, OrderInv, PoolInv, NobodyLeft
<1>2. CASE SyncFailed
  BY <1>2 DEF SyncFailed, TypeOK, OrderInv, PoolInv, NobodyLeft
<1>3. CASE DrainStart
  BY <1>3 DEF DrainStart, TypeOK, OrderInv, PoolInv, NobodyLeft
<1>4. CASE StopWorkers
  BY <1>4 DEF StopWorkers, TypeOK, OrderInv, PoolInv, NobodyLeft
<1>5. CASE ShutQueue
  BY <1>5 DEF ShutQueue, TypeOK, OrderInv, PoolInv, NobodyLeft
<1>6. CASE Return
  BY <1>6 DEF Return, Drained, TypeOK, OrderInv, PoolInv, NobodyLeft
<1>7. CASE Expire
  BY <1>7 DEF Expire, TypeOK, OrderInv, PoolInv, NobodyLeft
<1> QED
  BY <1>1, <1>2, <1>3, <1>4, <1>5, <1>6, <1>7 DEF Run

\* A step of a worker keeps the invariant.
LEMMA WorkerStepInv ==
  ASSUME DrainInv, NEW w \in Workers, Worker(w)
  PROVE  DrainInv'
<1> USE DrainConstants DEF DrainInv, env, flags, loops, Goto
<1>1. CASE Launch(w)
  BY <1>1 DEF Launch, TypeOK, OrderInv, PoolInv, NobodyLeft
<1>2. CASE GetItem(w)
  BY <1>2 DEF GetItem, TypeOK, OrderInv, PoolInv, NobodyLeft
<1>3. CASE GetShutdown(w)
  BY <1>3 DEF GetShutdown, TypeOK, OrderInv, PoolInv, NobodyLeft
<1>4. CASE Begin(w)
  BY <1>4 DEF Begin, TypeOK, OrderInv, PoolInv, NobodyLeft
<1>5. CASE Finish(w)
  BY <1>5 DEF Finish, AddWithOpts, TypeOK, OrderInv, PoolInv, NobodyLeft
<1>6. CASE Backoff(w)
  BY <1>6 DEF Backoff, TypeOK, OrderInv, PoolInv, NobodyLeft
<1> QED
  BY <1>1, <1>2, <1>3, <1>4, <1>5, <1>6 DEF Worker

\* Every step keeps the invariant.
LEMMA DrainStepInv == DrainInv /\ [Next]_vars => DrainInv'
<1> SUFFICES ASSUME DrainInv, [Next]_vars PROVE DrainInv'
  OBVIOUS
<1>1. CASE Run
  BY <1>1, RunStepInv
<1>2. CASE \E w \in Workers : Worker(w)
  BY <1>2, WorkerStepInv
<1> USE DrainConstants DEF DrainInv, env, flags, loops, pool
<1>3. CASE Informer
  <2>1. UNCHANGED <<run, ctxDone, knob, knobs, timeout, stopped, shutdown, cancelled,
                    expired, ageLoop, pc, kind>>
    BY <1>3 DEF Informer
  <2>2. items' \in 0..MaxItems
    <3>1. (items < MaxItems /\ AddWithOpts) \/ items' = items
      BY <1>3 DEF Informer
    <3>2. items \in 0..MaxItems /\ MaxItems \in Nat
      BY DEF TypeOK
    <3>3. CASE items < MaxItems /\ AddWithOpts
      BY <3>2, <3>3 DEF AddWithOpts
    <3> QED
      BY <3>1, <3>2, <3>3
  <2>3. informer' \in BOOLEAN
    BY <1>3 DEF Informer, TypeOK
  <2>4. TypeOK'
    BY <2>1, <2>2, <2>3 DEF TypeOK
  <2> QED
    BY <2>1, <2>4 DEF OrderInv, PoolInv, NobodyLeft
<1>4. CASE AgeLoopStop
  BY <1>4 DEF AgeLoopStop, TypeOK, OrderInv, PoolInv, NobodyLeft
<1>5. CASE Signal
  BY <1>5 DEF Signal, TypeOK, OrderInv, PoolInv, NobodyLeft
<1>6. CASE SetGracefulShutdownTimeout
  BY <1>6 DEF SetGracefulShutdownTimeout, TypeOK, OrderInv, PoolInv, NobodyLeft
<1>7. CASE UNCHANGED vars
  BY <1>7 DEF vars, TypeOK, OrderInv, PoolInv, NobodyLeft
<1> QED
  BY <1>1, <1>2, <1>3, <1>4, <1>5, <1>6, <1>7 DEF Next

\* The invariant holds throughout Run.
THEOREM DrainInvariant == Spec => []DrainInv
  BY DrainInitInv, DrainStepInv, PTL DEF Spec

\* Every variable keeps its type, for any number of workers and items.
THEOREM DrainTypes == Spec => []TypeOK
<1>1. DrainInv => TypeOK
  BY DEF DrainInv
<1> QED
  BY <1>1, DrainInvariant, PTL

\* The context of a running reconcile is cancelled only without a grace period,
\* or once it is over (controller.go:567-571).
THEOREM DrainLiveContext == Spec => []LiveContext
<1>1. DrainInv => LiveContext
  BY DEF DrainInv, OrderInv, NobodyLeft, LiveContext, TypeOK
<1> QED
  BY <1>1, DrainInvariant, PTL

\* When Run returns after a drain every worker has exited (controller.go:612-624).
THEOREM DrainNobodyLeft == Spec => []NobodyLeft
<1>1. DrainInv => NobodyLeft
  BY DEF DrainInv
<1> QED
  BY <1>1, DrainInvariant, PTL

\* A worker that left runWorker is not launched again (controller.go:573-600).
THEOREM DrainNoRelaunch == Spec => []NoRelaunch
<1>1. DrainInv => NoRelaunch
  BY DEF DrainInv, PoolInv, NoRelaunch
<1> QED
  BY <1>1, DrainInvariant, PTL

=============================================================================
