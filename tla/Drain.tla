-------------------------------- MODULE Drain --------------------------------
(***************************************************************************)
(* Controller.Run of pkg/controller/controller.go: start-up, the worker    *)
(* pool and the bounded graceful drain after SIGTERM, with the worker loop *)
(* of runWorker and the ShutDown of the (instrumented) queue.              *)
(*                                                                         *)
(* Of the queue only the number of items is kept; that a worker is never   *)
(* stuck in it is the subject of PriorityQueue.  Of a reconcile only how   *)
(* it ends is kept: by itself, only once its context is cancelled, or      *)
(* never.                                                                  *)
(***************************************************************************)
EXTENDS Integers

CONSTANTS
  Workers,    \* the numWorkers goroutines Run starts
  Timeouts,   \* values of the knob: "none" (0), "bounded" (> 0), "forever" (< 0)
  Kinds,      \* how a reconcile ends: "ends", "honours" its context, "ignores" it
  MaxItems,   \* bound: items in the queue
  MaxKnob     \* bound: calls of SetGracefulShutdownTimeout

ASSUME DrainConstants ==
  /\ Timeouts \subseteq {"none", "bounded", "forever"}
  /\ Kinds \subseteq {"ends", "honours", "ignores"} /\ Kinds # {}
  /\ MaxItems \in Nat
  /\ MaxKnob \in Nat

VARIABLES
  run,        \* where Run is
  ctxDone,    \* the caller's context is cancelled (SIGTERM)
  knob,       \* gracefulShutdownTimeout
  knobs,      \* how often the knob was turned
  timeout,    \* the value Run read from it
  stopped,    \* stopWorkers is closed
  shutdown,   \* the queue is shut down
  cancelled,  \* reconcileCtx is cancelled
  expired,    \* the grace period is over
  informer,   \* the informer goroutine runs
  ageLoop,    \* the goroutine recordOldestItemAgeLoop runs
  items,      \* items in the queue
  pc,         \* per worker
  kind        \* per worker: how its reconcile ends

env == <<ctxDone, knob, knobs>>
flags == <<stopped, shutdown, cancelled, expired>>
loops == <<informer, ageLoop>>
pool == <<items, pc, kind>>
vars == <<run, env, timeout, flags, loops, pool>>

Init ==
  /\ run = "syncing"
  /\ ctxDone = FALSE
  /\ knob \in Timeouts
  /\ knobs = 0
  /\ timeout = knob
  /\ stopped = FALSE
  /\ shutdown = FALSE
  /\ cancelled = FALSE
  /\ expired = FALSE
  /\ informer = TRUE
  /\ ageLoop = TRUE
  /\ items = 0
  /\ pc = [w \in Workers |-> "unstarted"]
  /\ kind = [w \in Workers |-> CHOOSE k \in Kinds : TRUE]

-----------------------------------------------------------------------------
(* Around Run                                                              *)

Signal ==
  /\ ~ctxDone
  /\ ctxDone' = TRUE
  /\ UNCHANGED <<run, knob, knobs, timeout, flags, loops, pool>>

SetGracefulShutdownTimeout ==
  /\ knobs < MaxKnob
  /\ knob' \in Timeouts
  /\ knobs' = knobs + 1
  /\ UNCHANGED <<run, ctxDone, timeout, flags, loops, pool>>

\* A queue that is shut down accepts nothing.
AddWithOpts == items' = IF shutdown THEN items ELSE items + 1

Informer ==
  /\ informer
  /\ \/ ~ctxDone /\ items < MaxItems /\ AddWithOpts /\ UNCHANGED informer
     \/ ctxDone /\ informer' = FALSE /\ UNCHANGED items
  /\ UNCHANGED <<run, env, timeout, flags, ageLoop, pc, kind>>

\* ShutDown of the instrumented queue stops the loop that records the age.
AgeLoopStop ==
  /\ ageLoop
  /\ shutdown
  /\ ageLoop' = FALSE
  /\ UNCHANGED <<run, env, timeout, flags, informer, pool>>

-----------------------------------------------------------------------------
(* Run                                                                     *)

\* The caches have synced: start the workers.
SyncOk ==
  /\ run = "syncing"
  /\ run' = "serving"
  /\ pc' = [w \in Workers |-> "loop"]
  /\ UNCHANGED <<env, timeout, flags, loops, items, kind>>

\* Mutant: the queue is left running.
SyncFailedOpen ==
  /\ run = "syncing"
  /\ ctxDone
  /\ run' = "returned"
  /\ UNCHANGED <<env, timeout, flags, loops, pool>>

\* Run returns early; the deferred ShutDown runs.
SyncFailed ==
  /\ run = "syncing"
  /\ ctxDone
  /\ run' = "returned"
  /\ shutdown' = TRUE
  /\ UNCHANGED <<env, timeout, stopped, cancelled, expired, loops, pool>>

DrainStart ==
  /\ run = "serving"
  /\ ctxDone
  /\ timeout' = knob
  /\ run' = "stopping"
  /\ UNCHANGED <<env, flags, loops, pool>>

\* Mutant: the workers are not told.
StopNoWorkers ==
  /\ run = "stopping"
  /\ run' = "closing"
  /\ UNCHANGED <<env, timeout, flags, loops, pool>>

StopWorkers ==
  /\ run = "stopping"
  /\ stopped' = TRUE
  /\ run' = "closing"
  /\ UNCHANGED <<env, timeout, shutdown, cancelled, expired, loops, pool>>

\* Mutant: the workers parked in the queue are not woken.
ShutNoQueue ==
  /\ run = "closing"
  /\ cancelled' = (timeout = "none")
  /\ run' = IF timeout = "none" THEN "returned" ELSE "draining"
  /\ UNCHANGED <<env, timeout, stopped, shutdown, expired, loops, pool>>

\* Without a grace period Run cancels the reconciles and awaits nobody.
ShutQueue ==
  /\ run = "closing"
  /\ shutdown' = TRUE
  /\ cancelled' = (timeout = "none")
  /\ run' = IF timeout = "none" THEN "returned" ELSE "draining"
  /\ UNCHANGED <<env, timeout, stopped, expired, loops, pool>>

\* Mutant: only the reconciles are awaited.
DrainedIdle == \A w \in Workers : pc[w] # "reconcile"

\* wg.Wait returns.
Drained == \A w \in Workers : pc[w] = "exited"

Return ==
  /\ run = "draining"
  /\ Drained
  /\ run' = "returned"
  /\ cancelled' = TRUE
  /\ UNCHANGED <<env, timeout, stopped, shutdown, expired, loops, pool>>

\* Mutant: the timer runs, whatever the knob said.
ExpireAlways ==
  /\ run = "draining"
  /\ expired' = TRUE
  /\ cancelled' = TRUE
  /\ run' = "returned"
  /\ UNCHANGED <<env, timeout, stopped, shutdown, loops, pool>>

Expire ==
  /\ run = "draining"
  /\ timeout = "bounded"
  /\ expired' = TRUE
  /\ cancelled' = TRUE
  /\ run' = "returned"
  /\ UNCHANGED <<env, timeout, stopped, shutdown, loops, pool>>

-----------------------------------------------------------------------------
(* A worker: wait.Until around runWorker                                   *)

Goto(w, label) == pc' = [pc EXCEPT ![w] = label]

\* wait.Until looks at stopWorkers before every launch.
Launch(w) ==
  /\ pc[w] = "loop"
  /\ Goto(w, IF stopped THEN "exited" ELSE "get")
  /\ UNCHANGED <<run, env, timeout, flags, loops, items, kind>>

\* GetWithPriority parks until there is an item or the queue is shut down; an
\* item may still arrive just after the shutdown.
GetItem(w) ==
  /\ pc[w] = "get"
  /\ items > 0
  /\ items' = items - 1
  /\ Goto(w, "got")
  /\ UNCHANGED <<run, env, timeout, flags, loops, kind>>

GetShutdown(w) ==
  /\ pc[w] = "get"
  /\ shutdown
  /\ Goto(w, "backoff")
  /\ UNCHANGED <<run, env, timeout, flags, loops, items, kind>>

\* The flag returned with the item.
Begin(w) ==
  /\ pc[w] = "got"
  /\ Goto(w, IF shutdown THEN "backoff" ELSE "reconcile")
  /\ \E k \in Kinds : kind' = [kind EXCEPT ![w] = k]
  /\ UNCHANGED <<run, env, timeout, flags, loops, items>>

\* A failed reconcile is queued again.
Finish(w) ==
  /\ pc[w] = "reconcile"
  /\ kind[w] = "ends" \/ (kind[w] = "honours" /\ cancelled)
  /\ \/ items < MaxItems /\ AddWithOpts
     \/ UNCHANGED items
  /\ Goto(w, "get")
  /\ UNCHANGED <<run, env, timeout, flags, loops, kind>>

\* runWorker has returned: wait.Until waits for two seconds or for stopWorkers.
Backoff(w) ==
  /\ pc[w] = "backoff"
  /\ \/ stopped /\ Goto(w, "exited")
     \/ Goto(w, "loop")
  /\ UNCHANGED <<run, env, timeout, flags, loops, items, kind>>

Worker(w) ==
  \/ Launch(w)
  \/ GetItem(w)
  \/ GetShutdown(w)
  \/ Begin(w)
  \/ Finish(w)
  \/ Backoff(w)

Run ==
  \/ SyncOk
  \/ SyncFailed
  \/ DrainStart
  \/ StopWorkers
  \/ ShutQueue
  \/ Return
  \/ Expire

Next ==
  \/ Run
  \/ \E w \in Workers : Worker(w)
  \/ Informer
  \/ AgeLoopStop
  \/ Signal
  \/ SetGracefulShutdownTimeout

Spec == Init /\ [][Next]_vars

\* Every goroutine that can run does; SIGTERM need not come.
Fairness ==
  /\ WF_vars(Run)
  /\ \A w \in Workers : WF_vars(Worker(w))
  /\ WF_vars(Informer)
  /\ WF_vars(AgeLoopStop)

FairSpec == Spec /\ Fairness

-----------------------------------------------------------------------------
(* Properties                                                              *)

\* The type of every variable.
TypeOK ==
  /\ run \in {"syncing", "serving", "stopping", "closing", "draining", "returned"}
  /\ knob \in Timeouts
  /\ timeout \in Timeouts
  /\ {ctxDone, stopped, shutdown, cancelled, expired, informer, ageLoop} \subseteq BOOLEAN
  /\ knobs \in 0..MaxKnob
  /\ items \in 0..MaxItems
  /\ pc \in [Workers -> {"unstarted", "loop", "get", "got", "reconcile", "backoff", "exited"}]
  /\ kind \in [Workers -> Kinds]

\* "an in-flight reconcile keeps a live context (its API writes complete) even
\* after SIGTERM cancels ctx" (controller.go:567): the context of a running
\* reconcile is cancelled only without a grace period, or after it.
LiveContext ==
  cancelled /\ (\E w \in Workers : pc[w] = "reconcile") =>
    timeout = "none" \/ (timeout = "bounded" /\ expired)

\* When Run returns after a drain no worker is left that could begin a reconcile
\* behind its back.
NobodyLeft ==
  run = "returned" /\ cancelled /\ timeout # "none" /\ ~expired =>
    \A w \in Workers : pc[w] = "exited"

\* A worker whose runWorker returned is never launched again: stopWorkers is
\* closed before the queue is shut down (controller.go:573).
NoRelaunch == \A w \in Workers : pc[w] = "backoff" => stopped

\* Run returns after SIGTERM, except that it waits for ever for a reconcile that
\* does not end when it was told to (drain_test.go:116, drain_test.go:170).
RunReturns ==
  ctxDone ~> \/ run = "returned"
             \/ timeout = "forever" /\ \E w \in Workers : pc[w] = "reconcile" /\ kind[w] # "ends"

\* Once Run has returned, early or after a drain, the goroutines around it stop,
\* and so does every worker whose reconcile ends.
EverythingStops ==
  run = "returned" ~>
    /\ ~informer /\ ~ageLoop
    /\ \A w \in Workers :
         pc[w] \in {"unstarted", "exited"} \/ (pc[w] = "reconcile" /\ kind[w] = "ignores")

=============================================================================
