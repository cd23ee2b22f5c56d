# unstructured-runtime in TLA+

Specifications of `unstructured-runtime`: the priority queue, the path of an
event from the informer to a worker and through its retries, the reconcile
pipeline with its external-create handshake, the helpers that edit the managed
object, the metrics server with its certificate watcher, and start-up and
graceful drain. TLC checks them on small instances; TLAPS proves the central
safety properties for every instance.

## The system

A controller watches one kind of custom resource. An **informer** calls
`AddFunc`, `UpdateFunc` and `DeleteFunc`, which classify the change as an
Observe, Create, Update or Delete event, claim the event's **digest** in a
`sync.Map` and put it into a **priority queue**. **Workers** take events,
process them and retry failed ones after the delay a **rate limiter** computes.
Processing reads the custom resource, recovers an interrupted create, keeps a
finalizer and calls the user's `ExternalClient`. `Run` owns all goroutines, the
**metrics server** among them, and **drains** them on SIGTERM.

Paths are relative to `pkg/`.

| Part | Source | Modules | Status |
|---|---|---|---|
| priority queue | `controller/priorityqueue/` | `KeyedQueue`, `PriorityQueue` | modelled |
| instrumented queue | `controller/queue_instrumentation.go` | `InstrumentedQueue` | the age value left out |
| informer handlers, classification | `controller/controller.go`, `controller/event/` | `InformerHandlers` | default tables only |
| digests, worker loop, retries | `controller/controller.go`, `controller/worker.go` | `EventDispatch` | modelled |
| rate limiter | `workqueue/workqueue.go` | `RateLimiter` | modelled |
| reconcile pipeline | `controller/worker.go`, `tools/tools.go` | `Reconcile` | conditions left out |
| create handshake annotations | `meta/meta.go` | `CreateMarks`, `CreateMarkTimes` | modelled |
| finalizers, annotations, policies | `meta/meta.go` | `Metadata` | modelled |
| conditions | `tools/unstructured/` | `Conditions` | `failedObjectRef` left out |
| status projection | `tools/statusprojection/` | `StatusProjection` | jq and numbers abstracted |
| certificate watcher | `certwatcher/` | `CertWatcher` | modelled |
| metrics server | `metrics/server/`, `internal/httpserver/` | `MetricsServer` | modelled |
| Run and drain | `controller/controller.go` | `Drain` | panics left out |
| options, builder | `controller/builder/` | | wiring |
| telemetry, collectors, logging, context, errors, signals | | | I/O and formatting |

## How the modules fit together

    KeyedQueue            what the queue promises, in atomic steps
      ^ implemented by PriorityQueue   (TLC: queue, TLAPS: QueueRefinement)
      | used by EventDispatch and InstrumentedQueue
    InformerHandlers      what a notification becomes (constant-level tables)
      ^ extended by EventDispatch and Reconcile
    CreateMarks           the create annotations, as the code's questions see them
      ^ extended by Reconcile
      | shown exact by CreateMarkTimes (TLC: object, TLAPS: SummaryTheorem)
    CreateMarkTimes, Metadata, Conditions, StatusProjection
      ^ extended by ManagedObject: operations on one object, in any order
    CertWatcher
      ^ extended by MetricsServer: the two composed
    RateLimiter           the retry loop around the limiter of pkg/workqueue
    Drain                 Run; keeps of the queue only the number of items

`EventDispatch` and `InstrumentedQueue` are built on the atomic queue. Each is
proved to use it as `KeyedQueue` allows (`DispatchUsesQueue`,
`InstrumentedUsesQueue`), and the concurrent queue is proved to implement
`KeyedQueue`; so what they show of safety holds with the concurrent queue too.
There is one step of `EventDispatch` for which this is not so: a worker that gets
no trace id comes back for the next event without having called `Done`, which
`PriorityQueue`'s workers never do.
`Reconcile` keeps no clock for the annotations but a summary of them; that the
summary answers as the times would is a theorem. The `MC*` modules instantiate
the modules for TLC; the `*Proofs` modules hold the theorems.

### PriorityQueue

Processes: `Adders` that call `AddWithOpts`, `Workers` in `GetWithPriority` and
`Done`, the `spin` goroutine, and `ShutDown`. A step is what happens between two
synchronisation points: the two mutexes, the atomic waiter count, the buffered
notification channel, the hand-out channel, the `done` channel. `items` is the
map, `queue` the B-tree, `rest` what the current `Ascend` has still to visit,
`locked` the keys with workers, `depth` the depth metric. `spin` sends an item
while it holds both locks; the model keeps that state, in which `ShutDown` may
intervene (`HandOff` or `Abandon`). Time is a counter; a nil `ReadyAt` is 0.

`KeyedQueue` has one action per call. Under the refinement mapping an item that
`spin` is sending is still pending, and only the hand-over takes it.

### EventDispatch

The informer is one goroutine: `Notify` claims the digest, `NotifyQueue` queues.
A worker takes (`Take`), processes (`Process`, which may queue a follow-up and
may fail), frees the digest (`Finish`), says `Done`, and after an error checks
the digest, stores it and queues the event again in three steps. Queue keys are
whole events, with their time of creation, as in the code. An event that gets no
trace id (`TraceIdError`, `worker.go:151`) leaves the loop with its digest
claimed; `stranded` remembers such digests. `ForgetEvent` is the default limiter
of `builder/options.go:65`, whose `Forget` drops the count.

### RateLimiter

`When`, `NumRequeues` and `Forget` of `pkg/workqueue`, in the loop of a worker
that processes, forgets, asks and requeues. The delay is computed as the code
does: in floating point, converted to a `time.Duration` of `Width` bits, with
whatever the conversion of a value out of range may give on the platform. The
age of an entry is kept up to the point from which it no longer matters
(`Stale`). `Prompt` events come back within `MaxWork` of becoming ready; other
events take any time.

### Reconcile

One object and its external resource. Every read and write of the object, and
every call of the `ExternalClient`, is a step, so users, other workers, a crash,
a conflict or a failed call may come between any two. Times in the annotations
have a granularity (one tick is one second); a created resource becomes visible
up to `Lag` ticks later. `el` is the worker's copy, `fresh` whether a write of it
would pass the server's conflict check. Users may change the deletion policy at
any time (`UserPolicy`); the code looks at it once per event (`worker.go:307`),
and the history variable `spared` remembers what the worker saw there.

### ManagedObject

Operations of the packages `meta`, `unstructured`, `condition` and
`statusprojection` on one object, in any order, together with what users and
other controllers write. The parts of the object they touch are disjoint, so a
behaviour is about one of them (`part`), and TLC explores them one after the
other and not their product. `Metadata` follows `RemoveFinalizer` index by index
through the slice that it shortens while it ranges over it. `CreateMarkTimes`
counts in half seconds, so that the annotations lose the fraction as RFC 3339
does. A condition may be unreadable (`ok`), and may have fields that
`GetConditions` does not read (`more`), such as `observedGeneration`: what it
returns, and `SetConditions` writes back, is without them. Other controllers
write condition types that `IsAvailable` counts as positive, and others. jq programs are five kinds of expression,
and a mapping's path is a sequence of fields.

### CertWatcher and MetricsServer

Certificate and key are two files that are rotated one after the other, in
either order: in place, by removal or by renaming, which ends fsnotify's watch.
`ReadCertificate` is four steps (certificate, key and parse, update of the
cache, start of the callback) and runs in the goroutine that creates the watcher
and then polls, and in the one that handles file events. `MetricsServer` adds `NewServer`,
`AddExtraHandler`, the copy `WithLogger` makes, `Start` with its errors, the
goroutine that shuts the server down, and connections. In the mode `alone`
another client uses the watcher without the server and may register a callback.

### Drain

`Run` step by step, `wait.Until` around `runWorker` for each worker, the
informer, the age loop of the instrumented queue. A reconcile ends by itself,
ends once its context is cancelled, or never ends. The grace period is zero,
bounded or infinite, and `SetGracefulShutdownTimeout` may change it at any time.

### InstrumentedQueue

Recording an item and adding it are two steps, taking it and un-recording it
too. The informer's handlers use the inner queue directly, as in the code.

## Runs

| Run | Properties | Shows |
|---|---|---|
| `queue` | `ExclusiveHandout`, `NoOrphanLock`, `MapMatchesTree`, `DepthIsExact`, `WaitersAreExact`, `NoLostWakeup`, `OrderIsKept`, `ImplementsKeyedQueue`, `QueuedIsDelivered`, `ShutdownCompletes` | no key with two workers; no lock, waiter, wake-up or gauge value lost; items leave in order, as far as a walk can tell; the queue is atomic to its callers; due work is delivered; shutdown never wedges |
| `dispatch` | `DigestHasOwner`, `InFlightIsExact`, `FailedIsCovered`, `DigestIsFreed`, `EventIsProcessed` | no digest without an event, no failed event forgotten, no object shut out, the trace-id error aside; the gauge is right on every path |
| `retry` | `NoHotLoop`, `BackoffIsKept`, `Settles` | an immediate retry is never followed by another; each retry that comes soon doubles the delay and counts, `Forget` after each attempt notwithstanding; a prompt event that always fails is dropped after `MaxRetries` |
| `reconcile_leak` | `NoLeak` | finalizer and deletion, through crashes and failures |
| `reconcile_handshake` | `RollbackIsRight`, `GraceIsHonoured`, `DeleteIsRequested` | recovery of an interrupted create; what `Delete` is called for while users change the deletion policy |
| `reconcile_liveness` | `Converges` | agreement once disturbances end |
| `object` | `RemovalIsExact`, `PoliciesAgree`, `SummaryIsExact`, `ConditionsAreKept`, `FailureIsLocal` | what the helpers on lists, times and nested fields promise their callers, after any sequence of operations |
| `metrics_server` | `CallbackKnows`, `HandshakeHasCertificate`, `GoesBackInRaceOnly`, `Refreshes`, `ServerStops` | a handshake has a certificate, the cache ends up with the newest pair, the callback hears of it, everything stops with the context |
| `drain` | `LiveContext`, `NobodyLeft`, `NoRelaunch`, `RunReturns`, `EverythingStops` | what the drain promises to reconciles and to the process |
| `instrumented` | `NoGhost` | no stale entry in the gauges |

`object` also checks `TypeOK`, which there is about the lists. The types of the
other modules are proved, and so are `LenCountsReady` and `OfferIsTaken` of the
queue. Every safety property of every passing run is also proved, some of them
under hypotheses ("Proofs").

### Where the code and its documents differ

Two runs end in a counterexample. Each states what a document of the repository
says, and TLC shows where the code does otherwise (`PROJECT.json`, "findings",
has the quotations).

| Run | Property | What happens |
|---|---|---|
| `dispatch_retries` | `RetriesAreBounded` | `Forget` (`worker.go:203`) precedes `NumRequeues` (`worker.go:217`); with the default limiter the count is then always zero |
| `reconcile_grace` | `GraceIsHonoured` | two events of one object are processed by two workers, here two Create events, the second queued after a resync during the first; the second create begins within the grace period of the first |

The limiter of `pkg/workqueue` keeps its count through `Forget`, so with it the
bound holds (`Settles`) for events that come back before their entry is stale.

More statements are defined in the modules and do not hold. To see a
counterexample, check the property on the instance named here.

| Property | Instance | What happens |
|---|---|---|
| `PatientWorkYields` (`docs/overview.md:87`) | `queue` | `less` (`priorityqueue.go:412`) compares the due time before the priority, so due background work overtakes due user work |
| `OrderIsKept` without its last two disjuncts | `queue` | a worker begins to wait while `spin` walks: it is given the next item of the walk, although `spin` has passed a more urgent one when nobody waited |
| `NoDuplicate` (`docs/overview.md:75`) | `dispatch` | follow-ups and some notifications bypass the digests; Load and Store of `handleErr` race with the informer |
| `NothingStranded` (`docs/overview.md:77`) | `dispatch` | the trace-id error path (`worker.go:151`) keeps the digest, and later events of the kind are suppressed |
| `DeleteIsRequested` (`controller.go:498`) | `reconcile_leak` | a Delete event carries no UID; processed after its object was created again, it deletes the external resource of the new one. Without `"recreate"` the property holds |
| `OrphanIsLeftAlone` (`docs/overview.md:112`) | `reconcile_leak`, `UserActs = {"delete", "orphan", "foreign"}` | while another finalizer keeps the object, the orphan path goes on to the Delete event's handler; `DeleteIsRequested` excepts this |
| `OrphanIsLeftAlone` | `reconcile_leak`, `UserActs = {"delete", "policy"}` | the policy becomes orphan after `processItem` looked at it (`worker.go:307`); `handleDelete` fetches the object anew (`worker.go:812`) and calls `Delete` without looking again. `DeleteIsRequested` is about what the worker saw |
| `NoLeak` | `reconcile_leak`, `UserActs = {"delete", "foreign", "recreate"}` | an object that is being deleted and that another finalizer still holds never gets ours (`worker.go:412`), yet its Observe event leads to a create; when the other finalizer goes, so does the object, and the resource stays |
| `NoLeak` | `reconcile_leak`, `UserActs = {"delete", "orphan", "recreate"}` | the orphan path (`worker.go:307`) removes the finalizer, the object goes, and the same event goes on to `handleCreate`, which fetches the object that was created anew under the name, without a finalizer, and creates its resource |
| `InterruptedIsIncomplete` (`docs/overview.md:147`) | `reconcile_handshake` | a create begun in the second of an earlier outcome and interrupted is not seen as incomplete (`meta.go:280`) |
| `InterruptedLooksIncomplete` | `object` | the same, in the times themselves |
| `OrphanIsKept` (`meta.go:84`) | `object` | the management policy observe-delete deletes although the deletion policy says orphan |
| `ForeignSurvives` | `object` | one unreadable condition makes `GetConditions` return nothing, and `SetConditions` writes the list without the others (`unstructured.go:107`); from a readable list, the fields it does not know are lost (`unstructured.go:110`) |
| `SugarIsSelf` (`statusprojection.go:38`) | `object` | while the object has no status, `status` and `self.status` differ |
| `MappingsAreIsolated` (`statusprojection.go:58`) | `object` | a mapping sees what an earlier one wrote, so the order of mappings matters |
| `HandlersAreServed` (`server.go:33`) | `metrics_server` | a handler added after `WithLogger` made its copy is not served |
| `NeverGoesBack` | `metrics_server` | of two overlapping reads the older one may store last; the next poll repairs it |
| `DepthIsQueued` (`docs/overview.md:223`) | `instrumented` | the informer adds to the queue inside the wrapper (`controller.go:252`), unseen by the gauge |

Further behaviours the models show, which no property states:
- the runtime never calls `ShouldCreate`, `ShouldUpdate` or `ShouldOnlyObserve`,
  although `docs/usage.md:95` says that the management policy restricts which
  phases may act;
- with a base delay that is a power of two, a computed delay can reach the one
  value that passes the overflow test of `When` and does not fit a `Duration`;
  on some processors it becomes negative (`TypeOK` of `RateLimiter` with
  `BaseDelay = 4`, `Width = 4`). A base above the maximum leaves the first delay
  uncapped. An event slower than twice the maximum resets its own count. A
  maximum above half the largest `Duration` (about 146 years), which
  `DurationFits` leaves out, would make `2*maxDelay` wrap and every entry stale;
- the watcher ignores a rename, which the comment at `certwatcher.go:229`
  promises to handle, and learns of the new file from the poll; a failed watch
  ends the polling too; the order of callbacks is not the order of updates; the
  listener stays open after an error of the metrics filter;
- `Run` reads the grace period once (`controller.go:595`), so a call of
  `SetGracefulShutdownTimeout` after the drain began does not change that drain.

### Bounds

- Queue: two keys, two workers, one adder with two calls, two priorities, delays
  0 and 1. Two keys give every order of two items, a raise or a re-add while
  locked takes two calls, and two workers make hand-outs compete.
- Dispatch: two events of one object (the digest is per object and type), one
  retry, two workers: enough for a retry to meet a new notification.
- Retry: a base of 3 and a maximum of 7, so one delay lies between the two; four
  retries, past the overflow of a 5-bit `Duration`; one prompt event and
  one that takes any time. Ages are cut where they no longer matter, which is
  exact.
- Reconcile: one object, one crash, one fault, a grace period of one or two ticks
  and a lag that is shorter. Creating the object is the first act of users; the
  others are from a set chosen per run. `reconcile_leak`: four acts, of delete and
  create again, so that a deletion meets a namesake that is deleted
  too. `reconcile_handshake`: three, of delete, pause, a change of policy and the
  end of another finalizer; it has a crash and no fault, which would triple its
  states, and faults are left to the proofs of its three properties. `reconcile_liveness`: two, of edit, delete, unmark and the
  loss of the external resource. `reconcile_grace`, with no fault and no crash:
  one.
  `reconcile_leak`, `reconcile_handshake` and `reconcile_liveness` have
  one worker; with two, the guarantees do not hold (`reconcile_grace`, and
  `NoLeak` fails in the same way), except `DeleteIsRequested`, which is proved for
  any number. The visibility of a created resource within
  the grace period is an assumption of the recovery itself. The proofs cover any
  number of acts, faults and crashes.
- Object: three finalizers, two conditions of others, lists of up to three
  mappings, a grace period of two seconds and a clock up to 5.5 seconds,
  long enough for a grace period to run out and for marks to meet in one second;
  the proofs cover lists of any length and any clock.
- Metrics server: one rotation of both files, one extra path, one connection.
  One rotation already lets two reads overlap with different contents; the
  proofs cover any number.
- Drain: two workers, two items, one change of the knob; the proofs cover any
  number.
- Instrumented queue: three items, three workers, no other bound.

### Fairness

Weak fairness for each goroutine that can run: workers, spin, adders that wait
for the lock, the second half of `ShutDown`, `Run`, the informer, the readers
and callbacks of the certificate watcher, the goroutines of the metrics server.
Go's scheduler, mutexes and `select` justify it. Time advances and the watcher's
ticker ticks. Two places assume strong fairness:
- taking each type of event in `Reconcile`: the queue hands out equal work in
  order of arrival, and a single object has at most a handful of events. The
  periodic resync goes on;
- the polling loop of the watcher returning when its context is done: `select`
  may prefer a due tick, but not for ever.

SIGTERM, crashes, faults, rotations, connections that close and users are never
required to happen; crashes, faults and users are bounded in number, so they
cease.

Deadlock is checked wherever the system must not stop. It is off where the
bound on calls or events, or the end of `Run` or of the server, lets it come to
rest.

## Proofs

`PriorityQueueProofs` proves an inductive invariant `Inv` for any keys, workers,
priorities and delays, and from it `TypeOK`, `ExclusiveHandout`, `NoOrphanLock`,
`MapMatchesTree` and `LenCountsReady`. The first four are not inductive alone.
`Inv` adds
- `TreeInv`: the tree is finite, the counter of additions tells its items
  apart and is ahead of all of them, and the map files an item
  under its own key;
- `WalkInv`: outside a pass of `spin` nothing is left to visit or to delete;
  within one, what is still to visit is in the map except the item being sent,
  and what is to be deleted has left the map;
- `HandInv`: a worker has a key exactly between the receive and `Done`.

The first item of the tree is a `CHOOSE`; `FirstExists` shows with the
well-foundedness of the subset order that there is one.

`NoLostWakeup` speaks of `spin` asleep, and `WakeInv` carries it through a pass:
while items are still to be visited the timer is not armed, and every key that a
waiting worker could get is locked, announced, under a timer that fires in time
or still to be visited. The timer is armed for the first item that is not ready,
and because the tree is ordered by due time (`FirstIsEarliest`) it is early
enough for all the others. `WakeInv` also says that while a walk goes on and a
worker waits, every key is locked, announced or still to be visited. `OrderIsKept`
follows: what `less` puts before the item that is offered is not still to be
visited (`PassedOverIsSeen`). `WaitersAreExact` is inductive relative to `Inv`; it
counts workers, so these must be finitely many. `OfferIsTaken` follows from it: the
pending send has taken one from the count, so there is a worker for it.

`DepthIsExact` compares a gauge with the number of items it counts. `DepthInv`
adds that the map is finite, and each change of the map is one key that joins,
leaves or moves between the sets that are counted.

The last part proves `Spec => ImplementsKeyedQueue` from `Inv`: each action is a
step of `KeyedQueue` or leaves its variables unchanged.

`EventDispatchProofs` proves `TypeOK`, `InFlightIsExact`, `DigestHasOwner` and
`FailedIsCovered`. The invariant adds that a worker that is not idle has an
event. With it, every step that takes an event out of the queue and the workers
hands it on, frees its digest or strands it, however informer and workers race.
`FailedIsCovered` is about steps: a failed event is left alone only because its
digest is claimed, and `DigestHasOwner` says by whom. `DispatchUsesQueue` shows that
every step is a call the queue allows, or none, except `TraceIdError`.

`RateLimiterProofs` proves `NoHotLoop` for all delays, widths and numbers of
retries. The invariant says that an event that may be requeued has fewer
attempts than the limit, so that its backoff is not zero (`BackoffIsNotZero`).
`When` then returns zero only for a stale entry, which it leaves in the map; the
entry gets no younger, and the `Forget` of the next attempt deletes it
(`ZeroIsForgotten`).

The same module proves `TypeOK` and `BackoffIsKept`. Both have the hypothesis
`NoTie`: no backoff is exactly one more than the largest `Duration`, which is
true of every base delay in whole microseconds. Then the float64 arithmetic
gives the capped power of two (`BackoffValue`). `BackoffIsKept` needs
`DelayIsRemembered`: as long as an entry is not stale, the last delay is the one
that belongs to its attempts, whatever `Forget` did in between. For prompt events
it also needs `PromptIsOnTime`: the delay, at most the maximum, and an attempt that
takes no longer than the maximum never add up to a stale entry.

`ReconcileProofs` is about one object with its workers.
- `ReconcileTypes` needs no restriction: with any number of workers, a worker
  that is not idle has an event, and a call has the object it needs.
- `GraceTheorem` assumes one worker (`OneWorker`). `GraceInv` says that past the
  recovery the marks of the object are complete until the worker itself
  writes a new pending mark.
- `NoLeakTheorem` assumes one worker and `PlainUsers`: nobody else puts a
  finalizer on the object, and not both of orphaning (from the start or by a
  change of the policy) and creating anew happen.
  The table above shows what happens without. `LeakInv` says that a resource
  nobody chose to keep belongs to an object with our finalizer, that a create is
  under way only while the finalizer is in place, and that what was deleted is
  still gone when the finalizer is removed.
- `RollbackTheorem` assumes one worker and `VisibleInGrace`: a create takes
  `CreateTicks`, its result is seen `Lag` later, and the sum is not above the
  grace period. `RollbackInv` says that while a resource cannot be seen, the age
  of the mark and the time until it is visible stay within that sum: when
  the recovery has waited for the grace period, it sees the resource.
- `DeleteTheorem` is for any number of workers. It assumes that no object is
  created again under its name. `DeleteInv` says that whatever leads to a Delete
  event (a notification on its way, a queued or delayed event, a worker that
  processes one) means that the deletion was requested or is over; that a deletion
  waits for some finalizer; that a worker reaches `Delete` only with a Delete
  event, past the orphan path; and that there, no object that this worker saw was
  to be orphaned (`spared`) still has our finalizer, whatever its policy is by
  then. The last part needs that no worker adds the finalizer to an object that
  is being deleted: a copy that would make it do so is stale, and the write
  conflicts.

`MetricsServerProofs` proves `CallbackKnows` and `GoesBackInRaceOnly` for any
number of rotations. The content of the certificate file only gets newer, so
what was read and what is cached are behind it (`ReadsAreBehind`), and a read
has a certificate not older than the one cached when it began
(`ReadsGoForward`); going back therefore takes a second read in between.
`ServerRunsWatcher` shows that the server calls the watcher only as `CertSpec`
allows, so both hold in the composition. `HandshakeHasCertificate` rests on
`HandshakeInv`: `New` returns a watcher only with a certificate in its cache,
the server listens only after that, and nothing empties the cache.

`ManagedObjectProofs` proves `SummaryIsExact`: at any clock and for any grace
period, the summary that `Reconcile` is built on gives the answers that the
code computes from the times. The invariant relates each field of the summary to
the times; the arithmetic is that of whole seconds and their halves.
`PoliciesAgree` holds of any annotations.

`TypeOK`, `RemovalIsExact`, `ConditionsAreKept` and `FailureIsLocal` are about
loops, which the model writes as folds. The fold is unrolled into the function
of its states, and a fact about every turn is the set of turns it holds of,
which is all of them by `NatSetInduction` (the complement of the set has no
minimum). `ObjectInv` is the inductive invariant: distinct finalizers, conditions
of distinct types, and a status in which no path with a value is a prefix of
another. On it
- `RemovalAt`: until the loop of `RemoveFinalizer` meets the finalizer it changes
  nothing, and the rest of the array, shifted by one, does not hold it again;
- `UpsertIs` and `BatchIs`: an upsert puts the condition into the list and leaves
  the others where they are, so the list that `SetConditions` leaves is what was
  read of the other types and the last condition of each type given;
- `LocalFailure`: the run of `Project` without a failing mapping is the run with
  it, one turn late after that mapping, with the errors renumbered.

`DrainProofs` proves `TypeOK`, `LiveContext`, `NobodyLeft` and `NoRelaunch`. They
rest on the order in which `Run` raises its flags: the grace period is read, then
the workers are told to stop, then the queue is shut down, and only then is
anything cancelled.

`InstrumentedQueueProofs` proves `NoGhost` and that the gauge is never negative.
The strengthening is that the gauge is the size of the map and that a worker
between Get and Done has its item. `InstrumentedUsesQueue` shows that every step of
the wrapper is a call the queue allows, or none.

`Zenon` in a `BY` names the prover that finds the step; the SMT translation of such
a step is large, or not typed when an operator is given a Boolean.

The assumptions are the named `ASSUME`s of the modules: bounds are natural
numbers, the mark for absence is not a value, the queue's workers are finitely
many, the limiter's base delay is not above its maximum, twice which fits a
`Duration` (`DurationFits`). `PowersOfTwo` and `Doubling` are
arithmetic that the provers do not know (2^n > n and 2^(n+1) = 2 * 2^n for the
powers that occur); TLC evaluates them. `NoTie`, `OneWorker`, `PlainUsers`,
`VisibleInGrace` and the absence of `"recreate"` are hypotheses of the theorems named above and of no other.

Only TLC checks the liveness properties, which need reasoning about `ENABLED`:
`QueuedIsDelivered`, `ShutdownCompletes`, `DigestIsFreed`, `EventIsProcessed`,
`Settles`, `Converges`, `Refreshes`, `ServerStops`, `RunReturns` and
`EverythingStops`.

## Not modelled

- Panics in a reconcile; what `wait.Until` does then is decided outside this
  repository. The panic of `GetConditions` on a reason, message or time that is
  not a string.
- Kubernetes events, traces, logs, histograms, and the value of the oldest
  item's age.
- Conditions inside `Reconcile`: a write of the status counts only as a write
  that may fail or conflict. What the conditions become is `ManagedObject`'s.
- jq, and the conversion of numbers by `normalize`; `failedObjectRef` and
  `GetFieldsFromUnstructured`, which copy fields.
- The setters of the event tables; option defaults and the builder, sequential
  wiring before anything runs.
- Items of the queue that are not events (`worker.go:121-130`); none is ever
  queued. That path lowers the in-flight gauge without having raised it.
- The context that each event's tracing wraps around the last one's
  (`worker.go:159`): it grows, and no property here is about memory.
- Chmod events of fsnotify, handled as writes are; `TLSOpts` with a
  `GetCertificate` of their own.
- The second signal, which ends the process during a drain.
- Telemetry, collector registration, logging: output without protocol state.

## What is left

- `Drain` on `KeyedQueue` in place of its item count.
- Several objects in `Reconcile`. Objects share only the queue and the workers,
  so this concerns progress, not safety.
