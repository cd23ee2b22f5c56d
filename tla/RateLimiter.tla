---------------------------- MODULE RateLimiter ----------------------------
(***************************************************************************)
(* The rate limiter of pkg/workqueue/workqueue.go in the retry loop that   *)
(* runWorker and handleErr of pkg/controller/worker.go make of it.         *)
(*                                                                         *)
(* An event is a process: the queue never hands it to two workers, and the *)
(* limiter keeps one entry per event under one lock, so events meet only   *)
(* in the clock.  Times are kept as ages: time since LastAttempt, capped   *)
(* where the code no longer tells them apart, and time until an item of    *)
(* the queue is ready.  Time may pass between any two steps; in particular *)
(* between Forget and When, which read the clock separately.               *)
(***************************************************************************)
EXTENDS Integers

CONSTANTS
  Events,
  Prompt,      \* events that are requeued within MaxWork of becoming ready
  BaseDelay,
  MaxDelay,
  MaxRetries,  \* Options.MaxRetries
  Width,       \* bits of a time.Duration
  MaxWork,     \* the time a prompt event needs from ready to requeued
  Absent

ASSUME LimiterConstants ==
  /\ Prompt \subseteq Events
  /\ {BaseDelay, MaxDelay} \subseteq Nat \ {0}
  /\ BaseDelay <= MaxDelay
  /\ MaxRetries \in Nat
  /\ Width \in Nat \ {0, 1}
  /\ MaxWork \in Nat
  /\ Absent \notin [attempts : Nat, age : Nat] \cup Int

\* Arithmetic that the provers do not know, for the powers that are taken here.
ASSUME PowersOfTwo ==
  \A n \in 0..MaxRetries \cup {Width - 1} : 2^n \in Nat /\ 2^n > n

ASSUME Doubling ==
  2^0 = 1 /\ \A n \in 0..MaxRetries : 2^(n + 1) = 2 * 2^n

\* maxDelay and 2*maxDelay, with which ages are compared, are time.Durations.
ASSUME DurationFits == 2 * MaxDelay < 2^(Width - 1)

VARIABLES
  failures,  \* the limiter's map: attempts, and the age of LastAttempt
  pc,        \* per event: new, queued, processing, returned, requeueing, finished
  wait,      \* per event: time until the queue may hand it out
  failed,    \* per event: processItem returned an error
  work,      \* per prompt event: time since it was ready
  last,      \* history: the delay When returned last
  gap        \* history: time since then

vars == <<failures, pc, wait, failed, work, last, gap>>

\* An age past 2 * maxDelay is as good as any other.
Stale == 2 * MaxDelay + 1

Older(age) == IF age < Stale THEN age + 1 ELSE Stale

Init ==
  /\ failures = [e \in Events |-> Absent]
  /\ pc = [e \in Events |-> "new"]
  /\ wait = [e \in Events |-> 0]
  /\ failed = [e \in Events |-> FALSE]
  /\ work = [e \in Events |-> 0]
  /\ last = [e \in Events |-> Absent]
  /\ gap = [e \in Events |-> Stale]

-----------------------------------------------------------------------------
(* The limiter                                                             *)

IsStale(e) == failures[e].age > 2 * MaxDelay

\* The largest Duration is MaxInt; as a float64, to which backoff is compared,
\* it is MaxInt + 1.  That one value passes the test and does not fit: the
\* conversion gives the smallest or the largest Duration, as the processor likes.
MaxInt == 2^(Width - 1) - 1

Calculated(backoff) ==
  IF backoff = MaxInt + 1 THEN {-(MaxInt + 1), MaxInt} ELSE {backoff}

Capped(d) == IF d > MaxDelay THEN MaxDelay ELSE d

\* Mutant: the delay is not capped.
BackoffUncapped(exp) == {BaseDelay * 2^exp}

Backoff(exp) ==
  LET backoff == BaseDelay * 2^exp
  IN IF backoff > MaxInt + 1 THEN {MaxDelay} ELSE {Capped(d) : d \in Calculated(backoff)}

\* What When may return.
WhenDelay(e) ==
  IF failures[e] = Absent THEN {BaseDelay}
  ELSE IF IsStale(e) THEN {0}
  ELSE Backoff(failures[e].attempts)

\* The entry When leaves; a stale one stays as it is.
WhenEntry(e) ==
  IF failures[e] = Absent THEN [attempts |-> 1, age |-> 0]
  ELSE IF IsStale(e) THEN failures[e]
  ELSE [attempts |-> failures[e].attempts + 1, age |-> 0]

NumRequeues(e) == IF failures[e] = Absent THEN 0 ELSE failures[e].attempts

\* Mutant: the entry goes whatever its age.
ForgetAlways(e) == failures' = [failures EXCEPT ![e] = Absent]

\* Mutant: the entry is never deleted.
ForgetNothing(e) == UNCHANGED failures

\* Only an entry that has not been used for long is deleted.
Forget(e) ==
  failures' = IF failures[e] # Absent /\ IsStale(e)
              THEN [failures EXCEPT ![e] = Absent] ELSE failures

-----------------------------------------------------------------------------
(* The retry loop                                                          *)

Goto(e, label) == pc' = [pc EXCEPT ![e] = label]

\* A handler queues a new event.
Arrive(e) ==
  /\ pc[e] = "new"
  /\ Goto(e, "queued")
  /\ UNCHANGED <<failures, wait, failed, work, last, gap>>

GetWithPriority(e) ==
  /\ pc[e] = "queued"
  /\ wait[e] = 0
  /\ Goto(e, "processing")
  /\ UNCHANGED <<failures, wait, failed, work, last, gap>>

\* processItem returns; then the limiter is told to forget the event, failed or not.
Process(e) ==
  /\ pc[e] = "processing"
  /\ \E err \in BOOLEAN : failed' = [failed EXCEPT ![e] = err]
  /\ Forget(e)
  /\ Goto(e, "returned")
  /\ UNCHANGED <<wait, work, last, gap>>

\* handleErr: no error, or too many requeues, ends the event.
handleErr(e) ==
  /\ pc[e] = "returned"
  /\ Goto(e, IF failed[e] /\ NumRequeues(e) < MaxRetries THEN "requeueing" ELSE "finished")
  /\ UNCHANGED <<failures, wait, failed, work, last, gap>>

\* AddWithOpts asks When; a delay that is not positive makes the item ready at once.
Requeue(e) ==
  /\ pc[e] = "requeueing"
  /\ \E delay \in WhenDelay(e) :
       /\ wait' = [wait EXCEPT ![e] = IF delay > 0 THEN delay ELSE 0]
       /\ last' = [last EXCEPT ![e] = delay]
  /\ failures' = [failures EXCEPT ![e] = WhenEntry(e)]
  /\ work' = [work EXCEPT ![e] = 0]
  /\ gap' = [gap EXCEPT ![e] = 0]
  /\ Goto(e, "queued")
  /\ UNCHANGED failed

\* A prompt event is on its way through the loop.
Running(e) == e \in Prompt /\ pc[e] \notin {"new", "finished"} /\ wait[e] = 0

\* Time passes, but never so much that a prompt event would exceed MaxWork.
Tick ==
  /\ \A e \in Events : Running(e) => work[e] < MaxWork
  /\ failures' = [e \in Events |-> IF failures[e] = Absent THEN Absent
                    ELSE [failures[e] EXCEPT !.age = Older(@)]]
  /\ wait' = [e \in Events |-> IF wait[e] > 0 THEN wait[e] - 1 ELSE 0]
  /\ work' = [e \in Events |-> IF Running(e) THEN work[e] + 1 ELSE work[e]]
  /\ gap' = [e \in Events |-> Older(gap[e])]
  /\ UNCHANGED <<pc, failed, last>>

Loop(e) ==
  \/ GetWithPriority(e)
  \/ Process(e)
  \/ handleErr(e)
  \/ Requeue(e)

Next ==
  \/ Tick
  \/ \E e \in Events : Arrive(e) \/ Loop(e)

Spec == Init /\ [][Next]_vars

\* Time passes and workers go on; nothing makes processItem succeed.
Fairness ==
  /\ WF_vars(Tick)
  /\ \A e \in Events : WF_vars(Loop(e))

FairSpec == Spec /\ Fairness

-----------------------------------------------------------------------------
(* Properties                                                              *)

\* The type of every variable: the delays When returns are zero or lie between the
\* base and the maximal delay.  "The backoff is capped such that 'calculated' value
\* never overflows" (workqueue.go:55).
TypeOK ==
  /\ failures \in [Events -> [attempts : Nat, age : 0..Stale] \cup {Absent}]
  /\ pc \in [Events -> {"new", "queued", "processing", "returned", "requeueing", "finished"}]
  /\ wait \in [Events -> 0..MaxDelay]
  /\ failed \in [Events -> BOOLEAN]
  /\ work \in [Events -> 0..MaxWork]
  /\ last \in [Events -> {0, Absent} \cup BaseDelay..MaxDelay]
  /\ gap \in [Events -> 0..Stale]

\* A retry without delay is never followed by another one, although When leaves
\* the stale entry that made it return 0 in the map: the next Forget deletes it.
NoHotLoop ==
  [][\A e \in Events : Requeue(e) => ~(last[e] = 0 /\ last'[e] = 0)]_vars

\* The failure of e comes soon after the one before, or has to: every attempt of a
\* prompt event is over within maxDelay of the event becoming ready.
Soon(e) ==
  \/ gap[e] <= 2 * MaxDelay /\ last[e] > 0
  \/ e \in Prompt /\ MaxWork <= MaxDelay

\* Forget, which the worker calls after every attempt, leaves the backoff of a
\* failing event alone: a failure within 2 * maxDelay of the one before doubles
\* the delay and brings the event one retry nearer to MaxRetries, and only a later
\* one starts it again.  A prompt event is therefore never forgotten.
BackoffIsKept ==
  [][\A e \in Events : Requeue(e) =>
       IF last[e] = Absent THEN last'[e] = BaseDelay /\ NumRequeues(e)' = 1
       ELSE IF Soon(e)
       THEN last'[e] = Capped(2 * last[e]) /\ NumRequeues(e)' = NumRequeues(e) + 1
       ELSE last'[e] \in {0, BaseDelay}]_vars

\* MaxRetries is reached by an event that always fails, provided every attempt
\* is over within MaxWork <= maxDelay of the event becoming ready.
Settles == \A e \in Prompt : pc[e] = "queued" ~> pc[e] = "finished"

=============================================================================
