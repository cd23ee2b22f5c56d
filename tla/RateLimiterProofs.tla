------------------------- MODULE RateLimiterProofs -------------------------
(***************************************************************************)
(* The delays of the limiter, for any number of events, delays and         *)
(* retries.                                                                *)
(***************************************************************************)
EXTENDS RateLimiter, TLAPS

Entries == [attempts : Nat, age : 0..Stale]
Labels == {"new", "queued", "processing", "returned", "requeueing", "finished"}

LimiterType ==
  /\ failures \in [Events -> Entries \cup {Absent}]
  /\ pc \in [Events -> Labels]
  /\ last \in [Events -> Int \cup {Absent}]

(* The inductive invariant.  When returns 0 only for a stale entry, which  *)
(* it leaves in the map and which gets no younger; the Forget of the next  *)
(* attempt deletes it, so the next When finds no entry at all.             *)
Requeueable ==
  \A e \in Events : pc[e] = "requeueing" => NumRequeues(e) < MaxRetries

ZeroIsForgotten ==
  \A e \in Events :
    last[e] = 0 =>
      /\ pc[e] # "new"
      /\ pc[e] \in {"queued", "processing"} => failures[e] # Absent /\ IsStale(e)
      /\ pc[e] \in {"returned", "requeueing"} => failures[e] = Absent

LimiterInv == LimiterType /\ Requeueable /\ ZeroIsForgotten

-----------------------------------------------------------------------------
(* A backoff below the retry limit is never 0: it is at least the base     *)
(* delay, or one of the two ends of the range of a Duration.               *)
LEMMA BackoffIsNotZero ==
  ASSUME NEW exp \in 0..MaxRetries
  PROVE  0 \notin Backoff(exp) /\ Backoff(exp) \subseteq Int
<1> USE LimiterConstants
<1>1. 2^exp \in Nat /\ 2^exp > 0
  <2>1. exp \in Nat /\ exp \in 0..MaxRetries \cup {Width - 1}
    OBVIOUS
  <2>2. 2^exp \in Nat /\ 2^exp > exp
    BY <2>1, PowersOfTwo, Zenon
  <2> DEFINE p == 2^exp
  <2>3. p \in Nat /\ p > exp
    BY <2>2, Zenon
  <2> HIDE DEF p
  <2>4. p \in Nat /\ p > 0
    BY <2>1, <2>3
  <2> QED BY <2>4, Zenon DEF p
<1>2. MaxInt \in Nat /\ MaxInt > 0
  BY PowersOfTwo DEF MaxInt
<1>3. BaseDelay * 2^exp \in Nat /\ BaseDelay * 2^exp > 0
  <2> DEFINE p == 2^exp
  <2>1. p \in Nat /\ p > 0
    BY <1>1
  <2> HIDE DEF p
  <2>2. BaseDelay * p \in Nat /\ BaseDelay * p > 0
    BY <2>1
  <2> QED BY <2>2 DEF p
<1> DEFINE b == BaseDelay * 2^exp
<1>4. b \in Nat /\ b > 0
  BY <1>3
<1>5. Backoff(exp) = IF b > MaxInt + 1 THEN {MaxDelay} ELSE {Capped(d) : d \in Calculated(b)}
  BY DEF Backoff
<1> HIDE DEF b
<1>6. \A d \in Calculated(b) : d \in Int /\ d # 0
  BY <1>2, <1>4 DEF Calculated
<1>7. \A d \in Calculated(b) : Capped(d) \in Int /\ Capped(d) # 0
  BY <1>6 DEF Capped
<1> QED BY <1>5, <1>7

\* The invariant holds initially.
LEMMA LimiterInit_Inv == Init => LimiterInv
<1> SUFFICES ASSUME Init PROVE LimiterInv
    OBVIOUS
<1>1. \A e \in Events : last[e] = Absent /\ pc[e] = "new"
  BY DEF Init
<1>2. LimiterType
  BY DEF Init, LimiterType, Labels
<1>3. Absent # 0
  BY LimiterConstants
<1> QED BY <1>1, <1>2, <1>3 DEF LimiterInv, Requeueable, ZeroIsForgotten

(* Every step keeps the invariant.                                         *)
LEMMA LimiterNext_Inv == LimiterInv /\ [Next]_vars => LimiterInv'
<1> SUFFICES ASSUME LimiterInv, [Next]_vars PROVE LimiterInv'
    OBVIOUS
<1> USE LimiterConstants
<1>0. LimiterType /\ Requeueable /\ ZeroIsForgotten
  BY DEF LimiterInv
<1>1. CASE Tick
  <2>1. UNCHANGED <<pc, last>>
    BY <1>1 DEF Tick
  <2>2. failures' = [e \in Events |-> IF failures[e] = Absent THEN Absent
                       ELSE [failures[e] EXCEPT !.age = Older(@)]]
    BY <1>1 DEF Tick
  <2>3. \A e \in Events : failures[e] = Absent => failures'[e] = Absent
    BY <2>2
  <2>4. ASSUME NEW e \in Events, failures[e] # Absent
        PROVE  /\ failures'[e] \in Entries /\ failures'[e] # Absent
               /\ failures'[e].attempts = failures[e].attempts
               /\ IsStale(e) => failures'[e].age > 2 * MaxDelay
    <3>1. failures[e] \in Entries /\ failures'[e] = [failures[e] EXCEPT !.age = Older(failures[e].age)]
      BY <1>0, <2>2, <2>4 DEF LimiterType
    <3>2. failures[e].age \in 0..Stale /\ Stale \in Nat /\ Stale = 2 * MaxDelay + 1
      BY <3>1 DEF Entries, Stale
    <3>3. Older(failures[e].age) \in 0..Stale
      BY <3>2 DEF Older
    <3>4. failures'[e] \in Entries /\ failures'[e].attempts = failures[e].attempts
          /\ failures'[e].age = Older(failures[e].age)
      BY <3>1, <3>3 DEF Entries
    <3>5. IsStale(e) => Older(failures[e].age) > 2 * MaxDelay
      BY <3>2 DEF IsStale, Older
    <3>6. Entries \subseteq [attempts : Nat, age : Nat]
      BY <3>2 DEF Entries
    <3> QED BY <3>4, <3>5, <3>6
  <2>5. LimiterType'
    <3>1. \A e \in Events : failures'[e] \in Entries \cup {Absent}
      BY <2>3, <2>4
    <3>2. failures' \in [Events -> Entries \cup {Absent}]
      BY <2>2, <3>1
    <3> QED BY <1>0, <2>1, <3>2 DEF LimiterType
  <2>6. Requeueable'
    BY <1>0, <2>1, <2>3, <2>4 DEF Requeueable, NumRequeues
  <2>7. ZeroIsForgotten'
    BY <1>0, <2>1, <2>3, <2>4 DEF ZeroIsForgotten, IsStale
  <2> QED BY <2>5, <2>6, <2>7 DEF LimiterInv
<1>2. ASSUME NEW e \in Events, Arrive(e) \/ Loop(e) PROVE LimiterInv'
  <2> USE <1>2
  <2>1. \A d \in Events : d # e =>
          /\ failures'[d] = failures[d] /\ pc'[d] = pc[d] /\ last'[d] = last[d]
    BY <1>0
    DEF Arrive, Loop, GetWithPriority, Process, handleErr, Requeue, Forget, Goto, LimiterType
  <2>2. ASSUME LimiterType',
               pc'[e] = "requeueing" => NumRequeues(e)' < MaxRetries,
               last'[e] = 0 =>
                 /\ pc'[e] # "new"
                 /\ pc'[e] \in {"queued", "processing"} => failures'[e] # Absent /\ IsStale(e)'
                 /\ pc'[e] \in {"returned", "requeueing"} => failures'[e] = Absent
        PROVE  LimiterInv'
    <3>1. Requeueable'
      BY <1>0, <2>1, <2>2 DEF Requeueable, NumRequeues
    <3>2. ZeroIsForgotten'
      BY <1>0, <2>1, <2>2 DEF ZeroIsForgotten, IsStale
    <3> QED BY <2>2, <3>1, <3>2 DEF LimiterInv
  <2>3. CASE Arrive(e) \/ GetWithPriority(e) \/ handleErr(e)
    <3>1. UNCHANGED <<failures, last>>
      BY <2>3 DEF Arrive, GetWithPriority, handleErr
    <3>2. \E l \in Labels : pc' = [pc EXCEPT ![e] = l]
      BY <2>3 DEF Arrive, GetWithPriority, handleErr, Goto, Labels
    <3>3. LimiterType'
      BY <1>0, <3>1, <3>2 DEF LimiterType
    <3>4. pc'[e] = "requeueing" => NumRequeues(e)' < MaxRetries
      <4>1. CASE handleErr(e)
        BY <1>0, <3>1, <4>1 DEF handleErr, Goto, NumRequeues, LimiterType
      <4>2. CASE Arrive(e) \/ GetWithPriority(e)
        BY <1>0, <4>2 DEF Arrive, GetWithPriority, Goto, LimiterType
      <4> QED BY <2>3, <4>1, <4>2
    <3>5. last'[e] = 0 =>
            /\ pc'[e] # "new"
            /\ pc'[e] \in {"queued", "processing"} => failures'[e] # Absent /\ IsStale(e)'
            /\ pc'[e] \in {"returned", "requeueing"} => failures'[e] = Absent
      <4>1. \/ pc[e] = "new" /\ pc'[e] = "queued"
            \/ pc[e] = "queued" /\ pc'[e] = "processing"
            \/ pc[e] = "returned" /\ pc'[e] \in {"requeueing", "finished"}
        BY <1>0, <2>3 DEF Arrive, GetWithPriority, handleErr, Goto, LimiterType
      <4> QED BY <1>0, <3>1, <4>1 DEF ZeroIsForgotten, IsStale
    <3> QED BY <2>2, <3>3, <3>4, <3>5
  <2>4. CASE Process(e)
    <3>1. /\ UNCHANGED last
          /\ pc[e] = "processing" /\ pc' = [pc EXCEPT ![e] = "returned"]
          /\ failures' = IF failures[e] # Absent /\ IsStale(e)
                         THEN [failures EXCEPT ![e] = Absent] ELSE failures
      BY <2>4 DEF Process, Forget, Goto
    <3>2. failures' \in [Events -> Entries \cup {Absent}]
      BY <1>0, <3>1 DEF LimiterType
    <3>3. pc' \in [Events -> Labels] /\ pc'[e] = "returned"
      BY <1>0, <3>1 DEF LimiterType, Labels
    <3>4. LimiterType'
      BY <1>0, <3>1, <3>2, <3>3 DEF LimiterType
    <3>5. last'[e] = 0 => failures'[e] = Absent
      BY <1>0, <3>1 DEF ZeroIsForgotten, LimiterType
    <3> QED BY <2>2, <3>3, <3>4, <3>5
  <2>5. CASE Requeue(e)
    <3>1. /\ pc[e] = "requeueing" /\ pc' = [pc EXCEPT ![e] = "queued"]
          /\ failures' = [failures EXCEPT ![e] = WhenEntry(e)]
      BY <2>5 DEF Requeue, Goto
    <3>2. PICK delay \in WhenDelay(e) : last' = [last EXCEPT ![e] = delay]
      BY <2>5 DEF Requeue
    <3>3. failures[e] \in Entries \cup {Absent}
      BY <1>0 DEF LimiterType
    <3>4. Stale \in Nat /\ 0 \in 0..Stale
      BY DEF Stale
    <3>5. failures[e] # Absent => failures[e].attempts \in 0..MaxRetries
      BY <1>0, <3>1, <3>3 DEF Requeueable, NumRequeues, Entries
    <3>6. WhenEntry(e) \in Entries
      BY <3>3, <3>4 DEF WhenEntry, Entries
    <3>7. Entries \subseteq [attempts : Nat, age : Nat]
      BY <3>4 DEF Entries
    <3>8. delay \in Int /\ (delay = 0 => failures[e] # Absent /\ IsStale(e))
      <4>1. CASE failures[e] = Absent
        BY <3>2, <4>1 DEF WhenDelay
      <4>2. CASE failures[e] # Absent /\ IsStale(e)
        BY <3>2, <4>2 DEF WhenDelay
      <4>3. CASE failures[e] # Absent /\ ~IsStale(e)
        <5>1. delay \in Backoff(failures[e].attempts)
          BY <3>2, <4>3 DEF WhenDelay
        <5> QED BY <3>5, <4>3, <5>1, BackoffIsNotZero
      <4> QED BY <4>1, <4>2, <4>3
    <3>9. LimiterType'
      <4>1. failures' \in [Events -> Entries \cup {Absent}]
        BY <1>0, <3>1, <3>6 DEF LimiterType
      <4>2. pc' \in [Events -> Labels]
        BY <1>0, <3>1 DEF LimiterType, Labels
      <4>3. last' \in [Events -> Int \cup {Absent}]
        BY <1>0, <3>2, <3>8 DEF LimiterType
      <4> QED BY <4>1, <4>2, <4>3 DEF LimiterType
    <3>10. pc'[e] = "queued" /\ last'[e] = delay /\ failures'[e] = WhenEntry(e)
      BY <1>0, <3>1, <3>2 DEF LimiterType
    <3>11. IsStale(e) /\ failures[e] # Absent => failures'[e] = failures[e]
      BY <3>10 DEF WhenEntry
    <3>12. last'[e] = 0 => failures'[e] # Absent /\ IsStale(e)'
      BY <3>8, <3>10, <3>11 DEF IsStale
    <3> QED BY <2>2, <3>9, <3>10, <3>12
  <2> QED BY <2>3, <2>4, <2>5 DEF Loop
<1>3. CASE UNCHANGED vars
  BY <1>0, <1>3
  DEF vars, LimiterInv, LimiterType, Requeueable, NumRequeues, ZeroIsForgotten, IsStale
<1> QED BY <1>1, <1>2, <1>3 DEF Next

(* A retry without delay is never followed by another one: the worker      *)
(* never spins on an event, however often and however slowly it fails.     *)
THEOREM NoHotLoopTheorem == Spec => NoHotLoop
<1>1. Spec => []LimiterInv
  BY LimiterInit_Inv, LimiterNext_Inv, PTL DEF Spec
<1>2. ASSUME LimiterInv, NEW e \in Events, Requeue(e), last[e] = 0 PROVE last'[e] # 0
  <2>1. failures[e] = Absent
    BY <1>2 DEF LimiterInv, ZeroIsForgotten, Requeue
  <2>2. last' = [last EXCEPT ![e] = BaseDelay]
    BY <1>2, <2>1 DEF Requeue, WhenDelay
  <2> QED BY <1>2, <2>2, LimiterConstants DEF LimiterInv, LimiterType
<1>3. LimiterInv => [\A e \in Events : Requeue(e) => ~(last[e] = 0 /\ last'[e] = 0)]_vars
  BY <1>2
<1> QED BY <1>1, <1>3, PTL DEF NoHotLoop

-----------------------------------------------------------------------------
(* The delays                                                              *)

\* No backoff is exactly one more than the largest Duration.  Every base delay
\* of whole microseconds is a multiple of 5, which no power of two is.
NoTie == \A n \in 0..MaxRetries : BaseDelay * 2^n # MaxInt + 1

\* What a power of two is here: a number of which the next one is the double.
LEMMA PowerFacts ==
  ASSUME NEW n \in 0..MaxRetries
  PROVE  2^n \in Nat /\ 2^n >= 1
<1>1. n \in Nat /\ n \in 0..MaxRetries \cup {Width - 1}
  BY LimiterConstants
<1>2. 2^n \in Nat /\ 2^n > n
  BY <1>1, PowersOfTwo, Zenon
<1> DEFINE p == 2^n
<1>3. p \in Nat /\ p > n
  BY <1>2, Zenon
<1> HIDE DEF p
<1>4. p \in Nat /\ p >= 1
  BY <1>1, <1>3
<1> QED BY <1>4, Zenon DEF p

\* The float64 arithmetic of When gives the capped power of two, although it
\* passes through numbers that do not fit a Duration.
LEMMA BackoffValue ==
  ASSUME NoTie, NEW exp \in 0..MaxRetries
  PROVE  /\ Backoff(exp) = {Capped(BaseDelay * 2^exp)}
         /\ Capped(BaseDelay * 2^exp) \in BaseDelay..MaxDelay
<1> USE LimiterConstants
<1> DEFINE p == 2^exp
<1>1. p \in Nat /\ p >= 1
  BY PowerFacts
<1> DEFINE b == BaseDelay * p
<1>2. Backoff(exp) = IF b > MaxInt + 1 THEN {MaxDelay} ELSE {Capped(d) : d \in Calculated(b)}
  BY DEF Backoff
<1>3. b # MaxInt + 1
  BY DEF NoTie
<1>4. Capped(BaseDelay * 2^exp) = Capped(b)
  OBVIOUS
<1> HIDE DEF p
<1>5. b \in Nat /\ b >= BaseDelay
  BY <1>1
<1> HIDE DEF b
<1>6. MaxInt \in Int /\ MaxDelay < MaxInt + 1
  <2> DEFINE q == 2^(Width - 1)
  <2>1. q \in Nat /\ MaxDelay < q /\ MaxInt = q - 1
    BY PowersOfTwo, DurationFits DEF MaxInt
  <2> HIDE DEF q
  <2> QED BY <2>1
<1>7. Backoff(exp) = {Capped(b)}
  <2>1. CASE b > MaxInt + 1
    <3>1. Capped(b) = MaxDelay
      BY <1>5, <1>6, <2>1 DEF Capped
    <3> QED BY <1>2, <2>1, <3>1
  <2>2. CASE ~(b > MaxInt + 1)
    <3>1. Calculated(b) = {b}
      BY <1>3 DEF Calculated
    <3> QED BY <1>2, <2>2, <3>1
  <2> QED BY <2>1, <2>2
<1>8. Capped(b) \in BaseDelay..MaxDelay
  BY <1>5 DEF Capped
<1> QED BY <1>4, <1>7, <1>8

\* One more attempt doubles the delay, below the cap and at it.
LEMMA CappedDoubles ==
  ASSUME NEW n \in 0..MaxRetries
  PROVE  Capped(BaseDelay * 2^(n + 1)) = Capped(2 * Capped(BaseDelay * 2^n))
<1> USE LimiterConstants
<1> DEFINE p == 2^n
           q == 2^(n + 1)
<1>1. p \in Nat /\ q = 2 * p
  BY PowerFacts, Doubling
<1> SUFFICES Capped(BaseDelay * q) = Capped(2 * Capped(BaseDelay * p))
  OBVIOUS
<1> HIDE DEF p, q
<1>2. BaseDelay * p \in Nat /\ BaseDelay * q = 2 * (BaseDelay * p)
  BY <1>1
<1> DEFINE b == BaseDelay * p
<1> HIDE DEF b
<1>3. b \in Nat /\ BaseDelay * q = 2 * b
  BY <1>2 DEF b
<1>4. Capped(2 * b) = Capped(2 * Capped(b))
  BY <1>3 DEF Capped
<1> QED BY <1>3, <1>4 DEF b

\* An age grows until it is as good as any other.
LEMMA OlderFacts ==
  ASSUME NEW age \in 0..Stale
  PROVE  Older(age) \in 0..Stale /\ (age > 2 * MaxDelay => Older(age) > 2 * MaxDelay)
BY LimiterConstants DEF Older, Stale

\* What When returns, with the entry it leaves, for an event that is requeued.
LEMMA WhenFacts ==
  ASSUME NoTie, LimiterInv, NEW e \in Events, pc[e] = "requeueing", NEW delay \in WhenDelay(e)
  PROVE  \/ failures[e] = Absent /\ delay = BaseDelay
            /\ WhenEntry(e) = [attempts |-> 1, age |-> 0] /\ 1 <= MaxRetries
         \/ failures[e] # Absent /\ IsStale(e) /\ delay = 0 /\ WhenEntry(e) = failures[e]
         \/ /\ failures[e] # Absent /\ ~IsStale(e)
            /\ failures[e].attempts \in Nat /\ failures[e].attempts < MaxRetries
            /\ delay = Capped(BaseDelay * 2^failures[e].attempts)
            /\ delay \in BaseDelay..MaxDelay
            /\ WhenEntry(e) = [attempts |-> failures[e].attempts + 1, age |-> 0]
<1> USE LimiterConstants
<1>1. failures[e] \in Entries \cup {Absent} /\ NumRequeues(e) < MaxRetries
  BY DEF LimiterInv, LimiterType, Requeueable
<1>2. CASE failures[e] = Absent
  BY <1>1, <1>2 DEF WhenDelay, WhenEntry, NumRequeues
<1>3. CASE failures[e] # Absent /\ IsStale(e)
  BY <1>3 DEF WhenDelay, WhenEntry
<1>4. CASE failures[e] # Absent /\ ~IsStale(e)
  <2>1. failures[e].attempts \in Nat /\ failures[e].attempts < MaxRetries
    BY <1>1, <1>4 DEF NumRequeues, Entries
  <2>2. failures[e].attempts \in 0..MaxRetries
    BY <2>1
  <2>3. delay \in Backoff(failures[e].attempts)
    BY <1>4 DEF WhenDelay
  <2>4. WhenEntry(e) = [attempts |-> failures[e].attempts + 1, age |-> 0]
    BY <1>4 DEF WhenEntry
  <2> QED BY <1>4, <2>1, <2>2, <2>3, <2>4, BackoffValue
<1> QED BY <1>2, <1>3, <1>4

\* The part of TypeOK that LimiterType leaves out: the delays and the clocks.
DelayType ==
  /\ wait \in [Events -> 0..MaxDelay]
  /\ failed \in [Events -> BOOLEAN]
  /\ work \in [Events -> 0..MaxWork]
  /\ last \in [Events -> {0, Absent} \cup BaseDelay..MaxDelay]
  /\ gap \in [Events -> 0..Stale]

\* Every step keeps the types of the delays.
LEMMA DelayNext_Type ==
  ASSUME NoTie, LimiterInv, DelayType, [Next]_vars
  PROVE  DelayType'
<1> USE LimiterConstants
<1>0. 0 \in 0..MaxDelay /\ 0 \in 0..MaxWork /\ 0 \in 0..Stale
  BY DEF Stale
<1>1. CASE Tick
  <2>1. \A e \in Events : (IF wait[e] > 0 THEN wait[e] - 1 ELSE 0) \in 0..MaxDelay
    BY DEF DelayType
  <2>2. \A e \in Events : (IF Running(e) THEN work[e] + 1 ELSE work[e]) \in 0..MaxWork
    BY <1>1 DEF Tick, DelayType
  <2>3. \A e \in Events : Older(gap[e]) \in 0..Stale
    BY OlderFacts DEF DelayType
  <2>4. wait' \in [Events -> 0..MaxDelay]
    BY <1>1, <2>1 DEF Tick
  <2>5. work' \in [Events -> 0..MaxWork]
    BY <1>1, <2>2 DEF Tick
  <2>6. gap' \in [Events -> 0..Stale]
    BY <1>1, <2>3 DEF Tick
  <2>7. UNCHANGED <<failed, last>>
    BY <1>1 DEF Tick
  <2> QED BY <2>4, <2>5, <2>6, <2>7 DEF DelayType
<1>2. ASSUME NEW e \in Events, Arrive(e) \/ GetWithPriority(e) \/ handleErr(e) PROVE DelayType'
  BY <1>2 DEF Arrive, GetWithPriority, handleErr, DelayType
<1>3. ASSUME NEW e \in Events, Process(e) PROVE DelayType'
  BY <1>3 DEF Process, DelayType
<1>4. ASSUME NEW e \in Events, Requeue(e) PROVE DelayType'
  <2>1. PICK delay \in WhenDelay(e) :
          /\ wait' = [wait EXCEPT ![e] = IF delay > 0 THEN delay ELSE 0]
          /\ last' = [last EXCEPT ![e] = delay]
    BY <1>4 DEF Requeue
  <2>2. delay \in {0} \cup BaseDelay..MaxDelay
    BY <1>4, WhenFacts DEF Requeue
  <2>3. (IF delay > 0 THEN delay ELSE 0) \in 0..MaxDelay
    BY <2>2
  <2>4. wait' \in [Events -> 0..MaxDelay]
    BY <2>1, <2>3 DEF DelayType
  <2>5. last' \in [Events -> {0, Absent} \cup BaseDelay..MaxDelay]
    BY <2>1, <2>2 DEF DelayType
  <2>6. work' \in [Events -> 0..MaxWork] /\ gap' \in [Events -> 0..Stale] /\ failed' = failed
    BY <1>0, <1>4 DEF Requeue, DelayType
  <2> QED BY <2>4, <2>5, <2>6 DEF DelayType
<1>5. CASE UNCHANGED vars
  BY <1>5 DEF vars, DelayType
<1> QED BY <1>1, <1>2, <1>3, <1>4, <1>5 DEF Next, Loop

(* When never returns a delay outside its range, and so the queue never    *)
(* holds an event longer than the maximal delay: the exponent stays below  *)
(* the retry limit and the float64 that is too large is caught.            *)
THEOREM LimiterTypes == ASSUME NoTie PROVE Spec => []TypeOK
<1> USE LimiterConstants
<1>1. Init => DelayType
  <2> SUFFICES ASSUME Init PROVE DelayType
      OBVIOUS
  <2>1. 0 \in 0..MaxDelay /\ 0 \in 0..MaxWork /\ Stale \in 0..Stale
    BY DEF Stale
  <2> QED BY <2>1 DEF Init, DelayType
<1>2. LimiterInv /\ DelayType /\ [Next]_vars => DelayType'
  BY DelayNext_Type
<1>3. LimiterInv /\ DelayType => TypeOK
  BY DEF LimiterInv, LimiterType, DelayType, TypeOK, Entries, Labels
<1> QED BY <1>1, <1>2, <1>3, LimiterInit_Inv, LimiterNext_Inv, PTL DEF Spec

-----------------------------------------------------------------------------
(* The backoff                                                             *)

\* What is left of the last delay: an entry of its age that still tells which
\* power of two it was, or nothing at all once it is stale.
Remembered(e) ==
  \/ /\ failures[e] # Absent
     /\ failures[e].age = gap[e]
     /\ failures[e].attempts \in 1..MaxRetries
     /\ last[e] = Capped(BaseDelay * 2^(failures[e].attempts - 1))
  \/ failures[e] = Absent /\ gap[e] > 2 * MaxDelay

DelayIsRemembered ==
  \A e \in Events : last[e] # Absent /\ last[e] # 0 => Remembered(e)

\* Every step keeps DelayIsRemembered.
LEMMA RememberedNext ==
  ASSUME NoTie, LimiterInv, DelayType, DelayIsRemembered, [Next]_vars
  PROVE  DelayIsRemembered'
<1> USE LimiterConstants
<1>1. CASE Tick
  <2> SUFFICES ASSUME NEW e \in Events, last[e] # Absent, last[e] # 0 PROVE Remembered(e)'
    BY <1>1 DEF Tick, DelayIsRemembered
  <2>1. Remembered(e)
    BY DEF DelayIsRemembered
  <2>2. gap[e] \in 0..Stale /\ gap'[e] = Older(gap[e]) /\ last'[e] = last[e]
    BY <1>1 DEF Tick, DelayType
  <2>3. failures'[e] = IF failures[e] = Absent THEN Absent
                       ELSE [failures[e] EXCEPT !.age = Older(@)]
    BY <1>1 DEF Tick
  <2>4. CASE failures[e] = Absent
    BY <2>1, <2>2, <2>3, <2>4, OlderFacts DEF Remembered
  <2>5. CASE failures[e] # Absent
    <3>1. failures[e] \in Entries
      BY <2>5 DEF LimiterInv, LimiterType
    <3>2. /\ failures'[e].age = Older(failures[e].age)
          /\ failures'[e].attempts = failures[e].attempts
          /\ failures'[e] \in [attempts : Nat, age : 0..Stale]
      BY <2>2, <2>3, <2>5, <3>1, OlderFacts DEF Entries
    <3>3. failures'[e] # Absent
      BY <3>2 DEF Stale
    <3> QED BY <2>1, <2>2, <2>5, <3>2, <3>3 DEF Remembered
  <2> QED BY <2>4, <2>5
<1>2. ASSUME NEW e \in Events, Arrive(e) \/ Loop(e) PROVE DelayIsRemembered'
  <2>1. \A d \in Events : d # e =>
          failures'[d] = failures[d] /\ last'[d] = last[d] /\ gap'[d] = gap[d]
    BY <1>2 DEF Arrive, Loop, GetWithPriority, Process, handleErr, Requeue, Forget,
                LimiterInv, LimiterType, DelayType
  <2>2. SUFFICES ASSUME last'[e] # Absent, last'[e] # 0 PROVE Remembered(e)'
    BY <2>1 DEF DelayIsRemembered, Remembered
  <2>3. CASE Arrive(e) \/ GetWithPriority(e) \/ handleErr(e)
    BY <2>2, <2>3 DEF Arrive, GetWithPriority, handleErr, DelayIsRemembered, Remembered
  <2>4. CASE Process(e)
    <3>1. UNCHANGED <<last, gap>> /\ Remembered(e)
      BY <2>2, <2>4 DEF Process, DelayIsRemembered
    <3>2. CASE failures[e] # Absent /\ IsStale(e)
      <4>1. failures'[e] = Absent
        BY <2>4, <3>2 DEF Process, Forget, LimiterInv, LimiterType
      <4>2. gap[e] > 2 * MaxDelay
        BY <3>1, <3>2 DEF Remembered, IsStale
      <4> QED BY <3>1, <4>1, <4>2 DEF Remembered
    <3>3. CASE ~(failures[e] # Absent /\ IsStale(e))
      <4>1. failures' = failures
        BY <2>4, <3>3 DEF Process, Forget
      <4> QED BY <3>1, <4>1 DEF Remembered
    <3> QED BY <3>2, <3>3
  <2>5. CASE Requeue(e)
    <3>1. PICK delay \in WhenDelay(e) : last' = [last EXCEPT ![e] = delay]
      BY <2>5 DEF Requeue
    <3>2. last'[e] = delay /\ gap'[e] = 0 /\ failures'[e] = WhenEntry(e) /\ pc[e] = "requeueing"
      BY <2>5, <3>1 DEF Requeue, LimiterInv, LimiterType, DelayType
    <3>3. CASE failures[e] = Absent
      <4>1. delay = BaseDelay /\ failures'[e] = [attempts |-> 1, age |-> 0] /\ 1 \in 1..MaxRetries
        BY <3>1, <3>2, <3>3, WhenFacts
      <4>2. failures'[e].attempts = 1 /\ failures'[e].age = 0 /\ failures'[e] # Absent
        BY <4>1
      <4>3. BaseDelay = Capped(BaseDelay * 2^(1 - 1))
        <5>1. 2^(1 - 1) = 1
          BY Doubling
        <5>2. BaseDelay = Capped(BaseDelay * 1)
          BY DEF Capped
        <5> QED BY <5>1, <5>2
      <4> QED BY <3>2, <4>1, <4>2, <4>3 DEF Remembered
    <3>4. CASE failures[e] # Absent /\ ~IsStale(e)
      <4> DEFINE n == failures[e].attempts
      <4>1. /\ n \in Nat /\ n < MaxRetries /\ delay = Capped(BaseDelay * 2^n)
            /\ failures'[e] = [attempts |-> n + 1, age |-> 0]
        BY <3>1, <3>2, <3>4, WhenFacts
      <4> HIDE DEF n
      <4>2. n + 1 \in 1..MaxRetries /\ (n + 1) - 1 = n /\ n + 1 \in Nat
        BY <4>1
      <4>3. failures'[e].attempts = n + 1 /\ failures'[e].age = 0 /\ failures'[e] # Absent
        BY <4>1, <4>2
      <4>4. last'[e] = Capped(BaseDelay * 2^(failures'[e].attempts - 1))
        BY <3>2, <4>1, <4>2, <4>3
      <4> QED BY <3>2, <4>2, <4>3, <4>4 DEF Remembered
    <3>5. CASE failures[e] # Absent /\ IsStale(e)
      BY <2>2, <3>1, <3>2, <3>5, WhenFacts
    <3> QED BY <3>3, <3>4, <3>5
  <2> QED BY <1>2, <2>3, <2>4, <2>5 DEF Loop
<1>3. CASE UNCHANGED vars
  BY <1>3 DEF vars, DelayIsRemembered, Remembered
<1> QED BY <1>1, <1>2, <1>3 DEF Next

\* The limiter has an entry only for an event it was asked about, and it is asked
\* about a prompt event again before its entry is stale: the time since the last
\* answer is what is over of the delay and what the attempt took.
OnTime(e) ==
  /\ last[e] = Absent => failures[e] = Absent
  /\ last[e] # Absent => pc[e] # "new"
  /\ e \in Prompt /\ MaxWork <= MaxDelay /\ last[e] # Absent =>
       /\ last[e] # 0
       /\ pc[e] # "finished" => gap[e] + wait[e] <= MaxDelay + work[e]

PromptIsOnTime == \A e \in Events : OnTime(e)

\* A prompt event that is requeued again is requeued soon.
LEMMA PromptIsSoon ==
  ASSUME LimiterInv, DelayType, PromptIsOnTime, NEW e \in Events, pc[e] = "requeueing",
         last[e] # Absent, Soon(e)
  PROVE  last[e] \in Nat /\ last[e] > 0 /\ gap[e] \in Nat /\ gap[e] <= 2 * MaxDelay
<1> USE LimiterConstants
<1>1. last[e] \in Nat /\ gap[e] \in Nat /\ wait[e] \in Nat /\ work[e] \in Nat /\ work[e] <= MaxWork
  BY DEF DelayType, Stale
<1>2. CASE gap[e] <= 2 * MaxDelay /\ last[e] > 0
  BY <1>1, <1>2
<1>3. CASE e \in Prompt /\ MaxWork <= MaxDelay
  <2>1. last[e] # 0 /\ gap[e] + wait[e] <= MaxDelay + work[e]
    BY <1>3 DEF PromptIsOnTime, OnTime
  <2> QED BY <1>1, <1>3, <2>1
<1> QED BY <1>2, <1>3 DEF Soon

\* Time passes for the delay or for the attempt of a prompt event, never for neither.
LEMMA OnTimeNext ==
  ASSUME NoTie, LimiterInv, DelayType, DelayIsRemembered, PromptIsOnTime, [Next]_vars
  PROVE  PromptIsOnTime'
<1> USE LimiterConstants
<1>1. CASE Tick
  <2> SUFFICES ASSUME NEW e \in Events PROVE OnTime(e)'
    BY DEF PromptIsOnTime
  <2>1. OnTime(e)
    BY DEF PromptIsOnTime
  <2>2. last'[e] = last[e] /\ pc'[e] = pc[e] /\ (failures[e] = Absent => failures'[e] = Absent)
    BY <1>1 DEF Tick
  <2>3. ASSUME e \in Prompt, pc[e] \notin {"new", "finished"},
               gap[e] + wait[e] <= MaxDelay + work[e]
        PROVE  gap'[e] + wait'[e] <= MaxDelay + work'[e]
    <3>1. gap[e] \in 0..Stale /\ wait[e] \in Nat /\ work[e] \in Nat
      BY DEF DelayType
    <3>2. gap'[e] \in Nat /\ gap'[e] <= gap[e] + 1
      BY <1>1, <3>1 DEF Tick, Older, Stale
    <3>3. wait'[e] = IF wait[e] > 0 THEN wait[e] - 1 ELSE 0
      BY <1>1 DEF Tick
    <3>4. work'[e] = IF wait[e] = 0 THEN work[e] + 1 ELSE work[e]
      BY <1>1, <2>3 DEF Tick, Running
    <3>5. CASE wait[e] = 0
      BY <2>3, <3>1, <3>2, <3>3, <3>4, <3>5 DEF Stale
    <3>6. CASE wait[e] > 0
      BY <2>3, <3>1, <3>2, <3>3, <3>4, <3>6 DEF Stale
    <3> QED BY <3>1, <3>5, <3>6
  <2> QED BY <2>1, <2>2, <2>3 DEF OnTime
<1>2. ASSUME NEW e \in Events, Arrive(e) \/ Loop(e) PROVE PromptIsOnTime'
  <2>1. \A d \in Events : d # e =>
          /\ failures'[d] = failures[d] /\ pc'[d] = pc[d] /\ wait'[d] = wait[d]
          /\ work'[d] = work[d] /\ last'[d] = last[d] /\ gap'[d] = gap[d]
    BY <1>2 DEF Arrive, Loop, GetWithPriority, Process, handleErr, Requeue, Forget, Goto,
                LimiterInv, LimiterType, DelayType
  <2>0. \A d \in Events : d # e => (OnTime(d) => OnTime(d)')
    BY <2>1 DEF OnTime
  <2>2. SUFFICES OnTime(e)'
    BY <2>0 DEF PromptIsOnTime
  <2>3. OnTime(e) /\ pc \in [Events -> Labels]
    BY DEF PromptIsOnTime, LimiterInv, LimiterType
  <2>4. CASE Arrive(e)
    BY <2>3, <2>4 DEF Arrive, OnTime
  <2>5. CASE GetWithPriority(e) \/ handleErr(e)
    <3>1. UNCHANGED <<failures, wait, work, last, gap>> /\ pc[e] \notin {"new", "finished"}
          /\ pc'[e] # "new"
      BY <2>3, <2>5 DEF GetWithPriority, handleErr, Goto
    <3> QED BY <2>3, <3>1 DEF OnTime
  <2>6. CASE Process(e)
    <3>1. /\ UNCHANGED <<wait, work, last, gap>> /\ pc[e] \notin {"new", "finished"}
          /\ pc'[e] # "new"
      BY <2>3, <2>6 DEF Process, Goto
    <3>2. failures[e] = Absent => failures'[e] = Absent
      BY <2>6 DEF Process, Forget
    <3> QED BY <2>3, <3>1, <3>2 DEF OnTime
  <2>7. CASE Requeue(e)
    <3>1. PICK delay \in WhenDelay(e) :
            /\ wait' = [wait EXCEPT ![e] = IF delay > 0 THEN delay ELSE 0]
            /\ last' = [last EXCEPT ![e] = delay]
      BY <2>7 DEF Requeue
    <3>2. /\ last'[e] = delay /\ gap'[e] = 0 /\ work'[e] = 0 /\ pc[e] = "requeueing"
          /\ pc'[e] = "queued" /\ wait'[e] = IF delay > 0 THEN delay ELSE 0
      BY <2>7, <3>1 DEF Requeue, Goto, LimiterInv, LimiterType, DelayType
    <3>3. delay \in {0} \cup BaseDelay..MaxDelay /\ delay # Absent
      BY <3>1, <3>2, WhenFacts
    <3>4. ASSUME e \in Prompt, MaxWork <= MaxDelay PROVE delay # 0
      <4>1. CASE last[e] = Absent
        <5>1. failures[e] = Absent
          BY <2>3, <4>1 DEF OnTime
        <5> QED BY <3>1, <3>2, <5>1, WhenFacts
      <4>2. CASE last[e] # Absent
        <5>1. last[e] # 0 /\ gap[e] <= 2 * MaxDelay
          BY <3>2, <3>4, <4>2, PromptIsSoon DEF Soon
        <5>2. Remembered(e)
          BY <4>2, <5>1 DEF DelayIsRemembered
        <5>3. gap[e] \in Nat
          BY DEF DelayType, Stale
        <5>4. failures[e] # Absent /\ ~IsStale(e)
          BY <5>1, <5>2, <5>3 DEF Remembered, IsStale
        <5>5. delay \in BaseDelay..MaxDelay
          BY <3>1, <3>2, <5>4, WhenFacts
        <5> QED BY <5>5
      <4> QED BY <4>1, <4>2
    <3>5. 0 + wait'[e] <= MaxDelay + 0
      BY <3>2, <3>3
    <3> QED BY <3>2, <3>3, <3>4, <3>5 DEF OnTime
  <2> QED BY <1>2, <2>4, <2>5, <2>6, <2>7 DEF Loop
<1>3. CASE UNCHANGED vars
  BY <1>3 DEF vars, PromptIsOnTime, OnTime
<1> QED BY <1>1, <1>2, <1>3 DEF Next

(* A failure within 2 * maxDelay of the one before doubles the delay up to *)
(* the cap and is counted, although Forget is called after every attempt;  *)
(* a later one starts the backoff again.  The failures of a prompt event   *)
(* are never later, so each brings it nearer to MaxRetries.                *)
THEOREM BackoffTheorem == ASSUME NoTie PROVE Spec => BackoffIsKept
<1> USE LimiterConstants
<1>1. Init => DelayType /\ DelayIsRemembered /\ PromptIsOnTime
  <2> SUFFICES ASSUME Init PROVE DelayType /\ DelayIsRemembered /\ PromptIsOnTime
      OBVIOUS
  <2>1. 0 \in 0..MaxDelay /\ 0 \in 0..MaxWork /\ Stale \in 0..Stale
    BY DEF Stale
  <2>2. DelayType /\ DelayIsRemembered
    BY <2>1 DEF Init, DelayType, DelayIsRemembered
  <2>3. PromptIsOnTime
    BY DEF Init, PromptIsOnTime, OnTime
  <2> QED BY <2>2, <2>3
<1>2. LimiterInv /\ DelayType /\ DelayIsRemembered /\ PromptIsOnTime /\ [Next]_vars
        => (DelayType /\ DelayIsRemembered /\ PromptIsOnTime)'
  BY DelayNext_Type, RememberedNext, OnTimeNext
<1>3. ASSUME LimiterInv, DelayType, DelayIsRemembered, PromptIsOnTime,
             NEW e \in Events, Requeue(e)
      PROVE  IF last[e] = Absent THEN last'[e] = BaseDelay /\ NumRequeues(e)' = 1
             ELSE IF Soon(e)
             THEN last'[e] = Capped(2 * last[e]) /\ NumRequeues(e)' = NumRequeues(e) + 1
             ELSE last'[e] \in {0, BaseDelay}
  <2>1. PICK delay \in WhenDelay(e) : last' = [last EXCEPT ![e] = delay]
    BY <1>3 DEF Requeue
  <2>2. last'[e] = delay /\ pc[e] = "requeueing" /\ failures'[e] = WhenEntry(e)
    BY <1>3, <2>1 DEF Requeue, LimiterInv, LimiterType
  <2>3. CASE last[e] = Absent
    <3>1. failures[e] = Absent
      BY <1>3, <2>3 DEF PromptIsOnTime, OnTime
    <3>2. delay = BaseDelay /\ failures'[e] = [attempts |-> 1, age |-> 0]
      BY <1>3, <2>1, <2>2, <3>1, WhenFacts
    <3>3. failures'[e] # Absent /\ failures'[e].attempts = 1
      BY <3>2
    <3> QED BY <2>2, <2>3, <3>2, <3>3 DEF NumRequeues
  <2>4. CASE last[e] # Absent /\ Soon(e)
    <3>1. last[e] \in Nat /\ last[e] > 0 /\ gap[e] \in Nat /\ gap[e] <= 2 * MaxDelay
      BY <1>3, <2>2, <2>4, PromptIsSoon
    <3>2. Remembered(e)
      BY <1>3, <2>4, <3>1 DEF DelayIsRemembered
    <3>3. failures[e] # Absent /\ ~IsStale(e)
      BY <3>1, <3>2 DEF Remembered, IsStale
    <3> DEFINE n == failures[e].attempts
    <3>4. /\ delay = Capped(BaseDelay * 2^n)
          /\ failures'[e] = [attempts |-> n + 1, age |-> 0]
      BY <1>3, <2>1, <2>2, <3>3, WhenFacts
    <3>5. n \in 1..MaxRetries /\ last[e] = Capped(BaseDelay * 2^(n - 1))
      BY <3>2, <3>3 DEF Remembered
    <3>6. NumRequeues(e) = n
      BY <3>3 DEF NumRequeues
    <3> HIDE DEF n
    <3>7. n - 1 \in 0..MaxRetries /\ (n - 1) + 1 = n /\ n + 1 \in Nat
      BY <3>5
    <3>8. Capped(BaseDelay * 2^((n - 1) + 1)) = Capped(2 * Capped(BaseDelay * 2^(n - 1)))
      BY <3>7, CappedDoubles
    <3>9. delay = Capped(2 * last[e])
      BY <3>4, <3>5, <3>7, <3>8
    <3>10. failures'[e] # Absent /\ failures'[e].attempts = n + 1
      BY <3>4, <3>7
    <3>11. NumRequeues(e)' = NumRequeues(e) + 1
      BY <3>6, <3>10 DEF NumRequeues
    <3> QED BY <2>2, <2>4, <3>9, <3>11
  <2>5. CASE last[e] # Absent /\ ~Soon(e)
    <3>1. last[e] \in Nat /\ gap[e] \in Nat
      BY <1>3, <2>5 DEF DelayType, Stale
    <3>2. last[e] = 0 \/ gap[e] > 2 * MaxDelay
      BY <2>5, <3>1 DEF Soon
    <3>3. failures[e] = Absent \/ (failures[e] # Absent /\ IsStale(e))
      <4>1. CASE last[e] = 0
        BY <1>3, <2>2, <4>1 DEF LimiterInv, ZeroIsForgotten
      <4>2. CASE last[e] # 0
        <5>1. Remembered(e)
          BY <1>3, <2>5, <4>2 DEF DelayIsRemembered
        <5> QED BY <3>2, <4>2, <5>1 DEF Remembered, IsStale
      <4> QED BY <4>1, <4>2
    <3>4. delay \in {0, BaseDelay}
      BY <1>3, <2>1, <2>2, <3>3, WhenFacts
    <3> QED BY <2>2, <2>5, <3>4
  <2> QED BY <2>3, <2>4, <2>5
<1>4. LimiterInv /\ DelayType /\ DelayIsRemembered /\ PromptIsOnTime =>
        [\A e \in Events : Requeue(e) =>
           IF last[e] = Absent THEN last'[e] = BaseDelay /\ NumRequeues(e)' = 1
           ELSE IF Soon(e)
           THEN last'[e] = Capped(2 * last[e]) /\ NumRequeues(e)' = NumRequeues(e) + 1
           ELSE last'[e] \in {0, BaseDelay}]_vars
  BY <1>3
<1> QED BY <1>1, <1>2, <1>4, LimiterInit_Inv, LimiterNext_Inv, PTL DEF Spec, BackoffIsKept

=============================================================================
