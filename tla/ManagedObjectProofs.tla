------------------------- MODULE ManagedObjectProofs -------------------------
(***************************************************************************)
(* SummaryIsExact, for every grace period and however long the clock runs; *)
(* PoliciesAgree, for every set of policies users may write; and TypeOK,   *)
(* RemovalIsExact, ConditionsAreKept and FailureIsLocal, for finalizers,   *)
(* conditions and mappings of any number.                                  *)
(*                                                                         *)
(* The last four are about loops, which the model writes as folds.  A fold *)
(* over n turns is unrolled into the function of its n + 1 states, whose   *)
(* existence IterationExists shows, and facts about every turn follow from *)
(* NatSetInduction: induction over a set of naturals, from the minimum of  *)
(* its complement.                                                         *)
(***************************************************************************)
EXTENDS ManagedObject, WellFoundedInduction, SequenceTheorems, TLAPS

Summary ==
  [started : BOOLEAN, age : 0..Grace, outcomeNow : BOOLEAN, incomplete : BOOLEAN, open : BOOLEAN]

MarksTypeOK ==
  /\ clock \in Nat /\ clock >= 2
  /\ pending \in 0..Second(clock)
  /\ succeeded \in 0..Second(clock)
  /\ failed \in 0..Second(clock)
  /\ marks \in Summary

(* The inductive invariant says what each field of the summary stands for. *)
(* No mark is later than the clock: an outcome that is written now is      *)
(* later than every pending mark, and a pending mark that is written now   *)
(* is later than every outcome but one of the same second.                 *)
StartedIsPending == marks.started <=> (pending # 0)
OutcomeIsNow == marks.outcomeNow <=> (succeeded = Second(clock) \/ failed = Second(clock))
AgeIsCapped ==
  marks.started =>
    marks.age = IF Second(clock) - pending < Grace THEN Second(clock) - pending ELSE Grace
IncompleteIsExact == marks.incomplete <=> Incomplete(pending, succeeded, failed)

MarksInv == MarksTypeOK /\ StartedIsPending /\ OutcomeIsNow /\ AgeIsCapped /\ IncompleteIsExact

-----------------------------------------------------------------------------
(* Half seconds and seconds.                                               *)
LEMMA SecondBounds ==
  ASSUME NEW t \in Nat
  PROVE  /\ Second(t) \in Nat
         /\ 2 * Second(t) <= t
         /\ t < 2 * Second(t) + 2
BY DEF Second

(* A second ends, or does not, with half of one.                           *)
LEMMA NextSecond ==
  ASSUME NEW t \in Nat
  PROVE  Second(t + 1) \in {Second(t), Second(t) + 1}
BY DEF Second

(* What the operations of CreateMarks do to the fields of the summary.     *)
LEMMA PendingFields ==
  ASSUME NEW s \in Summary, NEW r, r = SetExternalCreatePending(s)
  PROVE  /\ r \in Summary
         /\ r.started /\ r.age = 0
         /\ r.incomplete <=> ~s.outcomeNow
         /\ r.outcomeNow <=> s.outcomeNow
<1>1. r = [started |-> TRUE, age |-> 0, outcomeNow |-> s.outcomeNow,
           incomplete |-> ~s.outcomeNow, open |-> TRUE]
  BY Zenon DEF SetExternalCreatePending, Summary
<1>2. s.outcomeNow \in BOOLEAN /\ 0 \in 0..Grace
  BY GraceAssumption DEF Summary
<1>3. r \in Summary
  BY <1>1, <1>2 DEF Summary
<1>4. r.incomplete = ~s.outcomeNow
  BY <1>1
<1>5. r.started /\ r.age = 0 /\ r.outcomeNow = s.outcomeNow
  BY <1>1
<1> QED BY <1>2, <1>3, <1>4, <1>5, Zenon

(* What RemovePending does to the fields of the summary.                   *)
LEMMA UnmarkFields ==
  ASSUME NEW s \in Summary, NEW r, r = RemovePending(s)
  PROVE  /\ r \in Summary
         /\ ~r.started /\ r.age = 0
         /\ ~r.incomplete
         /\ r.outcomeNow <=> s.outcomeNow
<1>1. r = [started |-> FALSE, age |-> 0, outcomeNow |-> s.outcomeNow,
           incomplete |-> FALSE, open |-> FALSE]
  BY Zenon DEF RemovePending, Summary
<1>2. s.outcomeNow \in BOOLEAN /\ 0 \in 0..Grace
  BY GraceAssumption DEF Summary
<1>3. r \in Summary
  BY <1>1, <1>2 DEF Summary
<1> QED BY <1>1, <1>3

(* What the end of a second does to the fields of the summary.             *)
LEMMA OlderFields ==
  ASSUME NEW s \in Summary, NEW r, r = Older(s)
  PROVE  /\ r \in Summary
         /\ r.started <=> s.started
         /\ r.age = IF s.started /\ s.age < Grace THEN s.age + 1 ELSE s.age
         /\ r.incomplete <=> s.incomplete
         /\ ~r.outcomeNow
<1> DEFINE age == IF s.started /\ s.age < Grace THEN s.age + 1 ELSE s.age
<1>1. r = [started |-> s.started, age |-> age, outcomeNow |-> FALSE,
           incomplete |-> s.incomplete, open |-> s.open]
  BY Zenon DEF Older, Summary
<1>2. s.started \in BOOLEAN /\ s.incomplete \in BOOLEAN /\ s.open \in BOOLEAN /\ s.age \in 0..Grace
  BY DEF Summary
<1>3. age \in 0..Grace
  BY <1>2, GraceAssumption
<1>4. r.age = age
  BY <1>1
<1> HIDE DEF age
<1>5. r \in Summary
  BY <1>1, <1>2, <1>3 DEF Summary
<1> QED BY <1>1, <1>4, <1>5 DEF age

(* An object without marks has the summary of one.                         *)
LEMMA MarksInit_Inv == MarksInit => MarksInv
<1> SUFFICES ASSUME MarksInit PROVE MarksInv
    OBVIOUS
<1>1. Second(clock) = 1
  BY DEF MarksInit, Second
<1>2. MarksTypeOK
  BY <1>1, GraceAssumption DEF MarksInit, MarksTypeOK, Summary
<1>3. StartedIsPending /\ OutcomeIsNow /\ AgeIsCapped /\ IncompleteIsExact
  BY <1>1 DEF MarksInit, StartedIsPending, OutcomeIsNow, AgeIsCapped, IncompleteIsExact, Incomplete
<1> QED BY <1>2, <1>3 DEF MarksInv

(* Every step keeps the invariant.                                         *)
LEMMA MarksNext_Inv == MarksInv /\ [MarksNext]_markVars => MarksInv'
<1> SUFFICES ASSUME MarksInv, [MarksNext]_markVars PROVE MarksInv'
    OBVIOUS
<1> USE GraceAssumption
<1> DEFINE now == Second(clock)
<1>t. /\ clock \in Nat /\ now \in Nat /\ now >= 1
      /\ pending \in 0..now /\ succeeded \in 0..now /\ failed \in 0..now
      /\ marks \in Summary
  BY SecondBounds DEF MarksInv, MarksTypeOK
<1>i. /\ StartedIsPending
      /\ marks.outcomeNow <=> (succeeded = now \/ failed = now)
      /\ marks.started => marks.age = IF now - pending < Grace THEN now - pending ELSE Grace
      /\ IncompleteIsExact
  BY DEF MarksInv, OutcomeIsNow, AgeIsCapped
<1>1. CASE MarkPending
  <2>1. pending' = now /\ UNCHANGED <<clock, succeeded, failed>>
    BY <1>1 DEF MarkPending
  <2>2. /\ marks' \in Summary
        /\ marks'.started /\ marks'.age = 0
        /\ marks'.incomplete <=> ~marks.outcomeNow
        /\ marks'.outcomeNow <=> marks.outcomeNow
    BY <1>1, <1>t, PendingFields, Zenon DEF MarkPending
  <2>3. now' = now
    BY <2>1
  <2>4. MarksTypeOK'
    BY <1>t, <2>1, <2>2, <2>3 DEF MarksInv, MarksTypeOK
  <2>5. StartedIsPending' /\ OutcomeIsNow' /\ AgeIsCapped'
    BY <1>t, <1>i, <2>1, <2>2, <2>3 DEF StartedIsPending, OutcomeIsNow, AgeIsCapped
  <2>6. IncompleteIsExact'
    BY <1>t, <1>i, <2>1, <2>2 DEF IncompleteIsExact, Incomplete
  <2> QED BY <2>4, <2>5, <2>6, Zenon DEF MarksInv
<1>2. CASE MarkSucceeded \/ MarkFailed
  <2>1. /\ UNCHANGED <<clock, pending>>
        /\ \/ succeeded' = now /\ failed' = failed
           \/ failed' = now /\ succeeded' = succeeded
    BY <1>2 DEF MarkSucceeded, MarkFailed
  <2>2. /\ marks' \in Summary
        /\ marks'.started <=> marks.started
        /\ marks'.age = marks.age
        /\ ~marks'.incomplete /\ marks'.outcomeNow
    BY <1>2, <1>t, Zenon DEF MarkSucceeded, MarkFailed, SetExternalCreateOutcome, Summary
  <2>3. now' = now
    BY <2>1
  <2>4. MarksTypeOK'
    BY <1>t, <2>1, <2>2, <2>3 DEF MarksInv, MarksTypeOK
  <2>5. StartedIsPending' /\ OutcomeIsNow' /\ AgeIsCapped'
    BY <1>t, <1>i, <2>1, <2>2, <2>3, Zenon DEF StartedIsPending, OutcomeIsNow, AgeIsCapped
  <2>6. IncompleteIsExact'
    BY <1>t, <1>i, <2>1, <2>2 DEF IncompleteIsExact, Incomplete
  <2> QED BY <2>4, <2>5, <2>6 DEF MarksInv
<1>3. CASE UnmarkPending
  <2>1. pending' = 0 /\ UNCHANGED <<clock, succeeded, failed>>
    BY <1>3 DEF UnmarkPending
  <2>2. /\ marks' \in Summary
        /\ ~marks'.started /\ marks'.age = 0
        /\ ~marks'.incomplete
        /\ marks'.outcomeNow <=> marks.outcomeNow
    BY <1>3, <1>t, UnmarkFields DEF UnmarkPending
  <2>3. now' = now
    BY <2>1
  <2>4. MarksTypeOK'
    BY <1>t, <2>1, <2>2, <2>3 DEF MarksInv, MarksTypeOK
  <2>5. StartedIsPending' /\ OutcomeIsNow' /\ AgeIsCapped' /\ IncompleteIsExact'
    BY <1>t, <1>i, <2>1, <2>2, <2>3, Zenon
    DEF StartedIsPending, OutcomeIsNow, AgeIsCapped, IncompleteIsExact, Incomplete
  <2> QED BY <2>4, <2>5 DEF MarksInv
<1>4. CASE HalfSecond
  <2>1. clock' = clock + 1 /\ UNCHANGED times
    BY <1>4 DEF HalfSecond
  <2>2. UNCHANGED <<pending, succeeded, failed>>
    BY <2>1 DEF times
  <2>3. now' = now \/ now' = now + 1
    BY <1>t, <2>1, NextSecond, Zenon
  <2>4. clock' \in Nat /\ clock' >= 2
    BY <1>t, <2>1 DEF MarksInv, MarksTypeOK
  <2>5. CASE now' = now
    <3>1. marks' = marks
      BY <1>4, <2>5 DEF HalfSecond
    <3> QED BY <1>t, <1>i, <2>2, <2>4, <2>5, <3>1, Zenon
            DEF MarksInv, MarksTypeOK, StartedIsPending, OutcomeIsNow, AgeIsCapped,
                IncompleteIsExact, Incomplete
  <2>6. CASE now' = now + 1
    <3>1. now' # now
      BY <1>t, <2>6
    <3>2. marks' = Older(marks)
      BY <1>4, <3>1 DEF HalfSecond
    <3>3. /\ marks' \in Summary
          /\ marks'.started <=> marks.started
          /\ marks'.age = IF marks.started /\ marks.age < Grace THEN marks.age + 1 ELSE marks.age
          /\ marks'.incomplete <=> marks.incomplete
          /\ ~marks'.outcomeNow
      BY <1>t, <3>2, OlderFields, Zenon
    <3>4. MarksTypeOK'
      BY <1>t, <2>2, <2>4, <2>6, <3>3 DEF MarksTypeOK
    <3>5. StartedIsPending' /\ OutcomeIsNow' /\ IncompleteIsExact'
      BY <1>t, <1>i, <2>2, <2>6, <3>3
      DEF StartedIsPending, OutcomeIsNow, IncompleteIsExact, Incomplete
    <3>6. AgeIsCapped'
      BY <1>t, <1>i, <2>2, <2>6, <3>3 DEF AgeIsCapped, StartedIsPending
    <3> QED BY <3>4, <3>5, <3>6, Zenon DEF MarksInv
  <2> QED BY <2>3, <2>5, <2>6, Zenon
<1>5. CASE UNCHANGED markVars
  BY <1>5 DEF markVars, times, MarksInv, MarksTypeOK, StartedIsPending, OutcomeIsNow, AgeIsCapped,
              IncompleteIsExact, Incomplete, Second
<1> QED BY <1>1, <1>2, <1>3, <1>4, <1>5, Zenon DEF MarksNext

(* time.Since(t) < d asks for half seconds what the age asks for seconds:  *)
(* the grace period is a whole number of them.                             *)
LEMMA MarksInv_Exact == MarksInv => SummaryIsExact
<1> SUFFICES ASSUME MarksInv PROVE SummaryIsExact
    OBVIOUS
<1>1. marks.incomplete <=> Incomplete(pending, succeeded, failed)
  BY DEF MarksInv, IncompleteIsExact
<1>2. /\ Second(clock) \in Nat /\ 2 * Second(clock) <= clock /\ clock < 2 * Second(clock) + 2
      /\ clock \in Nat /\ pending \in 0..Second(clock)
  BY SecondBounds DEF MarksInv, MarksTypeOK
<1>3. marks.started => ((marks.age < Grace) <=> (Second(clock) - pending < Grace))
  BY <1>2, GraceAssumption DEF MarksInv, AgeIsCapped
<1>4. (Second(clock) - pending < Grace) <=> (clock - 2 * pending < 2 * Grace)
  BY <1>2, GraceAssumption
<1>5. ExternalCreatePendingDuring(marks) <=> PendingDuring(pending, clock)
  BY <1>3, <1>4 DEF MarksInv, StartedIsPending, ExternalCreatePendingDuring, PendingDuring
<1> QED BY <1>1, <1>5 DEF SummaryIsExact

(* The summary of the create marks that the reconciler is modelled with    *)
(* answers ExternalCreateIncomplete and ExternalCreatePendingDuring as the *)
(* times in the annotations do, for every grace period, every sequence of  *)
(* marks and every moment.                                                 *)
THEOREM SummaryTheorem == MarksSpec => []SummaryIsExact
<1>1. MarksSpec => []MarksInv
  BY MarksInit_Inv, MarksNext_Inv, PTL DEF MarksSpec
<1> QED BY <1>1, MarksInv_Exact, PTL

-----------------------------------------------------------------------------
(* The object                                                              *)

(* The create marks of an object on which every other operation of the     *)
(* packages is used too are still those of CreateMarkTimes.                *)
THEOREM ObjectKeepsMarks == Spec => MarksSpec
<1>1. Init => MarksInit
  BY DEF Init
<1>2. [Next]_vars => [MarksNext]_markVars
  BY DEF Next, vars, ChangeFinalizers, ChangeAnnotations, ChangeMarks, ChangeConditions,
         ProjectStatus, SetObservedGeneration
<1> QED BY <1>1, <1>2, PTL DEF Spec, MarksSpec

(* SummaryIsExact, for the object.                                         *)
THEOREM ObjectSummary == Spec => []SummaryIsExact
BY ObjectKeepsMarks, SummaryTheorem, PTL

(* The five policy functions agree on every object, whatever its users     *)
(* write into the two annotations.                                         *)
THEOREM PoliciesTheorem == Spec => []PoliciesAgree
<1>1. PoliciesAgree
  <2> DEFINE m == ManagementPolicy(annotations)
             actions == {"create", "update", "delete"}
             allowed == {x \in actions : IsActionAllowed(annotations, x)}
  <2>1. /\ IsActionAllowed(annotations, "create") <=> m \in {"default", "observe-create-update"}
        /\ IsActionAllowed(annotations, "update") <=> m \in {"default", "observe-create-update"}
        /\ IsActionAllowed(annotations, "delete") <=> m \in {"default", "observe-delete"}
    BY DEF IsActionAllowed
  <2>2. ShouldCreate(annotations) <=> m \in {"default", "observe-create-update"}
    BY DEF ShouldCreate
  <2>3. ShouldDelete(annotations) => m \in {"default", "observe-delete"}
    BY DEF ShouldDelete
  <2>4. ShouldOnlyObserve(annotations) <=> m = "observe"
    BY DEF ShouldOnlyObserve
  <2>5. /\ "create" \in allowed <=> m \in {"default", "observe-create-update"}
        /\ "update" \in allowed <=> m \in {"default", "observe-create-update"}
        /\ "delete" \in allowed <=> m \in {"default", "observe-delete"}
    BY <2>1
  <2>6. allowed \subseteq actions
    OBVIOUS
  <2>7. ShouldCreate(annotations) \in BOOLEAN
    BY DEF ShouldCreate
  <2> HIDE DEF m, allowed
  <2>8. ShouldOnlyObserve(annotations) => allowed = {}
    BY <2>4, <2>5, <2>6, Zenon
  <2>9. ShouldCreate(annotations) <=> {"create", "update"} \cap allowed # {}
    BY <2>2, <2>5
  <2>10. ShouldCreate(annotations) = ({"create", "update"} \cap allowed # {})
    BY <2>7, <2>9
  <2>11. ShouldDelete(annotations) => "delete" \in allowed
    BY <2>3, <2>5
  <2>12. m \notin {"default", "observe", "observe-create-update", "observe-delete"} => allowed = {}
    BY <2>5, <2>6
  <2> QED BY <2>8, <2>10, <2>11, <2>12, Zenon DEF PoliciesAgree, m, allowed
<1> QED BY <1>1, PTL

-----------------------------------------------------------------------------
(* Induction and iteration                                                 *)

(* Induction over the naturals, for a set.                                 *)
LEMMA NatSetInduction ==
  ASSUME NEW S, S \subseteq Nat, 0 \in S, \A n \in S : n + 1 \in S
  PROVE  \A n \in Nat : n \in S
<1> SUFFICES ASSUME NEW n \in Nat \ S PROVE FALSE
    OBVIOUS
<1> DEFINE less == {p \in Nat \X Nat : p[1] < p[2]}
<1>0. IsWellFoundedOn(less, Nat)
  BY NatLessThanWellFounded DEF OpToRel
<1>1. PICK m \in Nat \ S : \A k \in Nat \ S : ~(<<k, m>> \in less)
  <2>1. Nat \ S \subseteq Nat /\ Nat \ S # {}
    OBVIOUS
  <2> HIDE DEF less
  <2> QED BY <1>0, <2>1, WFMin, Zenon
<1>2. m # 0 /\ m - 1 \in Nat /\ m - 1 < m
  BY <1>1
<1>3. m - 1 \in S
  BY <1>1, <1>2, Zenon
<1>4. (m - 1) + 1 = m
  BY <1>1
<1> QED BY <1>1, <1>3, <1>4, Zenon

(* The largest number of an initial segment.                               *)
LEMMA Segment ==
  ASSUME NEW n \in Nat, NEW k \in 1..n
  PROVE  /\ Max(1..k) = k /\ (1..k) \ {k} = 1..(k - 1)
         /\ 1..k # {} /\ 1..k \in SUBSET (1..n)
         /\ k \in 0..n /\ k - 1 \in 0..n
<1>1. Max(1..k) = k
  <2>1. k \in 1..k /\ \A y \in 1..k : k >= y
    OBVIOUS
  <2>2. \A x \in 1..k : (\A y \in 1..k : x >= y) => x = k
    OBVIOUS
  <2> QED BY <2>1, <2>2 DEF Max
<1>2. (1..k) \ {k} = 1..(k - 1)
  OBVIOUS
<1>3. k \in 1..k /\ 1..k \subseteq 1..n
  OBVIOUS
<1> QED BY <1>1, <1>2, <1>3

(* A fold by a step that keeps a set of results: the function that         *)
(* MapThenFoldSet iterates exists, and what it yields for the first k      *)
(* elements follows from what it yields for the first k - 1.               *)
Iterates(g, st, base, n) ==
  \A s \in SUBSET (1..n) :
    g[s] = IF s = {} THEN base ELSE st[<<g[s \ {Max(s)}], Max(s)>>]

(* A step that stays in S can be iterated n times from any base in S.      *)
LEMMA IterationExists ==
  ASSUME NEW n \in Nat, NEW R, NEW base \in R, NEW st \in [R \X (1..n) -> R]
  PROVE  \E g \in [SUBSET (1..n) -> R] : Iterates(g, st, base, n)
<1> DEFINE Done == {m \in Nat : m <= n => \E g \in [SUBSET (1..m) -> R] : Iterates(g, st, base, m)}
<1>1. 0 \in Done
  <2> DEFINE g == [s \in SUBSET (1..0) |-> base]
  <2>1. 1..0 = {}
    OBVIOUS
  <2>2. g \in [SUBSET (1..0) -> R] /\ Iterates(g, st, base, 0)
    BY <2>1 DEF Iterates
  <2> QED BY <2>2
<1>2. ASSUME NEW m \in Done PROVE m + 1 \in Done
  <2>m. m \in Nat /\ m + 1 \in Nat
    BY <1>2
  <2> SUFFICES ASSUME m + 1 <= n
               PROVE  \E g \in [SUBSET (1..(m + 1)) -> R] : Iterates(g, st, base, m + 1)
    BY <2>m, Zenon
  <2>1. PICK g \in [SUBSET (1..m) -> R] : Iterates(g, st, base, m)
    <3>1. m <= n
      BY <2>m
    <3> QED BY <1>2, <3>1, Zenon
  <2> DEFINE j == m + 1
             h == [s \in SUBSET (1..j) |-> IF j \in s THEN st[<<g[s \ {j}], j>>] ELSE g[s]]
  <2>2. j \in 1..n /\ 1..m \subseteq 1..j /\ \A s \in SUBSET (1..j) : s \ {j} \in SUBSET (1..m)
    BY <2>m
  <2>3. h \in [SUBSET (1..j) -> R]
    <3> SUFFICES ASSUME NEW s \in SUBSET (1..j)
                 PROVE  (IF j \in s THEN st[<<g[s \ {j}], j>>] ELSE g[s]) \in R
      OBVIOUS
    <3>1. CASE j \in s
      <4>1. g[s \ {j}] \in R
        BY <2>1, <2>2
      <4> QED BY <2>2, <3>1, <4>1, Zenon
    <3>2. CASE j \notin s
      <4>1. s = s \ {j}
        BY <3>2
      <4>2. s \in SUBSET (1..m)
        BY <2>2, <4>1, Zenon
      <4> QED BY <2>1, <3>2, <4>2, Zenon
    <3> QED BY <3>1, <3>2
  <2>4. ASSUME NEW s \in SUBSET (1..j)
        PROVE  h[s] = IF s = {} THEN base ELSE st[<<h[s \ {Max(s)}], Max(s)>>]
    <3>1. CASE j \in s
      <4>1. Max(s) = j
        <5>1. \A y \in s : j >= y
          OBVIOUS
        <5>2. \A x \in s : (\A y \in s : x >= y) => x = j
          BY <3>1
        <5> QED BY <3>1, <5>1, <5>2, Zenon DEF Max
      <4>2. h[s \ {j}] = g[s \ {j}]
        BY <2>2
      <4> QED BY <3>1, <4>1, <4>2
    <3>2. CASE j \notin s
      <4>1. s = s \ {j}
        BY <3>2
      <4>2. s \in SUBSET (1..m)
        BY <2>2, <4>1
      <4>3. h[s] = g[s]
        BY <3>2
      <4>4. s \ {Max(s)} \in SUBSET (1..m) /\ s \ {Max(s)} \in SUBSET (1..j)
        BY <4>2, Zenon
      <4>5. h[s \ {Max(s)}] = g[s \ {Max(s)}]
        BY <3>2, <4>4
      <4> QED BY <2>1, <4>2, <4>3, <4>5, Zenon DEF Iterates
    <3> QED BY <3>1, <3>2, Zenon
  <2>5. Iterates(h, st, base, j)
    BY <2>4, Zenon DEF Iterates
  <2> QED BY <2>3, <2>5, Zenon
<1>3. \A m \in Nat : m \in Done
  <2>1. Done \subseteq Nat
    OBVIOUS
  <2> HIDE DEF Done
  <2> QED BY <1>1, <1>2, <2>1, NatSetInduction, Zenon
<1>4. n \in Done
  BY <1>3, Zenon
<1>5. n <= n
  OBVIOUS
<1> QED BY <1>4, <1>5, Zenon

(* Every non-empty set of such numbers has a largest one.                  *)
LEMMA MaxIsIn ==
  ASSUME NEW n \in Nat, NEW s \in SUBSET (1..n), s # {}
  PROVE  Max(s) \in s
<1> DEFINE Done == {m \in Nat : \A t \in SUBSET (1..m) : t # {} => \E x \in t : \A y \in t : x >= y}
<1>1. 0 \in Done
  <2>1. 1..0 = {}
    OBVIOUS
  <2> QED BY <2>1, Zenon
<1>2. ASSUME NEW m \in Done PROVE m + 1 \in Done
  <2> SUFFICES ASSUME NEW t \in SUBSET (1..(m + 1)), t # {}
               PROVE  \E x \in t : \A y \in t : x >= y
    OBVIOUS
  <2>1. CASE m + 1 \in t
    <3>1. \A y \in t : m + 1 >= y
      OBVIOUS
    <3> QED BY <2>1, <3>1
  <2>2. CASE m + 1 \notin t
    <3>1. t \in SUBSET (1..m)
      BY <2>2
    <3> QED BY <1>2, <3>1
  <2> QED BY <2>1, <2>2
<1>3. n \in Done
  <2>1. Done \subseteq Nat
    OBVIOUS
  <2> HIDE DEF Done
  <2> QED BY <1>1, <1>2, <2>1, NatSetInduction, Zenon
<1> QED BY <1>3, Zenon DEF Max

(* Induction over the steps of a run.                                      *)
LEMMA RunInduction ==
  ASSUME NEW n \in Nat, NEW S, 0 \in S, \A k \in 1..n : k - 1 \in S => k \in S
  PROVE  \A k \in 0..n : k \in S
<1> DEFINE Done == {m \in Nat : m <= n => m \in S}
<1>1. 0 \in Done /\ \A m \in Done : m + 1 \in Done
  <2>1. ASSUME NEW m \in Done PROVE m + 1 \in Done
    <3>1. m \in Nat /\ m + 1 \in Nat /\ (m + 1) - 1 = m
      OBVIOUS
    <3>2. CASE m + 1 <= n
      BY <3>1, <3>2
    <3> QED BY <3>1, <3>2
  <2> QED BY <2>1
<1>2. \A m \in Nat : m \in Done
  <2>1. Done \subseteq Nat
    OBVIOUS
  <2> HIDE DEF Done
  <2> QED BY <1>1, <2>1, NatSetInduction, Zenon
<1> QED BY <1>2

-----------------------------------------------------------------------------
(* RemoveFinalizer                                                         *)

RemovalStates(S, n) == [array : [1..n -> S], len : 0..n, panics : BOOLEAN]

(* One turn of the loop of RemoveFinalizer keeps the array and bounds its  *)
(* length.                                                                 *)
LEMMA RemovalStepType ==
  ASSUME NEW S, NEW n \in Nat, NEW s \in RemovalStates(S, n), NEW i \in 1..n, NEW x
  PROVE  RemovalStep(x, s, i) \in RemovalStates(S, n)
<1>1. CASE s.panics \/ s.array[i] # x
  BY <1>1, Zenon DEF RemovalStep
<1>2. CASE ~(s.panics \/ s.array[i] # x) /\ i > s.len
  <2>1. RemovalStep(x, s, i) = [array |-> s.array, len |-> s.len, panics |-> TRUE]
    BY <1>2, Zenon DEF RemovalStep, RemovalStates
  <2> QED BY <2>1 DEF RemovalStates
<1>3. CASE ~(s.panics \/ s.array[i] # x) /\ ~(i > s.len)
  <2> DEFINE a == [j \in DOMAIN s.array |-> IF j \in i..(s.len - 1) THEN s.array[j + 1] ELSE s.array[j]]
  <2>1. RemovalStep(x, s, i) = [array |-> a, len |-> s.len - 1, panics |-> s.panics]
    BY <1>3, Zenon DEF RemovalStep, RemovalStates
  <2>2. s.array \in [1..n -> S] /\ s.len \in 0..n /\ s.panics \in BOOLEAN
    BY DEF RemovalStates
  <2>3. a \in [1..n -> S]
    BY <2>2
  <2>4. s.len - 1 \in 0..n
    BY <1>3, <2>2
  <2> HIDE DEF a
  <2> QED BY <2>1, <2>2, <2>3, <2>4 DEF RemovalStates
<1> QED BY <1>1, <1>2, <1>3, Zenon

RemovalBase(f) == [array |-> f, len |-> Len(f), panics |-> FALSE]

(* h[k] is the state of the loop after k positions.                        *)
RemovalRun(S, f, x, h) ==
  /\ h \in [0..Len(f) -> RemovalStates(S, Len(f))]
  /\ h[0] = RemovalBase(f)
  /\ \A k \in 1..Len(f) : h[k] = RemovalStep(x, h[k - 1], k)
  /\ Removal(f, x) = h[Len(f)]

(* Removal is the last state of the loop: the fold, unrolled turn by turn. *)
LEMMA RemovalRuns ==
  ASSUME NEW S, NEW f \in Seq(S), NEW x
  PROVE  \E h : RemovalRun(S, f, x, h)
<1> DEFINE n == Len(f)
           R == RemovalStates(S, n)
           base == RemovalBase(f)
           st == [p \in R \X (1..n) |-> RemovalStep(x, p[1], p[2])]
           Def(g) == g = [s \in SUBSET DOMAIN [i \in DOMAIN f |-> i] |->
                           IF s = {} THEN [array |-> f, len |-> Len(f), panics |-> FALSE]
                           ELSE RemovalStep(x, g[s \ {Max(s)}], [i \in DOMAIN f |-> i][Max(s)])]
<1>1. n \in Nat /\ DOMAIN f = 1..n /\ f \in [1..n -> S]
  BY LenProperties
<1>2. base \in R
  BY <1>1 DEF RemovalStates, RemovalBase
<1>3. st \in [R \X (1..n) -> R]
  BY <1>1, RemovalStepType, Zenon
<1>4. Removal(f, x) = (CHOOSE g : Def(g))[DOMAIN [i \in DOMAIN f |-> i]]
  BY DEF Removal, FoldLeft, MapThenFoldSet
<1>5. PICK g0 \in [SUBSET (1..n) -> R] : Iterates(g0, st, base, n)
  <2> HIDE DEF n, R, base, st
  <2> QED BY <1>1, <1>2, <1>3, IterationExists, Zenon
<1>6. Def(g0)
  <2>1. g0 = [s \in SUBSET (1..n) |-> g0[s]]
    BY <1>5
  <2>2. ASSUME NEW s \in SUBSET (1..n)
        PROVE  g0[s] = IF s = {} THEN base
                       ELSE RemovalStep(x, g0[s \ {Max(s)}], [i \in DOMAIN f |-> i][Max(s)])
    <3>1. CASE s = {}
      BY <1>5, <3>1, Zenon DEF Iterates
    <3>2. CASE s # {}
      <4>1. Max(s) \in 1..n /\ s \ {Max(s)} \in SUBSET (1..n)
        BY <1>1, <3>2, MaxIsIn, Zenon
      <4>2. g0[s \ {Max(s)}] \in R
        BY <1>5, <4>1
      <4>3. g0[s] = st[<<g0[s \ {Max(s)}], Max(s)>>]
        BY <1>5, <3>2, Zenon DEF Iterates
      <4>4. [i \in DOMAIN f |-> i][Max(s)] = Max(s)
        BY <1>1, <4>1, Zenon
      <4> QED BY <3>2, <4>1, <4>2, <4>3, <4>4, Zenon
    <3> QED BY <3>1, <3>2
  <2>3. DOMAIN [i \in DOMAIN f |-> i] = 1..n
    BY <1>1
  <2> QED BY <2>1, <2>2, <2>3, Zenon DEF RemovalBase
<1> DEFINE g == CHOOSE g : Def(g)
           h == [k \in 0..n |-> g[1..k]]
<1>7. Def(g)
  <2> HIDE DEF Def
  <2> QED BY <1>6, Zenon
<1> HIDE DEF g
<1>8. Removal(f, x) = h[n]
  BY <1>1, <1>4 DEF g
<1>9. h[0] = base
  <2>1. 1..0 = {}
    OBVIOUS
  <2> QED BY <1>1, <1>7, <2>1 DEF RemovalBase
<1>10. ASSUME NEW k \in 1..n PROVE h[k] = RemovalStep(x, h[k - 1], k)
  <2>1. Max(1..k) = k /\ (1..k) \ {k} = 1..(k - 1)
    BY <1>1, Segment, Zenon
  <2>2. 1..k # {} /\ k \in 0..n /\ k - 1 \in 0..n /\ 1..k \in SUBSET (1..n)
    BY <1>1, Segment, Zenon
  <2>3. g[1..k] = RemovalStep(x, g[1..(k - 1)], k)
    <3> DEFINE seg == 1..k
    <3>1. [i \in DOMAIN f |-> i] = [i \in 1..n |-> i]
      BY <1>1, Zenon
    <3>2. \A s \in SUBSET (1..n) :
            g[s] = IF s = {} THEN base
                   ELSE RemovalStep(x, g[s \ {Max(s)}], [i \in 1..n |-> i][Max(s)])
      BY <1>7, <3>1, Zenon DEF RemovalBase
    <3>3. seg \in SUBSET (1..n) /\ seg # {} /\ Max(seg) = k /\ seg \ {k} = 1..(k - 1)
      BY <2>1, <2>2, Zenon
    <3>4. [i \in 1..n |-> i][k] = k
      OBVIOUS
    <3> HIDE DEF seg, n, base
    <3>5. g[seg] = RemovalStep(x, g[seg \ {Max(seg)}], [i \in 1..n |-> i][Max(seg)])
      BY <3>2, <3>3, Zenon
    <3>6. g[seg] = RemovalStep(x, g[1..(k - 1)], k)
      BY <3>3, <3>4, <3>5, Zenon
    <3> QED BY <3>6, Zenon DEF seg
  <2> QED BY <2>2, <2>3, Zenon
<1>11. h \in [0..n -> R]
  <2> DEFINE Good == {k \in 0..n : h[k] \in R}
  <2>1. 0 \in Good
    BY <1>1, <1>2, <1>9
  <2>2. ASSUME NEW k \in 1..n, k - 1 \in Good PROVE k \in Good
    <3>1. h[k - 1] \in R
      BY <2>2, Zenon
    <3>2. h[k] = RemovalStep(x, h[k - 1], k)
      BY <1>10, Zenon
    <3>3. k \in 0..n
      <4> HIDE DEF n
      <4> QED BY <1>1
    <3> HIDE DEF n, h
    <3>4. h[k] \in R
      BY <1>1, <3>1, <3>2, RemovalStepType
    <3> QED BY <3>3, <3>4, Zenon
  <2>3. \A k \in 0..n : k \in Good
    <3> HIDE DEF Good
    <3> QED BY <1>1, <2>1, <2>2, RunInduction, Zenon
  <2>4. \A k \in 0..n : h[k] \in R
    BY <2>3
  <2> QED BY <2>4, Zenon
<1>12. RemovalRun(S, f, x, h)
  <2> HIDE DEF h
  <2> QED BY <1>8, <1>9, <1>10, <1>11, Zenon DEF RemovalRun
<1> QED BY <1>12

(* The first m elements of a list.                                         *)
LEMMA PrefixIs ==
  ASSUME NEW S, NEW s, NEW m \in Nat, \A i \in 1..m : s[i] \in S
  PROVE  /\ SubSeq(s, 1, m) \in Seq(S)
         /\ Len(SubSeq(s, 1, m)) = m
         /\ \A i \in 1..m : SubSeq(s, 1, m)[i] = s[i]
<1> DEFINE t == SubSeq(s, 1, m)
<1>1. /\ t \in Seq(S)
      /\ Len(t) = IF 1 <= m THEN m - 1 + 1 ELSE 0
      /\ \A i \in 1..(m - 1 + 1) : t[i] = s[1 + i - 1]
  BY SubSeqProperties
<1> HIDE DEF t
<1>2. m - 1 + 1 = m /\ \A i \in 1..m : 1 + i - 1 = i
  OBVIOUS
<1>3. Len(t) = m
  BY <1>1
<1>4. \A i \in 1..m : t[i] = s[i]
  BY <1>1, <1>2, Zenon
<1> QED BY <1>1, <1>3, <1>4, Zenon DEF t

(* Where the element at i was before the one at p was removed.             *)
Skip(p, i) == IF i < p THEN i ELSE i + 1

(* Skip passes over p and is one-to-one.                                   *)
LEMMA SkipIs ==
  ASSUME NEW n \in Nat, NEW p \in 1..n, NEW i \in 1..(n - 1), NEW j \in 1..(n - 1)
  PROVE  /\ Skip(p, i) \in 1..n
         /\ Skip(p, i) # p
         /\ Skip(p, i) = Skip(p, j) => i = j
BY DEF Skip

(* What the list is without its element at p.                              *)
LEMMA RemoveAtIs ==
  ASSUME NEW S, NEW f \in Seq(S), NEW p \in 1..Len(f)
  PROVE  /\ RemoveAt(f, p) \in Seq(S)
         /\ Len(RemoveAt(f, p)) = Len(f) - 1
         /\ \A i \in 1..(Len(f) - 1) : RemoveAt(f, p)[i] = f[Skip(p, i)]
<1> DEFINE n == Len(f)
           front == SubSeq(f, 1, p - 1)
           back == SubSeq(f, p + 1, n)
<1>1. n \in Nat /\ \A i \in 1..n : f[i] \in S
  BY LenProperties
<1>2. front \in Seq(S) /\ Len(front) = p - 1 /\ \A i \in 1..(p - 1) : front[i] = f[i]
  <2>1. \A i \in 1..(p - 1) : f[i] \in S
    BY <1>1
  <2> QED BY <1>1, <2>1, SubSeqProperties
<1>3. back \in Seq(S) /\ Len(back) = n - p /\ \A i \in 1..(n - p) : back[i] = f[p + i]
  <2>1. \A i \in (p + 1)..n : f[i] \in S
    BY <1>1
  <2> QED BY <1>1, <2>1, SubSeqProperties
<1> HIDE DEF n, front, back
<1>4. /\ front \o back \in Seq(S)
      /\ Len(front \o back) = Len(front) + Len(back)
      /\ \A i \in 1..(Len(front) + Len(back)) :
           (front \o back)[i] = IF i <= Len(front) THEN front[i] ELSE back[i - Len(front)]
  BY <1>2, <1>3, ConcatProperties, Zenon
<1>5. Len(front \o back) = n - 1
  BY <1>1, <1>2, <1>3, <1>4 DEF n
<1>6. ASSUME NEW i \in 1..(n - 1) PROVE (front \o back)[i] = f[Skip(p, i)]
  <2>1. i \in 1..(Len(front) + Len(back)) /\ Len(front) = p - 1
    BY <1>1, <1>2, <1>3 DEF n
  <2>2. CASE i < p
    BY <1>2, <1>4, <2>1, <2>2 DEF Skip
  <2>3. CASE ~(i < p)
    <3>1. i - (p - 1) \in 1..(n - p) /\ p + (i - (p - 1)) = i + 1
      BY <1>1, <2>3 DEF n
    <3>2. (front \o back)[i] = back[i - (p - 1)]
      BY <1>4, <2>1, <2>3
    <3> QED BY <1>3, <2>3, <3>1, <3>2, Zenon DEF Skip
  <2> QED BY <2>2, <2>3, Zenon
<1> QED BY <1>4, <1>5, <1>6, Zenon DEF RemoveAt, n, front, back

(* The position that SelectInSeq finds.                                    *)
LEMMA FirstIndex ==
  ASSUME NEW n \in Nat, NEW I \in SUBSET (1..n), I # {}
  PROVE  Min(I) \in I /\ \A j \in I : Min(I) <= j
<1> DEFINE Done == {m \in Nat : \A t \in SUBSET (1..m) : t # {} => \E x \in t : \A y \in t : x <= y}
<1>1. 0 \in Done
  <2>1. 1..0 = {}
    OBVIOUS
  <2> QED BY <2>1, Zenon
<1>2. ASSUME NEW m \in Done PROVE m + 1 \in Done
  <2> SUFFICES ASSUME NEW t \in SUBSET (1..(m + 1)), t # {}
               PROVE  \E x \in t : \A y \in t : x <= y
    OBVIOUS
  <2>1. CASE t \ {m + 1} = {}
    <3>1. \A y \in t : y = m + 1
      BY <2>1
    <3>2. m + 1 <= m + 1
      OBVIOUS
    <3> QED BY <3>1, <3>2
  <2>2. CASE t \ {m + 1} # {}
    <3>1. t \ {m + 1} \in SUBSET (1..m)
      OBVIOUS
    <3>2. PICK x \in t \ {m + 1} : \A y \in t \ {m + 1} : x <= y
      BY <1>2, <2>2, <3>1, Zenon
    <3>3. x <= m + 1
      BY <3>1, <3>2
    <3> QED BY <3>2, <3>3
  <2> QED BY <2>1, <2>2, Zenon
<1>3. n \in Done
  <2>1. Done \subseteq Nat
    OBVIOUS
  <2> HIDE DEF Done
  <2> QED BY <1>1, <1>2, <2>1, NatSetInduction, Zenon
<1>4. PICK x \in I : \A y \in I : x <= y
  BY <1>3
<1> QED BY <1>4, Zenon DEF Min

(* A step of the loop at a position that does not hold x.                  *)
LEMMA RemovalPasses ==
  ASSUME NEW x, NEW s, NEW i, s.array[i] # x
  PROVE  RemovalStep(x, s, i) = s
BY DEF RemovalStep

(* The loop over a list of distinct finalizers.  It changes nothing before *)
(* it meets x; then it closes the gap, and no later position of the array  *)
(* holds x again: the last one, which the shift leaves as it is, holds     *)
(* another finalizer unless it is the one that x was at.                   *)
LEMMA RemovalWithout ==
  ASSUME NEW S, NEW f \in Seq(S), NEW x, \A i \in 1..Len(f) : f[i] # x
  PROVE  Removal(f, x) = RemovalBase(f)
<1> DEFINE n == Len(f)
<1>0. n \in Nat
  BY LenProperties
<1>r. PICK h : RemovalRun(S, f, x, h)
  BY RemovalRuns, Zenon
<1>1. /\ h[0] = RemovalBase(f)
      /\ \A k \in 1..n : h[k] = RemovalStep(x, h[k - 1], k)
      /\ Removal(f, x) = h[n]
  BY <1>r DEF RemovalRun
<1> DEFINE Good == {k \in 0..n : h[k] = RemovalBase(f)}
<1>2. 0 \in Good
  BY <1>0, <1>1
<1>3. ASSUME NEW k \in 1..n, k - 1 \in Good PROVE k \in Good
  <2>1. h[k - 1] = RemovalBase(f) /\ k \in 0..n
    BY <1>0, <1>3, Segment, Zenon
  <2>2. h[k - 1].array[k] # x
    BY <2>1 DEF RemovalBase
  <2>3. h[k] = h[k - 1]
    BY <1>1, <2>2, RemovalPasses
  <2> QED BY <2>1, <2>3, Zenon
<1>4. \A k \in 0..n : k \in Good
  <2> HIDE DEF Good, n
  <2> QED BY <1>0, <1>2, <1>3, RunInduction, Zenon
<1>5. n \in Good
  <2> HIDE DEF Good, n
  <2>1. n \in 0..n
    BY <1>0
  <2> QED BY <1>4, <2>1, Zenon
<1> QED BY <1>1, <1>5, Zenon

(* The loop on distinct finalizers that hold x at p: up to p it changes    *)
(* nothing, then the rest is one place further left.                       *)
LEMMA RemovalAt ==
  ASSUME NEW S, NEW f \in Seq(S), NEW p \in 1..Len(f), IsInjective(f)
  PROVE  Removal(f, f[p]) =
           [array |-> [j \in 1..Len(f) |-> IF j \in p..(Len(f) - 1) THEN f[j + 1] ELSE f[j]],
            len |-> Len(f) - 1, panics |-> FALSE]
<1> DEFINE n == Len(f)
           x == f[p]
           a == [j \in 1..n |-> IF j \in p..(n - 1) THEN f[j + 1] ELSE f[j]]
           cut == [array |-> a, len |-> n - 1, panics |-> FALSE]
<1>0. n \in Nat /\ DOMAIN f = 1..n /\ p \in 1..n
  BY LenProperties
<1>d. \A i \in 1..n : i # p => f[i] # x
  BY <1>0 DEF IsInjective
<1>r. PICK h : RemovalRun(S, f, x, h)
  BY RemovalRuns
<1>1. /\ h[0] = RemovalBase(f)
      /\ \A k \in 1..n : h[k] = RemovalStep(x, h[k - 1], k)
      /\ Removal(f, x) = h[n]
  BY <1>r, Zenon DEF RemovalRun
<1> DEFINE Good == {k \in 0..n : h[k] = IF k < p THEN RemovalBase(f) ELSE cut}
<1>2. 0 \in Good
  <2> HIDE DEF n
  <2> QED BY <1>0, <1>1
<1>3. ASSUME NEW k \in 1..n, k - 1 \in Good PROVE k \in Good
  <2>0. k \in 0..n /\ h[k] = RemovalStep(x, h[k - 1], k)
    BY <1>0, <1>1, Segment, Zenon
  <2>1. CASE k < p
    <3>1. h[k - 1] = RemovalBase(f) /\ k # p
      BY <1>0, <1>3, <2>1
    <3>2. h[k - 1].array[k] # x
      BY <1>d, <3>1 DEF RemovalBase
    <3>3. RemovalStep(x, h[k - 1], k) = h[k - 1]
      BY <3>2, RemovalPasses
    <3> HIDE DEF cut, n, x
    <3> QED BY <2>0, <2>1, <3>1, <3>3, Zenon
  <2>2. CASE k = p
    <3>1. h[k - 1] = RemovalBase(f)
      BY <1>0, <1>3, <2>2
    <3>2. RemovalStep(x, RemovalBase(f), p) = cut
      <4> DEFINE s == RemovalBase(f)
      <4>1. s = [array |-> f, len |-> n, panics |-> FALSE]
        BY DEF RemovalBase
      <4>2. s.array = f /\ s.len = n /\ ~s.panics /\ ~(p > s.len) /\ s.array[p] = x
        BY <1>0, <4>1
      <4> HIDE DEF s
      <4>3. [j \in DOMAIN s.array |-> IF j \in p..(s.len - 1) THEN s.array[j + 1] ELSE s.array[j]] = a
        BY <1>0, <4>2, Zenon
      <4>4. RemovalStep(x, s, p) =
              [array |-> [j \in DOMAIN s.array |-> IF j \in p..(s.len - 1)
                                                  THEN s.array[j + 1] ELSE s.array[j]],
               len |-> s.len - 1, panics |-> s.panics]
        BY <4>1, <4>2, Zenon DEF RemovalStep
      <4>5. s.panics = FALSE
        BY <4>1
      <4> HIDE DEF a, n
      <4> QED BY <4>2, <4>3, <4>4, <4>5, Zenon DEF s
    <3> HIDE DEF cut, n
    <3> QED BY <1>0, <2>0, <2>2, <3>1, <3>2
  <2>3. CASE k > p
    <3>1. h[k - 1] = cut
      <4> HIDE DEF cut
      <4>1. h[k - 1] = IF k - 1 < p THEN RemovalBase(f) ELSE cut
        BY <1>3, Zenon
      <4>2. ~(k - 1 < p)
        BY <1>0, <2>3
      <4> QED BY <4>1, <4>2, Zenon
    <3>2. a[k] # x
      <4>1. CASE k = n
        BY <1>0, <1>d, <2>3, <4>1
      <4>2. CASE k < n
        <5>1. k + 1 \in 1..n /\ k + 1 # p /\ k \in p..(n - 1)
          BY <1>0, <2>3, <4>2
        <5> QED BY <1>d, <5>1
      <4> HIDE DEF a, n, x
      <4> QED BY <1>0, <4>1, <4>2
    <3>3. h[k - 1].array[k] # x
      BY <3>1, <3>2
    <3>4. h[k] = cut /\ ~(k < p)
      <4>1. RemovalStep(x, h[k - 1], k) = h[k - 1]
        BY <3>3, RemovalPasses
      <4>2. ~(k < p)
        BY <1>0, <2>3
      <4> HIDE DEF cut, n, x
      <4> QED BY <2>0, <3>1, <4>1, <4>2, Zenon
    <3> QED BY <2>0, <3>4, Zenon
  <2> QED BY <1>0, <2>1, <2>2, <2>3
<1>4. n \in Good
  <2> HIDE DEF Good, n
  <2>1. \A k \in 0..n : k \in Good
    BY <1>0, <1>2, <1>3, RunInduction, Zenon
  <2>2. n \in 0..n
    BY <1>0
  <2> QED BY <2>1, <2>2, Zenon
<1>5. ~(n < p)
  BY <1>0
<1> QED BY <1>1, <1>4, <1>5, Zenon

(* RemoveFinalizer on a list of distinct finalizers.                       *)
LEMMA DistinctRemoval ==
  ASSUME NEW S, NEW f \in Seq(S), IsInjective(f), NEW x
  PROVE  /\ ~Removal(f, x).panics
         /\ RemoveFinalizer(f, x) = RemoveFirst(f, x)
         /\ RemoveFinalizer(f, x) \in Seq(S)
         /\ IsInjective(RemoveFinalizer(f, x))
<1> DEFINE n == Len(f)
<1>0. n \in Nat /\ DOMAIN f = 1..n /\ \A i \in 1..n : f[i] \in S
  BY LenProperties
<1>1. CASE \A i \in 1..n : f[i] # x
  <2>1. Removal(f, x) = [array |-> f, len |-> n, panics |-> FALSE]
    BY <1>1, RemovalWithout, Zenon DEF RemovalBase
  <2>2. RemoveFinalizer(f, x) = SubSeq(f, 1, n)
    BY <2>1 DEF RemoveFinalizer
  <2>3. RemoveFinalizer(f, x) = f
    BY <2>2, SubSeqFull
  <2>4. RemoveFirst(f, x) = f
    BY <1>1 DEF RemoveFirst
  <2> QED BY <2>1, <2>3, <2>4
<1>2. CASE \E i \in 1..n : f[i] = x
  <2>1. PICK p \in 1..n : f[p] = x
    BY <1>2
  <2> DEFINE a == [j \in 1..n |-> IF j \in p..(n - 1) THEN f[j + 1] ELSE f[j]]
             cut == SubSeq(a, 1, n - 1)
             without == RemoveAt(f, p)
  <2>2. Removal(f, x) = [array |-> a, len |-> n - 1, panics |-> FALSE]
    BY <2>1, RemovalAt, Zenon
  <2>3. RemoveFinalizer(f, x) = cut
    BY <2>2 DEF RemoveFinalizer
  <2>4. RemoveFirst(f, x) = without
    <3>1. {i \in 1..Len(f) : f[i] = x} = {p}
      BY <1>0, <2>1 DEF IsInjective
    <3>2. Min({p}) = p
      BY <1>0 DEF Min
    <3>3. SelectInSeq(f, LAMBDA v : v = x) = p
      BY <3>1, <3>2, Zenon DEF SelectInSeq
    <3> QED BY <1>2, <3>3, Zenon DEF RemoveFirst
  <2>5. /\ without \in Seq(S) /\ Len(without) = n - 1
        /\ \A i \in 1..(n - 1) : without[i] = f[Skip(p, i)]
    BY RemoveAtIs, Zenon
  <2>6. cut \in Seq(S) /\ Len(cut) = n - 1 /\ \A i \in 1..(n - 1) : cut[i] = a[i]
    <3>1. \A i \in 1..(n - 1) : a[i] \in S
      <4> HIDE DEF n
      <4> QED BY <1>0
    <3>2. n - 1 \in Nat
      BY <1>0
    <3> HIDE DEF a, n
    <3> QED BY <3>1, <3>2, PrefixIs
  <2>7. \A i \in 1..(n - 1) : a[i] = IF i < p THEN f[i] ELSE f[i + 1]
    <3> HIDE DEF n
    <3> QED BY <1>0
  <2>8. cut = without
    <3> HIDE DEF a, cut, without, n
    <3> QED BY <2>5, <2>6, <2>7, SeqEqual, Zenon DEF Skip
  <2>9. IsInjective(without)
    <3> HIDE DEF without, n
    <3>1. DOMAIN without = 1..(n - 1)
      BY <2>5, LenProperties, Zenon
    <3>2. ASSUME NEW i \in 1..(n - 1), NEW j \in 1..(n - 1), without[i] = without[j] PROVE i = j
      <4>1. f[Skip(p, i)] = f[Skip(p, j)]
        BY <2>5, <3>2, Zenon DEF Skip
      <4>2. Skip(p, i) \in 1..n /\ Skip(p, j) \in 1..n /\ (Skip(p, i) = Skip(p, j) => i = j)
        BY <1>0, SkipIs, Zenon
      <4> QED BY <1>0, <4>1, <4>2, Zenon DEF IsInjective
    <3> QED BY <3>1, <3>2, Zenon DEF IsInjective
  <2>10. ~Removal(f, x).panics
    BY <2>2
  <2> HIDE DEF cut, without
  <2> QED BY <2>3, <2>4, <2>5, <2>8, <2>9, <2>10, Zenon
<1> QED BY <1>1, <1>2

(* AddFinalizer keeps the list free of duplicates.                         *)
LEMMA DistinctAddition ==
  ASSUME NEW S, NEW f \in Seq(S), IsInjective(f), NEW x \in S
  PROVE  AddFinalizer(f, x) \in Seq(S) /\ IsInjective(AddFinalizer(f, x))
<1> DEFINE g == Append(f, x)
           n == Len(f)
<1>1. CASE FinalizerExists(f, x)
  BY <1>1 DEF AddFinalizer
<1>2. CASE ~FinalizerExists(f, x)
  <2>1. AddFinalizer(f, x) = g
    BY <1>2 DEF AddFinalizer
  <2>2. n \in Nat /\ DOMAIN f = 1..n
    BY LenProperties
  <2>3. g \in Seq(S) /\ Len(g) = n + 1 /\ (\A i \in 1..n : g[i] = f[i]) /\ g[n + 1] = x
    BY AppendProperties
  <2>4. \A i \in 1..n : f[i] # x
    BY <1>2, Zenon DEF FinalizerExists, Contains
  <2>5. DOMAIN g = 1..(n + 1)
    BY <2>3, LenProperties, Zenon
  <2> HIDE DEF g, n
  <2>6. IsInjective(g)
    BY <2>2, <2>3, <2>4, <2>5 DEF IsInjective
  <2> QED BY <2>1, <2>3, <2>6, Zenon
<1> QED BY <1>1, <1>2, Zenon

-----------------------------------------------------------------------------
(* Conditions                                                              *)

DistinctTypes(c) == \A i, j \in 1..Len(c) : c[i].type = c[j].type => i = j

(* Lists of conditions of distinct types.                                  *)
Lists(C) == {c \in Seq(C) : DistinctTypes(c)}

(* IndexOfType finds the condition of a type, if there is one.             *)
LEMMA IndexIs ==
  ASSUME NEW C, NEW c \in Seq(C), NEW t
  PROVE  /\ IndexOfType(c, t) \in 0..Len(c)
         /\ IndexOfType(c, t) = 0 <=> \A i \in 1..Len(c) : c[i].type # t
         /\ IndexOfType(c, t) # 0 => c[IndexOfType(c, t)].type = t
<1> DEFINE I == {i \in 1..Len(c) : c[i].type = t}
           n == Len(c)
<1>1. n \in Nat
  BY LenProperties
<1>2. IndexOfType(c, t) = IF I # {} THEN Min(I) ELSE 0
  BY DEF IndexOfType, SelectInSeq
<1>3. I # {} => Min(I) \in I
  BY <1>1, FirstIndex, Zenon
<1> QED BY <1>1, <1>2, <1>3

(* What Upsert makes of a list: the condition is in it, the others are     *)
(* where they were.                                                        *)
LEMMA UpsertIs ==
  ASSUME NEW C, NEW c \in Lists(C), NEW co \in C
  PROVE  LET u == Upsert(c, co)
         IN /\ u \in Lists(C)
            /\ \E p \in 1..Len(u) : u[p] = co
            /\ Len(c) <= Len(u)
            /\ \A i \in 1..Len(c) : c[i].type # co.type => u[i] = c[i]
            /\ \A i \in 1..Len(u) :
                 u[i] = co \/ (i \in 1..Len(c) /\ u[i] = c[i] /\ c[i].type # co.type)
<1> DEFINE u == Upsert(c, co)
           n == Len(c)
           i == IndexOfType(c, co.type)
<1>1. c \in Seq(C) /\ n \in Nat /\ \A k, l \in 1..n : c[k].type = c[l].type => k = l
  BY LenProperties, Zenon DEF Lists, DistinctTypes
<1>2. /\ i \in 0..n
      /\ i = 0 <=> \A k \in 1..n : c[k].type # co.type
      /\ i # 0 => c[i].type = co.type
  BY <1>1, IndexIs, Zenon
<1>3. u = IF i = 0 THEN Append(c, co) ELSE [c EXCEPT ![i] = co]
  BY DEF Upsert, ReplaceAt
<1> HIDE DEF i, n, u
<1>4. CASE i = 0
  <2>1. /\ u \in Seq(C) /\ Len(u) = n + 1
        /\ \A k \in 1..n : u[k] = c[k]
        /\ u[n + 1] = co
    BY <1>1, <1>3, <1>4, AppendProperties DEF n
  <2>2. DistinctTypes(u)
    BY <1>1, <1>2, <1>4, <2>1 DEF DistinctTypes
  <2>3. n + 1 \in 1..(n + 1) /\ n <= n + 1
    BY <1>1
  <2>4. \A k \in 1..(n + 1) : u[k] = co \/ (k \in 1..n /\ u[k] = c[k] /\ c[k].type # co.type)
    BY <1>1, <1>2, <1>4, <2>1
  <2> QED BY <2>1, <2>2, <2>3, <2>4, Zenon DEF Lists, u, n
<1>5. CASE i # 0
  <2>0. i \in 1..n
    BY <1>1, <1>2, <1>5
  <2>1. /\ u \in Seq(C) /\ Len(u) = n
        /\ \A k \in 1..n : u[k] = IF k = i THEN co ELSE c[k]
    BY <1>1, <1>3, <1>5, <2>0, ExceptSeq DEF n
  <2>2. DistinctTypes(u)
    BY <1>1, <1>2, <1>5, <2>0, <2>1 DEF DistinctTypes
  <2>3. n <= n
    BY <1>1
  <2>4. \A k \in 1..n : c[k].type # co.type => u[k] = c[k]
    BY <1>2, <1>5, <2>1, Zenon
  <2>5. \A k \in 1..n : u[k] = co \/ (k \in 1..n /\ u[k] = c[k] /\ c[k].type # co.type)
    BY <1>1, <1>2, <1>5, <2>0, <2>1, Zenon
  <2> QED BY <2>0, <2>1, <2>2, <2>3, <2>4, <2>5, Zenon DEF Lists, u, n
<1> QED BY <1>4, <1>5, Zenon

UpsertFold(base, b) == FoldLeft(Upsert, base, b)

(* h[k] is the list after k conditions of b.                               *)
UpsertRun(C, base, b, h) ==
  /\ h \in [0..Len(b) -> Lists(C)]
  /\ h[0] = base
  /\ \A k \in 1..Len(b) : h[k] = Upsert(h[k - 1], b[k])
  /\ UpsertFold(base, b) = h[Len(b)]

(* Upserting a batch is the last of a sequence of lists, one more          *)
(* condition upserted in each.                                             *)
LEMMA UpsertRuns ==
  ASSUME NEW C, NEW base \in Lists(C), NEW b \in Seq(C)
  PROVE  \E h : UpsertRun(C, base, b, h)
<1> DEFINE n == Len(b)
           R == Lists(C)
           st == [p \in R \X (1..n) |-> Upsert(p[1], b[p[2]])]
           Def(g) == g = [s \in SUBSET DOMAIN b |->
                           IF s = {} THEN base ELSE Upsert(g[s \ {Max(s)}], b[Max(s)])]
<1>1. n \in Nat /\ DOMAIN b = 1..n /\ b \in [1..n -> C]
  BY LenProperties, Zenon
<1>2. \A c \in R, i \in 1..n : Upsert(c, b[i]) \in R
  BY <1>1, UpsertIs, Zenon
<1>3. st \in [R \X (1..n) -> R]
  BY <1>2
<1>4. UpsertFold(base, b) = (CHOOSE g : Def(g))[DOMAIN b]
  BY DEF UpsertFold, FoldLeft, MapThenFoldSet
<1>5. PICK g0 \in [SUBSET (1..n) -> R] : Iterates(g0, st, base, n)
  <2> HIDE DEF n, R, st
  <2> QED BY <1>1, <1>3, IterationExists, Zenon DEF R
<1>6. Def(g0)
  <2>1. g0 = [s \in SUBSET (1..n) |-> g0[s]]
    BY <1>5, Zenon
  <2>2. ASSUME NEW s \in SUBSET (1..n)
        PROVE  g0[s] = IF s = {} THEN base ELSE Upsert(g0[s \ {Max(s)}], b[Max(s)])
    <3>1. CASE s = {}
      BY <1>5, <3>1, Zenon DEF Iterates
    <3>2. CASE s # {}
      <4>1. Max(s) \in 1..n /\ s \ {Max(s)} \in SUBSET (1..n)
        BY <1>1, <3>2, MaxIsIn, Zenon
      <4>2. g0[s \ {Max(s)}] \in R
        BY <1>5, <4>1, Zenon
      <4>3. g0[s] = st[<<g0[s \ {Max(s)}], Max(s)>>]
        BY <1>5, <3>2, Zenon DEF Iterates
      <4> QED BY <3>2, <4>1, <4>2, <4>3, Zenon
    <3> QED BY <3>1, <3>2, Zenon
  <2> QED BY <1>1, <2>1, <2>2, Zenon
<1> DEFINE g == CHOOSE g : Def(g)
           h == [k \in 0..n |-> g[1..k]]
<1>7. Def(g)
  <2> HIDE DEF Def
  <2> QED BY <1>6
<1> HIDE DEF g
<1>8. UpsertFold(base, b) = h[n]
  BY <1>1, <1>4 DEF g
<1>9. h[0] = base
  <2>1. 1..0 = {}
    OBVIOUS
  <2> QED BY <1>1, <1>7, <2>1
<1>10. ASSUME NEW k \in 1..n PROVE h[k] = Upsert(h[k - 1], b[k])
  <2>1. Max(1..k) = k /\ (1..k) \ {k} = 1..(k - 1)
    BY <1>1, Segment, Zenon
  <2>2. 1..k # {} /\ k \in 0..n /\ k - 1 \in 0..n /\ 1..k \in SUBSET (1..n)
    BY <1>1, Segment, Zenon
  <2>3. g[1..k] = Upsert(g[1..(k - 1)], b[k])
    BY <1>1, <1>7, <2>1, <2>2, Zenon
  <2> QED BY <2>2, <2>3, Zenon
<1>11. h \in [0..n -> R]
  <2> DEFINE Good == {k \in 0..n : h[k] \in R}
  <2>1. 0 \in Good
    BY <1>1, <1>9
  <2>2. ASSUME NEW k \in 1..n, k - 1 \in Good PROVE k \in Good
    <3>1. h[k - 1] \in R /\ h[k] = Upsert(h[k - 1], b[k]) /\ k \in 0..n
      BY <1>1, <1>10, <2>2, Segment, Zenon
    <3> HIDE DEF n, h, R
    <3>2. h[k] \in R
      BY <1>2, <3>1, Zenon
    <3> QED BY <3>1, <3>2, Zenon
  <2>3. \A k \in 0..n : k \in Good
    <3> HIDE DEF Good
    <3> QED BY <1>1, <2>1, <2>2, RunInduction, Zenon
  <2>4. \A k \in 0..n : h[k] \in R
    BY <2>3, Zenon
  <2> QED BY <2>4, Zenon
<1>12. UpsertRun(C, base, b, h)
  <2> HIDE DEF h
  <2> QED BY <1>8, <1>9, <1>10, <1>11, Zenon DEF UpsertRun
<1> QED BY <1>12

(* A fold of Upsert over any list, and what it is for one and for two      *)
(* conditions.                                                             *)
LEMMA UpsertAll ==
  ASSUME NEW C, NEW base \in Lists(C), NEW b \in Seq(C)
  PROVE  UpsertFold(base, b) \in Lists(C)
<1>1. PICK h : UpsertRun(C, base, b, h)
  BY UpsertRuns
<1>2. Len(b) \in Nat
  BY LenProperties
<1>3. Len(b) \in 0..Len(b)
  BY <1>2
<1> QED BY <1>1, <1>3, Zenon DEF UpsertRun

(* A batch of one condition.                                               *)
LEMMA UpsertOne ==
  ASSUME NEW C, NEW base \in Lists(C), NEW c \in C
  PROVE  UpsertFold(base, <<c>>) = Upsert(base, c)
<1>1. <<c>> \in Seq(C) /\ Len(<<c>>) = 1
  OBVIOUS
<1>2. PICK h : UpsertRun(C, base, <<c>>, h)
  BY <1>1, UpsertRuns, Zenon
<1>3. h[1] = Upsert(h[0], c) /\ h[0] = base /\ UpsertFold(base, <<c>>) = h[1]
  BY <1>1, <1>2 DEF UpsertRun
<1> QED BY <1>3

(* A batch of two conditions.                                              *)
LEMMA UpsertTwo ==
  ASSUME NEW C, NEW base \in Lists(C), NEW c \in C, NEW d \in C
  PROVE  UpsertFold(base, <<c, d>>) = Upsert(Upsert(base, c), d)
<1>1. <<c, d>> \in Seq(C) /\ Len(<<c, d>>) = 2 /\ <<c, d>>[1] = c /\ <<c, d>>[2] = d
  OBVIOUS
<1>2. PICK h : UpsertRun(C, base, <<c, d>>, h)
  BY <1>1, UpsertRuns, Zenon
<1>3. /\ h[1] = Upsert(h[0], c) /\ h[2] = Upsert(h[1], d)
      /\ h[0] = base /\ UpsertFold(base, <<c, d>>) = h[2]
  <2>1. /\ \A k \in 1..2 : h[k] = Upsert(h[k - 1], <<c, d>>[k])
        /\ h[0] = base /\ UpsertFold(base, <<c, d>>) = h[2]
    BY <1>1, <1>2, Zenon DEF UpsertRun
  <2>2. 1 \in 1..2 /\ 2 \in 1..2 /\ 1 - 1 = 0 /\ 2 - 1 = 1
    OBVIOUS
  <2>3. h[1] = Upsert(h[1 - 1], <<c, d>>[1]) /\ h[2] = Upsert(h[2 - 1], <<c, d>>[2])
    BY <2>1, <2>2, Zenon
  <2> QED BY <1>1, <2>1, <2>2, <2>3, Zenon
<1> QED BY <1>3

(* condition.Remove.                                                       *)
LEMMA RemoveConditionIs ==
  ASSUME NEW C, NEW c \in Lists(C), NEW t
  PROVE  RemoveCondition(c, t) \in Lists(C)
<1> DEFINE i == IndexOfType(c, t)
           n == Len(c)
           r == RemoveAt(c, i)
<1>1. c \in Seq(C) /\ n \in Nat /\ \A k, l \in 1..n : c[k].type = c[l].type => k = l
  BY LenProperties DEF Lists, DistinctTypes
<1>2. i \in 0..n
  BY <1>1, IndexIs, Zenon
<1>3. CASE i = 0
  BY <1>3 DEF RemoveCondition
<1>4. CASE i # 0
  <2>1. RemoveCondition(c, t) = r
    BY <1>4 DEF RemoveCondition
  <2>2. i \in 1..n
    BY <1>1, <1>2, <1>4
  <2>3. r \in Seq(C) /\ Len(r) = n - 1 /\ \A k \in 1..(n - 1) : r[k] = c[Skip(i, k)]
    BY <1>1, <2>2, RemoveAtIs
  <2> HIDE DEF r, n, i
  <2>4. ASSUME NEW k \in 1..(n - 1), NEW l \in 1..(n - 1), r[k].type = r[l].type PROVE k = l
    <3>1. Skip(i, k) \in 1..n /\ Skip(i, l) \in 1..n /\ (Skip(i, k) = Skip(i, l) => k = l)
      BY <1>1, <2>2, SkipIs, Zenon
    <3>2. c[Skip(i, k)].type = c[Skip(i, l)].type
      BY <2>3, <2>4, Zenon
    <3> QED BY <1>1, <3>1, <3>2, Zenon
  <2>5. DistinctTypes(r)
    BY <2>3, <2>4, Zenon DEF DistinctTypes
  <2> QED BY <2>1, <2>3, <2>5, Zenon DEF Lists
<1> QED BY <1>3, <1>4, Zenon

(* The conditions of an object: what the runtime and others write.         *)
Types == {"Ready", "Synced", "Other", "Healthy"}
Truths == {"True", "False"}
Reasons == {"Available", "ReconcileSuccess", "Creating", "Deleting",
            "ReconcileError", "ReconcilePaused", "-"}

Cond == [type : Types, status : Truths, reason : Reasons, ok : BOOLEAN, more : BOOLEAN]

(* A condition that reading does not change.                               *)
Plain(x) == x.ok /\ ~x.more

(* Reading keeps all of a condition but the fields it does not know.       *)
LEMMA ReadIs ==
  ASSUME NEW x \in Cond
  PROVE  /\ ReadItem(x) \in Cond
         /\ ReadItem(x).type = x.type
         /\ x.ok => Plain(ReadItem(x))
         /\ Plain(x) => ReadItem(x) = x
<1>1. ReadItem(x) \in Cond /\ ReadItem(x).type = x.type
  BY Zenon DEF ReadItem, Cond
<1>2. ReadItem(x).ok = x.ok /\ ReadItem(x).more = FALSE
  BY Zenon DEF ReadItem, Cond
<1>3. ASSUME x.more = FALSE PROVE ReadItem(x) = x
  BY <1>3 DEF ReadItem, Cond
<1>4. x.more \in BOOLEAN
  BY DEF Cond
<1> QED BY <1>1, <1>2, <1>3, <1>4 DEF Plain

(* GetConditions reads every condition of the list, or gives it up.        *)
LEMMA GetConditionsIs ==
  ASSUME NEW c \in Lists(Cond)
  PROVE  LET r == GetConditions(c)
         IN /\ r \in Lists(Cond)
            /\ \A i \in 1..Len(r) : Plain(r[i])
            /\ (\A i \in 1..Len(c) : c[i].ok) =>
                 Len(r) = Len(c) /\ \A i \in 1..Len(c) : r[i] = ReadItem(c[i])
            /\ (\A i \in 1..Len(c) : Plain(c[i])) => r = c
<1> DEFINE n == Len(c)
           r == [i \in 1..n |-> ReadItem(c[i])]
<1>1. /\ c \in Seq(Cond) /\ DOMAIN c = 1..n /\ n \in Nat
      /\ c = [i \in 1..n |-> c[i]] /\ \A i \in 1..n : c[i] \in Cond
  BY LenProperties, Zenon DEF Lists
<1>2. /\ <<>> \in Seq(Cond) /\ Len(<<>>) = 0 /\ DistinctTypes(<<>>)
      /\ \A i \in 1..Len(<<>>) : Plain(<<>>[i])
  BY EmptySeq DEF DistinctTypes
<1>3. GetConditions(c) = IF \A i \in 1..n : c[i].ok THEN r ELSE <<>>
  BY <1>1, Zenon DEF GetConditions
<1>4. r \in Seq(Cond) /\ Len(r) = n
  <2>1. \A i \in 1..n : ReadItem(c[i]) \in Cond
    BY <1>1, ReadIs, Zenon
  <2> HIDE DEF n
  <2> QED BY <1>1, <2>1
<1>5. DistinctTypes(r)
  <2>1. \A i \in 1..n : r[i].type = c[i].type
    BY <1>1, ReadIs, Zenon
  <2>2. \A i, j \in 1..n : c[i].type = c[j].type => i = j
    BY Zenon DEF Lists, DistinctTypes
  <2> HIDE DEF r, n
  <2> QED BY <1>4, <2>1, <2>2, Zenon DEF DistinctTypes
<1>6. CASE \A i \in 1..n : c[i].ok
  <2>1. \A i \in 1..n : r[i] = ReadItem(c[i]) /\ Plain(r[i])
    BY <1>1, <1>6, ReadIs, Zenon
  <2>2. ASSUME \A i \in 1..n : Plain(c[i]) PROVE r = c
    <3>1. \A i \in 1..n : ReadItem(c[i]) = c[i]
      BY <1>1, <2>2, ReadIs, Zenon
    <3> HIDE DEF n
    <3> QED BY <1>1, <3>1, Zenon
  <2>3. GetConditions(c) = r
    BY <1>3, <1>6, Zenon
  <2> HIDE DEF r
  <2> QED BY <1>4, <1>5, <2>1, <2>2, <2>3, Zenon DEF Lists
<1>7. CASE ~\A i \in 1..n : c[i].ok
  <2>1. GetConditions(c) = <<>>
    BY <1>3, <1>7, Zenon
  <2>2. ~\A i \in 1..n : Plain(c[i])
    BY <1>7, Zenon DEF Plain
  <2> QED BY <1>2, <1>7, <2>1, <2>2, Zenon DEF Lists
<1> QED BY <1>6, <1>7, Zenon

(* The runtime writes conditions that can be read.                         *)
LEMMA WrittenIs ==
  ASSUME NEW c \in Written
  PROVE  c \in Cond /\ Plain(c)
<1>1. \A t \in Types, s \in Truths, r \in Reasons :
        Condition(t, s, r) \in Cond /\ Plain(Condition(t, s, r))
  BY DEF Condition, Cond, Plain
<1>2. PICK t \in Types, s \in Truths, r \in Reasons : c = Condition(t, s, r)
  <2>1. CASE c \in {Available, ReconcileSuccess}
    BY <2>1, Zenon DEF Available, ReconcileSuccess, Types, Truths, Reasons
  <2>2. CASE \E r \in {"Creating", "Deleting"} : c = NotReady(r)
    BY <2>2, Zenon DEF NotReady, Types, Truths, Reasons
  <2>3. CASE \E r \in {"ReconcileError", "ReconcilePaused"} : c = NotSynced(r)
    BY <2>3, Zenon DEF NotSynced, Types, Truths, Reasons
  <2> QED BY <2>1, <2>2, <2>3, Zenon DEF Written
<1> QED BY <1>1, <1>2, Zenon

(* Upsert takes the place of the condition of its type.                    *)
LEMMA UpsertRange ==
  ASSUME NEW C, NEW c \in Lists(C), NEW co \in C
  PROVE  Range(Upsert(c, co)) = {x \in Range(c) : x.type # co.type} \cup {co}
<1> DEFINE u == Upsert(c, co)
<1>1. /\ u \in Lists(C)
      /\ \E p \in 1..Len(u) : u[p] = co
      /\ Len(c) <= Len(u)
      /\ \A i \in 1..Len(c) : c[i].type # co.type => u[i] = c[i]
      /\ \A i \in 1..Len(u) :
           u[i] = co \/ (i \in 1..Len(c) /\ u[i] = c[i] /\ c[i].type # co.type)
  BY UpsertIs
<1> HIDE DEF u
<1>2. /\ DOMAIN c = 1..Len(c) /\ DOMAIN u = 1..Len(u)
      /\ Len(c) \in Nat /\ Len(u) \in Nat
  BY <1>1, LenProperties, Zenon DEF Lists
<1>3. \A i \in 1..Len(c) : i \in 1..Len(u)
  BY <1>1, <1>2
<1>4. ASSUME NEW x \in Range(u) PROVE x = co \/ (x \in Range(c) /\ x.type # co.type)
  BY <1>1, <1>2, <1>4, Zenon DEF Range
<1>5. ASSUME NEW x \in Range(c), x.type # co.type PROVE x \in Range(u)
  BY <1>1, <1>2, <1>3, <1>5, Zenon DEF Range
<1>6. co \in Range(u)
  BY <1>1, <1>2, Zenon DEF Range
<1> QED BY <1>4, <1>5, <1>6 DEF u

(* Upsert of a condition of the runtime, into a list that was read.        *)
LEMMA UpsertPlain ==
  ASSUME NEW c \in Lists(Cond), \A i \in 1..Len(c) : Plain(c[i]),
         NEW co \in Cond, Plain(co)
  PROVE  LET u == Upsert(c, co)
         IN /\ u \in Lists(Cond)
            /\ \A i \in 1..Len(u) : Plain(u[i])
            /\ Len(c) <= Len(u)
            /\ Range(u) = {x \in Range(c) : x.type # co.type} \cup {co}
            /\ \A i \in 1..Len(c) : c[i].type # co.type => u[i] = c[i]
<1> DEFINE u == Upsert(c, co)
<1>1. /\ u \in Lists(Cond)
      /\ \E p \in 1..Len(u) : u[p] = co
      /\ Len(c) <= Len(u)
      /\ \A i \in 1..Len(c) : c[i].type # co.type => u[i] = c[i]
      /\ \A i \in 1..Len(u) :
           u[i] = co \/ (i \in 1..Len(c) /\ u[i] = c[i] /\ c[i].type # co.type)
  BY UpsertIs
<1>2. Range(u) = {x \in Range(c) : x.type # co.type} \cup {co}
  BY UpsertRange
<1> HIDE DEF u
<1>3. \A i \in 1..Len(u) : Plain(u[i])
  BY <1>1, Zenon
<1> QED BY <1>1, <1>2, <1>3, Zenon DEF u

(* The effective conditions of a batch of one and of two.                  *)
Latest(d, e) == {x \in {d} : d.type # e.type} \cup {e}

(* They are what ManagedObject defines.                                    *)
LEMMA EffectiveIs ==
  ASSUME NEW d, NEW e
  PROVE  /\ Effective(<<d>>) = {d}
         /\ Effective(<<d, e>>) = Latest(d, e)
<1>1. Effective(<<d>>) = {d}
  BY DEF Effective
<1> DEFINE b == <<d, e>>
           last == {i \in DOMAIN b : \A j \in i + 1..Len(b) : b[j].type # b[i].type}
<1>2. DOMAIN b = 1..2 /\ Len(b) = 2 /\ b[1] = d /\ b[2] = e
  OBVIOUS
<1> HIDE DEF b
<1>3. 2 \in last /\ (1 \in last <=> d.type # e.type) /\ last \subseteq {1, 2}
  BY <1>2
<1> HIDE DEF last
<1>4. {b[i] : i \in last} = {x \in {d} : d.type # e.type} \cup {e}
  BY <1>2, <1>3
<1>5. Effective(b) = {b[i] : i \in last}
  BY DEF Effective, last
<1> QED BY <1>1, <1>4, <1>5 DEF b, Latest

(* What SetConditions makes of the conditions of an object.                *)
LEMMA BatchIs ==
  ASSUME NEW c \in Lists(Cond), NEW b \in Batches
  PROVE  LET a == SetConditions(c, b)
             given == {b[k].type : k \in DOMAIN b}
         IN /\ a \in Lists(Cond)
            /\ \A i \in 1..Len(a) : Plain(a[i])
            /\ Range(a) = {x \in Range(GetConditions(c)) : x.type \notin given}
                            \cup Effective(b)
            /\ (\A i \in 1..Len(c) : c[i].ok) =>
                 \A i \in 1..Len(c) : c[i].type \notin given => a[i] = ReadItem(c[i])
<1> DEFINE a == SetConditions(c, b)
           base == GetConditions(c)
           given == {b[k].type : k \in DOMAIN b}
<1>1. /\ base \in Lists(Cond)
      /\ \A i \in 1..Len(base) : Plain(base[i])
      /\ (\A i \in 1..Len(c) : c[i].ok) =>
           Len(base) = Len(c) /\ \A i \in 1..Len(c) : base[i] = ReadItem(c[i])
  BY GetConditionsIs, Zenon
<1>0. \A i \in 1..Len(c) : ReadItem(c[i]).type = c[i].type
  <2>1. \A i \in 1..Len(c) : c[i] \in Cond
    BY LenProperties DEF Lists
  <2> QED BY <2>1, ReadIs, Zenon
<1> HIDE DEF base
\* What is left to show of either kind of batch.
<1>5. ASSUME a \in Lists(Cond), \A i \in 1..Len(a) : Plain(a[i]),
             Range(a) = {x \in Range(base) : x.type \notin given} \cup Effective(b),
             \A i \in 1..Len(base) : base[i].type \notin given => a[i] = base[i]
      PROVE  /\ a \in Lists(Cond)
             /\ \A i \in 1..Len(a) : Plain(a[i])
             /\ Range(a) = {x \in Range(GetConditions(c)) : x.type \notin given}
                             \cup Effective(b)
             /\ (\A i \in 1..Len(c) : c[i].ok) =>
                  \A i \in 1..Len(c) : c[i].type \notin given => a[i] = ReadItem(c[i])
  <2> HIDE DEF a, given
  <2>1. (\A i \in 1..Len(c) : c[i].ok) =>
          \A i \in 1..Len(c) : c[i].type \notin given => a[i] = ReadItem(c[i])
    BY <1>0, <1>1, <1>5, Zenon
  <2> QED BY <1>5, <2>1, Zenon DEF base
<1>2. CASE \E d \in Written : b = <<d>>
  <2>1. PICK d \in Written : b = <<d>>
    BY <1>2
  <2>2. a = Upsert(base, d)
    <3>1. d \in Cond
      BY WrittenIs
    <3>2. UpsertFold(base, <<d>>) = Upsert(base, d)
      BY <1>1, <3>1, UpsertOne, Zenon
    <3>3. a = UpsertFold(base, <<d>>)
      BY <2>1 DEF SetConditions, base, UpsertFold
    <3> QED BY <3>2, <3>3, Zenon
  <2>3. given = {d.type} /\ Effective(b) = {d}
    <3>1. DOMAIN b = {1} /\ b[1] = d
      BY <2>1
    <3>2. given = {d.type}
      BY <3>1
    <3> QED BY <2>1, <3>2, EffectiveIs, Zenon
  <2> HIDE DEF a, given
  <2>4. /\ a \in Lists(Cond)
        /\ \A i \in 1..Len(a) : Plain(a[i])
        /\ Range(a) = {x \in Range(base) : x.type # d.type} \cup {d}
        /\ \A i \in 1..Len(base) : base[i].type # d.type => a[i] = base[i]
    BY <1>1, <2>2, UpsertPlain, WrittenIs
  <2>5. Range(a) = {x \in Range(base) : x.type \notin given} \cup Effective(b)
    BY <2>3, <2>4
  <2>6. \A i \in 1..Len(base) : base[i].type \notin given => a[i] = base[i]
    BY <2>3, <2>4, Zenon
  <2> QED BY <1>5, <2>4, <2>5, <2>6, Zenon DEF a, given
<1>3. CASE \E d, e \in Written : b = <<d, e>>
  <2>1. PICK d \in Written, e \in Written : b = <<d, e>>
    BY <1>3, Zenon
  <2> DEFINE u == Upsert(base, d)
  <2>2. a = Upsert(u, e)
    <3>1. d \in Cond /\ e \in Cond
      BY WrittenIs, Zenon
    <3>2. UpsertFold(base, <<d, e>>) = Upsert(u, e)
      BY <1>1, <3>1, UpsertTwo
    <3>3. a = UpsertFold(base, <<d, e>>)
      BY <2>1, Zenon DEF SetConditions, base, UpsertFold
    <3> QED BY <3>2, <3>3, Zenon
  <2>3. given = {d.type, e.type} /\ Effective(b) = {x \in {d} : d.type # e.type} \cup {e}
    <3>1. DOMAIN b = {1, 2} /\ b[1] = d /\ b[2] = e
      BY <2>1
    <3>2. given = {d.type, e.type}
      BY <3>1
    <3>3. Effective(<<d, e>>) = Latest(d, e)
      BY EffectiveIs, Zenon
    <3> QED BY <2>1, <3>2, <3>3 DEF Latest
  <2>4. /\ u \in Lists(Cond)
        /\ \A i \in 1..Len(u) : Plain(u[i])
        /\ Len(base) <= Len(u)
        /\ Range(u) = {x \in Range(base) : x.type # d.type} \cup {d}
        /\ \A i \in 1..Len(base) : base[i].type # d.type => u[i] = base[i]
    BY <1>1, UpsertPlain, WrittenIs, Zenon
  <2> HIDE DEF u, a, given
  <2>5. /\ a \in Lists(Cond)
        /\ \A i \in 1..Len(a) : Plain(a[i])
        /\ Range(a) = {x \in Range(u) : x.type # e.type} \cup {e}
        /\ \A i \in 1..Len(u) : u[i].type # e.type => a[i] = u[i]
    <3>1. LET v == Upsert(u, e)
          IN /\ v \in Lists(Cond)
             /\ \A i \in 1..Len(v) : Plain(v[i])
             /\ Range(v) = {x \in Range(u) : x.type # e.type} \cup {e}
             /\ \A i \in 1..Len(u) : u[i].type # e.type => v[i] = u[i]
      BY <2>4, UpsertPlain, WrittenIs, Zenon
    <3> QED BY <2>2, <3>1, Zenon
  <2>6. Len(base) \in Nat /\ Len(u) \in Nat
    BY <1>1, <2>4, LenProperties, Zenon DEF Lists
  <2>7. \A i \in 1..Len(base) : base[i].type \notin {d.type, e.type} => a[i] = base[i]
    BY <2>4, <2>5, <2>6
  <2>8. Range(a) = {x \in Range(base) : x.type \notin given} \cup Effective(b)
    BY <2>3, <2>4, <2>5
  <2>9. \A i \in 1..Len(base) : base[i].type \notin given => a[i] = base[i]
    BY <2>3, <2>7, Zenon
  <2> QED BY <1>5, <2>5, <2>8, <2>9, Zenon DEF a, given
<1>4. (\E d \in Written : b = <<d>>) \/ (\E d, e \in Written : b = <<d, e>>)
  BY DEF Batches
<1> QED BY <1>2, <1>3, <1>4, Zenon

(* ConditionsAreKept, for every list of conditions of distinct types.      *)
LEMMA KeptConditions ==
  ASSUME conditions \in Lists(Cond)
  PROVE  ConditionsAreKept
<1> SUFFICES ASSUME NEW b \in Batches
             PROVE  LET after == SetConditions(conditions, b)
                        given == {b[i].type : i \in DOMAIN b}
                        stay  == {c \in Range(GetConditions(conditions)) : c.type \notin given}
                    IN /\ \A c \in Effective(b) : IsConditionSet(after, c)
                       /\ IsAvailable(after) <=>
                            \A c \in stay \cup Effective(b) :
                              c.type \in Positive => c.status = "True"
                       /\ (\A i \in DOMAIN conditions : conditions[i].ok) =>
                            \A i \in DOMAIN conditions :
                              conditions[i].type \notin given
                                => after[i] = ReadItem(conditions[i])
  BY Zenon DEF ConditionsAreKept
<1> DEFINE a == SetConditions(conditions, b)
           given == {b[i].type : i \in DOMAIN b}
           all == {c \in Range(GetConditions(conditions)) : c.type \notin given} \cup Effective(b)
<1>1. /\ a \in Lists(Cond)
      /\ \A i \in 1..Len(a) : Plain(a[i])
      /\ Range(a) = all
      /\ (\A i \in 1..Len(conditions) : conditions[i].ok) =>
           \A i \in 1..Len(conditions) :
             conditions[i].type \notin given => a[i] = ReadItem(conditions[i])
  BY BatchIs, Zenon
<1>2. DOMAIN conditions = 1..Len(conditions)
  BY LenProperties, Zenon DEF Lists
<1>3. \A c \in Effective(b) : c \in all
  BY Zenon
<1> HIDE DEF a, all, given
<1>4. GetConditions(a) = a
  BY <1>1, GetConditionsIs, Zenon
<1>5. \A c \in Effective(b) : IsConditionSet(a, c)
  BY <1>1, <1>3, <1>4, Zenon DEF IsConditionSet
<1>6. IsAvailable(a) <=> \A c \in all : c.type \in Positive => c.status = "True"
  BY <1>1, <1>4, Zenon DEF IsAvailable
<1> QED BY <1>1, <1>2, <1>5, <1>6, Zenon DEF a, all, given

-----------------------------------------------------------------------------
(* Status projection                                                       *)

Fields == {"a", "b", "observedGeneration"}
Paths == Seq(Fields) \ {<<>>}
FieldValues == {"literal", "null", "resolved", "generation"}

PrefixFree(D) == \A p, q \in D : ~IsStrictPrefix(p, q)

(* What .status can be: no path that holds a value is a prefix of another. *)
Statuses == {Absent} \cup UNION {[D -> FieldValues] : D \in {E \in SUBSET Paths : PrefixFree(E)}}

(* A status is Absent or a function on paths none of which is a prefix of  *)
(* another.                                                                *)
LEMMA StatusIs ==
  ASSUME NEW s
  PROVE  s \in Statuses <=>
           \/ s = Absent
           \/ /\ DOMAIN s \subseteq Paths
              /\ PrefixFree(DOMAIN s)
              /\ s \in [DOMAIN s -> FieldValues]
BY DEF Statuses

(* SetNestedField at a path that is not below a value.                     *)
LEMMA SetKeepsStatus ==
  ASSUME NEW s \in Statuses, NEW p \in Paths, NEW v \in FieldValues, ~Blocked(s, p)
  PROVE  SetNestedField(s, p, v) \in Statuses
<1> DEFINE others == IF s = Absent THEN {} ELSE {q \in DOMAIN s : ~IsPrefix(p, q)}
           t == [q \in others \cup {p} |-> IF q = p THEN v ELSE s[q]]
<1>1. SetNestedField(s, p, v) = t
  BY DEF SetNestedField
<1>2. CASE s = Absent
  <2>1. others = {}
    BY <1>2, Zenon
  <2>2. DOMAIN t \subseteq Paths /\ t \in [DOMAIN t -> FieldValues]
    BY <2>1, Zenon
  <2>3. PrefixFree(DOMAIN t)
    BY <2>1, Zenon DEF PrefixFree, IsStrictPrefix
  <2> HIDE DEF t
  <2> QED BY <1>1, <2>2, <2>3, StatusIs, Zenon
<1>3. CASE s # Absent
  <2>1. DOMAIN s \subseteq Paths /\ PrefixFree(DOMAIN s) /\ s \in [DOMAIN s -> FieldValues]
    BY <1>3, StatusIs, Zenon
  <2>2. others \subseteq DOMAIN s /\ \A q \in others : ~IsPrefix(p, q)
    BY <1>3, Zenon
  <2>3. \A q \in DOMAIN s : ~IsStrictPrefix(q, p)
    BY <1>3, Zenon DEF Blocked
  <2> HIDE DEF others
  <2>4. DOMAIN t = others \cup {p} /\ t \in [DOMAIN t -> FieldValues]
    BY <2>1, <2>2, Zenon
  <2> HIDE DEF t
  <2>5. PrefixFree(DOMAIN t)
    BY <2>1, <2>2, <2>3, <2>4, Zenon DEF PrefixFree, IsStrictPrefix
  <2>6. DOMAIN t \subseteq Paths
    BY <2>1, <2>2, <2>4, Zenon
  <2> QED BY <1>1, <2>4, <2>5, <2>6, StatusIs, Zenon
<1> QED BY <1>2, <1>3, Zenon

(* Sequences of one and of two elements.                                   *)
LEMMA ShortSeqs ==
  ASSUME NEW S, NEW a \in S, NEW b \in S
  PROVE  <<a>> \in Seq(S) /\ <<a, b>> \in Seq(S)
OBVIOUS

(* What one mapping reads and writes.                                      *)
LEMMA ApplyType ==
  ASSUME NEW m \in Mappings, NEW start, NEW s \in Statuses, NEW r, ~Fails(m, s, r)
  PROVE  Apply(m, start, s, r) \in Statuses
<1>1. CASE m.expr = "nothing"
  BY <1>1, Zenon DEF Apply
<1>2. CASE m.expr # "nothing"
  <2>1. m.expr \in {"literal", "self", "status"} /\ m.path # <<>> /\ ~Blocked(s, m.path)
    BY <1>2 DEF Mappings, Fails
  <2>2. m.path \in Paths
    <3>1. m.path \in {<<"a">>, <<"b">>, <<"a", "b">>}
      BY <2>1 DEF Mappings
    <3>2. <<"a">> \in Seq(Fields) /\ <<"b">> \in Seq(Fields) /\ <<"a", "b">> \in Seq(Fields)
      BY ShortSeqs, Zenon DEF Fields
    <3> QED BY <2>1, <3>1, <3>2, Zenon DEF Paths
  <2>3. \A p : Read(s, p) \in FieldValues
    BY StatusIs, Zenon DEF Read, FieldValues
  <2>4. Value(m.expr, start, s, r) \in FieldValues
    BY <2>1, <2>3, Zenon DEF Value, RootStatus, FieldValues
  <2> QED BY <1>2, <2>1, <2>2, <2>4, SetKeepsStatus, Zenon DEF Apply
<1> QED BY <1>1, <1>2, Zenon

Outcomes(n) == [status : Statuses, failed : SUBSET (1..n)]

(* What mapping m, the i-th, makes of o.                                   *)
Turn(start, r, m, i, o, next) ==
  /\ next = [status |-> next.status, failed |-> next.failed]
  /\ Fails(m, o.status, r) => next.status = o.status /\ next.failed = o.failed \cup {i}
  /\ ~Fails(m, o.status, r) =>
       next.status = Apply(m, start, o.status, r) /\ next.failed = o.failed

(* One turn of the loop of Project.                                        *)
LEMMA ProjectOneType ==
  ASSUME NEW start, NEW r, NEW ms \in Seq(Mappings), NEW o \in Outcomes(Len(ms)),
         NEW i \in 1..Len(ms)
  PROVE  /\ ProjectOne(start, r, ms, o, i) \in Outcomes(Len(ms))
         /\ Turn(start, r, ms[i], i, o, ProjectOne(start, r, ms, o, i))
<1>1. ms[i] \in Mappings /\ o.status \in Statuses /\ o.failed \in SUBSET (1..Len(ms))
  BY ElementOfSeq, Zenon DEF Outcomes
<1>2. ProjectOne(start, r, ms, o, i) =
        IF Fails(ms[i], o.status, r)
        THEN [status |-> o.status, failed |-> o.failed \cup {i}]
        ELSE [status |-> Apply(ms[i], start, o.status, r), failed |-> o.failed]
  <2>1. CASE Fails(ms[i], o.status, r)
    <3>1. ProjectOne(start, r, ms, o, i) = [o EXCEPT !.failed = @ \cup {i}]
      BY <2>1, Zenon DEF ProjectOne
    <3> QED BY <2>1, <3>1, Zenon DEF Outcomes
  <2>2. CASE ~Fails(ms[i], o.status, r)
    <3> DEFINE new == Apply(ms[i], start, o.status, r)
    <3>1. ProjectOne(start, r, ms, o, i) = [o EXCEPT !.status = new]
      BY <2>2, Zenon DEF ProjectOne
    <3> HIDE DEF new
    <3>2. ProjectOne(start, r, ms, o, i) = [status |-> new, failed |-> o.failed]
      BY <3>1, Zenon DEF Outcomes
    <3> QED BY <2>2, <3>2, Zenon DEF new
  <2> QED BY <2>1, <2>2, Zenon
<1>3. o.failed \cup {i} \in SUBSET (1..Len(ms))
  BY <1>1, Zenon
<1>4. ~Fails(ms[i], o.status, r) => Apply(ms[i], start, o.status, r) \in Statuses
  BY <1>1, ApplyType, Zenon
<1>5. CASE Fails(ms[i], o.status, r)
  <2> DEFINE next == ProjectOne(start, r, ms, o, i)
  <2>1. next = [status |-> o.status, failed |-> o.failed \cup {i}]
    BY <1>2, <1>5, Zenon
  <2> HIDE DEF next
  <2>2. next \in Outcomes(Len(ms))
    BY <1>1, <1>3, <2>1 DEF Outcomes
  <2>3. Turn(start, r, ms[i], i, o, next)
    BY <1>5, <2>1 DEF Turn
  <2> QED BY <2>2, <2>3, Zenon DEF next
<1>6. CASE ~Fails(ms[i], o.status, r)
  <2> DEFINE next == ProjectOne(start, r, ms, o, i)
  <2>1. next = [status |-> Apply(ms[i], start, o.status, r), failed |-> o.failed]
    BY <1>2, <1>6, Zenon
  <2> HIDE DEF next
  <2>2. next \in Outcomes(Len(ms))
    BY <1>1, <1>4, <1>6, <2>1 DEF Outcomes
  <2>3. Turn(start, r, ms[i], i, o, next)
    BY <1>6, <2>1 DEF Turn
  <2> QED BY <2>2, <2>3, Zenon DEF next
<1> QED BY <1>5, <1>6, Zenon

(* h[k] is what Project has done after k mappings.                         *)
ProjectRun(start, r, ms, h) ==
  /\ h \in [0..Len(ms) -> Outcomes(Len(ms))]
  /\ h[0] = [status |-> start, failed |-> {}]
  /\ \A k \in 1..Len(ms) : h[k] = ProjectOne(start, r, ms, h[k - 1], k)
  /\ Project(start, r, ms) = h[Len(ms)]

(* Project is the last of the outcomes of its turns.                       *)
LEMMA ProjectRuns ==
  ASSUME NEW start \in Statuses, NEW r, NEW ms \in Seq(Mappings)
  PROVE  \E h : ProjectRun(start, r, ms, h)
<1> DEFINE n == Len(ms)
           R == Outcomes(n)
           base == [status |-> start, failed |-> {}]
           st == [p \in R \X (1..n) |-> ProjectOne(start, r, ms, p[1], p[2])]
           Def(g) == g = [s \in SUBSET DOMAIN [i \in DOMAIN ms |-> i] |->
                           IF s = {} THEN base
                           ELSE ProjectOne(start, r, ms, g[s \ {Max(s)}],
                                           [i \in DOMAIN ms |-> i][Max(s)])]
<1>1. n \in Nat /\ DOMAIN ms = 1..n
  BY LenProperties, Zenon
<1>2. base \in R
  BY DEF Outcomes
<1>t. \A o \in R, i \in 1..n : ProjectOne(start, r, ms, o, i) \in R
  BY ProjectOneType, Zenon
<1>3. st \in [R \X (1..n) -> R]
  BY <1>t, Zenon
<1>4. Project(start, r, ms) = (CHOOSE g : Def(g))[DOMAIN [i \in DOMAIN ms |-> i]]
  BY DEF Project, FoldLeft, MapThenFoldSet
<1>5. PICK g0 \in [SUBSET (1..n) -> R] : Iterates(g0, st, base, n)
  <2> HIDE DEF n, R, base, st
  <2> QED BY <1>1, <1>2, <1>3, IterationExists, Zenon
<1>6. Def(g0)
  <2>1. g0 = [s \in SUBSET (1..n) |-> g0[s]]
    BY <1>5, Zenon
  <2>2. ASSUME NEW s \in SUBSET (1..n)
        PROVE  g0[s] = IF s = {} THEN base
                       ELSE ProjectOne(start, r, ms, g0[s \ {Max(s)}],
                                       [i \in DOMAIN ms |-> i][Max(s)])
    <3>1. CASE s = {}
      BY <1>5, <3>1, Zenon DEF Iterates
    <3>2. CASE s # {}
      <4>1. Max(s) \in 1..n /\ s \ {Max(s)} \in SUBSET (1..n)
        BY <1>1, <3>2, MaxIsIn, Zenon
      <4>2. g0[s \ {Max(s)}] \in R
        BY <1>5, <4>1, Zenon
      <4>3. g0[s] = st[<<g0[s \ {Max(s)}], Max(s)>>]
        BY <1>5, <3>2, Zenon DEF Iterates
      <4>4. [i \in DOMAIN ms |-> i][Max(s)] = Max(s)
        BY <1>1, <4>1, Zenon
      <4> QED BY <3>2, <4>1, <4>2, <4>3, <4>4, Zenon
    <3> QED BY <3>1, <3>2, Zenon
  <2>3. DOMAIN [i \in DOMAIN ms |-> i] = 1..n
    BY <1>1, Zenon
  <2> HIDE DEF base
  <2> QED BY <2>1, <2>2, <2>3, Zenon
<1> DEFINE g == CHOOSE g : Def(g)
           h == [k \in 0..n |-> g[1..k]]
<1>7. Def(g)
  <2> HIDE DEF Def
  <2> QED BY <1>6, Zenon
<1> HIDE DEF g, base
<1>8. Project(start, r, ms) = h[n]
  BY <1>1, <1>4 DEF g
<1>9. h[0] = base
  <2>1. 1..0 = {}
    OBVIOUS
  <2> QED BY <1>1, <1>7, <2>1
<1>10. ASSUME NEW k \in 1..n PROVE h[k] = ProjectOne(start, r, ms, h[k - 1], k)
  <2>1. Max(1..k) = k /\ (1..k) \ {k} = 1..(k - 1)
    BY <1>1, Segment, Zenon
  <2>2. 1..k # {} /\ k \in 0..n /\ k - 1 \in 0..n /\ 1..k \in SUBSET (1..n)
    BY <1>1, Segment, Zenon
  <2>3. g[1..k] = ProjectOne(start, r, ms, g[1..(k - 1)], k)
    BY <1>1, <1>7, <2>1, <2>2, Zenon
  <2> QED BY <2>2, <2>3, Zenon
<1>11. h \in [0..n -> R]
  <2> DEFINE Good == {k \in 0..n : h[k] \in R}
  <2>1. 0 \in Good
    BY <1>1, <1>2, <1>9
  <2>2. ASSUME NEW k \in 1..n, k - 1 \in Good PROVE k \in Good
    <3>1. h[k - 1] \in R /\ h[k] = ProjectOne(start, r, ms, h[k - 1], k) /\ k \in 0..n
      BY <1>1, <1>10, <2>2, Segment, Zenon
    <3> HIDE DEF n, h, R
    <3>2. h[k] \in R
      BY <1>t, <3>1, Zenon
    <3> QED BY <3>1, <3>2, Zenon
  <2>3. \A k \in 0..n : k \in Good
    <3> HIDE DEF Good
    <3> QED BY <1>1, <2>1, <2>2, RunInduction, Zenon
  <2>4. \A k \in 0..n : h[k] \in R
    BY <2>3, Zenon
  <2> QED BY <2>4, Zenon
<1>12. ProjectRun(start, r, ms, h)
  <2> HIDE DEF h
  <2> QED BY <1>8, <1>9, <1>10, <1>11, Zenon DEF ProjectRun, base
<1> QED BY <1>12, Zenon

(* One turn of the loop, within a run.                                     *)
LEMMA ProjectTurn ==
  ASSUME NEW start, NEW r, NEW ms \in Seq(Mappings), NEW h, ProjectRun(start, r, ms, h),
         NEW k \in 1..Len(ms)
  PROVE  Turn(start, r, ms[k], k, h[k - 1], h[k])
<1>1. k \in 0..Len(ms) /\ k - 1 \in 0..Len(ms)
  BY LenProperties, Segment, Zenon
<1>2. h[k - 1] \in Outcomes(Len(ms)) /\ h[k] = ProjectOne(start, r, ms, h[k - 1], k)
  BY <1>1, Zenon DEF ProjectRun
<1> QED BY <1>2, ProjectOneType, Zenon

(* Project keeps the form of the status.                                   *)
LEMMA ProjectType ==
  ASSUME NEW start \in Statuses, NEW r, NEW ms \in Seq(Mappings)
  PROVE  Project(start, r, ms) \in Outcomes(Len(ms))
<1>1. PICK h : ProjectRun(start, r, ms, h)
  BY ProjectRuns, Zenon
<1>2. Len(ms) \in 0..Len(ms)
  <2>1. Len(ms) \in Nat
    BY LenProperties, Zenon
  <2> QED BY <2>1
<1> QED BY <1>1, <1>2, Zenon DEF ProjectRun

(* A mapping is in the errors of Project when it failed in its own turn.   *)
LEMMA FailedInItsTurn ==
  ASSUME NEW start, NEW r, NEW ms \in Seq(Mappings), NEW h, ProjectRun(start, r, ms, h),
         NEW i \in 1..Len(ms), i \in Project(start, r, ms).failed
  PROVE  Fails(ms[i], h[i - 1].status, r) /\ \A k \in 0..Len(ms) : h[k].failed \subseteq 1..k
<1> DEFINE n == Len(ms)
           fails == Fails(ms[i], h[i - 1].status, r)
           Good == {k \in 0..n : /\ h[k].failed \subseteq 1..k
                                 /\ ~fails => i \notin h[k].failed}
<1>0. n \in Nat
  BY LenProperties, Zenon
<1>1. 0 \in Good
  <2>1. h[0].failed = {}
    BY DEF ProjectRun
  <2> QED BY <1>0, <2>1
<1>2. ASSUME NEW k \in 1..n, k - 1 \in Good PROVE k \in Good
  <2>1. k \in 0..n
    BY <1>0, Segment, Zenon
  <2>2. h[k - 1].failed \subseteq 1..(k - 1) /\ (~fails => i \notin h[k - 1].failed)
    BY <1>2, Zenon
  <2>3. /\ Fails(ms[k], h[k - 1].status, r) => h[k].failed = h[k - 1].failed \cup {k}
        /\ ~Fails(ms[k], h[k - 1].status, r) => h[k].failed = h[k - 1].failed
    <3>1. Turn(start, r, ms[k], k, h[k - 1], h[k])
      BY ProjectTurn, Zenon
    <3> QED BY <3>1, Zenon DEF Turn
  <2> HIDE DEF n
  <2>4. 1..(k - 1) \subseteq 1..k /\ k \in 1..k
    BY <1>0
  <2>5. h[k].failed \subseteq 1..k
    BY <2>2, <2>3, <2>4, Zenon
  <2>6. ~fails => i \notin h[k].failed
    BY <2>2, <2>3, Zenon
  <2> QED BY <2>1, <2>5, <2>6, Zenon
<1>3. \A k \in 0..n : k \in Good
  <2> HIDE DEF Good, n
  <2> QED BY <1>0, <1>1, <1>2, RunInduction, Zenon
<1>4. n \in Good
  <2>1. n \in 0..n
    BY <1>0
  <2> HIDE DEF Good, n
  <2> QED BY <1>3, <2>1, Zenon
<1>5. fails
  BY <1>4, Zenon DEF ProjectRun
<1> QED BY <1>3, <1>5, Zenon

(* The errors without mapping i, numbered as in the list without it.       *)
Renumbered(F, i) == {IF j < i THEN j ELSE j - 1 : j \in F \ {i}}

(* Without a mapping that fails, Project has the same status and the same  *)
(* other errors: turn by turn, the run without mapping i is the run with   *)
(* it, one turn late after i.                                              *)
LEMMA LocalFailure ==
  ASSUME NEW start \in Statuses, NEW r, NEW ms \in Seq(Mappings),
         NEW i \in 1..Len(ms), i \in Project(start, r, ms).failed
  PROVE  Project(start, r, RemoveAt(ms, i)) =
           [status |-> Project(start, r, ms).status,
            failed |-> Renumbered(Project(start, r, ms).failed, i)]
<1> DEFINE n == Len(ms)
           others == RemoveAt(ms, i)
<1>0. n \in Nat
  BY LenProperties, Zenon
<1>1. /\ others \in Seq(Mappings)
      /\ Len(others) = n - 1
      /\ \A k \in 1..(n - 1) : others[k] = ms[Skip(i, k)]
  BY RemoveAtIs, Zenon
<1>2. PICK h : ProjectRun(start, r, ms, h)
  BY ProjectRuns, Zenon
<1> HIDE DEF others
<1>3. PICK g : ProjectRun(start, r, others, g)
  BY <1>1, ProjectRuns, Zenon
<1>4. Fails(ms[i], h[i - 1].status, r) /\ \A k \in 0..n : h[k].failed \subseteq 1..k
  BY <1>2, FailedInItsTurn, Zenon
<1>5. h[0] = [status |-> start, failed |-> {}] /\ g[0] = [status |-> start, failed |-> {}]
  BY <1>2, <1>3, Zenon DEF ProjectRun
<1> DEFINE Before(k) == g[k].status = h[k].status /\ g[k].failed = h[k].failed
           After(k) == /\ g[k - 1].status = h[k].status
                       /\ g[k - 1].failed = Renumbered(h[k].failed, i)
           Good == {k \in 0..n : IF k < i THEN Before(k) ELSE After(k)}
<1>6. 0 \in Good
  <2>1. 0 < i /\ 0 \in 0..n
    BY <1>0
  <2>2. Before(0)
    BY <1>5, Zenon
  <2> HIDE DEF Before, After, n
  <2> QED BY <2>1, <2>2, Zenon
<1>7. ASSUME NEW k \in 1..n, k - 1 \in Good PROVE k \in Good
  <2>0. k \in 0..n /\ k - 1 \in 0..n
    BY <1>0, Segment, Zenon
  <2>h. Turn(start, r, ms[k], k, h[k - 1], h[k])
    BY <1>2, ProjectTurn, Zenon
  <2>1. CASE k < i
    <3>1. k \in 1..(n - 1) /\ k - 1 < i /\ Skip(i, k) = k
      BY <1>0, <2>1 DEF Skip
    <3>2. Before(k - 1)
      BY <1>7, <3>1, Zenon
    <3>3. Turn(start, r, ms[k], k, g[k - 1], g[k])
      BY <1>1, <1>3, <3>1, ProjectTurn, Zenon
    <3>4. Before(k)
      BY <2>h, <3>2, <3>3, Zenon DEF Turn
    <3> QED BY <2>0, <2>1, <3>4, Zenon
  <2>2. CASE k = i
    <3>1. k - 1 < i
      BY <1>0, <2>2
    <3>2. Before(k - 1)
      BY <1>7, <3>1, Zenon
    <3>3. h[k].status = h[k - 1].status /\ h[k].failed = h[k - 1].failed \cup {i}
      BY <1>4, <2>2, <2>h, Zenon DEF Turn
    <3>4. h[k - 1].failed \subseteq 1..(k - 1)
      BY <1>4, <2>0, Zenon
    <3>5. Renumbered(h[k].failed, i) = h[k - 1].failed
      <4>0. i \notin 1..(k - 1)
        BY <1>0, <2>2
      <4>1. h[k].failed \ {i} = h[k - 1].failed
        BY <3>3, <3>4, <4>0, Zenon
      <4>2. \A j \in h[k - 1].failed : (IF j < i THEN j ELSE j - 1) = j
        BY <1>0, <2>2, <3>4
      <4> QED BY <4>1, <4>2, Zenon DEF Renumbered
    <3>6. After(k)
      BY <3>2, <3>3, <3>5, Zenon
    <3>7. ~(k < i)
      BY <1>0, <2>2
    <3> QED BY <2>0, <3>6, <3>7, Zenon
  <2>3. CASE k > i
    <3>1. k - 1 \in 1..(n - 1) /\ ~(k - 1 < i) /\ ~(k < i) /\ Skip(i, k - 1) = k /\ i \in Nat
      BY <1>0, <2>3 DEF Skip
    <3>2. After(k - 1)
      BY <1>7, <3>1, Zenon
    <3>3. Turn(start, r, ms[k], k - 1, g[(k - 1) - 1], g[k - 1])
      BY <1>1, <1>3, <3>1, ProjectTurn, Zenon
    <3>4. Renumbered(h[k - 1].failed \cup {k}, i) = Renumbered(h[k - 1].failed, i) \cup {k - 1}
      <4>1. (h[k - 1].failed \cup {k}) \ {i} = (h[k - 1].failed \ {i}) \cup {k}
        BY <1>0, <2>3
      <4> QED BY <3>1, <4>1, Zenon DEF Renumbered
    <3>5. After(k)
      BY <2>h, <3>2, <3>3, <3>4, Zenon DEF Turn
    <3> QED BY <2>0, <3>1, <3>5, Zenon
  <2>4. k < i \/ k = i \/ k > i
    BY <1>0
  <2> HIDE DEF Good
  <2> QED BY <2>1, <2>2, <2>3, <2>4, Zenon
<1>8. n \in Good
  <2>1. n \in 0..n
    BY <1>0
  <2>2. \A k \in 0..n : k \in Good
    <3> HIDE DEF Good, n
    <3> QED BY <1>0, <1>6, <1>7, RunInduction, Zenon
  <2> HIDE DEF Good, n
  <2> QED BY <2>1, <2>2, Zenon
<1>9. After(n)
  <2>1. ~(n < i)
    BY <1>0
  <2> QED BY <1>8, <2>1
<1>10. g[n - 1] = [status |-> g[n - 1].status, failed |-> g[n - 1].failed]
  <2>1. n - 1 \in 0..Len(others)
    BY <1>0, <1>1
  <2>2. PICK o : o = g[n - 1]
    BY Zenon
  <2>3. o \in Outcomes(Len(others))
    BY <1>3, <2>1, <2>2, Zenon DEF ProjectRun
  <2>4. o = [status |-> o.status, failed |-> o.failed]
    BY <2>3, Zenon DEF Outcomes
  <2> QED BY <2>2, <2>4, Zenon
<1>11. Project(start, r, ms) = h[n] /\ Project(start, r, others) = g[n - 1]
  BY <1>1, <1>2, <1>3, Zenon DEF ProjectRun
<1> QED BY <1>9, <1>10, <1>11, Zenon DEF others

-----------------------------------------------------------------------------
(* The object's finalizers, conditions and status                          *)

(* No mapping writes to the field of SetObservedGeneration, or below it.   *)
LEMMA GenerationIsFree ==
  ASSUME NEW s \in Statuses
  PROVE  SetNestedField(s, <<"observedGeneration">>, "generation") \in Statuses
<1> DEFINE path == <<"observedGeneration">>
<1>1. path \in Paths /\ "generation" \in FieldValues /\ Len(path) = 1
  BY ShortSeqs, Zenon DEF Paths, Fields, FieldValues
<1>2. ASSUME NEW p \in Paths PROVE ~IsStrictPrefix(p, path)
  <2>1. p \in Seq(Fields) /\ p # <<>>
    BY DEF Paths
  <2>2. Len(p) \in Nat /\ Len(p) # 0
    BY <2>1, LenProperties, EmptySeq, Zenon
  <2>3. CASE Len(p) = 1
    <3>0. /\ p[1] \in Fields /\ path[1] \in Fields
          /\ \A i \in 1..1 : p[i] \in Fields /\ path[i] \in Fields
      BY <1>1, <2>1, <2>3, ElementOfSeq DEF Fields
    <3>1. IsPrefix(p, path) => p[1] = path[1]
      <4>1. SubSeq(p, 1, 1)[1] = p[1] /\ SubSeq(path, 1, 1)[1] = path[1]
        BY <3>0, PrefixIs
      <4> QED BY <2>3, <4>1, Zenon DEF IsPrefix
    <3>2. IsPrefix(p, path) => p = path
      BY <2>1, <2>3, <3>1, <1>1 DEF Paths
    <3> QED BY <3>2, Zenon DEF IsStrictPrefix
  <2>4. CASE Len(p) > 1
    BY <1>1, <2>4 DEF IsStrictPrefix, IsPrefix
  <2>5. \A k \in Nat : k = 0 \/ k = 1 \/ k > 1
    OBVIOUS
  <2> QED BY <2>2, <2>3, <2>4, <2>5, Zenon
<1> HIDE DEF path
<1>3. ~Blocked(s, path)
  BY <1>2, StatusIs, Zenon DEF Blocked
<1>4. SetNestedField(s, path, "generation") \in Statuses
  BY <1>1, <1>3, SetKeepsStatus, Zenon
<1> QED BY <1>4, Zenon DEF path

(* The lists of mappings of the model are sequences.                       *)
LEMMA MappingListsAreSeqs ==
  ASSUME NEW ms \in MappingLists
  PROVE  ms \in Seq(Mappings)
<1>1. PICK n \in 0..MaxMappings : ms \in [1..n -> Mappings]
  BY DEF MappingLists, BoundedSeq, SeqOf
<1>2. n \in Nat
  OBVIOUS
<1> QED BY <1>1, <1>2, IsASeq

(* The inductive invariant.  TypeOK does not say what a condition, a path  *)
(* or a field's value is.                                                  *)
ObjectInv ==
  /\ finalizers \in Seq(Finalizers)
  /\ IsInjective(finalizers)
  /\ conditions \in Lists(Cond)
  /\ status \in Statuses

(* A new object satisfies the invariant.                                   *)
LEMMA ObjectInit == Init => ObjectInv
<1> SUFFICES ASSUME Init PROVE ObjectInv
    OBVIOUS
<1>1. finalizers = <<>> /\ conditions = <<>> /\ status = Absent
  BY DEF Init
<1>2. IsInjective(<<>>) /\ DistinctTypes(<<>>)
  BY DEF IsInjective, DistinctTypes
<1>3. <<>> \in Seq(Finalizers) /\ <<>> \in Seq(Cond)
  OBVIOUS
<1> QED BY <1>1, <1>2, <1>3, Zenon DEF ObjectInv, Lists, Statuses

(* Every operation on the object keeps the invariant.                      *)
LEMMA ObjectNext == ObjectInv /\ [Next]_vars => ObjectInv'
<1> SUFFICES ASSUME ObjectInv, [Next]_vars PROVE ObjectInv'
    OBVIOUS
<1>i. /\ finalizers \in Seq(Finalizers) /\ IsInjective(finalizers)
      /\ conditions \in Lists(Cond)
      /\ status \in Statuses
  BY DEF ObjectInv
<1>1. CASE ChangeFinalizers
  <2>1. PICK x \in Finalizers : finalizers' = AddFinalizer(finalizers, x)
                                \/ finalizers' = RemoveFinalizer(finalizers, x)
    BY <1>1, Zenon DEF ChangeFinalizers
  <2>2. finalizers' \in Seq(Finalizers) /\ IsInjective(finalizers')
    BY <1>i, <2>1, DistinctAddition, DistinctRemoval, Zenon
  <2> QED BY <1>i, <1>1, <2>2, Zenon DEF ObjectInv, ChangeFinalizers
<1>2. CASE ChangeConditions
  <2>1. CASE \E b \in Batches : conditions' = SetConditions(conditions, b)
    BY <1>i, <2>1, <1>2, BatchIs, Zenon DEF ObjectInv, ChangeConditions
  <2>2. CASE \E c \in Foreign : conditions' = Upsert(conditions, c)
    <3>0. Foreign \subseteq Cond
      <4>1. {"Other", "Healthy"} \subseteq Types /\ {"True", "False"} \subseteq Truths
            /\ {"-"} \subseteq Reasons
        BY Zenon DEF Types, Truths, Reasons
      <4> QED BY <4>1, Zenon DEF Foreign, Cond
    <3>1. PICK c \in Cond : conditions' = Upsert(conditions, c)
      BY <2>2, <3>0, Zenon
    <3>2. conditions' \in Lists(Cond)
      BY <1>i, <3>1, UpsertIs, Zenon
    <3> QED BY <1>i, <1>2, <3>2, Zenon DEF ObjectInv, ChangeConditions
  <2>3. CASE \E t \in {"Ready", "Synced", "Other"} : conditions' = RemoveCondition(conditions, t)
    <3>1. PICK t \in {"Ready", "Synced", "Other"} : conditions' = RemoveCondition(conditions, t)
      BY <2>3, Zenon
    <3>2. conditions' \in Lists(Cond)
      BY <1>i, <3>1, RemoveConditionIs, Zenon
    <3> QED BY <1>i, <1>2, <3>2, Zenon DEF ObjectInv, ChangeConditions
  <2>4. CASE conditions' = Join(conditions, <<>>)
    <3>1. conditions' = UpsertFold(conditions, conditions)
      BY <2>4, Zenon DEF Join, UpsertFold
    <3>2. conditions \in Seq(Cond)
      BY <1>i, Zenon DEF Lists
    <3>3. conditions' \in Lists(Cond)
      BY <1>i, <3>1, <3>2, UpsertAll, Zenon
    <3> QED BY <1>i, <1>2, <3>3 DEF ObjectInv, ChangeConditions
  <2> QED BY <1>2, <2>1, <2>2, <2>3, <2>4, Zenon DEF ChangeConditions
<1>3. CASE ProjectStatus
  <2>1. PICK r \in Sources, ms \in MappingLists : status' = Project(status, r, ms).status
    BY <1>3, Zenon DEF ProjectStatus
  <2>2. Project(status, r, ms) \in Outcomes(Len(ms))
    BY <1>i, MappingListsAreSeqs, ProjectType, Zenon
  <2>3. status' \in Statuses
    BY <2>1, <2>2, Zenon DEF Outcomes
  <2> QED BY <1>i, <1>3, <2>3, Zenon DEF ObjectInv, ProjectStatus
<1>4. CASE SetObservedGeneration
  <2>1. status' \in Statuses
    BY <1>i, <1>4, GenerationIsFree, Zenon DEF SetObservedGeneration
  <2> QED BY <1>i, <1>4, <2>1, Zenon DEF ObjectInv, SetObservedGeneration
<1>5. CASE ChangeAnnotations \/ ChangeMarks \/ UNCHANGED vars
  BY <1>i, <1>5, Zenon DEF ObjectInv, ChangeAnnotations, ChangeMarks, vars
<1> QED BY <1>1, <1>2, <1>3, <1>4, <1>5, Zenon DEF Next

(* The invariant holds throughout.                                         *)
LEMMA ObjectInvariant == Spec => []ObjectInv
BY ObjectInit, ObjectNext, PTL DEF Spec

(* Finalizers stay distinct, so do the types of the conditions, and no     *)
(* field of the status is both a value and an object, for any finalizers   *)
(* and any number of conditions and mappings.                              *)
THEOREM ObjectTypes == Spec => []TypeOK
<1>1. ObjectInv => TypeOK
  <2> SUFFICES ASSUME ObjectInv PROVE TypeOK
      OBVIOUS
  <2> DEFINE types == [i \in DOMAIN conditions |-> conditions[i].type]
  <2>1. DOMAIN conditions = 1..Len(conditions) /\ DistinctTypes(conditions)
    BY LenProperties, Zenon DEF ObjectInv, Lists
  <2>2. IsInjective(types)
    BY <2>1, Zenon DEF IsInjective, DistinctTypes
  <2>3. status # Absent => PrefixFree(DOMAIN status)
    BY StatusIs, Zenon DEF ObjectInv
  <2> QED BY <2>2, <2>3, Zenon DEF ObjectInv, TypeOK, PrefixFree
<1> QED BY <1>1, ObjectInvariant, PTL

(* meta.RemoveFinalizer, which cuts the list it ranges over, never slices  *)
(* out of range and removes just the one finalizer, on a list of any       *)
(* length that AddFinalizer and RemoveFinalizer can build.                 *)
THEOREM RemovalTheorem == Spec => []RemovalIsExact
<1>1. ObjectInv => RemovalIsExact
  BY DistinctRemoval, Zenon DEF ObjectInv, RemovalIsExact
<1> QED BY <1>1, ObjectInvariant, PTL

(* SetConditions sets what it is given, leaves the object available just   *)
(* if no positive condition, its own or another's, is other than True, and *)
(* keeps the rest of a list that can be read, less the fields the reading  *)
(* drops, however long the list.                                           *)
THEOREM ConditionsTheorem == Spec => []ConditionsAreKept
<1>1. ObjectInv => ConditionsAreKept
  BY KeptConditions, Zenon DEF ObjectInv
<1> QED BY <1>1, ObjectInvariant, PTL

(* A mapping that fails changes no field and no other error of Project,    *)
(* for lists of mappings of any length.                                    *)
THEOREM FailureTheorem == Spec => []FailureIsLocal
<1>1. ObjectInv => FailureIsLocal
  <2> SUFFICES ASSUME ObjectInv, NEW r \in Sources, NEW ms \in MappingLists,
                      NEW i \in Project(status, r, ms).failed
               PROVE  Project(status, r, RemoveAt(ms, i)) =
                        [status |-> Project(status, r, ms).status,
                         failed |-> {IF j < i THEN j ELSE j - 1 :
                                       j \in Project(status, r, ms).failed \ {i}}]
    BY Zenon DEF FailureIsLocal
  <2>1. status \in Statuses /\ ms \in Seq(Mappings)
    BY MappingListsAreSeqs, Zenon DEF ObjectInv
  <2>2. Project(status, r, ms) \in Outcomes(Len(ms))
    BY <2>1, ProjectType, Zenon
  <2>3. i \in 1..Len(ms)
    BY <2>2, Zenon DEF Outcomes
  <2>4. Project(status, r, RemoveAt(ms, i)) =
          [status |-> Project(status, r, ms).status,
           failed |-> Renumbered(Project(status, r, ms).failed, i)]
    BY <2>1, <2>3, LocalFailure, Zenon
  <2> QED BY <2>4, Zenon DEF Renumbered
<1> QED BY <1>1, ObjectInvariant, PTL

=============================================================================
