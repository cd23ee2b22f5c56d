-------------------------- MODULE CreateMarkTimes --------------------------
(***************************************************************************)
(* The create marks of pkg/meta with their times, beside the summary of    *)
(* them (module CreateMarks) that the reconciler is modelled with.         *)
(*                                                                         *)
(* The clock counts half seconds.  time.Format(time.RFC3339) drops the     *)
(* fraction of the second, so a mark is never later than the moment it was *)
(* written, and two marks of the same second are equal.  0 stands for the  *)
(* zero time that a missing or unreadable annotation is read as.           *)
(***************************************************************************)
EXTENDS CreateMarks

CONSTANT MaxClock  \* bound: half seconds

ASSUME MaxClockAssumption == MaxClock \in Nat

VARIABLES
  clock,
  pending,    \* the annotations, in seconds
  succeeded,
  failed,
  marks       \* the summary

times == <<pending, succeeded, failed>>
markVars == <<clock, times, marks>>

Second(t) == t \div 2

MarksInit ==
  /\ clock = 2
  /\ pending = 0
  /\ succeeded = 0
  /\ failed = 0
  /\ marks = [started |-> FALSE, age |-> 0, outcomeNow |-> FALSE,
              incomplete |-> FALSE, open |-> FALSE]

-----------------------------------------------------------------------------
(* Reading the times                                                       *)

\* Mutant: the failed mark is not looked at.
IncompleteWithoutFailed(p, s, f) == p # 0 /\ p > s

\* ExternalCreateIncomplete.
Incomplete(p, s, f) ==
  LET latest == IF f > s THEN f ELSE s
  IN p # 0 /\ p > latest

\* ExternalCreatePendingDuring with the grace period: time.Since(t) < d.
PendingDuring(p, now) == p # 0 /\ now - 2 * p < 2 * Grace

-----------------------------------------------------------------------------
(* Writing them                                                            *)

MarkPending ==
  /\ pending' = Second(clock)
  /\ marks' = SetExternalCreatePending(marks)
  /\ UNCHANGED <<clock, succeeded, failed>>

MarkSucceeded ==
  /\ succeeded' = Second(clock)
  /\ marks' = SetExternalCreateOutcome(marks)
  /\ UNCHANGED <<clock, pending, failed>>

MarkFailed ==
  /\ failed' = Second(clock)
  /\ marks' = SetExternalCreateOutcome(marks)
  /\ UNCHANGED <<clock, pending, succeeded>>

\* meta.RemoveAnnotations, in the recovery of an interrupted create; a user
\* may remove the annotation as well.
UnmarkPending ==
  /\ pending' = 0
  /\ marks' = RemovePending(marks)
  /\ UNCHANGED <<clock, succeeded, failed>>

\* external: the clock.  A second ends with every other step.
HalfSecond ==
  /\ clock < MaxClock
  /\ clock' = clock + 1
  /\ marks' = IF Second(clock') = Second(clock) THEN marks ELSE Older(marks)
  /\ UNCHANGED times

MarksNext == MarkPending \/ MarkSucceeded \/ MarkFailed \/ UnmarkPending \/ HalfSecond

MarksSpec == MarksInit /\ [][MarksNext]_markVars

-----------------------------------------------------------------------------
(* Every question the code asks of the three times has the same answer on  *)
(* the summary, after any sequence of marks and at any moment: whether a   *)
(* create is incomplete (worker.go, the recovery), and whether it was      *)
(* attempted within the grace period.                                      *)
SummaryIsExact ==
  /\ marks.incomplete <=> Incomplete(pending, succeeded, failed)
  /\ ExternalCreatePendingDuring(marks) <=> PendingDuring(pending, clock)

\* Does not hold: a create that was interrupted (no outcome was written after
\* the pending mark) looks incomplete.  An outcome of the same second hides it.
InterruptedLooksIncomplete == marks.open => Incomplete(pending, succeeded, failed)

=============================================================================
