SPECIFICATION FairSpec
CONSTANTS
  Absent = Absent
  Objects = {o1}
  Workers = {w1, w2}
  MaxRetries = 1
  MaxEvents = 2
  MaxFailures = 1
CHECK_DEADLOCK FALSE
INVARIANTS
  InFlightIsExact
  DigestHasOwner
PROPERTIES
  FailedIsCovered
  DigestIsFreed
  EventIsProcessed
