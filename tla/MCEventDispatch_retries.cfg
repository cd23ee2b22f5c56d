SPECIFICATION Spec
CONSTANTS
  Absent = Absent
  Objects = {o1}
  Workers = {w1, w2}
  MaxRetries = 1
  MaxEvents = 1
  MaxFailures = 3
CHECK_DEADLOCK FALSE
INVARIANT
  RetriesAreBounded
