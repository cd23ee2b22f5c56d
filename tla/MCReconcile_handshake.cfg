SPECIFICATION Spec
CONSTANTS
  Workers = {w1}
  Gone = Gone
  Absent = Absent
  Grace = 2
  Lag = 1
  CreateTicks = 1
  UserActs = {"delete", "foreign", "policy", "pause"}
  MaxUserActs = 3
  MaxFaults = 0
  MaxCrashes = 1
PROPERTIES
  RollbackIsRight
  GraceIsHonoured
  DeleteIsRequested
