SPECIFICATION Spec
CONSTANTS
  Workers = {w1, w2}
  Gone = Gone
  Absent = Absent
  Grace = 2
  Lag = 0
  CreateTicks = 1
  UserActs = {"edit"}
  MaxUserActs = 1
  MaxFaults = 0
  MaxCrashes = 0
PROPERTIES
  GraceIsHonoured
