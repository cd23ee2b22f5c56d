SPECIFICATION Spec
CONSTANTS
  Workers = {w1}
  Gone = Gone
  Absent = Absent
  Grace = 1
  Lag = 0
  CreateTicks = 1
  UserActs = {"delete", "recreate"}
  MaxUserActs = 4
  MaxFaults = 1
  MaxCrashes = 1
INVARIANT
  NoLeak
