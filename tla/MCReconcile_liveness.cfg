SPECIFICATION FairSpec
CONSTANTS
  Workers = {w1}
  Gone = Gone
  Absent = Absent
  Grace = 1
  Lag = 0
  CreateTicks = 1
  UserActs = {"edit", "delete", "drift", "unmark"}
  MaxUserActs = 2
  MaxFaults = 1
  MaxCrashes = 1
PROPERTIES
  Converges
