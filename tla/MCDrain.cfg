SPECIFICATION FairSpec
CONSTANTS
  Workers = {w1, w2}
  Timeouts = {"none", "bounded", "forever"}
  Kinds = {"ends", "honours", "ignores"}
  MaxItems = 2
  MaxKnob = 1
CHECK_DEADLOCK FALSE
INVARIANTS
  LiveContext
  NobodyLeft
  NoRelaunch
PROPERTIES
  RunReturns
  EverythingStops
