SPECIFICATION FairSpec
CONSTANTS
  Keys = {k1, k2}
  Workers = {w1, w2}
  Adders = {a1}
  Priorities <- MCPriorities
  Delays = {0, 1}
  Absent = Absent
  MaxAdds = 2
INVARIANTS
  ExclusiveHandout
  NoOrphanLock
  MapMatchesTree
  DepthIsExact
  WaitersAreExact
  NoLostWakeup
PROPERTIES
  OrderIsKept
  ImplementsKeyedQueue
  QueuedIsDelivered
  ShutdownCompletes
