SPECIFICATION Spec
CONSTANTS
  w1 = w1
  w2 = w2
  Workers = {w1, w2}
  MaxHead = 2
  MaxRegs = 1
  MaxFaults = 1
CHECK_DEADLOCK FALSE
INVARIANTS WatchSafe
PROPERTIES AutoMergeFollowsPin WatchResolves
