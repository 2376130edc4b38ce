SPECIFICATION FairSpec
CONSTANTS
  N = 2
  MaxOps = 2
  Ops = {"fcancel", "await", "link", "sysop"}
  Holds <- AnyHolder
PROPERTIES CancelledTaskEnds EveryFutureSettles
CHECK_DEADLOCK FALSE
