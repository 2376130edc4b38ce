SPECIFICATION Spec
CONSTANTS
  N = 2
  MaxOps = 2
  Ops = {"detach", "group", "fcancel", "await", "any", "throw", "internal", "hostcancel"}
  Holds <- AnyHolder
INVARIANTS StashMatchesHeap UnsettledIsRooted WakeMatchesHeap NoErrorLost FailureCascades
PROPERTIES KeepsContract
CHECK_DEADLOCK FALSE
