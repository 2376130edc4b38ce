SPECIFICATION Spec
CONSTANTS
  N = 2
  MaxOps = 2
  Ops = {"await", "internal"}
  Holds <- AnyHolder
INVARIANTS InternalErrorReported
CHECK_DEADLOCK FALSE
