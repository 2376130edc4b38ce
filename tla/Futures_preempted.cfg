SPECIFICATION Spec
CONSTANTS
  N = 1
  MaxOps = 2
  Ops = {"await", "throw"}
  Holds <- AnyHolder
PROPERTIES AwaitedErrorNotDrained
CHECK_DEADLOCK FALSE
