SPECIFICATION FairSpec
CONSTANTS
  M = 3
  Limits = {0, 1, 2}
  MaxResize = 2
INVARIANTS SlotsAccounted NoIdleSlot QueueIsParked
PROPERTIES AdmitsInOrder AdmitsWithinLimit CancelledWaiterLeaves WaiterServed
CHECK_DEADLOCK FALSE
