CONSTANTS
  Fds = {1, 2}
  MaxCalls = 3
  MaxData = 1
  MaxAgain = 2
  MaxFaults = 1
  MaxTimers = 2
  MaxTime = 1
  MaxReentries = 2
SPECIFICATION MCSpec
CHECK_DEADLOCK FALSE
INVARIANTS
  NoDeletedCallback
  CountsTheRegistered
  DueFireInOrder
PROPERTY NothingStarves
