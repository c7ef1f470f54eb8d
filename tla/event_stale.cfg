CONSTANTS
  Fds = {1, 2}
  MaxCalls = 3
  MaxData = 1
  MaxAgain = 1
  MaxFaults = 1
  MaxTimers = 2
  MaxTime = 1
  MaxReentries = 1
SPECIFICATION MCSpec
CHECK_DEADLOCK FALSE
INVARIANT RemovedIsIgnored
