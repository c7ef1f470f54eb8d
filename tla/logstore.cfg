CONSTANTS
  Levels = {0, 1}
  Threads = {1, 2}
  MaxMsgs = 3
  MaxTime = 3
  LogFileMaxSize = 2
  DayLen = 2
  Latency = 1
  InactiveTime = 2
  MaxFaults = 1
  MaxSets = 1
  MaxRounds = 2
  MaxRuleCalls = 1
SPECIFICATION MCSpec
CHECK_DEADLOCK FALSE
INVARIANTS
  WholeLines
  RotatedInTime
  DeliveredOnce
PROPERTY
  DestructorReturns
