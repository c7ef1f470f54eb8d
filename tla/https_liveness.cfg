CONSTANTS
  r1 = r1
  r2 = r2
  r3 = r3
  NoReq = NoReq
  Requests = {r1, r2, r3}
  Silent = {r2}
  Owning = {r3}
  MaxRetryTimes = 1
  Https = TRUE
SPECIFICATION FairSpec
CHECK_DEADLOCK FALSE
PROPERTIES
  EveryRequestAnswered
