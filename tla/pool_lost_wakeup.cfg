CONSTANTS
  w1 = w1
  w2 = w2
  t1 = t1
  t2 = t2
  Workers = {w1, w2}
  Tasks = {t1, t2}
  Getters = {}
  Stoppers = {}
  NoTask = NoTask
  MinThreadNum = 1
  MaxThreadNum = 2
  NotifyUnlocked = FALSE
  MaxCfg = 0
SPECIFICATION FairSpec
PROPERTY EveryTaskRuns
CHECK_DEADLOCK FALSE
