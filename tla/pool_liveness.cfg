CONSTANTS
  w1 = w1
  w2 = w2
  t1 = t1
  t2 = t2
  g1 = g1
  g2 = g2
  s1 = s1
  Workers = {w1, w2}
  Tasks = {t1, t2}
  Getters = {g1, g2}
  Stoppers = {s1}
  NoTask = NoTask
  MinThreadNum = 2
  MaxThreadNum = 2
  NotifyUnlocked = TRUE
  MaxCfg = 0
SPECIFICATION FairSpec
INVARIANT NoLostOutput
PROPERTIES
  EveryTaskRuns
  StopReturns
