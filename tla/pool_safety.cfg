CONSTANTS
  w1 = w1
  w2 = w2
  t1 = t1
  t2 = t2
  t3 = t3
  g1 = g1
  s1 = s1
  Workers = {w1, w2}
  Tasks = {t1, t2, t3}
  Getters = {g1}
  Stoppers = {s1}
  NoTask = NoTask
  MinThreadNum = 1
  MaxThreadNum = 2
  NotifyUnlocked = FALSE
  MaxCfg = 2
SPECIFICATION Spec
INVARIANTS
  TaskConserved
  WorkersCounted
  ConfigFresh
  StopBlocksUntilDone
PROPERTY
  StopOwnsWorkers
SYMMETRY Symmetry
