CONSTANTS
  W = 64
  SizeofCQ = 3
  SizeofBlock = 2
  MaxSz = 20
  CqSize = 9
  DataMaxSz = 3
  Spins = 2
  MaxPush = 5
  MaxCrash = 1
SPECIFICATION FairSpec
INVARIANTS
  LentIntact
  EmptyMeansDrained
PROPERTIES
  ImplementsFifo
  ImplementsFairFifo
