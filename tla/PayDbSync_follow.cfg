SPECIFICATION FairSpec
CONSTANTS
  Keys = {k1, k2}
  Writers = {w1, w2}
  QueueLimit = 2
  BatchSize = 2
  FailThreshold = 2
  Exclusive = TRUE
  NoRow = NoRow
  MaxWrites = 3
INVARIANTS
  
  
  StopDrains
PROPERTIES
  NeverGoesBack
  EveryWriteSettles
