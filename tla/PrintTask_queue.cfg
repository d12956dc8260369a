\* Two requests, of two tasks or of one, three attempts, a restart.
CONSTANTS
  Tasks = {k1, k2}
  Threads = {t1}
  MaxRetry = 2
  Stale = 1
  Limit = 1
  MaxOut = 2
  MaxPrints = 2
  MaxCrashes = 1
  NoTask = NoTask
SPECIFICATION FairSpec
INVARIANTS
  TypeOK
  GivenUpAfterMaxFailures
  CallsApart
PROPERTIES
  EndIsKept
  EveryTaskEnds
