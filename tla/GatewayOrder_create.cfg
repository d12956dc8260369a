\* Two handlers at a time, two channels in turn, a reset and a restart.
CONSTANTS
  Orders = {o1, o2}
  Numbers = {n1}
  Threads = {t1, t2}
  Amounts = {2}
  Probe = 1
  Channels = {1, 2}
  MaxRequests = 3
  MaxResets = 1
  MaxCrashes = 1
  NoChannel = NoChannel
  NoOrder = NoOrder
  NoNumber = NoNumber
  NoJob = NoJob
  Limit <- LimitValue
  Takes <- TakesValue
  Modes <- ModesValue
SYMMETRY Interchangeable
SPECIFICATION Spec
INVARIANTS
  TypeOK
  NumberIsUnique
  UsedWithinLimit
  
PROPERTY PaidIsKept
