SPECIFICATION Spec
CONSTANTS
  OrderIds = {o1, o2}
  PayIds = {m1}
  PayTypes = {wxpay}
  Amounts = {1}
  PushAmounts = {1}
  Handlers = {"create", "plugin", "push", "close", "delete"}
  Threads = {t1, t2}
  Cron = cron
  PayQf = TRUE
  MaxTries = 2
  MaxDelta = 1
  CloseDelay = 0
  KeepTime = 0
  MaxNow = 1
  MaxCrashes = 0
  NoOrder = NoOrder
  NoRow = NoRow
  NoRequest = NoRequest
SYMMETRY Symm
INVARIANTS
  LockInv
  UniqueOpenAmount
  NoLeakedLock
