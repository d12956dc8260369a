SPECIFICATION Spec
CONSTANTS
  OrderIds = {o1, o2, o3}
  PayIds = {m1, m2, m3}
  PayTypes = {wxpay}
  Amounts = {1}
  PushAmounts = {1, 2}
  Handlers = {"create", "push", "vmq"}
  Threads = {t1}
  Cron = cron
  PayQf = TRUE
  MaxTries = 2
  MaxDelta = 1
  CloseDelay = 0
  KeepTime = 0
  MaxNow = 1
  MaxCrashes = 0
  NoOrder = NoOrder
  NoRow = NoRow
  NoRequest = NoRequest
SYMMETRY Symm
INVARIANTS
  NoMisattribution
