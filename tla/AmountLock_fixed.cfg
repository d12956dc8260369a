SPECIFICATION FairSpec
CONSTANTS
  OrderIds = {o1, o2}
  PayIds = {m1}
  PayTypes = {wxpay}
  Amounts = {1}
  PushAmounts = {1}
  Handlers = {"create", "push", "vmq", "supplement", "expire"}
  Threads = {t1, t2}
  Cron = cron
  PayQf = FALSE
  MaxTries = 2
  MaxDelta = 1
  CloseDelay = 0
  KeepTime = 0
  MaxNow = 1
  MaxCrashes = 1
  NoOrder = NoOrder
  NoRow = NoRow
  NoRequest = NoRequest
INVARIANTS
  NoMisattribution
PROPERTIES
  ExpiredIsClosed
