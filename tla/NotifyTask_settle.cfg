SPECIFICATION FairSpec
CONSTANTS
  Orders = {o1, o2}
  Handlers = {"create", "ops"}
  Threads = {t1}
  Slots = {s1, s2}
  MaxRetry = 3
  Delays <- ShortDelays
  LockTime = 3
  SendTime = 1
  MaxLate = 1
  Limit = 1
  MaxCalls = 2
  MaxCrashes = 1
  NoTask = NoTask
  NoSend = NoSend
  NoOrder = NoOrder
PROPERTIES
  EveryTaskSettles
