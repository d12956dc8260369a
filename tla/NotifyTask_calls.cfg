SPECIFICATION Spec
CONSTANTS
  Orders = {o1}
  Handlers = {"create", "retry", "url"}
  Threads = {t1, t2}
  Slots = {s1, s2, s3}
  MaxRetry = 3
  Delays <- ShortDelays
  LockTime = 3
  SendTime = 1
  MaxLate = 1
  Limit = 1
  MaxCalls = 3
  MaxCrashes = 1
  NoTask = NoTask
  NoSend = NoSend
  NoOrder = NoOrder
SYMMETRY Symm
INVARIANTS
  RetryInv
  GivenUpAfterMaxFailures
  TimerCallsApart
