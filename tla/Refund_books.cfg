\* Every handler of refunds, two at a time on two orders, with a restart.
CONSTANTS
  Orders = {o1, o2}
  Refunds = {r1, r2}
  Threads = {t1, t2}
  Amounts = {2, 4}
  MaxRequests = 4
  MaxCrashes = 1
  NoRow = NoRow
  NoJob = NoJob
  Paid <- PaidValue
  Income <- IncomeValue
  FeeOf <- FeeValue
  Balances <- BalanceValues
SYMMETRY Interchangeable
SPECIFICATION Spec
INVARIANTS
  TypeOK
  RefundsWithinPaid
  
  DoneIsCharged
  FeeReturnedOnce
  HeldWhileFrozen
PROPERTY DoneIsKept
