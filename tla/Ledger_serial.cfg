SPECIFICATION Spec
CONSTANTS
  m1 = m1
  m2 = m2
  o1 = o1
  o2 = o2
  Merchants = {m1, m2}
  Orders = {o1, o2}
  Settles = {s1, s2}
  Transfers = {x1}
  Amounts = {1, 2}
  OwnerOf <- TwoOwners
  Price <- ThreeCents
  Income <- TwoCents
  Vouchers = {v1}
  Worth <- CentEach
  UsableBy <- AnyMerchant
  MinSettle = 1
  Handlers = {"pay", "makeUp", "redeem", "freeze", "unfreeze", "apply", "approve", "reject", "transfer", "confirm", "cancel", "notifyOk", "notifyFail"}
  Threads = {t1, t2}
  Serial = TRUE
  ManualChanges = {}
  MaxRequests = 7
  MaxCrashes = 0
  NoRow = NoRow
  NoJob = NoJob
SYMMETRY SymmOwners
INVARIANTS
  LogExplainsBalance
  
  CreditedOnce

  
