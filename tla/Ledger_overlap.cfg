SPECIFICATION Spec
CONSTANTS
  m1 = m1
  m2 = m2
  o1 = o1
  o2 = o2
  Merchants = {m1}
  Orders = {o1}
  Settles = {s1}
  Transfers = {x1}
  Amounts = {1, 2}
  OwnerOf <- OneOwner
  Price <- ThreeCents
  Income <- TwoCents
  Vouchers = {v1}
  Worth <- CentEach
  UsableBy <- AnyMerchant
  MinSettle = 1
  Handlers = {"pay", "makeUp", "payAgain", "callback", "redeem", "adjust", "freeze", "unfreeze", "apply", "approve", "reject", "transfer", "confirm", "cancel", "notifyOk", "notifyFail", "auto", "manual"}
  Threads = {t1, t2}
  Serial = FALSE
  ManualChanges = {1, 2, 3, 4, 5}
  MaxRequests = 4
  MaxCrashes = 1
  NoRow = NoRow
  NoJob = NoJob
SYMMETRY Symm
INVARIANTS
  NotOverdrawn
