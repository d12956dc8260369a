-------------------------- MODULE MchLedgerProofs --------------------------
(***************************************************************************)
(* Theorems about MchLedger.  No merchant is ever overdrawn, however the   *)
(* handlers overlap and wherever there is a restart.  When handlers of one *)
(* merchant or document do not overlap, money_log explains the balance;    *)
(* and the handlers that have a document for their money implement         *)
(* Accounts, so that nothing is lost and no order is credited twice.       *)
(***************************************************************************)
EXTENDS MchLedger, SumProofs, TLAPS

\* Rows of settle_order and transfer_order are never removed.
RowsStay ==
  /\ \A s \in Settles : settle[s] # NoRow => settle'[s] # NoRow
  /\ \A x \in Transfers : transfer[x] # NoRow => transfer'[x] # NoRow

MoneyType ==
  /\ balance \in [Merchants -> Int] /\ frozen \in [Merchants -> Int]
  /\ logged \in [Merchants -> Int]

TablesType ==
  /\ credits \in [Orders -> Nat]
  /\ order \in [Orders -> {"unpaid", "paid", "frozen"}]
  /\ settle \in [Settles -> Documents \cup {NoRow}]
  /\ transfer \in [Transfers -> Documents \cup {NoRow}]
  /\ voucher \in [Vouchers -> Merchants \cup {NoRow}]
  /\ requests \in Nat /\ crashes \in Nat

JobsType == job \in [Threads -> Job \cup {NoJob}]

LEMMA TypeParts == TypeOK <=> MoneyType /\ TablesType /\ JobsType
BY DEF TypeOK, MoneyType, TablesType, JobsType

\* One thread's job is replaced by one that is known.
LEMMA ReplaceJob ==
  ASSUME JobsType, JobsKnown, RowsStay, NEW t \in Threads, NEW j \in Job \cup {NoJob},
         job' = [job EXCEPT ![t] = j],
         j # NoJob => Known(j)'
  PROVE  JobsType' /\ JobsKnown'
BY DEF JobsType, JobsKnown, Known, RowsStay

\* The statement pointer moves on.
LEMMA GoToKeeps ==
  ASSUME JobsType, JobsKnown, RowsStay, NEW t \in Threads, job[t] # NoJob,
         NEW pc \in Steps \ {"write", "channel"}, GoTo(t, pc)
  PROVE  JobsType' /\ JobsKnown'
<1>1. job[t] \in Job /\ Known(job[t])
  BY DEF JobsType, JobsKnown
<1>2. PICK j : j = [job[t] EXCEPT !.pc = pc]
  OBVIOUS
<1>3. /\ j \in Job /\ j.pc = pc /\ j.change = job[t].change
      /\ j.kind = job[t].kind /\ j.ref = job[t].ref
  BY <1>1, <1>2 DEF Job
<1>4. job' = [job EXCEPT ![t] = j]
  BY <1>2 DEF GoTo
<1>5. Known(j)'
  BY <1>1, <1>3 DEF Known, RowsStay
<1>6. QED
  BY <1>3, <1>4, <1>5, ReplaceJob

LEMMA FinishKeeps ==
  ASSUME JobsType, JobsKnown, RowsStay, NEW t \in Threads, Finish(t)
  PROVE  JobsType' /\ JobsKnown'
BY ReplaceJob DEF Finish

\* What a request that arrives may ask for.
Fits(kind, m, ref, a, change, pc) ==
  /\ m \in Merchants
  /\ ref \in Orders \cup Settles \cup Transfers \cup Vouchers \cup {NoRow}
  /\ a \in Nat
  /\ change \in 1..5
  /\ pc \in Steps \ {"write", "channel"}
  /\ kind \in {"approve", "reject"} => ref \in Settles /\ settle[ref] # NoRow
  /\ kind = "transfer" => ref \in Transfers
  /\ kind \in TransferEnds => ref \in Transfers /\ transfer[ref] # NoRow

\* A request arrives.
LEMMA BeginKeeps ==
  ASSUME LedgerInv, NEW t \in Threads, NEW kind, NEW m, NEW ref, NEW a, NEW change, NEW pc,
         Fits(kind, m, ref, a, change, pc), Begin(t, kind, m, ref, a, change, pc)
  PROVE  LedgerInv'
<1> USE DEF Fits
<1> DEFINE j == [kind |-> kind, mch |-> m, ref |-> ref, amount |-> a, change |-> change, pc |-> pc,
                 before |-> 0, newBalance |-> 0, newFrozen |-> 0]
<1>1. job' = [job EXCEPT ![t] = j]
  BY DEF Begin
<1>2. j \in Job
  BY HandlersAssumption DEF Begin, Job
<1>3. UNCHANGED <<balance, frozen, logged, credits, order, settle, transfer, voucher, crashes>> /\ requests' \in Nat
  BY DEF Begin, LedgerInv, TypeOK
<1>4. Known(j)'
  BY <1>3 DEF Known, REFUND
<1>5. MoneyType' /\ TablesType' /\ RowsStay /\ NotOverdrawn'
  BY <1>3 DEF LedgerInv, TypeOK, MoneyType, TablesType, RowsStay, NotOverdrawn
<1> HIDE DEF j
<1>6. JobsType' /\ JobsKnown'
  BY <1>1, <1>2, <1>4, <1>5, ReplaceJob, TypeParts DEF LedgerInv
<1>7. TypeOK'
  BY <1>5, <1>6 DEF TypeOK, MoneyType, TablesType, JobsType
<1>8. QED
  BY <1>5, <1>6, <1>7 DEF LedgerInv

LEMMA Changes ==
  {INCOME, EXPENSE, FREEZE, UNFREEZE, SETTLE} = 1..5
BY DEF INCOME, EXPENSE, FREEZE, UNFREEZE, SETTLE

\* A row that is pending is a document.
LEMMA PendingRows ==
  ASSUME TypeOK
  PROVE  /\ \A s \in Settles : settle[s] # NoRow => settle[s] \in Documents
         /\ \A x \in Transfers : transfer[x] # NoRow => transfer[x] \in Documents
BY DEF TypeOK

LEMMA ArriveStep ==
  ASSUME LedgerInv, NEW t \in Threads, Arrive(t), "manual" \in Handlers => REFUND \notin ManualChanges
  PROVE  LedgerInv'
<1> USE Changes DEF Steps, TransferEnds
<1>1. ASSUME NEW o \in Orders,
             \/ PayNotify(t, o) \/ OrderMakeUp(t, o) \/ PayCallback(t, o)
             \/ OrderFreeze(t, o) \/ OrderUnfreeze(t, o)
      PROVE  LedgerInv'
  <2>1. OwnerOf[o] \in Merchants /\ Income[o] \in Nat /\ Price[o] \in Nat
    BY LedgerAssumption
  <2>2. CASE PayNotify(t, o)
    <3>1. Fits("pay", OwnerOf[o], o, Income[o], INCOME, "mark")
      BY <2>1 DEF Fits
    <3>2. QED
      BY <2>2, <3>1, BeginKeeps DEF PayNotify
  <2>3. CASE OrderFreeze(t, o)
    <3>1. Fits("freeze", OwnerOf[o], o, Income[o], FREEZE, "read")
      BY <2>1 DEF Fits
    <3>2. QED
      BY <2>3, <3>1, BeginKeeps DEF OrderFreeze
  <2>4. CASE OrderUnfreeze(t, o)
    <3>1. Fits("unfreeze", OwnerOf[o], o, Income[o], UNFREEZE, "read")
      BY <2>1 DEF Fits
    <3>2. QED
      BY <2>4, <3>1, BeginKeeps DEF OrderUnfreeze
  <2>5. CASE OrderMakeUp(t, o)
    <3>1. PICK kind \in {"makeUp", "payAgain"} : Begin(t, kind, OwnerOf[o], o, Income[o], INCOME, "mark")
      BY <2>5 DEF OrderMakeUp
    <3>2. Fits(kind, OwnerOf[o], o, Income[o], INCOME, "mark")
      BY <2>1, <3>1 DEF Fits
    <3>3. QED
      BY <3>1, <3>2, BeginKeeps
  <2>6. CASE PayCallback(t, o)
    <3>1. Fits("callback", OwnerOf[o], o, Price[o], INCOME, "mark")
      BY <2>1 DEF Fits
    <3>2. QED
      BY <2>6, <3>1, BeginKeeps DEF PayCallback
  <2>7. QED
    BY <1>1, <2>2, <2>3, <2>4, <2>5, <2>6
<1>2. ASSUME NEW s \in Settles, Approve(t, s) \/ Reject(t, s)
      PROVE  LedgerInv'
  <2>1. settle[s] # NoRow /\ settle[s].mch \in Merchants /\ settle[s].amount \in Nat
    BY <1>2, PendingRows DEF Approve, Reject, Pending, LedgerInv, Documents
  <2>2. CASE Approve(t, s)
    <3>1. Fits("approve", settle[s].mch, s, settle[s].amount, SETTLE, "read")
      BY <2>1 DEF Fits
    <3>2. QED
      BY <2>2, <3>1, BeginKeeps DEF Approve
  <2>3. CASE Reject(t, s)
    <3>1. Fits("reject", settle[s].mch, s, settle[s].amount, UNFREEZE, "read")
      BY <2>1 DEF Fits
    <3>2. QED
      BY <2>3, <3>1, BeginKeeps DEF Reject
  <2>4. QED
    BY <1>2, <2>2, <2>3
<1>3. ASSUME NEW x \in Transfers,
             Confirm(t, x) \/ Cancel(t, x) \/ \E ok \in BOOLEAN : TransferNotify(t, x, ok)
      PROVE  LedgerInv'
  <2>1. transfer[x] # NoRow /\ transfer[x].mch \in Merchants /\ transfer[x].amount \in Nat
    BY <1>3, PendingRows DEF Confirm, Cancel, TransferNotify, Pending, LedgerInv, Documents
  <2>2. CASE Confirm(t, x)
    <3>1. Fits("confirm", transfer[x].mch, x, transfer[x].amount, INCOME, "final")
      BY <2>1 DEF Fits
    <3>2. QED
      BY <2>2, <3>1, BeginKeeps DEF Confirm
  <2>3. CASE Cancel(t, x)
    <3>1. Fits("cancel", transfer[x].mch, x, transfer[x].amount, INCOME, "read")
      BY <2>1 DEF Fits
    <3>2. QED
      BY <2>3, <3>1, BeginKeeps DEF Cancel
  <2>4. ASSUME NEW ok \in BOOLEAN, TransferNotify(t, x, ok) PROVE LedgerInv'
    <3>1. PICK kind, pc : /\ kind \in {"notifyOk", "notifyFail"} /\ pc \in {"final", "read"}
                          /\ Begin(t, kind, transfer[x].mch, x, transfer[x].amount, INCOME, pc)
      BY <2>4 DEF TransferNotify
    <3>2. Fits(kind, transfer[x].mch, x, transfer[x].amount, INCOME, pc)
      BY <2>1, <3>1 DEF Fits
    <3>3. QED
      BY <3>1, <3>2, BeginKeeps
  <2>5. QED
    BY <1>3, <2>2, <2>3, <2>4
<1>4. ASSUME NEW m \in Merchants, AutoSettle(t, m)
      PROVE  LedgerInv'
  <2>1. PICK s \in Fresh(settle) : Begin(t, "auto", m, s, frozen[m], SETTLE, "insert")
    BY <1>4 DEF AutoSettle
  <2>2. s \in Settles /\ frozen[m] \in Nat
    BY <2>1 DEF Fresh, LedgerInv, TypeOK, NotOverdrawn
  <2>3. Fits("auto", m, s, frozen[m], SETTLE, "insert")
    BY <2>2 DEF Fits
  <2>4. QED
    BY <2>1, <2>3, BeginKeeps
<1>5. ASSUME NEW m \in Merchants, NEW a \in Amounts, Apply(t, m, a) \/ CreateTransfer(t, m, a)
      PROVE  LedgerInv'
  <2>1. Fresh(settle) \subseteq Settles /\ Fresh(transfer) \subseteq Transfers /\ a \in Nat
    BY LedgerAssumption DEF Fresh, LedgerInv, TypeOK
  <2>2. CASE Apply(t, m, a)
    <3>1. PICK s \in Settles : Begin(t, "apply", m, s, a, FREEZE, "pending")
      BY <2>1, <2>2 DEF Apply
    <3>2. Fits("apply", m, s, a, FREEZE, "pending")
      BY <2>1 DEF Fits
    <3>3. QED
      BY <3>1, <3>2, BeginKeeps
  <2>3. CASE CreateTransfer(t, m, a)
    <3>1. PICK x \in Transfers : Begin(t, "transfer", m, x, a, EXPENSE, "read")
      BY <2>1, <2>3 DEF CreateTransfer
    <3>2. Fits("transfer", m, x, a, EXPENSE, "read")
      BY <2>1 DEF Fits
    <3>3. QED
      BY <3>1, <3>2, BeginKeeps
  <2>4. QED
    BY <1>5, <2>2, <2>3
<1>6. ASSUME NEW m \in Merchants, NEW a \in Amounts, NEW c \in ManualChanges, Manual(t, m, c, a)
      PROVE  LedgerInv'
  <2>1. c \in 1..5 /\ a \in Nat
    BY <1>6, LedgerAssumption DEF REFUND, Manual, Begin
  <2>2. Fits("manual", m, NoRow, a, c, "read")
    BY <2>1 DEF Fits
  <2>3. QED
    BY <1>6, <2>2, BeginKeeps DEF Manual
<1>7. ASSUME NEW m \in Merchants, NEW a \in Amounts, Adjust(t, m, INCOME, a) \/ Adjust(t, m, EXPENSE, a)
      PROVE  LedgerInv'
  <2>1. Fits("adjust", m, NoRow, a, INCOME, "read") /\ Fits("adjust", m, NoRow, a, EXPENSE, "read")
    BY LedgerAssumption DEF Fits
  <2>2. QED
    BY <1>7, <2>1, BeginKeeps DEF Adjust
<1>8. ASSUME NEW m \in Merchants, NEW v \in Vouchers, Redeem(t, v, m)
      PROVE  LedgerInv'
  <2>1. Fits("redeem", m, v, Worth[v], INCOME, "read")
    BY LedgerAssumption DEF Fits
  <2>2. QED
    BY <1>8, <2>1, BeginKeeps DEF Redeem
<1>9. QED
  BY <1>1, <1>2, <1>3, <1>4, <1>5, <1>6, <1>7, <1>8 DEF Arrive

-----------------------------------------------------------------------------
(* The statements of the handlers.                                            *)

\* A statement that writes neither the accounts nor the log.
LEMMA MoneyStays ==
  ASSUME LedgerInv, UNCHANGED <<balance, frozen, logged>>
  PROVE  MoneyType' /\ NotOverdrawn'
BY DEF LedgerInv, TypeOK, MoneyType, NotOverdrawn

LEMMA TablesStay ==
  ASSUME LedgerInv, UNCHANGED <<tables, requests, crashes>>
  PROVE  MoneyType' /\ TablesType' /\ NotOverdrawn' /\ RowsStay
BY DEF LedgerInv, TypeOK, MoneyType, TablesType, NotOverdrawn, RowsStay, tables

LEMMA Assemble ==
  ASSUME MoneyType', TablesType', NotOverdrawn', JobsType', JobsKnown'
  PROVE  LedgerInv'
BY DEF LedgerInv, TypeOK, MoneyType, TablesType, JobsType

\* What changeMchBalance computes from numbers it has checked is not negative.
LEMMA CheckedChange ==
  ASSUME NEW change \in 1..5, NEW b \in Nat, NEW f \in Nat, NEW a \in Nat,
         Enough(change, b, f, a)
  PROVE  BalanceAfter(change, b, a) \in Nat /\ FrozenAfter(change, f, a) \in Nat
BY DEF Enough, BalanceAfter, FrozenAfter, INCOME, EXPENSE, FREEZE, UNFREEZE, SETTLE, REFUND

LEMMA JobAt ==
  ASSUME LedgerInv, NEW t \in Threads, job[t] # NoJob
  PROVE  job[t] \in Job /\ Known(job[t]) /\ job[t].change \in 1..5
BY DEF LedgerInv, TypeOK, JobsKnown, Known, Job, REFUND

LEMMA JobParts == LedgerInv => JobsType /\ JobsKnown
BY DEF LedgerInv, TypeOK, JobsType

LEMMA ReadStep ==
  ASSUME LedgerInv, NEW t \in Threads, ReadBalance(t)
  PROVE  LedgerInv'
<1>1. job[t] # NoJob /\ UNCHANGED <<tables, requests, crashes>>
  BY DEF ReadBalance, At
<1>2. job[t] \in Job /\ Known(job[t]) /\ job[t].change \in 1..5
  BY <1>1, JobAt
<1>3. balance[job[t].mch] \in Nat /\ frozen[job[t].mch] \in Nat
  BY <1>2 DEF LedgerInv, TypeOK, NotOverdrawn, Job
<1>4. MoneyType' /\ TablesType' /\ NotOverdrawn' /\ RowsStay
  BY <1>1, TablesStay
<1>5. CASE Enough(job[t].change, balance[job[t].mch], frozen[job[t].mch], job[t].amount)
  <2>1. PICK b, f : /\ b = BalanceAfter(job[t].change, balance[job[t].mch], job[t].amount)
                    /\ f = FrozenAfter(job[t].change, frozen[job[t].mch], job[t].amount)
    OBVIOUS
  <2>2. b \in Nat /\ f \in Nat
    BY <1>2, <1>3, <1>5, <2>1, CheckedChange DEF Job
  <2>3. PICK j : j = [job[t] EXCEPT !.pc = "write", !.before = balance[job[t].mch],
                                    !.newBalance = b, !.newFrozen = f]
    OBVIOUS
  <2>4. /\ j \in Job /\ j.pc = "write" /\ j.newBalance = b /\ j.newFrozen = f
        /\ j.change = job[t].change /\ j.kind = job[t].kind /\ j.ref = job[t].ref
    <3>1. job[t].change \in 1..6 /\ "write" \in Steps /\ b \in Int /\ f \in Int /\ balance[job[t].mch] \in Int
      BY <1>2, <1>3, <2>2 DEF Steps
    <3>2. QED
      BY <1>2, <2>3, <3>1 DEF Job
  <2>5. job' = [job EXCEPT ![t] = j]
    BY <1>5, <2>1, <2>3 DEF ReadBalance
  <2>6. Known(j)'
    BY <1>2, <1>4, <2>2, <2>4 DEF Known, RowsStay
  <2>7. QED
    BY <1>4, <2>4, <2>5, <2>6, JobParts, ReplaceJob, Assemble
<1>6. CASE ~Enough(job[t].change, balance[job[t].mch], frozen[job[t].mch], job[t].amount)
  <2>1. Refused(t)
    BY <1>6 DEF ReadBalance
  <2>2. JobsType' /\ JobsKnown'
    BY <1>1, <1>4, <2>1, JobParts, GoToKeeps, FinishKeeps DEF Refused, Steps
  <2>3. QED
    BY <1>4, <2>2, Assemble
<1>7. QED
  BY <1>5, <1>6

LEMMA WriteStep ==
  ASSUME LedgerInv, NEW t \in Threads, WriteBalance(t)
  PROVE  LedgerInv'
<1>1. /\ job[t] # NoJob /\ job[t].pc = "write" /\ GoTo(t, "log")
      /\ balance' = [balance EXCEPT ![job[t].mch] = job[t].newBalance]
      /\ frozen' = [frozen EXCEPT ![job[t].mch] = job[t].newFrozen]
      /\ UNCHANGED <<logged, credits, order, settle, transfer, voucher, requests, crashes>>
  BY DEF WriteBalance, At
<1>2. job[t] \in Job /\ job[t].newBalance >= 0 /\ job[t].newFrozen >= 0
  BY <1>1, JobAt DEF Known
<1>3. MoneyType' /\ NotOverdrawn'
  BY <1>1, <1>2 DEF LedgerInv, TypeOK, MoneyType, NotOverdrawn, Job
<1>4. TablesType' /\ RowsStay
  BY <1>1 DEF LedgerInv, TypeOK, TablesType, RowsStay
<1>5. JobsType' /\ JobsKnown'
  BY <1>1, <1>4, JobParts, GoToKeeps DEF Steps
<1>6. QED
  BY <1>3, <1>4, <1>5, Assemble

LEMMA CountUp ==
  ASSUME NEW S, NEW f \in [S -> Nat], NEW r
  PROVE  [f EXCEPT ![r] = @ + 1] \in [S -> Nat]
<1>1. ASSUME NEW x \in S PROVE [f EXCEPT ![r] = @ + 1][x] \in Nat
  <2>1. CASE x = r
    BY <2>1
  <2>2. CASE x # r
    BY <2>2
  <2>3. QED
    BY <2>1, <2>2
<1>2. QED
  BY <1>1

LEMMA LogStep ==
  ASSUME LedgerInv, NEW t \in Threads, WriteLog(t)
  PROVE  LedgerInv'
<1>1. /\ job[t] # NoJob
      /\ logged' = [logged EXCEPT ![job[t].mch] = @ + job[t].newBalance - job[t].before]
      /\ credits' = IF job[t].kind \in Payers THEN [credits EXCEPT ![job[t].ref] = @ + 1] ELSE credits
      /\ UNCHANGED <<balance, frozen, order, settle, transfer, voucher, requests, crashes>>
  BY DEF WriteLog, At
<1>2. job[t] \in Job
  BY <1>1, JobAt
<1>3. MoneyType' /\ NotOverdrawn'
  BY <1>1, <1>2 DEF LedgerInv, TypeOK, MoneyType, NotOverdrawn, Job
<1>4. TablesType' /\ RowsStay
  <2>1. credits' \in [Orders -> Nat]
    BY <1>1, CountUp DEF LedgerInv, TypeOK
  <2>2. QED
    BY <1>1, <2>1 DEF LedgerInv, TypeOK, TablesType, RowsStay
<1>5. JobsType' /\ JobsKnown'
  BY <1>1, <1>4, JobParts, GoToKeeps, FinishKeeps DEF WriteLog, AfterChange, Steps
<1>6. QED
  BY <1>3, <1>4, <1>5, Assemble

LEMMA MarkStep ==
  ASSUME LedgerInv, NEW t \in Threads, PayMark(t)
  PROVE  LedgerInv'
<1>1. /\ job[t] # NoJob /\ GoTo(t, IF job[t].kind = "callback" THEN "add" ELSE "read")
      /\ order' = IF order[job[t].ref] = "unpaid" \/ job[t].kind # "pay"
                    THEN [order EXCEPT ![job[t].ref] = "paid"] ELSE order
      /\ UNCHANGED <<balance, frozen, logged, credits, settle, transfer, voucher, requests, crashes>>
  BY DEF PayMark, At
<1>2. TablesType' /\ RowsStay
  BY <1>1 DEF LedgerInv, TypeOK, TablesType, RowsStay
<1>3. JobsType' /\ JobsKnown'
  BY <1>1, <1>2, JobParts, GoToKeeps DEF Steps
<1>4. QED
  BY <1>1, <1>2, <1>3, MoneyStays, Assemble

\* The callback adds to the balance in one statement.
LEMMA AddStep ==
  ASSUME LedgerInv, NEW t \in Threads, CallbackAdd(t)
  PROVE  LedgerInv'
<1>1. /\ job[t] # NoJob /\ UNCHANGED <<frozen, logged, credits, order, settle, transfer, voucher, requests, crashes>>
      /\ balance' = [balance EXCEPT ![job[t].mch] = balance[job[t].mch] + job[t].amount]
  BY DEF CallbackAdd, At
<1>2. job[t] \in Job /\ Known(job[t])
  BY <1>1, JobAt
<1>3. PICK b \in Int : b = balance[job[t].mch] + job[t].amount
  BY <1>2 DEF Job, LedgerInv, TypeOK
<1>4. PICK j : j = [job[t] EXCEPT !.pc = "log", !.before = b - job[t].amount, !.newBalance = b]
  OBVIOUS
<1>5. /\ j \in Job /\ j.pc = "log" /\ j.change = job[t].change /\ j.kind = job[t].kind /\ j.ref = job[t].ref
  <2>1. "log" \in Steps /\ b - job[t].amount \in Int
    BY <1>2, <1>3 DEF Steps, Job
  <2>2. QED
    BY <1>2, <1>3, <1>4, <2>1 DEF Job
<1>6. job' = [job EXCEPT ![t] = j]
  BY <1>3, <1>4 DEF CallbackAdd
<1>7. MoneyType' /\ NotOverdrawn'
  BY <1>1, <1>2 DEF LedgerInv, TypeOK, MoneyType, NotOverdrawn, Job
<1>8. TablesType' /\ RowsStay
  BY <1>1 DEF LedgerInv, TypeOK, TablesType, RowsStay
<1>9. Known(j)'
  BY <1>2, <1>5, <1>8 DEF Known, RowsStay
<1>10. QED
  BY <1>5, <1>6, <1>7, <1>8, <1>9, JobParts, ReplaceJob, Assemble

LEMMA RedeemStep ==
  ASSUME LedgerInv, NEW t \in Threads, RedeemFinal(t)
  PROVE  LedgerInv'
<1>1. /\ job[t] # NoJob /\ Finish(t)
      /\ voucher' = [voucher EXCEPT ![job[t].ref] = job[t].mch]
      /\ UNCHANGED <<balance, frozen, logged, credits, order, settle, transfer, requests, crashes>>
  BY DEF RedeemFinal, At
<1>2. job[t].mch \in Merchants
  BY <1>1, JobAt DEF Job
<1>3. TablesType' /\ RowsStay
  BY <1>1, <1>2 DEF LedgerInv, TypeOK, TablesType, RowsStay
<1>4. JobsType' /\ JobsKnown'
  BY <1>1, <1>3, JobParts, FinishKeeps
<1>5. QED
  BY <1>1, <1>3, <1>4, MoneyStays, Assemble

LEMMA OrderStep ==
  ASSUME LedgerInv, NEW t \in Threads, OrderFinal(t)
  PROVE  LedgerInv'
<1>1. /\ Finish(t)
      /\ order' = [order EXCEPT ![job[t].ref] = IF job[t].kind = "freeze" THEN "frozen" ELSE "paid"]
      /\ UNCHANGED <<balance, frozen, logged, credits, settle, transfer, voucher, requests, crashes>>
  BY DEF OrderFinal
<1>2. TablesType' /\ RowsStay
  BY <1>1 DEF LedgerInv, TypeOK, TablesType, RowsStay
<1>3. JobsType' /\ JobsKnown'
  BY <1>1, <1>2, JobParts, FinishKeeps
<1>4. QED
  BY <1>1, <1>2, <1>3, MoneyStays, Assemble

\* Handlers that end or go on without writing a table.
LEMMA QuietStep ==
  ASSUME LedgerInv, NEW t \in Threads, ApplyPending(t) \/ ChannelNone(t)
  PROVE  LedgerInv'
<1>1. job[t] # NoJob /\ UNCHANGED <<tables, requests, crashes>> /\ (GoTo(t, "read") \/ Finish(t))
  BY DEF ApplyPending, ChannelNone, At
<1>2. MoneyType' /\ TablesType' /\ NotOverdrawn' /\ RowsStay
  BY <1>1, TablesStay
<1>3. JobsType' /\ JobsKnown'
  BY <1>1, <1>2, JobParts, GoToKeeps, FinishKeeps DEF Steps
<1>4. QED
  BY <1>2, <1>3, Assemble

\* A row of settle_order or transfer_order is written: a new document, or the
\* state of one that is there.
LEMMA RowWritten ==
  ASSUME NEW S, NEW rows \in [S -> Documents \cup {NoRow}], NEW k,
         NEW d \in Documents
  PROVE  LET new == [rows EXCEPT ![k] = d]
         IN  new \in [S -> Documents \cup {NoRow}] /\ \A x \in S : rows[x] # NoRow => new[x] # NoRow
BY NullAssumption

LEMMA InsertStep ==
  ASSUME LedgerInv, NEW t \in Threads, ApplyInsert(t) \/ AutoInsert(t)
  PROVE  LedgerInv'
<1>1. /\ job[t] # NoJob /\ Finish(t)
      /\ settle' = [settle EXCEPT ![job[t].ref] = Document(job[t].mch, job[t].amount, "pending")]
      /\ UNCHANGED <<balance, frozen, logged, credits, order, transfer, voucher, requests, crashes>>
  BY DEF ApplyInsert, AutoInsert, At
<1>2. Document(job[t].mch, job[t].amount, "pending") \in Documents
  BY <1>1, JobAt DEF Job, Document, Documents
<1>3. TablesType' /\ RowsStay
  BY <1>1, <1>2, RowWritten DEF LedgerInv, TypeOK, TablesType, RowsStay
<1>4. JobsType' /\ JobsKnown'
  BY <1>1, <1>3, JobParts, FinishKeeps
<1>5. QED
  BY <1>1, <1>3, <1>4, MoneyStays, Assemble

LEMMA SettleStep ==
  ASSUME LedgerInv, NEW t \in Threads, SettleFinal(t)
  PROVE  LedgerInv'
<1>1. /\ job[t] # NoJob /\ Finish(t) /\ job[t].kind \in {"approve", "reject"}
      /\ UNCHANGED <<balance, frozen, logged, credits, order, transfer, voucher, requests, crashes>>
  BY DEF SettleFinal, At
<1>2. settle[job[t].ref] \in Documents /\ job[t].ref \in Settles
  BY <1>1, JobAt DEF Known, LedgerInv, TypeOK
<1>3. PICK d \in Documents : settle' = [settle EXCEPT ![job[t].ref] = d]
  BY <1>2 DEF SettleFinal, Documents
<1>4. TablesType' /\ RowsStay
  BY <1>1, <1>3, RowWritten DEF LedgerInv, TypeOK, TablesType, RowsStay
<1>5. JobsType' /\ JobsKnown'
  BY <1>1, <1>4, JobParts, FinishKeeps
<1>6. QED
  BY <1>1, <1>4, <1>5, MoneyStays, Assemble

LEMMA TransferInsertStep ==
  ASSUME LedgerInv, NEW t \in Threads, TransferInsert(t)
  PROVE  LedgerInv'
<1>1. /\ job[t] # NoJob /\ job[t].kind = "transfer" /\ GoTo(t, "channel")
      /\ transfer' = [transfer EXCEPT ![job[t].ref] = Document(job[t].mch, job[t].amount, "pending")]
      /\ UNCHANGED <<balance, frozen, logged, credits, order, settle, voucher, requests, crashes>>
  BY DEF TransferInsert, At
<1>2. Document(job[t].mch, job[t].amount, "pending") \in Documents
  BY <1>1, JobAt DEF Job, Document, Documents
<1>3. TablesType' /\ RowsStay
  BY <1>1, <1>2, RowWritten DEF LedgerInv, TypeOK, TablesType, RowsStay
<1>4. transfer'[job[t].ref] # NoRow
  BY <1>1, <1>2, JobAt, NullAssumption DEF Known, LedgerInv, TypeOK
<1>5. PICK j : j = [job[t] EXCEPT !.pc = "channel"]
  OBVIOUS
<1>6. /\ job[t] \in Job /\ Known(job[t])
      /\ j \in Job /\ j.pc = "channel" /\ j.change = job[t].change
      /\ j.kind = job[t].kind /\ j.ref = job[t].ref
  BY <1>1, <1>5, JobAt DEF Job, Steps
<1>7. Known(j)'
  BY <1>1, <1>4, <1>6 DEF Known
<1>8. job' = [job EXCEPT ![t] = j]
  BY <1>1, <1>5 DEF GoTo
<1>9. QED
  BY <1>1, <1>3, <1>6, <1>7, <1>8, JobParts, ReplaceJob, MoneyStays, Assemble

\* The state of a transfer that is there is set.
LEMMA TransferWritten ==
  ASSUME LedgerInv, NEW t \in Threads, job[t] # NoJob, Finish(t),
         job[t].ref \in Transfers, NEW s \in {"pending", "done", "failed"},
         transfer' = [transfer EXCEPT ![job[t].ref].state = s],
         UNCHANGED <<balance, frozen, logged, credits, order, settle, voucher, requests, crashes>>,
         transfer[job[t].ref] # NoRow
  PROVE  LedgerInv'
<1>1. transfer[job[t].ref] \in Documents
  BY DEF LedgerInv, TypeOK
<1>2. PICK d \in Documents : transfer' = [transfer EXCEPT ![job[t].ref] = d]
  BY <1>1 DEF Documents
<1>3. TablesType' /\ RowsStay
  <2>1. /\ transfer \in [Transfers -> Documents \cup {NoRow}]
        /\ transfer' \in [Transfers -> Documents \cup {NoRow}]
    BY <1>2, RowWritten DEF LedgerInv, TypeOK
  <2>2. \A x \in Transfers : transfer[x] # NoRow => transfer'[x] # NoRow
    BY <1>2, <2>1, RowWritten
  <2>3. QED
    BY <2>1, <2>2 DEF LedgerInv, TypeOK, TablesType, RowsStay
<1>4. JobsType' /\ JobsKnown'
  BY <1>3, JobParts, FinishKeeps
<1>5. QED
  BY <1>3, <1>4, MoneyStays, Assemble

LEMMA TransferEndStep ==
  ASSUME LedgerInv, NEW t \in Threads, ChannelAccepts(t) \/ TransferFinal(t)
  PROVE  LedgerInv'
<1>1. job[t] # NoJob /\ (job[t].pc = "channel" \/ job[t].kind \in TransferEnds)
  BY DEF ChannelAccepts, TransferFinal, At
<1>2. job[t].ref \in Transfers /\ transfer[job[t].ref] # NoRow
  BY <1>1, JobAt DEF Known
<1>3. QED
  BY <1>1, <1>2, TransferWritten DEF ChannelAccepts, TransferFinal

LEMMA ChannelFailsStep ==
  ASSUME LedgerInv, NEW t \in Threads, ChannelFails(t)
  PROVE  LedgerInv'
<1>1. /\ job[t] # NoJob /\ job[t].pc = "channel" /\ UNCHANGED <<tables, requests, crashes>>
  BY DEF ChannelFails, At
<1>2. PICK j : j = [job[t] EXCEPT !.kind = "transferFail", !.change = INCOME, !.pc = "read"]
  OBVIOUS
<1>3. job[t] \in Job /\ Known(job[t])
  BY <1>1, JobAt
<1>4. /\ j \in Job /\ j.pc = "read" /\ j.change = INCOME
      /\ j.kind = "transferFail" /\ j.ref = job[t].ref
  <2>1. INCOME \in 1..6 /\ "read" \in Steps /\ "transferFail" \in Kinds
    <3>1. INCOME \in 1..6
      BY DEF INCOME
    <3>2. "read" \in Steps
      BY DEF Steps
    <3>3. "transferFail" \in Kinds
      BY DEF Kinds
    <3>4. QED
      BY <3>1, <3>2, <3>3
  <2>2. QED
    BY <1>2, <1>3, <2>1 DEF Job
<1>5. MoneyType' /\ TablesType' /\ NotOverdrawn' /\ RowsStay
  BY <1>1, TablesStay
<1>6. Known(j)'
  BY <1>1, <1>3, <1>4, <1>5 DEF Known, RowsStay, INCOME, REFUND
<1>7. job' = [job EXCEPT ![t] = j]
  BY <1>2 DEF ChannelFails
<1>8. QED
  BY <1>4, <1>5, <1>6, <1>7, JobParts, ReplaceJob, Assemble

LEMMA CrashStep ==
  ASSUME LedgerInv, Crash
  PROVE  LedgerInv'
<1>1. UNCHANGED <<tables, requests>> /\ crashes' = crashes + 1 /\ job' = [t \in Threads |-> NoJob]
  BY DEF Crash
<1>2. TypeOK' /\ NotOverdrawn'
  BY <1>1 DEF LedgerInv, TypeOK, NotOverdrawn, tables
<1>3. JobsKnown'
  BY <1>1 DEF JobsKnown
<1>4. QED
  BY <1>2, <1>3 DEF LedgerInv

-----------------------------------------------------------------------------
LEMMA ContinueStep ==
  ASSUME LedgerInv, NEW t \in Threads, Continue(t)
  PROVE  LedgerInv'
<1>1. CASE ReadBalance(t) \/ WriteBalance(t) \/ WriteLog(t)
  BY <1>1, ReadStep, WriteStep, LogStep
<1>2. CASE PayMark(t) \/ CallbackAdd(t) \/ OrderFinal(t) \/ RedeemFinal(t)
  BY <1>2, MarkStep, AddStep, OrderStep, RedeemStep
<1>3. CASE ApplyPending(t) \/ ApplyInsert(t) \/ AutoInsert(t) \/ SettleFinal(t)
  BY <1>3, QuietStep, InsertStep, SettleStep
<1>4. CASE \/ TransferInsert(t) \/ ChannelNone(t) \/ ChannelAccepts(t) \/ ChannelFails(t)
           \/ TransferFinal(t)
  BY <1>4, TransferInsertStep, QuietStep, TransferEndStep, ChannelFailsStep
<1>5. QED
  BY <1>1, <1>2, <1>3, <1>4 DEF Continue

LEMMA LedgerInit == Init => LedgerInv
<1> SUFFICES ASSUME Init PROVE LedgerInv
  OBVIOUS
<1>1. TypeOK
  BY LedgerAssumption DEF Init, TypeOK
<1>2. JobsKnown /\ NotOverdrawn
  BY DEF Init, JobsKnown, NotOverdrawn
<1>3. QED
  BY <1>1, <1>2 DEF LedgerInv

LEMMA LedgerStep ==
  ASSUME "manual" \in Handlers => REFUND \notin ManualChanges
  PROVE  LedgerInv /\ [Next]_vars => LedgerInv'
<1> SUFFICES ASSUME LedgerInv, [Next]_vars PROVE LedgerInv'
  OBVIOUS
<1>1. ASSUME NEW t \in Threads, Arrive(t) \/ Continue(t) PROVE LedgerInv'
  BY <1>1, ArriveStep, ContinueStep
<1>2. CASE Crash
  BY <1>2, CrashStep
<1>3. CASE UNCHANGED vars
  BY <1>3 DEF vars, LedgerInv, TypeOK, JobsKnown, Known, NotOverdrawn
<1>4. QED
  BY <1>1, <1>2, <1>3 DEF Next, AllServed

\* No merchant is overdrawn and no frozen amount is negative, for any number of
\* merchants, documents, handler threads and restarts, whatever handlers
\* overlap, unless an administrator adjusts by hand with change type 6, which
\* changeMchBalance does not check.
THEOREM NeverOverdrawn ==
  ASSUME "manual" \in Handlers => REFUND \notin ManualChanges
  PROVE  Spec => []NotOverdrawn
<1>1. LedgerInv => NotOverdrawn
  BY DEF LedgerInv
<1>2. QED
  BY LedgerInit, LedgerStep, <1>1, PTL DEF Spec

-----------------------------------------------------------------------------
(* One handler per merchant at a time: what changeMchBalance writes and logs   *)
(* is what it read.                                                            *)

\* No other thread works on merchant m.
Alone(t, m) == \A u \in Threads \ {t} : job[u] # NoJob => job[u].mch # m

LEMMA AloneOnMine ==
  ASSUME SerialInv, NEW t \in Threads, job[t] # NoJob
  PROVE  Alone(t, job[t].mch)
BY DEF SerialInv, OneHandlerEach, Alone

\* A step that leaves the accounts and the log alone and neither starts to
\* write nor is about to log.
LEMMA QuietKeepsSerial ==
  ASSUME JobsType, SerialInv, NEW t \in Threads, ~At(t, "log"),
         UNCHANGED <<balance, logged>>,
         NEW j, job' = [job EXCEPT ![t] = j],
         j # NoJob => j.pc \notin {"write", "log"} /\ Alone(t, j.mch)
  PROVE  SerialInv'
<1>1. job'[t] = j /\ \A u \in Threads \ {t} : job'[u] = job[u]
  BY DEF JobsType
<1>2. OneHandlerEach'
  BY <1>1 DEF SerialInv, OneHandlerEach, Alone
<1>3. ReadIsFresh' /\ LogTrails'
  BY <1>1 DEF SerialInv, ReadIsFresh, LogTrails, At
<1>4. LogExplainsBalance'
  BY <1>1 DEF SerialInv, LogExplainsBalance, Logging, At
<1>5. QED
  BY <1>2, <1>3, <1>4 DEF SerialInv

LEMMA GoToKeepsSerial ==
  ASSUME LedgerInv, SerialInv, NEW t \in Threads, job[t] # NoJob, job[t].pc # "log",
         UNCHANGED <<balance, logged>>,
         NEW pc \in Steps \ {"write", "log"}, GoTo(t, pc)
  PROVE  SerialInv'
<1>1. PICK j : j = [job[t] EXCEPT !.pc = pc]
  OBVIOUS
<1>2. j.pc = pc /\ j.mch = job[t].mch
  BY <1>1, JobAt DEF Job
<1>3. job' = [job EXCEPT ![t] = j]
  BY <1>1 DEF GoTo
<1>4. QED
  BY <1>2, <1>3, AloneOnMine, JobParts, QuietKeepsSerial DEF At

LEMMA FinishKeepsSerial ==
  ASSUME LedgerInv, SerialInv, NEW t \in Threads, job[t].pc # "log",
         UNCHANGED <<balance, logged>>, Finish(t)
  PROVE  SerialInv'
BY JobParts, QuietKeepsSerial DEF Finish, At

LEMMA BeginKeepsSerial ==
  ASSUME LedgerInv, SerialInv, Serial, NEW t \in Threads,
         NEW kind, NEW m, NEW ref, NEW a, NEW change, NEW pc, pc \notin {"write", "log"},
         Begin(t, kind, m, ref, a, change, pc)
  PROVE  SerialInv'
<1>1. PICK j : j = [kind |-> kind, mch |-> m, ref |-> ref, amount |-> a, change |-> change,
                    pc |-> pc, before |-> 0, newBalance |-> 0, newFrozen |-> 0]
  OBVIOUS
<1>2. j.pc = pc /\ j.mch = m
  BY <1>1
<1>3. job' = [job EXCEPT ![t] = j] /\ job[t] = NoJob /\ UNCHANGED <<balance, logged>>
  BY <1>1 DEF Begin
<1>4. Alone(t, m)
  BY DEF Begin, Alone
<1>5. QED
  BY <1>2, <1>3, <1>4, JobParts, QuietKeepsSerial DEF At

LEMMA ArriveKeepsSerial ==
  ASSUME LedgerInv, SerialInv, Serial, NEW t \in Threads, Arrive(t)
  PROVE  SerialInv'
<1>1. ASSUME NEW o \in Orders,
             \/ PayNotify(t, o) \/ OrderMakeUp(t, o) \/ PayCallback(t, o)
             \/ OrderFreeze(t, o) \/ OrderUnfreeze(t, o)
      PROVE  SerialInv'
  BY <1>1, BeginKeepsSerial DEF PayNotify, OrderMakeUp, PayCallback, OrderFreeze, OrderUnfreeze
<1>2. ASSUME NEW s \in Settles, Approve(t, s) \/ Reject(t, s)
      PROVE  SerialInv'
  BY <1>2, BeginKeepsSerial DEF Approve, Reject
<1>3. ASSUME NEW x \in Transfers, Confirm(t, x) \/ Cancel(t, x)
      PROVE  SerialInv'
  BY <1>3, BeginKeepsSerial DEF Confirm, Cancel
<1>4. ASSUME NEW x \in Transfers, NEW ok \in BOOLEAN, TransferNotify(t, x, ok)
      PROVE  SerialInv'
  <2>1. PICK kind, pc : /\ pc \in {"final", "read"}
                        /\ Begin(t, kind, transfer[x].mch, x, transfer[x].amount, INCOME, pc)
    BY <1>4 DEF TransferNotify
  <2>2. QED
    BY <2>1, BeginKeepsSerial
<1>5. ASSUME NEW m \in Merchants, AutoSettle(t, m)
      PROVE  SerialInv'
  BY <1>5, BeginKeepsSerial DEF AutoSettle
<1>6. ASSUME NEW m \in Merchants, NEW a \in Amounts,
             \/ Apply(t, m, a) \/ CreateTransfer(t, m, a)
             \/ Adjust(t, m, INCOME, a) \/ Adjust(t, m, EXPENSE, a)
             \/ \E c \in ManualChanges : Manual(t, m, c, a)
      PROVE  SerialInv'
  BY <1>6, BeginKeepsSerial DEF Apply, CreateTransfer, Adjust, Manual
<1>7. ASSUME NEW m \in Merchants, NEW v \in Vouchers, Redeem(t, v, m)
      PROVE  SerialInv'
  BY <1>7, BeginKeepsSerial DEF Redeem
<1>8. QED
  BY <1>1, <1>2, <1>3, <1>4, <1>5, <1>6, <1>7 DEF Arrive

LEMMA ReadKeepsSerial ==
  ASSUME LedgerInv, SerialInv, NEW t \in Threads, ReadBalance(t)
  PROVE  SerialInv'
<1>1. job[t] # NoJob /\ job[t].pc = "read" /\ UNCHANGED <<balance, logged>>
  BY DEF ReadBalance, At, tables
<1>2. job[t] \in Job /\ JobsType
  BY <1>1, JobAt, JobParts
<1>3. CASE Enough(job[t].change, balance[job[t].mch], frozen[job[t].mch], job[t].amount)
  <2>1. PICK b, f : /\ b = BalanceAfter(job[t].change, balance[job[t].mch], job[t].amount)
                    /\ f = FrozenAfter(job[t].change, frozen[job[t].mch], job[t].amount)
    OBVIOUS
  <2>2. PICK j : j = [job[t] EXCEPT !.pc = "write", !.before = balance[job[t].mch],
                                    !.newBalance = b, !.newFrozen = f]
    OBVIOUS
  <2>3. job' = [job EXCEPT ![t] = j]
    BY <1>3, <2>1, <2>2 DEF ReadBalance
  <2>4. j.pc = "write" /\ j.mch = job[t].mch /\ j.before = balance[job[t].mch]
    BY <1>2, <2>2 DEF Job
  <2>5. job'[t] = j /\ \A u \in Threads \ {t} : job'[u] = job[u]
    BY <1>2, <2>3 DEF JobsType
  <2>6. OneHandlerEach'
    BY <1>1, <2>4, <2>5, AloneOnMine DEF SerialInv, OneHandlerEach, Alone
  <2>7. ReadIsFresh' /\ LogTrails'
    BY <1>1, <2>4, <2>5 DEF SerialInv, ReadIsFresh, LogTrails, At
  <2>8. LogExplainsBalance'
    BY <1>1, <2>4, <2>5 DEF SerialInv, LogExplainsBalance, Logging, At
  <2>9. QED
    BY <2>6, <2>7, <2>8 DEF SerialInv
<1>4. CASE ~Enough(job[t].change, balance[job[t].mch], frozen[job[t].mch], job[t].amount)
  <2>1. Refused(t)
    BY <1>4 DEF ReadBalance
  <2>2. QED
    BY <1>1, <2>1, GoToKeepsSerial, FinishKeepsSerial DEF Refused, Steps
<1>5. QED
  BY <1>3, <1>4

\* A new balance is written: the log now trails it by the change.
LEMMA NewBalanceKeepsSerial ==
  ASSUME LedgerInv, SerialInv, NEW t \in Threads, NEW m \in Merchants, NEW j \in Job,
         job[t] # NoJob, job[t].pc # "log", job[t].mch = m,
         job' = [job EXCEPT ![t] = j], j # NoJob,
         j.pc = "log", j.mch = m, j.before = balance[m],
         balance' = [balance EXCEPT ![m] = j.newBalance], UNCHANGED logged
  PROVE  SerialInv'
<1>1. JobsType /\ job'[t] = j
  BY JobParts DEF JobsType
<1>2. \A u \in Threads \ {t} : job'[u] = job[u] /\ (job[u] # NoJob => job[u].mch # m)
  BY <1>1, AloneOnMine DEF JobsType, Alone
<1>3. balance[m] = logged[m]
  <2>1. \A u \in Threads : ~Logging(u, m)
    BY <1>2 DEF Logging, At
  <2>2. QED
    BY <2>1 DEF SerialInv, LogExplainsBalance
<1>4. balance'[m] = j.newBalance /\ \A n \in Merchants \ {m} : balance'[n] = balance[n]
  BY DEF LedgerInv, TypeOK
<1>5. balance[m] \in Int /\ j.newBalance \in Int /\ logged[m] \in Int
  BY DEF LedgerInv, TypeOK, Job
<1>6. \A u \in Threads : job[u] # NoJob => job[u].mch \in Merchants
  BY JobAt DEF Job
<1>7. OneHandlerEach'
  BY <1>1, <1>2 DEF SerialInv, OneHandlerEach
<1>8. ReadIsFresh'
  BY <1>1, <1>2, <1>4, <1>6 DEF SerialInv, ReadIsFresh, At
<1>9. LogTrails'
  <2>1. ASSUME NEW u \in Threads \ {t}, At(u, "log")'
        PROVE  (balance[job[u].mch] = logged[job[u].mch] + job[u].newBalance - job[u].before)'
    BY <1>2, <1>4, <1>6, <2>1 DEF SerialInv, LogTrails, At
  <2>2. balance'[m] = logged'[m] + j.newBalance - j.before
    BY <1>3, <1>4, <1>5
  <2>3. QED
    BY <1>1, <2>1, <2>2 DEF LogTrails
<1>10. LogExplainsBalance'
  <2>1. ASSUME NEW n \in Merchants \ {m}, \A u \in Threads : ~Logging(u, n)'
        PROVE  balance'[n] = logged'[n]
    <3>1. \A u \in Threads : ~Logging(u, n)
      BY <1>1, <1>2, <2>1 DEF Logging, At
    <3>2. QED
      BY <1>4, <3>1 DEF SerialInv, LogExplainsBalance
  <2>2. Logging(t, m)'
    BY <1>1 DEF Logging, At
  <2>3. QED
    BY <2>1, <2>2 DEF LogExplainsBalance
<1>11. QED
  BY <1>7, <1>8, <1>9, <1>10 DEF SerialInv

LEMMA WriteKeepsSerial ==
  ASSUME LedgerInv, SerialInv, NEW t \in Threads, WriteBalance(t)
  PROVE  SerialInv'
<1>1. /\ job[t] # NoJob /\ job[t].pc = "write" /\ GoTo(t, "log")
      /\ balance' = [balance EXCEPT ![job[t].mch] = job[t].newBalance] /\ UNCHANGED logged
  BY DEF WriteBalance, At
<1>2. job[t] \in Job /\ job[t].mch \in Merchants
  BY <1>1, JobAt DEF Job
<1>3. PICK j : j = [job[t] EXCEPT !.pc = "log"]
  OBVIOUS
<1>4. /\ j \in Job /\ j.pc = "log" /\ j.mch = job[t].mch
      /\ j.before = job[t].before /\ j.newBalance = job[t].newBalance
  BY <1>2, <1>3 DEF Job, Steps
<1>5. job' = [job EXCEPT ![t] = j] /\ j # NoJob
  BY <1>1, <1>3, <1>4, NullAssumption DEF GoTo
<1>6. job[t].before = balance[job[t].mch]
  BY <1>1 DEF SerialInv, ReadIsFresh, At
<1>7. QED
  BY <1>1, <1>2, <1>4, <1>5, <1>6, NewBalanceKeepsSerial

LEMMA AddKeepsSerial ==
  ASSUME LedgerInv, SerialInv, NEW t \in Threads, CallbackAdd(t)
  PROVE  SerialInv'
<1>1. /\ job[t] # NoJob /\ job[t].pc = "add" /\ UNCHANGED logged
      /\ balance' = [balance EXCEPT ![job[t].mch] = balance[job[t].mch] + job[t].amount]
  BY DEF CallbackAdd, At
<1>2. job[t] \in Job /\ job[t].mch \in Merchants /\ balance[job[t].mch] \in Int /\ job[t].amount \in Int
  BY <1>1, JobAt DEF Job, LedgerInv, TypeOK
<1>3. PICK b \in Int : b = balance[job[t].mch] + job[t].amount
  BY <1>2
<1>4. PICK j : j = [job[t] EXCEPT !.pc = "log", !.before = b - job[t].amount, !.newBalance = b]
  OBVIOUS
<1>5. b - job[t].amount \in Int /\ b - job[t].amount = balance[job[t].mch]
  BY <1>2, <1>3
<1>6. /\ j \in Job /\ j.pc = "log" /\ j.mch = job[t].mch
      /\ j.before = balance[job[t].mch] /\ j.newBalance = b
  BY <1>2, <1>3, <1>4, <1>5 DEF Job, Steps
<1>7. job' = [job EXCEPT ![t] = j] /\ j # NoJob
  BY <1>3, <1>4, <1>6, NullAssumption DEF CallbackAdd
<1>8. QED
  BY <1>1, <1>2, <1>3, <1>6, <1>7, NewBalanceKeepsSerial

\* The log catches up.
LEMMA LogKeepsSerial ==
  ASSUME LedgerInv, SerialInv, NEW t \in Threads, WriteLog(t)
  PROVE  SerialInv'
<1>0. PICK m : m = job[t].mch
  OBVIOUS
<1>1. /\ job[t] # NoJob /\ job[t].pc = "log" /\ UNCHANGED balance
      /\ logged' = [logged EXCEPT ![m] = @ + job[t].newBalance - job[t].before]
  BY <1>0 DEF WriteLog, At
<1>2. job[t] \in Job /\ m \in Merchants /\ JobsType
  BY <1>0, <1>1, JobAt, JobParts DEF Job
<1>3. PICK j : /\ job' = [job EXCEPT ![t] = j]
               /\ j # NoJob => j.mch = m /\ j.pc \notin {"write", "log"}
  <2>1. CASE Finish(t)
    BY <2>1 DEF Finish
  <2>2. CASE \E pc \in {"insert", "final"} : GoTo(t, pc)
    <3>1. PICK pc \in {"insert", "final"} : GoTo(t, pc)
      BY <2>2
    <3>2. PICK j : j = [job[t] EXCEPT !.pc = pc]
      OBVIOUS
    <3>3. j.mch = m /\ j.pc = pc
      BY <1>0, <1>2, <3>2 DEF Job
    <3>4. job' = [job EXCEPT ![t] = j]
      BY <3>1, <3>2 DEF GoTo
    <3>5. QED
      BY <3>3, <3>4
  <2>3. QED
    BY <2>1, <2>2 DEF WriteLog, AfterChange
<1>4. job'[t] = j /\ \A u \in Threads \ {t} :
        job'[u] = job[u] /\ (job[u] # NoJob => job[u].mch # m)
  BY <1>0, <1>1, <1>2, <1>3, AloneOnMine DEF JobsType, Alone
<1>5. balance[m] = logged'[m] /\ \A n \in Merchants \ {m} : logged'[n] = logged[n]
  <2>1. balance[m] = logged[m] + job[t].newBalance - job[t].before
    BY <1>0, <1>1 DEF SerialInv, LogTrails, At
  <2>2. QED
    BY <1>1, <1>2, <2>1 DEF LedgerInv, TypeOK
<1>6. \A u \in Threads : job[u] # NoJob => job[u].mch \in Merchants
  BY JobAt DEF Job
<1>7. OneHandlerEach'
  BY <1>3, <1>4 DEF SerialInv, OneHandlerEach
<1>8. ReadIsFresh'
  BY <1>1, <1>3, <1>4 DEF SerialInv, ReadIsFresh, At
<1>9. LogTrails'
  BY <1>1, <1>3, <1>4, <1>5, <1>6 DEF SerialInv, LogTrails, At
<1>10. LogExplainsBalance'
  <2>1. ASSUME NEW n \in Merchants \ {m}, \A u \in Threads : ~Logging(u, n)'
        PROVE  balance'[n] = logged'[n]
    <3>1. \A u \in Threads : ~Logging(u, n)
      BY <1>0, <1>4, <2>1 DEF Logging, At
    <3>2. QED
      BY <1>1, <1>5, <3>1 DEF SerialInv, LogExplainsBalance
  <2>2. QED
    BY <1>1, <1>5, <2>1 DEF LogExplainsBalance
<1>11. QED
  BY <1>7, <1>8, <1>9, <1>10 DEF SerialInv

\* The other statements touch neither the accounts nor the log.
LEMMA OthersKeepSerial ==
  ASSUME LedgerInv, SerialInv, NEW t \in Threads, Continue(t),
         ~ReadBalance(t), ~WriteBalance(t), ~CallbackAdd(t), ~WriteLog(t)
  PROVE  SerialInv'
<1>1. /\ job[t] # NoJob /\ job[t].pc # "log"
      /\ UNCHANGED <<balance, logged>>
      /\ \/ Finish(t) \/ ChannelFails(t)
         \/ \E pc \in {"read", "add", "channel"} : GoTo(t, pc)
  BY DEF Continue, PayMark, OrderFinal, RedeemFinal, ApplyPending, ApplyInsert, AutoInsert, SettleFinal,
         TransferInsert, ChannelNone, ChannelAccepts, ChannelFails, TransferFinal, At, tables
<1>2. CASE Finish(t) \/ \E pc \in {"read", "add", "channel"} : GoTo(t, pc)
  BY <1>1, <1>2, FinishKeepsSerial, GoToKeepsSerial DEF Steps
<1>3. CASE ChannelFails(t)
  <2>1. PICK j : j = [job[t] EXCEPT !.kind = "transferFail", !.change = INCOME, !.pc = "read"]
    OBVIOUS
  <2>2. j.pc = "read" /\ j.mch = job[t].mch
    BY <1>1, <2>1, JobAt DEF Job
  <2>3. job' = [job EXCEPT ![t] = j]
    BY <1>3, <2>1 DEF ChannelFails
  <2>4. QED
    BY <1>1, <2>2, <2>3, AloneOnMine, JobParts, QuietKeepsSerial DEF At
<1>4. QED
  BY <1>1, <1>2, <1>3

LEMMA SerialInit == Init => SerialInv
BY DEF Init, SerialInv, OneHandlerEach, ReadIsFresh, LogTrails, LogExplainsBalance, At

LEMMA SerialStep ==
  ASSUME Serial, MaxCrashes = 0
  PROVE  LedgerInv /\ SerialInv /\ [Next]_vars => SerialInv'
<1> SUFFICES ASSUME LedgerInv, SerialInv, [Next]_vars PROVE SerialInv'
  OBVIOUS
<1>1. ASSUME NEW t \in Threads, Arrive(t) \/ Continue(t) PROVE SerialInv'
  BY <1>1, ArriveKeepsSerial, ReadKeepsSerial, WriteKeepsSerial, AddKeepsSerial,
         LogKeepsSerial, OthersKeepSerial
<1>2. CASE Crash
  BY <1>2 DEF Crash, LedgerInv, TypeOK
<1>3. CASE UNCHANGED vars
  BY <1>3 DEF vars, SerialInv, OneHandlerEach, ReadIsFresh, LogTrails, LogExplainsBalance,
              Logging, At
<1>4. QED
  BY <1>1, <1>2, <1>3 DEF Next, AllServed

\* With one handler per merchant at a time and no restart between the write and
\* the log, money_log explains every balance, for any number of merchants,
\* documents and threads.
THEOREM LogExplains ==
  ASSUME Serial, MaxCrashes = 0, "manual" \in Handlers => REFUND \notin ManualChanges
  PROVE  Spec => []LogExplainsBalance
<1>1. SerialInv => LogExplainsBalance
  BY DEF SerialInv
<1>2. QED
  BY LedgerInit, LedgerStep, SerialInit, SerialStep, <1>1, PTL DEF Spec

-----------------------------------------------------------------------------
(* The documents.  When no two handlers share a merchant or a document, each   *)
(* handler's document stays as it found it but for its own statements.         *)

\* A statement of thread t, which works on merchant m and document k: no other
\* thread does, nothing else is written, and the job of t becomes j.
Statement(t, m, k, j) ==
  /\ job[t] # NoJob => job[t].mch = m /\ job[t].ref = k
  /\ j # NoJob => j.mch = m /\ j.ref = k
  /\ \A u \in Threads \ {t} : job[u] # NoJob => job[u].mch # m /\ job[u].ref # k
  /\ job' = [job EXCEPT ![t] = j]
  /\ \A n \in Merchants \ {m} : balance'[n] = balance[n] /\ frozen'[n] = frozen[n]
  /\ \A o \in Orders \ {k} : order'[o] = order[o] /\ credits'[o] = credits[o]
  /\ \A s \in Settles \ {k} : settle'[s] = settle[s]
  /\ \A x \in Transfers \ {k} : transfer'[x] = transfer[x]
  /\ \A v \in Vouchers \ {k} : voucher'[v] = voucher[v]
  /\ k \in Settles /\ settle'[k] # settle[k] => settle'[k].mch = m

LEMMA OthersTrack ==
  ASSUME LedgerInv, JobsTrack, NEW t \in Threads, NEW m, NEW k, NEW j, Statement(t, m, k, j),
         NEW u \in Threads \ {t}, job[u] # NoJob
  PROVE  Tracks(job[u])'
<1>1. job'[u] = job[u] /\ job[u].mch # m /\ job[u].ref # k
  BY DEF Statement, LedgerInv, TypeOK
<1>2. job[u] \in Job /\ Tracks(job[u])
  BY JobAt DEF JobsTrack
<1>3. job[u].mch \in Merchants /\ balance'[job[u].mch] = balance[job[u].mch] /\ frozen'[job[u].mch] = frozen[job[u].mch]
  BY <1>1, <1>2 DEF Statement, Job
<1>4. PICK i : i = job[u] /\ i = job'[u]
  BY <1>1
<1>5. i.kind \in {"pay", "makeUp", "freeze", "unfreeze"} => OnOrder(i)'
  BY <1>1, <1>2, <1>4 DEF Tracks, OnOrder, Statement
<1>6. i.kind = "redeem" => OnVoucher(i)'
  BY <1>1, <1>2, <1>4 DEF Tracks, OnVoucher, Statement
<1>7. i.kind = "apply" => OnNewSettle(i)'
  <2> SUFFICES ASSUME i.kind = "apply" PROVE OnNewSettle(i)'
    OBVIOUS
  <2>1. OnNewSettle(i) /\ i.mch # m /\ i.ref # k
    BY <1>1, <1>2, <1>4 DEF Tracks
  <2>2. \A s \in Settles : settle'[s] = settle[s] \/ settle'[s].mch = m
    BY DEF Statement
  <2>3. settle'[i.ref] = settle[i.ref]
    BY <2>1 DEF OnNewSettle, Statement
  <2> QED
    BY <2>1, <2>2, <2>3 DEF OnNewSettle, Pending
<1>8. i.kind \in {"approve", "reject"} => OnSettle(i)'
  BY <1>1, <1>2, <1>4 DEF Tracks, OnSettle, Statement
<1>9. i.kind \in TransferEnds \cup {"transfer"} => OnTransfer(i)'
  BY <1>1, <1>2, <1>4 DEF Tracks, OnTransfer, Statement
<1>10. i.pc = "write" =>
         /\ Enough(i.change, balance'[i.mch], frozen'[i.mch], i.amount)
         /\ i.newBalance = BalanceAfter(i.change, balance'[i.mch], i.amount)
         /\ i.newFrozen = FrozenAfter(i.change, frozen'[i.mch], i.amount)
  BY <1>2, <1>3, <1>4 DEF Tracks
<1>11. Tracks(i)'
  BY <1>2, <1>4, <1>5, <1>6, <1>7, <1>8, <1>9, <1>10 DEF Tracks
<1> QED
  BY <1>4, <1>11

\* A payment of order o that has marked it and not yet credited it
Paying(j, o) ==
  /\ j # NoJob /\ j.ref = o
  /\ j.kind \in {"pay", "makeUp"} /\ j.pc \in {"read", "write", "log"}

\* The invariant is kept if the job's document is as it should be after the
\* statement, and the credits of the document's order are.
LEMMA DocumentsKept ==
  ASSUME LedgerInv, DocumentsInv, NEW t \in Threads, NEW m, NEW k, NEW j, Statement(t, m, k, j),
         j # NoJob => Tracks(j)',
         k \in Orders => credits'[k] = IF order'[k] = "unpaid" \/ Paying(j, k) THEN 0 ELSE 1
  PROVE  DocumentsInv'
<1>1. job'[t] = j /\ \A u \in Threads \ {t} : job'[u] = job[u]
  BY DEF Statement, LedgerInv, TypeOK
<1>2. JobsTrack'
  <2> SUFFICES ASSUME NEW u \in Threads, job'[u] # NoJob PROVE Tracks(job[u])'
    BY DEF JobsTrack
  <2>1. CASE u = t
    BY <1>1, <2>1
  <2>2. CASE u # t
    BY <1>1, <2>2, OthersTrack DEF DocumentsInv
  <2> QED
    BY <2>1, <2>2
<1>3. OneHandlerPerDocument'
  BY <1>1 DEF DocumentsInv, OneHandlerPerDocument, Statement
<1>4. CreditsFollow'
  <2>1. \A o \in Orders : Is(o, {"pay", "makeUp"}, {"read", "write", "log"})
                            <=> \E u \in Threads : Paying(job[u], o)
    BY DEF Is, Doing, Paying
  <2>2. \A o \in Orders : Is(o, {"pay", "makeUp"}, {"read", "write", "log"})'
                            <=> \E u \in Threads : Paying(job'[u], o)
    BY DEF Is, Doing, Paying
  <2>3. ASSUME NEW o \in Orders \ {k}
        PROVE  (\E u \in Threads : Paying(job'[u], o)) <=> \E u \in Threads : Paying(job[u], o)
    BY <1>1 DEF Paying, Statement
  <2>4. k \in Orders => ((\E u \in Threads : Paying(job'[u], k)) <=> Paying(j, k))
    BY <1>1 DEF Paying, Statement
  <2>5. ASSUME NEW o \in Orders
        PROVE  credits'[o] = IF order'[o] = "unpaid" \/ Is(o, {"pay", "makeUp"}, {"read", "write", "log"})'
                               THEN 0 ELSE 1
    <3>1. CASE o = k
      BY <2>2, <2>4, <3>1
    <3>2. CASE o # k
      BY <2>1, <2>2, <2>3, <3>2 DEF DocumentsInv, CreditsFollow, Statement
    <3> QED
      BY <3>1, <3>2
  <2> QED
    BY <2>5 DEF CreditsFollow
<1> QED
  BY <1>2, <1>3, <1>4 DEF DocumentsInv

-----------------------------------------------------------------------------
(* What the tables stand for, in terms of the job at work on a document.       *)

ShownOrder(j, row) ==
  IF j = NoJob THEN row
  ELSE IF j.kind \in {"pay", "makeUp"} /\ j.pc \in {"read", "write"} THEN "unpaid"
  ELSE IF j.kind = "freeze" /\ j.pc \in Moved THEN "frozen"
  ELSE IF j.kind = "unfreeze" /\ j.pc \in Moved THEN "paid"
  ELSE row

ShownSettle(j, row) ==
  IF j = NoJob THEN row
  ELSE IF j.kind = "approve" /\ j.pc \in Moved THEN [row EXCEPT !.state = "paid"]
  ELSE IF j.kind = "reject" /\ j.pc \in Moved THEN [row EXCEPT !.state = "rejected"]
  ELSE IF j.kind = "apply" /\ j.pc \in {"log", "insert"} THEN Document(j.mch, j.amount, "pending")
  ELSE row

ShownTransfer(j, row) ==
  IF j = NoJob THEN row
  ELSE IF j.kind \in {"cancel", "notifyFail", "transferFail"} /\ j.pc \in Moved
    THEN [row EXCEPT !.state = "failed"]
  ELSE IF j.kind = "transfer" /\ j.pc \in {"log", "insert"} THEN Document(j.mch, j.amount, "pending")
  ELSE row

ShownVoucher(j, row) ==
  IF j = NoJob THEN row
  ELSE IF j.kind = "redeem" /\ j.pc \in Moved THEN j.mch ELSE row

\* The job at work on document k is j, or none is.
AtWork(k, j) ==
  /\ \A u \in Threads : job[u] # NoJob /\ job[u].ref = k => job[u] = j
  /\ j # NoJob => j.ref = k /\ \E t \in Threads : job[t] = j

Shows ==
  \A k \in Orders \cup Settles \cup Transfers \cup Vouchers, j \in Job \cup {NoJob} :
    AtWork(k, j) =>
       /\ k \in Orders => orderShown[k] = ShownOrder(j, order[k])
       /\ k \in Settles => settleShown[k] = ShownSettle(j, settle[k])
       /\ k \in Transfers => transferShown[k] = ShownTransfer(j, transfer[k])
       /\ k \in Vouchers => voucherShown[k] = ShownVoucher(j, voucher[k])

LEMMA ShowsTables == Shows
<1> SUFFICES ASSUME NEW k \in Orders \cup Settles \cup Transfers \cup Vouchers,
                    NEW j \in Job \cup {NoJob}, AtWork(k, j)
             PROVE  /\ k \in Orders => orderShown[k] = ShownOrder(j, order[k])
                    /\ k \in Settles => settleShown[k] = ShownSettle(j, settle[k])
                    /\ k \in Transfers => transferShown[k] = ShownTransfer(j, transfer[k])
                    /\ k \in Vouchers => voucherShown[k] = ShownVoucher(j, voucher[k])
  BY DEF Shows
<1>1. ASSUME NEW kinds, NEW pcs
      PROVE  /\ Is(k, kinds, pcs) <=> j # NoJob /\ j.kind \in kinds /\ j.pc \in pcs
             /\ \A u \in Threads : Doing(u, k, kinds, pcs) => job[u] = j
  BY DEF Is, Doing, AtWork
<1>2. ASSUME NEW kinds, NEW pcs, Is(k, kinds, pcs)
      PROVE  job[CHOOSE u \in Threads : Doing(u, k, kinds, pcs)] = j
  <2>1. \E u \in Threads : Doing(u, k, kinds, pcs)
    BY <1>2 DEF Is
  <2> QED
    BY <1>1, <2>1
<1>3. ASSUME NEW kind, NEW rows
      PROVE  NewDocument(rows, k, kind) =
               IF j # NoJob /\ j.kind = kind /\ j.pc \in {"log", "insert"}
                 THEN Document(j.mch, j.amount, "pending") ELSE rows[k]
  <2> DEFINE c == CHOOSE u \in Threads : Doing(u, k, {kind}, {"log", "insert"})
  <2>1. Is(k, {kind}, {"log", "insert"}) => job[c] = j
    BY <1>2
  <2>2. Is(k, {kind}, {"log", "insert"}) <=> j # NoJob /\ j.kind = kind /\ j.pc \in {"log", "insert"}
    BY <1>1
  <2>3. NewDocument(rows, k, kind) =
          IF Is(k, {kind}, {"log", "insert"}) THEN Document(job[c].mch, job[c].amount, "pending") ELSE rows[k]
    BY Zenon DEF NewDocument
  <2> HIDE DEF c
  <2> QED
    BY <2>1, <2>2, <2>3
<1>4. k \in Orders => orderShown[k] = ShownOrder(j, order[k])
  BY <1>1 DEF orderShown, ShownOrder
<1>5. k \in Settles => settleShown[k] = ShownSettle(j, settle[k])
  BY <1>1, <1>3 DEF settleShown, ShownSettle
<1>6. k \in Transfers => transferShown[k] = ShownTransfer(j, transfer[k])
  BY <1>1, <1>3 DEF transferShown, ShownTransfer
<1>7. k \in Vouchers => voucherShown[k] = ShownVoucher(j, voucher[k])
  <2> DEFINE c == CHOOSE u \in Threads : Doing(u, k, {"redeem"}, Moved)
  <2>1. Is(k, {"redeem"}, Moved) => job[c] = j
    BY <1>2
  <2>2. Is(k, {"redeem"}, Moved) <=> j # NoJob /\ j.kind = "redeem" /\ j.pc \in Moved
    BY <1>1
  <2>3. k \in Vouchers => voucherShown[k] = IF Is(k, {"redeem"}, Moved) THEN job[c].mch ELSE voucher[k]
    BY DEF voucherShown
  <2> HIDE DEF c
  <2> QED
    BY <2>1, <2>2, <2>3 DEF ShownVoucher
<1> QED
  BY <1>4, <1>5, <1>6, <1>7

LEMMA ShowsNext == Shows'
BY ShowsTables, PTL

LEMMA ShownFunctions ==
  /\ orderShown = [k \in Orders |-> orderShown[k]]
  /\ settleShown = [k \in Settles |-> settleShown[k]]
  /\ transferShown = [k \in Transfers |-> transferShown[k]]
  /\ voucherShown = [k \in Vouchers |-> voucherShown[k]]
BY DEF orderShown, settleShown, transferShown, voucherShown

LEMMA ShownFunctionsNext ==
  /\ orderShown' = [k \in Orders |-> orderShown'[k]]
  /\ settleShown' = [k \in Settles |-> settleShown'[k]]
  /\ transferShown' = [k \in Transfers |-> transferShown'[k]]
  /\ voucherShown' = [k \in Vouchers |-> voucherShown'[k]]
BY DEF orderShown, settleShown, transferShown, voucherShown

\* A statement changes what its own document stands for, and no other.
LEMMA StatementShown ==
  ASSUME LedgerInv, OneHandlerPerDocument, NEW t \in Threads, NEW m, NEW k,
         NEW j \in Job \cup {NoJob}, Statement(t, m, k, j)
  PROVE  /\ orderShown' = [orderShown EXCEPT ![k] = ShownOrder(j, order'[k])]
         /\ settleShown' = [settleShown EXCEPT ![k] = ShownSettle(j, settle'[k])]
         /\ transferShown' = [transferShown EXCEPT ![k] = ShownTransfer(j, transfer'[k])]
         /\ voucherShown' = [voucherShown EXCEPT ![k] = ShownVoucher(j, voucher'[k])]
         /\ k \in Orders => orderShown[k] = ShownOrder(job[t], order[k])
         /\ k \in Settles => settleShown[k] = ShownSettle(job[t], settle[k])
         /\ k \in Transfers => transferShown[k] = ShownTransfer(job[t], transfer[k])
         /\ k \in Vouchers => voucherShown[k] = ShownVoucher(job[t], voucher[k])
<1> DEFINE documents == Orders \cup Settles \cup Transfers \cup Vouchers
<1>1. job'[t] = j /\ \A u \in Threads \ {t} : job'[u] = job[u]
  BY DEF Statement, LedgerInv, TypeOK
<1>2. AtWork(k, job[t]) /\ AtWork(k, j)' /\ job[t] \in Job \cup {NoJob}
  BY <1>1 DEF AtWork, Statement, LedgerInv, TypeOK
<1>3. ASSUME NEW x, x # k
      PROVE  \E i \in Job \cup {NoJob} : AtWork(x, i) /\ AtWork(x, i)'
  <2>1. CASE \A u \in Threads : job[u] # NoJob => job[u].ref # x
    BY <1>1, <1>3, <2>1 DEF AtWork, Statement
  <2>2. ASSUME NEW u \in Threads, job[u] # NoJob, job[u].ref = x PROVE \E i \in Job \cup {NoJob} : AtWork(x, i) /\ AtWork(x, i)'
    <3>1. u # t /\ job'[u] = job[u] /\ job[u] \in Job
      BY <1>1, <1>3, <2>2 DEF Statement, LedgerInv, TypeOK
    <3>2. AtWork(x, job[u])
      BY <2>2 DEF AtWork, OneHandlerPerDocument
    <3>3. \A w \in Threads : job'[w] # NoJob /\ job'[w].ref = x => job'[w] = job[u]
      BY <1>1, <1>3, <3>2 DEF AtWork, Statement
    <3>4. PICK i : i = job[u]
      OBVIOUS
    <3>5. AtWork(x, i)'
      BY <2>2, <3>1, <3>3, <3>4 DEF AtWork
    <3> QED
      BY <3>1, <3>2, <3>4, <3>5
  <2> QED
    BY <2>1, <2>2
<1>4. ASSUME NEW x \in documents, x # k
      PROVE  /\ x \in Orders => orderShown'[x] = orderShown[x]
             /\ x \in Settles => settleShown'[x] = settleShown[x]
             /\ x \in Transfers => transferShown'[x] = transferShown[x]
             /\ x \in Vouchers => voucherShown'[x] = voucherShown[x]
  <2>1. PICK i \in Job \cup {NoJob} : AtWork(x, i) /\ AtWork(x, i)'
    BY <1>3, <1>4
  <2>2. /\ x \in Orders => order'[x] = order[x]
        /\ x \in Settles => settle'[x] = settle[x]
        /\ x \in Transfers => transfer'[x] = transfer[x]
        /\ x \in Vouchers => voucher'[x] = voucher[x]
    BY <1>4 DEF Statement
  <2> QED
    BY <2>1, <2>2, ShowsTables, ShowsNext DEF Shows
<1>5. k \in documents =>
        /\ k \in Orders => orderShown[k] = ShownOrder(job[t], order[k]) /\ orderShown'[k] = ShownOrder(j, order'[k])
        /\ k \in Settles => settleShown[k] = ShownSettle(job[t], settle[k]) /\ settleShown'[k] = ShownSettle(j, settle'[k])
        /\ k \in Transfers => transferShown[k] = ShownTransfer(job[t], transfer[k])
                              /\ transferShown'[k] = ShownTransfer(j, transfer'[k])
        /\ k \in Vouchers => voucherShown[k] = ShownVoucher(job[t], voucher[k]) /\ voucherShown'[k] = ShownVoucher(j, voucher'[k])
  BY <1>2, ShowsTables, ShowsNext DEF Shows
<1>6. orderShown' = [orderShown EXCEPT ![k] = ShownOrder(j, order'[k])]
  BY <1>4, <1>5, ShownFunctions, ShownFunctionsNext
<1>7. settleShown' = [settleShown EXCEPT ![k] = ShownSettle(j, settle'[k])]
  BY <1>4, <1>5, ShownFunctions, ShownFunctionsNext
<1>8. transferShown' = [transferShown EXCEPT ![k] = ShownTransfer(j, transfer'[k])]
  BY <1>4, <1>5, ShownFunctions, ShownFunctionsNext
<1>9. voucherShown' = [voucherShown EXCEPT ![k] = ShownVoucher(j, voucher'[k])]
  BY <1>4, <1>5, ShownFunctions, ShownFunctionsNext
<1> QED
  BY <1>5, <1>6, <1>7, <1>8, <1>9

-----------------------------------------------------------------------------
(* The handlers' statements: each leaves the documents and accounts as they    *)
(* stand, or is a step of Accounts.                                            *)

\* A statement of a handler that has begun is one.
LEMMA Works ==
  ASSUME LedgerInv, SerialInv, DocumentsInv, NEW t \in Threads, job[t] # NoJob,
         NEW j, j # NoJob => j.mch = job[t].mch /\ j.ref = job[t].ref, job' = [job EXCEPT ![t] = j],
         \A n \in Merchants \ {job[t].mch} : balance'[n] = balance[n] /\ frozen'[n] = frozen[n],
         \A o \in Orders \ {job[t].ref} : order'[o] = order[o] /\ credits'[o] = credits[o],
         \A s \in Settles \ {job[t].ref} : settle'[s] = settle[s],
         \A x \in Transfers \ {job[t].ref} : transfer'[x] = transfer[x],
         \A v \in Vouchers \ {job[t].ref} : voucher'[v] = voucher[v],
         job[t].ref \in Settles /\ settle'[job[t].ref] # settle[job[t].ref] => settle'[job[t].ref].mch = job[t].mch
  PROVE  Statement(t, job[t].mch, job[t].ref, j)
BY DEF Statement, SerialInv, OneHandlerEach, DocumentsInv, OneHandlerPerDocument

LEMMA ExceptSame ==
  ASSUME NEW S, NEW f, f = [x \in S |-> f[x]], NEW k, NEW v, k \in S => v = f[k]
  PROVE  [f EXCEPT ![k] = v] = f
<1>1. [f EXCEPT ![k] = v] = [x \in S |-> IF x = k THEN v ELSE f[x]]
  OBVIOUS
<1> QED
  BY <1>1

\* A table of Accounts stays as it is if the document of the statement does.
LEMMA ShownStays ==
  ASSUME LedgerInv, OneHandlerPerDocument, NEW t \in Threads, NEW m, NEW k,
         NEW j \in Job \cup {NoJob}, Statement(t, m, k, j)
  PROVE  /\ (k \in Orders => ShownOrder(j, order'[k]) = ShownOrder(job[t], order[k])) => UNCHANGED orderShown
         /\ (k \in Settles => ShownSettle(j, settle'[k]) = ShownSettle(job[t], settle[k])) => UNCHANGED settleShown
         /\ (k \in Transfers => ShownTransfer(j, transfer'[k]) = ShownTransfer(job[t], transfer[k])) => UNCHANGED transferShown
         /\ (k \in Vouchers => ShownVoucher(j, voucher'[k]) = ShownVoucher(job[t], voucher[k])) => UNCHANGED voucherShown
<1>1. ASSUME k \in Orders => ShownOrder(j, order'[k]) = ShownOrder(job[t], order[k])
      PROVE  UNCHANGED orderShown
  <2>1. /\ orderShown' = [orderShown EXCEPT ![k] = ShownOrder(j, order'[k])]
        /\ k \in Orders => ShownOrder(j, order'[k]) = orderShown[k]
    BY <1>1, StatementShown
  <2>2. orderShown = [x \in Orders |-> orderShown[x]]
    BY ShownFunctions
  <2> QED
    BY <2>1, <2>2, ExceptSame
<1>2. ASSUME k \in Settles => ShownSettle(j, settle'[k]) = ShownSettle(job[t], settle[k])
      PROVE  UNCHANGED settleShown
  <2>1. /\ settleShown' = [settleShown EXCEPT ![k] = ShownSettle(j, settle'[k])]
        /\ k \in Settles => ShownSettle(j, settle'[k]) = settleShown[k]
    BY <1>2, StatementShown
  <2>2. settleShown = [x \in Settles |-> settleShown[x]]
    BY ShownFunctions
  <2> QED
    BY <2>1, <2>2, ExceptSame
<1>3. ASSUME k \in Transfers => ShownTransfer(j, transfer'[k]) = ShownTransfer(job[t], transfer[k])
      PROVE  UNCHANGED transferShown
  <2>1. /\ transferShown' = [transferShown EXCEPT ![k] = ShownTransfer(j, transfer'[k])]
        /\ k \in Transfers => ShownTransfer(j, transfer'[k]) = transferShown[k]
    BY <1>3, StatementShown
  <2>2. transferShown = [x \in Transfers |-> transferShown[x]]
    BY ShownFunctions
  <2> QED
    BY <2>1, <2>2, ExceptSame
<1>4. ASSUME k \in Vouchers => ShownVoucher(j, voucher'[k]) = ShownVoucher(job[t], voucher[k])
      PROVE  UNCHANGED voucherShown
  <2>1. /\ voucherShown' = [voucherShown EXCEPT ![k] = ShownVoucher(j, voucher'[k])]
        /\ k \in Vouchers => ShownVoucher(j, voucher'[k]) = voucherShown[k]
    BY <1>4, StatementShown
  <2>2. voucherShown = [x \in Vouchers |-> voucherShown[x]]
    BY ShownFunctions
  <2> QED
    BY <2>1, <2>2, ExceptSame
<1> QED
  BY <1>1, <1>2, <1>3, <1>4

LEMMA Stutter ==
  ASSUME LedgerInv, DocumentsInv, NEW t \in Threads, NEW m, NEW k,
         NEW j \in Job \cup {NoJob}, Statement(t, m, k, j), UNCHANGED <<balance, frozen>>,
         j # NoJob => Tracks(j)',
         k \in Orders => credits'[k] = IF order'[k] = "unpaid" \/ Paying(j, k) THEN 0 ELSE 1,
         k \in Orders => ShownOrder(j, order'[k]) = ShownOrder(job[t], order[k]),
         k \in Settles => ShownSettle(j, settle'[k]) = ShownSettle(job[t], settle[k]),
         k \in Transfers => ShownTransfer(j, transfer'[k]) = ShownTransfer(job[t], transfer[k]),
         k \in Vouchers => ShownVoucher(j, voucher'[k]) = ShownVoucher(job[t], voucher[k])
  PROVE  DocumentsInv' /\ UNCHANGED Promise!accounts
<1>1. DocumentsInv'
  BY DocumentsKept
<1>2. UNCHANGED <<orderShown, settleShown, transferShown, voucherShown>>
  BY ShownStays DEF DocumentsInv
<1> QED
  BY <1>1, <1>2 DEF Promise!accounts

\* What is known of a job at work.
LEMMA Working ==
  ASSUME LedgerInv, DocumentsInv, NEW t \in Threads, job[t] # NoJob
  PROVE  /\ job[t] \in Job /\ Tracks(job[t])
         /\ job[t].ref \in Orders =>
              credits[job[t].ref] = IF order[job[t].ref] = "unpaid" \/ Paying(job[t], job[t].ref) THEN 0 ELSE 1
<1>1. job[t] \in Job /\ Tracks(job[t])
  BY JobAt DEF DocumentsInv, JobsTrack
<1>2. ASSUME NEW o, o = job[t].ref
      PROVE  Is(o, {"pay", "makeUp"}, {"read", "write", "log"}) <=> Paying(job[t], o)
  BY <1>2 DEF Is, Doing, Paying, DocumentsInv, OneHandlerPerDocument
<1> QED
  BY <1>1, <1>2 DEF DocumentsInv, CreditsFollow

\* A request that arrives finds its document as it is.
LEMMA BeginStutters ==
  ASSUME LedgerInv, SerialInv, DocumentsInv, Serial, NEW t \in Threads,
         NEW kind, NEW m, NEW k, NEW a, NEW change, NEW pc,
         Fits(kind, m, k, a, change, pc), Begin(t, kind, m, k, a, change, pc), k # NoRow,
         pc \in {"mark", "read", "pending", "final"},
         kind \in {"pay", "makeUp"} => pc = "mark",
         pc = "final" => kind \in {"confirm", "notifyOk"},
         NEW j, j = [kind |-> kind, mch |-> m, ref |-> k, amount |-> a, change |-> change, pc |-> pc,
                     before |-> 0, newBalance |-> 0, newFrozen |-> 0],
         Tracks(j)
  PROVE  DocumentsInv' /\ UNCHANGED Promise!accounts
<1>1. /\ job' = [job EXCEPT ![t] = j] /\ job[t] = NoJob
      /\ UNCHANGED <<balance, frozen, logged, credits, order, settle, transfer, voucher>>
      /\ \A u \in Threads \ {t} : job[u] # NoJob => job[u].mch # m /\ job[u].ref # k
  BY DEF Begin
<1>2. j.mch = m /\ j.ref = k /\ j.kind = kind /\ j.pc = pc
  OBVIOUS
<1>3. j \in Job
  BY HandlersAssumption DEF Fits, Begin, Job
<1>4. Statement(t, m, k, j)
  BY <1>1, <1>2 DEF Statement
<1>5. Tracks(j)'
  BY <1>1, <1>2 DEF Tracks, OnOrder, OnVoucher, OnNewSettle, OnSettle, OnTransfer, Pending
<1>6. k \in Orders => credits'[k] = IF order'[k] = "unpaid" \/ Paying(j, k) THEN 0 ELSE 1
  <2>1. ~Is(k, {"pay", "makeUp"}, {"read", "write", "log"})
    BY <1>1 DEF Is, Doing
  <2>2. ~Paying(j, k)
    BY <1>2 DEF Paying
  <2> QED
    BY <1>1, <2>1, <2>2 DEF DocumentsInv, CreditsFollow
<1>7. /\ k \in Orders => ShownOrder(j, order'[k]) = ShownOrder(job[t], order[k])
      /\ k \in Settles => ShownSettle(j, settle'[k]) = ShownSettle(job[t], settle[k])
      /\ k \in Transfers => ShownTransfer(j, transfer'[k]) = ShownTransfer(job[t], transfer[k])
      /\ k \in Vouchers => ShownVoucher(j, voucher'[k]) = ShownVoucher(job[t], voucher[k])
  BY <1>1, <1>2 DEF ShownOrder, ShownSettle, ShownTransfer, ShownVoucher, Moved
<1> QED
  BY <1>1, <1>3, <1>4, <1>5, <1>6, <1>7, Stutter

\* The statement pointer moves on and the rest of the job stays.
LEMMA MovesOn ==
  ASSUME LedgerInv, NEW t \in Threads, job[t] # NoJob, NEW pc \in Steps, GoTo(t, pc)
  PROVE  \E j \in Job :
           /\ job' = [job EXCEPT ![t] = j] /\ j # NoJob /\ j.pc = pc
           /\ j.kind = job[t].kind /\ j.mch = job[t].mch /\ j.ref = job[t].ref
           /\ j.amount = job[t].amount /\ j.change = job[t].change
<1>1. PICK j : j = [job[t] EXCEPT !.pc = pc]
  OBVIOUS
<1>2. j \in Job /\ job[t] \in Job
  BY <1>1, JobAt DEF Job
<1>3. job' = [job EXCEPT ![t] = j]
  BY <1>1 DEF GoTo
<1>4. j # NoJob
  BY <1>2, NullAssumption
<1> QED
  BY <1>1, <1>2, <1>3, <1>4 DEF Job

\* A statement of a handler that leaves the documents and accounts as they stand.
LEMMA WorkStutters ==
  ASSUME LedgerInv, SerialInv, DocumentsInv, NEW t \in Threads, job[t] # NoJob,
         NEW j \in Job \cup {NoJob}, j # NoJob => j.mch = job[t].mch /\ j.ref = job[t].ref,
         job' = [job EXCEPT ![t] = j], UNCHANGED <<balance, frozen>>,
         \A o \in Orders \ {job[t].ref} : order'[o] = order[o] /\ credits'[o] = credits[o],
         \A s \in Settles \ {job[t].ref} : settle'[s] = settle[s],
         \A x \in Transfers \ {job[t].ref} : transfer'[x] = transfer[x],
         \A v \in Vouchers \ {job[t].ref} : voucher'[v] = voucher[v],
         job[t].ref \in Settles /\ settle'[job[t].ref] # settle[job[t].ref] => settle'[job[t].ref].mch = job[t].mch,
         NEW k, k = job[t].ref,
         j # NoJob => Tracks(j)',
         k \in Orders => credits'[k] = IF order'[k] = "unpaid" \/ Paying(j, k) THEN 0 ELSE 1,
         k \in Orders => ShownOrder(j, order'[k]) = ShownOrder(job[t], order[k]),
         k \in Settles => ShownSettle(j, settle'[k]) = ShownSettle(job[t], settle[k]),
         k \in Transfers => ShownTransfer(j, transfer'[k]) = ShownTransfer(job[t], transfer[k]),
         k \in Vouchers => ShownVoucher(j, voucher'[k]) = ShownVoucher(job[t], voucher[k])
  PROVE  DocumentsInv' /\ UNCHANGED Promise!accounts
<1>1. PICK m : m = job[t].mch
  OBVIOUS
<1>2. Statement(t, m, k, j)
  BY <1>1, Works
<1> QED
  BY <1>2, Stutter

\* The changes of the balance: a handler reads it, and is not refused the frozen
\* money of its document.
LEMMA ReadStutters ==
  ASSUME LedgerInv, SerialInv, DocumentsInv, NEW t \in Threads, ReadBalance(t),
         job[t].kind \in {"reject", "unfreeze"} => frozen[job[t].mch] >= job[t].amount
  PROVE  DocumentsInv' /\ UNCHANGED Promise!accounts
<1>1. job[t] # NoJob /\ job[t].pc = "read" /\ UNCHANGED <<tables, requests, crashes>>
  BY DEF ReadBalance, At
<1>2. UNCHANGED <<balance, frozen, logged, credits, order, settle, transfer, voucher>>
  BY <1>1 DEF tables
<1>3. /\ job[t] \in Job /\ Tracks(job[t])
      /\ job[t].ref \in Orders =>
           credits[job[t].ref] = IF order[job[t].ref] = "unpaid" \/ Paying(job[t], job[t].ref) THEN 0 ELSE 1
  BY <1>1, Working
<1>4. PICK i, k : i = job[t] /\ k = job[t].ref
  OBVIOUS
<1>5. i \in Job /\ i # NoJob /\ i.pc = "read" /\ i.ref = k /\ Tracks(i)
  BY <1>1, <1>3, <1>4
<1>6. CASE Enough(i.change, balance[i.mch], frozen[i.mch], i.amount)
  <2>1. PICK b, f : /\ b = BalanceAfter(i.change, balance[i.mch], i.amount)
                    /\ f = FrozenAfter(i.change, frozen[i.mch], i.amount)
    OBVIOUS
  <2>2. b \in Int /\ f \in Int /\ balance[i.mch] \in Int /\ i.change \in 1..5
    <3>1. balance[i.mch] \in Nat /\ frozen[i.mch] \in Nat /\ i.amount \in Nat
      BY <1>5 DEF LedgerInv, TypeOK, NotOverdrawn, Job
    <3>2. i.change \in 1..5
      BY <1>1, <1>4, JobAt
    <3> QED
      BY <1>6, <2>1, <3>1, <3>2, CheckedChange
  <2>3. PICK j : j = [i EXCEPT !.pc = "write", !.before = balance[i.mch], !.newBalance = b, !.newFrozen = f]
    OBVIOUS
  <2>4. /\ j \in Job /\ j.pc = "write" /\ j.newBalance = b /\ j.newFrozen = f
        /\ j.change = i.change /\ j.kind = i.kind /\ j.ref = i.ref /\ j.mch = i.mch /\ j.amount = i.amount
    <3>1. "write" \in Steps
      BY DEF Steps
    <3> QED
      BY <1>5, <2>2, <2>3, <3>1 DEF Job
  <2>5. job' = [job EXCEPT ![t] = j]
    BY <1>4, <1>6, <2>1, <2>3 DEF ReadBalance
  <2>6. Tracks(j)'
    <3>1. j.pc \in StepsOf(j.kind)
      BY <1>5, <2>4 DEF Tracks, StepsOf
    <3>2. i.kind \in {"pay", "makeUp", "freeze", "unfreeze"} => OnOrder(j)'
      BY <1>2, <1>5, <2>4 DEF Tracks, OnOrder
    <3>3. i.kind = "redeem" => OnVoucher(j)'
      BY <1>2, <1>5, <2>4 DEF Tracks, OnVoucher
    <3>4. i.kind = "apply" => OnNewSettle(j)'
      BY <1>2, <1>5, <2>4 DEF Tracks, OnNewSettle, Pending
    <3>5. i.kind \in {"approve", "reject"} => OnSettle(j)'
      BY <1>2, <1>5, <2>4 DEF Tracks, OnSettle
    <3>6. i.kind \in TransferEnds \cup {"transfer"} => OnTransfer(j)'
      BY <1>2, <1>5, <2>4 DEF Tracks, OnTransfer
    <3> QED
      BY <1>2, <1>5, <1>6, <2>1, <2>4, <3>1, <3>2, <3>3, <3>4, <3>5, <3>6 DEF Tracks
  <2>7. k \in Orders => credits'[k] = IF order'[k] = "unpaid" \/ Paying(j, k) THEN 0 ELSE 1
    BY <1>2, <1>3, <1>4, <1>5, <2>4, NullAssumption DEF Paying
  <2>8. j # NoJob
    BY <2>4, NullAssumption
  <2>9. /\ k \in Orders => ShownOrder(j, order'[k]) = ShownOrder(i, order[k])
        /\ k \in Settles => ShownSettle(j, settle'[k]) = ShownSettle(i, settle[k])
        /\ k \in Transfers => ShownTransfer(j, transfer'[k]) = ShownTransfer(i, transfer[k])
        /\ k \in Vouchers => ShownVoucher(j, voucher'[k]) = ShownVoucher(i, voucher[k])
    BY <1>2, <1>5, <2>4, <2>8 DEF ShownOrder, ShownSettle, ShownTransfer, ShownVoucher, Moved
  <2> QED
    BY <1>1, <1>2, <1>4, <2>4, <2>5, <2>6, <2>7, <2>9, WorkStutters
<1>7. CASE ~Enough(i.change, balance[i.mch], frozen[i.mch], i.amount)
  <2>1. i.kind \notin {"reject", "unfreeze", "pay", "makeUp"}
    BY <1>4, <1>5, <1>7 DEF Tracks, ChangeOf, Enough, INCOME, EXPENSE, FREEZE, UNFREEZE, SETTLE
  <2>2. job' = [job EXCEPT ![t] = NoJob]
    BY <1>4, <1>7, <2>1 DEF ReadBalance, Refused, Finish
  <2>3. k \in Orders => credits'[k] = IF order'[k] = "unpaid" \/ Paying(NoJob, k) THEN 0 ELSE 1
    BY <1>2, <1>3, <1>4, <2>1 DEF Paying
  <2>4. /\ k \in Orders => ShownOrder(NoJob, order'[k]) = ShownOrder(i, order[k])
        /\ k \in Settles => ShownSettle(NoJob, settle'[k]) = ShownSettle(i, settle[k])
        /\ k \in Transfers => ShownTransfer(NoJob, transfer'[k]) = ShownTransfer(i, transfer[k])
        /\ k \in Vouchers => ShownVoucher(NoJob, voucher'[k]) = ShownVoucher(i, voucher[k])
    BY <1>2, <1>5, <2>1 DEF ShownOrder, ShownSettle, ShownTransfer, ShownVoucher, Moved
  <2> QED
    BY <1>1, <1>2, <1>4, <2>2, <2>3, <2>4, WorkStutters
<1> QED
  BY <1>6, <1>7

\* The log is written: the document is as it was, and an order paid is credited.
LEMMA LogStutters ==
  ASSUME LedgerInv, SerialInv, DocumentsInv, NEW t \in Threads, WriteLog(t)
  PROVE  DocumentsInv' /\ UNCHANGED Promise!accounts
<1>1. /\ job[t] # NoJob /\ job[t].pc = "log"
      /\ credits' = IF job[t].kind \in Payers THEN [credits EXCEPT ![job[t].ref] = @ + 1] ELSE credits
      /\ IF AfterChange(job[t].kind) = "end" THEN Finish(t) ELSE GoTo(t, AfterChange(job[t].kind))
      /\ UNCHANGED <<balance, frozen, order, settle, transfer, voucher>>
  BY DEF WriteLog, At
<1>2. /\ job[t] \in Job /\ Tracks(job[t])
      /\ job[t].ref \in Orders =>
           credits[job[t].ref] = IF order[job[t].ref] = "unpaid" \/ Paying(job[t], job[t].ref) THEN 0 ELSE 1
  BY <1>1, Working
<1>3. PICK i, k : i = job[t] /\ k = job[t].ref
  OBVIOUS
<1>4. i \in Job /\ i # NoJob /\ i.pc = "log" /\ i.ref = k /\ Tracks(i)
  BY <1>1, <1>2, <1>3
<1>5. CASE i.kind \in {"pay", "makeUp"}
  <2>1. job' = [job EXCEPT ![t] = NoJob]
    BY <1>1, <1>3, <1>5 DEF AfterChange, Payers, Finish
  <2>2. k \in Orders /\ order[k] = "paid"
    BY <1>4, <1>5 DEF Tracks, OnOrder
  <2>3. credits[k] = 0
    BY <1>2, <1>3, <1>4, <1>5, <2>2 DEF Paying
  <2>4. credits'[k] = 1 /\ \A o \in Orders \ {k} : credits'[o] = credits[o]
    <3>1. credits' = [credits EXCEPT ![k] = @ + 1] /\ credits \in [Orders -> Nat]
      BY <1>1, <1>3, <1>5 DEF Payers, LedgerInv, TypeOK
    <3> QED
      BY <2>2, <2>3, <3>1
  <2>5. credits'[k] = IF order'[k] = "unpaid" \/ Paying(NoJob, k) THEN 0 ELSE 1
    BY <1>1, <2>2, <2>4 DEF Paying
  <2>6. /\ k \in Orders => ShownOrder(NoJob, order'[k]) = ShownOrder(i, order[k])
        /\ k \in Settles => ShownSettle(NoJob, settle'[k]) = ShownSettle(i, settle[k])
        /\ k \in Transfers => ShownTransfer(NoJob, transfer'[k]) = ShownTransfer(i, transfer[k])
        /\ k \in Vouchers => ShownVoucher(NoJob, voucher'[k]) = ShownVoucher(i, voucher[k])
    BY <1>1, <1>4, <1>5 DEF ShownOrder, ShownSettle, ShownTransfer, ShownVoucher, Moved
  <2>7. UNCHANGED <<balance, frozen, order, settle, transfer, voucher>> /\ k = job[t].ref
    BY <1>1, <1>3
  <2>8. /\ k \in Orders => ShownOrder(NoJob, order'[k]) = ShownOrder(job[t], order[k])
        /\ k \in Settles => ShownSettle(NoJob, settle'[k]) = ShownSettle(job[t], settle[k])
        /\ k \in Transfers => ShownTransfer(NoJob, transfer'[k]) = ShownTransfer(job[t], transfer[k])
        /\ k \in Vouchers => ShownVoucher(NoJob, voucher'[k]) = ShownVoucher(job[t], voucher[k])
    BY <1>3, <2>6
  <2>9. job[t] # NoJob /\ \A o \in Orders \ {job[t].ref} : order'[o] = order[o] /\ credits'[o] = credits[o]
    BY <1>1, <2>4, <2>7
  <2> QED
    BY <2>1, <2>5, <2>7, <2>8, <2>9, WorkStutters
<1>6. CASE i.kind \notin {"pay", "makeUp"}
  <2>1. PICK pc : pc = IF i.kind \in {"apply", "transfer"} THEN "insert" ELSE "final"
    OBVIOUS
  <2>2. i.kind \notin Payers /\ AfterChange(i.kind) = pc
    BY <1>4, <1>6, <2>1 DEF Tracks, Careful, AfterChange, Payers
  <2>3. pc \in Steps /\ GoTo(t, pc) /\ credits' = credits
    BY <1>1, <1>3, <2>1, <2>2 DEF Steps
  <2>4. PICK j \in Job :
           /\ job' = [job EXCEPT ![t] = j] /\ j # NoJob /\ j.pc = pc
           /\ j.kind = i.kind /\ j.mch = i.mch /\ j.ref = k
           /\ j.amount = i.amount /\ j.change = i.change
    BY <1>1, <1>3, <2>3, MovesOn
  <2>5. Tracks(j)'
    <3>1. j.pc \in StepsOf(j.kind)
      BY <1>4, <1>6, <2>1, <2>4 DEF Tracks, StepsOf
    <3>2. i.kind \in {"pay", "makeUp", "freeze", "unfreeze"} => OnOrder(j)'
      BY <1>1, <1>4, <2>1, <2>4 DEF Tracks, OnOrder
    <3>3. i.kind = "redeem" => OnVoucher(j)'
      BY <1>1, <1>4, <2>4 DEF Tracks, OnVoucher
    <3>4. i.kind = "apply" => OnNewSettle(j)'
      BY <1>1, <1>4, <2>1, <2>4 DEF Tracks, OnNewSettle, Pending
    <3>5. i.kind \in {"approve", "reject"} => OnSettle(j)'
      BY <1>1, <1>4, <2>4 DEF Tracks, OnSettle
    <3>6. i.kind \in TransferEnds \cup {"transfer"} => OnTransfer(j)'
      BY <1>1, <1>4, <2>1, <2>4 DEF Tracks, OnTransfer
    <3>7. j.pc # "write"
      BY <2>1, <2>4
    <3> QED
      BY <1>4, <2>4, <3>1, <3>2, <3>3, <3>4, <3>5, <3>6, <3>7 DEF Tracks
  <2>6. k \in Orders => credits'[k] = IF order'[k] = "unpaid" \/ Paying(j, k) THEN 0 ELSE 1
    BY <1>1, <1>2, <1>3, <1>6, <2>3, <2>4 DEF Paying
  <2>7. /\ k \in Orders => ShownOrder(j, order'[k]) = ShownOrder(i, order[k])
        /\ k \in Settles => ShownSettle(j, settle'[k]) = ShownSettle(i, settle[k])
        /\ k \in Transfers => ShownTransfer(j, transfer'[k]) = ShownTransfer(i, transfer[k])
        /\ k \in Vouchers => ShownVoucher(j, voucher'[k]) = ShownVoucher(i, voucher[k])
    BY <1>1, <1>4, <1>6, <2>1, <2>4 DEF ShownOrder, ShownSettle, ShownTransfer, ShownVoucher, Moved
  <2> QED
    BY <1>1, <1>3, <2>3, <2>4, <2>5, <2>6, <2>7, WorkStutters
<1> QED
  BY <1>5, <1>6

\* The order is marked paid: it still stands for an unpaid one.
LEMMA MarkStutters ==
  ASSUME LedgerInv, SerialInv, DocumentsInv, NEW t \in Threads, PayMark(t)
  PROVE  DocumentsInv' /\ UNCHANGED Promise!accounts
<1>1. /\ job[t] # NoJob /\ job[t].pc = "mark"
      /\ order' = IF order[job[t].ref] = "unpaid" \/ job[t].kind # "pay"
                    THEN [order EXCEPT ![job[t].ref] = "paid"] ELSE order
      /\ GoTo(t, IF job[t].kind = "callback" THEN "add" ELSE "read")
      /\ UNCHANGED <<balance, frozen, credits, settle, transfer, voucher>>
  BY DEF PayMark, At
<1>2. /\ job[t] \in Job /\ Tracks(job[t])
      /\ job[t].ref \in Orders =>
           credits[job[t].ref] = IF order[job[t].ref] = "unpaid" \/ Paying(job[t], job[t].ref) THEN 0 ELSE 1
  BY <1>1, Working
<1>3. PICK i, k : i = job[t] /\ k = job[t].ref
  OBVIOUS
<1>4. i \in Job /\ i # NoJob /\ i.pc = "mark" /\ i.ref = k /\ Tracks(i)
  BY <1>1, <1>2, <1>3
<1>5. i.kind \in {"pay", "makeUp"} /\ k \in Orders /\ order[k] = "unpaid"
  <2>1. i.kind \in {"pay", "makeUp"}
    BY <1>4 DEF Tracks, StepsOf
  <2> QED
    BY <1>4, <2>1 DEF Tracks, OnOrder
<1>6. "read" \in Steps /\ GoTo(t, "read")
  BY <1>1, <1>3, <1>5 DEF Steps
<1>7. PICK j \in Job :
         /\ job' = [job EXCEPT ![t] = j] /\ j # NoJob /\ j.pc = "read"
         /\ j.kind = i.kind /\ j.mch = i.mch /\ j.ref = k
         /\ j.amount = i.amount /\ j.change = i.change
  BY <1>1, <1>3, <1>6, MovesOn
<1>8. order'[k] = "paid" /\ \A o \in Orders \ {k} : order'[o] = order[o]
  <2>1. order' = [order EXCEPT ![k] = "paid"] /\ order \in [Orders -> {"unpaid", "paid", "frozen"}]
    BY <1>1, <1>3, <1>5 DEF LedgerInv, TypeOK
  <2> QED
    BY <1>5, <2>1
<1>9. Tracks(j)'
  BY <1>4, <1>5, <1>7, <1>8 DEF Tracks, OnOrder, StepsOf, TransferEnds
<1>10. credits'[k] = IF order'[k] = "unpaid" \/ Paying(j, k) THEN 0 ELSE 1
  BY <1>1, <1>2, <1>3, <1>5, <1>7 DEF Paying
<1>11. /\ k \in Orders => ShownOrder(j, order'[k]) = ShownOrder(job[t], order[k])
       /\ k \in Settles => ShownSettle(j, settle'[k]) = ShownSettle(job[t], settle[k])
       /\ k \in Transfers => ShownTransfer(j, transfer'[k]) = ShownTransfer(job[t], transfer[k])
       /\ k \in Vouchers => ShownVoucher(j, voucher'[k]) = ShownVoucher(job[t], voucher[k])
  BY <1>1, <1>3, <1>4, <1>5, <1>7 DEF ShownOrder, ShownSettle, ShownTransfer, ShownVoucher, Moved
<1>12. /\ job[t] # NoJob /\ UNCHANGED <<balance, frozen, credits, settle, transfer, voucher>>
       /\ k = job[t].ref /\ j.mch = job[t].mch /\ j.ref = job[t].ref
       /\ \A o \in Orders \ {job[t].ref} : order'[o] = order[o] /\ credits'[o] = credits[o]
  BY <1>1, <1>3, <1>7, <1>8
<1> QED
  BY <1>7, <1>9, <1>10, <1>11, <1>12, WorkStutters

\* A handler writes its document, whose money has moved, and ends.
LEMMA FinalStutters ==
  ASSUME LedgerInv, SerialInv, DocumentsInv, NEW t \in Threads,
         \/ OrderFinal(t) \/ RedeemFinal(t) \/ ApplyInsert(t) \/ SettleFinal(t) \/ ChannelNone(t)
         \/ TransferFinal(t) /\ job[t].kind \in {"cancel", "notifyFail", "transferFail"}
  PROVE  DocumentsInv' /\ UNCHANGED Promise!accounts
<1>1. job[t] # NoJob /\ Finish(t) /\ UNCHANGED <<balance, frozen, logged, credits>>
  BY DEF OrderFinal, RedeemFinal, ApplyInsert, SettleFinal, ChannelNone, TransferFinal, At, tables
<1>2. /\ job[t] \in Job /\ Tracks(job[t])
      /\ job[t].ref \in Orders =>
           credits[job[t].ref] = IF order[job[t].ref] = "unpaid" \/ Paying(job[t], job[t].ref) THEN 0 ELSE 1
  BY <1>1, Working
<1>3. PICK i, k : i = job[t] /\ k = job[t].ref
  OBVIOUS
<1>4. i \in Job /\ i # NoJob /\ i.ref = k /\ Tracks(i)
  BY <1>1, <1>2, <1>3
<1>5. job' = [job EXCEPT ![t] = NoJob]
  BY <1>1 DEF Finish
<1>6. /\ order \in [Orders -> {"unpaid", "paid", "frozen"}]
      /\ settle = [s \in Settles |-> settle[s]] /\ transfer = [x \in Transfers |-> transfer[x]]
      /\ voucher = [v \in Vouchers |-> voucher[v]]
  BY DEF LedgerInv, TypeOK
<1> DEFINE Ends ==
        /\ \A o \in Orders \ {k} : order'[o] = order[o] /\ credits'[o] = credits[o]
        /\ \A s \in Settles \ {k} : settle'[s] = settle[s]
        /\ \A x \in Transfers \ {k} : transfer'[x] = transfer[x]
        /\ \A v \in Vouchers \ {k} : voucher'[v] = voucher[v]
        /\ k \in Settles /\ settle'[k] # settle[k] => settle'[k].mch = i.mch
        /\ k \in Orders => credits'[k] = IF order'[k] = "unpaid" \/ Paying(NoJob, k) THEN 0 ELSE 1
        /\ k \in Orders => ShownOrder(NoJob, order'[k]) = ShownOrder(i, order[k])
        /\ k \in Settles => ShownSettle(NoJob, settle'[k]) = ShownSettle(i, settle[k])
        /\ k \in Transfers => ShownTransfer(NoJob, transfer'[k]) = ShownTransfer(i, transfer[k])
        /\ k \in Vouchers => ShownVoucher(NoJob, voucher'[k]) = ShownVoucher(i, voucher[k])
<1>7. Ends => DocumentsInv' /\ UNCHANGED Promise!accounts
  <2> SUFFICES ASSUME Ends PROVE DocumentsInv' /\ UNCHANGED Promise!accounts
    OBVIOUS
  <2>1. /\ job[t] # NoJob /\ UNCHANGED <<balance, frozen>>
        /\ k = job[t].ref /\ i = job[t]
    BY <1>1, <1>3
  <2>2. /\ \A o \in Orders \ {job[t].ref} : order'[o] = order[o] /\ credits'[o] = credits[o]
        /\ \A s \in Settles \ {job[t].ref} : settle'[s] = settle[s]
        /\ \A x \in Transfers \ {job[t].ref} : transfer'[x] = transfer[x]
        /\ \A v \in Vouchers \ {job[t].ref} : voucher'[v] = voucher[v]
        /\ job[t].ref \in Settles /\ settle'[job[t].ref] # settle[job[t].ref] => settle'[job[t].ref].mch = job[t].mch
    BY <2>1
  <2>3. k \in Orders => credits'[k] = IF order'[k] = "unpaid" \/ Paying(NoJob, k) THEN 0 ELSE 1
    OBVIOUS
  <2>4. /\ k \in Orders => ShownOrder(NoJob, order'[k]) = ShownOrder(job[t], order[k])
        /\ k \in Settles => ShownSettle(NoJob, settle'[k]) = ShownSettle(job[t], settle[k])
        /\ k \in Transfers => ShownTransfer(NoJob, transfer'[k]) = ShownTransfer(job[t], transfer[k])
        /\ k \in Vouchers => ShownVoucher(NoJob, voucher'[k]) = ShownVoucher(job[t], voucher[k])
    BY <2>1
  <2> HIDE DEF Ends
  <2> QED
    BY <1>5, <2>1, <2>2, <2>3, <2>4, WorkStutters
<1>8. k \in Orders => credits[k] = IF order[k] = "unpaid" \/ Paying(i, k) THEN 0 ELSE 1
  BY <1>2, <1>3
<1>9. ASSUME OrderFinal(t) PROVE Ends
  <2>1. /\ i.kind \in {"freeze", "unfreeze"} /\ i.pc = "final"
        /\ order' = [order EXCEPT ![k] = IF i.kind = "freeze" THEN "frozen" ELSE "paid"]
        /\ UNCHANGED <<settle, transfer, voucher, credits>>
    BY <1>3, <1>9 DEF OrderFinal, At
  <2>2. k \in Orders /\ order[k] \in {"paid", "frozen"}
    BY <1>4, <2>1 DEF Tracks, OnOrder
  <2>3. credits'[k] = 1
    BY <1>8, <2>1, <2>2 DEF Paying
  <2>4. order'[k] = (IF i.kind = "freeze" THEN "frozen" ELSE "paid") /\ \A o \in Orders \ {k} : order'[o] = order[o]
    BY <1>6, <2>1, <2>2
  <2> QED
    BY <1>4, <2>1, <2>3, <2>4 DEF ShownOrder, ShownSettle, ShownTransfer, ShownVoucher, Moved, Paying
<1>10. ASSUME RedeemFinal(t) PROVE Ends
  <2>1. /\ i.kind = "redeem" /\ i.pc = "final" /\ voucher' = [voucher EXCEPT ![k] = i.mch]
        /\ UNCHANGED <<order, settle, transfer, credits>>
    BY <1>3, <1>10 DEF RedeemFinal, At
  <2>2. k \in Vouchers
    BY <1>4, <2>1 DEF Tracks, OnVoucher
  <2>3. voucher'[k] = i.mch /\ \A v \in Vouchers \ {k} : voucher'[v] = voucher[v]
    BY <1>6, <2>1, <2>2
  <2> QED
    BY <1>4, <1>8, <2>1, <2>3 DEF ShownOrder, ShownSettle, ShownTransfer, ShownVoucher, Moved, Paying
<1>11. ASSUME ApplyInsert(t) PROVE Ends
  <2>1. /\ i.kind = "apply" /\ i.pc = "insert"
        /\ settle' = [settle EXCEPT ![k] = Document(i.mch, i.amount, "pending")]
        /\ UNCHANGED <<order, transfer, voucher, credits>>
    BY <1>3, <1>11 DEF ApplyInsert, At
  <2>2. k \in Settles
    BY <1>4, <2>1 DEF Tracks, OnNewSettle
  <2>3. settle'[k] = Document(i.mch, i.amount, "pending") /\ \A s \in Settles \ {k} : settle'[s] = settle[s]
    BY <1>6, <2>1, <2>2
  <2>4. settle'[k].mch = i.mch
    BY <2>3 DEF Document
  <2> QED
    BY <1>4, <1>8, <2>1, <2>3, <2>4 DEF ShownOrder, ShownSettle, ShownTransfer, ShownVoucher, Moved, Paying
<1>12. ASSUME SettleFinal(t) PROVE Ends
  <2>1. /\ i.kind \in {"approve", "reject"} /\ i.pc = "final"
        /\ settle' = [settle EXCEPT ![k].state = IF i.kind = "approve" THEN "paid" ELSE "rejected"]
        /\ UNCHANGED <<order, transfer, voucher, credits>>
    BY <1>3, <1>12 DEF SettleFinal, At
  <2>2. k \in Settles /\ settle[k] = Document(i.mch, i.amount, "pending")
    BY <1>4, <2>1 DEF Tracks, OnSettle
  <2>3. /\ settle'[k] = [settle[k] EXCEPT !.state = IF i.kind = "approve" THEN "paid" ELSE "rejected"]
        /\ \A s \in Settles \ {k} : settle'[s] = settle[s]
    BY <1>6, <2>1, <2>2
  <2>4. settle'[k].mch = i.mch
    BY <2>2, <2>3 DEF Document
  <2> QED
    BY <1>4, <1>8, <2>1, <2>3, <2>4 DEF ShownOrder, ShownSettle, ShownTransfer, ShownVoucher, Moved, Paying
<1>13. ASSUME ChannelNone(t) PROVE Ends
  <2>1. i.pc = "channel" /\ UNCHANGED <<order, settle, transfer, voucher, credits>>
    BY <1>3, <1>13 DEF ChannelNone, At, tables
  <2>2. i.kind = "transfer"
    BY <1>4, <2>1 DEF Tracks, StepsOf
  <2> QED
    BY <1>4, <1>8, <2>1, <2>2 DEF ShownOrder, ShownSettle, ShownTransfer, ShownVoucher, Moved, Paying
<1>14. ASSUME TransferFinal(t), job[t].kind \in {"cancel", "notifyFail", "transferFail"} PROVE Ends
  <2>1. /\ i.kind \in {"cancel", "notifyFail", "transferFail"} /\ i.pc = "final"
        /\ transfer' = [transfer EXCEPT ![k].state = "failed"]
        /\ UNCHANGED <<order, settle, voucher, credits>>
    BY <1>3, <1>14 DEF TransferFinal, At
  <2>2. k \in Transfers
    BY <1>4, <2>1 DEF Tracks, OnTransfer, TransferEnds
  <2>3. /\ transfer'[k] = [transfer[k] EXCEPT !.state = "failed"]
        /\ \A x \in Transfers \ {k} : transfer'[x] = transfer[x]
    BY <1>6, <2>1, <2>2
  <2> QED
    BY <1>4, <1>8, <2>1, <2>3 DEF ShownOrder, ShownSettle, ShownTransfer, ShownVoucher, Moved, Paying
<1> HIDE DEF Ends
<1> QED
  BY <1>7, <1>9, <1>10, <1>11, <1>12, <1>13, <1>14

\* No settlement of the merchant is open, or the request ends.
LEMMA PendingStutters ==
  ASSUME LedgerInv, SerialInv, DocumentsInv, NEW t \in Threads, ApplyPending(t)
  PROVE  DocumentsInv' /\ UNCHANGED Promise!accounts
<1>1. /\ job[t] # NoJob /\ job[t].pc = "pending"
      /\ UNCHANGED <<balance, frozen, logged, credits, order, settle, transfer, voucher>>
  BY DEF ApplyPending, At, tables
<1>2. /\ job[t] \in Job /\ Tracks(job[t])
      /\ job[t].ref \in Orders =>
           credits[job[t].ref] = IF order[job[t].ref] = "unpaid" \/ Paying(job[t], job[t].ref) THEN 0 ELSE 1
  BY <1>1, Working
<1>3. PICK i, k : i = job[t] /\ k = job[t].ref
  OBVIOUS
<1>4. i \in Job /\ i # NoJob /\ i.pc = "pending" /\ i.ref = k /\ Tracks(i)
  BY <1>1, <1>2, <1>3
<1>5. i.kind = "apply" /\ OnNewSettle(i)
  <2>1. i.kind = "apply"
    BY <1>4 DEF Tracks, StepsOf
  <2> QED
    BY <1>4, <2>1 DEF Tracks
<1>6. PICK j \in Job \cup {NoJob} :
        /\ job' = [job EXCEPT ![t] = j]
        /\ j # NoJob => /\ j.pc = "read" /\ j.kind = "apply" /\ j.mch = i.mch /\ j.ref = k
                        /\ j.amount = i.amount /\ j.change = i.change
                        /\ \A s \in Settles : Pending(settle, s) => settle[s].mch # i.mch
  <2>1. CASE \E s \in Settles : Pending(settle, s) /\ settle[s].mch = job[t].mch
    BY <2>1 DEF ApplyPending, Finish
  <2>2. CASE ~\E s \in Settles : Pending(settle, s) /\ settle[s].mch = job[t].mch
    <3>1. GoTo(t, "read") /\ "read" \in Steps
      BY <2>2 DEF ApplyPending, Steps
    <3>2. PICK j \in Job : /\ job' = [job EXCEPT ![t] = j] /\ j # NoJob /\ j.pc = "read"
                           /\ j.kind = job[t].kind /\ j.mch = job[t].mch /\ j.ref = job[t].ref
                           /\ j.amount = job[t].amount /\ j.change = job[t].change
      BY <1>1, <3>1, MovesOn
    <3> QED
      BY <1>3, <1>5, <2>2, <3>2
  <2> QED
    BY <2>1, <2>2
<1>7. j # NoJob => Tracks(j)'
  <2> SUFFICES ASSUME j # NoJob PROVE Tracks(j)'
    OBVIOUS
  <2>1. OnNewSettle(j)'
    BY <1>1, <1>4, <1>5, <1>6 DEF OnNewSettle, Pending
  <2> QED
    BY <1>4, <1>5, <1>6, <2>1 DEF Tracks, StepsOf, TransferEnds
<1>8. k \in Orders => credits'[k] = IF order'[k] = "unpaid" \/ Paying(j, k) THEN 0 ELSE 1
  BY <1>1, <1>2, <1>3, <1>5, <1>6 DEF Paying
<1>9. /\ k \in Orders => ShownOrder(j, order'[k]) = ShownOrder(job[t], order[k])
      /\ k \in Settles => ShownSettle(j, settle'[k]) = ShownSettle(job[t], settle[k])
      /\ k \in Transfers => ShownTransfer(j, transfer'[k]) = ShownTransfer(job[t], transfer[k])
      /\ k \in Vouchers => ShownVoucher(j, voucher'[k]) = ShownVoucher(job[t], voucher[k])
  BY <1>1, <1>3, <1>4, <1>5, <1>6 DEF ShownOrder, ShownSettle, ShownTransfer, ShownVoucher, Moved
<1>10. k = job[t].ref /\ (j # NoJob => j.mch = job[t].mch /\ j.ref = job[t].ref)
  BY <1>3, <1>6
<1> QED
  BY <1>1, <1>6, <1>7, <1>8, <1>9, <1>10, WorkStutters

\* The transfer's row is inserted, or its channel has refused it: the money goes back.
LEMMA TransferStutters ==
  ASSUME LedgerInv, SerialInv, DocumentsInv, NEW t \in Threads, TransferInsert(t) \/ ChannelFails(t)
  PROVE  DocumentsInv' /\ UNCHANGED Promise!accounts
<1>1. job[t] # NoJob /\ UNCHANGED <<balance, frozen, logged, credits, order, settle, voucher>>
  BY DEF TransferInsert, ChannelFails, At, tables
<1>2. /\ job[t] \in Job /\ Tracks(job[t])
      /\ job[t].ref \in Orders =>
           credits[job[t].ref] = IF order[job[t].ref] = "unpaid" \/ Paying(job[t], job[t].ref) THEN 0 ELSE 1
  BY <1>1, Working
<1>3. PICK i, k : i = job[t] /\ k = job[t].ref
  OBVIOUS
<1>4. i \in Job /\ i # NoJob /\ i.ref = k /\ Tracks(i)
  BY <1>1, <1>2, <1>3
<1>5. i.kind = "transfer" /\ OnTransfer(i) /\ k \in Transfers /\ i.change = EXPENSE
  <2>1. i.pc = "channel" \/ i.kind = "transfer"
    BY <1>3 DEF TransferInsert, ChannelFails, At
  <2>2. i.kind = "transfer"
    BY <1>4, <2>1 DEF Tracks, StepsOf
  <2> QED
    BY <1>4, <2>2 DEF Tracks, OnTransfer, ChangeOf
<1>6. transfer \in [Transfers -> Documents \cup {NoRow}]
  BY DEF LedgerInv, TypeOK
<1>7. CASE TransferInsert(t)
  <2>1. /\ i.pc = "insert" /\ GoTo(t, "channel") /\ "channel" \in Steps
        /\ transfer' = [transfer EXCEPT ![k] = Document(i.mch, i.amount, "pending")]
    BY <1>3, <1>7 DEF TransferInsert, At, Steps
  <2>2. /\ transfer'[k] = Document(i.mch, i.amount, "pending")
        /\ \A x \in Transfers \ {k} : transfer'[x] = transfer[x]
    BY <1>5, <1>6, <2>1
  <2>3. PICK j \in Job : /\ job' = [job EXCEPT ![t] = j] /\ j # NoJob /\ j.pc = "channel"
                         /\ j.kind = "transfer" /\ j.mch = i.mch /\ j.ref = k
                         /\ j.amount = i.amount /\ j.change = i.change
    BY <1>1, <1>3, <1>5, <2>1, MovesOn
  <2>4. Tracks(j)'
    <3>1. OnTransfer(j)'
      BY <1>5, <2>2, <2>3 DEF OnTransfer
    <3> QED
      BY <1>4, <1>5, <2>3, <3>1 DEF Tracks, StepsOf
  <2>5. k \in Orders => credits'[k] = IF order'[k] = "unpaid" \/ Paying(j, k) THEN 0 ELSE 1
    BY <1>1, <1>2, <1>3, <1>5, <2>3 DEF Paying
  <2>6. /\ k \in Orders => ShownOrder(j, order'[k]) = ShownOrder(i, order[k])
        /\ k \in Settles => ShownSettle(j, settle'[k]) = ShownSettle(i, settle[k])
        /\ k \in Transfers => ShownTransfer(j, transfer'[k]) = ShownTransfer(i, transfer[k])
        /\ k \in Vouchers => ShownVoucher(j, voucher'[k]) = ShownVoucher(i, voucher[k])
    BY <1>1, <1>4, <1>5, <2>1, <2>2, <2>3 DEF ShownOrder, ShownSettle, ShownTransfer, ShownVoucher, Moved
  <2>7. /\ k \in Orders => ShownOrder(j, order'[k]) = ShownOrder(job[t], order[k])
        /\ k \in Settles => ShownSettle(j, settle'[k]) = ShownSettle(job[t], settle[k])
        /\ k \in Transfers => ShownTransfer(j, transfer'[k]) = ShownTransfer(job[t], transfer[k])
        /\ k \in Vouchers => ShownVoucher(j, voucher'[k]) = ShownVoucher(job[t], voucher[k])
    BY <1>3, <2>6
  <2>8. /\ k = job[t].ref /\ j.mch = job[t].mch /\ j.ref = job[t].ref
        /\ \A x \in Transfers \ {job[t].ref} : transfer'[x] = transfer[x]
    BY <1>3, <2>2, <2>3
  <2> QED
    BY <1>1, <2>3, <2>4, <2>5, <2>7, <2>8, WorkStutters
<1>8. CASE ChannelFails(t)
  <2>1. i.pc = "channel" /\ transfer' = transfer
    BY <1>3, <1>8 DEF ChannelFails, At, tables
  <2>2. PICK j : j = [i EXCEPT !.kind = "transferFail", !.change = INCOME, !.pc = "read"]
    OBVIOUS
  <2>3. /\ j \in Job /\ j.pc = "read" /\ j.kind = "transferFail" /\ j.mch = i.mch /\ j.ref = k
        /\ j.amount = i.amount /\ j.change = INCOME
    <3>1. "transferFail" \in Kinds /\ INCOME \in 1..6 /\ "read" \in Steps
      BY DEF Kinds, INCOME, Steps
    <3> QED
      BY <1>4, <2>2, <3>1 DEF Job
  <2>4. job' = [job EXCEPT ![t] = j]
    BY <1>3, <1>8, <2>2 DEF ChannelFails
  <2>5. Tracks(j)'
    <3>1. OnTransfer(j)'
      BY <1>4, <1>5, <2>1, <2>3 DEF OnTransfer
    <3> QED
      BY <2>3, <3>1 DEF Tracks, StepsOf, ChangeOf
  <2>6. k \in Orders => credits'[k] = IF order'[k] = "unpaid" \/ Paying(j, k) THEN 0 ELSE 1
    BY <1>1, <1>2, <1>3, <1>5, <2>3 DEF Paying
  <2>7. /\ k \in Orders => ShownOrder(j, order'[k]) = ShownOrder(i, order[k])
        /\ k \in Settles => ShownSettle(j, settle'[k]) = ShownSettle(i, settle[k])
        /\ k \in Transfers => ShownTransfer(j, transfer'[k]) = ShownTransfer(i, transfer[k])
        /\ k \in Vouchers => ShownVoucher(j, voucher'[k]) = ShownVoucher(i, voucher[k])
    BY <1>1, <1>4, <1>5, <2>1, <2>3 DEF ShownOrder, ShownSettle, ShownTransfer, ShownVoucher, Moved
  <2>8. /\ k \in Orders => ShownOrder(j, order'[k]) = ShownOrder(job[t], order[k])
        /\ k \in Settles => ShownSettle(j, settle'[k]) = ShownSettle(job[t], settle[k])
        /\ k \in Transfers => ShownTransfer(j, transfer'[k]) = ShownTransfer(job[t], transfer[k])
        /\ k \in Vouchers => ShownVoucher(j, voucher'[k]) = ShownVoucher(job[t], voucher[k])
    BY <1>3, <2>7
  <2>9. k = job[t].ref /\ j.mch = job[t].mch /\ j.ref = job[t].ref
    BY <1>3, <2>3
  <2> QED
    BY <1>1, <2>1, <2>3, <2>4, <2>5, <2>6, <2>8, <2>9, WorkStutters
<1> QED
  BY <1>7, <1>8

\* A transfer is accepted by its channel or confirmed: in progress it stays pending,
\* done it ends.
LEMMA TransferDone ==
  ASSUME LedgerInv, SerialInv, DocumentsInv, NEW t \in Threads,
         ChannelAccepts(t) \/ (TransferFinal(t) /\ job[t].kind \in {"confirm", "notifyOk"})
  PROVE  DocumentsInv' /\ [Promise!Next]_(Promise!accounts)
<1>1. /\ job[t] # NoJob /\ job' = [job EXCEPT ![t] = NoJob]
      /\ UNCHANGED <<balance, frozen, logged, credits, order, settle, voucher>>
  BY DEF ChannelAccepts, TransferFinal, At, Finish
<1>2. /\ job[t] \in Job /\ Tracks(job[t])
      /\ job[t].ref \in Orders =>
           credits[job[t].ref] = IF order[job[t].ref] = "unpaid" \/ Paying(job[t], job[t].ref) THEN 0 ELSE 1
  BY <1>1, Working
<1>3. PICK i, k, m : i = job[t] /\ k = job[t].ref /\ m = job[t].mch
  OBVIOUS
<1>4. i \in Job /\ i # NoJob /\ i.ref = k /\ i.mch = m /\ Tracks(i)
  BY <1>1, <1>2, <1>3
<1>5. PICK st \in {"pending", "done"} : transfer' = [transfer EXCEPT ![k].state = st]
  BY <1>3 DEF ChannelAccepts, TransferFinal
<1>6. (i.kind = "transfer" /\ i.pc = "channel") \/ (i.kind \in {"confirm", "notifyOk"} /\ i.pc = "final")
  <2>1. i.pc = "channel" \/ (i.kind \in {"confirm", "notifyOk"} /\ i.pc = "final")
    BY <1>3 DEF ChannelAccepts, TransferFinal, At
  <2> QED
    BY <1>4, <2>1 DEF Tracks, StepsOf
<1>7. k \in Transfers /\ transfer[k] = Document(m, i.amount, "pending")
  BY <1>4, <1>6 DEF Tracks, OnTransfer, TransferEnds
<1>8. /\ transfer'[k] = [transfer[k] EXCEPT !.state = st]
      /\ \A x \in Transfers \ {k} : transfer'[x] = transfer[x]
  <2>1. transfer \in [Transfers -> Documents \cup {NoRow}]
    BY DEF LedgerInv, TypeOK
  <2> QED
    BY <1>5, <1>7, <2>1
<1>9. transfer'[k] = Document(m, i.amount, st)
  BY <1>7, <1>8 DEF Document
<1>10. PICK j : j = NoJob
  OBVIOUS
<1>11. Statement(t, m, k, j)
  <2>1. /\ job[t].mch = m /\ job[t].ref = k /\ j \in Job \cup {NoJob} /\ j = NoJob
        /\ UNCHANGED <<balance, frozen, credits, order, settle, voucher>>
        /\ \A x \in Transfers \ {job[t].ref} : transfer'[x] = transfer[x]
    BY <1>1, <1>3, <1>8, <1>10
  <2>2. job' = [job EXCEPT ![t] = j]
    BY <1>1, <1>10
  <2>3. Statement(t, job[t].mch, job[t].ref, j)
    BY <1>1, <2>1, <2>2, Works
  <2> QED
    BY <2>1, <2>3
<1>12. k \in Orders => credits'[k] = IF order'[k] = "unpaid" \/ Paying(j, k) THEN 0 ELSE 1
  BY <1>1, <1>2, <1>3, <1>6, <1>10 DEF Paying
<1>13. DocumentsInv'
  BY <1>10, <1>11, <1>12, DocumentsKept
<1>14. /\ k \in Orders => ShownOrder(j, order'[k]) = ShownOrder(i, order[k])
       /\ k \in Settles => ShownSettle(j, settle'[k]) = ShownSettle(i, settle[k])
       /\ k \in Vouchers => ShownVoucher(j, voucher'[k]) = ShownVoucher(i, voucher[k])
       /\ ShownTransfer(i, transfer[k]) = transfer[k]
       /\ ShownTransfer(j, transfer'[k]) = transfer'[k]
  BY <1>1, <1>4, <1>6, <1>10 DEF ShownOrder, ShownSettle, ShownTransfer, ShownVoucher, Moved
<1>15. /\ k \in Orders => ShownOrder(j, order'[k]) = ShownOrder(job[t], order[k])
       /\ k \in Settles => ShownSettle(j, settle'[k]) = ShownSettle(job[t], settle[k])
       /\ k \in Vouchers => ShownVoucher(j, voucher'[k]) = ShownVoucher(job[t], voucher[k])
  BY <1>3, <1>14
<1>16. UNCHANGED <<orderShown, settleShown, voucherShown>>
  BY <1>10, <1>11, <1>15, ShownStays DEF DocumentsInv
<1>17. transferShown' = [transferShown EXCEPT ![k] = Document(m, i.amount, st)]
       /\ transferShown[k] = Document(m, i.amount, "pending")
  <2>1. /\ transferShown' = [transferShown EXCEPT ![k] = ShownTransfer(j, transfer'[k])]
        /\ transferShown[k] = ShownTransfer(job[t], transfer[k])
    BY <1>7, <1>10, <1>11, StatementShown DEF DocumentsInv
  <2> QED
    BY <1>3, <1>7, <1>9, <1>14, <2>1
<1>18. CASE st = "pending"
  <2>1. transferShown' = transferShown
    BY <1>17, <1>18, ShownFunctions, ExceptSame
  <2> QED
    BY <1>1, <1>13, <1>16, <2>1 DEF Promise!accounts
<1>19. CASE st = "done"
  <2>1. m \in Merchants /\ i.amount \in Nat
    BY <1>4 DEF Job
  <2>2. transferShown[k] # NoRow
    BY <1>17, <2>1, NullAssumption DEF Documents, Document
  <2>3. transferShown[k].state = "pending" /\ transferShown[k].mch = m
    BY <1>17 DEF Document
  <2>4. transferShown' = [transferShown EXCEPT ![k].state = "done"]
    <3>1. [transferShown[k] EXCEPT !.state = "done"] = Document(m, i.amount, "done")
      BY <1>17 DEF Document
    <3> QED
      BY <1>17, <1>19, <3>1
  <2>5. Promise!Move(m, 0, 0)
    <3>1. balance[m] \in Nat /\ frozen[m] \in Nat /\ balance \in [Merchants -> Int] /\ frozen \in [Merchants -> Int]
      BY <2>1 DEF LedgerInv, TypeOK, NotOverdrawn
    <3>2. balance[m] + 0 = balance[m] /\ frozen[m] + 0 = frozen[m]
      BY <3>1
    <3>3. balance = [balance EXCEPT ![m] = @ + 0] /\ frozen = [frozen EXCEPT ![m] = @ + 0]
      BY <2>1, <3>1, <3>2
    <3> QED
      BY <1>1, <3>1, <3>3 DEF Promise!Move
  <2>6. Promise!EndTransfer(k, "done", 0)
    BY <1>16, <2>2, <2>3, <2>4, <2>5 DEF Promise!EndTransfer, Promise!Pending
  <2> QED
    BY <1>7, <1>13, <2>6 DEF Promise!Next
<1> QED
  BY <1>18, <1>19

\* A document has one job at work on it, or none.
LEMMA SomeoneAtWork ==
  ASSUME LedgerInv, OneHandlerPerDocument, NEW k
  PROVE  \E j \in Job \cup {NoJob} :
           AtWork(k, j) /\ (j # NoJob => \E u \in Threads : job[u] = j)
<1>1. CASE \A u \in Threads : job[u] # NoJob => job[u].ref # k
  BY <1>1 DEF AtWork
<1>2. ASSUME NEW u \in Threads, job[u] # NoJob, job[u].ref = k
      PROVE  job[u] \in Job /\ AtWork(k, job[u])
  BY <1>2 DEF AtWork, OneHandlerPerDocument, LedgerInv, TypeOK
<1> QED
  BY <1>1, <1>2

\* A merchant that asks for a settlement has no other one open, shown or not.
LEMMA NoneOpen ==
  ASSUME LedgerInv, SerialInv, DocumentsInv, NEW t \in Threads, job[t] # NoJob,
         job[t].kind = "apply", job[t].pc = "write", NEW r \in Settles,
         settleShown[r] # NoRow, settleShown[r].state = "pending"
  PROVE  settleShown[r].mch # job[t].mch
<1>1. PICK i : i = job[t]
  OBVIOUS
<1>2. i \in Job /\ Tracks(i) /\ i.kind = "apply" /\ i.pc = "write"
  BY <1>1, Working
<1>3. OnNewSettle(i)
  BY <1>2 DEF Tracks
<1>4. PICK j \in Job \cup {NoJob} : AtWork(r, j) /\ (j # NoJob => \E u \in Threads : job[u] = j)
  BY SomeoneAtWork DEF DocumentsInv
<1>5. settleShown[r] = ShownSettle(j, settle[r])
  BY <1>4, ShowsTables DEF Shows
<1>6. CASE settleShown[r] = settle[r]
  BY <1>1, <1>2, <1>3, <1>6 DEF OnNewSettle, Pending
<1>7. CASE settleShown[r] # settle[r]
  <2>1. j # NoJob /\ j.kind \in {"approve", "reject", "apply"} /\ j.pc \in {"log", "final", "insert"}
    BY <1>5, <1>7 DEF ShownSettle, Moved
  <2>2. PICK u \in Threads : job[u] = j
    BY <1>4, <2>1
  <2>3. Tracks(j) /\ j.mch # i.mch
    <3>1. u # t
      BY <1>1, <1>2, <2>1, <2>2
    <3>2. Tracks(j)
      BY <2>1, <2>2 DEF DocumentsInv, JobsTrack
    <3> QED
      BY <1>1, <2>1, <2>2, <3>1, <3>2 DEF SerialInv, OneHandlerEach
  <2>4. CASE j.kind = "apply"
    <3>1. settleShown[r] = Document(j.mch, j.amount, "pending")
      BY <1>5, <1>7, <2>1, <2>4 DEF ShownSettle
    <3> QED
      BY <1>1, <2>3, <3>1 DEF Document
  <2>5. CASE j.kind \in {"approve", "reject"}
    <3>1. j.ref = r
      BY <1>4, <2>1 DEF AtWork
    <3>2. settle[r] = Document(j.mch, j.amount, "pending")
      BY <2>3, <2>5, <3>1 DEF Tracks, OnSettle
    <3>3. settleShown[r].state \in {"paid", "rejected"}
      BY <1>5, <1>7, <2>1, <2>5, <3>2 DEF ShownSettle, Document
    <3> QED
      BY <3>3
  <2> QED
    BY <2>1, <2>4, <2>5
<1> QED
  BY <1>6, <1>7

\* The money a handler has checked and computed moves as it should.
LEMMA WriteMoves ==
  ASSUME LedgerInv, NEW t \in Threads, WriteBalance(t), NEW i \in Job, i = job[t], Tracks(i)
  PROVE  Promise!Move(i.mch,
           IF i.change \in {INCOME, UNFREEZE} THEN i.amount
           ELSE IF i.change \in {EXPENSE, FREEZE} THEN -i.amount ELSE 0,
           IF i.change = FREEZE THEN i.amount
           ELSE IF i.change \in {UNFREEZE, SETTLE} THEN -i.amount ELSE 0)
<1>1. /\ i.pc = "write"
      /\ balance' = [balance EXCEPT ![i.mch] = i.newBalance]
      /\ frozen' = [frozen EXCEPT ![i.mch] = i.newFrozen]
  BY DEF WriteBalance, At
<1>2. PICK b, f, a, c, m : b = balance[i.mch] /\ f = frozen[i.mch] /\ a = i.amount /\ c = i.change /\ m = i.mch
  OBVIOUS
<1>3. b \in Nat /\ f \in Nat /\ a \in Nat /\ m \in Merchants /\ c \in {INCOME, UNFREEZE, EXPENSE, FREEZE, SETTLE}
  BY <1>2 DEF LedgerInv, TypeOK, NotOverdrawn, Job, Tracks, ChangeOf
<1>4. Enough(c, b, f, a) /\ i.newBalance = BalanceAfter(c, b, a) /\ i.newFrozen = FrozenAfter(c, f, a)
  BY <1>1, <1>2 DEF Tracks
<1>5. PICK x, y : /\ x = IF c \in {INCOME, UNFREEZE} THEN a ELSE IF c \in {EXPENSE, FREEZE} THEN -a ELSE 0
                  /\ y = IF c = FREEZE THEN a ELSE IF c \in {UNFREEZE, SETTLE} THEN -a ELSE 0
  OBVIOUS
<1>6. b + x >= 0 /\ f + y >= 0 /\ i.newBalance = b + x /\ i.newFrozen = f + y
  BY <1>3, <1>4, <1>5 DEF Enough, BalanceAfter, FrozenAfter, INCOME, EXPENSE, FREEZE, UNFREEZE, SETTLE, REFUND
<1>7. Promise!Move(m, x, y)
  BY <1>1, <1>2, <1>6 DEF Promise!Move
<1> QED
  BY <1>2, <1>5, <1>7

\* The balance is written: the document changes with its money.
LEMMA WriteChanges ==
  ASSUME LedgerInv, SerialInv, DocumentsInv, NEW t \in Threads, WriteBalance(t)
  PROVE  DocumentsInv' /\ Promise!Next
<1>1. /\ job[t] # NoJob /\ job[t].pc = "write" /\ GoTo(t, "log") /\ "log" \in Steps
      /\ balance' = [balance EXCEPT ![job[t].mch] = job[t].newBalance]
      /\ frozen' = [frozen EXCEPT ![job[t].mch] = job[t].newFrozen]
      /\ UNCHANGED <<logged, credits, order, settle, transfer, voucher>>
  BY DEF WriteBalance, At, Steps
<1>2. /\ job[t] \in Job /\ Tracks(job[t])
      /\ job[t].ref \in Orders =>
           credits[job[t].ref] = IF order[job[t].ref] = "unpaid" \/ Paying(job[t], job[t].ref) THEN 0 ELSE 1
  BY <1>1, Working
<1>3. PICK i, k, m, a : i = job[t] /\ k = job[t].ref /\ m = job[t].mch /\ a = job[t].amount
  OBVIOUS
<1>4. i \in Job /\ i # NoJob /\ i.pc = "write" /\ i.ref = k /\ i.mch = m /\ i.amount = a /\ Tracks(i)
  BY <1>1, <1>2, <1>3
<1>5. PICK j \in Job :
        /\ job' = [job EXCEPT ![t] = j] /\ j # NoJob /\ j.pc = "log" /\ j.kind = i.kind /\ j.mch = m
        /\ j.ref = k /\ j.amount = a /\ j.change = i.change
  BY <1>1, <1>3, MovesOn
<1>6. Statement(t, m, k, j)
  <2>1. \A n \in Merchants \ {m} : balance'[n] = balance[n] /\ frozen'[n] = frozen[n]
    BY <1>1, <1>3 DEF LedgerInv, TypeOK
  <2>2. j.mch = job[t].mch /\ j.ref = job[t].ref
    BY <1>3, <1>5
  <2>3. \A n \in Merchants \ {job[t].mch} : balance'[n] = balance[n] /\ frozen'[n] = frozen[n]
    BY <1>3, <2>1
  <2>4. job[t] # NoJob /\ UNCHANGED <<credits, order, settle, transfer, voucher>>
    BY <1>1
  <2>5. Statement(t, job[t].mch, job[t].ref, j)
    BY <1>5, <2>2, <2>3, <2>4, Works
  <2> QED
    BY <1>3, <2>5
<1>7. Tracks(j)'
  <2>1. j.pc \in StepsOf(j.kind)
    BY <1>4, <1>5 DEF Tracks, StepsOf
  <2>2. i.kind \in {"pay", "makeUp", "freeze", "unfreeze"} => OnOrder(j)'
    BY <1>1, <1>4, <1>5 DEF Tracks, OnOrder
  <2>3. i.kind = "redeem" => OnVoucher(j)'
    BY <1>1, <1>4, <1>5 DEF Tracks, OnVoucher
  <2>4. i.kind = "apply" => OnNewSettle(j)'
    BY <1>1, <1>4, <1>5 DEF Tracks, OnNewSettle, Pending
  <2>5. i.kind \in {"approve", "reject"} => OnSettle(j)'
    BY <1>1, <1>4, <1>5 DEF Tracks, OnSettle
  <2>6. i.kind \in TransferEnds \cup {"transfer"} => OnTransfer(j)'
    BY <1>1, <1>4, <1>5 DEF Tracks, OnTransfer
  <2> QED
    BY <1>4, <1>5, <2>1, <2>2, <2>3, <2>4, <2>5, <2>6 DEF Tracks
<1>8. k \in Orders => credits'[k] = IF order'[k] = "unpaid" \/ Paying(j, k) THEN 0 ELSE 1
  BY <1>1, <1>2, <1>3, <1>4, <1>5 DEF Paying
<1>9. DocumentsInv'
  BY <1>5, <1>6, <1>7, <1>8, DocumentsKept
<1>10. /\ orderShown' = [orderShown EXCEPT ![k] = ShownOrder(j, order[k])]
       /\ settleShown' = [settleShown EXCEPT ![k] = ShownSettle(j, settle[k])]
       /\ transferShown' = [transferShown EXCEPT ![k] = ShownTransfer(j, transfer[k])]
       /\ voucherShown' = [voucherShown EXCEPT ![k] = ShownVoucher(j, voucher[k])]
       /\ k \in Orders => orderShown[k] = ShownOrder(i, order[k])
       /\ k \in Settles => settleShown[k] = ShownSettle(i, settle[k])
       /\ k \in Transfers => transferShown[k] = ShownTransfer(i, transfer[k])
       /\ k \in Vouchers => voucherShown[k] = ShownVoucher(i, voucher[k])
  BY <1>1, <1>3, <1>5, <1>6, StatementShown DEF DocumentsInv
<1>11. /\ ShownOrder(j, order[k]) = ShownOrder(i, order[k]) => UNCHANGED orderShown
       /\ ShownSettle(j, settle[k]) = ShownSettle(i, settle[k]) => UNCHANGED settleShown
       /\ ShownTransfer(j, transfer[k]) = ShownTransfer(i, transfer[k]) => UNCHANGED transferShown
       /\ ShownVoucher(j, voucher[k]) = ShownVoucher(i, voucher[k]) => UNCHANGED voucherShown
  BY <1>1, <1>3, <1>5, <1>6, ShownStays DEF DocumentsInv
<1>12. m \in Merchants /\ a \in Nat
  BY <1>4 DEF Job
<1>13. CASE i.kind \in {"pay", "makeUp", "freeze", "unfreeze"}
  <2>1. UNCHANGED <<settleShown, transferShown, voucherShown>>
    BY <1>4, <1>5, <1>11, <1>13 DEF ShownSettle, ShownTransfer, ShownVoucher
  <2>2. /\ k \in Orders /\ m = OwnerOf[k] /\ a = Income[k]
        /\ order[k] = IF i.kind = "unfreeze" THEN "frozen" ELSE "paid"
    BY <1>4, <1>13 DEF Tracks, OnOrder
  <2>3. /\ orderShown[k] = ShownOrder(i, order[k]) /\ orderShown' = [orderShown EXCEPT ![k] = ShownOrder(j, order[k])]
    BY <1>10, <2>2
  <2>4. CASE i.kind \in {"pay", "makeUp"}
    <3>1. orderShown[k] = "unpaid" /\ orderShown' = [orderShown EXCEPT ![k] = "paid"]
      BY <1>4, <1>5, <2>2, <2>3, <2>4 DEF ShownOrder
    <3>2. i.change = INCOME
      BY <1>4, <2>4 DEF Tracks, ChangeOf
    <3>3. Promise!Move(m, a, 0)
      BY <1>3, <1>4, <3>2, WriteMoves DEF INCOME, EXPENSE, FREEZE, UNFREEZE, SETTLE
    <3>4. Promise!PayOrder(k)
      BY <2>1, <2>2, <3>1, <3>3 DEF Promise!PayOrder, Promise!SetOrder
    <3> QED
      BY <1>9, <2>2, <3>4 DEF Promise!Next
  <2>5. CASE i.kind = "freeze"
    <3>1. orderShown[k] = "paid" /\ orderShown' = [orderShown EXCEPT ![k] = "frozen"]
      BY <1>4, <1>5, <2>2, <2>3, <2>5 DEF ShownOrder, Moved
    <3>2. i.change = FREEZE
      BY <1>4, <2>5 DEF Tracks, ChangeOf
    <3>3. Promise!Move(m, -a, a)
      BY <1>3, <1>4, <3>2, WriteMoves DEF INCOME, EXPENSE, FREEZE, UNFREEZE, SETTLE
    <3>4. Promise!FreezeOrder(k)
      BY <2>1, <2>2, <3>1, <3>3 DEF Promise!FreezeOrder, Promise!SetOrder
    <3> QED
      BY <1>9, <2>2, <3>4 DEF Promise!Next
  <2>6. CASE i.kind = "unfreeze"
    <3>1. orderShown[k] = "frozen" /\ orderShown' = [orderShown EXCEPT ![k] = "paid"]
      BY <1>4, <1>5, <2>2, <2>3, <2>6 DEF ShownOrder, Moved
    <3>2. i.change = UNFREEZE
      BY <1>4, <2>6 DEF Tracks, ChangeOf
    <3>3. Promise!Move(m, a, -a)
      BY <1>3, <1>4, <3>2, WriteMoves DEF INCOME, EXPENSE, FREEZE, UNFREEZE, SETTLE
    <3>4. Promise!UnfreezeOrder(k)
      BY <2>1, <2>2, <3>1, <3>3 DEF Promise!UnfreezeOrder, Promise!SetOrder
    <3> QED
      BY <1>9, <2>2, <3>4 DEF Promise!Next
  <2> QED
    BY <1>13, <2>4, <2>5, <2>6
<1>14. CASE i.kind = "redeem"
  <2>1. UNCHANGED <<orderShown, settleShown, transferShown>>
    BY <1>4, <1>5, <1>11, <1>14 DEF ShownOrder, ShownSettle, ShownTransfer
  <2>2. k \in Vouchers /\ m \in UsableBy[k] /\ a = Worth[k] /\ voucher[k] = NoRow
    BY <1>4, <1>14 DEF Tracks, OnVoucher
  <2>3. voucherShown[k] = NoRow /\ voucherShown' = [voucherShown EXCEPT ![k] = m]
    BY <1>4, <1>5, <1>10, <1>14, <2>2 DEF ShownVoucher, Moved
  <2>4. i.change = INCOME
    BY <1>4, <1>14 DEF Tracks, ChangeOf
  <2>5. Promise!Move(m, a, 0)
    BY <1>3, <1>4, <2>4, WriteMoves DEF INCOME, EXPENSE, FREEZE, UNFREEZE, SETTLE
  <2>6. Promise!Redeem(k, m)
    BY <2>1, <2>2, <2>3, <2>5 DEF Promise!Redeem
  <2> QED
    BY <1>9, <1>12, <2>2, <2>6 DEF Promise!Next
<1>15. CASE i.kind = "apply"
  <2>1. UNCHANGED <<orderShown, transferShown, voucherShown>>
    BY <1>4, <1>5, <1>11, <1>15 DEF ShownOrder, ShownTransfer, ShownVoucher
  <2>2. k \in Settles /\ a \in Amounts /\ settle[k] = NoRow
    BY <1>4, <1>15 DEF Tracks, OnNewSettle
  <2>3. settleShown[k] = NoRow /\ settleShown' = [settleShown EXCEPT ![k] = Document(m, a, "pending")]
    BY <1>4, <1>5, <1>10, <1>15, <2>2 DEF ShownSettle, Moved
  <2>4. i.change = FREEZE
    BY <1>4, <1>15 DEF Tracks, ChangeOf
  <2>5. Promise!Move(m, -a, a)
    BY <1>3, <1>4, <2>4, WriteMoves DEF INCOME, EXPENSE, FREEZE, UNFREEZE, SETTLE
  <2>6. \A r \in Settles : Promise!Pending(settleShown, r) => settleShown[r].mch # m
    BY <1>1, <1>3, <1>15, NoneOpen DEF Promise!Pending
  <2>7. Promise!ApplySettle(k, m, a)
    BY <2>1, <2>3, <2>5, <2>6 DEF Promise!ApplySettle, Promise!Document, Document
  <2> QED
    BY <1>9, <1>12, <2>2, <2>7 DEF Promise!Next
<1>16. CASE i.kind \in {"approve", "reject"}
  <2>1. UNCHANGED <<orderShown, transferShown, voucherShown>>
    BY <1>4, <1>5, <1>11, <1>16 DEF ShownOrder, ShownTransfer, ShownVoucher
  <2>2. k \in Settles /\ settle[k] = Document(m, a, "pending")
    BY <1>4, <1>16 DEF Tracks, OnSettle
  <2>3. PICK st : st = IF i.kind = "approve" THEN "paid" ELSE "rejected"
    OBVIOUS
  <2>4. settleShown[k] = settle[k] /\ settleShown' = [settleShown EXCEPT ![k] = [settle[k] EXCEPT !.state = st]]
    BY <1>4, <1>5, <1>10, <1>16, <2>2, <2>3 DEF ShownSettle, Moved
  <2>5. settleShown' = [settleShown EXCEPT ![k].state = st]
    BY <2>4
  <2>6. /\ settleShown[k] # NoRow /\ settleShown[k].state = "pending"
        /\ settleShown[k].mch = m /\ settleShown[k].amount = a
    BY <1>12, <2>2, <2>4, NullAssumption DEF Documents, Document
  <2>7. CASE i.kind = "approve"
    <3>1. i.change = SETTLE
      BY <1>4, <2>7 DEF Tracks, ChangeOf
    <3>2. Promise!Move(m, 0, -a)
      BY <1>3, <1>4, <3>1, WriteMoves DEF INCOME, EXPENSE, FREEZE, UNFREEZE, SETTLE
    <3>3. Promise!EndSettle(k, "paid", 0)
      BY <2>1, <2>3, <2>5, <2>6, <2>7, <3>2 DEF Promise!EndSettle, Promise!Pending
    <3> QED
      BY <1>9, <2>2, <3>3 DEF Promise!Next
  <2>8. CASE i.kind = "reject"
    <3>1. i.change = UNFREEZE
      BY <1>4, <2>8 DEF Tracks, ChangeOf
    <3>2. Promise!Move(m, a, -a)
      BY <1>3, <1>4, <3>1, WriteMoves DEF INCOME, EXPENSE, FREEZE, UNFREEZE, SETTLE
    <3>3. Promise!EndSettle(k, "rejected", settleShown[k].amount)
      BY <2>1, <2>3, <2>5, <2>6, <2>8, <3>2 DEF Promise!EndSettle, Promise!Pending
    <3> QED
      BY <1>9, <2>2, <3>3 DEF Promise!Next
  <2> QED
    BY <1>16, <2>7, <2>8
<1>17. CASE i.kind = "transfer"
  <2>1. UNCHANGED <<orderShown, settleShown, voucherShown>>
    BY <1>4, <1>5, <1>11, <1>17 DEF ShownOrder, ShownSettle, ShownVoucher
  <2>2. k \in Transfers /\ a \in Amounts /\ transfer[k] = NoRow
    BY <1>4, <1>17 DEF Tracks, OnTransfer
  <2>3. transferShown[k] = NoRow /\ transferShown' = [transferShown EXCEPT ![k] = Document(m, a, "pending")]
    BY <1>4, <1>5, <1>10, <1>17, <2>2 DEF ShownTransfer, Moved
  <2>4. i.change = EXPENSE
    BY <1>4, <1>17 DEF Tracks, ChangeOf
  <2>5. Promise!Move(m, -a, 0)
    BY <1>3, <1>4, <2>4, WriteMoves DEF INCOME, EXPENSE, FREEZE, UNFREEZE, SETTLE
  <2>6. Promise!CreateTransfer(k, m, a)
    BY <2>1, <2>3, <2>5 DEF Promise!CreateTransfer, Promise!Document, Document
  <2> QED
    BY <1>9, <1>12, <2>2, <2>6 DEF Promise!Next
<1>18. CASE i.kind \in {"cancel", "notifyFail", "transferFail"}
  <2>1. UNCHANGED <<orderShown, settleShown, voucherShown>>
    BY <1>4, <1>5, <1>11, <1>18 DEF ShownOrder, ShownSettle, ShownVoucher
  <2>2. k \in Transfers /\ transfer[k] = Document(m, a, "pending")
    BY <1>4, <1>18 DEF Tracks, OnTransfer, TransferEnds
  <2>3. transferShown[k] = transfer[k] /\ transferShown' = [transferShown EXCEPT ![k] = [transfer[k] EXCEPT !.state = "failed"]]
    BY <1>4, <1>5, <1>10, <1>18, <2>2 DEF ShownTransfer, Moved
  <2>4. transferShown' = [transferShown EXCEPT ![k].state = "failed"]
    BY <2>3
  <2>5. /\ transferShown[k] # NoRow /\ transferShown[k].state = "pending"
        /\ transferShown[k].mch = m /\ transferShown[k].amount = a
    BY <1>12, <2>2, <2>3, NullAssumption DEF Documents, Document
  <2>6. i.change = INCOME
    BY <1>4, <1>18 DEF Tracks, ChangeOf
  <2>7. Promise!Move(m, a, 0)
    BY <1>3, <1>4, <2>6, WriteMoves DEF INCOME, EXPENSE, FREEZE, UNFREEZE, SETTLE
  <2>8. Promise!EndTransfer(k, "failed", transferShown[k].amount)
    BY <2>1, <2>4, <2>5, <2>7 DEF Promise!EndTransfer, Promise!Pending
  <2> QED
    BY <1>9, <2>2, <2>8 DEF Promise!Next
<1> QED
  <2>1. i.kind \notin {"confirm", "notifyOk"}
    BY <1>4 DEF Tracks, StepsOf
  <2> QED
    BY <1>4, <1>13, <1>14, <1>15, <1>16, <1>17, <1>18, <2>1 DEF Tracks, Careful

\* A request that arrives changes nothing yet, and its handler knows its document.
LEMMA ArriveStutters ==
  ASSUME LedgerInv, SerialInv, DocumentsInv, Serial, Handlers \subseteq Careful, NEW t \in Threads, Arrive(t)
  PROVE  DocumentsInv' /\ UNCHANGED Promise!accounts
<1> DEFINE Goal == DocumentsInv' /\ UNCHANGED Promise!accounts
<1>1. ASSUME NEW o \in Orders, NEW kind, NEW change, NEW pc,
             Begin(t, kind, OwnerOf[o], o, Income[o], change, pc),
             \/ kind \in {"pay", "makeUp"} /\ change = INCOME /\ pc = "mark" /\ order[o] = "unpaid"
             \/ kind = "freeze" /\ change = FREEZE /\ pc = "read" /\ order[o] = "paid"
             \/ kind = "unfreeze" /\ change = UNFREEZE /\ pc = "read" /\ order[o] = "frozen"
      PROVE  Goal
  <2>1. /\ OwnerOf[o] \in Merchants /\ Income[o] \in Nat /\ o # NoRow /\ change \in 1..5
        /\ pc \in {"mark", "read"}
    BY <1>1, LedgerAssumption, NullAssumption, Changes
  <2>2. Fits(kind, OwnerOf[o], o, Income[o], change, pc)
    BY <1>1, <2>1 DEF Fits, Steps, TransferEnds
  <2>3. PICK m, a : m = OwnerOf[o] /\ a = Income[o]
    OBVIOUS
  <2>4. PICK j : /\ j = [kind |-> kind, mch |-> m, ref |-> o, amount |-> a, change |-> change, pc |-> pc,
                         before |-> 0, newBalance |-> 0, newFrozen |-> 0]
                 /\ j.kind = kind /\ j.mch = m /\ j.ref = o /\ j.amount = a /\ j.change = change /\ j.pc = pc
    <3>1. PICK j : j = [kind |-> kind, mch |-> m, ref |-> o, amount |-> a, change |-> change, pc |-> pc,
                        before |-> 0, newBalance |-> 0, newFrozen |-> 0]
      OBVIOUS
    <3> QED
      BY <3>1
  <2>5. OnOrder(j)
    BY <1>1, <2>3, <2>4 DEF OnOrder
  <2>6. Tracks(j)
    BY <1>1, <2>4, <2>5 DEF Tracks, Careful, ChangeOf, StepsOf, TransferEnds
  <2>7. Fits(kind, m, o, a, change, pc) /\ Begin(t, kind, m, o, a, change, pc)
    BY <1>1, <2>2, <2>3
  <2> QED
    BY <1>1, <2>1, <2>4, <2>6, <2>7, BeginStutters
<1>2. ASSUME NEW s \in Settles, NEW kind, NEW change,
             Begin(t, kind, settle[s].mch, s, settle[s].amount, change, "read"), Pending(settle, s),
             (kind = "approve" /\ change = SETTLE) \/ (kind = "reject" /\ change = UNFREEZE)
      PROVE  Goal
  <2>1. settle[s] \in Documents /\ settle[s] # NoRow /\ settle[s].state = "pending"
    BY <1>2, PendingRows DEF Pending, LedgerInv
  <2>2. PICK m, a : m = settle[s].mch /\ a = settle[s].amount
    OBVIOUS
  <2>3. m \in Merchants /\ a \in Nat /\ settle[s] = Document(m, a, "pending") /\ s # NoRow /\ change \in 1..5
    BY <1>2, <2>1, <2>2, NullAssumption, Changes DEF Documents, Document
  <2>4. Fits(kind, m, s, a, change, "read") /\ Begin(t, kind, m, s, a, change, "read")
    BY <1>2, <2>1, <2>2, <2>3 DEF Fits, Steps, TransferEnds
  <2>5. PICK j : /\ j = [kind |-> kind, mch |-> m, ref |-> s, amount |-> a, change |-> change, pc |-> "read",
                         before |-> 0, newBalance |-> 0, newFrozen |-> 0]
                 /\ j.kind = kind /\ j.mch = m /\ j.ref = s /\ j.amount = a /\ j.change = change /\ j.pc = "read"
    <3>1. PICK j : j = [kind |-> kind, mch |-> m, ref |-> s, amount |-> a, change |-> change, pc |-> "read",
                        before |-> 0, newBalance |-> 0, newFrozen |-> 0]
      OBVIOUS
    <3> QED
      BY <3>1
  <2>6. OnSettle(j)
    BY <2>3, <2>5 DEF OnSettle
  <2>7. Tracks(j)
    BY <1>2, <2>5, <2>6 DEF Tracks, Careful, ChangeOf, StepsOf, TransferEnds
  <2> QED
    BY <1>2, <2>3, <2>4, <2>5, <2>7, BeginStutters
<1>3. ASSUME NEW x \in Transfers, NEW kind, NEW pc,
             Begin(t, kind, transfer[x].mch, x, transfer[x].amount, INCOME, pc), Pending(transfer, x),
             \/ kind \in {"confirm", "notifyOk"} /\ pc = "final"
             \/ kind \in {"cancel", "notifyFail"} /\ pc = "read"
      PROVE  Goal
  <2>1. transfer[x] \in Documents /\ transfer[x] # NoRow /\ transfer[x].state = "pending"
    BY <1>3, PendingRows DEF Pending, LedgerInv
  <2>2. PICK m, a : m = transfer[x].mch /\ a = transfer[x].amount
    OBVIOUS
  <2>3. m \in Merchants /\ a \in Nat /\ transfer[x] = Document(m, a, "pending") /\ x # NoRow /\ INCOME \in 1..5
    BY <1>3, <2>1, <2>2, NullAssumption, Changes DEF Documents, Document
  <2>4. Fits(kind, m, x, a, INCOME, pc) /\ Begin(t, kind, m, x, a, INCOME, pc)
    BY <1>3, <2>1, <2>2, <2>3 DEF Fits, Steps, TransferEnds
  <2>5. PICK j : /\ j = [kind |-> kind, mch |-> m, ref |-> x, amount |-> a, change |-> INCOME, pc |-> pc,
                         before |-> 0, newBalance |-> 0, newFrozen |-> 0]
                 /\ j.kind = kind /\ j.mch = m /\ j.ref = x /\ j.amount = a /\ j.change = INCOME /\ j.pc = pc
    <3>1. PICK j : j = [kind |-> kind, mch |-> m, ref |-> x, amount |-> a, change |-> INCOME, pc |-> pc,
                        before |-> 0, newBalance |-> 0, newFrozen |-> 0]
      OBVIOUS
    <3> QED
      BY <3>1
  <2>6. OnTransfer(j)
    BY <1>3, <2>3, <2>5 DEF OnTransfer
  <2>7. Tracks(j)
    BY <1>3, <2>5, <2>6 DEF Tracks, Careful, ChangeOf, StepsOf, TransferEnds
  <2> QED
    BY <1>3, <2>3, <2>4, <2>5, <2>7, BeginStutters
<1>4. ASSUME NEW m \in Merchants, NEW a \in Amounts, NEW s \in Settles, settle[s] = NoRow,
             Begin(t, "apply", m, s, a, FREEZE, "pending")
      PROVE  Goal
  <2>1. a \in Nat /\ s # NoRow
    BY LedgerAssumption, NullAssumption
  <2>2. Fits("apply", m, s, a, FREEZE, "pending")
    BY <2>1, Changes DEF Fits, Steps, TransferEnds
  <2>3. PICK j : /\ j = [kind |-> "apply", mch |-> m, ref |-> s, amount |-> a, change |-> FREEZE, pc |-> "pending",
                         before |-> 0, newBalance |-> 0, newFrozen |-> 0]
                 /\ j.kind = "apply" /\ j.mch = m /\ j.ref = s /\ j.amount = a /\ j.change = FREEZE /\ j.pc = "pending"
    <3>1. PICK j : j = [kind |-> "apply", mch |-> m, ref |-> s, amount |-> a, change |-> FREEZE, pc |-> "pending",
                        before |-> 0, newBalance |-> 0, newFrozen |-> 0]
      OBVIOUS
    <3> QED
      BY <3>1
  <2>4. OnNewSettle(j)
    BY <1>4, <2>3 DEF OnNewSettle
  <2>5. Tracks(j)
    BY <2>3, <2>4 DEF Tracks, Careful, ChangeOf, StepsOf, TransferEnds
  <2> QED
    BY <1>4, <2>1, <2>2, <2>3, <2>5, BeginStutters
<1>5. ASSUME NEW m \in Merchants, NEW a \in Amounts, NEW x \in Transfers, transfer[x] = NoRow,
             Begin(t, "transfer", m, x, a, EXPENSE, "read")
      PROVE  Goal
  <2>1. a \in Nat /\ x # NoRow
    BY LedgerAssumption, NullAssumption
  <2>2. Fits("transfer", m, x, a, EXPENSE, "read")
    BY <2>1, Changes DEF Fits, Steps, TransferEnds
  <2>3. PICK j : /\ j = [kind |-> "transfer", mch |-> m, ref |-> x, amount |-> a, change |-> EXPENSE, pc |-> "read",
                         before |-> 0, newBalance |-> 0, newFrozen |-> 0]
                 /\ j.kind = "transfer" /\ j.mch = m /\ j.ref = x /\ j.amount = a /\ j.change = EXPENSE /\ j.pc = "read"
    <3>1. PICK j : j = [kind |-> "transfer", mch |-> m, ref |-> x, amount |-> a, change |-> EXPENSE, pc |-> "read",
                        before |-> 0, newBalance |-> 0, newFrozen |-> 0]
      OBVIOUS
    <3> QED
      BY <3>1
  <2>4. OnTransfer(j)
    BY <1>5, <2>3 DEF OnTransfer
  <2>5. Tracks(j)
    BY <2>3, <2>4 DEF Tracks, Careful, ChangeOf, StepsOf, TransferEnds
  <2> QED
    BY <1>5, <2>1, <2>2, <2>3, <2>5, BeginStutters
<1>6. ASSUME NEW m \in Merchants, NEW v \in Vouchers, Redeem(t, v, m)
      PROVE  Goal
  <2>1. Worth[v] \in Nat /\ v # NoRow
    BY LedgerAssumption, NullAssumption
  <2>2. PICK a : a = Worth[v]
    OBVIOUS
  <2>3. Fits("redeem", m, v, a, INCOME, "read") /\ Begin(t, "redeem", m, v, a, INCOME, "read")
    BY <1>6, <2>1, <2>2, Changes DEF Fits, Steps, TransferEnds, Redeem
  <2>4. PICK j : /\ j = [kind |-> "redeem", mch |-> m, ref |-> v, amount |-> a, change |-> INCOME, pc |-> "read",
                         before |-> 0, newBalance |-> 0, newFrozen |-> 0]
                 /\ j.kind = "redeem" /\ j.mch = m /\ j.ref = v /\ j.amount = a /\ j.change = INCOME /\ j.pc = "read"
    <3>1. PICK j : j = [kind |-> "redeem", mch |-> m, ref |-> v, amount |-> a, change |-> INCOME, pc |-> "read",
                        before |-> 0, newBalance |-> 0, newFrozen |-> 0]
      OBVIOUS
    <3> QED
      BY <3>1
  <2>5. OnVoucher(j)
    BY <1>6, <2>2, <2>4 DEF OnVoucher, Redeem
  <2>6. Tracks(j)
    BY <2>4, <2>5 DEF Tracks, Careful, ChangeOf, StepsOf, TransferEnds
  <2> QED
    BY <2>1, <2>3, <2>4, <2>6, BeginStutters
<1> HIDE DEF Goal
<1>7. ASSUME NEW o \in Orders,
             \/ PayNotify(t, o) \/ OrderMakeUp(t, o) \/ PayCallback(t, o)
             \/ OrderFreeze(t, o) \/ OrderUnfreeze(t, o)
      PROVE  Goal
  <2>1. CASE PayNotify(t, o)
    BY <1>1, <2>1 DEF PayNotify
  <2>2. CASE OrderMakeUp(t, o)
    <3>1. order[o] = "unpaid" /\ Begin(t, "makeUp", OwnerOf[o], o, Income[o], INCOME, "mark")
      BY <2>2 DEF OrderMakeUp, Begin, Careful
    <3> QED
      BY <1>1, <3>1
  <2>3. CASE PayCallback(t, o)
    BY <2>3 DEF PayCallback, Begin, Careful
  <2>4. CASE OrderFreeze(t, o)
    BY <1>1, <2>4 DEF OrderFreeze
  <2>5. CASE OrderUnfreeze(t, o)
    BY <1>1, <2>5 DEF OrderUnfreeze
  <2> QED
    BY <1>7, <2>1, <2>2, <2>3, <2>4, <2>5
<1>8. ASSUME NEW s \in Settles, Approve(t, s) \/ Reject(t, s)
      PROVE  Goal
  <2>1. PICK kind, change :
          /\ Begin(t, kind, settle[s].mch, s, settle[s].amount, change, "read") /\ Pending(settle, s)
          /\ (kind = "approve" /\ change = SETTLE) \/ (kind = "reject" /\ change = UNFREEZE)
    BY <1>8 DEF Approve, Reject
  <2> QED
    BY <1>2, <2>1
<1>9. ASSUME NEW x \in Transfers, Confirm(t, x) \/ Cancel(t, x)
      PROVE  Goal
  BY <1>3, <1>9 DEF Confirm, Cancel
<1>10. ASSUME NEW x \in Transfers, NEW ok \in BOOLEAN, TransferNotify(t, x, ok)
       PROVE  Goal
  <2>1. CASE ok
    BY <1>3, <1>10, <2>1 DEF TransferNotify
  <2>2. CASE ~ok
    BY <1>3, <1>10, <2>2 DEF TransferNotify
  <2> QED
    BY <2>1, <2>2
<1>11. ASSUME NEW m \in Merchants, NEW a \in Amounts, Apply(t, m, a) \/ CreateTransfer(t, m, a)
       PROVE  Goal
  <2>1. /\ Fresh(settle) \subseteq {s \in Settles : settle[s] = NoRow}
        /\ Fresh(transfer) \subseteq {x \in Transfers : transfer[x] = NoRow}
    BY DEF Fresh, LedgerInv, TypeOK
  <2>2. CASE Apply(t, m, a)
    BY <1>4, <2>1, <2>2 DEF Apply
  <2>3. CASE CreateTransfer(t, m, a)
    BY <1>5, <2>1, <2>3 DEF CreateTransfer
  <2> QED
    BY <1>11, <2>2, <2>3
<1>12. \A m : ~AutoSettle(t, m)
  BY DEF AutoSettle, Begin, Careful
<1>13. \A m, c, a : ~Manual(t, m, c, a) /\ ~Adjust(t, m, c, a)
  BY DEF Manual, Adjust, Begin, Careful
<1>14. Goal
  BY <1>6, <1>7, <1>8, <1>9, <1>10, <1>11, <1>12, <1>13 DEF Arrive
<1> QED
  BY <1>14 DEF Goal

-----------------------------------------------------------------------------
(* Accounts keeps its books: what each of its steps changes in the sums.       *)

\* Accounts sums as this module does.
LEMMA SumsAgree ==
  ASSUME NEW f, NEW S
  PROVE  Promise!SumFunctionOnSet(f, S) = SumFunctionOnSet(f, S)
BY DEF SumFunctionOnSet, FoldFunctionOnSet, MapThenFoldSet, Promise!SumFunctionOnSet, Promise!FoldFunctionOnSet, Promise!MapThenFoldSet

EarnedBy(rows, m, states) == SumFunctionOnSet(Income, {o \in Orders : OwnerOf[o] = m /\ rows[o] \in states})
RedeemedBy(rows, m) == SumFunctionOnSet(Worth, {v \in Vouchers : rows[v] = m})
Redeemed(user, m, v) == IF user = m THEN Worth[v] ELSE 0
Of(row, m, states) == IF Promise!Counts(row, m, states) THEN row.amount ELSE 0

LEMMA EarnedChange ==
  ASSUME NEW rows, rows = [o \in Orders |-> rows[o]], NEW k \in Orders, NEW to, NEW m, NEW states
  PROVE  /\ EarnedBy(rows, m, states) \in Int
         /\ EarnedBy([rows EXCEPT ![k] = to], m, states) =
              EarnedBy(rows, m, states)
                - (IF OwnerOf[k] = m /\ rows[k] \in states THEN Income[k] ELSE 0)
                + (IF OwnerOf[k] = m /\ to \in states THEN Income[k] ELSE 0)
<1>1. PICK new : new = [rows EXCEPT ![k] = to]
  OBVIOUS
<1>2. new[k] = to /\ \A o \in Orders \ {k} : new[o] = rows[o]
  BY <1>1
<1>3. PICK S, T : /\ S = {o \in Orders : OwnerOf[o] = m /\ rows[o] \in states}
                  /\ T = {o \in Orders : OwnerOf[o] = m /\ new[o] \in states}
  OBVIOUS
<1>4. S \in SUBSET Orders /\ T \in SUBSET Orders /\ S \ {k} = T \ {k}
  BY <1>2, <1>3
<1>5. IsFiniteSet(Orders) /\ \A o \in Orders : Income[o] \in Int
  BY LedgerAssumption
<1>6. /\ SumFunctionOnSet(Income, S) \in Int
      /\ SumFunctionOnSet(Income, T) = SumFunctionOnSet(Income, S) - Part(Income, S, k) + Part(Income, T, k)
  <2>1. Integral(Income, S) /\ Integral(Income, T) /\ Alike(Income, S, Income, T, k)
    BY <1>4, <1>5 DEF Integral, Alike
  <2> QED
    BY <1>4, <1>5, <2>1, SumUpdate
<1>7. /\ Part(Income, S, k) = (IF OwnerOf[k] = m /\ rows[k] \in states THEN Income[k] ELSE 0)
      /\ Part(Income, T, k) = (IF OwnerOf[k] = m /\ to \in states THEN Income[k] ELSE 0)
  BY <1>2, <1>3 DEF Part
<1> QED
  BY <1>1, <1>3, <1>6, <1>7 DEF EarnedBy

\* Of the rows of table S, row k alone has changed, to a new value.
RowChanged(new, rows, S, k, to) == new[k] = to /\ \A x \in S \ {k} : new[x] = rows[x]

LEMMA RedeemedChange ==
  ASSUME NEW rows, NEW new, NEW k \in Vouchers, NEW to, NEW m,
         RowChanged(new, rows, Vouchers, k, to)
  PROVE  /\ RedeemedBy(rows, m) \in Int
         /\ RedeemedBy(new, m) =
              RedeemedBy(rows, m) - Redeemed(rows[k], m, k) + Redeemed(to, m, k)
<1>2. new[k] = to /\ \A v \in Vouchers \ {k} : new[v] = rows[v]
  BY DEF RowChanged
<1>3. PICK S, T : S = {v \in Vouchers : rows[v] = m} /\ T = {v \in Vouchers : new[v] = m}
  OBVIOUS
<1>4. S \in SUBSET Vouchers /\ T \in SUBSET Vouchers /\ S \ {k} = T \ {k}
  BY <1>2, <1>3
<1>5. IsFiniteSet(Vouchers) /\ \A v \in Vouchers : Worth[v] \in Int
  BY LedgerAssumption
<1>6. /\ SumFunctionOnSet(Worth, S) \in Int
      /\ SumFunctionOnSet(Worth, T) = SumFunctionOnSet(Worth, S) - Part(Worth, S, k) + Part(Worth, T, k)
  <2>1. Integral(Worth, S) /\ Integral(Worth, T) /\ Alike(Worth, S, Worth, T, k)
    BY <1>4, <1>5 DEF Integral, Alike
  <2> QED
    BY <1>4, <1>5, <2>1, SumUpdate
<1>7. Part(Worth, S, k) = Redeemed(rows[k], m, k) /\ Part(Worth, T, k) = Redeemed(to, m, k)
  BY <1>2, <1>3 DEF Part, Redeemed
<1> QED
  BY <1>3, <1>6, <1>7 DEF RedeemedBy

LEMMA TotalChange ==
  ASSUME NEW S, IsFiniteSet(S), NEW rows \in [S -> Documents \cup {NoRow}], NEW new \in [S -> Documents \cup {NoRow}],
         NEW k \in S, NEW d, NEW m, NEW states,
         RowChanged(new, rows, S, k, d)
  PROVE  /\ Promise!Total(rows, m, states) \in Int
         /\ Promise!Total(new, m, states) =
              Promise!Total(rows, m, states) - Of(rows[k], m, states) + Of(d, m, states)
<1>2. new[k] = d /\ \A x \in S \ {k} : new[x] = rows[x]
  BY DEF RowChanged
<1>3. PICK A, B : /\ A = {x \in S : Promise!Counts(rows[x], m, states)}
                  /\ B = {x \in S : Promise!Counts(new[x], m, states)}
  OBVIOUS
<1>4. A \in SUBSET S /\ B \in SUBSET S /\ A \ {k} = B \ {k}
  BY <1>2, <1>3
<1>5. PICK f, g : f = [x \in A |-> rows[x].amount] /\ g = [x \in B |-> new[x].amount]
  OBVIOUS
<1>6. (\A x \in A : f[x] = rows[x].amount /\ f[x] \in Int) /\ (\A x \in B : g[x] = new[x].amount /\ g[x] \in Int)
  <2>1. \A x \in A : rows[x] \in Documents
    BY <1>3 DEF Promise!Counts
  <2>2. \A x \in B : new[x] \in Documents
    BY <1>2, <1>3 DEF Promise!Counts
  <2> QED
    BY <1>5, <2>1, <2>2 DEF Documents
<1>7. \A x \in A \ {k} : f[x] = g[x]
  BY <1>2, <1>4, <1>6
<1>8. /\ SumFunctionOnSet(f, A) \in Int
      /\ SumFunctionOnSet(g, B) = SumFunctionOnSet(f, A) - Part(f, A, k) + Part(g, B, k)
  <2>1. Integral(f, A) /\ Integral(g, B)
    BY <1>6 DEF Integral
  <2>2. Alike(f, A, g, B, k)
    BY <1>4, <1>7 DEF Alike
  <2> QED
    BY <1>4, <2>1, <2>2, SumUpdate
<1>9. Part(f, A, k) = Of(rows[k], m, states) /\ Part(g, B, k) = Of(d, m, states)
  BY <1>2, <1>3, <1>6 DEF Part, Of
<1>10. Promise!Total(rows, m, states) = SumFunctionOnSet(f, A) /\ Promise!Total(new, m, states) = SumFunctionOnSet(g, B)
  <2>1. DOMAIN rows = S /\ DOMAIN new = S /\ DOMAIN f = A /\ DOMAIN g = B
    BY <1>2, <1>5
  <2>2. /\ {x \in DOMAIN rows : Promise!Counts(rows[x], m, states)} = A
        /\ {x \in DOMAIN new : Promise!Counts(new[x], m, states)} = B
    BY <1>3, <2>1
  <2>3. Promise!Total(rows, m, states) = SumFunction(f) /\ Promise!Total(new, m, states) = SumFunction(g)
    <3>1. /\ Promise!Total(rows, m, states) =
               Promise!SumFunction([x \in {y \in DOMAIN rows : Promise!Counts(rows[y], m, states)} |-> rows[x].amount])
          /\ Promise!Total(new, m, states) =
               Promise!SumFunction([x \in {y \in DOMAIN new : Promise!Counts(new[y], m, states)} |-> new[x].amount])
      BY Zenon DEF Promise!Total
    <3>2. /\ f = [x \in {y \in DOMAIN rows : Promise!Counts(rows[y], m, states)} |-> rows[x].amount]
          /\ g = [x \in {y \in DOMAIN new : Promise!Counts(new[y], m, states)} |-> new[x].amount]
      BY <1>5, <2>2, Zenon
    <3>3. Promise!SumFunction(f) = SumFunction(f) /\ Promise!SumFunction(g) = SumFunction(g)
      BY SumsAgree DEF SumFunction, Promise!SumFunction
    <3> QED
      BY <3>1, <3>2, <3>3, Zenon
  <2> QED
    BY <2>1, <2>3 DEF SumFunction
<1> QED
  BY <1>8, <1>9, <1>10

\* What the books say merchant m has, and has frozen.
Due(m) ==
  EarnedBy(orderShown, m, {"paid"}) + RedeemedBy(voucherShown, m)
    - Promise!Total(settleShown, m, {"pending", "paid"}) - Promise!Total(transferShown, m, {"pending", "done"})
Held(m) == Promise!Total(settleShown, m, {"pending"}) + EarnedBy(orderShown, m, {"frozen"})

LEMMA Books == Promise!Conserved <=> \A m \in Merchants : balance[m] = Due(m) /\ frozen[m] = Held(m)
<1>1. \A m, states : Promise!Earned(m, states) = EarnedBy(orderShown, m, states)
  BY SumsAgree, Zenon DEF Promise!Earned, EarnedBy
<1>2. \A m : Promise!Redeemed(m) = RedeemedBy(voucherShown, m)
  BY SumsAgree, Zenon DEF Promise!Redeemed, RedeemedBy
<1> QED
  BY <1>1, <1>2 DEF Promise!Conserved, Due, Held

LEMMA BooksNext == (Promise!Conserved <=> \A m \in Merchants : balance[m] = Due(m) /\ frozen[m] = Held(m))'
BY Books, PTL

ShownType ==
  /\ orderShown \in [Orders -> {"unpaid", "paid", "frozen"}]
  /\ settleShown \in [Settles -> Documents \cup {NoRow}]
  /\ transferShown \in [Transfers -> Documents \cup {NoRow}]
  /\ voucherShown \in [Vouchers -> Merchants \cup {NoRow}]

LEMMA TotalInt ==
  ASSUME NEW S, IsFiniteSet(S), NEW rows \in [S -> Documents \cup {NoRow}], NEW m, NEW states
  PROVE  Promise!Total(rows, m, states) \in Int
<1>1. PICK A : A = {x \in DOMAIN rows : Promise!Counts(rows[x], m, states)}
  OBVIOUS
<1>2. PICK f : f = [x \in A |-> rows[x].amount]
  OBVIOUS
<1>3. IsFiniteSet(A) /\ DOMAIN f = A
  BY <1>1, <1>2, FS_Subset
<1>4. \A x \in A : f[x] \in Int
  BY <1>1, <1>2 DEF Promise!Counts, Documents
<1>5. Promise!Total(rows, m, states) = Promise!SumFunction(f)
  BY <1>1, <1>2, Zenon DEF Promise!Total
<1>6. Promise!SumFunction(f) = SumFunctionOnSet(f, A)
  BY <1>3, SumsAgree DEF Promise!SumFunction
<1> QED
  BY <1>3, <1>4, <1>5, <1>6, SumInt

LEMMA SumsInt ==
  ASSUME ShownType, NEW m, NEW states
  PROVE  /\ EarnedBy(orderShown, m, states) \in Int /\ RedeemedBy(voucherShown, m) \in Int
         /\ Promise!Total(settleShown, m, states) \in Int /\ Promise!Total(transferShown, m, states) \in Int
<1>1. /\ IsFiniteSet(Orders) /\ IsFiniteSet(Vouchers) /\ IsFiniteSet(Settles) /\ IsFiniteSet(Transfers)
      /\ \A o \in Orders : Income[o] \in Int
      /\ \A v \in Vouchers : Worth[v] \in Int
  BY LedgerAssumption
<1>2. Promise!Total(settleShown, m, states) \in Int /\ Promise!Total(transferShown, m, states) \in Int
  BY <1>1, TotalInt DEF ShownType
<1>3. PICK S, T : S = {o \in Orders : OwnerOf[o] = m /\ orderShown[o] \in states}
                  /\ T = {v \in Vouchers : voucherShown[v] = m}
  OBVIOUS
<1>4. IsFiniteSet(S) /\ IsFiniteSet(T) /\ (\A o \in S : Income[o] \in Int) /\ \A v \in T : Worth[v] \in Int
  BY <1>1, <1>3, FS_Subset
<1>5. SumFunctionOnSet(Income, S) \in Int /\ SumFunctionOnSet(Worth, T) \in Int
  BY <1>4, SumInt
<1> QED
  BY <1>2, <1>3, <1>5 DEF EarnedBy, RedeemedBy

\* What the change of one row changes in the books.
LEMMA OrderBooks ==
  ASSUME ShownType, NEW k \in Orders, NEW to, orderShown' = [orderShown EXCEPT ![k] = to],
         UNCHANGED <<settleShown, transferShown, voucherShown>>, NEW n
  PROVE  /\ Due(n) \in Int /\ Held(n) \in Int
         /\ Due(n)' = Due(n) - (IF OwnerOf[k] = n /\ orderShown[k] = "paid" THEN Income[k] ELSE 0)
                             + (IF OwnerOf[k] = n /\ to = "paid" THEN Income[k] ELSE 0)
         /\ Held(n)' = Held(n) - (IF OwnerOf[k] = n /\ orderShown[k] = "frozen" THEN Income[k] ELSE 0)
                               + (IF OwnerOf[k] = n /\ to = "frozen" THEN Income[k] ELSE 0)
<1>0. PICK rows, q, c : rows = orderShown /\ q = Income[k] /\ c = orderShown[k]
  OBVIOUS
<1>1. rows = [o \in Orders |-> rows[o]] /\ q \in Int /\ c = rows[k]
  <2>1. rows = [o \in Orders |-> rows[o]] /\ c = rows[k]
    BY <1>0, ShownFunctions
  <2> QED
    BY <1>0, <2>1, LedgerAssumption
<1>2. PICK e1, e2, r, s1, s2, x :
        /\ e1 = EarnedBy(orderShown, n, {"paid"}) /\ e2 = EarnedBy(orderShown, n, {"frozen"})
        /\ r = RedeemedBy(voucherShown, n) /\ s1 = Promise!Total(settleShown, n, {"pending", "paid"})
        /\ s2 = Promise!Total(settleShown, n, {"pending"}) /\ x = Promise!Total(transferShown, n, {"pending", "done"})
  OBVIOUS
<1>3. e1 \in Int /\ e2 \in Int /\ r \in Int /\ s1 \in Int /\ s2 \in Int /\ x \in Int
  BY <1>2, SumsInt
<1>4. /\ EarnedBy(orderShown', n, {"paid"}) =
           e1 - (IF OwnerOf[k] = n /\ c = "paid" THEN q ELSE 0) + (IF OwnerOf[k] = n /\ to = "paid" THEN q ELSE 0)
      /\ EarnedBy(orderShown', n, {"frozen"}) =
           e2 - (IF OwnerOf[k] = n /\ c = "frozen" THEN q ELSE 0) + (IF OwnerOf[k] = n /\ to = "frozen" THEN q ELSE 0)
  <2>1. ASSUME NEW states
        PROVE  EarnedBy([rows EXCEPT ![k] = to], n, states) =
                 EarnedBy(rows, n, states) - (IF OwnerOf[k] = n /\ rows[k] \in states THEN Income[k] ELSE 0)
                                           + (IF OwnerOf[k] = n /\ to \in states THEN Income[k] ELSE 0)
    BY <1>1, EarnedChange
  <2>2. orderShown' = [rows EXCEPT ![k] = to]
    BY <1>0
  <2>3. /\ (c \in {"paid"} <=> c = "paid") /\ (to \in {"paid"} <=> to = "paid")
        /\ (c \in {"frozen"} <=> c = "frozen") /\ (to \in {"frozen"} <=> to = "frozen")
    OBVIOUS
  <2> QED
    BY <1>0, <1>1, <1>2, <2>1, <2>2, <2>3
<1>5. /\ Due(n) = e1 + r - s1 - x /\ Held(n) = s2 + e2
      /\ Due(n)' = EarnedBy(orderShown', n, {"paid"}) + r - s1 - x /\ Held(n)' = s2 + EarnedBy(orderShown', n, {"frozen"})
  BY <1>2 DEF Due, Held
<1>6. /\ Due(n)' = Due(n) - (IF OwnerOf[k] = n /\ c = "paid" THEN q ELSE 0)
                          + (IF OwnerOf[k] = n /\ to = "paid" THEN q ELSE 0)
      /\ Held(n)' = Held(n) - (IF OwnerOf[k] = n /\ c = "frozen" THEN q ELSE 0)
                            + (IF OwnerOf[k] = n /\ to = "frozen" THEN q ELSE 0)
  BY <1>1, <1>3, <1>4, <1>5
<1> QED
  BY <1>0, <1>3, <1>5, <1>6

LEMMA SettleBooks ==
  ASSUME ShownType, NEW k \in Settles, NEW d \in Documents, settleShown' = [settleShown EXCEPT ![k] = d],
         UNCHANGED <<orderShown, transferShown, voucherShown>>, NEW n
  PROVE  /\ Due(n) \in Int /\ Held(n) \in Int
         /\ Due(n)' = Due(n) + Of(settleShown[k], n, {"pending", "paid"}) - Of(d, n, {"pending", "paid"})
         /\ Held(n)' = Held(n) - Of(settleShown[k], n, {"pending"}) + Of(d, n, {"pending"})
<1>1. settleShown \in [Settles -> Documents \cup {NoRow}] /\ IsFiniteSet(Settles)
  BY LedgerAssumption DEF ShownType
<1>2. PICK e1, e2, r, s1, s2, x :
        /\ e1 = EarnedBy(orderShown, n, {"paid"}) /\ e2 = EarnedBy(orderShown, n, {"frozen"})
        /\ r = RedeemedBy(voucherShown, n) /\ s1 = Promise!Total(settleShown, n, {"pending", "paid"})
        /\ s2 = Promise!Total(settleShown, n, {"pending"}) /\ x = Promise!Total(transferShown, n, {"pending", "done"})
  OBVIOUS
<1>3. e1 \in Int /\ e2 \in Int /\ r \in Int /\ s1 \in Int /\ s2 \in Int /\ x \in Int
  BY <1>2, SumsInt
<1>4. /\ Promise!Total(settleShown', n, {"pending", "paid"}) =
           s1 - Of(settleShown[k], n, {"pending", "paid"}) + Of(d, n, {"pending", "paid"})
      /\ Promise!Total(settleShown', n, {"pending"}) =
           s2 - Of(settleShown[k], n, {"pending"}) + Of(d, n, {"pending"})
  <2>1. PICK rows, new : rows = settleShown /\ new = settleShown'
    OBVIOUS
  <2>2. /\ rows \in [Settles -> Documents \cup {NoRow}] /\ new \in [Settles -> Documents \cup {NoRow}]
        /\ RowChanged(new, rows, Settles, k, d)
    BY <1>1, <2>1 DEF RowChanged
  <2>3. \A states : Promise!Total(new, n, states) =
                       Promise!Total(rows, n, states) - Of(rows[k], n, states) + Of(d, n, states)
    BY <1>1, <2>2, TotalChange
  <2> QED
    BY <1>2, <2>1, <2>3
<1>5. \A states : Of(settleShown[k], n, states) \in Int /\ Of(d, n, states) \in Int
  BY <1>1 DEF Of, Promise!Counts, Documents
<1>6. /\ Due(n) = e1 + r - s1 - x /\ Held(n) = s2 + e2
      /\ Due(n)' = e1 + r - Promise!Total(settleShown', n, {"pending", "paid"}) - x
      /\ Held(n)' = Promise!Total(settleShown', n, {"pending"}) + e2
  BY <1>2 DEF Due, Held
<1> QED
  BY <1>3, <1>4, <1>5, <1>6

LEMMA TransferBooks ==
  ASSUME ShownType, NEW k \in Transfers, NEW d \in Documents, transferShown' = [transferShown EXCEPT ![k] = d],
         UNCHANGED <<orderShown, settleShown, voucherShown>>, NEW n
  PROVE  /\ Due(n) \in Int /\ Held(n) \in Int /\ Held(n)' = Held(n)
         /\ Due(n)' = Due(n) + Of(transferShown[k], n, {"pending", "done"}) - Of(d, n, {"pending", "done"})
<1>1. transferShown \in [Transfers -> Documents \cup {NoRow}] /\ IsFiniteSet(Transfers)
  BY LedgerAssumption DEF ShownType
<1>2. PICK e1, e2, r, s1, s2, x :
        /\ e1 = EarnedBy(orderShown, n, {"paid"}) /\ e2 = EarnedBy(orderShown, n, {"frozen"})
        /\ r = RedeemedBy(voucherShown, n) /\ s1 = Promise!Total(settleShown, n, {"pending", "paid"})
        /\ s2 = Promise!Total(settleShown, n, {"pending"}) /\ x = Promise!Total(transferShown, n, {"pending", "done"})
  OBVIOUS
<1>3. e1 \in Int /\ e2 \in Int /\ r \in Int /\ s1 \in Int /\ s2 \in Int /\ x \in Int
  BY <1>2, SumsInt
<1>4. Promise!Total(transferShown', n, {"pending", "done"}) =
        x - Of(transferShown[k], n, {"pending", "done"}) + Of(d, n, {"pending", "done"})
  <2>1. PICK rows, new : rows = transferShown /\ new = transferShown'
    OBVIOUS
  <2>2. /\ rows \in [Transfers -> Documents \cup {NoRow}] /\ new \in [Transfers -> Documents \cup {NoRow}]
        /\ RowChanged(new, rows, Transfers, k, d)
    BY <1>1, <2>1 DEF RowChanged
  <2>3. \A states : Promise!Total(new, n, states) =
                       Promise!Total(rows, n, states) - Of(rows[k], n, states) + Of(d, n, states)
    BY <1>1, <2>2, TotalChange
  <2> QED
    BY <1>2, <2>1, <2>3
<1>5. \A states : Of(transferShown[k], n, states) \in Int /\ Of(d, n, states) \in Int
  BY <1>1 DEF Of, Promise!Counts, Documents
<1>6. /\ Due(n) = e1 + r - s1 - x /\ Held(n) = s2 + e2
      /\ Due(n)' = e1 + r - s1 - Promise!Total(transferShown', n, {"pending", "done"})
      /\ Held(n)' = s2 + e2
  BY <1>2 DEF Due, Held
<1> QED
  BY <1>3, <1>4, <1>5, <1>6

LEMMA VoucherBooks ==
  ASSUME ShownType, NEW k \in Vouchers, NEW m \in Merchants, voucherShown' = [voucherShown EXCEPT ![k] = m],
         voucherShown[k] = NoRow,
         UNCHANGED <<orderShown, settleShown, transferShown>>, NEW n \in Merchants
  PROVE  /\ Due(n) \in Int /\ Held(n) \in Int /\ Held(n)' = Held(n)
         /\ Due(n)' = Due(n) + (IF n = m THEN Worth[k] ELSE 0)
<1>1. Worth[k] \in Int /\ n # NoRow
  BY LedgerAssumption, NullAssumption
<1>2. PICK e1, e2, r, s1, s2, x :
        /\ e1 = EarnedBy(orderShown, n, {"paid"}) /\ e2 = EarnedBy(orderShown, n, {"frozen"})
        /\ r = RedeemedBy(voucherShown, n) /\ s1 = Promise!Total(settleShown, n, {"pending", "paid"})
        /\ s2 = Promise!Total(settleShown, n, {"pending"}) /\ x = Promise!Total(transferShown, n, {"pending", "done"})
  OBVIOUS
<1>3. e1 \in Int /\ e2 \in Int /\ r \in Int /\ s1 \in Int /\ s2 \in Int /\ x \in Int
  BY <1>2, SumsInt
<1>4. RedeemedBy(voucherShown', n) =
        r - Redeemed(voucherShown[k], n, k) + Redeemed(m, n, k)
  <2>1. PICK rows, new : rows = voucherShown /\ new = voucherShown'
    OBVIOUS
  <2>2. RowChanged(new, rows, Vouchers, k, m)
    BY <2>1 DEF ShownType, RowChanged
  <2>3. RedeemedBy(new, n) = RedeemedBy(rows, n) - Redeemed(rows[k], n, k) + Redeemed(m, n, k)
    BY <2>2, RedeemedChange
  <2> QED
    BY <1>2, <2>1, <2>3
<1>5. /\ Due(n) = e1 + r - s1 - x /\ Held(n) = s2 + e2
      /\ Due(n)' = e1 + RedeemedBy(voucherShown', n) - s1 - x
      /\ Held(n)' = s2 + e2
  BY <1>2 DEF Due, Held
<1>6. Redeemed(voucherShown[k], n, k) = 0 /\ Redeemed(m, n, k) = IF n = m THEN Worth[k] ELSE 0
  BY <1>1 DEF Redeemed
<1> QED
  BY <1>1, <1>3, <1>4, <1>5, <1>6

\* The books stay right when a merchant's money moves by what its books do.
LEMMA BooksMove ==
  ASSUME balance \in [Merchants -> Int], frozen \in [Merchants -> Int], Promise!Conserved,
         NEW m \in Merchants, NEW b \in Int, NEW f \in Int, Promise!Move(m, b, f),
         \A n \in Merchants : /\ Due(n)' = Due(n) + (IF n = m THEN b ELSE 0)
                              /\ Held(n)' = Held(n) + (IF n = m THEN f ELSE 0)
  PROVE  Promise!Conserved'
<1>1. \A n \in Merchants : balance[n] = Due(n) /\ frozen[n] = Held(n)
  BY Books
<1>2. \A n \in Merchants : /\ balance'[n] = balance[n] + (IF n = m THEN b ELSE 0)
                           /\ frozen'[n] = frozen[n] + (IF n = m THEN f ELSE 0)
  BY DEF Promise!Move
<1>3. \A n \in Merchants : balance'[n] = Due(n)' /\ frozen'[n] = Held(n)'
  BY <1>1, <1>2
<1> QED
  BY <1>3, BooksNext

\* Every step of Accounts keeps the tables' types and the books.
LEMMA AccountsStep ==
  ASSUME balance \in [Merchants -> Int], frozen \in [Merchants -> Int],
         ShownType, Promise!Conserved, Promise!Next
  PROVE  ShownType' /\ Promise!Conserved'
<1>1. ASSUME NEW k \in Orders, NEW from, NEW to, NEW b, NEW f,
             Promise!SetOrder(k, from, to), Promise!Move(OwnerOf[k], b, f),
             \/ from = "unpaid" /\ to = "paid" /\ b = Income[k] /\ f = 0
             \/ from = "paid" /\ to = "frozen" /\ b = -Income[k] /\ f = Income[k]
             \/ from = "frozen" /\ to = "paid" /\ b = Income[k] /\ f = -Income[k]
      PROVE  ShownType' /\ Promise!Conserved'
  <2>1. /\ orderShown[k] = from /\ orderShown' = [orderShown EXCEPT ![k] = to]
        /\ UNCHANGED <<settleShown, transferShown, voucherShown>>
    BY <1>1 DEF Promise!SetOrder
  <2>2. Income[k] \in Int /\ OwnerOf[k] \in Merchants /\ b \in Int /\ f \in Int
    BY <1>1, LedgerAssumption
  <2>3. ShownType'
    BY <1>1, <2>1 DEF ShownType
  <2>4. PICK m, q : m = OwnerOf[k] /\ q = Income[k]
    OBVIOUS
  <2>5. ASSUME NEW n \in Merchants
        PROVE  Due(n)' = Due(n) + (IF n = m THEN b ELSE 0) /\ Held(n)' = Held(n) + (IF n = m THEN f ELSE 0)
    <3>1. /\ Due(n) \in Int /\ Held(n) \in Int
          /\ Due(n)' = Due(n) - (IF m = n /\ from = "paid" THEN q ELSE 0) + (IF m = n /\ to = "paid" THEN q ELSE 0)
          /\ Held(n)' = Held(n) - (IF m = n /\ from = "frozen" THEN q ELSE 0) + (IF m = n /\ to = "frozen" THEN q ELSE 0)
      <4>1. orderShown' = [orderShown EXCEPT ![k] = to] /\ UNCHANGED <<settleShown, transferShown, voucherShown>>
        BY <2>1
      <4>2. /\ Due(n) \in Int /\ Held(n) \in Int
            /\ Due(n)' = Due(n) - (IF OwnerOf[k] = n /\ orderShown[k] = "paid" THEN Income[k] ELSE 0)
                                + (IF OwnerOf[k] = n /\ to = "paid" THEN Income[k] ELSE 0)
            /\ Held(n)' = Held(n) - (IF OwnerOf[k] = n /\ orderShown[k] = "frozen" THEN Income[k] ELSE 0)
                                  + (IF OwnerOf[k] = n /\ to = "frozen" THEN Income[k] ELSE 0)
        BY <4>1, OrderBooks
      <4>3. orderShown[k] = from
        BY <2>1
      <4> QED
        BY <2>4, <4>2, <4>3
    <3>2. q \in Int
      BY <2>2, <2>4
    <3> QED
      BY <1>1, <2>4, <3>1, <3>2
  <2> QED
    BY <1>1, <2>2, <2>3, <2>4, <2>5, BooksMove
<1> DEFINE Shifts(k, d, m, b, f) ==
             \A n \in Merchants :
               /\ Of(settleShown[k], n, {"pending", "paid"}) - Of(d, n, {"pending", "paid"}) = (IF n = m THEN b ELSE 0)
               /\ Of(d, n, {"pending"}) - Of(settleShown[k], n, {"pending"}) = (IF n = m THEN f ELSE 0)
<1>2. ASSUME NEW k \in Settles, NEW d \in Documents, settleShown' = [settleShown EXCEPT ![k] = d],
             UNCHANGED <<orderShown, transferShown, voucherShown>>,
             NEW m \in Merchants, NEW b \in Int, NEW f \in Int, Promise!Move(m, b, f),
             Shifts(k, d, m, b, f)
      PROVE  ShownType' /\ Promise!Conserved'
  <2>1. ShownType'
    BY <1>2 DEF ShownType
  <2>2. ASSUME NEW n \in Merchants
        PROVE  Due(n)' = Due(n) + (IF n = m THEN b ELSE 0) /\ Held(n)' = Held(n) + (IF n = m THEN f ELSE 0)
    <3>1. /\ Due(n) \in Int /\ Held(n) \in Int
          /\ Due(n)' = Due(n) + Of(settleShown[k], n, {"pending", "paid"}) - Of(d, n, {"pending", "paid"})
          /\ Held(n)' = Held(n) - Of(settleShown[k], n, {"pending"}) + Of(d, n, {"pending"})
      BY <1>2, SettleBooks
    <3>2. \A states : Of(settleShown[k], n, states) \in Int /\ Of(d, n, states) \in Int
      BY DEF Of, Promise!Counts, Documents, ShownType
    <3> QED
      BY <1>2, <3>1, <3>2
  <2> QED
    BY <1>2, <2>1, <2>2, BooksMove
<1> HIDE DEF Shifts
<1>3. ASSUME NEW k \in Transfers, NEW d \in Documents, transferShown' = [transferShown EXCEPT ![k] = d],
             UNCHANGED <<orderShown, settleShown, voucherShown>>,
             NEW m \in Merchants, NEW b \in Int, Promise!Move(m, b, 0),
             \A n \in Merchants :
               Of(transferShown[k], n, {"pending", "done"}) - Of(d, n, {"pending", "done"}) = (IF n = m THEN b ELSE 0)
      PROVE  ShownType' /\ Promise!Conserved'
  <2>1. ShownType'
    BY <1>3 DEF ShownType
  <2>2. ASSUME NEW n \in Merchants
        PROVE  Due(n)' = Due(n) + (IF n = m THEN b ELSE 0) /\ Held(n)' = Held(n) + (IF n = m THEN 0 ELSE 0)
    <3>1. /\ Due(n) \in Int /\ Held(n) \in Int /\ Held(n)' = Held(n)
          /\ Due(n)' = Due(n) + Of(transferShown[k], n, {"pending", "done"}) - Of(d, n, {"pending", "done"})
      BY <1>3, TransferBooks
    <3>2. \A states : Of(transferShown[k], n, states) \in Int /\ Of(d, n, states) \in Int
      BY DEF Of, Promise!Counts, Documents, ShownType
    <3> QED
      BY <1>3, <3>1, <3>2
  <2> QED
    BY <1>3, <2>1, <2>2, BooksMove
<1>4. ASSUME NEW k \in Orders, Promise!PayOrder(k) \/ Promise!FreezeOrder(k) \/ Promise!UnfreezeOrder(k)
      PROVE  ShownType' /\ Promise!Conserved'
  <2>1. CASE Promise!PayOrder(k)
    BY <1>1, <2>1 DEF Promise!PayOrder
  <2>2. CASE Promise!FreezeOrder(k)
    BY <1>1, <2>2 DEF Promise!FreezeOrder
  <2>3. CASE Promise!UnfreezeOrder(k)
    BY <1>1, <2>3 DEF Promise!UnfreezeOrder
  <2> QED
    BY <1>4, <2>1, <2>2, <2>3
<1>5. ASSUME NEW k \in Settles, NEW m \in Merchants, NEW a \in Amounts, Promise!ApplySettle(k, m, a)
      PROVE  ShownType' /\ Promise!Conserved'
  <2>1. PICK d : d = Document(m, a, "pending")
    OBVIOUS
  <2>2. d \in Documents /\ a \in Int /\ -a \in Int /\ d.mch = m /\ d.state = "pending" /\ d.amount = a /\ d # NoRow
    BY <2>1, LedgerAssumption, NullAssumption DEF Document, Documents
  <2>3. /\ settleShown[k] = NoRow /\ settleShown' = [settleShown EXCEPT ![k] = d]
        /\ UNCHANGED <<orderShown, transferShown, voucherShown>> /\ Promise!Move(m, -a, a)
    BY <1>5, <2>1 DEF Promise!ApplySettle, Promise!Document, Document
  <2>4. \A n \in Merchants :
          /\ Of(settleShown[k], n, {"pending", "paid"}) - Of(d, n, {"pending", "paid"}) = (IF n = m THEN -a ELSE 0)
          /\ Of(d, n, {"pending"}) - Of(settleShown[k], n, {"pending"}) = (IF n = m THEN a ELSE 0)
    BY <2>2, <2>3 DEF Of, Promise!Counts
  <2>5. Shifts(k, d, m, -a, a)
    BY <2>4 DEF Shifts
  <2> QED
    BY <1>2, <2>2, <2>3, <2>5
<1>6. ASSUME NEW k \in Settles,
             Promise!EndSettle(k, "paid", 0) \/ Promise!EndSettle(k, "rejected", settleShown[k].amount)
      PROVE  ShownType' /\ Promise!Conserved'
  <2>1. PICK row, a, m : row = settleShown[k] /\ a = row.amount /\ m = row.mch
    OBVIOUS
  <2>2. row \in Documents /\ row # NoRow /\ row.state = "pending" /\ m \in Merchants /\ a \in Nat
    BY <1>6, <2>1 DEF Promise!EndSettle, Promise!Pending, ShownType, Documents
  <2>3. PICK st, b : /\ (st = "paid" /\ b = 0) \/ (st = "rejected" /\ b = a)
                     /\ Promise!EndSettle(k, st, b)
    BY <1>6, <2>1
  <2>4. PICK d : d = [row EXCEPT !.state = st]
    OBVIOUS
  <2>5. d \in Documents /\ d.mch = m /\ d.state = st /\ d.amount = a /\ d # NoRow
    <3>1. d \in Documents /\ d.mch = m /\ d.state = st /\ d.amount = a
      BY <2>1, <2>2, <2>3, <2>4 DEF Documents
    <3> QED
      BY <3>1, NullAssumption
  <2>6. /\ settleShown' = [settleShown EXCEPT ![k] = d] /\ Promise!Move(m, b, -a)
        /\ UNCHANGED <<orderShown, transferShown, voucherShown>>
    BY <2>1, <2>3, <2>4 DEF Promise!EndSettle
  <2>7. \A n \in Merchants :
          /\ Of(row, n, {"pending", "paid"}) - Of(d, n, {"pending", "paid"}) = (IF n = m THEN b ELSE 0)
          /\ Of(d, n, {"pending"}) - Of(row, n, {"pending"}) = (IF n = m THEN -a ELSE 0)
    BY <2>1, <2>2, <2>3, <2>5 DEF Of, Promise!Counts
  <2>8. b \in Int /\ -a \in Int
    BY <2>2, <2>3
  <2>9. \A n \in Merchants :
          /\ Of(settleShown[k], n, {"pending", "paid"}) - Of(d, n, {"pending", "paid"}) = (IF n = m THEN b ELSE 0)
          /\ Of(d, n, {"pending"}) - Of(settleShown[k], n, {"pending"}) = (IF n = m THEN -a ELSE 0)
    BY <2>1, <2>7
  <2>10. Shifts(k, d, m, b, -a)
    BY <2>9 DEF Shifts
  <2> QED
    BY <1>2, <2>2, <2>5, <2>6, <2>8, <2>10
<1>7. ASSUME NEW k \in Transfers, NEW m \in Merchants, NEW a \in Amounts, Promise!CreateTransfer(k, m, a)
      PROVE  ShownType' /\ Promise!Conserved'
  <2>1. PICK d : d = Document(m, a, "pending")
    OBVIOUS
  <2>2. d \in Documents /\ a \in Int /\ -a \in Int /\ d.mch = m /\ d.state = "pending" /\ d.amount = a /\ d # NoRow
    BY <2>1, LedgerAssumption, NullAssumption DEF Document, Documents
  <2>3. /\ transferShown[k] = NoRow /\ transferShown' = [transferShown EXCEPT ![k] = d]
        /\ UNCHANGED <<orderShown, settleShown, voucherShown>> /\ Promise!Move(m, -a, 0)
    BY <1>7, <2>1 DEF Promise!CreateTransfer, Promise!Document, Document
  <2>4. \A n \in Merchants :
          Of(transferShown[k], n, {"pending", "done"}) - Of(d, n, {"pending", "done"}) = (IF n = m THEN -a ELSE 0)
    BY <2>2, <2>3 DEF Of, Promise!Counts
  <2> QED
    BY <1>3, <2>2, <2>3, <2>4
<1>8. ASSUME NEW k \in Transfers,
             Promise!EndTransfer(k, "done", 0) \/ Promise!EndTransfer(k, "failed", transferShown[k].amount)
      PROVE  ShownType' /\ Promise!Conserved'
  <2>1. PICK row, a, m : row = transferShown[k] /\ a = row.amount /\ m = row.mch
    OBVIOUS
  <2>2. row \in Documents /\ row # NoRow /\ row.state = "pending" /\ m \in Merchants /\ a \in Nat
    BY <1>8, <2>1 DEF Promise!EndTransfer, Promise!Pending, ShownType, Documents
  <2>3. PICK st, b : /\ (st = "done" /\ b = 0) \/ (st = "failed" /\ b = a)
                     /\ Promise!EndTransfer(k, st, b)
    BY <1>8, <2>1
  <2>4. PICK d : d = [row EXCEPT !.state = st]
    OBVIOUS
  <2>5. d \in Documents /\ d.mch = m /\ d.state = st /\ d.amount = a /\ d # NoRow
    <3>1. d \in Documents /\ d.mch = m /\ d.state = st /\ d.amount = a
      BY <2>1, <2>2, <2>3, <2>4 DEF Documents
    <3> QED
      BY <3>1, NullAssumption
  <2>6. /\ transferShown' = [transferShown EXCEPT ![k] = d] /\ Promise!Move(m, b, 0)
        /\ UNCHANGED <<orderShown, settleShown, voucherShown>>
    BY <2>1, <2>3, <2>4 DEF Promise!EndTransfer
  <2>7. \A n \in Merchants :
          Of(row, n, {"pending", "done"}) - Of(d, n, {"pending", "done"}) = (IF n = m THEN b ELSE 0)
    BY <2>1, <2>2, <2>3, <2>5 DEF Of, Promise!Counts
  <2>8. b \in Int
    BY <2>2, <2>3
  <2>9. \A n \in Merchants :
          Of(transferShown[k], n, {"pending", "done"}) - Of(d, n, {"pending", "done"}) = (IF n = m THEN b ELSE 0)
    BY <2>1, <2>7
  <2>10. d \in Documents /\ m \in Merchants /\ b \in Int
    BY <2>2, <2>5, <2>8
  <2> QED
    BY <1>3, <2>6, <2>9, <2>10
<1>9. ASSUME NEW k \in Vouchers, NEW m \in Merchants, Promise!Redeem(k, m)
      PROVE  ShownType' /\ Promise!Conserved'
  <2>1. /\ voucherShown[k] = NoRow /\ voucherShown' = [voucherShown EXCEPT ![k] = m]
        /\ UNCHANGED <<orderShown, settleShown, transferShown>> /\ Promise!Move(m, Worth[k], 0)
    BY <1>9 DEF Promise!Redeem
  <2>2. ShownType'
    BY <2>1 DEF ShownType
  <2>3. PICK b : b = Worth[k]
    OBVIOUS
  <2>4. b \in Int /\ Promise!Move(m, b, 0)
    BY <2>1, <2>3, LedgerAssumption
  <2>5. ASSUME NEW n \in Merchants
        PROVE  Due(n)' = Due(n) + (IF n = m THEN b ELSE 0) /\ Held(n)' = Held(n) + (IF n = m THEN 0 ELSE 0)
    <3>1. /\ Due(n) \in Int /\ Held(n) \in Int /\ Held(n)' = Held(n)
          /\ Due(n)' = Due(n) + (IF n = m THEN b ELSE 0)
      BY <2>1, <2>3, VoucherBooks
    <3> QED
      BY <3>1
  <2> QED
    BY <2>2, <2>4, <2>5, BooksMove
<1> QED
  BY <1>4, <1>5, <1>6, <1>7, <1>8, <1>9 DEF Promise!Next

\* A row that counts is part of the total, an order of a merchant part of what
\* it earned, and none of it is negative.
LEMMA TotalAtLeast ==
  ASSUME NEW S, IsFiniteSet(S), NEW rows \in [S -> Documents \cup {NoRow}], NEW m, NEW states
  PROVE  /\ Promise!Total(rows, m, states) \in Nat
         /\ \A k \in S : Promise!Counts(rows[k], m, states) => Promise!Total(rows, m, states) >= rows[k].amount
<1>1. PICK A : A = {x \in DOMAIN rows : Promise!Counts(rows[x], m, states)}
  OBVIOUS
<1>2. PICK f : f = [x \in A |-> rows[x].amount]
  OBVIOUS
<1>3. IsFiniteSet(A) /\ DOMAIN f = A
  BY <1>1, <1>2, FS_Subset
<1>4. \A x \in A : f[x] \in Nat
  BY <1>1, <1>2 DEF Promise!Counts, Documents
<1>5. Promise!Total(rows, m, states) = Promise!SumFunction(f)
  BY <1>1, <1>2, Zenon DEF Promise!Total
<1>6. Promise!SumFunction(f) = SumFunctionOnSet(f, A)
  BY <1>3, SumsAgree DEF Promise!SumFunction
<1>7. SumFunctionOnSet(f, A) \in Nat
  BY <1>3, <1>4, SumNat
<1>8. ASSUME NEW k \in S, Promise!Counts(rows[k], m, states)
      PROVE  SumFunctionOnSet(f, A) >= rows[k].amount
  <2>1. k \in A /\ f[k] = rows[k].amount
    BY <1>1, <1>2, <1>8
  <2>2. SumFunctionOnSet(f, A) >= f[k]
    BY <1>3, <1>4, <2>1, SumAtLeast
  <2> QED
    BY <2>1, <2>2
<1> QED
  BY <1>5, <1>6, <1>7, <1>8

LEMMA EarnedAtLeast ==
  ASSUME NEW rows, NEW m, NEW states
  PROVE  /\ EarnedBy(rows, m, states) \in Nat
         /\ \A o \in Orders : OwnerOf[o] = m /\ rows[o] \in states => EarnedBy(rows, m, states) >= Income[o]
<1>1. PICK A : A = {o \in Orders : OwnerOf[o] = m /\ rows[o] \in states}
  OBVIOUS
<1>2. IsFiniteSet(A) /\ \A x \in A : Income[x] \in Nat
  <2>1. IsFiniteSet(Orders) /\ A \subseteq Orders /\ \A x \in Orders : Income[x] \in Nat
    BY <1>1, LedgerAssumption
  <2> QED
    BY <2>1, FS_Subset
<1>3. EarnedBy(rows, m, states) = SumFunctionOnSet(Income, A)
  BY <1>1 DEF EarnedBy
<1>4. SumFunctionOnSet(Income, A) \in Nat
  BY <1>2, SumNat
<1>5. \A x \in A : SumFunctionOnSet(Income, A) >= Income[x]
  BY <1>2, SumAtLeast
<1> QED
  BY <1>1, <1>3, <1>4, <1>5

\* When a handler is about to give frozen money back, it is there: reject and
\* orderUnfreeze, which go on whether or not they are refused, are not refused.
LEMMA FrozenCovers ==
  ASSUME LedgerInv, SerialInv, DocumentsInv, ShownType, Promise!Conserved,
         NEW t \in Threads, job[t] # NoJob, job[t].pc = "read", job[t].kind \in {"reject", "unfreeze"}
  PROVE  frozen[job[t].mch] >= job[t].amount
<1>1. PICK i, m, k, a : i = job[t] /\ m = job[t].mch /\ k = job[t].ref /\ a = job[t].amount
  OBVIOUS
<1>2. /\ i \in Job /\ i # NoJob /\ Tracks(i) /\ i.pc = "read" /\ i.kind \in {"reject", "unfreeze"}
      /\ i.mch = m /\ i.ref = k /\ i.amount = a
  BY <1>1, Working
<1>3. m \in Merchants /\ a \in Nat
  BY <1>2 DEF Job
<1>4. AtWork(k, i)
  BY <1>1, <1>2 DEF AtWork, DocumentsInv, OneHandlerPerDocument
<1>5. PICK x, y : x = Promise!Total(settleShown, m, {"pending"}) /\ y = EarnedBy(orderShown, m, {"frozen"})
  OBVIOUS
<1>6. frozen[m] = x + y
  BY <1>3, <1>5, Books DEF Held
<1>7. x \in Nat /\ \A s \in Settles : Promise!Counts(settleShown[s], m, {"pending"}) => x >= settleShown[s].amount
  <2>1. settleShown \in [Settles -> Documents \cup {NoRow}] /\ IsFiniteSet(Settles)
    BY LedgerAssumption DEF ShownType
  <2> QED
    BY <1>5, <2>1, TotalAtLeast
<1>8. y \in Nat /\ \A o \in Orders : OwnerOf[o] = m /\ orderShown[o] \in {"frozen"} => y >= Income[o]
  BY <1>5, EarnedAtLeast
<1>9. CASE i.kind = "reject"
  <2>1. k \in Settles /\ settle[k] = Document(m, a, "pending")
    BY <1>2, <1>9 DEF Tracks, OnSettle
  <2>2. settleShown[k] = ShownSettle(i, settle[k])
    BY <1>2, <1>4, <2>1, ShowsTables DEF Shows
  <2>3. settleShown[k] = Document(m, a, "pending")
    BY <1>2, <1>9, <2>1, <2>2 DEF ShownSettle, Moved
  <2>4. Document(m, a, "pending") # NoRow
    BY <1>3, NullAssumption DEF Document, Documents
  <2>5. Promise!Counts(settleShown[k], m, {"pending"}) /\ settleShown[k].amount = a
    BY <2>3, <2>4 DEF Promise!Counts, Document
  <2>6. x >= a
    BY <1>7, <2>1, <2>5
  <2> QED
    BY <1>1, <1>3, <1>6, <1>7, <1>8, <2>6
<1>10. CASE i.kind = "unfreeze"
  <2>1. k \in Orders /\ m = OwnerOf[k] /\ a = Income[k] /\ order[k] = "frozen"
    BY <1>2, <1>10 DEF Tracks, OnOrder
  <2>2. orderShown[k] = ShownOrder(i, order[k])
    BY <1>2, <1>4, <2>1, ShowsTables DEF Shows
  <2>3. orderShown[k] = "frozen"
    BY <1>2, <1>10, <2>1, <2>2 DEF ShownOrder, Moved
  <2>4. y >= a
    BY <1>8, <2>1, <2>3
  <2> QED
    BY <1>1, <1>3, <1>6, <1>7, <1>8, <2>4
<1> QED
  BY <1>2, <1>9, <1>10

-----------------------------------------------------------------------------
(* The refinement.  In every reachable state the handlers know their documents, *)
(* and the books that Accounts keeps of the documents shown are right; so each  *)
(* statement is a step of Accounts, or none.                                    *)

PromiseInv == LedgerInv /\ SerialInv /\ DocumentsInv /\ ShownType /\ Promise!Conserved

LEMMA PromiseInit == Init => PromiseInv /\ Promise!Init
<1> SUFFICES ASSUME Init PROVE PromiseInv /\ Promise!Init
  OBVIOUS
<1>1. LedgerInv /\ SerialInv
  BY LedgerInit, SerialInit
<1>2. \A t \in Threads : job[t] = NoJob
  BY DEF Init
<1>3. DocumentsInv
  BY <1>2 DEF DocumentsInv, JobsTrack, OneHandlerPerDocument, CreditsFollow, Is, Doing, Init
<1>4. /\ \A k \in Orders : orderShown[k] = "unpaid"
      /\ \A k \in Settles : settleShown[k] = NoRow
      /\ \A k \in Transfers : transferShown[k] = NoRow
      /\ \A k \in Vouchers : voucherShown[k] = NoRow
  <2>1. \A k : AtWork(k, NoJob)
    BY <1>2 DEF AtWork
  <2>2. /\ \A k \in Orders : order[k] = "unpaid"
        /\ \A k \in Settles : settle[k] = NoRow
        /\ \A k \in Transfers : transfer[k] = NoRow
        /\ \A k \in Vouchers : voucher[k] = NoRow
    BY DEF Init
  <2> QED
    BY <2>1, <2>2, ShowsTables DEF Shows, ShownOrder, ShownSettle, ShownTransfer, ShownVoucher
<1>5. /\ orderShown = [k \in Orders |-> "unpaid"] /\ settleShown = [k \in Settles |-> NoRow]
      /\ transferShown = [k \in Transfers |-> NoRow] /\ voucherShown = [k \in Vouchers |-> NoRow]
  BY <1>4, ShownFunctions
<1>6. ShownType
  BY <1>5 DEF ShownType
<1>7. Promise!Init
  BY <1>5 DEF Promise!Init, Init
<1>8. ASSUME NEW m \in Merchants
      PROVE  Due(m) = 0 /\ Held(m) = 0
  <2>1. ASSUME NEW states, "unpaid" \notin states
        PROVE  EarnedBy(orderShown, m, states) = 0
    <3>1. {o \in Orders : OwnerOf[o] = m /\ orderShown[o] \in states} = {}
      BY <1>4, <2>1
    <3> QED
      BY <3>1, SumEmpty DEF EarnedBy
  <2>2. RedeemedBy(voucherShown, m) = 0
    <3>1. {v \in Vouchers : voucherShown[v] = m} = {}
      BY <1>4, NullAssumption
    <3> QED
      BY <3>1, SumEmpty DEF RedeemedBy
  <2>3. ASSUME NEW S, NEW rows, rows = [k \in S |-> NoRow], NEW states
        PROVE  Promise!Total(rows, m, states) = 0
    <3>1. PICK A : A = {x \in DOMAIN rows : Promise!Counts(rows[x], m, states)}
      OBVIOUS
    <3>2. PICK f : f = [x \in A |-> rows[x].amount]
      OBVIOUS
    <3>3. A = {} /\ DOMAIN f = A
      BY <2>3, <3>1, <3>2 DEF Promise!Counts
    <3>4. Promise!Total(rows, m, states) = Promise!SumFunction(f)
      BY <3>1, <3>2, Zenon DEF Promise!Total
    <3>5. Promise!SumFunction(f) = SumFunctionOnSet(f, {})
      BY <3>3, SumsAgree DEF Promise!SumFunction
    <3> QED
      BY <3>4, <3>5, SumEmpty
  <2>4. \A states : Promise!Total(settleShown, m, states) = 0 /\ Promise!Total(transferShown, m, states) = 0
    BY <1>5, <2>3
  <2> QED
    BY <2>1, <2>2, <2>4 DEF Due, Held
<1>9. Promise!Conserved
  BY <1>8, Books DEF Init
<1> QED
  BY <1>1, <1>3, <1>6, <1>7, <1>9 DEF PromiseInv

LEMMA HandlersStep ==
  ASSUME PromiseInv, Serial, Handlers \subseteq Careful, NEW t \in Threads, Arrive(t) \/ Continue(t)
  PROVE  DocumentsInv' /\ (UNCHANGED Promise!accounts \/ Promise!Next)
<1>0. LedgerInv /\ SerialInv /\ DocumentsInv /\ ShownType /\ Promise!Conserved
  BY DEF PromiseInv
<1>1. CASE Arrive(t)
  BY <1>0, <1>1, ArriveStutters
<1>2. CASE ReadBalance(t)
  <2>1. job[t] # NoJob /\ job[t].pc = "read"
    BY <1>2 DEF ReadBalance, At
  <2>2. job[t].kind \in {"reject", "unfreeze"} => frozen[job[t].mch] >= job[t].amount
    BY <1>0, <2>1, FrozenCovers
  <2> QED
    BY <1>0, <1>2, <2>2, ReadStutters
<1>3. CASE WriteBalance(t)
  BY <1>0, <1>3, WriteChanges
<1>4. CASE WriteLog(t)
  BY <1>0, <1>4, LogStutters
<1>5. CASE PayMark(t)
  BY <1>0, <1>5, MarkStutters
<1>6. CASE ApplyPending(t)
  BY <1>0, <1>6, PendingStutters
<1>7. CASE ChannelAccepts(t)
  BY <1>0, <1>7, TransferDone
<1>8. ~CallbackAdd(t) /\ ~AutoInsert(t)
  <2>1. job[t] # NoJob => Tracks(job[t])
    BY <1>0 DEF DocumentsInv, JobsTrack
  <2> QED
    BY <2>1 DEF CallbackAdd, AutoInsert, At, Tracks, StepsOf, Careful
<1>9. CASE OrderFinal(t) \/ RedeemFinal(t) \/ ApplyInsert(t) \/ SettleFinal(t) \/ ChannelNone(t)
  BY <1>0, <1>9, FinalStutters
<1>10. CASE TransferInsert(t) \/ ChannelFails(t)
  BY <1>0, <1>10, TransferStutters
<1>11. CASE TransferFinal(t)
  <2>1. job[t].kind \in {"confirm", "notifyOk"} \/ job[t].kind \in {"cancel", "notifyFail", "transferFail"}
    BY <1>11 DEF TransferFinal, TransferEnds
  <2>2. CASE job[t].kind \in {"confirm", "notifyOk"}
    BY <1>0, <1>11, <2>2, TransferDone
  <2>3. CASE job[t].kind \in {"cancel", "notifyFail", "transferFail"}
    BY <1>0, <1>11, <2>3, FinalStutters
  <2> QED
    BY <2>1, <2>2, <2>3
<1> QED
  BY <1>1, <1>2, <1>3, <1>4, <1>5, <1>6, <1>7, <1>8, <1>9, <1>10, <1>11 DEF Continue

\* A step of a handler is a step of Accounts, and leaves everything in order.
LEMMA PromiseStep ==
  ASSUME Serial, MaxCrashes = 0, Handlers \subseteq Careful
  PROVE  PromiseInv /\ [Next]_vars => PromiseInv' /\ [Promise!Next]_(Promise!accounts)
<1> SUFFICES ASSUME PromiseInv, [Next]_vars
             PROVE  PromiseInv' /\ [Promise!Next]_(Promise!accounts)
  OBVIOUS
<1>0. LedgerInv /\ SerialInv /\ DocumentsInv /\ ShownType /\ Promise!Conserved
  BY DEF PromiseInv
<1>1. LedgerInv' /\ SerialInv'
  <2>1. "manual" \notin Handlers
    BY DEF Careful
  <2>2. LedgerInv'
    BY <1>0, <2>1, LedgerStep
  <2>3. SerialInv'
    BY <1>0, SerialStep
  <2> QED
    BY <2>2, <2>3
<1>2. DocumentsInv' /\ (UNCHANGED Promise!accounts \/ Promise!Next)
  <2>1. ASSUME NEW t \in Threads, Arrive(t) \/ Continue(t)
        PROVE  DocumentsInv' /\ (UNCHANGED Promise!accounts \/ Promise!Next)
    BY <2>1, HandlersStep
  <2>2. ~Crash
    BY <1>0 DEF Crash, LedgerInv, TypeOK
  <2>3. ASSUME UNCHANGED vars
        PROVE  DocumentsInv' /\ UNCHANGED Promise!accounts
    <3>1. /\ UNCHANGED <<balance, frozen, credits, order, settle, transfer, voucher>> /\ UNCHANGED job
      BY <2>3 DEF vars
    <3>2. DocumentsInv'
      <4>1. JobsTrack'
        BY <1>0, <3>1 DEF DocumentsInv, JobsTrack, Tracks, OnOrder, OnVoucher, OnNewSettle, OnSettle, OnTransfer, Pending
      <4>2. OneHandlerPerDocument'
        BY <1>0, <3>1 DEF DocumentsInv, OneHandlerPerDocument
      <4>3. CreditsFollow'
        BY <1>0, <3>1 DEF DocumentsInv, CreditsFollow, Is, Doing
      <4> QED
        BY <4>1, <4>2, <4>3 DEF DocumentsInv
    <3>3. UNCHANGED <<orderShown, settleShown, transferShown, voucherShown>>
      BY <3>1 DEF orderShown, settleShown, transferShown, voucherShown, NewDocument, Is, Doing
    <3> QED
      BY <3>1, <3>2, <3>3 DEF Promise!accounts
  <2> QED
    BY <2>1, <2>2, <2>3 DEF Next, AllServed
<1>3. ShownType' /\ Promise!Conserved'
  <2>1. CASE Promise!Next
    <3>1. balance \in [Merchants -> Int] /\ frozen \in [Merchants -> Int]
      BY <1>0 DEF LedgerInv, TypeOK
    <3> QED
      BY <1>0, <2>1, <3>1, AccountsStep
  <2>2. CASE UNCHANGED Promise!accounts
    <3>1. UNCHANGED <<balance, frozen, orderShown, settleShown, transferShown, voucherShown>>
      BY <2>2 DEF Promise!accounts
    <3>2. ShownType'
      BY <1>0, <3>1 DEF ShownType
    <3>3. \A m : Due(m)' = Due(m) /\ Held(m)' = Held(m)
      BY <3>1 DEF Due, Held
    <3> QED
      BY <1>0, <3>1, <3>2, <3>3, Books, BooksNext
  <2> QED
    BY <1>2, <2>1, <2>2
<1> QED
  BY <1>1, <1>2, <1>3 DEF PromiseInv

\* The handlers implement Accounts: with one handler per merchant and document
\* at a time and no restart, every payment, freeze, settlement, transfer and
\* voucher changes its document and its money as if in one step, and is taken
\* at most once, for any number of merchants, documents and threads.  (Careful
\* leaves out what does not: a manual settlement or adjustment, whose money
\* belongs to no document, a frozen order marked paid again, a callback, which
\* credits the fee as well, and autoSettle.)
THEOREM PromiseKept ==
  ASSUME Serial, MaxCrashes = 0, Handlers \subseteq Careful
  PROVE  Spec => KeepsPromise
<1>1. Init => PromiseInv /\ Promise!Init
  BY PromiseInit
<1>2. PromiseInv /\ [Next]_vars => PromiseInv' /\ [Promise!Next]_(Promise!accounts)
  BY PromiseStep
<1> QED
  BY <1>1, <1>2, PTL DEF Spec, KeepsPromise, Promise!Spec

\* Not a cent is lost or made, nor frozen for nothing: every balance is the sum
\* of what the merchant's documents brought in and took out, every frozen amount
\* that of its open settlements and frozen orders.
THEOREM BooksBalance ==
  ASSUME Serial, MaxCrashes = 0, Handlers \subseteq Careful
  PROVE  Spec => []NothingLost
<1>1. PromiseInv => NothingLost
  BY DEF PromiseInv, NothingLost
<1>2. PromiseInv /\ [Next]_vars => PromiseInv'
  BY PromiseStep
<1> QED
  BY PromiseInit, <1>1, <1>2, PTL DEF Spec

\* No order is credited twice, however often its payment is notified, made up
\* and its money frozen and released.
THEOREM NoDoubleCredit ==
  ASSUME Serial, MaxCrashes = 0, Handlers \subseteq Careful
  PROVE  Spec => []CreditedOnce
<1>1. PromiseInv => CreditedOnce
  BY DEF PromiseInv, DocumentsInv, CreditsFollow, CreditedOnce
<1>2. PromiseInv /\ [Next]_vars => PromiseInv'
  BY PromiseStep
<1> QED
  BY PromiseInit, <1>1, <1>2, PTL DEF Spec
=============================================================================
