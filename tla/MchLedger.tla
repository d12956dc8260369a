----------------------------- MODULE MchLedger -----------------------------
(***************************************************************************)
(* The merchant accounts: ChannelService::changeMchBalance and the         *)
(* handlers that move money with it.                                       *)
(*                                                                         *)
(*   notify/NotifyReceiveCtrl.h  handleChannelNotify, transferNotify       *)
(*                               handleSourceCompatBiz (recharges)         *)
(*   common/PaymentService.h     processPayment                            *)
(*   gateway/NotifyCallbackCtrl.h  payNotify                               *)
(*   admin/AdminExtraCtrl.h      orderFreeze, orderUnfreeze                *)
(*   admin/AdminSourceCompatCtrl.h  orderMakeUp, rechargeConfirm, moneyAdjust *)
(*   merchant/MerchantSourceCompatCtrl.h  cdkRedeem                        *)
(*   merchant/MerchantSettleCtrl.h, admin/AdminSettleCtrl.h  settlements   *)
(*   common/ReconcileService.h   autoSettle                                *)
(*   merchant/MerchantTransferCtrl.h, admin/TransferCtrl.h   transfers     *)
(*                                                                         *)
(* A handler is split at each database statement.  changeMchBalance is     *)
(* three of them: it reads balance and frozen, writes what it computed, and *)
(* appends to money_log.  Amounts are integers, in cents.                  *)
(***************************************************************************)
EXTENDS Integers, FiniteSets, Functions

CONSTANTS
  Merchants,
  Orders,     \* orders that have a merchant
  Settles,    \* bound: settlement numbers generateSettleNo returns
  Transfers,  \* bound: transfer numbers
  Vouchers,   \* recharge orders, and CDK codes for money
  Amounts,    \* amounts that are settled, transferred or adjusted, in cents
  OwnerOf,    \* merchant of each order
  Price,      \* amount of each order
  Income,     \* amount - mch_fee_amount of each order
  Worth,      \* amount of each voucher
  UsableBy,   \* merchants each voucher can be used by: a recharge's own, any for a CDK
  MinSettle,  \* least amount ReconcileService::autoSettle settles
  Handlers,   \* bound: the kinds of request that arrive
  Threads,    \* request handler threads
  Serial,     \* TRUE: no two handlers work on one merchant or document at a time
  ManualChanges, \* change types AdminSettleCtrl's manual adjustments ask for
  MaxRequests, \* bound: requests that arrive
  MaxCrashes, \* bound: restarts of the process
  NoRow, NoJob

ASSUME LedgerAssumption ==
  /\ Amounts \subseteq Nat \ {0}
  /\ OwnerOf \in [Orders -> Merchants]
  /\ Income \in [Orders -> Nat \ {0}] /\ Price \in [Orders -> Nat \ {0}]
  /\ Worth \in [Vouchers -> Nat] /\ UsableBy \in [Vouchers -> SUBSET Merchants]
  /\ MinSettle \in Nat \ {0}
  /\ Serial \in BOOLEAN
  /\ ManualChanges \subseteq 1..6
  /\ MaxRequests \in Nat /\ MaxCrashes \in Nat
  /\ \A table \in {Orders, Settles, Transfers, Vouchers} : IsFiniteSet(table)

VARIABLES
  balance,  \* merchant.balance
  frozen,   \* merchant.frozen
  logged,   \* money_log: sum of after_amount - before_amount of each merchant
  credits,  \* money_log: rows that credit each order
  order,    \* pay_order.state
  settle,   \* settle_order
  transfer, \* transfer_order
  voucher,  \* recharge_order, cdk_code: the merchant that has used it
  job,      \* what each thread is doing
  requests, \* requests so far
  crashes   \* restarts so far

tables == <<balance, frozen, logged, credits, order, settle, transfer, voucher>>
vars == <<balance, frozen, logged, credits, order, settle, transfer, voucher, job, requests, crashes>>

Document(m, a, s) == [mch |-> m, amount |-> a, state |-> s]
Documents == [mch : Merchants, amount : Nat, state : {"pending", "paid", "rejected", "done", "failed"}]
Pending(rows, k) == rows[k] # NoRow /\ rows[k].state = "pending"

\* change_type of changeMchBalance
INCOME == 1
EXPENSE == 2
FREEZE == 3
UNFREEZE == 4
SETTLE == 5
REFUND == 6

Steps == {"mark", "pending", "read", "write", "add", "log", "insert", "channel", "final"}

\* Handlers that mark an order paid and credit it
Payers == {"pay", "makeUp", "payAgain", "callback"}

Kinds == Payers \cup {"redeem", "adjust", "freeze", "unfreeze", "apply", "approve", "reject", "auto", "manual", "transfer",
          "transferFail", "confirm", "cancel", "notifyOk", "notifyFail"}

\* A handler: its kind, merchant and document, the amount it moves and how, its
\* next statement, and changeMchBalance's before, balance and frozen.
Job == [kind : Kinds, mch : Merchants, ref : Orders \cup Settles \cup Transfers \cup Vouchers \cup {NoRow},
        amount : Nat, change : 1..6, pc : Steps, before : Int, newBalance : Int, newFrozen : Int]

ASSUME HandlersAssumption == Handlers \subseteq Kinds
ASSUME NullAssumption ==
  /\ NoRow \notin Documents \cup Merchants \cup Orders \cup Settles \cup Transfers \cup Vouchers
  /\ NoJob \notin Job

Init ==
  /\ balance = [m \in Merchants |-> 0]
  /\ frozen = [m \in Merchants |-> 0]
  /\ logged = [m \in Merchants |-> 0]
  /\ credits = [o \in Orders |-> 0]
  /\ order = [o \in Orders |-> "unpaid"]
  /\ settle = [s \in Settles |-> NoRow]
  /\ transfer = [x \in Transfers |-> NoRow]
  /\ voucher = [v \in Vouchers |-> NoRow]
  /\ job = [t \in Threads |-> NoJob]
  /\ requests = 0
  /\ crashes = 0

-----------------------------------------------------------------------------
(* Thread bookkeeping *)

Begin(t, kind, m, ref, a, change, pc) ==
  /\ kind \in Handlers
  /\ requests < MaxRequests
  /\ requests' = requests + 1
  /\ job[t] = NoJob
  /\ Serial => \A u \in Threads :
       job[u] # NoJob => job[u].mch # m /\ (ref # NoRow => job[u].ref # ref)
  /\ job' = [job EXCEPT ![t] =
       [kind |-> kind, mch |-> m, ref |-> ref, amount |-> a, change |-> change, pc |-> pc,
        before |-> 0, newBalance |-> 0, newFrozen |-> 0]]
  /\ UNCHANGED <<balance, frozen, logged, credits, order, settle, transfer, voucher, crashes>>

At(t, pc) == job[t] # NoJob /\ job[t].pc = pc
GoTo(t, pc) == job' = [job EXCEPT ![t].pc = pc]
Finish(t) == job' = [job EXCEPT ![t] = NoJob]

\* generateSettleNo, generateTransferNo: a number nobody else has
Fresh(rows) == {k \in DOMAIN rows : rows[k] = NoRow /\ \A t \in Threads : job[t] # NoJob => job[t].ref # k}

-----------------------------------------------------------------------------
(* changeMchBalance *)

\* (faulty variant: unfreezing leaves the money frozen as well)
FrozenAfterKept(change, f, a) ==
  IF change = FREEZE THEN f + a ELSE IF change = SETTLE THEN f - a ELSE f

BalanceAfter(change, b, a) ==
  IF change \in {INCOME, UNFREEZE} THEN b + a
  ELSE IF change \in {EXPENSE, FREEZE, REFUND} THEN b - a ELSE b
FrozenAfter(change, f, a) ==
  IF change = FREEZE THEN f + a ELSE IF change \in {UNFREEZE, SETTLE} THEN f - a ELSE f

\* (faulty variant: frozen money is not asked for)
EnoughBalance(change, b, f, a) == change \in {EXPENSE, FREEZE} => b >= a

Enough(change, b, f, a) ==
  /\ change \in {EXPENSE, FREEZE} => b >= a
  /\ change \in {UNFREEZE, SETTLE} => f >= a

\* What the handlers do when changeMchBalance returns false: reject and
\* orderUnfreeze go on, the others answer with an error.
Refused(t) ==
  IF job[t].kind \in {"reject", "unfreeze"} THEN GoTo(t, "final") ELSE Finish(t)

ReadBalance(t) ==
  /\ At(t, "read")
  /\ LET j == job[t]
         b == balance[j.mch]
         f == frozen[j.mch]
     IN  IF Enough(j.change, b, f, j.amount)
           THEN job' = [job EXCEPT ![t] = [j EXCEPT !.pc = "write", !.before = b,
                          !.newBalance = BalanceAfter(j.change, b, j.amount),
                          !.newFrozen = FrozenAfter(j.change, f, j.amount)]]
           ELSE Refused(t)
  /\ UNCHANGED <<tables, requests, crashes>>

\* UPDATE merchant SET balance=?,frozen=?: the numbers computed from the SELECT
WriteBalance(t) ==
  /\ At(t, "write")
  /\ balance' = [balance EXCEPT ![job[t].mch] = job[t].newBalance]
  /\ frozen' = [frozen EXCEPT ![job[t].mch] = job[t].newFrozen]
  /\ GoTo(t, "log")
  /\ UNCHANGED <<logged, credits, order, settle, transfer, voucher, requests, crashes>>

\* INSERT INTO money_log, and where the handler goes on
AfterChange(kind) ==
  IF kind \in {"apply", "transfer"} THEN "insert"
  ELSE IF kind \in Payers \cup {"manual", "adjust"} THEN "end" ELSE "final"

\* (faulty variant: the log has the amount, not the change of the balance)
WriteLogUnsigned(t) ==
  /\ At(t, "log")
  /\ logged' = [logged EXCEPT ![job[t].mch] = @ + job[t].amount]
  /\ credits' = IF job[t].kind \in Payers THEN [credits EXCEPT ![job[t].ref] = @ + 1] ELSE credits
  /\ IF AfterChange(job[t].kind) = "end" THEN Finish(t) ELSE GoTo(t, AfterChange(job[t].kind))
  /\ UNCHANGED <<balance, frozen, order, settle, transfer, voucher, requests, crashes>>

WriteLog(t) ==
  /\ At(t, "log")
  /\ logged' = [logged EXCEPT ![job[t].mch] = @ + job[t].newBalance - job[t].before]
  /\ credits' = IF job[t].kind \in Payers THEN [credits EXCEPT ![job[t].ref] = @ + 1] ELSE credits
  /\ IF AfterChange(job[t].kind) = "end" THEN Finish(t) ELSE GoTo(t, AfterChange(job[t].kind))
  /\ UNCHANGED <<balance, frozen, order, settle, transfer, voucher, requests, crashes>>

-----------------------------------------------------------------------------
(* Orders.  The channel's notification of a payment (processPayment does the  *)
(* same for a payment a device reports): SELECT, UPDATE ... WHERE state=0     *)
(* whose result nobody looks at, credit.  The other two ways to mark an order *)
(* paid refuse only an order that is paid now, and their UPDATE nothing.      *)

\* (faulty variant: the state of the order is not asked for)
PayNotifyAgain(t, o) == Begin(t, "pay", OwnerOf[o], o, Income[o], INCOME, "mark")

PayNotify(t, o) ==
  /\ order[o] = "unpaid"
  /\ Begin(t, "pay", OwnerOf[o], o, Income[o], INCOME, "mark")

\* orderMakeUp; of a frozen order it is a second payment
OrderMakeUp(t, o) ==
  /\ order[o] # "paid"
  /\ Begin(t, IF order[o] = "unpaid" THEN "makeUp" ELSE "payAgain", OwnerOf[o], o, Income[o], INCOME, "mark")

\* payNotify credits the amount without deducting the fee.
PayCallback(t, o) ==
  /\ order[o] # "paid"
  /\ Begin(t, "callback", OwnerOf[o], o, Price[o], INCOME, "mark")

PayMark(t) ==
  /\ At(t, "mark")
  /\ order' = IF order[job[t].ref] = "unpaid" \/ job[t].kind # "pay"
                THEN [order EXCEPT ![job[t].ref] = "paid"] ELSE order
  /\ GoTo(t, IF job[t].kind = "callback" THEN "add" ELSE "read")
  /\ UNCHANGED <<balance, frozen, logged, credits, settle, transfer, voucher, requests, crashes>>

\* payNotify: UPDATE merchant SET balance=balance+?; its row of the log takes the
\* numbers it finds then, whose difference is the amount.
CallbackAdd(t) ==
  /\ At(t, "add")
  /\ LET j == job[t]
         b == balance[j.mch] + j.amount
     IN  /\ balance' = [balance EXCEPT ![j.mch] = b]
         /\ job' = [job EXCEPT ![t] = [j EXCEPT !.pc = "log", !.before = b - j.amount, !.newBalance = b]]
  /\ UNCHANGED <<frozen, logged, credits, order, settle, transfer, voucher, requests, crashes>>

OrderFreeze(t, o) ==
  /\ order[o] = "paid"
  /\ Begin(t, "freeze", OwnerOf[o], o, Income[o], FREEZE, "read")

OrderUnfreeze(t, o) ==
  /\ order[o] = "frozen"
  /\ Begin(t, "unfreeze", OwnerOf[o], o, Income[o], UNFREEZE, "read")

\* UPDATE pay_order SET state=?: no condition on the state
OrderFinal(t) ==
  /\ At(t, "final") /\ job[t].kind \in {"freeze", "unfreeze"}
  /\ order' = [order EXCEPT ![job[t].ref] = IF job[t].kind = "freeze" THEN "frozen" ELSE "paid"]
  /\ Finish(t)
  /\ UNCHANGED <<balance, frozen, logged, credits, settle, transfer, voucher, requests, crashes>>

-----------------------------------------------------------------------------
(* Settlements *)

Apply(t, m, a) ==
  /\ balance[m] >= a
  /\ \E s \in Fresh(settle) : Begin(t, "apply", m, s, a, FREEZE, "pending")

\* SELECT id FROM settle_order WHERE mch_id=? AND state IN (0,1)
ApplyPending(t) ==
  /\ At(t, "pending")
  /\ IF \E s \in Settles : Pending(settle, s) /\ settle[s].mch = job[t].mch
       THEN Finish(t) ELSE GoTo(t, "read")
  /\ UNCHANGED <<tables, requests, crashes>>

ApplyInsert(t) ==
  /\ At(t, "insert") /\ job[t].kind = "apply"
  /\ settle' = [settle EXCEPT ![job[t].ref] = Document(job[t].mch, job[t].amount, "pending")]
  /\ Finish(t)
  /\ UNCHANGED <<balance, frozen, logged, credits, order, transfer, voucher, requests, crashes>>

\* (faulty variant: the state of the settlement is not asked for)
ApproveAny(t, s) ==
  /\ settle[s] # NoRow
  /\ Begin(t, "approve", settle[s].mch, s, settle[s].amount, SETTLE, "read")

Approve(t, s) ==
  /\ Pending(settle, s)
  /\ Begin(t, "approve", settle[s].mch, s, settle[s].amount, SETTLE, "read")

Reject(t, s) ==
  /\ Pending(settle, s)
  /\ Begin(t, "reject", settle[s].mch, s, settle[s].amount, UNFREEZE, "read")

\* UPDATE settle_order SET state=?: no condition on the state
SettleFinal(t) ==
  /\ At(t, "final") /\ job[t].kind \in {"approve", "reject"}
  /\ settle' = [settle EXCEPT ![job[t].ref].state =
                  IF job[t].kind = "approve" THEN "paid" ELSE "rejected"]
  /\ Finish(t)
  /\ UNCHANGED <<balance, frozen, logged, credits, order, transfer, voucher, requests, crashes>>

\* ReconcileService::autoSettle: a settlement of all the frozen money
AutoSettle(t, m) ==
  /\ frozen[m] >= MinSettle
  /\ \E s \in Fresh(settle) : Begin(t, "auto", m, s, frozen[m], SETTLE, "insert")

AutoInsert(t) ==
  /\ At(t, "insert") /\ job[t].kind = "auto"
  /\ settle' = [settle EXCEPT ![job[t].ref] = Document(job[t].mch, job[t].amount, "pending")]
  /\ Finish(t)
  /\ UNCHANGED <<balance, frozen, logged, credits, order, transfer, voucher, requests, crashes>>

-----------------------------------------------------------------------------
(* Transfers *)

CreateTransfer(t, m, a) ==
  /\ balance[m] >= a
  /\ \E x \in Fresh(transfer) : Begin(t, "transfer", m, x, a, EXPENSE, "read")

TransferInsert(t) ==
  /\ At(t, "insert") /\ job[t].kind = "transfer"
  /\ transfer' = [transfer EXCEPT ![job[t].ref] = Document(job[t].mch, job[t].amount, "pending")]
  /\ GoTo(t, "channel")
  /\ UNCHANGED <<balance, frozen, logged, credits, order, settle, voucher, requests, crashes>>

\* No channel or no plugin: the row stays as it is.
ChannelNone(t) ==
  /\ At(t, "channel")
  /\ Finish(t)
  /\ UNCHANGED <<tables, requests, crashes>>

\* plugin->transfer succeeded: UPDATE ... SET state = 0 (in progress) or 1
ChannelAccepts(t) ==
  /\ At(t, "channel")
  /\ \E s \in {"pending", "done"} :
       transfer' = [transfer EXCEPT ![job[t].ref].state = s]
  /\ Finish(t)
  /\ UNCHANGED <<balance, frozen, logged, credits, order, settle, voucher, requests, crashes>>

\* plugin->transfer failed: the money goes back
ChannelFails(t) ==
  /\ At(t, "channel")
  /\ job' = [job EXCEPT ![t] = [@ EXCEPT !.kind = "transferFail", !.change = INCOME, !.pc = "read"]]
  /\ UNCHANGED <<tables, requests, crashes>>

Confirm(t, x) ==
  /\ Pending(transfer, x)
  /\ Begin(t, "confirm", transfer[x].mch, x, transfer[x].amount, INCOME, "final")

Cancel(t, x) ==
  /\ Pending(transfer, x)
  /\ Begin(t, "cancel", transfer[x].mch, x, transfer[x].amount, INCOME, "read")

TransferNotify(t, x, ok) ==
  /\ Pending(transfer, x)
  /\ Begin(t, IF ok THEN "notifyOk" ELSE "notifyFail",
           transfer[x].mch, x, transfer[x].amount, INCOME, IF ok THEN "final" ELSE "read")

TransferEnds == {"confirm", "notifyOk", "cancel", "notifyFail", "transferFail"}

\* UPDATE transfer_order SET state=?: no condition on the state
TransferFinal(t) ==
  /\ At(t, "final") /\ job[t].kind \in TransferEnds
  /\ transfer' = [transfer EXCEPT ![job[t].ref].state =
                    IF job[t].kind \in {"confirm", "notifyOk"} THEN "done" ELSE "failed"]
  /\ Finish(t)
  /\ UNCHANGED <<balance, frozen, logged, credits, order, settle, voucher, requests, crashes>>

-----------------------------------------------------------------------------
(* Vouchers: rechargeConfirm, the payment of a recharge, and cdkRedeem        *)

Redeem(t, v, m) ==
  /\ voucher[v] = NoRow /\ m \in UsableBy[v]
  /\ Begin(t, "redeem", m, v, Worth[v], INCOME, "read")

\* UPDATE recharge_order, cdk_code SET state=1: no condition on the state
RedeemFinal(t) ==
  /\ At(t, "final") /\ job[t].kind = "redeem"
  /\ voucher' = [voucher EXCEPT ![job[t].ref] = job[t].mch]
  /\ Finish(t)
  /\ UNCHANGED <<balance, frozen, logged, credits, order, settle, transfer, requests, crashes>>

-----------------------------------------------------------------------------
\* moneyAdjust: the sign says which
Adjust(t, m, change, a) ==
  Begin(t, "adjust", m, NoRow, a, change, "read")

\* AdminSettleCtrl::manual
Manual(t, m, change, a) == Begin(t, "manual", m, NoRow, a, change, "read")

\* A restart: the tables stay, the handlers are gone.
Crash ==
  /\ crashes < MaxCrashes
  /\ crashes' = crashes + 1
  /\ job' = [t \in Threads |-> NoJob]
  /\ UNCHANGED <<tables, requests>>

Arrive(t) ==
  \/ \E o \in Orders :
       \/ PayNotify(t, o) \/ OrderMakeUp(t, o) \/ PayCallback(t, o)
       \/ OrderFreeze(t, o) \/ OrderUnfreeze(t, o)
  \/ \E s \in Settles : Approve(t, s) \/ Reject(t, s)
  \/ \E x \in Transfers :
       Confirm(t, x) \/ Cancel(t, x) \/ \E ok \in BOOLEAN : TransferNotify(t, x, ok)
  \/ \E m \in Merchants :
       \/ AutoSettle(t, m)
       \/ \E v \in Vouchers : Redeem(t, v, m)
       \/ \E a \in Amounts :
            \/ Apply(t, m, a) \/ CreateTransfer(t, m, a)
            \/ Adjust(t, m, INCOME, a) \/ Adjust(t, m, EXPENSE, a)
            \/ \E c \in ManualChanges : Manual(t, m, c, a)

Continue(t) ==
  \/ ReadBalance(t) \/ WriteBalance(t) \/ WriteLog(t)
  \/ PayMark(t) \/ CallbackAdd(t) \/ OrderFinal(t) \/ RedeemFinal(t)
  \/ ApplyPending(t) \/ ApplyInsert(t) \/ AutoInsert(t) \/ SettleFinal(t)
  \/ TransferInsert(t) \/ ChannelNone(t) \/ ChannelAccepts(t) \/ ChannelFails(t)
  \/ TransferFinal(t)

\* Every handler has ended, and no request need come.
AllServed ==
  /\ \A t \in Threads : job[t] = NoJob
  /\ UNCHANGED vars

Next ==
  \/ \E t \in Threads : Arrive(t) \/ Continue(t)
  \/ Crash
  \/ AllServed

Spec == Init /\ [][Next]_vars

-----------------------------------------------------------------------------
(* Properties *)

TypeOK ==
  /\ balance \in [Merchants -> Int]
  /\ frozen \in [Merchants -> Int]
  /\ logged \in [Merchants -> Int]
  /\ credits \in [Orders -> Nat]
  /\ order \in [Orders -> {"unpaid", "paid", "frozen"}]
  /\ settle \in [Settles -> Documents \cup {NoRow}]
  /\ transfer \in [Transfers -> Documents \cup {NoRow}]
  /\ voucher \in [Vouchers -> Merchants \cup {NoRow}]
  /\ job \in [Threads -> Job \cup {NoJob}]
  /\ requests \in Nat /\ crashes \in Nat

\* No merchant is overdrawn and no frozen amount goes below zero, whatever
\* handlers overlap and wherever the process is restarted: changeMchBalance
\* writes only what it computed from the numbers it has checked.  (Change 6,
\* which checks nothing, is for manual adjustments only.)
NotOverdrawn == \A m \in Merchants : balance[m] >= 0 /\ frozen[m] >= 0

\* money_log explains the balance: apart from a change being logged right now,
\* the balance of a merchant is the sum of its logged changes.
Logging(t, m) == At(t, "log") /\ job[t].mch = m
LogExplainsBalance ==
  \A m \in Merchants : (\A t \in Threads : ~Logging(t, m)) => balance[m] = logged[m]

\* The income of an order is credited once, however often its payment is notified
\* and its money frozen and released, as long as no two handlers of the merchant
\* overlap: the UPDATE that marks the order does not keep the second from crediting.
CreditedOnce == \A o \in Orders : credits[o] <= 1

-----------------------------------------------------------------------------
(* Why: the parts of the inductive invariants.                                *)

\* A handler works on a document that is there, its change checks what it takes,
\* and what it is about to write has been checked.
Known(j) ==
  /\ j.change # REFUND
  /\ j.kind \in {"approve", "reject"} => j.ref \in Settles /\ settle[j.ref] # NoRow
  /\ j.kind = "transfer" => j.ref \in Transfers
  /\ j.kind \in TransferEnds \/ j.pc = "channel" =>
       j.ref \in Transfers /\ transfer[j.ref] # NoRow
  /\ j.pc = "write" => j.newBalance >= 0 /\ j.newFrozen >= 0
JobsKnown == \A t \in Threads : job[t] # NoJob => Known(job[t])

LedgerInv == TypeOK /\ JobsKnown /\ NotOverdrawn

\* With one handler per merchant, what changeMchBalance has read is still there
\* when it writes, and the log trails the balance by the change being logged.
OneHandlerEach ==
  \A t, u \in Threads :
    t # u /\ job[t] # NoJob /\ job[u] # NoJob => job[t].mch # job[u].mch
ReadIsFresh == \A t \in Threads : At(t, "write") => job[t].before = balance[job[t].mch]
LogTrails ==
  \A t \in Threads : At(t, "log") =>
    balance[job[t].mch] = logged[job[t].mch] + job[t].newBalance - job[t].before

SerialInv == OneHandlerEach /\ ReadIsFresh /\ LogTrails /\ LogExplainsBalance

-----------------------------------------------------------------------------
(* What the tables stand for: a document whose money has moved, but whose row *)
(* has not been written yet, counts as written, an order marked paid whose    *)
(* income has not been credited yet as unpaid.                                *)

Doing(t, k, kinds, pcs) ==
  job[t] # NoJob /\ job[t].ref = k /\ job[t].kind \in kinds /\ job[t].pc \in pcs
Is(k, kinds, pcs) == \E t \in Threads : Doing(t, k, kinds, pcs)
Moved == {"log", "final"}

orderShown ==
  [o \in Orders |->
     IF Is(o, {"pay", "makeUp"}, {"read", "write"}) THEN "unpaid"
     ELSE IF Is(o, {"freeze"}, Moved) THEN "frozen"
     ELSE IF Is(o, {"unfreeze"}, Moved) THEN "paid"
     ELSE order[o]]

NewDocument(rows, k, kind) ==
  LET t == CHOOSE u \in Threads : Doing(u, k, {kind}, {"log", "insert"})
  IN  IF Is(k, {kind}, {"log", "insert"}) THEN Document(job[t].mch, job[t].amount, "pending")
      ELSE rows[k]

settleShown ==
  [s \in Settles |->
     IF Is(s, {"approve"}, Moved) THEN [settle[s] EXCEPT !.state = "paid"]
     ELSE IF Is(s, {"reject"}, Moved) THEN [settle[s] EXCEPT !.state = "rejected"]
     ELSE NewDocument(settle, s, "apply")]

transferShown ==
  [x \in Transfers |->
     IF Is(x, {"cancel", "notifyFail", "transferFail"}, Moved)
       THEN [transfer[x] EXCEPT !.state = "failed"]
     ELSE NewDocument(transfer, x, "transfer")]

voucherShown ==
  [v \in Vouchers |->
     LET t == CHOOSE u \in Threads : Doing(u, v, {"redeem"}, Moved)
     IN  IF Is(v, {"redeem"}, Moved) THEN job[t].mch ELSE voucher[v]]

\* Why: the handlers that keep the promise, what each of them does to the money, ...
Careful == {"pay", "makeUp", "redeem", "freeze", "unfreeze", "apply", "approve", "reject",
            "transfer", "confirm", "cancel", "notifyOk", "notifyFail"}
ChangeOf(kind) ==
  IF kind \in {"freeze", "apply"} THEN FREEZE
  ELSE IF kind \in {"unfreeze", "reject"} THEN UNFREEZE
  ELSE IF kind = "approve" THEN SETTLE
  ELSE IF kind = "transfer" THEN EXPENSE ELSE INCOME
StepsOf(kind) ==
  IF kind \in {"confirm", "notifyOk"} THEN {"final"}
  ELSE {"read", "write", "log"} \cup
       (IF kind \in {"pay", "makeUp"} THEN {"mark"}
        ELSE IF kind = "apply" THEN {"pending", "insert"}
        ELSE IF kind = "transfer" THEN {"insert", "channel"} ELSE {"final"})

\* ... and how its document and its merchant are, as it found them or has left them.
OnOrder(j) ==
  /\ j.ref \in Orders /\ j.mch = OwnerOf[j.ref] /\ j.amount = Income[j.ref]
  /\ order[j.ref] = IF j.kind = "unfreeze" THEN "frozen" ELSE IF j.pc = "mark" THEN "unpaid" ELSE "paid"
OnVoucher(j) ==
  /\ j.ref \in Vouchers /\ j.mch \in UsableBy[j.ref] /\ j.amount = Worth[j.ref]
  /\ voucher[j.ref] = NoRow
OnNewSettle(j) ==
  /\ j.ref \in Settles /\ j.amount \in Amounts /\ settle[j.ref] = NoRow
  /\ j.pc \in {"read", "write"} => \A s \in Settles : Pending(settle, s) => settle[s].mch # j.mch
OnSettle(j) == j.ref \in Settles /\ settle[j.ref] = Document(j.mch, j.amount, "pending")
OnTransfer(j) ==
  /\ j.ref \in Transfers
  /\ IF j.kind # "transfer" \/ j.pc = "channel"
       THEN transfer[j.ref] = Document(j.mch, j.amount, "pending")
       ELSE transfer[j.ref] = NoRow /\ j.amount \in Amounts

Tracks(j) ==
  /\ j.kind \in Careful \cup {"transferFail"}
  /\ j.change = ChangeOf(j.kind) /\ j.pc \in StepsOf(j.kind)
  /\ j.kind \in {"pay", "makeUp", "freeze", "unfreeze"} => OnOrder(j)
  /\ j.kind = "redeem" => OnVoucher(j)
  /\ j.kind = "apply" => OnNewSettle(j)
  /\ j.kind \in {"approve", "reject"} => OnSettle(j)
  /\ j.kind \in TransferEnds \cup {"transfer"} => OnTransfer(j)
  /\ j.pc = "write" =>
       /\ Enough(j.change, balance[j.mch], frozen[j.mch], j.amount)
       /\ j.newBalance = BalanceAfter(j.change, balance[j.mch], j.amount)
       /\ j.newFrozen = FrozenAfter(j.change, frozen[j.mch], j.amount)

JobsTrack == \A t \in Threads : job[t] # NoJob => Tracks(job[t])
OneHandlerPerDocument ==
  \A t, u \in Threads :
    t # u /\ job[t] # NoJob /\ job[u] # NoJob => job[t].ref # job[u].ref

\* The log has the income of every order that has been paid and credited.
CreditsFollow ==
  \A o \in Orders :
    credits[o] = IF order[o] = "unpaid" \/ Is(o, {"pay", "makeUp"}, {"read", "write", "log"}) THEN 0 ELSE 1

DocumentsInv == JobsTrack /\ OneHandlerPerDocument /\ CreditsFollow

Promise == INSTANCE Accounts
  WITH order <- orderShown, settle <- settleShown, transfer <- transferShown, voucher <- voucherShown

\* When no two handlers work on one merchant at a time, the handlers change
\* each document and its money as if in one step.
KeepsPromise == Promise!Spec

\* And so not a cent is lost or made (Accounts!Conserved, of the tables here).
NothingLost == Promise!Conserved
=============================================================================
