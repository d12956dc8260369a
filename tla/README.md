# A TLA+ verification of WePay-Cpp

WePay-Cpp is a payment gateway in C++20 on the Drogon framework. Merchants
create orders through several HTTP APIs; payers pay through a channel that
notifies the gateway, or through a personal QR code whose owner's phone reports
the amount that came in ("code-free" payment). The gateway marks the order paid,
credits the merchant and tells the merchant's server. Merchants take their money
out by settlements and transfers.

The project models the parts of the program where money or an order can go wrong
when requests, timers and restarts meet: the lock on payable amounts, the
gateway's orders and the daily quota of channels, the merchant accounts, refunds,
the queues that notify merchants and print receipts, and the replication between
the two databases underneath. Each module follows the
source statement by statement; `PROJECT.json` maps every definition to its lines.
Paths below are relative to `src/src/`.

## How the program runs

`common/ConfigGenerator.h:36` gives Drogon four I/O threads, and each runs one
handler at a time from start to end, blocking on the database. Timers (main.cc,
from line 561) run on the main loop: the notification queue and the print queue
every 30 s, expired orders every 60 s, cleanup, statistics and settlement jobs by
the hour. All state that matters is in tables (`common/DatabaseInit.h`), reached
through `PayDb::query` and `PayDb::exec`. One statement is atomic. No handler
opens a transaction, so anything that takes two statements can be interleaved
with any other handler, and a restart can fall between any two statements. That
is the program's concurrency, and it is the one the modules have: a handler is a
thread with a program counter, split at each database statement. What a handler
computes between two statements is local and belongs to the statement before it.

## Inventory

| Part | State | Operations | What makes it correct |
|---|---|---|---|
| Code-free orders (`pay/PayOrderCtrl.h`, `common/PaymentService.h`, `channel/VmqPlugin.h`, `admin/OrderMgrCtrl.h`, `common/CronService.h`) | `pay_order`, `tmp_price` | createOrder, closeExpired, push, closeOrder, supplement, deleteOrder, timers | two unpaid orders never show one amount; a payment reaches its own order; locks are given back; expired orders are closed |
| Merchant accounts (`common/ChannelService.h` changeMchBalance and its callers) | `merchant.balance`, `merchant.frozen`, `money_log`, `settle_order`, `transfer_order`, `recharge_order`, `cdk_code`, `pay_order.state` | payment, make-up, callback, recharge, CDK redemption, freeze, unfreeze, apply, approve, reject, auto settlement, transfer, confirm, cancel, channel answers, adjustments | no cent is lost or made; no overdraft; the log explains the balance; one credit per payment |
| Notification queue (`common/NotifyTaskService.h`, `admin/OpsCtrl.h`) | `pay_notify_task`, calls that are out | create and send, timer pass, answer, operator's retry, change of address | given up only after MAX_RETRY failures; not called twice at once; every task settles |
| Replicated database (`common/PayDb.h`, `common/WpPgDriver.h`) | PostgreSQL, SQLite replica, in-memory queue, current back end | exec, query, background worker, fall-back | the replica follows in order; nothing accepted is dropped silently |
| Print queue (`common/PrintTaskService.h`, `admin/PrintCtrl.h`) | `print_task`, calls that are out | cloudPrint, timer pass, answers | given up only after MAX_RETRY failures; not printed twice; every task ends |
| Refunds (`merchant/MerchantRefundCtrl.h`, `gateway/GatewayCtrl.h`, `admin/AdminExtraCtrl.h`, `notify/NotifyReceiveCtrl.h`) | `refund_order`, `pay_order.refund_amount` and `state`, `merchant` | apply, gateway refund, act=refund, channel answer, notification, retry, freezing beside them | refunded <= paid; a refund that is done is charged once; its fee comes back once; frozen money belongs to frozen orders |
| Gateway orders (`gateway/GatewayCtrl.h`, `SimpleOrderCtrl.h`, `StandardPayCtrl.h`, `SecureGatewayCtrl.h`) | `pay_order` | create, create-wepay, epay, plug-in and direct orders, close, sync, manual notify | one order per merchant number; a paid order stays paid |
| Channel selection and daily quota (`common/ChannelService.h`, `common/CronService.h`) | `pay_channel.day_amount`, setting `rr_channel_*` | selectChannel in its three modes, charge, daily reset | the quota is kept, and counts what the channel is asked for |
| Other code-free plug-ins (Monitor, Receipt, CodePay, Sms, AlipayEmail) | `tmp_price`, their own caches | createOrder, push | as the amount lock |
| Divisions, agents, reconciliation, statistics, bills | their tables | batch jobs and administration | sums agree |
| Sessions, login attempts, rate limits, RBAC, captcha | memory maps and tables | filters and login | limits hold |
| v3 monitor (`channel/v3`, `pay/WepayV3*`) | orders, devices, caches, breakers, gray release | device push, OCR, alarms | as code-free orders |
| Message bus, WebSocket, MQ | subscriptions, queues | publish, subscribe | delivery |
| About 70 channel plug-ins | none of their own | build requests, verify signatures | external protocols |
| Administration, configuration, proxies, AI, e-mail, licences, process management | tables, files, processes | CRUD and I/O | not concurrent logic |

The hard behaviours, each with its line, are the `hazards` of `PROJECT.json`.

## Modules

```
AmountLock  <- MCAmountLock                 AmountLock  <- AmountLockProofs
NotifyTask  <- MCNotifyTask                 NotifyTask  <- NotifyTaskProofs
Accounts (abstract)  <=implements= MchLedger <- MCMchLedger, MchLedgerProofs
Refund      <- MCRefund                     Refund      <- RefundProofs
GatewayOrder <- MCGatewayOrder              GatewayOrder <- GatewayOrderProofs
PrintTask   <- MCPrintTask                  PrintTask   <- PrintTaskProofs
PayDbSync   <- MCPayDbSync                  PayDbSync   <- PayDbSyncProofs
SumProofs   <- MchLedgerProofs, RefundProofs, GatewayOrderProofs
```

All modules but PayDbSync take one statement of `PayDb` as atomic and look at one database;
PayDbSync is what happens inside such a statement when there are two. Three modules
share tables and are kept apart by what they look at: GatewayOrder follows an order
up to its payment, MchLedger what the payment brings the merchant and where it
goes, Refund how it is taken back. Refund has changeMchBalance as one step, because
its interleaving is MchLedger's subject.

Definitions commented "(faulty variant: ...)" are no part of a specification: each
is what a plausible mistake would make of the definition after it, and shows that
the properties of a run tell the two apart (`mutants`).

**AmountLock** — `state`, `row` are `pay_order`; `locks` is `tmp_price`, a set of
(price, order) pairs in which a price occurs once (its UNIQUE index). `kind`, `pc`,
`cur`, `todo`, `arg`, `try` are the handlers' local variables: thread `Cron` is the
main loop. One action is one statement: `CreateCheck`, `CreateLock` (INSERT OR
IGNORE), `CreateVerify` (the read-back), `CreateInsert`, `CreateAbort` are
createOrder's; `Push`, `PushMark`, `Unlock`, `Notify` processPayment's; and so on.
`Candidate` is the sequence of floated amounts, including its replacement of
amounts that are not positive. Orders are those createOrder makes (`mch_id` is 0,
so a payment neither credits nor notifies a merchant), and those the gateway enters
for the VMQ plug-in or one of the six built on it (`row[o].mch`), with states unpaid,
paid and closed. The second kind goes the other way round: `GatewayInsert` first, then
`PluginLock`, `PluginVerify`, `PluginExist` look for an amount and `PluginPlaced` writes
it into the row, or `PluginRefused` closes the order. `halfDeleted` and `unplaced` are
history variables: orders whose lock a deletion took, orders the plug-in has not placed.

**NotifyTask** — `task` is `pay_notify_task`, with `next_retry_at` as the time left;
`sends` are the HTTP calls that are out, each with the `retry_cnt` its closure
captured; `batch` holds the rows a timer pass has selected and not yet dealt with.
`failures` counts failed calls, `operated` remembers which tasks an operator made due:
both are history. Time passes by `Tick`; a call ends within `SendTime` ticks (the
15 s time-out of `HttpCaller`) and a pass lasts at most `MaxLate` ticks.

**Accounts** — what the accounts promise: a document (order, settlement, transfer,
voucher) and the money it stands for change in one step; `Conserved` says that the
balance is income and redeemed vouchers less settlements and transfers, and the frozen
money that of the open settlements and frozen orders. A voucher is a recharge order,
which only its own merchant can use (`UsableBy`), or a CDK code, which any can.

**MchLedger** — the same as the code does it. `ReadBalance`, `WriteBalance`,
`WriteLog` are the three statements of changeMchBalance, and every caller has its
check before them and its INSERT or UPDATE after them. `job[t]` is what thread t is
doing. `logged` is the sum of `money_log` per merchant, `credits` the number of its
rows of type "order" per order. `Promise == INSTANCE Accounts WITH ...` is the
refinement mapping: a document whose money has moved but whose row is not written
yet counts as written, an order marked paid and not yet credited as unpaid.
`PayNotify`, `OrderMakeUp` and `PayCallback` are the three ways to mark an order paid:
the channel's notification, the administrator's make-up and payNotify, which adds the
whole `Price` to the balance in one UPDATE (`CallbackAdd`) where the others credit the
`Income`. The kind "payAgain" is orderMakeUp of a frozen order: a second payment of it,
as any callback of a frozen order is. `Redeem` is rechargeConfirm, the payment of a
recharge and cdkRedeem, whose statements are the same. `Adjust` and `Manual` are the
administrators' adjustments. `total_income`, a statistic, is left out. Every call of
changeMchBalance that can run is here or in Refund; Divisions (below) has the other.

**Refund** — `order`, `refund`, `balance`, `frozen` are the tables; `charged`,
`feeBack` and `held` what `money_log` says each refund took, each fee that came back,
and each order froze. A refund is booked by three handlers (`Apply`, `Gateway`,
`Api`), which differ in what they check: apply sums the rows of `refund_order`
(`ApplySum`), the gateway's two compare with the total in `pay_order`, which they
write back as an absolute number (`OrderTotal`). `Charge` is changeMchBalance with
the change type of each; `ChannelAccepts`, `ChannelFails` and `Answered` are
plugin->refund and the UPDATE after it, `Retry` the administrator's, `Notify` the
channel's report, which may come any time once the channel has the refund
(`known`) and as often as it likes. `Freeze` to `FreezeFinal` are orderFreeze and
orderUnfreeze, which know nothing of refunds. `doubt` is history: it marks an order
once something has happened to it that the code does not survive (two handlers at
once, a gateway refund beside one of apply's, a failed refund brought back, a
restart between two writes), and the properties say what holds of all other
orders. Each mark is set by one action, so a reader sees what the property excepts.

**GatewayOrder** — `state`, `number`, `booked` are `pay_order`, `used` is the quota
charged today, `turn` the round-robin setting. `Select`, `Turn`, `StoreTurn`,
`Charge` are selectChannel's statements: what it SELECTs (`open`) is used after any
number of other handlers' steps. create runs them twice, before and after `Insert`.
Each handler that creates an order is an action of `Arrive`; `Creators` lists the
paths through the shared statements. `placed` is history: what a channel was
really asked for, to be compared with what was charged; `raced` and `twins` mark
channels and numbers that two handlers selected or looked for at once. State
"ended" is the number 2 that the newer APIs write when they close.

**PrintTask** — `task` is `print_task` with `updated_at` as an age; `first` and `calls`
are the calls that are out, cloudPrint's and the timer's, the latter with the
`retry_cnt` they captured. A pass and the answers run on the main loop, so
`ProcessPending` is one step; cloudPrint's INSERT and call are two (`CloudPrint`,
`CloudCall`). `now` holds the tasks entered in the present second: their number ends
in the second, so a second request finds its INSERT refused and calls all the same.
`failures` and `overlaid` are history.

**PayDbSync** — `PayDb` with PostgreSQL configured. `pc`, `key`, `got` are the
threads inside exec: a thread sends its statement (`DriverExec`, `LibpqExec`, or their
failures, which may have been committed with the answer lost), resets the failure
count, and queues the copy (`SyncToSqlite`, where a full queue loses its oldest
write). `worker`, `batch`, `done`, `image` are the worker thread: `TakeBatch` under
syncMtx_, `Begin` to `Commit` under sqliteMtx_ with one `RunStatement` per statement,
and `DrainSyncQueue` when it is told to stop. `LoadFailCount`, `StoreFailCount` and
`Reconnect` are onDriverFailure; the two variables it shares between threads,
pgBackend_ and driverFailCount_, are not atomic in the code, so the increment is two
steps and the comparison precedes the lock. A statement is "set a row to a new
value"; the value is its place in the order of acceptance (`seq`), so a row of
`pg` or `sqlite` holding a larger number is newer. `missed` (what will never reach
SQLite, and why is in the action that adds it), `direct` (SQLite has taken a statement
itself since the start) and `atStop` (what was queued when the stop was asked for)
are history. `Exclusive` says that no two handlers write one row at a time: it is
assumed of the environment, not enforced by the code (see the observations below).

## Runs

| Run | Question | Bounds |
|---|---|---|
| amount_race | Do createOrder, the plug-in's orders, pushes, closing and deletion, beside the timers, keep the lock's promises? | 2 orders, 2 payable amounts, 2 threads, clock 0..1 |
| amount_fixed | Without floating amounts, with pushes of both APIs, supplement and closeExpired: does a payment reach its order, and is an expired order closed? | 2 orders, 2 threads, 1 restart, fair timers |
| amount_float (violated) | The same with floating amounts | 3 orders, 1 thread |
| notify_calls | Overlapping calls for one task: is it given up too early, or called twice by the timer? | 3 calls out, MAX_RETRY 3, 1 restart |
| notify_settle | Does every task come to rest? | 2 tasks, 1 row a pass, 1 restart, operator's retries |
| ledger_serial | One handler per merchant and document at a time: does the code implement Accounts, does the log add up, is a payment credited once? | 2 merchants with an order each, 1 voucher both can use, 2 settlements, 1 transfer, 2 threads, 7 requests |
| ledger_overlap | Any overlap and a restart: is anybody overdrawn? | 1 merchant, 1 order of 3 cents with an income of 2, 1 voucher, all 18 kinds of request, 4 requests, 2 threads, 1 restart |
| ledger_log (violated) | Does the log add up when handlers overlap? | 1 merchant, 3 requests |
| refund_books | Do refunds stay within the payment, are they charged once, does frozen money follow frozen orders? | 2 orders of 4 cents, 2 refunds of 2 or 4, balance 5, 2 threads, 4 requests, 1 restart |
| gateway_create | Two handlers creating, closing, syncing: do the number, the quota and a payment survive? | 2 orders, 1 merchant number, 2 channels in turn (one with a limit of one order), 2 threads, 3 requests, 1 reset, 1 restart |
| print_queue | As the notification queue: given up too early, printed twice, at rest in the end? | 2 tasks, MAX_RETRY 2, 1 task of a kind per pass, 2 timer calls out per task, 1 restart |
| paydb_follow | Does SQLite follow PostgreSQL through failures, switches, overflow, stop and restart? | 2 rows, 2 threads, 3 accepted writes, queue of 2, batches of 2, restarts at any step |

Why the bounds are enough: every interleaving hazard of these modules is a pair of
handlers (a third thread adds handlers that touch other rows), and each pair runs on
the same order, amount, task or merchant. Two orders on two amounts are the least for
which an amount is taken, floated, released and taken again; two candidates (the code
has 10 and 21) are the least for which a search goes on and for which it gives up. With
one merchant number two createOrders still overlap, when both look before either
inserts, and the plug-in's orders have numbers of their own. MAX_RETRY 3 lets a
call be the first, a middle and the last one. Two delays of different length are
enough for a late answer to come before or after the next pass. Requests are counted
(`MaxRequests`), so handlers always run to their end; the amounts 1 and 2 allow a
partial and a full use of the balance of 2 cents that an order brings. ledger_serial
leaves out the kinds that break the promise by themselves (payAgain, callback, auto)
and those Accounts has no document for (adjust, manual). In
paydb_follow three writes over two rows are the least for which the queue overflows
while a batch is open and one row is written twice; batches of two let a statement
fail with another behind it; a threshold of two makes the failure count race. Restarts
and failures are not counted. The queue never outgrows a batch in this run; the
proofs are for every queue limit and batch size.
In refund_books the amounts 2 and 4 of an order of 4 are a part and the whole of it;
half of a refund is fee, and the balance of 5 covers one full charge and not two, so that
charges are refused. Four requests are the least for freezing, refunding, releasing and
freezing again. In gateway_create the limit is one order, the probe's amount is less
than what is left, and both channels take every amount; two handlers at once and three
requests let every selection meet another, a reset and a restart. The modes "first" and
"random" are in the module and in the proofs; the run has round robin, which goes through
their statements and two more. In print_queue a retry is the first and the last one.
Deadlock is checked in every run: where a model is done because a bound is reached,
an explicit stuttering action says so.

### What the violated runs show

They are disagreements between the code and what it says of itself (`findings`):

* *amount_float* — the SELECT that attributes a push also accepts the order's asked
  amount; with floating, the payer of 1.01 marks the order that asked for 1.01 and
  shows 1.02.
* *ledger_log* — changeMchBalance is not a single UPDATE: it writes back numbers
  it has read in another statement.

Other observations made while modelling, visible in the models, without a run of
their own:

Orders, accounts and the notification queue:

* closeOrder and closeExpired UPDATE without `state=0` (`OrderMgrCtrl.h:83`,
  `PayOrderCtrl.h:193`): an order paid since they read it is closed.
* A channel's notification delivered twice at once credits twice: nobody looks whether
  the guarded UPDATE changed a row (`NotifyReceiveCtrl.h:204`). CreditedOnce is
  therefore checked where handlers of a merchant do not overlap.
* The UPDATE after a failed call has no condition on the status
  (`NotifyTaskService.h:228`): the late failure of one call makes a task pending again
  that another call has delivered.
* deleteOrder releases the amount before the order is gone (`OrderMgrCtrl.h:160`);
  `UniqueOpenAmount` excepts such orders.
* Two createOrder calls with one merchant order number can both succeed
  (`PayOrderCtrl.h:70`).
* The weekly clean-up of `tmp_price` names a column the table does not have
  (`CronService.h:169`); a lock that a restart left behind stays.
* createTaskAndSend makes the task due at once, so the timer can repeat the first
  call while it is out (`NotifyTaskService.h:44`).
* The operations panel's retry adds to `retry_cnt` without a call having failed
  (`OpsCtrl.h:848`): with it, GivenUpAfterMaxFailures does not hold.
* The first retry waits five minutes, not one: the table of delays is read from its
  second entry (`NotifyTaskService.h:225`).
* `CronService::autoSettle` names columns that do not exist and does nothing;
  `ReconcileService::autoSettle` makes settlements of money that is frozen for
  something else, so `Conserved` is not checked with it.
* payNotify (`NotifyCallbackCtrl.h:68`) and orderMakeUp (`AdminSourceCompatCtrl.h:190`)
  pay every order that is not in state 1, so a frozen or refunded order is credited
  again; payNotify credits the full amount, without the fee. With "payAgain" or
  "callback" among the handlers of ledger_serial, CreditedOnce, NothingLost and
  KeepsPromise are violated.
* Two uses of one voucher at once both credit: the UPDATE that marks it used does not
  ask for the state and comes last (`MerchantSourceCompatCtrl.h:124`,
  `AdminSourceCompatCtrl.h:149`). The promise is therefore checked where no two
  handlers work on one document, and not only on one merchant: a CDK code can be
  redeemed by two merchants at once.
* cdkRedeem does not look at what changeMchBalance answers (line 119). rechargeConfirm
  also takes the recharge order of a VIP package and credits its price to the merchant.
* `pay/EpayCtrl.h` createEpayOrder finds a free amount with a query of its own
  (line 204) and enters no row in `tmp_price`: its orders are outside the lock.
* An order for the VMQ plug-in is unpaid, with the amount it asks for, before that
  amount is locked (`GatewayCtrl.h:218`), so until it is placed two unpaid orders can
  show one amount; `UniqueOpenAmount` excepts it that long (`unplaced`). With `payQf`
  or `lock_price` off it never takes a lock.
* The plug-in's UPDATE and its lock do not ask whether the order is still unpaid
  (`VmqPlugin.h:63`, `:311`): an order that is paid, closed or deleted while it is being
  placed keeps its lock for good; `NoLeakedLock` excepts it.
* lockUniqueAmount looks for an unpaid order that asks for the same amount before it
  floats (`VmqPlugin.h:320`): the order it is placing is one, so the amount floats
  whenever it is locked, left-over locks included. The branch that uses a locked
  amount all the same is for orders that have ended meanwhile (`PluginBare`).

Refunds (`doubt` excepts these in the properties):

* apply and the gateway do not see each other's refunds, and two gateway refunds at once
  store one total (`GatewayCtrl.h:543`): more can be refunded than was paid.
* A retry (`AdminExtraCtrl.h`) never charges the merchant, and the gateway's refund
  never calls the channel. Change type 6 can overdraw.
* apply without a channel and without the balance leaves the refund pending for good.
* The fee of a gateway refund is deducted from the charge and given back once more by
  refundNotify, if the channel reports the refund.
* A full gateway refund of a frozen order leaves its money frozen. Releasing one order
  twice then takes what is frozen for another.
* refundSync has no effect; the refunds of StandardPayCtrl.h and SecureGatewayCtrl.h name
  a column `refund_order` lacks and always fail.

Gateway orders:

* create selects twice, so an order is charged to the quota twice; in turn with two
  channels it is booked at one and placed at the other, and the fee follows the first.
  If the second selection finds nothing, create answers with success and no pay_url.
* SimpleOrderCtrl.h, StandardPayCtrl.h and SecureGatewayCtrl.h name columns `pay_order`
  lacks: their creates always fail, after charging the quota. resolveQrPreference
  charges 0.01 to learn a channel's name. No quota is ever given back.
* createEpayOrder books channel 0 when no channel is available and ignores the result of
  its INSERT; create-wepay never looks for a repeated number.
* syncStatus with a status other than 1 makes a paid order unpaid; the newer APIs close
  with state 2, which means refunded elsewhere, and close frozen orders too.
* A restart in the hour of the daily reset can lose the reset (`CronService.h`).

Print queue:

* INSERT leaves updated_at 0, so a task is stale at the next pass and not after five
  minutes; a stale task that is sent again is not touched, and sent at every pass.
* The delays the header promises are computed and not used; the "optimistic lock" of a
  pass is an UPDATE whose result is not looked at; the calls have no time-out.

Replication:

* With `Exclusive = FALSE`, NeverGoesBack and LagIsKnown are violated: two threads write
  a row to PostgreSQL in one order and queue the copies in the other (`PayDb.h:284`).
  The replica then keeps the older value and no counter tells.
* The back end can go back from SQLite to PostgreSQL (`PayDb.h:545`): two threads pass
  the check before pgMtx_, the first fails to connect and sets NONE, the second
  connects and sets LIBPQ. What went to SQLite in between is unknown to PostgreSQL.
* After the switch to SQLite alone the worker still runs what is queued, over newer
  direct writes (`direct`); and nothing ever goes back to PostgreSQL, nor does a lost
  libpq connection, until the next start.
* drainSyncQueue does not look at the result of a statement (`PayDb.h:686`), so
  failures while stopping are not in the error count.

## Fairness

Liveness runs use `FairSpec`. In AmountLock: a handler that has started goes on
(the thread pool runs it to its end), the timers' statements too, and the timers fire
again and again (strong fairness of `CronClose` and `CronCleanup`: the main loop
alternates between them, so each is enabled repeatedly and not continuously). In
NotifyTask: handlers go on, the timer fires and finishes its pass, every call ends
(HttpCaller has a time-out), time passes. In PayDbSync: threads inside exec and the
worker go on (calls to a database return; the worker wakes at least every 100 ms),
and a process whose destructor has returned ends. In PrintTask: request threads go on,
the timer fires, time passes, and every call ends. The last is an assumption about the
printing service, since the code sets no time-out: a call that never ends holds no
thread, but EveryTaskEnds is only promised if it does. `EveryWriteSettles` counts a write
lost in a restart as settled: it is in `missed`. Nothing is assumed of requests: they
may never come.

## Proofs

Eight modules hold proofs, checked by TLAPS for all values of the constants that meet
the modules' ASSUMEs (TLC evaluates them in every run) and the hypotheses a theorem
names. Every safety property and every action property of the runs that pass is a
theorem, and so is the refinement. Tables, channels and threads are any finite sets where
something is summed or counted over them (`Orders`, `Settles`, `Transfers`, `Vouchers` of
MchLedger; `Orders` and `Refunds` of Refund; `Channels` and `Threads` of GatewayOrder) and
any sets elsewhere.

* **AmountLockProofs** — `LockInvHolds`, `NoSharedAmount` (UniqueOpenAmount),
  `FixedNoMisattribution` (NoMisattribution when `PayQf = FALSE`) and
  `NothingLeaksBeforeRestart` (NoLeakedLock while `crashes = 0`). UniqueOpenAmount is
  not inductive: it needs that an unpaid order holds the lock of its amount
  (`UnpaidHoldsLock`), which needs that the INSERT comes with the lock held
  (`InsertsHoldLock`), that nobody else knows the new order's number
  (`CreatorsAlone`) and that locks are released only for orders that have left state
  0 (`ReleasesAfterMark`). For the plug-in's orders, which have a row before they have
  a lock, it needs that one handler places an order (`PlacersApart`) and that the amount
  it is about to write is locked, if the order is still unpaid (`PlacesHoldLock`).
  `LockInv` is their conjunction; the step lemma has one case per action. `FixedPrice`
  is added for the third theorem. For the last one `LeakInv` says what each handler knows
  of the locks of its order (`Tidy`): none before it tries to lock, only the amount it
  tried afterwards, none once a deletion has released them. A restart forgets what a
  handler knows, so the theorem ends there, and so does the code's promise: the lock that
  createOrder took before a restart stays.
* **NotifyTaskProofs** — `RetryInvHolds` and `NotGivenUpEarly`, both if the operations
  panel's retry is not used (`"ops" \notin Handlers`). The invariant bounds every copy
  of `retry_cnt` (row, handler, timer's batch, closure of a call) by the failures that
  have happened. `TimerSendsOnce` (TimerCallsApart) holds with that retry too. It assumes
  `SpacedOut`: a call and a pass of the timer together are shorter than the 60 s a pass
  adds to `next_retry_at` and than every delay after a failure; with the 15 s time-out
  this leaves a pass 45 s. `ApartInv` relates the age of a call of the timer to the time
  its task has left, and says that no selected row has such a call out.
* **MchLedgerProofs** — `NeverOverdrawn`: NotOverdrawn for any overlap of all its
  handlers and any restart, if manual adjustments do not use change type 6
  (`"manual" \in Handlers => REFUND \notin ManualChanges`). The invariant `LedgerInv`
  adds that what a handler is about to write has been checked and that a handler's
  document exists. `LogExplains`: LogExplainsBalance if handlers of one merchant
  or document do not overlap (`Serial`) and there is no restart, second payments,
  callbacks and adjustments included; `SerialInv` adds that what was read
  is still there at the write and that the log trails by the change being logged.
  `PromiseKept` is the refinement: under the same two assumptions, every step of the
  handlers in `Careful` is a step of Accounts or a stutter. Left out are payAgain, callback
  and auto, which break the promise, and adjust and manual, whose money has no document.
  `DocumentsInv` says how far each handler has come with its document, and that no other handler is at it; it makes the
  mapped document change exactly when the money does. `BooksBalance` (NothingLost) and
  `NoDoubleCredit` (CreditedOnce) follow with it: one step of Accounts moves one document,
  and so one term of the two sums.
* **PayDbSyncProofs** — `SyncInvariant`, `LagIsAlwaysKnown` and `ReplicaNeverGoesBack`,
  for every queue limit, batch size and threshold, with `Exclusive` assumed. Neither
  property is inductive. The invariant follows the writes of one row from the thread
  that holds it (`HandsInv`: it is the newest) through the queue and the batch
  (`OrderInv`: acceptance order within and between them; `NewestInv`: behind any write
  of a row is its newest, or that one is missed) into the open transaction
  (`ImageInv`) and SQLite (`FreshInv`: everything still to come is newer than what
  is there). One lemma per action shows that it moves writes along without
  disturbing the order. `StopLosesNothing` (StopDrains) needs no `Exclusive`: `StopInv`
  says that the worker leaves its loop only with an empty batch and nothing in the queue
  that was there at the stop, and that none of it comes back from a thread, since each
  number is given to one write and each write is in one place (`OneWriteEach`).
* **RefundProofs** — `RefundTypes`, `DoneCharged`, `FeeOnce` and `DoneForGood`
  (DoneIsKept), for all numbers of orders, refunds, threads and restarts. `RefundInv`
  says of each handler what it still owes: its refund is not in the table yet or not
  charged yet (`Steady`), no two book one refund (`Apart`), and a handler that has its
  order to itself knows the refund's state (`Settled`); and of each refund what the log
  says of it (`Booked`). Without the first, "not charged yet" and "charged" cannot be
  told apart; without the third, the UPDATE without condition breaks DoneIsKept.
  `RefundsWithin` (RefundsWithinPaid), `TotalMatches` (TotalMatchesRows) and
  `HeldWithOrder` (HeldWhileFrozen) have no hypotheses; what the properties except is in
  `doubt`. `BooksInv` adds, of an order and the one handler at it, what is on the rows,
  what the handler has read or is about to write, and that `frozen` is the sum of what
  the orders hold, so that a release is never refused.
* **GatewayOrderProofs** — `GatewayTypes`, `NumberUnique`, `QuotaHolds` and
  `PaidForGood` (PaidIsKept). `GatewayInv` adds that a number one handler claims is used
  by no order and claimed by no other unless it is among `twins` (`NumbersApart`), and
  that a channel a handler has SELECTed and nobody has charged since still has room for
  its amount (`Fits`). `PlacedHolds` (PlacedWithinLimit): what has been asked of a channel
  and what handlers that have charged it are about to ask (`Due`) is at most what is
  charged (`PlacedInv`).
* **PrintTaskProofs** — `PrintTypes`, `NotGivenUpEarly`, `CallsStayApart` and
  `EndForGood` (EndIsKept). `PrintInv` bounds every copy of `retry_cnt` by the failures
  (`Covered`) and says that a task whose calls never overlapped has one call out at most,
  and none once it is printed or has failed (`Lone`).
* **SumProofs** — the lemmas on sums that three of these rest on: the sum over a finite
  set is that over all but one element plus that element, it changes by what one row
  changes by, it is not negative and not below any of its terms. `SumFunctionOnSet` is a
  recursive function; since the library's induction theorems cannot be used here, the
  lemmas are proved by the smallest counterexample.

Only model-checked: the liveness properties (ExpiredIsClosed, EveryTaskSettles,
EveryTaskEnds, EveryWriteSettles), which are out of the prover's reach: they need
ENABLED, for the fairness, and induction over data. That NoMisattribution fails
with floating amounts and LogExplainsBalance with overlapping handlers is what TLC's counterexamples show.

`Serial` and `Exclusive` are assumptions about the environment, not something the code
enforces: ledger_log shows what happens without the first, the observations above what
happens without the second.

## Plan

1. Done: AmountLock, NotifyTask, Accounts, MchLedger, PayDbSync, Refund, GatewayOrder and
   PrintTask; in MchLedger the other callers of changeMchBalance (orderMakeUp, payNotify,
   adjustments, recharges, CDK redemption); in AmountLock the orders of the VMQ plug-in.
   Not: those of EpayCtrl.h, which take no lock, and of ReceiptPlugin, whose INSERT into
   `tmp_price` names a column the table does not have.
2. Done: a theorem for every safety property and for the refinement.
3. Proofs left: the theorems with a narrower hypothesis than the code needs, that is
   PromiseKept with restarts between two handlers, and NothingLeaksBeforeRestart with
   the locks a restart leaves behind counted.
4. The message queue; sessions and limits; the circuit breaker of v3.

## Not modelled, and why

Channel plug-ins, proxies, e-mail, AI, licences and process management are I/O around
external systems. Administration is single-statement CRUD. Amounts are doubles in
the code, formatted with two decimals at every store; the models use cents, which is
exact for the sums that occur below 2^53. Callers of changeMchBalance that can do
nothing: DivisionCtrl's retry (no code inserts into `division_record`) and
CronService's autoSettle (its columns do not exist).
Signature checks are taken to succeed. Of the gateway: queries, the cashier's page
and the VMQ amount of wepay_v3. Of printing: printers, templates and the task list,
which are CRUD. Of PayDb: reads (a failed query looks like an
empty result), execPgOnly, flushSync (no callers), the encryption of the SQLite file,
the conversion between SQL dialects, and the configuration without SQLite.
