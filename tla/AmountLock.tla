----------------------------- MODULE AmountLock -----------------------------
(***************************************************************************)
(* The code-free ("V mianqian") payment flow: a payer proves a payment by  *)
(* its amount alone, so two unpaid orders must never show the same amount. *)
(*                                                                         *)
(*   pay/PayOrderCtrl.h      createOrder, closeExpired                     *)
(*   channel/VmqPlugin.h     createOrder, for an order GatewayCtrl::create *)
(*                           has entered (and the six plug-ins built on it) *)
(*   common/PaymentService.h processPayment (the device pushes)            *)
(*   common/CronService.h    closeExpiredOrders, cleanupExpiredData        *)
(*   admin/OrderMgrCtrl.h    closeOrder, supplement, deleteOrder           *)
(*                                                                         *)
(* Every handler runs on a thread of its own and is split at each database *)
(* call: one PayDb::exec or PayDb::query is one atomic statement, nothing  *)
(* larger is.  Amounts are integers, in cents.                             *)
(***************************************************************************)
EXTENDS Integers, FiniteSets

CONSTANTS
  OrderIds,    \* values makeOrderId can return
  PayIds,      \* the merchant's own order numbers (mch_order_no)
  PayTypes,    \* wxpay, alipay
  Amounts,     \* amounts orders ask for, in cents
  PushAmounts, \* amounts the monitoring devices report, in cents
  Handlers,    \* bound: the kinds of request that arrive
  Threads,     \* request handler threads
  Cron,        \* the main loop, where the timers run
  PayQf,       \* setting payQf = "1": a taken amount floats by some cents
  MaxTries,    \* candidates createOrder tries (10 in the code)
  MaxDelta,    \* cents VmqPlugin adds at most (20 in the code)
  CloseDelay,  \* lifetime of an unpaid order, in clock ticks
  KeepTime,    \* how long closed orders are kept (order_keep_days), in ticks
  MaxNow,      \* bound: last tick of the clock
  MaxCrashes,  \* bound: restarts of the process
  NoOrder, NoRow, NoRequest

ASSUME AmountLockAssumption ==
  /\ Amounts \subseteq Nat \ {0}
  /\ PushAmounts \subseteq Nat
  /\ PayQf \in BOOLEAN
  /\ MaxTries \in Nat \ {0}
  /\ MaxDelta \in Nat
  /\ CloseDelay \in Nat
  /\ KeepTime \in Nat
  /\ MaxNow \in Nat
  /\ MaxCrashes \in Nat
  /\ Cron \notin Threads
  /\ NoOrder \notin OrderIds

VARIABLES
  state,       \* pay_order.state of each order id
  row,         \* the columns of pay_order written once, by the INSERT
  locks,       \* table tmp_price, UNIQUE(price)
  notified,    \* orders with a task in pay_notify_task
  now,         \* std::time
  crashes,     \* restarts so far
  halfDeleted, \* history: orders whose lock row an admin deletion removed
  unplaced,    \* history: orders entered before their amount was locked, and not
               \* locked since, while they were unpaid
  kind,        \* the handler each thread runs
  pc,          \* its next database call
  cur,         \* the order id it works on
  todo,        \* rows its SELECT of expired orders returned, still to close
  arg,         \* the request it serves
  try          \* index i of createOrder's loop over candidate amounts

thVars == <<kind, pc, cur, todo, arg, try>>
vars == <<state, row, locks, notified, now, crashes, halfDeleted, unplaced,
          kind, pc, cur, todo, arg, try>>

AllThreads == Threads \cup {Cron}

States == {"absent", "unpaid", "paid", "closed", "deleted"}
Cents == Nat \ {0}
Row == [payId : PayIds, mch : BOOLEAN, type : PayTypes, amount : Cents, real : Cents,
        created : Nat, expire : Nat]
Lock == [price : Cents, oid : OrderIds]
CreateRequest == [payId : PayIds, type : PayTypes, cents : Cents]
PushRequest == [type : PayTypes, cents : Nat]

Kinds == {"none", "create", "expire", "cron", "push", "vmq", "close", "supplement", "delete",
          "clean", "plugin"}
Steps == {"idle", "sweep", "sweepUnlock", "check", "lock", "verify", "insert", "abort",
          "mark", "unlock", "notify", "delUnlock", "delRow",
          "cleanRow", "cleanLock",
          "pluginLock", "pluginVerify", "exist", "qrcode", "bare", "noQrcode", "refused"}

-----------------------------------------------------------------------------
(* Rows and locks *)

Exists(o) == state[o] \in {"unpaid", "paid", "closed"}
Unpaid(o) == state[o] = "unpaid"

\* SELECT ... WHERE state=0 AND expire_time>0 AND expire_time<now
Expired == {o \in OrderIds : Unpaid(o) /\ row[o].expire < now}

\* UPDATE pay_order SET state=s WHERE order_id=o
SetState(o, s) ==
  state' = IF Exists(o) THEN [state EXCEPT ![o] = s] ELSE state

\* (faulty variant: the UPDATE asks for the wrong state)
SetStateIfPaid(o, s) ==
  state' = IF state[o] = "paid" THEN [state EXCEPT ![o] = s] ELSE state

\* UPDATE pay_order SET state=s WHERE order_id=o AND state=0
SetStateIfUnpaid(o, s) ==
  state' = IF Unpaid(o) THEN [state EXCEPT ![o] = s] ELSE state

\* DELETE FROM tmp_price WHERE oid=o
ReleaseLocks(o) == locks' = {l \in locks : l.oid # o}

\* The i-th amount createOrder tries to lock: the amount asked for, then one
\* cent more, one less, two more, ...; one that is not positive is replaced.
Candidate(cents, i) ==
  LET j     == i - 1
      shift == (IF j % 2 = 0 THEN 1 ELSE -1) * (j \div 2 + 1)
  IN  IF i = 0 THEN cents
      ELSE IF cents + shift <= 0 THEN cents + j + 1 ELSE cents + shift

MyPrice(t) == Candidate(arg[t].cents, try[t])

\* The amounts VmqPlugin tries: one cent more each time.
MyFloat(t) == arg[t].cents + try[t]

\* The unpaid orders processPayment's SELECT accepts for a push, and the oldest
\* of them (several of one second: the database picks any).
Matching(type, cents) ==
  {o \in OrderIds : Unpaid(o) /\ row[o].type = type /\ cents \in {row[o].real, row[o].amount}}
OldestMatching(type, cents) ==
  {o \in Matching(type, cents) :
     \A p \in Matching(type, cents) : row[o].created <= row[p].created}

\* INSERT INTO pay_order, of a merchant (mch_id # 0) or not
NewRow(request, mch, real) ==
  [payId |-> request.payId, mch |-> mch, type |-> request.type, amount |-> request.cents,
   real |-> real, created |-> now, expire |-> now + CloseDelay]

-----------------------------------------------------------------------------
(* Thread bookkeeping *)

Begin(t, k, step, o, rows, request) ==
  /\ pc[t] = "idle"
  /\ kind' = [kind EXCEPT ![t] = k]
  /\ pc' = [pc EXCEPT ![t] = step]
  /\ cur' = [cur EXCEPT ![t] = o]
  /\ todo' = [todo EXCEPT ![t] = rows]
  /\ arg' = [arg EXCEPT ![t] = request]
  /\ UNCHANGED try

At(t, ks, step) == kind[t] \in ks /\ pc[t] = step

GoTo(t, step) ==
  /\ pc' = [pc EXCEPT ![t] = step]
  /\ UNCHANGED <<kind, cur, todo, arg, try>>

Finish(t) ==
  /\ kind' = [kind EXCEPT ![t] = "none"]
  /\ pc' = [pc EXCEPT ![t] = "idle"]
  /\ cur' = [cur EXCEPT ![t] = NoOrder]
  /\ todo' = [todo EXCEPT ![t] = {}]
  /\ arg' = [arg EXCEPT ![t] = NoRequest]
  /\ try' = [try EXCEPT ![t] = 0]

Init ==
  /\ state = [o \in OrderIds |-> "absent"]
  /\ row = [o \in OrderIds |-> NoRow]
  /\ locks = {}
  /\ notified = {}
  /\ now = 0
  /\ crashes = 0
  /\ halfDeleted = {}
  /\ unplaced = {}
  /\ kind = [t \in AllThreads |-> "none"]
  /\ pc = [t \in AllThreads |-> "idle"]
  /\ cur = [t \in AllThreads |-> NoOrder]
  /\ todo = [t \in AllThreads |-> {}]
  /\ arg = [t \in AllThreads |-> NoRequest]
  /\ try = [t \in AllThreads |-> 0]

-----------------------------------------------------------------------------
(* Closing expired orders: the timer, the HTTP endpoint, and the first thing  *)
(* createOrder does.  The SELECT is the start; each row then gets an UPDATE   *)
(* and a DELETE.  Only the timer's UPDATE asks for state=0 again.             *)

CronClose ==
  /\ Expired # {}
  /\ Begin(Cron, "cron", "sweep", NoOrder, Expired, NoRequest)
  /\ UNCHANGED <<state, row, locks, notified, now, crashes, halfDeleted, unplaced>>

CloseExpired(t) ==
  /\ Expired # {}
  /\ Begin(t, "expire", "sweep", NoOrder, Expired, NoRequest)
  /\ UNCHANGED <<state, row, locks, notified, now, crashes, halfDeleted, unplaced>>

CronSweep ==
  /\ At(Cron, {"cron"}, "sweep")
  /\ \E o \in todo[Cron] :
       /\ SetStateIfUnpaid(o, "closed")
       /\ cur' = [cur EXCEPT ![Cron] = o]
       /\ todo' = [todo EXCEPT ![Cron] = @ \ {o}]
  /\ pc' = [pc EXCEPT ![Cron] = "sweepUnlock"]
  /\ UNCHANGED <<row, locks, notified, now, crashes, halfDeleted, unplaced, kind, arg, try>>

Sweep(t) ==
  /\ At(t, {"expire", "create"}, "sweep")
  /\ \E o \in todo[t] :
       /\ SetState(o, "closed")
       /\ cur' = [cur EXCEPT ![t] = o]
       /\ todo' = [todo EXCEPT ![t] = @ \ {o}]
  /\ pc' = [pc EXCEPT ![t] = "sweepUnlock"]
  /\ UNCHANGED <<row, locks, notified, now, crashes, halfDeleted, unplaced, kind, arg, try>>

SweepUnlock(t) ==
  /\ pc[t] = "sweepUnlock"
  /\ ReleaseLocks(cur[t])
  /\ pc' = [pc EXCEPT ![t] = "sweep"]
  /\ cur' = [cur EXCEPT ![t] = NoOrder]
  /\ UNCHANGED <<state, row, notified, now, crashes, halfDeleted, unplaced, kind, todo, arg, try>>

SweepDone(t) ==
  /\ pc[t] = "sweep"
  /\ todo[t] = {}
  /\ IF kind[t] = "create" THEN GoTo(t, "check") ELSE Finish(t)
  /\ UNCHANGED <<state, row, locks, notified, now, crashes, halfDeleted, unplaced>>

-----------------------------------------------------------------------------
(* CronService::cleanupExpiredData: old closed orders and their locks go.  Its *)
(* last statement on tmp_price, DELETE ... WHERE ctime<?, names a column the  *)
(* table does not have and removes nothing.                                   *)

Old == {o \in OrderIds : state[o] = "closed" /\ row[o].created + KeepTime < now}

CronCleanup ==
  /\ Begin(Cron, "clean", "cleanRow", NoOrder, Old, NoRequest)
  /\ UNCHANGED <<state, row, locks, notified, now, crashes, halfDeleted, unplaced>>

CleanRow ==
  /\ pc[Cron] = "cleanRow"
  /\ \E o \in todo[Cron] :
       /\ state' = [state EXCEPT ![o] = "deleted"]
       /\ cur' = [cur EXCEPT ![Cron] = o]
       /\ todo' = [todo EXCEPT ![Cron] = @ \ {o}]
  /\ pc' = [pc EXCEPT ![Cron] = "cleanLock"]
  /\ UNCHANGED <<row, locks, notified, now, crashes, halfDeleted, unplaced, kind, arg, try>>

CleanLock ==
  /\ pc[Cron] = "cleanLock"
  /\ ReleaseLocks(cur[Cron])
  /\ pc' = [pc EXCEPT ![Cron] = "cleanRow"]
  /\ cur' = [cur EXCEPT ![Cron] = NoOrder]
  /\ UNCHANGED <<state, row, notified, now, crashes, halfDeleted, unplaced, kind, todo, arg, try>>

CleanDone ==
  /\ pc[Cron] = "cleanRow"
  /\ todo[Cron] = {}
  /\ Finish(Cron)
  /\ UNCHANGED <<state, row, locks, notified, now, crashes, halfDeleted, unplaced>>

-----------------------------------------------------------------------------
(* PayOrderCtrl::createOrder *)

CreateOrder(t, request) ==
  /\ Begin(t, "create", "sweep", NoOrder, Expired, request)
  /\ UNCHANGED <<state, row, locks, notified, now, crashes, halfDeleted, unplaced>>

\* SELECT id FROM pay_order WHERE mch_order_no=payId
PayIdTaken(payId) == \E o \in OrderIds : Exists(o) /\ row[o].payId = payId

\* makeOrderId returns an id no order and no other request has (bound: when
\* OrderIds is used up, the request ends).
FreshIds == {o \in OrderIds : state[o] = "absent" /\ \A t \in AllThreads : cur[t] # o}

CreateCheck(t) ==
  /\ pc[t] = "check"
  /\ IF PayIdTaken(arg[t].payId) \/ FreshIds = {}
       THEN Finish(t)
       ELSE \E o \in FreshIds :
              /\ cur' = [cur EXCEPT ![t] = o]
              /\ pc' = [pc EXCEPT ![t] = "lock"]
              /\ UNCHANGED <<kind, todo, arg, try>>
  /\ UNCHANGED <<state, row, locks, notified, now, crashes, halfDeleted, unplaced>>

\* (faulty variant: INSERT OR REPLACE takes the lock of another order)
CreateLockReplaces(t) ==
  /\ pc[t] = "lock"
  /\ locks' = {l \in locks : l.price # MyPrice(t)} \cup {[price |-> MyPrice(t), oid |-> cur[t]]}
  /\ GoTo(t, "verify")
  /\ UNCHANGED <<state, row, notified, now, crashes, halfDeleted, unplaced>>

\* INSERT OR IGNORE INTO tmp_price: the UNIQUE price keeps the row that is there
CreateLock(t) ==
  /\ pc[t] = "lock"
  /\ locks' = IF \E l \in locks : l.price = MyPrice(t)
                THEN locks
                ELSE locks \cup {[price |-> MyPrice(t), oid |-> cur[t]]}
  /\ GoTo(t, "verify")
  /\ UNCHANGED <<state, row, notified, now, crashes, halfDeleted, unplaced>>

\* (faulty variant: a lock row of any order will do)
HoldsAnyLock(t) == \E l \in locks : l.price = MyPrice(t)

\* SELECT oid FROM tmp_price WHERE price=...: is the row there, and is it mine?
HoldsLock(t) == \E l \in locks : l.price = MyPrice(t) /\ l.oid = cur[t]

\* (faulty variant: the result of INSERT OR IGNORE is trusted)
CreateVerifySkipped(t) ==
  /\ pc[t] = "verify"
  /\ GoTo(t, "insert")
  /\ UNCHANGED <<state, row, locks, notified, now, crashes, halfDeleted, unplaced>>

CreateVerify(t) ==
  /\ pc[t] = "verify"
  /\ IF HoldsLock(t)
       THEN GoTo(t, "insert")
       ELSE IF PayQf /\ try[t] + 1 < MaxTries
              THEN /\ try' = [try EXCEPT ![t] = @ + 1]
                   /\ pc' = [pc EXCEPT ![t] = "lock"]
                   /\ UNCHANGED <<kind, cur, todo, arg>>
              ELSE Finish(t)
  /\ UNCHANGED <<state, row, locks, notified, now, crashes, halfDeleted, unplaced>>

CreateInsert(t) ==
  /\ pc[t] = "insert"
  /\ state' = [state EXCEPT ![cur[t]] = "unpaid"]
  /\ row' = [row EXCEPT ![cur[t]] =
               NewRow(arg[t], FALSE, MyPrice(t))]
  /\ Finish(t)
  /\ UNCHANGED <<locks, notified, now, crashes, halfDeleted, unplaced>>

\* the INSERT fails: give the locked amount back
CreateInsertFails(t) ==
  /\ pc[t] = "insert"
  /\ GoTo(t, "abort")
  /\ UNCHANGED <<state, row, locks, notified, now, crashes, halfDeleted, unplaced>>

\* (faulty variant: the lock is not given back)
CreateAbortKeepsLock(t) ==
  /\ pc[t] = "abort"
  /\ Finish(t)
  /\ UNCHANGED <<state, row, locks, notified, now, crashes, halfDeleted, unplaced>>

CreateAbort(t) ==
  /\ pc[t] = "abort"
  /\ ReleaseLocks(cur[t])
  /\ Finish(t)
  /\ UNCHANGED <<state, row, notified, now, crashes, halfDeleted, unplaced>>

-----------------------------------------------------------------------------
(* GatewayCtrl::create with VmqPlugin::createOrder.  The order is entered      *)
(* unpaid, showing the amount it asks for; then the plug-in locks an amount    *)
(* and writes it into the order.  (What create does before, GatewayOrder has.) *)

\* The INSERT.  lock_price is payQf unless the channel says otherwise; without it
\* the order keeps the amount it asks for, and takes no lock.  The plug-in refuses
\* at once if it requires its device online and it is not.
GatewayInsert(t, request) ==
  /\ \E o \in FreshIds, step \in {IF PayQf THEN "pluginLock" ELSE "bare", "refused"} :
       /\ Begin(t, "plugin", step, o, {}, request)
       /\ state' = [state EXCEPT ![o] = "unpaid"]
       /\ row' = [row EXCEPT ![o] = NewRow(request, TRUE, request.cents)]
       /\ unplaced' = unplaced \cup {o}
  /\ UNCHANGED <<locks, notified, now, crashes, halfDeleted>>

\* lockUniqueAmount: INSERT OR IGNORE INTO tmp_price
PluginLock(t) ==
  /\ pc[t] = "pluginLock"
  /\ locks' = IF \E l \in locks : l.price = MyFloat(t)
                THEN locks
                ELSE locks \cup {[price |-> MyFloat(t), oid |-> cur[t]]}
  /\ GoTo(t, "pluginVerify")
  /\ UNCHANGED <<state, row, notified, now, crashes, halfDeleted, unplaced>>

NextDelta(t) ==
  IF try[t] < MaxDelta
    THEN /\ try' = [try EXCEPT ![t] = @ + 1]
         /\ pc' = [pc EXCEPT ![t] = "pluginLock"]
         /\ UNCHANGED <<kind, cur, todo, arg>>
    ELSE GoTo(t, "refused")

HoldsFloat(t) == [price |-> MyFloat(t), oid |-> cur[t]] \in locks

PluginVerify(t) ==
  /\ pc[t] = "pluginVerify"
  /\ IF HoldsFloat(t) THEN GoTo(t, "qrcode")
     ELSE IF try[t] = 0 THEN GoTo(t, "exist") ELSE NextDelta(t)
  /\ UNCHANGED <<state, row, locks, notified, now, crashes, halfDeleted, unplaced>>

\* The amount asked for is locked: if no unpaid order asks for it, it is used all
\* the same.  This order asks for it, as long as it is unpaid.
PluginExist(t) ==
  /\ pc[t] = "exist"
  /\ IF \E o \in OrderIds : Unpaid(o) /\ row[o].amount = arg[t].cents
       THEN NextDelta(t) ELSE GoTo(t, "bare")
  /\ UNCHANGED <<state, row, locks, notified, now, crashes, halfDeleted, unplaced>>

\* UPDATE pay_order SET real_amount=?: no condition on the state.  The lock of an
\* order that has left state 0, or has lost its lock, meanwhile may stay for good.
PluginPlaced(t) ==
  /\ pc[t] = "qrcode"
  /\ row' = [row EXCEPT ![cur[t]].real = MyFloat(t)]
  /\ unplaced' = unplaced \ {o \in {cur[t]} : Unpaid(o) /\ o \notin halfDeleted}
  /\ Finish(t)
  /\ UNCHANGED <<state, locks, notified, now, crashes, halfDeleted>>

\* The same UPDATE, of the amount that is there already
PluginBare(t) ==
  /\ pc[t] = "bare"
  /\ Finish(t)
  /\ UNCHANGED <<state, row, locks, notified, now, crashes, halfDeleted, unplaced>>

\* selectQrcode found none.
PluginNoQrcode(t) ==
  /\ pc[t] \in {"qrcode", "bare"}
  /\ GoTo(t, "noQrcode")
  /\ UNCHANGED <<state, row, locks, notified, now, crashes, halfDeleted, unplaced>>

PluginUnlock(t) ==
  /\ pc[t] = "noQrcode"
  /\ ReleaseLocks(cur[t])
  /\ GoTo(t, "refused")
  /\ UNCHANGED <<state, row, notified, now, crashes, halfDeleted, unplaced>>

\* The plug-in refuses the order: create closes it, whatever its state.
PluginRefused(t) ==
  /\ pc[t] = "refused"
  /\ SetState(cur[t], "closed")
  /\ unplaced' = unplaced \ {cur[t]}
  /\ Finish(t)
  /\ UNCHANGED <<row, locks, notified, now, crashes, halfDeleted>>

-----------------------------------------------------------------------------
(* A reported payment (through the device API: processPayment, or through the *)
(* V-mianqian app: handlePaymentPushEx), the admin's closeOrder and           *)
(* supplement: a SELECT, an UPDATE, the DELETE of the lock.  A push nothing   *)
(* matches changes no table and has no action.                                *)

Push(t, k, request) ==
  /\ \E o \in OldestMatching(request.type, request.cents) :
       Begin(t, k, "mark", o, {}, request)
  /\ UNCHANGED <<state, row, locks, notified, now, crashes, halfDeleted, unplaced>>

CloseOrder(t, o) ==
  /\ Unpaid(o)
  /\ Begin(t, "close", "mark", o, {}, NoRequest)
  /\ UNCHANGED <<state, row, locks, notified, now, crashes, halfDeleted, unplaced>>

Supplement(t, o) ==
  /\ Exists(o) /\ state[o] # "paid"
  /\ Begin(t, "supplement", "mark", o, {}, NoRequest)
  /\ UNCHANGED <<state, row, locks, notified, now, crashes, halfDeleted, unplaced>>

PushMark(t) ==
  /\ At(t, {"push", "vmq"}, "mark")
  /\ SetStateIfUnpaid(cur[t], "paid")
  /\ GoTo(t, "unlock")
  /\ UNCHANGED <<row, locks, notified, now, crashes, halfDeleted, unplaced>>

CloseMark(t) ==
  /\ At(t, {"close"}, "mark")
  /\ SetState(cur[t], "closed")
  /\ GoTo(t, "unlock")
  /\ UNCHANGED <<row, locks, notified, now, crashes, halfDeleted, unplaced>>

SupplementMark(t) ==
  /\ At(t, {"supplement"}, "mark")
  /\ SetState(cur[t], "paid")
  /\ GoTo(t, "unlock")
  /\ UNCHANGED <<row, locks, notified, now, crashes, halfDeleted, unplaced>>

\* processPayment credits (see MchLedger) and notifies only for an order with a
\* merchant.
Unlock(t) ==
  /\ pc[t] = "unlock"
  /\ ReleaseLocks(cur[t])
  /\ IF kind[t] \in {"vmq", "supplement"} \/ (kind[t] = "push" /\ row[cur[t]].mch)
       THEN GoTo(t, "notify") ELSE Finish(t)
  /\ UNCHANGED <<state, row, notified, now, crashes, halfDeleted, unplaced>>

\* NotifyTaskService::createTaskAndSend, whatever the UPDATE did
Notify(t) ==
  /\ pc[t] = "notify"
  /\ notified' = notified \cup {cur[t]}
  /\ Finish(t)
  /\ UNCHANGED <<state, row, locks, now, crashes, halfDeleted, unplaced>>

-----------------------------------------------------------------------------
(* OrderMgrCtrl::deleteOrder: the lock goes first, the row after it.          *)

DeleteOrder(t, o) ==
  /\ Exists(o)
  /\ Begin(t, "delete", "delUnlock", o, {}, NoRequest)
  /\ UNCHANGED <<state, row, locks, notified, now, crashes, halfDeleted, unplaced>>

DeleteUnlock(t) ==
  /\ pc[t] = "delUnlock"
  /\ ReleaseLocks(cur[t])
  /\ halfDeleted' = halfDeleted \cup {cur[t]}
  /\ GoTo(t, "delRow")
  /\ UNCHANGED <<state, row, notified, now, crashes, unplaced>>

DeleteRow(t) ==
  /\ pc[t] = "delRow"
  /\ state' = [state EXCEPT ![cur[t]] = "deleted"]
  /\ Finish(t)
  /\ UNCHANGED <<row, locks, notified, now, crashes, halfDeleted, unplaced>>

-----------------------------------------------------------------------------
(* The environment: time passes, the process is restarted (the tables stay).  *)

Tick ==
  /\ now < MaxNow
  /\ now' = now + 1
  /\ UNCHANGED <<state, row, locks, notified, crashes, halfDeleted, unplaced, thVars>>

Crash ==
  /\ crashes < MaxCrashes
  /\ crashes' = crashes + 1
  /\ kind' = [t \in AllThreads |-> "none"]
  /\ pc' = [t \in AllThreads |-> "idle"]
  /\ cur' = [t \in AllThreads |-> NoOrder]
  /\ todo' = [t \in AllThreads |-> {}]
  /\ arg' = [t \in AllThreads |-> NoRequest]
  /\ try' = [t \in AllThreads |-> 0]
  /\ UNCHANGED <<state, row, locks, notified, now, halfDeleted, unplaced>>

-----------------------------------------------------------------------------
\* A request that arrives at an idle thread.
Arrive(t) ==
  \/ "expire" \in Handlers /\ CloseExpired(t)
  \/ \E p \in PayIds, ty \in PayTypes, c \in Amounts :
       LET request == [payId |-> p, type |-> ty, cents |-> c]
       IN  \/ "create" \in Handlers /\ CreateOrder(t, request)
           \/ "plugin" \in Handlers /\ GatewayInsert(t, request)
  \/ \E k \in Handlers \cap {"push", "vmq"}, ty \in PayTypes, c \in PushAmounts :
       Push(t, k, [type |-> ty, cents |-> c])
  \/ \E o \in OrderIds :
       \/ "close" \in Handlers /\ CloseOrder(t, o)
       \/ "supplement" \in Handlers /\ Supplement(t, o)
       \/ "delete" \in Handlers /\ DeleteOrder(t, o)

\* The next database call of a handler that has begun.
Continue(t) ==
  \/ Sweep(t) \/ SweepUnlock(t) \/ SweepDone(t)
  \/ CreateCheck(t) \/ CreateLock(t) \/ CreateVerify(t)
  \/ CreateInsert(t) \/ CreateInsertFails(t) \/ CreateAbort(t)
  \/ PluginLock(t) \/ PluginVerify(t) \/ PluginExist(t)
  \/ PluginPlaced(t) \/ PluginBare(t) \/ PluginNoQrcode(t) \/ PluginUnlock(t)
  \/ PluginRefused(t)
  \/ PushMark(t) \/ CloseMark(t) \/ SupplementMark(t) \/ Unlock(t) \/ Notify(t)
  \/ DeleteUnlock(t) \/ DeleteRow(t)

Next ==
  \/ \E t \in Threads : Arrive(t) \/ Continue(t)
  \/ CronClose \/ CronSweep \/ SweepUnlock(Cron) \/ SweepDone(Cron)
  \/ CronCleanup \/ CleanRow \/ CleanLock \/ CleanDone
  \/ Tick
  \/ Crash

Spec == Init /\ [][Next]_vars

\* A handler that has begun runs on, and the timers fire again and again.
FairSpec ==
  /\ Spec
  /\ \A t \in Threads : WF_vars(Continue(t))
  /\ WF_vars(CronSweep)
  /\ WF_vars(SweepUnlock(Cron)) /\ WF_vars(SweepDone(Cron))
  /\ WF_vars(CleanRow) /\ WF_vars(CleanLock) /\ WF_vars(CleanDone)
  /\ SF_vars(CronClose) /\ SF_vars(CronCleanup)

-----------------------------------------------------------------------------
(* Properties *)

TypeOK ==
  /\ state \in [OrderIds -> States]
  /\ row \in [OrderIds -> Row \cup {NoRow}]
  /\ \A o \in OrderIds : state[o] # "absent" => row[o] \in Row
  /\ locks \subseteq Lock
  /\ notified \subseteq OrderIds
  /\ now \in Nat
  /\ crashes \in Nat
  /\ halfDeleted \subseteq OrderIds
  /\ unplaced \subseteq OrderIds
  /\ kind \in [AllThreads -> Kinds]
  /\ pc \in [AllThreads -> Steps]
  /\ cur \in [AllThreads -> OrderIds \cup {NoOrder}]
  /\ todo \in [AllThreads -> SUBSET OrderIds]
  /\ arg \in [AllThreads -> CreateRequest \cup PushRequest \cup {NoRequest}]
  /\ try \in [AllThreads -> Nat]

-----------------------------------------------------------------------------
(* Why the lock works: the inductive invariant behind UniqueOpenAmount and    *)
(* (with fixed amounts) NoMisattribution.                                     *)

\* The UNIQUE index of tmp_price.
LocksByPrice == \A l, m \in locks : l.price = m.price => l = m

\* An order a plug-in is to find an amount for
Placing(t) == pc[t] \in {"pluginLock", "pluginVerify", "exist", "qrcode", "bare", "noQrcode",
                        "refused"}

\* An order being created is known to its creator only, and has no row yet.
Creating(t) == pc[t] \in {"lock", "verify", "insert", "abort"}
CreatorsAlone ==
  \A t \in AllThreads :
    /\ Creating(t) => /\ cur[t] \in OrderIds
                      /\ state[cur[t]] = "absent"
                      /\ \A u \in AllThreads \ {t} : cur[u] # cur[t]
    /\ (Creating(t) \/ Placing(t) \/ pc[t] = "check") => kind[t] \in {"create", "plugin"}
    /\ kind[t] \in {"create", "plugin"} => arg[t] \in CreateRequest

\* The amount about to be inserted is locked for this very order.
InsertsHoldLock == \A t \in AllThreads : pc[t] = "insert" => HoldsLock(t)

\* One handler places an order, and an order that is still unpaid when its amount
\* is written holds the lock of it.
PlacersApart ==
  \A t \in AllThreads : Placing(t) =>
    /\ cur[t] \in unplaced /\ state[cur[t]] # "absent"
    /\ \A u \in AllThreads \ {t} : Placing(u) => cur[u] # cur[t]
PlacesHoldLock ==
  \A t \in AllThreads :
    (pc[t] = "qrcode" /\ Unpaid(cur[t]) /\ cur[t] \notin halfDeleted) => HoldsFloat(t)

\* A handler that releases a lock does so for an order that has left state 0
\* (deleteOrder excepted, and the plug-in), and no handler works on an order that
\* never existed.
ReleasesAfterMark ==
  \A t \in AllThreads :
    /\ pc[t] \in {"sweepUnlock", "unlock", "notify", "cleanLock"} =>
         cur[t] \in OrderIds /\ state[cur[t]] \notin {"absent", "unpaid"}
    /\ pc[t] \in {"mark", "delUnlock", "delRow"} =>
         cur[t] \in OrderIds /\ state[cur[t]] # "absent"
    /\ \A o \in todo[t] : state[o] # "absent"

\* An unpaid order holds the lock of the amount it shows, once it has been placed.
UnpaidHoldsLock ==
  /\ \A o \in halfDeleted : state[o] # "absent"
  /\ \A o \in OrderIds \ (halfDeleted \cup unplaced) :
       Unpaid(o) => [price |-> row[o].real, oid |-> o] \in locks

\* The parts together: every lock, order and handler is where createOrder's
\* protocol (lock, then insert; leave state 0, then unlock) puts it.
LockInv ==
  /\ TypeOK
  /\ LocksByPrice
  /\ CreatorsAlone
  /\ InsertsHoldLock
  /\ PlacersApart
  /\ PlacesHoldLock
  /\ ReleasesAfterMark
  /\ UnpaidHoldsLock

\* Without floating (payQf = "0") the amount shown is the amount asked for, and
\* a push works on an order of exactly the amount it reports.
FloatSteps == {"pluginLock", "pluginVerify", "exist", "qrcode"}
FixedPrice ==
  /\ \A t \in AllThreads : try[t] = 0 /\ pc[t] \notin FloatSteps
  /\ \A o \in OrderIds : state[o] # "absent" => row[o].real = row[o].amount
  /\ \A t \in AllThreads :
       At(t, {"push", "vmq"}, "mark") => row[cur[t]].amount = arg[t].cents

-----------------------------------------------------------------------------
\* No two unpaid orders show the payer the same amount, whatever handlers
\* overlap and wherever the process is restarted: createOrder's lock in
\* tmp_price is taken before the order exists, VmqPlugin's before the order shows
\* the amount, and it is released only after the order has left state 0.  Excepted
\* are orders an admin deletion has half removed (deleteOrder releases the lock
\* first), and orders the plug-in has not placed.
UniqueOpenAmount ==
  \A o, p \in OrderIds \ (halfDeleted \cup unplaced) :
    (o # p /\ Unpaid(o) /\ Unpaid(p)) => row[o].real # row[p].real

\* Every lock row belongs to an unpaid order or to a handler that is about to
\* use or release it: no lock outlives the handlers that know of it.  Excepted is
\* an order that left state 0 before VmqPlugin had placed it.
NoLeakedLock ==
  \A l \in locks :
    \/ Unpaid(l.oid)
    \/ \E t \in AllThreads :
         /\ cur[t] = l.oid
         /\ pc[t] \in {"lock", "verify", "insert", "abort", "sweepUnlock", "unlock", "delUnlock"}
    \/ l.oid \in unplaced

\* When a push marks an unpaid order, no other unpaid order shows its payer the
\* amount that was pushed: the payment reaches the order it was made for.
NoMisattribution ==
  \A t \in AllThreads :
    (At(t, {"push", "vmq"}, "mark") /\ Unpaid(cur[t]) /\ cur[t] \notin halfDeleted \cup unplaced) =>
      \A o \in OrderIds \ (halfDeleted \cup unplaced) :
        (Unpaid(o) /\ row[o].type = arg[t].type /\ row[o].real = arg[t].cents) => o = cur[t]

\* An expired unpaid order does not stay unpaid: the timer closes it unless a
\* payment or an admin was first.
ExpiredIsClosed ==
  \A o \in OrderIds : (o \in Expired) ~> ~Unpaid(o)
=============================================================================
