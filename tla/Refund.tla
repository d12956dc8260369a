------------------------------- MODULE Refund -------------------------------
(***************************************************************************)
(* Refunds of paid orders, by every handler that books one:                *)
(*                                                                         *)
(*   merchant/MerchantRefundCtrl.h  apply         the merchant's own pages *)
(*   gateway/GatewayCtrl.h          refund        POST /gateway/refund     *)
(*                                  api           act=refund               *)
(*   admin/AdminExtraCtrl.h         refundRetry, orderFreeze, orderUnfreeze *)
(*   notify/NotifyReceiveCtrl.h     refundNotify                           *)
(*                                                                         *)
(* A refund is booked twice over.  apply sums the rows of refund_order; the *)
(* gateway's two handlers keep a total in pay_order.refund_amount and never *)
(* look at the rows.  A handler is split at each statement and at the call *)
(* of the channel.  changeMchBalance is one step here, its own interleaving *)
(* being the subject of MchLedger.  Orders of one merchant; in cents.      *)
(***************************************************************************)
EXTENDS Integers, FiniteSets, Functions

CONSTANTS
  Orders,      \* orders that have been paid
  Refunds,     \* bound: refund numbers generateRefundNo returns
  Paid,        \* pay_order.amount of each order
  Income,      \* amount - mch_fee_amount of each order
  Amounts,     \* amounts that are asked back
  FeeOf,       \* calcFee(amount, mch_fee_rate) of each amount
  Balances,    \* merchant.balance to begin with
  Threads,     \* request handler threads
  MaxRequests, \* bound: requests that arrive
  MaxCrashes,  \* bound: restarts of the process
  NoRow, NoJob

ASSUME RefundAssumption ==
  /\ Paid \in [Orders -> Nat] /\ Income \in [Orders -> Nat \ {0}]
  /\ Amounts \subseteq Nat \ {0}
  /\ FeeOf \in [Amounts -> Nat] /\ \A a \in Amounts : FeeOf[a] <= a
  /\ Balances \subseteq Nat
  /\ MaxRequests \in Nat /\ MaxCrashes \in Nat
  /\ IsFiniteSet(Orders) /\ IsFiniteSet(Refunds)

VARIABLES
  order,    \* pay_order: state, refund_amount, and whether its channel's plugin is there
  refund,   \* refund_order
  balance,  \* merchant.balance
  frozen,   \* merchant.frozen
  charged,  \* money_log: what each refund took from the merchant
  feeBack,  \* money_log: how often the fee of each refund was given back
  held,     \* money_log: what is frozen for each order
  known,    \* refunds the channel has taken on
  job,      \* what each thread is doing
  doubt,    \* what has happened to each order that the books do not survive
  requests, \* requests so far
  crashes   \* restarts so far

tables == <<order, refund, balance, frozen, charged, feeBack, held>>
vars == <<order, refund, balance, frozen, charged, feeBack, held, known, job, doubt, requests, crashes>>

OrderRows == [state : {"paid", "refunded", "frozen"}, refunded : Nat, channel : BOOLEAN]

\* The row, and the handler that inserted it.
Sources == {"apply", "gateway", "api"}
Rows == [order : Orders, via : Sources, amount : Nat, fee : Nat, state : {"pending", "done", "failed"}]

Kinds == Sources \cup {"retry", "notify", "freeze", "unfreeze"}

\* A handler: its order and refund, what it has read of the order, and its next step.
Job == [kind : Kinds, order : Orders, ref : Refunds \cup {NoRow}, amount : Nat,
        state : {"paid", "refunded", "frozen"}, refunded : Nat,
        answer : {"pending", "done"},
        pc : {"sum", "insert", "order", "channel", "money", "final"}]

\* Two handlers at work on the order at once; a gateway refund beside one of
\* apply's; a failed refund brought back; a handler that died, or was refused
\* money, between two of its writes.
Doubts == {"raced", "mixed", "revived", "total", "charge", "held"}

ASSUME RefundNullAssumption == NoRow \notin Rows /\ NoRow \notin Refunds /\ NoJob \notin Job

Init ==
  /\ order \in [Orders -> {[state |-> "paid", refunded |-> 0, channel |-> c] : c \in BOOLEAN}]
  /\ refund = [r \in Refunds |-> NoRow]
  /\ balance \in Balances
  /\ frozen = 0
  /\ charged = [r \in Refunds |-> 0]
  /\ feeBack = [r \in Refunds |-> 0]
  /\ held = [o \in Orders |-> 0]
  /\ known = {}
  /\ job = [t \in Threads |-> NoJob]
  /\ doubt = [o \in Orders |-> {}]
  /\ requests = 0 /\ crashes = 0

-----------------------------------------------------------------------------
(* Thread bookkeeping *)

OnOrder(t, o) == job[t] # NoJob /\ job[t].order = o
Busy(o) == \E t \in Threads : OnOrder(t, o)
Doubted(o, marks) == doubt' = [doubt EXCEPT ![o] = @ \cup marks]

Begin(t, kind, o, r, a, pc) ==
  /\ requests < MaxRequests
  /\ requests' = requests + 1
  /\ job[t] = NoJob
  /\ job' = [job EXCEPT ![t] =
       [kind |-> kind, order |-> o, ref |-> r, amount |-> a, state |-> order[o].state,
        refunded |-> order[o].refunded, answer |-> "pending", pc |-> pc]]
  /\ Doubted(o, IF Busy(o) THEN {"raced"} ELSE {})
  /\ UNCHANGED <<tables, known, crashes>>

At(t, kinds, pc) == job[t] # NoJob /\ job[t].kind \in kinds /\ job[t].pc = pc
GoTo(t, pc) == job' = [job EXCEPT ![t].pc = pc]
Finish(t) == job' = [job EXCEPT ![t] = NoJob]

\* generateRefundNo: a number nobody else has
Fresh == {r \in Refunds : refund[r] = NoRow /\ \A t \in Threads : job[t] # NoJob => job[t].ref # r}

RowsOf(o) == {r \in Refunds : refund[r] # NoRow /\ refund[r].order = o}
Live(o) == {r \in RowsOf(o) : refund[r].state \in {"pending", "done"}}
Total(rows) == SumFunction([r \in rows |-> refund[r].amount])

-----------------------------------------------------------------------------
(* Booking a refund *)

\* The merchant asks: the order must be paid, and this amount within it ...
Apply(t, o, a) ==
  /\ order[o].state = "paid"
  /\ a <= Paid[o]
  /\ \E r \in Fresh : Begin(t, "apply", o, r, a, "sum")

\* (faulty variant: refunds that wait for the channel are not counted)
ApplySumDone(t) ==
  /\ At(t, {"apply"}, "sum")
  /\ LET j == job[t]
     IN  IF Total({r \in Live(j.order) : refund[r].state = "done"}) + j.amount > Paid[j.order]
           THEN Finish(t) ELSE GoTo(t, "insert")
  /\ UNCHANGED <<tables, known, doubt, requests, crashes>>

\* ... and within it together with the refunds that wait or are done.
ApplySum(t) ==
  /\ At(t, {"apply"}, "sum")
  /\ LET j == job[t]
     IN  IF Total(Live(j.order)) + j.amount > Paid[j.order] THEN Finish(t) ELSE GoTo(t, "insert")
  /\ UNCHANGED <<tables, known, doubt, requests, crashes>>

Gateway(t, o, a) ==
  /\ order[o].state \in {"paid", "frozen"}
  /\ a <= Paid[o] - order[o].refunded
  /\ \E r \in Fresh : Begin(t, "gateway", o, r, a, "insert")

\* mapi act=refund: also of an order that is refunded in part, and within the balance
Api(t, o, a) ==
  /\ order[o].state \in {"paid", "refunded"}
  /\ a <= Paid[o] - order[o].refunded
  /\ a <= balance
  /\ \E r \in Fresh : Begin(t, "api", o, r, a, "insert")

\* (faulty variant: the rate is in per cent)
FeeScaled(j) == IF j.kind = "gateway" THEN FeeOf[j.amount] * 100 ELSE 0

Fee(j) == IF j.kind = "gateway" THEN FeeOf[j.amount] ELSE 0

\* INSERT INTO refund_order, in state 0
Insert(t) ==
  /\ At(t, Sources, "insert")
  /\ LET j == job[t]
     IN  /\ refund' = [refund EXCEPT ![j.ref] =
              [order |-> j.order, via |-> j.kind, amount |-> j.amount, fee |-> Fee(j), state |-> "pending"]]
         /\ Doubted(j.order, IF j.kind # "apply" /\ \E r \in Live(j.order) : refund[r].via = "apply"
                               THEN {"mixed"} ELSE {})
         /\ GoTo(t, IF j.kind # "apply" THEN "order" ELSE IF order[j.order].channel THEN "channel" ELSE "money")
  /\ UNCHANGED <<order, balance, frozen, charged, feeBack, held, known, requests, crashes>>

\* (faulty variant: the total is replaced by this refund)
OrderTotalReplaced(t) ==
  /\ At(t, {"gateway", "api"}, "order")
  /\ LET j == job[t]
         state == IF j.kind = "api" \/ j.amount >= Paid[j.order] THEN "refunded" ELSE j.state
     IN  /\ order' = [order EXCEPT ![j.order].refunded = j.amount, ![j.order].state = state]
         /\ Doubted(j.order, IF held[j.order] # 0 /\ state # "frozen" THEN {"held"} ELSE {})
  /\ GoTo(t, "money")
  /\ UNCHANGED <<refund, balance, frozen, charged, feeBack, held, known, requests, crashes>>

\* UPDATE pay_order SET refund_amount=?,state=?: both from what was read.  A
\* frozen order that is refunded in full is frozen no more; its money is.
OrderTotal(t) ==
  /\ At(t, {"gateway", "api"}, "order")
  /\ LET j == job[t]
         total == j.refunded + j.amount
         state == IF j.kind = "api" \/ total >= Paid[j.order] THEN "refunded" ELSE j.state
     IN  /\ order' = [order EXCEPT ![j.order].refunded = total, ![j.order].state = state]
         /\ Doubted(j.order, IF held[j.order] # 0 /\ state # "frozen" THEN {"held"} ELSE {})
  /\ GoTo(t, "money")
  /\ UNCHANGED <<refund, balance, frozen, charged, feeBack, held, known, requests, crashes>>

\* changeMchBalance: change 6 takes the money whatever the balance, change 2
\* (apply) only if it is there, and apply asks for the answer only if there is no channel.
Charge(t) ==
  /\ At(t, Sources, "money")
  /\ LET j == job[t]
         local == ~order[j.order].channel
         paid == j.kind = "apply" => balance >= j.amount
     IN  /\ balance' = IF paid THEN balance - (j.amount - Fee(j)) ELSE balance
         /\ charged' = IF paid THEN [charged EXCEPT ![j.ref] = @ + j.amount - Fee(j)] ELSE charged
         /\ Doubted(j.order, IF paid \/ local THEN {} ELSE {"charge"})
         /\ IF j.kind = "apply" /\ (paid \/ ~local)
              THEN job' = [job EXCEPT ![t].pc = "final", ![t].answer = IF local THEN "done" ELSE @]
              ELSE Finish(t)
  /\ UNCHANGED <<order, refund, frozen, feeBack, held, known, requests, crashes>>

-----------------------------------------------------------------------------
(* The channel *)

\* Does this write bring back a refund that had failed?
Revives(r, s) == refund[r].state = "failed" /\ s # "failed"

SetState(r, s) ==
  /\ refund' = [refund EXCEPT ![r].state = s]
  /\ Doubted(refund[r].order, IF Revives(r, s) THEN {"revived"} ELSE {})

\* (faulty variant: a refund that is done is tried again too)
RetryAny(t, r) ==
  /\ refund[r] # NoRow /\ order[refund[r].order].channel
  /\ Begin(t, "retry", refund[r].order, r, refund[r].amount, "channel")

\* The administrator tries again a refund that is not done.
Retry(t, r) ==
  /\ refund[r] # NoRow /\ refund[r].state # "done"
  /\ order[refund[r].order].channel
  /\ Begin(t, "retry", refund[r].order, r, refund[r].amount, "channel")

\* (faulty variant: the charge is left to the channel's report)
ChannelAcceptsUncharged(t) ==
  /\ At(t, {"apply", "retry"}, "channel")
  /\ known' = known \cup {job[t].ref}
  /\ \E s \in {"pending", "done"} : job' = [job EXCEPT ![t].answer = s, ![t].pc = "final"]
  /\ UNCHANGED <<tables, doubt, requests, crashes>>

\* plugin->refund took the refund on; it is in progress or done.
ChannelAccepts(t) ==
  /\ At(t, {"apply", "retry"}, "channel")
  /\ known' = known \cup {job[t].ref}
  /\ \E s \in {"pending", "done"} :
       job' = [job EXCEPT ![t].answer = s, ![t].pc = IF job[t].kind = "apply" THEN "money" ELSE "final"]
  /\ UNCHANGED <<tables, doubt, requests, crashes>>

\* plugin->refund failed, or its answer was lost: apply's row has failed, a row
\* that is tried again stays as it is (only err_msg is written).
ChannelFails(t) ==
  /\ At(t, {"apply", "retry"}, "channel")
  /\ \E arrived \in BOOLEAN : known' = IF arrived THEN known \cup {job[t].ref} ELSE known
  /\ refund' = IF job[t].kind = "apply" THEN [refund EXCEPT ![job[t].ref].state = "failed"] ELSE refund
  /\ Finish(t)
  /\ UNCHANGED <<order, balance, frozen, charged, feeBack, held, doubt, requests, crashes>>

\* UPDATE refund_order SET state=?: no condition on the state
Answered(t) ==
  /\ At(t, {"apply", "retry"}, "final")
  /\ SetState(job[t].ref, job[t].answer)
  /\ Finish(t)
  /\ UNCHANGED <<order, balance, frozen, charged, feeBack, held, known, requests, crashes>>

\* (faulty variant: a refund that is done is not looked for)
NotifyAgain(t, r) ==
  /\ r \in known /\ refund[r] # NoRow
  /\ Begin(t, "notify", refund[r].order, r, refund[r].amount, "final")

\* The channel reports that a refund it has taken on is done, once or more.
Notify(t, r) ==
  /\ r \in known /\ refund[r] # NoRow /\ refund[r].state # "done"
  /\ Begin(t, "notify", refund[r].order, r, refund[r].amount, "final")

Notified(t) ==
  /\ At(t, {"notify"}, "final")
  /\ SetState(job[t].ref, "done")
  /\ IF refund[job[t].ref].fee > 0 THEN GoTo(t, "money") ELSE Finish(t)
  /\ UNCHANGED <<order, balance, frozen, charged, feeBack, held, known, requests, crashes>>

\* changeMchBalance 1: the fee of the refund goes back to the merchant
ReturnFee(t) ==
  /\ At(t, {"notify"}, "money")
  /\ balance' = balance + refund[job[t].ref].fee
  /\ feeBack' = [feeBack EXCEPT ![job[t].ref] = @ + 1]
  /\ Finish(t)
  /\ UNCHANGED <<order, refund, frozen, charged, held, known, doubt, requests, crashes>>

-----------------------------------------------------------------------------
(* Freezing the order's income *)

\* (faulty variant: any order can be frozen)
FreezeAny(t, o) == Begin(t, "freeze", o, NoRow, Income[o], "money")

Freeze(t, o) ==
  /\ order[o].state = "paid"
  /\ Begin(t, "freeze", o, NoRow, Income[o], "money")

Unfreeze(t, o) ==
  /\ order[o].state = "frozen"
  /\ Begin(t, "unfreeze", o, NoRow, Income[o], "money")

\* changeMchBalance 3, whose refusal ends the handler
FreezeMoney(t) ==
  /\ At(t, {"freeze"}, "money")
  /\ LET j == job[t]
     IN  IF balance >= j.amount
           THEN /\ balance' = balance - j.amount
                /\ frozen' = frozen + j.amount
                /\ held' = [held EXCEPT ![j.order] = @ + j.amount]
                /\ GoTo(t, "final")
           ELSE Finish(t) /\ UNCHANGED <<balance, frozen, held>>
  /\ UNCHANGED <<order, refund, charged, feeBack, known, doubt, requests, crashes>>

\* changeMchBalance 4, whose refusal nobody looks at
UnfreezeMoney(t) ==
  /\ At(t, {"unfreeze"}, "money")
  /\ LET j == job[t]
     IN  IF frozen >= j.amount
           THEN /\ balance' = balance + j.amount
                /\ frozen' = frozen - j.amount
                /\ held' = [held EXCEPT ![j.order] = @ - j.amount]
           ELSE UNCHANGED <<balance, frozen, held>>
  /\ GoTo(t, "final")
  /\ UNCHANGED <<order, refund, charged, feeBack, known, doubt, requests, crashes>>

\* UPDATE pay_order SET state=?: no condition on the state
FreezeFinal(t) ==
  /\ At(t, {"freeze", "unfreeze"}, "final")
  /\ order' = [order EXCEPT ![job[t].order].state = IF job[t].kind = "freeze" THEN "frozen" ELSE "paid"]
  /\ Finish(t)
  /\ UNCHANGED <<refund, balance, frozen, charged, feeBack, held, known, doubt, requests, crashes>>

-----------------------------------------------------------------------------
\* What is left undone of a handler that dies.
Undone(j) ==
  IF j.pc = "order" THEN {"total", "charge"}
  ELSE IF j.pc \in {"channel", "money"} /\ j.kind \in Sources THEN {"charge"}
  ELSE IF j.pc = "final" /\ j.kind \in {"freeze", "unfreeze"} THEN {"held"}
  ELSE {}

\* A restart: the tables stay, the handlers are gone.
Crash ==
  /\ crashes < MaxCrashes
  /\ crashes' = crashes + 1
  /\ doubt' = [o \in Orders |-> doubt[o] \cup
                 UNION {Undone(job[t]) : t \in {u \in Threads : OnOrder(u, o)}}]
  /\ job' = [t \in Threads |-> NoJob]
  /\ UNCHANGED <<tables, known, requests>>

Arrive(t) ==
  \/ \E o \in Orders : Freeze(t, o) \/ Unfreeze(t, o)
  \/ \E o \in Orders, a \in Amounts : Apply(t, o, a) \/ Gateway(t, o, a) \/ Api(t, o, a)
  \/ \E r \in Refunds : Retry(t, r) \/ Notify(t, r)

Continue(t) ==
  \/ ApplySum(t) \/ Insert(t) \/ OrderTotal(t) \/ Charge(t)
  \/ ChannelAccepts(t) \/ ChannelFails(t) \/ Answered(t)
  \/ Notified(t) \/ ReturnFee(t)
  \/ FreezeMoney(t) \/ UnfreezeMoney(t) \/ FreezeFinal(t)

\* Every handler has ended, and no request need come.
AllServed ==
  /\ \A t \in Threads : job[t] = NoJob
  /\ UNCHANGED vars

Next ==
  \/ \E t \in Threads : Arrive(t) \/ Continue(t)
  \/ Crash
  \/ AllServed

Spec == Init /\ [][Next]_vars

-----------------------------------------------------------------------------
(* Properties *)

TypeOK ==
  /\ order \in [Orders -> OrderRows]
  /\ refund \in [Refunds -> Rows \cup {NoRow}]
  /\ balance \in Int
  /\ frozen \in Nat
  /\ charged \in [Refunds -> Nat]
  /\ feeBack \in [Refunds -> Nat]
  /\ held \in [Orders -> Int]
  /\ known \subseteq Refunds
  /\ job \in [Threads -> Job \cup {NoJob}]
  /\ doubt \in [Orders -> SUBSET Doubts]
  /\ requests \in Nat /\ crashes \in Nat

\* The refunds of an order that wait or are done stay within what was paid for
\* it, unless two handlers worked on it at once, a gateway refund came beside one
\* of apply's, a failed refund was brought back, or a restart came between a
\* gateway refund's row and its total.
RefundsWithinPaid == \A o \in Orders :
  doubt[o] \cap {"raced", "mixed", "revived", "total"} = {} => Total(Live(o)) <= Paid[o]

\* pay_order.refund_amount is the sum of the gateway's rows in refund_order,
\* except while a handler is between the two, or if one was interrupted there or
\* two overlapped.
TotalMatchesRows == \A o \in Orders :
  /\ doubt[o] \cap {"raced", "total"} = {}
  /\ \A t \in Threads : OnOrder(t, o) => job[t].pc # "order"
  => order[o].refunded = Total({r \in RowsOf(o) : refund[r].via # "apply"})

\* A refund that is done has been charged to the merchant, fee deducted, once no
\* handler is at it.  The exceptions: a failed refund that was brought back, a
\* balance too low for a refund the channel had taken on, a restart before the
\* charge.
WorksOn(t, r) == job[t] # NoJob /\ job[t].ref = r
DoneIsCharged == \A r \in Refunds :
  /\ refund[r] # NoRow /\ refund[r].state = "done"
  /\ doubt[refund[r].order] \cap {"revived", "charge"} = {}
  /\ \A t \in Threads : ~WorksOn(t, r)
  => charged[r] = refund[r].amount - refund[r].fee

\* The fee of a refund is given back once at most, however often the channel
\* reports the refund and the administrator tries it again, as long as no two
\* handlers overlap on the order.
FeeReturnedOnce == \A r \in Refunds :
  refund[r] # NoRow /\ "raced" \notin doubt[refund[r].order] => feeBack[r] <= 1

\* A refund that is done stays done, unless handlers overlapped on its order (the
\* channel's report may come before the answer of the call it is about).
DoneIsKept ==
  [][\A r \in Refunds :
       /\ refund[r] # NoRow /\ refund[r].state = "done"
       /\ "raced" \notin doubt[refund[r].order]
       => refund'[r].state = "done"]_vars

\* While no handler is at an order, its income is frozen if and only if the order
\* is, unless on any of the merchant's orders handlers overlapped, one was
\* interrupted, or a frozen order was refunded in full: after that, releasing one
\* order twice takes what is frozen for another.
HeldWhileFrozen == \A o \in Orders :
  /\ \A p \in Orders : doubt[p] \cap {"raced", "held"} = {}
  /\ ~Busy(o)
  => held[o] = IF order[o].state = "frozen" THEN Income[o] ELSE 0
=============================================================================
