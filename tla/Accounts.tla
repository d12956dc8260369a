------------------------------ MODULE Accounts ------------------------------
(***************************************************************************)
(* What the merchant accounts promise: every document (an order, a         *)
(* settlement, a transfer, a voucher) and its money change together, in    *)
(* one step.  MchLedger is the code that does it in several statements.    *)
(***************************************************************************)
EXTENDS Integers, Functions

CONSTANTS
  Merchants,
  Orders,    \* orders that have a merchant
  Settles,   \* settlement numbers
  Transfers, \* transfer numbers
  Vouchers,  \* recharge orders, and CDK codes for money
  Amounts,   \* amounts merchants ask to settle or to transfer, in cents
  OwnerOf,   \* merchant of each order
  Income,    \* amount - mch_fee_amount of each order
  Worth,     \* amount of each voucher
  UsableBy,  \* merchants each voucher can be used by
  NoRow

VARIABLES balance, frozen, order, settle, transfer, voucher

accounts == <<balance, frozen, order, settle, transfer, voucher>>

Document(m, a, s) == [mch |-> m, amount |-> a, state |-> s]

Init ==
  /\ balance = [m \in Merchants |-> 0]
  /\ frozen = [m \in Merchants |-> 0]
  /\ order = [o \in Orders |-> "unpaid"]
  /\ settle = [s \in Settles |-> NoRow]
  /\ transfer = [x \in Transfers |-> NoRow]
  /\ voucher = [v \in Vouchers |-> NoRow]

\* b is added to the balance of m and f to its frozen money; neither may end
\* below zero.
Move(m, b, f) ==
  /\ balance[m] + b >= 0
  /\ frozen[m] + f >= 0
  /\ balance' = [balance EXCEPT ![m] = @ + b]
  /\ frozen' = [frozen EXCEPT ![m] = @ + f]

SetOrder(o, from, to) ==
  /\ order[o] = from
  /\ order' = [order EXCEPT ![o] = to]
  /\ UNCHANGED <<settle, transfer, voucher>>

PayOrder(o) == SetOrder(o, "unpaid", "paid") /\ Move(OwnerOf[o], Income[o], 0)
FreezeOrder(o) == SetOrder(o, "paid", "frozen") /\ Move(OwnerOf[o], -Income[o], Income[o])
UnfreezeOrder(o) == SetOrder(o, "frozen", "paid") /\ Move(OwnerOf[o], Income[o], -Income[o])

Pending(rows, k) == rows[k] # NoRow /\ rows[k].state = "pending"

\* One settlement of a merchant is open at a time.
ApplySettle(s, m, a) ==
  /\ settle[s] = NoRow
  /\ \A r \in Settles : Pending(settle, r) => settle[r].mch # m
  /\ settle' = [settle EXCEPT ![s] = Document(m, a, "pending")]
  /\ Move(m, -a, a)
  /\ UNCHANGED <<order, transfer, voucher>>

EndSettle(s, state, back) ==
  /\ Pending(settle, s)
  /\ settle' = [settle EXCEPT ![s].state = state]
  /\ Move(settle[s].mch, back, -settle[s].amount)
  /\ UNCHANGED <<order, transfer, voucher>>

CreateTransfer(x, m, a) ==
  /\ transfer[x] = NoRow
  /\ transfer' = [transfer EXCEPT ![x] = Document(m, a, "pending")]
  /\ Move(m, -a, 0)
  /\ UNCHANGED <<order, settle, voucher>>

EndTransfer(x, state, back) ==
  /\ Pending(transfer, x)
  /\ transfer' = [transfer EXCEPT ![x].state = state]
  /\ Move(transfer[x].mch, back, 0)
  /\ UNCHANGED <<order, settle, voucher>>

\* A voucher is used once.
Redeem(v, m) ==
  /\ voucher[v] = NoRow /\ m \in UsableBy[v]
  /\ voucher' = [voucher EXCEPT ![v] = m]
  /\ Move(m, Worth[v], 0)
  /\ UNCHANGED <<order, settle, transfer>>

Next ==
  \/ \E o \in Orders : PayOrder(o) \/ FreezeOrder(o) \/ UnfreezeOrder(o)
  \/ \E s \in Settles :
       \/ \E m \in Merchants, a \in Amounts : ApplySettle(s, m, a)
       \/ EndSettle(s, "paid", 0)
       \/ EndSettle(s, "rejected", settle[s].amount)
  \/ \E x \in Transfers :
       \/ \E m \in Merchants, a \in Amounts : CreateTransfer(x, m, a)
       \/ EndTransfer(x, "done", 0)
       \/ EndTransfer(x, "failed", transfer[x].amount)
  \/ \E v \in Vouchers, m \in Merchants : Redeem(v, m)

Spec == Init /\ [][Next]_accounts

-----------------------------------------------------------------------------
\* The cents of merchant m in the rows of a table that are in one of the states.
Counts(row, m, states) == row # NoRow /\ row.mch = m /\ row.state \in states
Total(rows, m, states) ==
  SumFunction([k \in {x \in DOMAIN rows : Counts(rows[x], m, states)} |-> rows[k].amount])

Earned(m, states) ==
  SumFunctionOnSet(Income, {o \in Orders : OwnerOf[o] = m /\ order[o] \in states})

Redeemed(m) == SumFunctionOnSet(Worth, {v \in Vouchers : voucher[v] = m})

\* Not a cent is lost or made: the balance is what the paid orders and used
\* vouchers brought in less what was settled and transferred, and the frozen money is exactly that
\* of the open settlements and the frozen orders.
Conserved ==
  \A m \in Merchants :
    /\ balance[m] = Earned(m, {"paid"}) + Redeemed(m) - Total(settle, m, {"pending", "paid"})
                                                      - Total(transfer, m, {"pending", "done"})
    /\ frozen[m] = Total(settle, m, {"pending"}) + Earned(m, {"frozen"})
=============================================================================
