------------------------------ MODULE MCRefund ------------------------------
(* Refund for TLC: orders of four cents, half of each refund is fee. *)
EXTENDS Refund, TLC

PaidValue == [o \in Orders |-> 4]
IncomeValue == [o \in Orders |-> 2]
FeeValue == [a \in Amounts |-> a \div 2]
BalanceValues == {5}
Interchangeable == Permutations(Orders) \cup Permutations(Refunds) \cup Permutations(Threads)
=============================================================================
