---------------------------- MODULE MCMchLedger ----------------------------
EXTENDS MchLedger, TLC

CONSTANTS m1, m2, o1, o2

OneOwner == [o \in Orders |-> m1]
TwoOwners == (o1 :> m1) @@ (o2 :> m2)
CentEach == [v \in Vouchers |-> 1]
AnyMerchant == [v \in Vouchers |-> Merchants]
ThreeCents == [o \in Orders |-> 3]
TwoCents == [o \in Orders |-> 2]

Symm == Permutations(Threads) \cup Permutations(Settles) \cup Permutations(Transfers)

\* Two merchants change places, each with its order.
SymmOwners == Symm \cup {(m1 :> m2) @@ (m2 :> m1) @@ (o1 :> o2) @@ (o2 :> o1)}
=============================================================================
