---------------------------- MODULE MCAmountLock ----------------------------
EXTENDS AmountLock, TLC

Symm == Permutations(OrderIds) \cup Permutations(Threads) \cup Permutations(PayIds)
=============================================================================
