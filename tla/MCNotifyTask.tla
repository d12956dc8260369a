---------------------------- MODULE MCNotifyTask ----------------------------
EXTENDS NotifyTask, TLC

\* 1 min, 5 min, 15 min, 1 h: scaled down, and in minutes
ShortDelays == <<1, 3, 3, 4>>
RealDelays == <<1, 5, 15, 60>>

Symm == Permutations(Orders) \cup Permutations(Threads) \cup Permutations(Slots)
SlotSymm == Permutations(Slots)
=============================================================================
