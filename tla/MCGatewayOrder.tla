--------------------------- MODULE MCGatewayOrder ---------------------------
(* GatewayOrder for TLC: two channels taken in turn, the second with a limit. *)
EXTENDS GatewayOrder, TLC

LimitValue == [c \in Channels |-> IF c = 1 THEN 0 ELSE 2]
TakesValue == [c \in Channels |-> Amounts \cup {Probe}]
ModesValue == [c \in Channels |-> {"roundRobin"}]
Interchangeable == Permutations(Orders) \cup Permutations(Threads)
=============================================================================
