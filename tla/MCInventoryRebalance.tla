----------------------- MODULE MCInventoryRebalance -----------------------
(***************************************************************************)
(* Model-checking instance of InventoryRebalance: a hub and two L2 chains, *)
(* 18-decimal fixed point scaled down to percent (Scalar = 100), balances  *)
(* of a few whole tokens.  Chain c1 carries a shortfall, so its allocation *)
(* can be negative and its rebalance larger than the hub's free balance.   *)
(***************************************************************************)
EXTENDS InventoryRebalance

CONSTANTS c1, c2, hub, bot1, bot2

MCChainOrder == <<c1, c2>>
MCTarget == [c \in {c1, c2} |-> 40]
MCThreshold == [c \in {c1, c2} |-> 30]
MCShortfall == [c \in {c1, c2} |-> IF c = c1 THEN 3 ELSE 0]
MCInitHub == {5, 8}
MCInitL2 == {0, 2}

=============================================================================
