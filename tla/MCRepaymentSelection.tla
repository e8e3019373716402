------------------------ MODULE MCRepaymentSelection ------------------------
(***************************************************************************)
(* One L1 token on five chains: 1 is the hub, 2 and 3 are slow-withdrawal *)
(* chains with a spoke excess, 4 is a lite chain with no pool rebalance    *)
(* route, 5 is a slow-withdrawal chain the hub owes funds to (a positive   *)
(* running balance).  Balances are in whole tokens, Scalar = 100 stands    *)
(* for 10^18.                                                              *)
(***************************************************************************)
EXTENDS RepaymentSelection

MCVirtualBalance == [c \in 1..5 |-> CASE c = 1 -> 9 [] c = 3 -> 1 [] c = 4 -> 1 [] OTHER -> 0]
MCZero == [c \in 1..5 |-> 0]
MCTargetPct == [c \in 1..5 |-> 20]
MCOverageBuffer == [c \in 1..5 |-> 150]
MCSpokeTarget == [c \in {2, 3, 5} |-> IF c = 3 THEN 2 ELSE 0]
MCLastValidated == [c \in {2, 3, 5} |-> CASE c = 2 -> -3 [] c = 3 -> -4 [] OTHER -> 3]
MCUpcomingDeposits == [c \in {2, 3, 5} |-> IF c = 3 THEN 1 ELSE 0]

\* pending holds the last validated bundle's refunds still to execute, next
\* the refunds of a proposed bundle, if any, then of the upcoming one.  No
\* refunds yet; 2 tokens of upcoming refunds on chains 2 and 4; or a
\* proposed bundle without refunds for us and 3 upcoming on chain 2, which
\* turns chain 2's running balance from -3 to 0.
MCRefundViews ==
    { [pending |-> <<MCZero>>, next |-> <<MCZero>>],
      [pending |-> <<MCZero>>, next |-> <<[c \in 1..5 |-> IF c \in {2, 4} THEN 2 ELSE 0]>>],
      [pending |-> <<MCZero>>, next |-> <<MCZero, [c \in 1..5 |-> IF c = 2 THEN 3 ELSE 0]>>] }

\* d1: from the lite chain 4, forced to repay there.  d2: a plain deposit
\* 2 -> 3.  d3: 3 -> lite chain 4, output token an alias (USDC.e).
\* d4: an output token the client does not support.
MCDeposits ==
    { [origin |-> 4, destination |-> 2, amount |-> 1, forcesOrigin |-> TRUE,
       toLiteChain |-> FALSE, output |-> "same"],
      [origin |-> 2, destination |-> 3, amount |-> 2, forcesOrigin |-> FALSE,
       toLiteChain |-> FALSE, output |-> "same"],
      [origin |-> 3, destination |-> 4, amount |-> 1, forcesOrigin |-> FALSE,
       toLiteChain |-> TRUE, output |-> "alias"],
      [origin |-> 1, destination |-> 2, amount |-> 1, forcesOrigin |-> FALSE,
       toLiteChain |-> FALSE, output |-> "foreign"] }

=============================================================================
