------------------------ MODULE MCExcessWithdrawal ------------------------
(***************************************************************************)
(* The hub (chain 1) and two L2 chains, 2 and 3, with target 30% and an    *)
(* overage buffer of 2, so the excess threshold is 57% and the rate-limit *)
(* band 27% of the cumulative balance.  Chain 3 has no withdrawExcessPeriod *)
(* configured.  Balances are whole tokens, Scalar = 100 stands for 10^18.  *)
(***************************************************************************)
EXTENDS ExcessWithdrawal

MCChainIdList == <<1, 2, 3>>
MCUnwrapThreshold == [c \in {2, 3} |-> 2]
MCUnwrapTarget == [c \in {2, 3} |-> 3]
MCTarget == [c \in {2, 3} |-> 30]
MCOverageBuffer == [c \in {2, 3} |-> 200]
MCShortfall == [c \in {2, 3} |-> 0]

=============================================================================
