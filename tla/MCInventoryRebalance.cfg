\* Two bot instances running passes over the same relayer account, with
\* hub top-ups and RPC failures: the accounting properties per instance.
CONSTANTS
    Scalar = 100
    c1 = c1
    c2 = c2
    hub = hub
    bot1 = bot1
    bot2 = bot2
    Hub <- hub
    ChainOrder <- MCChainOrder
    Target <- MCTarget
    Threshold <- MCThreshold
    Shortfall <- MCShortfall
    Instances = {bot1, bot2}
    InitHub <- MCInitHub
    InitL2 <- MCInitL2
    MaxInflow = 1
    RpcFailures = TRUE
SPECIFICATION Spec
INVARIANT VirtualBalanceConserved
INVARIANT NoOverRebalance
INVARIANT ReservationsWithinBudget
