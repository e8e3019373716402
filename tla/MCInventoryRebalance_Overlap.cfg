\* Two overlapping bot instances, nothing else moving: does the on-chain
\* re-read keep both from spending the same hub balance?
CONSTANTS
    Scalar = 100
    c1 = c1
    c2 = c2
    hub = hub
    bot1 = bot1
    bot2 = bot2
    Hub <- hub
    ChainOrder <- MCChainOrder
    Target <- MCTarget
    Threshold <- MCThreshold
    Shortfall <- MCShortfall
    Instances = {bot1, bot2}
    InitHub <- MCInitHub
    InitL2 <- MCInitL2
    MaxInflow = 0
    RpcFailures = FALSE
SPECIFICATION Spec
INVARIANT FundedSends
