\* One bot, with refunds and fills, L1->L2 transfers landing and the
\* lookback period moving on between and during passes.
CONSTANTS
    Scalar = 100
    Hub = 1
    ChainIdList <- MCChainIdList
    UnwrapChains = {2, 3}
    UnwrapThreshold <- MCUnwrapThreshold
    UnwrapTarget <- MCUnwrapTarget
    InitNative = {0, 2}
    Target <- MCTarget
    OverageBuffer <- MCOverageBuffer
    Shortfall <- MCShortfall
    WithdrawChains = {2}
    BridgeChains = {2, 3}
    Instances = {b1}
    InitBal = {2, 6}
    InitInflight = {0, 3}
    MaxEvents = 2
SPECIFICATION Spec
INVARIANT NoOverWithdrawal
INVARIANT RateLimited
PROPERTY UnwrapNeverOvershoots
