\* Two overlapping bots, each reading the pending withdrawal volume before
\* the other has withdrawn.
CONSTANTS
    Scalar = 100
    Hub = 1
    ChainIdList <- MCChainIdList
    UnwrapChains = {2, 3}
    UnwrapThreshold <- MCUnwrapThreshold
    UnwrapTarget <- MCUnwrapTarget
    InitNative = {0, 2}
    Target <- MCTarget
    OverageBuffer <- MCOverageBuffer
    Shortfall <- MCShortfall
    WithdrawChains = {2}
    BridgeChains = {2, 3}
    Instances = {b1, b2}
    InitBal = {2, 6}
    InitInflight = {0, 3}
    MaxEvents = 2
SPECIFICATION Spec
INVARIANT RateLimited
