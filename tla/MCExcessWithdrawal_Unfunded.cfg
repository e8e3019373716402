\* One bot, a chain whose allocation counts an L1->L2 transfer still in
\* flight, and no fill or refund on the way.
CONSTANTS
    Scalar = 100
    Hub = 1
    ChainIdList <- MCChainIdList
    UnwrapChains = {2, 3}
    UnwrapThreshold <- MCUnwrapThreshold
    UnwrapTarget <- MCUnwrapTarget
    InitNative = {0, 2}
    Target <- MCTarget
    OverageBuffer <- MCOverageBuffer
    Shortfall <- MCShortfall
    WithdrawChains = {2}
    BridgeChains = {2, 3}
    Instances = {b1}
    InitBal = {0, 2, 6}
    InitInflight = {0, 3}
    MaxEvents = 0
SPECIFICATION Spec
INVARIANT WithdrawalsFunded
