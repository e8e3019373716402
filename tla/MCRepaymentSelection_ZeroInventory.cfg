\* A relayer holding none of the token on any chain; in some loop iterations no refunds are pending either.
CONSTANTS
    Scalar = 100
    Hub = 1
    EnabledChains = {1, 2, 3, 4, 5}
    ConfiguredChains = {1, 2, 3, 4, 5}
    RouteChains = {1, 2, 3, 5}
    SlowChains = {2, 3, 5}
    QuickChains = {1}
    ManagementEnabled = TRUE
    PrioritizeLpUtilization = TRUE
    MaxUint = 1000
    VirtualBalance <- MCZero
    ChainShortfall <- MCZero
    TargetPct <- MCTargetPct
    OverageBuffer <- MCOverageBuffer
    SpokeTarget <- MCSpokeTarget
    LastValidated <- MCLastValidated
    UpcomingDeposits <- MCUpcomingDeposits
    RefundViews <- MCRefundViews
    Deposits <- MCDeposits
    MaxFetchFailures = 0
SPECIFICATION Spec
INVARIANT ThrowsOnlyOnConfigErrors
