\* One rejected getAllBundleRefunds, then fair scheduling for ever.
CONSTANTS
    Scalar = 100
    Hub = 1
    EnabledChains = {1, 2, 3, 4, 5}
    ConfiguredChains = {1, 2, 3, 4, 5}
    RouteChains = {1, 2, 3, 5}
    SlowChains = {2, 3, 5}
    QuickChains = {1}
    ManagementEnabled = TRUE
    PrioritizeLpUtilization = TRUE
    MaxUint = 1000
    VirtualBalance <- MCVirtualBalance
    ChainShortfall <- MCZero
    TargetPct <- MCTargetPct
    OverageBuffer <- MCOverageBuffer
    SpokeTarget <- MCSpokeTarget
    LastValidated <- MCLastValidated
    UpcomingDeposits <- MCUpcomingDeposits
    RefundViews <- MCRefundViews
    Deposits <- MCDeposits
    MaxFetchFailures = 1
SPECIFICATION FairSpec
PROPERTY FetchFailureRecovered
