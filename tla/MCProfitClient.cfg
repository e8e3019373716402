\* Price and gas-cost refreshes racing each other and fill decisions on
\* mainnet or testnet, under fair completion of every request.
CONSTANTS
    Scalar = 100
    Digits = 2
    Tokens <- MCTokens
    Listed = {"U", "W"}
    Chains = {1, 2}
    GasToken <- MCGasToken
    Decimals <- MCDecimals
    HubTokens <- MCHubTokens
    PriceValues = {100, 200}
    SimCosts <- MCSimCosts
    Deposits <- MCDeposits
    LpFees = {0, 1}
    RouteFeeEnv <- MCRouteFeeEnv
    TokenFeeEnv <- MCTokenFeeEnv
    DefaultMinFee = 2
    GasPaddingArg = 10
    GasMultiplier = 100
    GasMessageMultiplier = 200
    MaxUint = 1000000
    MaxUpdates = 2
    MaxCaptured = 1
SPECIFICATION Spec
INVARIANT PricesAreLastFetched
INVARIANT ProfitableDecisionsJustified
PROPERTY UpdateSettles
