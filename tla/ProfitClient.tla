---------------------------- MODULE ProfitClient ----------------------------
(***************************************************************************)
(* ProfitClient (src/unnamed/part_000): its caches of token prices, of the *)
(* gas cost of a sample fill per destination chain and of minimum relayer  *)
(* fees per route, the update() that refreshes the first two, and          *)
(* isFillProfitable, the decision the relayer takes on a deposit.          *)
(*                                                                         *)
(* update() is Promise.all([updateTokenPrices(), updateGasCosts()]): the   *)
(* price fetch and one gas simulation per enabled chain are in flight at   *)
(* once and complete in any order.  isFillProfitable reads every cache     *)
(* before its only await (the simulation of a deposit that cannot use the  *)
(* cached cost), so one step is one call.                                  *)
(*                                                                         *)
(* A token is one symbol with one hub-chain address (tokenSymbolMap and    *)
(* tokenPrices are written together, so one map stands for both).  Prices  *)
(* and fractions are fixed-point with Scalar = 10^Digits for 10^18, and    *)
(* token decimals are at most Digits.                                      *)
(***************************************************************************)
EXTENDS Integers, Sequences, Functions, FixedPoint

CONSTANTS
    Digits,          \* decimals of the fixed-point scalar (18 in the code)
    Tokens,          \* L1 tokens and gas tokens
    Listed,          \* tokens with a TOKEN_SYMBOLS_MAP or remapping entry
    Chains,          \* enabledChainIds (origins and destinations)
    GasToken,        \* resolveGasToken(c)
    Decimals,        \* token decimals
    HubTokens,       \* possible answers of _getL1Tokens()
    PriceValues,     \* USD prices the price feed may return
    SimCosts,        \* answers getGasCosts may give: [native, token, gasPrice]
    Deposits,
    LpFees,          \* lpFeePct values the caller passes
    RouteFeeEnv,     \* process.env[MIN_RELAYER_FEE_PCT_<sym>_<src>_<dst>], << >> if unset
    TokenFeeEnv,     \* process.env[MIN_RELAYER_FEE_PCT_<sym>], << >> if unset
    DefaultMinFee,   \* defaultMinRelayerFeePct
    GasPaddingArg,   \* constructor gasPadding
    GasMultiplier, GasMessageMultiplier,
    MaxUint,         \* uint256Max
    MaxUpdates,      \* bound on update() calls
    MaxCaptured      \* bound on captured fills per origin chain

ASSUME /\ Scalar = 10^Digits
       /\ \A t \in Tokens : Decimals[t] \in 0..Digits
       /\ \A c \in Chains : GasToken[c] \in Listed
       \* the constructor's asserts
       /\ GasPaddingArg \in 0..(2 * Scalar)
       /\ {GasMultiplier, GasMessageMultiplier} \subseteq 0..(4 * Scalar)

\* this.gasPadding = toBNWei("1").add(gasPadding)
GasPadding == Scalar + GasPaddingArg

\* The triple _getTotalGasCost returns when the simulation throws.
Sentinel == [native |-> MaxUint, token |-> MaxUint, gasPrice |-> MaxUint]
SimResults == SimCosts \cup {Sentinel}

VARIABLES
    isTestnet,       \* hubPoolClient.chainId !== MAINNET, fixed at construction
    tokenPrices,     \* tokenPrices (its DOMAIN: the keys of tokenSymbolMap)
    totalGasCosts,   \* totalGasCosts, a partial function on Chains
    minRelayerFees,  \* minRelayerFees, keyed by route
    unprofitableFills, \* unprofitableFills[originChainId]
    priceTask,       \* updateTokenPrices: "idle", "fetching", "done", "failed"
    fetchTokens,     \* the addresses of the price request in flight
    gasPending,      \* chains whose sample simulation is in flight
    updateState,     \* the update() promise: "idle", "running", "resolved", "rejected"
    updates,         \* update() calls so far
    fetched,         \* history: fetched[t] is << the last price the feed gave >>
    decision         \* << the last isFillProfitable answer >>, or << >>

vars == <<isTestnet, tokenPrices, totalGasCosts, minRelayerFees, unprofitableFills,
          priceTask, fetchTokens, gasPending, updateState, updates, fetched, decision>>

Route == Tokens \X Chains \X Chains

Decision == [deposit : Deposits, profitable : BOOLEAN, native : Nat, netPct : Int,
             prices : Seq(Nat), cost : SimResults, minFee : Int]

Init ==
    /\ isTestnet \in BOOLEAN
    /\ tokenPrices = << >> /\ totalGasCosts = << >> /\ minRelayerFees = << >>
    /\ unprofitableFills = [c \in Chains |-> << >>]
    /\ priceTask = "idle" /\ fetchTokens = {} /\ gasPending = {}
    /\ updateState = "idle" /\ updates = 0
    /\ fetched = [t \in Tokens |-> << >>]
    /\ decision = << >>

-----------------------------------------------------------------------------
(***************************************************************************)
(* update()                                                                *)
(***************************************************************************)

\* updateTokenPrices' request: the L1 tokens (unlisted ones dropped, which
\* only a testnet reaches) and the gas token of every enabled chain.
PriceRequest(l1) == (l1 \cap Listed) \cup {GasToken[c] : c \in Chains}

\* Mutant: the pre-population assigns instead of using ??=.
PrePopulateOverwrite(prices, tokens) ==
    [t \in DOMAIN prices \cup tokens |-> IF t \in tokens THEN 0 ELSE prices[t]]

\* this.tokenSymbolMap[symbol] ??= address; this.tokenPrices[address] ??= bnZero
PrePopulate(prices, tokens) ==
    [t \in DOMAIN prices \cup tokens |-> IF t \in DOMAIN prices THEN prices[t] ELSE 0]

\* update(): both tasks run up to their first await.  On mainnet an L1
\* token without a TOKEN_SYMBOLS_MAP entry makes updateTokenPrices throw
\* before it pre-populates, and Promise.all rejects at once.
Update ==
    /\ updateState # "running" /\ updates < MaxUpdates
    /\ \E l1 \in HubTokens :
         IF ~isTestnet /\ ~(l1 \subseteq Listed)
         THEN /\ priceTask' = "failed" /\ updateState' = "rejected"
              /\ UNCHANGED <<tokenPrices, fetchTokens>>
         ELSE /\ tokenPrices' = PrePopulate(tokenPrices, PriceRequest(l1))
              /\ fetchTokens' = PriceRequest(l1)
              /\ priceTask' = "fetching" /\ updateState' = "running"
    /\ gasPending' = Chains
    /\ updates' = updates + 1
    /\ UNCHANGED <<isTestnet, totalGasCosts, minRelayerFees, unprofitableFills, fetched, decision>>

\* Mutant: the join is resolved only from the price branch, so update()
\* hangs when a simulation is the last to complete.
SettledWhenPriceLast(price, pending, state) ==
    IF state = "running" /\ price = "done" /\ pending = {} /\ priceTask = "fetching"
    THEN "resolved" ELSE state

\* Promise.all resolves when its last member does.
Settled(price, pending, state) ==
    IF state = "running" /\ price = "done" /\ pending = {} THEN "resolved" ELSE state

\* getPricesByAddress answers: every requested price is stored.
PricesFetched ==
    /\ priceTask = "fetching"
    /\ \E answer \in [fetchTokens -> PriceValues] :
         /\ tokenPrices' = [t \in DOMAIN tokenPrices |->
                               IF t \in fetchTokens THEN answer[t] ELSE tokenPrices[t]]
         /\ fetched' = [t \in Tokens |-> IF t \in fetchTokens THEN <<answer[t]>> ELSE fetched[t]]
    /\ priceTask' = "done"
    /\ updateState' = Settled("done", gasPending, updateState)
    /\ UNCHANGED <<isTestnet, totalGasCosts, minRelayerFees, unprofitableFills,
                   fetchTokens, gasPending, updates, decision>>

\* getPricesByAddress throws: the last known prices stay and
\* updateTokenPrices rethrows, which rejects update().
PriceFetchFailed ==
    /\ priceTask = "fetching"
    /\ priceTask' = "failed"
    /\ updateState' = "rejected"
    /\ UNCHANGED <<isTestnet, tokenPrices, totalGasCosts, minRelayerFees, unprofitableFills,
                   fetchTokens, gasPending, updates, fetched, decision>>

\* One chain's sample simulation in updateGasCosts completes; a failed
\* simulation is the sentinel triple, which is cached like any other.
GasSampled(c) ==
    /\ c \in gasPending
    /\ \E r \in SimResults : totalGasCosts' = [x \in DOMAIN totalGasCosts \cup {c} |->
                                                  IF x = c THEN r ELSE totalGasCosts[x]]
    /\ gasPending' = gasPending \ {c}
    /\ updateState' = Settled(priceTask, gasPending \ {c}, updateState)
    /\ UNCHANGED <<isTestnet, tokenPrices, minRelayerFees, unprofitableFills,
                   priceTask, fetchTokens, updates, fetched, decision>>

-----------------------------------------------------------------------------
(***************************************************************************)
(* isFillProfitable(deposit, lpFeePct, l1Token = deposit.input)           *)
(* A deposit is [input, output, inputAmount, outputAmount, updated (<< >>  *)
(* or << updatedOutputAmount >>), origin, destination, message (a          *)
(* non-empty message)].                                                    *)
(***************************************************************************)

\* Mutant: the route key without the origin chain.
RouteKeyNoOrigin(d) == <<d.input, d.destination, d.destination>>

\* routeKey = MIN_RELAYER_FEE_PCT_<symbol>_<srcChainId>_<dstChainId>
RouteKey(d) == <<d.input, d.origin, d.destination>>

\* process.env[routeKey] ?? process.env[tokenKey], else the default.
EnvMinRelayerFeePct(d) ==
    LET route == RouteFeeEnv[<<d.input, d.origin, d.destination>>]
    IN  IF route # << >> THEN Head(route)
        ELSE IF TokenFeeEnv[d.input] # << >> THEN Head(TokenFeeEnv[d.input])
        ELSE DefaultMinFee

\* minRelayerFeePct: the cached value of the route if any (no entry is
\* ever stored under the token key), else the environment's, which is
\* then saved under the route key.
MinRelayerFeePct(fees, d) ==
    IF RouteKey(d) \in DOMAIN fees THEN fees[RouteKey(d)] ELSE EnvMinRelayerFeePct(d)

SaveMinRelayerFee(fees, d) ==
    [k \in DOMAIN fees \cup {RouteKey(d)} |->
        IF k \in DOMAIN fees THEN fees[k] ELSE EnvMinRelayerFeePct(d)]

\* resolveTokenAddress asserts that the symbol is in tokenSymbolMap, and
\* getPriceOfToken then always finds a price: updateTokenPrices fills both
\* maps together, so the "not in price list" branch is unreachable.
PriceKnown(t) == t \in DOMAIN tokenPrices

\* amount.mul(toBNWei(1, 18 - decimals)): the amount in 18 decimals.
Scaled(t, amount) == amount * 10^(Digits - Decimals[t])

\* min(outputAmount, updatedOutputAmount ?? outputAmount)
EffectiveOutputAmount(d) ==
    IF d.updated # << >> /\ Head(d.updated) < d.outputAmount THEN Head(d.updated) ELSE d.outputAmount

\* resolveGasMultiplier
GasMultiplierFor(d) == IF d.message THEN GasMessageMultiplier ELSE GasMultiplier

\* getTotalGasCost: a deposit without a message reuses the chain's cached
\* sample when there is one (the sentinel included); any other simulates.
GasCostsFor(d) ==
    IF ~d.message /\ d.destination \in DOMAIN totalGasCosts
    THEN {totalGasCosts[d.destination]} ELSE SimResults

\* estimateFillCost's check: no field is uint256Max or <= 0.
GasCostUnknown(cost, gasTokenPrice) ==
    \E v \in {cost.native, cost.token, gasTokenPrice} : v = MaxUint \/ v <= 0

\* estimateFillCost: gasCostUsd of the padded, multiplied token gas cost.
GasCostUsd(d, cost, gasTokenPrice) ==
    LET tokenGasCost == BNDiv(BNDiv(cost.token * GasPadding, Scalar) * GasMultiplierFor(d), Scalar)
    IN  BNDiv(tokenGasCost * gasTokenPrice, 10^Decimals[GasToken[d.destination]])

\* calculateFillProfitability when every lookup succeeds: the net
\* relayer fee as a fraction of the output's USD value.
NetRelayerFeePct(d, lp, cost, inPrice, outPrice, gasTokenPrice) ==
    LET scaledIn == Scaled(d.input, d.inputAmount)
        inputUsd == BNDiv(scaledIn * inPrice, Scalar)
        outputUsd == BNDiv(Scaled(d.output, EffectiveOutputAmount(d)) * outPrice, Scalar)
        lpFeeUsd == BNDiv(BNDiv(scaledIn * lp, Scalar) * inPrice, Scalar)
        netUsd == inputUsd - outputUsd - lpFeeUsd - GasCostUsd(d, cost, gasTokenPrice)
    IN  IF outputUsd > 0 THEN BNDiv(netUsd * Scalar, outputUsd) ELSE 0

\* getFillProfitability, and what isFillProfitable makes of it.  The
\* lookups throw in code order: resolveTokenAddress of an unmapped input or
\* output symbol, totalFeePct's division by a zero inputAmountUsd, the gas
\* token's price, then the cost check; isFillProfitable catches, leaving
\* profitable false and nativeGasCost uint256Max, and a testnet accepts any
\* fill whose nativeGasCost is below uint256Max.
\* Mutant: the testnet relaxation applied on every network.
RelaxedAnyNetwork(profitable, native) == profitable \/ native < MaxUint

\* profitable || (this.isTestnet && nativeGasCost.lt(uint256Max))
Relaxed(profitable, native) == profitable \/ (isTestnet /\ native < MaxUint)

FillDecision(d, lp, cost, minFee) ==
    LET gasTok == GasToken[d.destination]
        known == \A t \in {d.input, d.output, gasTok} : PriceKnown(t)
        prices == IF known THEN <<tokenPrices[d.input], tokenPrices[d.output], tokenPrices[gasTok]>>
                  ELSE << >>
        throws == \/ ~known
                  \/ BNDiv(Scaled(d.input, d.inputAmount) * prices[1], Scalar) = 0
                  \/ GasCostUnknown(cost, prices[3])
        netPct == IF throws THEN 0 ELSE NetRelayerFeePct(d, lp, cost, prices[1], prices[2], prices[3])
        profitable == ~throws /\ prices[1] > 0 /\ prices[2] > 0 /\ netPct >= minFee
        native == IF throws THEN MaxUint ELSE BNDiv(cost.native * GasPadding, Scalar)
    IN  [deposit |-> d, profitable |-> Relaxed(profitable, native), native |-> native,
         netPct |-> netPct, prices |-> prices, cost |-> cost, minFee |-> minFee]

\* isFillProfitable: the relayer queries once update() has settled.
IsFillProfitable(d) ==
    /\ updateState # "running"
    /\ \E lp \in LpFees, cost \in GasCostsFor(d) :
         decision' = <<FillDecision(d, lp, cost, MinRelayerFeePct(minRelayerFees, d))>>
    /\ minRelayerFees' = SaveMinRelayerFee(minRelayerFees, d)
    /\ UNCHANGED <<isTestnet, tokenPrices, totalGasCosts, unprofitableFills, priceTask,
                   fetchTokens, gasPending, updateState, updates, fetched>>

\* captureUnprofitableFill: appended to the list of the deposit's origin.
CaptureUnprofitableFill(d) ==
    /\ Len(unprofitableFills[d.origin]) < MaxCaptured
    /\ unprofitableFills' = [unprofitableFills EXCEPT ![d.origin] = Append(@, d)]
    /\ UNCHANGED <<isTestnet, tokenPrices, totalGasCosts, minRelayerFees, priceTask,
                   fetchTokens, gasPending, updateState, updates, fetched, decision>>

\* clearUnprofitableFills
ClearUnprofitableFills ==
    /\ unprofitableFills' = [c \in Chains |-> << >>]
    /\ UNCHANGED <<isTestnet, tokenPrices, totalGasCosts, minRelayerFees, priceTask,
                   fetchTokens, gasPending, updateState, updates, fetched, decision>>

Next ==
    \/ Update
    \/ PricesFetched
    \/ PriceFetchFailed
    \/ \E c \in Chains : GasSampled(c)
    \/ \E d \in Deposits : IsFillProfitable(d) \/ CaptureUnprofitableFill(d)
    \/ ClearUnprofitableFills

\* The price request and every simulation either answer or time out.
Fairness ==
    /\ WF_vars(PricesFetched \/ PriceFetchFailed)
    /\ \A c \in Chains : WF_vars(GasSampled(c))

Spec == Init /\ [][Next]_vars /\ Fairness

-----------------------------------------------------------------------------
(***************************************************************************)
(* Properties                                                              *)
(***************************************************************************)

\* Spec 4.2 and 6: a failed price update leaves the old prices in place,
\* and updateTokenPrices' ??= pre-population never overwrites one, so every
\* cached price is the last one the feed gave for that token, or 0 if the
\* feed never priced it; this takes an update that prices a token and a
\* later update (failed or not) to go wrong.
PricesAreLastFetched ==
    \A t \in DOMAIN tokenPrices :
        tokenPrices[t] = IF fetched[t] = << >> THEN 0 ELSE Head(fetched[t])

\* Spec 4.4 steps 6-8 and 4.3: isFillProfitable reports a fill profitable
\* only when its gas cost was simulated (not the uint256Max sentinel, even
\* when cached by updateGasCosts) and, on mainnet, when the input, output
\* and gas token all had prices and the net fee reached the minimum that the
\* environment sets for the deposit's route, whatever minRelayerFees cached.
ProfitableDecisionsJustified ==
    \A dec \in Range(decision) : dec.profitable =>
        /\ dec.cost # Sentinel
        /\ ~isTestnet => /\ \A k \in 1..3 : dec.prices[k] > 0
                         /\ dec.netPct >= EnvMinRelayerFeePct(dec.deposit)

\* update() is Promise.all of the two refreshes: once called, it settles
\* (resolves or rejects), as every price request and simulation answers
\* or times out.
UpdateSettles == updateState = "running" ~> updateState # "running"

====
