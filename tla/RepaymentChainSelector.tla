----------------------- MODULE RepaymentChainSelector -----------------------
(***************************************************************************)
(* InventoryClient.determineRefundChainId and the helpers it calls         *)
(* (src/src/clients/InventoryClient.ts), for one L1 token, as operators    *)
(* over a deposit and the data the two awaits deliver: the bundle refunds  *)
(* per chain and the running balances of the slow-withdrawal chains.       *)
(*                                                                         *)
(* Chain ids are integers: the code keys its maps by chain id, and         *)
(* Object.entries returns integer keys in ascending order, which decides   *)
(* ties when the slow-withdrawal chains are sorted by excess.  Balances    *)
(* are in L1-token decimals; the per-chain balances the accountant would   *)
(* return are constants (they do not change while the selection runs).     *)
(***************************************************************************)
EXTENDS Integers, Sequences, SequencesExt, FixedPoint

CONSTANTS
    Hub,              \* hubPoolClient.chainId
    EnabledChains,    \* chains with a tokenConfig entry (_l1TokenEnabledForChain)
    ConfiguredChains, \* chains where getTokenConfig(l1Token, c, repaymentToken) is defined
    RouteChains,      \* chains where the L1 token has a pool rebalance route
    SlowChains,       \* SLOW_WITHDRAWAL_CHAINS, ascending
    QuickChains,      \* origins repaymentChainCanBeQuicklyRebalanced accepts
    ManagementEnabled,\* isInventoryManagementEnabled()
    PrioritizeLpUtilization,
    VirtualBalance,   \* getBalanceOnChain(c, l1Token, repaymentToken)
    ChainShortfall,   \* shortfall on c, in L1 decimals
    TargetPct,        \* tokenConfig.targetPct
    OverageBuffer,    \* tokenConfig.targetOverageBuffer (default 1.5)
    SpokeTarget,      \* configStore spoke target balance per slow chain
    MaxUint           \* MAX_UINT_VAL

Chains == DOMAIN VirtualBalance

(***************************************************************************)
(* A deposit as the selector sees it.  output is the output token's        *)
(* relation to the input token: "same" (areTokensEquivalent), "alias"      *)
(* (not equivalent, but validateOutputToken maps both to one L1 token, as  *)
(* USDC.e for USDC), "foreign" (validateOutputToken fails) or "invalid"    *)
(* (sdkUtils.invalidOutputToken).  forcesOrigin is                         *)
(* depositForcesOriginChainRepayment (a lite origin chain).                *)
(***************************************************************************)
Deposit == [origin : Chains, destination : Chains, amount : Nat,
            forcesOrigin : BOOLEAN, toLiteChain : BOOLEAN,
            output : {"same", "alias", "foreign", "invalid"}]

\* canTakeDestinationChainRepayment
CanTakeDestinationChainRepayment(d) ==
    /\ ~d.forcesOrigin
    /\ d.origin \in RouteChains
    /\ d.destination \in RouteChains

\* getSlowWithdrawalRepaymentChains
SlowWithdrawalRepaymentChains ==
    {c \in SlowChains : c \in EnabledChains /\ c \in RouteChains}

\* getPossibleRepaymentChainIds
PossibleRepaymentChainIds(d) ==
    IF d.forcesOrigin THEN {d.origin}
    ELSE {d.origin, Hub}
         \cup (IF CanTakeDestinationChainRepayment(d) THEN {d.destination} ELSE {})
         \cup (IF ManagementEnabled THEN SlowWithdrawalRepaymentChains ELSE {})

(***************************************************************************)
(* Running balances of the slow-withdrawal chains.                         *)
(***************************************************************************)

\* Mutant: the sign test dropped, the signed running balance returned.
AbsLatestRunningBalanceSigned(lastValidated, upcomingDeposits, upcomingRefunds) ==
    lastValidated - upcomingDeposits + upcomingRefunds

\* _getLatestRunningBalances, for one chain: the last validated running
\* balance minus deposits since its bundle plus the upcoming refunds; only
\* a negative result (the spoke holds excess) counts, as its magnitude.
AbsLatestRunningBalance(lastValidated, upcomingDeposits, upcomingRefunds) ==
    LET latest == lastValidated - upcomingDeposits + upcomingRefunds
    IN  IF latest < 0 THEN -latest ELSE 0

\* _getExcessRunningBalancePcts, for one chain: the post-relay excess over
\* the spoke target as a fraction of |target|, MaxUint for a zero target.
ExcessRunningBalancePct(c, excess, refundAmount) ==
    LET target == SpokeTarget[c]
        post == excess - refundAmount
    IN  IF target >= post THEN 0
        ELSE IF target = 0 THEN MaxUint
        ELSE BNDiv((post - target) * Scalar, IF target < 0 THEN -target ELSE target)

\* The slow chains with a positive excess, highest first; equal excesses
\* keep the ascending chain-id order of Object.entries (the sort is stable).
ChainsWithExcessSpokeBalances(pcts) ==
    LET withExcess == {c \in DOMAIN pcts : pcts[c] > 0}
    IN  SetToSortSeq(withExcess,
            LAMBDA a, b : pcts[a] > pcts[b] \/ (pcts[a] = pcts[b] /\ a < b))

(***************************************************************************)
(* Building the list of chains to evaluate.                                *)
(***************************************************************************)

\* Origin goes ahead of destination when the destination is a lite chain.
AddLiteOrigin(d, list) ==
    IF d.toLiteChain /\ ~Contains(list, d.origin) /\ d.origin \in EnabledChains
    THEN Append(list, d.origin) ELSE list

\* Mutant: the destination added without canTakeDestinationChainRepayment.
AddDestinationUnchecked(d, list) ==
    IF ~Contains(list, d.destination) /\ d.destination \in EnabledChains
    THEN Append(list, d.destination) ELSE list

AddDestination(d, list) ==
    IF CanTakeDestinationChainRepayment(d) /\ ~Contains(list, d.destination)
       /\ d.destination \in EnabledChains
    THEN Append(list, d.destination) ELSE list

\* Mutant: the includes() check on the origin dropped.
AddOriginAgain(d, list) ==
    IF d.origin # Hub /\ d.origin \in EnabledChains
    THEN Append(list, d.origin) ELSE list

AddOrigin(d, list) ==
    IF ~Contains(list, d.origin) /\ d.origin # Hub /\ d.origin \in EnabledChains
    THEN Append(list, d.origin) ELSE list

\* chainsToEvaluate, given the excess percentages (<< >> when not fetched).
ChainsToEvaluate(d, pcts) ==
    LET excessFirst == IF ~d.forcesOrigin /\ PrioritizeLpUtilization
                       THEN ChainsWithExcessSpokeBalances(pcts) ELSE << >>
    IN  AddOrigin(d, AddDestination(d, AddLiteOrigin(d, excessFirst)))

(***************************************************************************)
(* Evaluating one candidate chain.                                         *)
(***************************************************************************)

\* cumulativeVirtualBalancePostRefunds: getCumulativeBalance (the enabled
\* chains) plus every refund per chain; the divisor of every allocation.
CumulativeBalancePostRefunds(refunds) ==
    SumFunctionOnSet(VirtualBalance, EnabledChains) + SumFunction(refunds)

\* The allocation on c after this relay and the upcoming refunds.
ExpectedPostRelayAllocation(d, c, refunds) ==
    LET postRelay == VirtualBalance[c] - ChainShortfall[c]
                     + (IF c = d.destination /\ d.output = "same" THEN 0 ELSE d.amount)
                     + refunds[c]
    IN  BNDiv(postRelay * Scalar, CumulativeBalancePostRefunds(refunds))

\* targetPct, with the overage buffer except for a lite destination.
EffectiveTargetPct(d, c) ==
    IF d.toLiteChain /\ c = d.destination THEN TargetPct[c]
    ELSE BNDiv(TargetPct[c] * OverageBuffer[c], Scalar)

\* A candidate without a token config is taken only as the destination.
IsEligible(d, c, refunds) ==
    IF c \notin ConfiguredChains THEN c = d.destination
    ELSE ExpectedPostRelayAllocation(d, c, refunds) <= EffectiveTargetPct(d, c)

\* The lite-chain refusal and the hub fallback that end the function.
\* Mutant: the hub fallback added for lite-chain deposits too.
FinalRepaymentChainsAnyOrigin(d, eligible) ==
    IF d.forcesOrigin /\ eligible # <<d.origin>> THEN << >>
    ELSE IF ~Contains(eligible, Hub) THEN Append(eligible, Hub) ELSE eligible

FinalRepaymentChains(d, eligible) ==
    IF d.forcesOrigin /\ eligible # <<d.origin>> THEN << >>
    ELSE IF ~d.forcesOrigin /\ ~Contains(eligible, Hub)
         THEN Append(eligible, Hub) ELSE eligible

(***************************************************************************)
(* determineRefundChainId in three parts, split at its awaits.  An        *)
(* outcome is a returned list of chain ids (error "none") or the error it  *)
(* throws: "unexpectedOutput" (validateOutputToken fails), "mismatch" (the *)
(* candidates disagree with getPossibleRepaymentChainIds) or "divZero"     *)
(* (BigNumber division by a zero cumulative balance).  "continue" marks   *)
(* the function going on to its first await.                               *)
(***************************************************************************)
Returned(list) == [error |-> "none", chains |-> list]
Thrown(e) == [error |-> e, chains |-> << >>]
Continue == Thrown("continue")


\* Up to `await this.getBundleRefunds(l1Token)`: an early result, or
\* "continue" when the refunds are needed.
EarlyResult(d) ==
    IF d.output = "invalid" THEN Returned(<< >>)
    ELSE IF ~ManagementEnabled
         THEN Returned(<<IF CanTakeDestinationChainRepayment(d) THEN d.destination ELSE d.origin>>)
    ELSE IF d.output = "foreign" THEN Thrown("unexpectedOutput")
    ELSE IF d.forcesOrigin /\ d.origin \in QuickChains THEN Returned(<<d.origin>>)
    ELSE Continue

\* Whether the second await, getExcessRunningBalancePcts, happens.
NeedsExcessPcts(d) == ~d.forcesOrigin /\ PrioritizeLpUtilization

\* The rest of the function, once the refunds and the excess percentages
\* are known.
RefundChainIds(d, refunds, pcts) ==
    LET toEvaluate == ChainsToEvaluate(d, pcts)
    IN  IF \E k \in 1..Len(toEvaluate) : toEvaluate[k] \notin PossibleRepaymentChainIds(d)
        THEN Thrown("mismatch")
        ELSE IF toEvaluate # << >> /\ CumulativeBalancePostRefunds(refunds) = 0
        THEN Thrown("divZero")
        ELSE Returned(FinalRepaymentChains(d,
                 SelectSeq(toEvaluate, LAMBDA c : IsEligible(d, c, refunds))))

=============================================================================
