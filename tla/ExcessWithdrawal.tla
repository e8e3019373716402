-------------------------- MODULE ExcessWithdrawal --------------------------
(***************************************************************************)
(* InventoryClient.withdrawExcessBalances (src/src/clients/                *)
(* InventoryClient.ts): one L1 token, each L2 chain with one L2 token, and *)
(* one or more bot instances that each run the L2->L1 excess withdrawal    *)
(* pass against their own cached view.                                     *)
(*                                                                         *)
(* The real world: chainBal (on-chain balances), inflight (L1->L2          *)
(* transfers not yet finalized), recent[c] (the L2->L1 withdrawals from c  *)
(* still inside the withdrawExcessPeriod lookback, oldest first, which the *)
(* adapter's getL2PendingWithdrawalAmount sums) and exiting (withdrawn     *)
(* tokens on their way to the hub).  Each instance keeps the TokenClient   *)
(* and CrossChainTransferClient caches, refreshed by Update.               *)
(*                                                                         *)
(* A pass: the cumulative balance from the caches, then per chain the      *)
(* excess test and the awaited pending-withdrawal read, then the awaited   *)
(* withdrawTokenFromL2 calls, started together by forEachAsync           *)
(* (Promise.all) and completed here one at a time in ascending chain id.   *)
(* The function has no catch: a withdrawal that throws rejects the pass,   *)
(* and the others, already started, still complete.  Every token has the   *)
(* same decimals, so ConvertDecimals is the identity.                      *)
(*                                                                         *)
(* The token is WETH, so the same bot also runs InventoryClient.unwrapWeth *)
(* over the same caches and balances: where a chain's native ETH           *)
(* (nativeBal) is under unwrapWethThreshold it unwraps WETH up to          *)
(* unwrapWethTarget.  A bot runs one pass at a time, and its caches are    *)
(* refreshed between passes.                                               *)
(***************************************************************************)
EXTENDS Integers, Sequences, SequencesExt, FixedPoint

CONSTANTS
    Hub,             \* the hub chain id
    ChainIdList,     \* getEnabledChains(): the configured chain ids, hub included
    Target,          \* tokenConfig.targetPct per L2 chain
    OverageBuffer,   \* tokenConfig.targetOverageBuffer per L2 chain
    Shortfall,       \* TokenClient.getShortfallTotalRequirement per L2 chain
    WithdrawChains,  \* chains whose config sets withdrawExcessPeriod
    BridgeChains,    \* chains whose adapter isSupportedL2Bridge(l1Token)
    Instances,       \* relayer bot instances running concurrently
    InitBal,         \* possible initial balances on each chain
    InitInflight,    \* possible initial L1->L2 transfers in flight per L2 chain
    MaxEvents,       \* bound on fills, refunds and gas spending
    UnwrapChains,    \* chains with an ETH gas token, a WETH tokenConfig and
                     \* unwrapWethThreshold and unwrapWethTarget set
    UnwrapThreshold, \* unwrapWethThreshold per chain of UnwrapChains
    UnwrapTarget,    \* unwrapWethTarget per chain of UnwrapChains
    InitNative       \* possible initial native ETH balances

\* getEnabledL2Chains: the enabled chains without the hub.
ChainOrder == SelectSeq(ChainIdList, LAMBDA c : c # Hub)

L2Chains == {ChainOrder[k] : k \in 1..Len(ChainOrder)}
Chains == L2Chains \cup {Hub}

\* toBNWei("0.95") on the model's scale.
Discount == (95 * Scalar) \div 100

\* targetOverageBuffer * 0.95: the code asserts it is at least 1.
TargetPctMultiplier(c) == BNDiv(OverageBuffer[c] * Discount, Scalar)

ASSUME /\ Hub \notin L2Chains
       /\ Target \in [L2Chains -> 0..Scalar]
       /\ Shortfall \in [L2Chains -> Nat]
       /\ \A c \in L2Chains : TargetPctMultiplier(c) >= Scalar
       /\ WithdrawChains \subseteq L2Chains /\ BridgeChains \subseteq L2Chains
       /\ UnwrapChains \subseteq Chains
       /\ UnwrapThreshold \in [UnwrapChains -> Nat] /\ UnwrapTarget \in [UnwrapChains -> Nat]

VARIABLES
    chainBal,    \* on-chain balance of the relayer per chain
    inflight,    \* L1->L2 transfers in flight per L2 chain
    recent,      \* recent[c]: withdrawals from c inside the lookback period,
                 \* each with the maxL2WithdrawalVolume that let it through
    exiting,     \* withdrawn tokens not yet arrived on the hub
    events,      \* fills and refunds so far (bounded)
    localBal,    \* localBal[i][c]: TokenClient cached balance
    outstanding, \* outstanding[i][c]: CrossChainTransferClient pending amount
    pc,          \* where instance i is: ready, eval, submit, stale
    cumulative,  \* the pass's cumulativeBalance
    idx,         \* loop index into ChainOrder (eval) or the submissions
    required,    \* withdrawalsRequired, in the order they were pushed
    lastError,   \* "none", or why the last pass rejected or logged an error
    nativeBal,   \* native ETH balance of the relayer per chain of UnwrapChains
    unwraps      \* unwrapsRequired of the bot's unwrap pass

vars == <<chainBal, inflight, recent, exiting, events, localBal, outstanding,
          pc, cumulative, idx, required, lastError, nativeBal, unwraps>>

Withdrawal == [chainId : L2Chains, amount : Int, balance : Int,
               cumulativeBalance : Int, maxVolume : Int, pending : Nat]

Unwrap == [chainId : UnwrapChains, amount : Int, balance : Nat]

\* getBalanceOnChain(chainId, l1Token, l2Token): cached balance plus
\* inbound L1->L2 transfers.
BalanceOnChain(i, c) ==
    localBal[i][c] + (IF c = Hub THEN 0 ELSE outstanding[i][c])

\* getCumulativeBalance: L2->L1 withdrawals in progress are not counted.
CumulativeBalance(i) ==
    SumFunctionOnSet([c \in Chains |-> BalanceOnChain(i, c)], Chains)

\* getCurrentAllocationPct with the shortfall deducted.
CurrentAllocationPct(i, c) ==
    IF CumulativeBalance(i) = 0 THEN 0
    ELSE Share(BalanceOnChain(i, c) - Shortfall[c], CumulativeBalance(i))

\* excessWithdrawThresholdPct.
ExcessWithdrawThresholdPct(c) == BNDiv(Target[c] * TargetPctMultiplier(c), Scalar)

\* Mutant: the amount rounded up instead of truncated.
DesiredWithdrawalAmountRoundedUp(i, c) ==
    BNDiv(cumulative[i] * (CurrentAllocationPct(i, c) - Target[c]), Scalar) + 1

\* desiredWithdrawalAmount: the cumulative balance times withdrawPct.
DesiredWithdrawalAmount(i, c) ==
    BNDiv(cumulative[i] * (CurrentAllocationPct(i, c) - Target[c]), Scalar)

\* maxL2WithdrawalVolume: the band between the threshold and the target.
MaxL2WithdrawalVolume(i, c) ==
    BNDiv((ExcessWithdrawThresholdPct(c) - Target[c]) * cumulative[i], Scalar)

\* getL2PendingWithdrawalAmount, read live when the await resolves.
Amounts(ws) == [k \in DOMAIN ws |-> ws[k].amount]
PendingWithdrawalAmount(c) == SumFunction(Amounts(recent[c]))

\* Mutant: the rate limit lets a withdrawal through at exactly the cap.
UnderCapInclusive(pending, maxVolume) == pending <= maxVolume

\* The return when pendingWithdrawalAmount.gte(maxL2WithdrawalVolume).
UnderCap(pending, maxVolume) == pending < maxVolume

\* The evaluation of one chain in the forEachAsync over chainIds: the
\* early returns, the excess test, and after the awaited pending read the
\* rate-limit return or the push onto withdrawalsRequired.
EvaluationOf(i, c) ==
    LET alloc == CurrentAllocationPct(i, c)
        w == [chainId |-> c, amount |-> DesiredWithdrawalAmount(i, c),
              balance |-> BalanceOnChain(i, c), cumulativeBalance |-> cumulative[i],
              maxVolume |-> MaxL2WithdrawalVolume(i, c),
              pending |-> PendingWithdrawalAmount(c)]
    IN  IF /\ c \in WithdrawChains /\ c \in BridgeChains
           /\ alloc >= ExcessWithdrawThresholdPct(c)
           /\ UnderCap(w.pending, w.maxVolume)
        THEN <<w>> ELSE << >>

Init ==
    /\ chainBal \in [Chains -> InitBal]
    /\ inflight \in [L2Chains -> InitInflight]
    /\ recent = [c \in L2Chains |-> << >>]
    /\ exiting = 0
    /\ events = 0
    /\ localBal = [i \in Instances |-> chainBal]
    /\ outstanding = [i \in Instances |-> inflight]
    /\ pc = [i \in Instances |-> "ready"]
    /\ cumulative = [i \in Instances |-> 0]
    /\ idx = [i \in Instances |-> 1]
    /\ required = [i \in Instances |-> << >>]
    /\ lastError = [i \in Instances |-> "none"]
    /\ nativeBal \in [UnwrapChains -> InitNative]
    /\ unwraps = [i \in Instances |-> << >>]

World == <<chainBal, inflight, recent, exiting, events, nativeBal, unwraps>>

\* The start of withdrawExcessBalances: the cumulative balance, and the
\* return when it is zero.
StartPass(i) ==
    /\ pc[i] = "ready"
    /\ cumulative' = [cumulative EXCEPT ![i] = CumulativeBalance(i)]
    /\ pc' = [pc EXCEPT ![i] = IF CumulativeBalance(i) = 0 THEN "stale" ELSE "eval"]
    /\ idx' = [idx EXCEPT ![i] = 1]
    /\ required' = [required EXCEPT ![i] = << >>]
    /\ lastError' = [lastError EXCEPT ![i] = "none"]
    /\ UNCHANGED <<World, localBal, outstanding>>

\* One chain evaluated, its pending-withdrawal await resolved.
EvaluateChain(i) ==
    /\ pc[i] = "eval"
    /\ idx[i] <= Len(ChainOrder)
    /\ required' = [required EXCEPT ![i] = @ \o EvaluationOf(i, ChainOrder[idx[i]])]
    /\ idx' = [idx EXCEPT ![i] = @ + 1]
    /\ UNCHANGED <<World, localBal, outstanding, pc, cumulative, lastError>>

\* After the loop: return when nothing is required, else go on to the
\* submissions over Object.keys(withdrawalsRequired), in ascending chain id.
EndEvaluation(i) ==
    /\ pc[i] = "eval"
    /\ idx[i] > Len(ChainOrder)
    /\ pc' = [pc EXCEPT ![i] = IF required[i] = << >> THEN "stale" ELSE "submit"]
    /\ required' = [required EXCEPT ![i] = SortSeq(@, LAMBDA a, b : a.chainId < b.chainId)]
    /\ idx' = [idx EXCEPT ![i] = 1]
    /\ UNCHANGED <<World, localBal, outstanding, cumulative, lastError>>

\* `await adapterManager.withdrawTokenFromL2(...)`: the tokens leave the
\* L2 for the hub and the withdrawal enters the lookback period.
WithdrawSucceeds(i) ==
    /\ pc[i] = "submit"
    /\ idx[i] <= Len(required[i])
    /\ LET w == required[i][idx[i]] IN
       /\ 0 <= w.amount /\ w.amount <= chainBal[w.chainId]
       /\ chainBal' = [chainBal EXCEPT ![w.chainId] = @ - w.amount]
       /\ recent' = [recent EXCEPT ![w.chainId] =
                         Append(@, [amount |-> w.amount, maxVolume |-> w.maxVolume])]
       /\ exiting' = exiting + w.amount
    /\ idx' = [idx EXCEPT ![i] = @ + 1]
    /\ pc' = [pc EXCEPT ![i] = IF idx[i] = Len(required[i]) THEN "stale" ELSE "submit"]
    /\ UNCHANGED <<inflight, events, localBal, outstanding, cumulative, required, lastError,
                   nativeBal, unwraps>>

\* The withdrawal throws because the L2 balance does not cover it; nothing
\* catches it, so the pass rejects, while the withdrawals forEachAsync
\* started with it still complete.
WithdrawFails(i) ==
    /\ pc[i] = "submit"
    /\ idx[i] <= Len(required[i])
    /\ required[i][idx[i]].amount > chainBal[required[i][idx[i]].chainId]
    /\ lastError' = [lastError EXCEPT ![i] = "insufficient"]
    /\ idx' = [idx EXCEPT ![i] = @ + 1]
    /\ pc' = [pc EXCEPT ![i] = IF idx[i] = Len(required[i]) THEN "stale" ELSE "submit"]
    /\ UNCHANGED <<World, localBal, outstanding, cumulative, required>>

\* The caches refresh before the next pass of the bot loop.
Update(i) ==
    /\ pc[i] = "stale"
    /\ localBal' = [localBal EXCEPT ![i] = chainBal]
    /\ outstanding' = [outstanding EXCEPT ![i] = inflight]
    /\ pc' = [pc EXCEPT ![i] = "ready"]
    /\ UNCHANGED <<World, cumulative, idx, required, lastError>>

(***************************************************************************)
(* unwrapWeth.                                                             *)
(***************************************************************************)

\* The chainInfo list: the enabled chains, in order, that unwrap at all.
UnwrapCandidates == SelectSeq(ChainIdList, LAMBDA c : c \in UnwrapChains)

\* Mutant: the target unwrapped whole, the native balance not deducted.
UnwrapForTarget(c) ==
    [chainId |-> c, amount |-> UnwrapTarget[c], balance |-> nativeBal[c]]

\* The unwrap considered for chain c: up to the target from the native
\* balance the awaited getBalance returned.
UnwrapFor(c) ==
    [chainId |-> c, amount |-> UnwrapTarget[c] - nativeBal[c], balance |-> nativeBal[c]]

\* unwrapsRequired: the chains under their threshold whose cached WETH
\* balance covers the unwrap (the others are only logged as unexecuted).
UnwrapsRequired(i) ==
    SelectSeq([k \in 1..Len(UnwrapCandidates) |-> UnwrapFor(UnwrapCandidates[k])],
              LAMBDA u : u.balance < UnwrapThreshold[u.chainId]
                         /\ localBal[i][u.chainId] >= u.amount)

\* The start of unwrapWeth, once `await Promise.all(... getBalance ...)`
\* has resolved: the unwraps planned, and the return when there are none.
StartUnwrap(i) ==
    /\ pc[i] = "ready"
    /\ unwraps' = [unwraps EXCEPT ![i] = UnwrapsRequired(i)]
    /\ pc' = [pc EXCEPT ![i] = IF UnwrapsRequired(i) = << >> THEN "stale" ELSE "unwrap"]
    /\ idx' = [idx EXCEPT ![i] = 1]
    /\ lastError' = [lastError EXCEPT ![i] = "none"]
    /\ UNCHANGED <<chainBal, inflight, recent, exiting, events, nativeBal, localBal,
                   outstanding, cumulative, required>>

\* One iteration of the unwrap loop: decrementLocalBalance, then
\* `await this._unwrapWeth(...)`; WETH.withdraw turns WETH into ETH.
UnwrapSucceeds(i) ==
    /\ pc[i] = "unwrap"
    /\ idx[i] <= Len(unwraps[i])
    /\ LET u == unwraps[i][idx[i]] IN
       /\ u.amount <= chainBal[u.chainId]
       /\ localBal' = [localBal EXCEPT ![i][u.chainId] = @ - u.amount]
       /\ chainBal' = [chainBal EXCEPT ![u.chainId] = @ - u.amount]
       /\ nativeBal' = [nativeBal EXCEPT ![u.chainId] = @ + u.amount]
    /\ idx' = [idx EXCEPT ![i] = @ + 1]
    /\ pc' = [pc EXCEPT ![i] = IF idx[i] = Len(unwraps[i]) THEN "stale" ELSE "unwrap"]
    /\ UNCHANGED <<inflight, recent, exiting, events, outstanding, cumulative, required,
                   lastError, unwraps>>

\* The withdraw transaction reverts (the WETH is no longer there): the
\* local balance is already decremented, the catch block logs the error
\* and the later unwraps are not sent.
UnwrapFails(i) ==
    /\ pc[i] = "unwrap"
    /\ idx[i] <= Len(unwraps[i])
    /\ LET u == unwraps[i][idx[i]] IN
       /\ u.amount > chainBal[u.chainId]
       /\ localBal' = [localBal EXCEPT ![i][u.chainId] = @ - u.amount]
    /\ lastError' = [lastError EXCEPT ![i] = "unwrapFailed"]
    /\ pc' = [pc EXCEPT ![i] = "stale"]
    /\ UNCHANGED <<World, outstanding, cumulative, idx, required>>

(***************************************************************************)
(* The environment: L1->L2 transfers finalize, withdrawals arrive on the   *)
(* hub and leave the lookback period, and fills and refunds move L2        *)
(* balances.                                                               *)
(***************************************************************************)

Unchanged == UNCHANGED <<localBal, outstanding, pc, cumulative, idx, required, lastError,
                         unwraps>>

Finalize(c) ==
    /\ inflight[c] > 0
    /\ chainBal' = [chainBal EXCEPT ![c] = @ + inflight[c]]
    /\ inflight' = [inflight EXCEPT ![c] = 0]
    /\ UNCHANGED <<recent, exiting, events, nativeBal>> /\ Unchanged

ExitArrives ==
    /\ exiting > 0
    /\ chainBal' = [chainBal EXCEPT ![Hub] = @ + exiting]
    /\ exiting' = 0
    /\ UNCHANGED <<inflight, recent, events, nativeBal>> /\ Unchanged

PeriodElapses(c) ==
    /\ recent[c] # << >>
    /\ recent' = [recent EXCEPT ![c] = Tail(@)]
    /\ UNCHANGED <<chainBal, inflight, exiting, events, nativeBal>> /\ Unchanged

\* A fill spends a token on c, or a refund pays one there.
BalanceMoves(c) ==
    /\ events < MaxEvents
    /\ \/ /\ chainBal[c] > 0
          /\ chainBal' = [chainBal EXCEPT ![c] = @ - 1]
       \/ chainBal' = [chainBal EXCEPT ![c] = @ + 1]
    /\ events' = events + 1
    /\ UNCHANGED <<inflight, recent, exiting, nativeBal>> /\ Unchanged

\* Transactions and fills spend native ETH for gas.
GasSpent(c) ==
    /\ events < MaxEvents
    /\ nativeBal[c] > 0
    /\ nativeBal' = [nativeBal EXCEPT ![c] = @ - 1]
    /\ events' = events + 1
    /\ UNCHANGED <<chainBal, inflight, recent, exiting>> /\ Unchanged

Next ==
    \/ \E i \in Instances :
          \/ StartPass(i) \/ EvaluateChain(i) \/ EndEvaluation(i)
          \/ WithdrawSucceeds(i) \/ WithdrawFails(i) \/ Update(i)
          \/ StartUnwrap(i) \/ UnwrapSucceeds(i) \/ UnwrapFails(i)
    \/ \E c \in UnwrapChains : GasSpent(c)
    \/ \E c \in L2Chains : Finalize(c) \/ PeriodElapses(c) \/ BalanceMoves(c)
    \/ ExitArrives

Spec == Init /\ [][Next]_vars

(***************************************************************************)
(* Properties.                                                             *)
(***************************************************************************)

TypeOK ==
    /\ chainBal \in [Chains -> Nat]
    /\ inflight \in [L2Chains -> Nat]
    /\ recent \in [L2Chains -> Seq([amount : Nat, maxVolume : Int])]
    /\ exiting \in Nat
    /\ pc \in [Instances -> {"ready", "eval", "submit", "unwrap", "stale"}]
    /\ \A i \in Instances : required[i] \in Seq(Withdrawal)
    /\ lastError \in [Instances -> {"none", "insufficient", "unwrapFailed"}]
    /\ nativeBal \in [UnwrapChains -> Nat]
    /\ \A i \in Instances : unwraps[i] \in Seq(Unwrap)

\* A planned withdrawal takes a chain down to its target and never below:
\* what stays on the chain (shortfall deducted) is at least targetPct of
\* the cumulative balance the pass computed, whatever BigNumber's
\* truncation does to the allocation and to the amount.
NoOverWithdrawal ==
    \A i \in Instances : \A k \in 1..Len(required[i]) :
        LET w == required[i][k] IN
        (w.balance - Shortfall[w.chainId] - w.amount) * Scalar
            >= Target[w.chainId] * w.cumulativeBalance

\* The rate limit of withdrawExcessBalances: once the withdrawals of a
\* chain inside the lookback period reach maxL2WithdrawalVolume, no further
\* one is sent, so at most the last withdrawal is over the cap that let it
\* through.
RateLimited ==
    \A c \in L2Chains :
        recent[c] # << >> =>
            SumFunction(Amounts(Front(recent[c]))) < Last(recent[c]).maxVolume

\* A withdrawal withdrawExcessBalances submits is covered by the tokens on
\* the L2: withdrawTokenFromL2 never throws for lack of tokens and the pass
\* never rejects.
WithdrawalsFunded == \A i \in Instances : lastError[i] # "insufficient"

\* unwrapWeth refills a chain's native ETH to unwrapWethTarget and never
\* beyond: the amount comes from the native balance read when the pass
\* started, and the unwraps run one by one later, with gas spent meanwhile.
UnwrapNeverOvershoots ==
    [][\A c \in UnwrapChains :
          nativeBal'[c] > nativeBal[c] => nativeBal'[c] <= UnwrapTarget[c]]_vars

=============================================================================
