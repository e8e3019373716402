------------------------- MODULE InventoryRebalance -------------------------
(***************************************************************************)
(* InventoryClient.rebalanceInventoryIfNeeded (src/src/clients/            *)
(* InventoryClient.ts): one L1 token, its balance on the hub chain and on  *)
(* a few L2 chains, and one or more relayer bot instances that each run    *)
(* the L1->L2 rebalance pass against their own cached view.                *)
(*                                                                         *)
(* The real world: chainBal (on-chain balances) and inflight (bridge       *)
(* transfers submitted and not yet finalized).  Each instance i keeps the  *)
(* TokenClient's cached balances localBal[i] and the                       *)
(* CrossChainTransferClient's outstanding[i]; both are refreshed by Update *)
(* and mutated by the pass itself (trackCrossChainTransfer).               *)
(*                                                                         *)
(* A pass: plan (getPossibleRebalances), then for each plan a budget check *)
(* against the local hub balance and an awaited re-read of the on-chain    *)
(* hub balance (the suspension point: other instances and the chain move   *)
(* meanwhile), then the awaited sends one by one.  An exception anywhere   *)
(* ends the pass in the catch block.                                       *)
(***************************************************************************)
EXTENDS Integers, Sequences, Functions, FixedPoint

CONSTANTS
    Hub,            \* the hub chain id
    ChainOrder,     \* getEnabledL2Chains(), in configured order
    Target,         \* tokenConfig.targetPct per L2 chain (fixed point)
    Threshold,      \* tokenConfig.thresholdPct per L2 chain
    Shortfall,      \* TokenClient.getShortfallTotalRequirement per L2 chain
    Instances,      \* relayer bot instances running concurrently
    InitHub,        \* possible initial hub balances
    InitL2,         \* possible initial L2 balances
    MaxInflow,      \* bound on external top-ups of the hub balance
    RpcFailures     \* whether a send may fail with an RPC error

L2Chains == {ChainOrder[k] : k \in 1..Len(ChainOrder)}
Chains == L2Chains \cup {Hub}

ASSUME /\ Hub \notin L2Chains
       /\ Target \in [L2Chains -> 0..Scalar]
       /\ Threshold \in [L2Chains -> 0..Scalar]
       /\ Shortfall \in [L2Chains -> Nat]
       /\ RpcFailures \in BOOLEAN

VARIABLES
    chainBal,     \* on-chain balance of the relayer per chain
    inflight,     \* submitted, unfinalized L1->L2 transfers per L2 chain
    inflowCount,  \* external top-ups so far (bounded)
    localBal,     \* localBal[i][c]: TokenClient cached balance
    outstanding,  \* outstanding[i][c]: CrossChainTransferClient pending amount
    pc,           \* where instance i is in its loop
    plans,        \* rebalancesRequired
    idx,          \* loop index into plans (check phase) or possible (send phase)
    possible,     \* possibleRebalances
    unexecuted,   \* unexecutedRebalances
    executed,     \* executedTransactions
    lastError     \* the error the last pass's catch block logged

vars == <<chainBal, inflight, inflowCount, localBal, outstanding, pc, plans,
          idx, possible, unexecuted, executed, lastError>>

Rebalance == [chainId : L2Chains, amount : Int, balance : Int,
              cumulativeBalance : Int, currentAllocPct : Int]

(***************************************************************************)
(* The accountant, read through instance i's caches.                       *)
(***************************************************************************)

\* getBalanceOnChain: cached balance plus pending inbound transfers.
BalanceOnChain(i, c) ==
    localBal[i][c] + (IF c = Hub THEN 0 ELSE outstanding[i][c])

\* getCumulativeBalance: the sum over all enabled chains.
CumulativeBalance(i) ==
    SumFunction([c \in Chains |-> BalanceOnChain(i, c)])

\* getCurrentAllocationPct: (balance - shortfall) over the cumulative.
CurrentAllocationPct(i, c) ==
    IF CumulativeBalance(i) = 0 THEN 0
    ELSE Share(BalanceOnChain(i, c) - Shortfall[c], CumulativeBalance(i))

\* Mutant: the amount rounded up instead of truncated.
RebalanceForRoundedUp(i, c) ==
    LET cum == CumulativeBalance(i)
        cur == CurrentAllocationPct(i, c)
    IN  [chainId |-> c,
         amount |-> BNDiv((Target[c] - cur) * cum, Scalar) + 1,
         balance |-> localBal[i][Hub],
         cumulativeBalance |-> cum,
         currentAllocPct |-> cur]

\* One entry of getPossibleRebalances for chain c.
RebalanceFor(i, c) ==
    LET cum == CumulativeBalance(i)
        cur == CurrentAllocationPct(i, c)
    IN  [chainId |-> c,
         amount |-> BNDiv((Target[c] - cur) * cum, Scalar),
         balance |-> localBal[i][Hub],
         cumulativeBalance |-> cum,
         currentAllocPct |-> cur]

\* getPossibleRebalances: every L2 chain under its threshold, in order.
PossibleRebalances(i) ==
    IF CumulativeBalance(i) = 0 THEN << >>
    ELSE SelectSeq([k \in 1..Len(ChainOrder) |-> RebalanceFor(i, ChainOrder[k])],
                   LAMBDA r : r.currentAllocPct < Threshold[r.chainId])

\* Mutant: the hub balance is decremented but the transfer is not tracked.
TrackWithoutOutstanding(i, c, amount) ==
    /\ localBal' = [localBal EXCEPT ![i][Hub] = @ - amount]
    /\ UNCHANGED outstanding

\* trackCrossChainTransfer: reserve on the hub, count as inbound on c.
TrackCrossChainTransfer(i, c, amount) ==
    /\ localBal' = [localBal EXCEPT ![i][Hub] = @ - amount]
    /\ outstanding' = [outstanding EXCEPT ![i][c] = @ + amount]

\* Mutant: the plan is compared with the hub balance it was planned from
\* instead of what earlier reservations left.
FitsSnapshotBudget(i, r) == r.amount <= r.balance

\* The budget check of the first loop: the plan fits the unallocated
\* hub balance left after earlier iterations' reservations.
FitsBudget(i, r) == r.amount <= localBal[i][Hub]

(***************************************************************************)
(* Instance steps.                                                         *)
(***************************************************************************)

Init ==
    /\ chainBal \in {f \in [Chains -> InitL2 \cup InitHub] :
                       f[Hub] \in InitHub /\ \A c \in L2Chains : f[c] \in InitL2}
    /\ inflight = [c \in L2Chains |-> 0]
    /\ inflowCount = 0
    /\ localBal = [i \in Instances |-> chainBal]
    /\ outstanding = [i \in Instances |-> inflight]
    /\ pc = [i \in Instances |-> "ready"]
    /\ plans = [i \in Instances |-> << >>]
    /\ idx = [i \in Instances |-> 1]
    /\ possible = [i \in Instances |-> << >>]
    /\ unexecuted = [i \in Instances |-> << >>]
    /\ executed = [i \in Instances |-> << >>]
    /\ lastError = [i \in Instances |-> "none"]

\* The start of rebalanceInventoryIfNeeded: plan, and return early when
\* nothing is required.
StartPass(i) ==
    /\ pc[i] = "ready"
    /\ plans' = [plans EXCEPT ![i] = PossibleRebalances(i)]
    /\ pc' = [pc EXCEPT ![i] = IF PossibleRebalances(i) = << >> THEN "stale" ELSE "check"]
    /\ idx' = [idx EXCEPT ![i] = 1]
    /\ possible' = [possible EXCEPT ![i] = << >>]
    /\ unexecuted' = [unexecuted EXCEPT ![i] = << >>]
    /\ executed' = [executed EXCEPT ![i] = << >>]
    /\ lastError' = [lastError EXCEPT ![i] = "none"]
    /\ UNCHANGED <<chainBal, inflight, inflowCount, localBal, outstanding>>

\* First loop, budget check: a plan that does not fit is unexecutable.
CheckBudget(i) ==
    /\ pc[i] = "check"
    /\ idx[i] <= Len(plans[i])
    /\ LET r == plans[i][idx[i]] IN
       IF FitsBudget(i, r)
       THEN /\ pc' = [pc EXCEPT ![i] = "read"]
            /\ UNCHANGED <<idx, unexecuted>>
       ELSE /\ unexecuted' = [unexecuted EXCEPT ![i] = Append(@, r)]
            /\ idx' = [idx EXCEPT ![i] = @ + 1]
            /\ UNCHANGED pc
    /\ UNCHANGED <<chainBal, inflight, inflowCount, localBal, outstanding,
                   plans, possible, executed, lastError>>

\* First loop, after `await tokenContract.balanceOf(relayer)` resolves:
\* keep the plan and reserve it only if the on-chain hub balance still
\* equals the balance the plan was made from.
ReadOnChainBalance(i) ==
    /\ pc[i] = "read"
    /\ LET r == plans[i][idx[i]] IN
       IF r.balance = chainBal[Hub]
       THEN /\ possible' = [possible EXCEPT ![i] = Append(@, r)]
            /\ TrackCrossChainTransfer(i, r.chainId, r.amount)
       ELSE UNCHANGED <<possible, localBal, outstanding>>
    /\ idx' = [idx EXCEPT ![i] = @ + 1]
    /\ pc' = [pc EXCEPT ![i] = "check"]
    /\ UNCHANGED <<chainBal, inflight, inflowCount, plans, unexecuted,
                   executed, lastError>>

\* End of the first loop: go on to the sends.
EndChecks(i) ==
    /\ pc[i] = "check"
    /\ idx[i] > Len(plans[i])
    /\ pc' = [pc EXCEPT ![i] = "send"]
    /\ idx' = [idx EXCEPT ![i] = 1]
    /\ UNCHANGED <<chainBal, inflight, inflowCount, localBal, outstanding,
                   plans, possible, unexecuted, executed, lastError>>

\* Second loop: `await sendTokenCrossChain(...)` for the next kept plan.
\* The transaction moves the tokens off the hub into the bridge.
SendSucceeds(i) ==
    /\ pc[i] = "send"
    /\ idx[i] <= Len(possible[i])
    /\ LET r == possible[i][idx[i]] IN
       /\ r.amount <= chainBal[Hub]
       /\ chainBal' = [chainBal EXCEPT ![Hub] = @ - r.amount]
       /\ inflight' = [inflight EXCEPT ![r.chainId] = @ + r.amount]
       /\ executed' = [executed EXCEPT ![i] = Append(@, r)]
    /\ idx' = [idx EXCEPT ![i] = @ + 1]
    /\ UNCHANGED <<inflowCount, localBal, outstanding, pc, plans, possible,
                   unexecuted, lastError>>

\* The send throws: the transaction would revert because the hub balance
\* no longer covers it, or the RPC fails.  The catch block logs the state
\* and the pass ends; the reservations already made stay in the caches.
SendFails(i) ==
    /\ pc[i] = "send"
    /\ idx[i] <= Len(possible[i])
    /\ LET r == possible[i][idx[i]] IN
       \/ /\ r.amount > chainBal[Hub]
          /\ lastError' = [lastError EXCEPT ![i] = "insufficient"]
       \/ /\ RpcFailures
          /\ lastError' = [lastError EXCEPT ![i] = "rpc"]
    /\ pc' = [pc EXCEPT ![i] = "stale"]
    /\ UNCHANGED <<chainBal, inflight, inflowCount, localBal, outstanding,
                   plans, idx, possible, unexecuted, executed>>

\* All sends done: the summary is logged and the pass returns.
EndPass(i) ==
    /\ pc[i] = "send"
    /\ idx[i] > Len(possible[i])
    /\ pc' = [pc EXCEPT ![i] = "stale"]
    /\ UNCHANGED <<chainBal, inflight, inflowCount, localBal, outstanding,
                   plans, idx, possible, unexecuted, executed, lastError>>

\* InventoryClient.update and the TokenClient refresh that precede the
\* next pass of the bot loop: the caches are re-read from the chain.
Update(i) ==
    /\ pc[i] = "stale"
    /\ localBal' = [localBal EXCEPT ![i] = chainBal]
    /\ outstanding' = [outstanding EXCEPT ![i] = inflight]
    /\ pc' = [pc EXCEPT ![i] = "ready"]
    /\ UNCHANGED <<chainBal, inflight, inflowCount, plans, idx, possible,
                   unexecuted, executed, lastError>>

(***************************************************************************)
(* The environment: bridges finalize, and tokens arrive on the hub.        *)
(***************************************************************************)

Finalize(c) ==
    /\ inflight[c] > 0
    /\ chainBal' = [chainBal EXCEPT ![c] = @ + inflight[c]]
    /\ inflight' = [inflight EXCEPT ![c] = 0]
    /\ UNCHANGED <<inflowCount, localBal, outstanding, pc, plans, idx,
                   possible, unexecuted, executed, lastError>>

HubInflow ==
    /\ inflowCount < MaxInflow
    /\ chainBal' = [chainBal EXCEPT ![Hub] = @ + 1]
    /\ inflowCount' = inflowCount + 1
    /\ UNCHANGED <<inflight, localBal, outstanding, pc, plans, idx, possible,
                   unexecuted, executed, lastError>>

Next ==
    \/ \E i \in Instances :
          \/ StartPass(i) \/ CheckBudget(i) \/ ReadOnChainBalance(i)
          \/ EndChecks(i) \/ SendSucceeds(i) \/ SendFails(i) \/ EndPass(i)
          \/ Update(i)
    \/ \E c \in L2Chains : Finalize(c)
    \/ HubInflow

Spec == Init /\ [][Next]_vars

(***************************************************************************)
(* Properties.                                                             *)
(***************************************************************************)

InPass(i) == pc[i] \in {"check", "read", "send"}

\* Every rebalance that passed both the budget check and the on-chain
\* re-read is funded when it is sent: no send of rebalanceInventoryIfNeeded
\* reverts for lack of hub balance (the re-read is there, its comment says,
\* to protect against overlapping bot instances spending the same tokens).
FundedSends == \A i \in Instances : lastError[i] # "insufficient"

\* trackCrossChainTransfer only moves a reservation from the hub to the
\* destination chain: throughout a pass the instance's cumulative virtual
\* balance stays the cumulativeBalance the plans were computed from.
VirtualBalanceConserved ==
    \A i \in Instances :
        InPass(i) => CumulativeBalance(i) = plans[i][1].cumulativeBalance

\* A rebalance tops a chain up to its target and never beyond: once it is
\* reserved, the chain's allocation (shortfall deducted) is at most the
\* target, whatever the rounding of the amount.
NoOverRebalance ==
    \A i \in Instances : InPass(i) =>
        \A k \in 1..Len(possible[i]) :
            CurrentAllocationPct(i, possible[i][k].chainId)
                <= Target[possible[i][k].chainId]

\* The first loop reserves a plan only if it fits what the earlier
\* iterations left unallocated (the comment at the budget check): the
\* rebalances one pass reserves together never exceed the hub balance that
\* pass planned from, though each was planned from that whole balance.
ReservationsWithinBudget ==
    \A i \in Instances : InPass(i) =>
        SumFunction([k \in 1..Len(possible[i]) |-> possible[i][k].amount])
            <= plans[i][1].balance

=============================================================================
