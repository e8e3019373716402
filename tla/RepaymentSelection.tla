-------------------------- MODULE RepaymentSelection --------------------------
(***************************************************************************)
(* Concurrent determineRefundChainId calls of the relayer loop and the two *)
(* promises InventoryClient memoizes for them: bundleRefundsPromise        *)
(* (getBundleRefunds) and excessRunningBalancePromises[l1Token]            *)
(* (getExcessRunningBalancePcts).  The first caller starts the fetch, every *)
(* caller awaits the same promise, and the promise is kept in the client:  *)
(* nothing in InventoryClient (update() included) ever resets it.          *)
(*                                                                         *)
(* bundleRefunds is what BundleDataClient would return now: the lists of  *)
(* getPendingRefundsFromValidBundles (pending) and getNextBundleRefunds    *)
(* (next: a proposed bundle, if any, then the upcoming one), each entry    *)
(* the refunds per chain.  It changes between loop iterations (Tick).      *)
(***************************************************************************)
EXTENDS RepaymentChainSelector

CONSTANTS
    Deposits,          \* the deposits the relayer evaluates each iteration
    RefundViews,       \* possible BundleDataClient answers
    LastValidated,     \* getRunningBalanceBeforeBlockForChain per slow chain
    UpcomingDeposits,  \* getUpcomingDepositAmount per slow chain, L1 decimals
    MaxFetchFailures   \* bound on getAllBundleRefunds calls that reject

ASSUME /\ Deposits \subseteq Deposit
       /\ \A v \in RefundViews : /\ v \in [pending : Seq([Chains -> Nat]), next : Seq([Chains -> Nat])]
                              /\ Len(v.next) \in {1, 2}

VARIABLES
    bundleRefunds,   \* BundleDataClient's current answer
    refundsMemo,     \* bundleRefundsPromise: [state, value]
    excessMemo,      \* excessRunningBalancePromises[l1Token]: [state, value]
    call,            \* call[d]: where the evaluation of deposit d is
    totalRefunds,    \* totalRefundsPerChain the call of d computed (<< >> before, else <<it>>)
    result,          \* the outcome of determineRefundChainId for d
    fetchFailures    \* getAllBundleRefunds rejections so far (bounded)

vars == <<bundleRefunds, refundsMemo, excessMemo, call, totalRefunds, result, fetchFailures>>

NotDone == Thrown("notDone")
Outcomes == [error : {"none"}, chains : Seq(Chains)]
            \cup [error : {"notDone", "unexpectedOutput", "mismatch", "divZero", "fetchFailed"}, chains : {<< >>}]

\* getAllBundleRefunds: the pending refunds, then the next bundles', in one
\* list, as refunds.push(...pendingRefunds, ...nextBundleRefunds) builds it.
AllBundleRefunds(view) == view.pending \o view.next

\* getBundleRefunds after the await: per enabled chain, getTotalRefund over
\* the combined list; chains that are not enabled count zero.
TotalRefundsPerChain(view) ==
    LET refunds == AllBundleRefunds(view)
    IN  [c \in Chains |-> IF c \in EnabledChains
                          THEN SumFunction([k \in DOMAIN refunds |-> refunds[k][c]]) ELSE 0]

\* allBundleRefunds.pop()?.[chainId] ?? {}: the last entry of the combined
\* list, which the code relies on being the upcoming bundle.
PoppedRefunds(view) ==
    LET refunds == AllBundleRefunds(view)
    IN  IF refunds = << >> THEN [c \in Chains |-> 0] ELSE Last(refunds)

\* _getLatestRunningBalances over the awaited bundle refunds.
LatestRunningBalances(view) ==
    [c \in SlowWithdrawalRepaymentChains |->
        AbsLatestRunningBalance(LastValidated[c], UpcomingDeposits[c], PoppedRefunds(view)[c])]

\* getExcessRunningBalancePcts after its await, for this deposit's amount.
ExcessRunningBalancePcts(excess, d) ==
    [c \in DOMAIN excess |-> ExcessRunningBalancePct(c, excess[c], d.amount)]

(***************************************************************************)
(* A memoized promise: state "none" (undefined), "pending", "resolved" or  *)
(* "rejected"; value is meaningful only once resolved.                     *)
(***************************************************************************)
NoRefunds == CHOOSE v \in RefundViews : TRUE
NoBalances == [c \in SlowWithdrawalRepaymentChains |-> 0]
Unset(v) == [state |-> "none", value |-> v]
\* Mutant: the fetch is not started when the promise is undefined.
StartedNever(memo) == memo

Started(memo) == IF memo.state = "none" THEN [memo EXCEPT !.state = "pending"] ELSE memo
Resolved(v) == [state |-> "resolved", value |-> v]
IsValue(memo) == memo.state = "resolved"

Init ==
    /\ bundleRefunds \in RefundViews
    /\ refundsMemo = Unset(NoRefunds)
    /\ excessMemo = Unset(NoBalances)
    /\ call = [d \in Deposits |-> "idle"]
    /\ totalRefunds = [d \in Deposits |-> << >>]
    /\ result = [d \in Deposits |-> NotDone]
    /\ fetchFailures = 0

\* determineRefundChainId up to `await this.getBundleRefunds(l1Token)`:
\* either an early return (or throw), or the bundle refunds are awaited,
\* the first caller starting the fetch.
Evaluate(d) ==
    /\ call[d] = "idle"
    /\ IF EarlyResult(d) # Continue
       THEN /\ result' = [result EXCEPT ![d] = EarlyResult(d)]
            /\ call' = [call EXCEPT ![d] = "done"]
            /\ UNCHANGED refundsMemo
       ELSE /\ call' = [call EXCEPT ![d] = "refunds"]
            /\ refundsMemo' = Started(refundsMemo)
            /\ UNCHANGED result
    /\ UNCHANGED <<bundleRefunds, excessMemo, totalRefunds, fetchFailures>>

\* getAllBundleRefunds resolves with BundleDataClient's answer at the time.
FetchBundleRefunds ==
    /\ refundsMemo.state = "pending"
    /\ refundsMemo' = Resolved(bundleRefunds)
    /\ UNCHANGED <<bundleRefunds, excessMemo, call, totalRefunds, result, fetchFailures>>

\* getAllBundleRefunds rejects (an RPC error); the rejected promise stays
\* in bundleRefundsPromise.
FetchBundleRefundsFails ==
    /\ refundsMemo.state = "pending"
    /\ fetchFailures < MaxFetchFailures
    /\ refundsMemo' = [refundsMemo EXCEPT !.state = "rejected"]
    /\ fetchFailures' = fetchFailures + 1
    /\ UNCHANGED <<bundleRefunds, excessMemo, call, totalRefunds, result>>

\* Mutant: the caller retries on the rejected promise instead of throwing.
RejectAfterRefundsRetrying(d) ==
    /\ call[d] = "refunds"
    /\ refundsMemo.state = "rejected"
    /\ call' = [call EXCEPT ![d] = "idle"]
    /\ UNCHANGED <<bundleRefunds, refundsMemo, excessMemo, totalRefunds, result, fetchFailures>>

\* Resuming after the first await on a rejected promise: the await throws
\* and determineRefundChainId rejects.
RejectAfterRefunds(d) ==
    /\ call[d] = "refunds"
    /\ refundsMemo.state = "rejected"
    /\ result' = [result EXCEPT ![d] = Thrown("fetchFailed")]
    /\ call' = [call EXCEPT ![d] = "done"]
    /\ UNCHANGED <<bundleRefunds, refundsMemo, excessMemo, totalRefunds, fetchFailures>>

\* Resuming after the first await: the refunds per chain are taken from
\* the memoized promise; then either the excess percentages are awaited
\* (the first caller starting _getLatestRunningBalances) or the rest of
\* the function runs.
ResumeAfterRefunds(d) ==
    /\ call[d] = "refunds"
    /\ IsValue(refundsMemo)
    /\ totalRefunds' = [totalRefunds EXCEPT ![d] = <<TotalRefundsPerChain(refundsMemo.value)>>]
    /\ IF NeedsExcessPcts(d)
       THEN /\ call' = [call EXCEPT ![d] = "excess"]
            /\ excessMemo' = Started(excessMemo)
            /\ UNCHANGED result
       ELSE /\ call' = [call EXCEPT ![d] = "done"]
            /\ result' = [result EXCEPT ![d] =
                   RefundChainIds(d, TotalRefundsPerChain(refundsMemo.value), << >>)]
            /\ UNCHANGED excessMemo
    /\ UNCHANGED <<bundleRefunds, refundsMemo, fetchFailures>>

\* _getLatestRunningBalances resolves; it awaits bundleRefundsPromise too.
FetchRunningBalances ==
    /\ excessMemo.state = "pending"
    /\ IsValue(refundsMemo)
    /\ excessMemo' = Resolved(LatestRunningBalances(refundsMemo.value))
    /\ UNCHANGED <<bundleRefunds, refundsMemo, call, totalRefunds, result, fetchFailures>>

\* Resuming after the second await: the rest of determineRefundChainId.
ResumeAfterExcess(d) ==
    /\ call[d] = "excess"
    /\ IsValue(excessMemo)
    /\ result' = [result EXCEPT ![d] =
           RefundChainIds(d, totalRefunds[d][1], ExcessRunningBalancePcts(excessMemo.value, d))]
    /\ call' = [call EXCEPT ![d] = "done"]
    /\ UNCHANGED <<bundleRefunds, refundsMemo, excessMemo, totalRefunds, fetchFailures>>

\* The next iteration of the relayer loop: InventoryClient.update() runs
\* (it refreshes only the cross-chain transfer client), bundle data moves
\* on, and the deposits are evaluated afresh.  The memoized promises stay.
Tick ==
    /\ \A d \in Deposits : call[d] \in {"idle", "done"}
    /\ bundleRefunds' \in RefundViews
    /\ call' = [d \in Deposits |-> "idle"]
    /\ totalRefunds' = [d \in Deposits |-> << >>]
    /\ result' = [d \in Deposits |-> NotDone]
    /\ UNCHANGED <<refundsMemo, excessMemo, fetchFailures>>

Next ==
    \/ \E d \in Deposits : \/ Evaluate(d) \/ ResumeAfterRefunds(d)
                          \/ RejectAfterRefunds(d) \/ ResumeAfterExcess(d)
    \/ FetchBundleRefunds
    \/ FetchBundleRefundsFails
    \/ FetchRunningBalances
    \/ Tick

Spec == Init /\ [][Next]_vars

\* The event loop runs every continuation that is ready, the RPCs behind
\* the two promises answer, and the relayer loop iterates for ever.
Fairness ==
    /\ \A d \in Deposits : /\ WF_vars(Evaluate(d)) /\ WF_vars(ResumeAfterRefunds(d))
                         /\ WF_vars(RejectAfterRefunds(d)) /\ WF_vars(ResumeAfterExcess(d))
    /\ WF_vars(FetchBundleRefunds \/ FetchBundleRefundsFails)
    /\ WF_vars(FetchRunningBalances)
    /\ WF_vars(Tick)

FairSpec == Spec /\ Fairness

(***************************************************************************)
(* Properties.                                                             *)
(***************************************************************************)

TypeOK ==
    /\ bundleRefunds \in RefundViews
    /\ refundsMemo \in [state : {"none", "pending", "resolved", "rejected"}, value : RefundViews]
    /\ excessMemo \in [state : {"none", "pending", "resolved"},
                        value : [SlowWithdrawalRepaymentChains -> Nat]]
    /\ call \in [Deposits -> {"idle", "refunds", "excess", "done"}]
    /\ totalRefunds \in [Deposits -> Seq([Chains -> Nat])]
    /\ \A d \in Deposits : Len(totalRefunds[d]) <= 1
    /\ result \in [Deposits -> Outcomes]
    /\ fetchFailures \in 0..MaxFetchFailures

IsReturned(d) == result[d].error = "none"

\* determineRefundChainId never reaches its sanity-check throw: every
\* chain it evaluates is one getPossibleRepaymentChainIds offered the
\* relayer for its LP-fee pre-computation, whatever the awaited data.
SelectorConsistent == \A d \in Deposits : result[d].error # "mismatch"

\* A deposit from a lite chain that cannot be rebalanced quickly is either
\* repaid on its origin or not filled: the answer is <<origin>> or << >>.
LiteChainOrigin ==
    \A d \in Deposits :
        (d.forcesOrigin /\ d.origin \notin QuickChains /\ IsReturned(d))
            => result[d].chains \in {<<d.origin>>, << >>}

\* No chain is offered twice: the relayer computes one LP fee per listed
\* chain and takes the first profitable one.
NoDuplicateRepaymentChains ==
    \A d \in Deposits : IsReturned(d) => IsInjective(result[d].chains)

\* Every determineRefundChainId call that awaits the memoized promises
\* settles: it returns or throws, whichever caller started the fetches.
EveryCallCompletes ==
    \A d \in Deposits : call[d] \in {"refunds", "excess"} ~> call[d] = "done"

\* One failed getAllBundleRefunds costs one loop iteration: a deposit whose
\* evaluation threw because of it is evaluated successfully later on.
FetchFailureRecovered ==
    \A d \in Deposits : result[d].error = "fetchFailed" ~> IsReturned(d)

\* determineRefundChainId answers every deposit with a list of chains,
\* empty meaning "do not fill", and throws only on a configuration error
\* (an output token validateOutputToken rejects, a disagreement with
\* getPossibleRepaymentChainIds) or when the bundle refunds cannot be
\* fetched; in particular a relayer holding none of the token is told
\* not to fill rather than failing in the allocation arithmetic.
ThrowsOnlyOnConfigErrors ==
    \A d \in Deposits :
        result[d].error \in {"none", "notDone", "unexpectedOutput", "mismatch", "fetchFailed"}

=============================================================================
