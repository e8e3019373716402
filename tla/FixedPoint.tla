----------------------------- MODULE FixedPoint -----------------------------
(***************************************************************************)
(* The big-integer arithmetic the inventory client does with ethers'       *)
(* BigNumber.  BigNumber division truncates toward zero (it is BN.js       *)
(* division), which differs from TLA+'s \div (floor) when the numerator is *)
(* negative; a negative numerator is reachable because an allocation is    *)
(* computed from a balance minus a shortfall.  The fixed-point scalar      *)
(* (10^18 in the code) is the constant Scalar, scaled down for TLC.        *)
(***************************************************************************)
EXTENDS Integers

CONSTANT Scalar

ASSUME Scalar \in Nat \ {0}

\* a.div(b) on BigNumber: quotient truncated toward zero.
BNDiv(a, b) == IF a >= 0 THEN a \div b ELSE -((-a) \div b)

\* sdkUtils.ConvertDecimals(from, to)(x): multiply by 10^(to-from) when
\* the target has at least as many decimals, else truncating division.
ConvertDecimals(from, to, x) ==
    IF to >= from THEN x * 10^(to - from)
                  ELSE BNDiv(x, 10^(from - to))

\* x.mul(Scalar).div(total): the share of x in total as a fixed-point
\* fraction, as getCurrentAllocationPct and getChainDistribution compute it.
Share(x, total) == BNDiv(x * Scalar, total)

=============================================================================
