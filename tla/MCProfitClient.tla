--------------------------- MODULE MCProfitClient ---------------------------
(***************************************************************************)
(* Two enabled chains, 1 and 2, both paying gas in W (18 decimals here:    *)
(* Digits = 2, Scalar = 100).  U is a listed L1 token with one decimal; X  *)
(* is a mock L1 token with no TOKEN_SYMBOLS_MAP entry, which _getL1Tokens  *)
(* may return.  The price feed quotes $1 or $2.                            *)
(*                                                                         *)
(* Deposits of 10 U for 9.5 U from chain 2 and from chain 1 to chain 1     *)
(* share a token and a destination but not a route: the route 2 -> 1 has  *)
(* a minimum fee of 4% in the environment, every other route the default   *)
(* 2%.  The gross fee is 5%, so the gas cost and the LP fee decide.  A     *)
(* deposit of X with a message always simulates.                           *)
(***************************************************************************)
EXTENDS ProfitClient

MCTokens == {"U", "W", "X"}
MCGasToken == [c \in {1, 2} |-> "W"]
MCDecimals == [t \in MCTokens |-> IF t = "W" THEN 2 ELSE 1]
MCHubTokens == {{"U"}, {"U", "X"}}
MCSimCosts == {[native |-> 5, token |-> 10, gasPrice |-> 2]}
MCDeposits ==
    {[input |-> "U", output |-> "U", inputAmount |-> 100, outputAmount |-> 95, updated |-> << >>,
      origin |-> 2, destination |-> 1, message |-> FALSE],
     [input |-> "U", output |-> "U", inputAmount |-> 100, outputAmount |-> 95, updated |-> << >>,
      origin |-> 1, destination |-> 1, message |-> FALSE],
     [input |-> "X", output |-> "X", inputAmount |-> 100, outputAmount |-> 98, updated |-> <<95>>,
      origin |-> 1, destination |-> 2, message |-> TRUE]}
MCRouteFeeEnv == [r \in MCTokens \X {1, 2} \X {1, 2} |-> IF r = <<"U", 2, 1>> THEN <<4>> ELSE << >>]
MCTokenFeeEnv == [t \in MCTokens |-> << >>]

====
