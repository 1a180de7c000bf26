--------------------------- MODULE PoolLiquidityL2 ---------------------------
(***************************************************************************)
(* liquidity-l2: the OLAS pools of the other chains -- LP supply, reserves *)
(* read from the Balancer Vault at mints and burns (or logged by a         *)
(* UniswapV2 pair on Celo), and swap fees.                                 *)
(*                                                                         *)
(* The pools and the Vault are external.  The Vault logs the swaps of all  *)
(* its pools; those of Others are not indexed.                             *)
(***************************************************************************)
EXTENDS Counters

CONSTANTS
    Pool, Others,               \* the pool of the subgraph; other pools of the Vault
    OnVault,                    \* a Balancer pool, or the UniswapV2 pair on Celo
    Amounts, SwapAmounts, Balances, Percentages,
    Wei, FeeNumerator, FeeDenominator, DayLength,
    Hidden,                     \* LP supply before the first indexed block
    MaxMinted, MaxNow, MaxSwaps,    \* bounds
    None

\* What the constants must satisfy (MCLedgers assumes it of its instances).
PoolL2Assumption == /\ Pool \notin Others
                    /\ Amounts \cup SwapAmounts \cup Percentages \subseteq Nat
                    /\ {FeeNumerator, Hidden} \subseteq Nat
                    /\ {Wei, FeeDenominator, DayLength} \subseteq Nat \ {0}

VARIABLES
    \* External: LP supply, the balances at the end of the block, the pool's fee.
    now, supply, vault, percentage,
    \* The store.
    metrics, daily

chain == <<now, supply, vault, percentage>>
vars == <<chain, metrics, daily>>

Day == now \div DayLength
Pools == {Pool} \cup Others

NewMetrics == [poolId |-> None, token0 |-> FALSE, reserve0 |-> 0, reserve1 |-> 0,
               totalSupply |-> 0, totalMinted |-> 0, totalBurned |-> 0,
               cumulativeFeesToken0 |-> 0, cumulativeFeesToken1 |-> 0, swapFeePercentage |-> 0]
DailyFields == {"totalFeesToken0", "totalFeesToken1", "swapCount"}

getOrCreatePoolMetrics(p) == LoadOr(metrics, p, NewMetrics)

-----------------------------------------------------------------------------
(* LP token transfers and reserves. *)

\* Seeded fault: the supply is not clamped at zero.
SuppliedUnclamped(m, amount, isMint, isBurn) ==
    Add(m, IF isMint THEN [totalSupply |-> amount, totalMinted |-> amount]
           ELSE IF isBurn THEN [totalSupply |-> -amount, totalBurned |-> amount]
           ELSE [totalSupply |-> 0])

Supplied(m, amount, isMint, isBurn) ==
    IF isMint THEN Add(m, [totalSupply |-> amount, totalMinted |-> amount])
    ELSE IF isBurn
    THEN [Add(m, [totalBurned |-> amount]) EXCEPT
             !.totalSupply = IF amount > @ THEN 0 ELSE @ - amount]
    ELSE m

\* The Vault's balances of the block's end; a UniswapV2 pair has no pool id.
WithReserves(m) ==
    IF OnVault
    THEN [m EXCEPT !.poolId = Pool, !.token0 = TRUE, !.reserve0 = vault[1], !.reserve1 = vault[2]]
    ELSE m

handleBPTTransfer(from, to, amount) ==
    LET isMint == from = "zero"
        isBurn == to = "zero"
        supplied == Supplied(getOrCreatePoolMetrics(Pool), amount, isMint, isBurn)
    IN  /\ IF isMint THEN getOrCreatePoolMetrics(Pool).totalMinted + amount <= MaxMinted
           ELSE amount <= supply
        /\ supply' = supply + (IF isMint THEN amount ELSE IF isBurn THEN -amount ELSE 0)
        /\ metrics' = Put(metrics, Pool,
                          IF isMint \/ isBurn THEN WithReserves(supplied) ELSE supplied)
        /\ UNCHANGED <<now, vault, percentage, daily>>

handleUniswapSync ==
    /\ ~OnVault
    /\ metrics' = Put(metrics, Pool, [getOrCreatePoolMetrics(Pool) EXCEPT
                          !.reserve0 = vault[1], !.reserve1 = vault[2], !.token0 = TRUE])
    /\ UNCHANGED <<chain, daily>>

-----------------------------------------------------------------------------
(* Swap fees. *)

Swapped(p, m, fee0, fee1) ==
    /\ Total(daily, "swapCount") < MaxSwaps
    /\ daily' = AddTo(daily, Day, DailyFields,
                      [totalFeesToken0 |-> fee0, totalFeesToken1 |-> fee1, swapCount |-> 1])
    /\ metrics' = Put(metrics, p, Add(m, [cumulativeFeesToken0 |-> fee0,
                                          cumulativeFeesToken1 |-> fee1]))
    /\ UNCHANGED chain

\* The fee percentage is read once and kept.
WithFee(m) == IF m.swapFeePercentage = 0 THEN [m EXCEPT !.swapFeePercentage = percentage] ELSE m

\* Seeded fault: the swaps of every pool are counted.
SwapOfAnyPool(p, amount, in0) ==
    LET m == WithFee(getOrCreatePoolMetrics(Pool))
        fee == (amount * percentage) \div Wei
    IN  IF in0 THEN Swapped(p, m, fee, 0) ELSE Swapped(p, m, 0, fee)

\* A swap of a pool without a row, and one whose id is not the row's, is ignored.
SwapOfPool(p, amount, in0) ==
    LET known == IF metrics[p].poolId = None THEN [metrics[p] EXCEPT !.poolId = p] ELSE metrics[p]
        m == WithFee(known)
        fee == (amount * m.swapFeePercentage) \div Wei
    IN  /\ p \in DOMAIN metrics
        /\ known.poolId = p
        /\ IF in0 /\ m.token0 THEN Swapped(p, m, fee, 0) ELSE Swapped(p, m, 0, fee)

handleVaultSwap(p, amount, in0) == OnVault /\ SwapOfPool(p, amount, in0)

handleUniswapSwap(amount0, amount1) ==
    /\ ~OnVault
    /\ Swapped(Pool, getOrCreatePoolMetrics(Pool),
               (amount0 * FeeNumerator) \div FeeDenominator,
               (amount1 * FeeNumerator) \div FeeDenominator)

-----------------------------------------------------------------------------
\* The next block leaves other balances in the pool and perhaps another fee.
NextBlock ==
    /\ now < MaxNow
    /\ now' = now + 1
    /\ vault' \in Balances \X Balances
    /\ percentage' \in Percentages
    /\ UNCHANGED <<supply, metrics, daily>>

Init ==
    /\ now = 0 /\ supply = Hidden
    /\ vault \in Balances \X Balances /\ percentage \in Percentages
    /\ metrics = NoRows /\ daily = NoRows

Next ==
    \/ NextBlock
    \/ \E from, to \in {"zero", "other"}, amount \in Amounts : handleBPTTransfer(from, to, amount)
    \/ handleUniswapSync
    \/ \E p \in Pools, amount \in SwapAmounts, in0 \in BOOLEAN : handleVaultSwap(p, amount, in0)
    \/ \E a0, a1 \in SwapAmounts : handleUniswapSwap(a0, a1)

Spec == Init /\ [][Next]_vars

-----------------------------------------------------------------------------
(* Properties. *)

\* The supply is never negative nor more than there is, and exact when the pool is
\* indexed from its first mint; only the subgraph's pool has a row, and what the days
\* collected is what it collected.
PoolL2Consistent ==
    /\ DOMAIN metrics \subseteq {Pool}
    /\ \A p \in DOMAIN metrics :
          /\ metrics[p].totalSupply \in 0..supply
          /\ Hidden = 0 => /\ metrics[p].totalSupply = supply
                           /\ metrics[p].totalSupply = metrics[p].totalMinted - metrics[p].totalBurned
    /\ Total(metrics, "cumulativeFeesToken0") = Total(daily, "totalFeesToken0")
    /\ Total(metrics, "cumulativeFeesToken1") = Total(daily, "totalFeesToken1")
=============================================================================
