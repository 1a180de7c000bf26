---------------------------- MODULE PoolLiquidity ----------------------------
(***************************************************************************)
(* liquidity: the OLAS-ETH pool on Ethereum -- supply of its LP token, the *)
(* treasury's share of it, reserves, prices read from feeds and kept for   *)
(* an hour, swap fees and their split -- and the bridged LP tokens the     *)
(* treasury holds.                                                         *)
(*                                                                         *)
(* The pair, the feeds and the tokens are external; integer division       *)
(* truncates as in the code, with Wei and BasisPoints small.               *)
(***************************************************************************)
EXTENDS Counters

CONSTANTS
    Amounts, Reserves, Answers,     \* LP amounts; reserves; what the feed may answer
    SwapAmounts,                    \* amounts in of a swap
    Wei, BasisPoints,               \* 10^18 and 100 percent
    FeeNumerator, FeeDenominator,
    Staleness, DayLength,           \* ticks
    MaxMinted, MaxMoves, MaxNow, MaxSwaps,      \* bounds
    MaxBridged, MaxBridgedMoves,                \* bounds of the bridged token
    Hidden,                         \* bridged LP the treasury held before the first block
    None

\* What the constants must satisfy (MCLedgers assumes it of its instances).
PoolAssumption == /\ Amounts \cup Reserves \cup SwapAmounts \subseteq Nat
                  /\ Answers \subseteq Int
                  /\ {Wei, BasisPoints, FeeDenominator, DayLength} \subseteq Nat \ {0}
                  /\ {FeeNumerator, Staleness, Hidden} \subseteq Nat
                  /\ None \notin Nat \cup [price : Int, at : Nat]

VARIABLES
    \* External.
    now, supply, inTreasury,    \* the LP token: supply, the treasury's balance
    bridged,                    \* the treasury's balance of a bridged LP token
    lastSync, feedDown,         \* when the last Sync was, and whether the feed failed in it
    \* The store.
    metrics, treasury, reserves, priceData, daily, holding

chain == <<now, supply, inTreasury, bridged, lastSync, feedDown>>
vars == <<chain, metrics, treasury, reserves, priceData, daily, holding>>

Day == now \div DayLength

MetricFields == {"totalSupply", "totalMinted", "totalBurned", "treasurySupply",
                 "treasuryPercentage", "currentReserve0", "currentReserve1", "ethUsdPrice",
                 "poolLiquidityUsd", "protocolOwnedLiquidityUsd", "cumulativeFeesUsd",
                 "cumulativeProtocolFeesUsd", "cumulativeExternalFeesUsd"}
HoldingFields == {"currentBalance", "totalAcquired", "totalSold", "transactionCount"}
DailyFields == {"totalFeesToken0", "totalFeesToken1", "totalFeesUsd", "protocolFeesUsd",
                "externalFeesUsd", "swapCount"}

-----------------------------------------------------------------------------
(* Valuation. *)

calculatePercentageBasisPoints(n, d) == IF d = 0 THEN 0 ELSE (n * BasisPoints) \div d

\* Seeded fault: the treasury's part is not valued again.
RevaluedPool(m, prices) ==
    IF prices = None THEN m
    ELSE [m EXCEPT !.ethUsdPrice = prices.price,
                   !.poolLiquidityUsd = (2 * m.currentReserve1 * prices.price) \div Wei]

\* prices is the row of the ETH price, None before the feed first answered.
recalculateUsd(m, prices) ==
    IF prices = None THEN m
    ELSE LET usd == (2 * m.currentReserve1 * prices.price) \div Wei
         IN  [m EXCEPT !.ethUsdPrice = prices.price, !.poolLiquidityUsd = usd,
                       !.protocolOwnedLiquidityUsd = (usd * m.treasuryPercentage) \div BasisPoints]

\* The cached price is read again when it is older than Staleness; an answer that
\* reverts (None) or is not positive leaves the old one.
refreshChainlinkPrice(answer) ==
    IF /\ priceData = None \/ now - priceData.at > Staleness
       /\ answer # None /\ answer > 0
    THEN [price |-> answer, at |-> now] ELSE priceData

-----------------------------------------------------------------------------
(* LP token transfers. *)

updateTreasuryHoldings(amount, incoming) ==
    Add(treasury, IF incoming
                  THEN [currentBalance |-> amount, totalAcquired |-> amount, transactionCount |-> 1]
                  ELSE [currentBalance |-> -amount, totalSold |-> amount, transactionCount |-> 1])

\* A mint to the zero address is a mint.
WithSupply(m, amount, isMint, isBurn) ==
    Add(m, IF isMint THEN [totalSupply |-> amount, totalMinted |-> amount]
           ELSE IF isBurn THEN [totalSupply |-> -amount, totalBurned |-> amount]
           ELSE [totalSupply |-> 0])

updateGlobalMetricsAfterTransfer(amount, isMint, isBurn, balance) ==
    LET supplied == WithSupply(metrics, amount, isMint, isBurn)
    IN  recalculateUsd([supplied EXCEPT
            !.treasurySupply = balance,
            !.treasuryPercentage = calculatePercentageBasisPoints(balance, supplied.totalSupply)],
            priceData)

\* from and to are "zero", "treasury" or "other".  The pair mints the first of its
\* supply to the zero address; only it burns; the treasury sends to others.
handleLPTransfer(from, to, amount) ==
    /\ from = "zero" => metrics.totalMinted + amount <= MaxMinted
    /\ from = "treasury" => to = "other" /\ amount <= inTreasury
    /\ from = "other" => amount <= supply - inTreasury
    /\ "treasury" \in {from, to} => treasury.transactionCount < MaxMoves
    /\ supply' = supply + (IF from = "zero" THEN amount ELSE IF to = "zero" THEN -amount ELSE 0)
    /\ inTreasury' = inTreasury + (IF to = "treasury" THEN amount ELSE 0)
                                - (IF from = "treasury" THEN amount ELSE 0)
    /\ treasury' = IF to = "treasury" THEN updateTreasuryHoldings(amount, TRUE)
                   ELSE IF from = "treasury" THEN updateTreasuryHoldings(amount, FALSE)
                   ELSE treasury
    /\ metrics' = updateGlobalMetricsAfterTransfer(amount, from = "zero", to = "zero",
                                                   treasury'.currentBalance)
    /\ UNCHANGED <<now, bridged, lastSync, feedDown, reserves, priceData, daily, holding>>

-----------------------------------------------------------------------------
(* Reserves and swaps. *)

updateGlobalMetricsAfterSync(r0, r1, prices) ==
    recalculateUsd([metrics EXCEPT !.currentReserve0 = r0, !.currentReserve1 = r1], prices)

\* The MATIC and SOL feeds are read and kept the same way, for others to use.
handleSync(r0, r1, answer) ==
    /\ reserves' = <<r0, r1>>
    /\ priceData' = refreshChainlinkPrice(answer)
    /\ metrics' = updateGlobalMetricsAfterSync(r0, r1, priceData')
    /\ lastSync' = now
    /\ feedDown' = (answer = None \/ answer <= 0)
    /\ UNCHANGED <<now, supply, inTreasury, bridged, treasury, daily, holding>>

FeeOf(amount) == (amount * FeeNumerator) \div FeeDenominator

\* USD fees are left out unless everything they need is known.
CanUpdateUsdFees(fee0, fee1) ==
    /\ fee1 = 0 \/ metrics.ethUsdPrice > 0
    /\ \/ fee0 = 0
       \/ metrics.ethUsdPrice > 0 /\ metrics.currentReserve0 > 0 /\ metrics.currentReserve1 > 0

FeeUsd(fee0, fee1) ==
    (IF fee1 > 0 THEN (fee1 * metrics.ethUsdPrice) \div Wei ELSE 0)
    + (IF fee0 > 0
       THEN (((fee0 * metrics.currentReserve1) \div metrics.currentReserve0)
             * metrics.ethUsdPrice) \div Wei
       ELSE 0)

\* Seeded fault: both parts are rounded on their own.
ExternalRounded(usd) ==
    (usd * (BasisPoints - metrics.treasuryPercentage)) \div BasisPoints

ProtocolPart(usd) == (usd * metrics.treasuryPercentage) \div BasisPoints
ExternalPart(usd) == usd - ProtocolPart(usd)

handleSwap(amount0, amount1) ==
    LET fee0 == FeeOf(amount0)
        fee1 == FeeOf(amount1)
        priced == CanUpdateUsdFees(fee0, fee1)
        usd == IF priced THEN FeeUsd(fee0, fee1) ELSE 0
        protocol == IF priced THEN ProtocolPart(usd) ELSE 0
        external == IF priced THEN ExternalPart(usd) ELSE 0
    IN  /\ Total(daily, "swapCount") < MaxSwaps
        /\ daily' = AddTo(daily, Day, DailyFields,
                          [totalFeesToken0 |-> fee0, totalFeesToken1 |-> fee1,
                           totalFeesUsd |-> usd, protocolFeesUsd |-> protocol,
                           externalFeesUsd |-> external, swapCount |-> 1])
        /\ metrics' = Add(metrics, [cumulativeFeesUsd |-> usd,
                                    cumulativeProtocolFeesUsd |-> protocol,
                                    cumulativeExternalFeesUsd |-> external])
        /\ UNCHANGED <<chain, treasury, reserves, priceData, holding>>

-----------------------------------------------------------------------------
(* Bridged LP tokens. *)

\* Seeded fault: the balance is not clamped at zero.
Unclamped(balance, amount) == balance - amount

Clamped(balance, amount) == IF amount > balance THEN 0 ELSE balance - amount

handleBridgedLPTransfer(incoming, amount) ==
    /\ holding.transactionCount < MaxBridgedMoves
    /\ IF incoming THEN bridged + amount <= MaxBridged ELSE amount <= bridged
    /\ bridged' = IF incoming THEN bridged + amount ELSE bridged - amount
    /\ holding' = IF incoming
                  THEN Add(holding, [currentBalance |-> amount, totalAcquired |-> amount,
                                     transactionCount |-> 1])
                  ELSE [Add(holding, [totalSold |-> amount, transactionCount |-> 1]) EXCEPT
                           !.currentBalance = Clamped(@, amount)]
    /\ UNCHANGED <<now, supply, inTreasury, lastSync, feedDown, metrics, treasury, reserves,
                   priceData, daily>>

Tick ==
    /\ now < MaxNow
    /\ now' = now + 1
    /\ UNCHANGED <<supply, inTreasury, bridged, lastSync, feedDown, metrics, treasury, reserves,
                   priceData, daily, holding>>

Init ==
    /\ now = 1 /\ supply = 0 /\ inTreasury = 0 /\ bridged = Hidden
    /\ lastSync = None /\ feedDown = FALSE
    /\ metrics = Zeros(MetricFields) /\ treasury = Zeros(HoldingFields)
    /\ reserves = <<0, 0>> /\ priceData = None /\ daily = NoRows
    /\ holding = Zeros(HoldingFields)

Next ==
    \/ Tick
    \/ \E from \in {"zero", "treasury", "other"}, to \in {"zero", "treasury", "other"},
          amount \in Amounts : handleLPTransfer(from, to, amount)
    \/ \E r0, r1 \in Reserves, answer \in Answers \cup {None} : handleSync(r0, r1, answer)
    \/ \E a0, a1 \in SwapAmounts : handleSwap(a0, a1)
    \/ \E incoming \in BOOLEAN, amount \in Amounts : handleBridgedLPTransfer(incoming, amount)

Spec == Init /\ [][Next]_vars

-----------------------------------------------------------------------------
(* Properties. *)

\* Supply, treasury balance and share follow the LP token.
SharesMirrorChain ==
    /\ metrics.totalSupply = supply /\ metrics.totalSupply = metrics.totalMinted - metrics.totalBurned
    /\ metrics.treasurySupply = inTreasury /\ treasury.currentBalance = inTreasury
    /\ treasury.currentBalance = treasury.totalAcquired - treasury.totalSold
    /\ metrics.treasuryPercentage = calculatePercentageBasisPoints(inTreasury, supply)

\* Whatever changed last, reserves, price or share: the values in USD are those of the
\* present ones.
ValuesAreCurrent ==
    /\ reserves = <<metrics.currentReserve0, metrics.currentReserve1>>
    /\ priceData # None =>
          /\ metrics.ethUsdPrice = priceData.price
          /\ metrics.poolLiquidityUsd
                = (2 * reserves[2] * priceData.price) \div Wei
          /\ metrics.protocolOwnedLiquidityUsd
                = (metrics.poolLiquidityUsd * metrics.treasuryPercentage) \div BasisPoints

\* After a Sync that could read the feed no price is older than the threshold.
PricesAreFresh ==
    lastSync # None /\ ~feedDown => priceData # None /\ lastSync - priceData.at <= Staleness

\* Fees add up over the days and split without remainder into protocol and others.
FeesSplit ==
    /\ metrics.cumulativeFeesUsd = Total(daily, "totalFeesUsd")
    /\ metrics.cumulativeProtocolFeesUsd = Total(daily, "protocolFeesUsd")
    /\ metrics.cumulativeExternalFeesUsd = Total(daily, "externalFeesUsd")
    /\ metrics.cumulativeFeesUsd =
          metrics.cumulativeProtocolFeesUsd + metrics.cumulativeExternalFeesUsd

\* Of a bridged token the subgraph never reports a negative balance nor more than the
\* treasury holds, also when it held some before the first indexed block.
BridgedWithinHoldings == holding.currentBalance \in 0..bridged

PoolMirrorsChain == SharesMirrorChain /\ ValuesAreCurrent /\ PricesAreFresh /\ FeesSplit
                    /\ BridgedWithinHoldings
=============================================================================
