------------------------------ MODULE MCLedgers ------------------------------
(***************************************************************************)
(* The subgraphs that keep ledgers of one kind or another, each on a small *)
(* instance of its own.  They share nothing: a behaviour is one of         *)
(* `subject', whose variables are v1, v2 and so on, the rest being unused. *)
(***************************************************************************)
EXTENDS Integers, Sequences, TLC

CONSTANTS a1, b1, e1, k1, o1, p1, q1, x1, y1, burner, ve, zero, None

VARIABLES subject,
    v1, v2, v3, v4, v5, v6, v7, v8, v9, v10, v11, v12, v13, v14, v15, v16, v17, v18

PriceSources ==
    [usdc |-> <<[address |-> "usdFeed", type |-> "chainlink", pair |-> "none", confidence |-> 99]>>,
     bold |-> <<[address |-> "usdFeed", type |-> "chainlink_reference", pair |-> "none",
                 confidence |-> 90]>>,
     velo |-> <<[address |-> "pool", type |-> "velodrome_v2", pair |-> "weth", confidence |-> 85],
                [address |-> "ethFeed", type |-> "chainlink", pair |-> "none", confidence |-> 45]>>]
PriceBounds == [t \in {"usdc", "bold", "velo"} |->
                   [least |-> 0, greatest |-> IF t = "usdc" THEN 2 ELSE 9]]
FeedAnswers == {[price |-> 1, age |-> 0], [price |-> 2, age |-> 0], [price |-> 2, age |-> 3]}
PoolAnswers == {None, [own |-> 1, other |-> 3]}

-----------------------------------------------------------------------------
\* A service made before the first indexed block.
Registry == INSTANCE ServiceRegistry WITH
    Services <- {1, 2}, Early <- {2}, Safes <- {x1, y1}, Agents <- {a1, b1}, Operators <- {o1},
    Identities <- {}, Keys <- {}, Values <- {}, DayLength <- 1, MaxNow <- 2, MaxSlots <- 2,
    MaxTerms <- 1, MaxTx <- 2, now <- v1, stage <- v2, slots <- v3, safeOf <- v4, terms <- v5,
    deployedBy <- v6, service <- v7, registration <- v8, multisig <- v9, operator <- v10,
    activity <- v11, uniqueAgents <- v12, agentDay <- v13, activeMultisigs <- v14,
    performance <- v15, global <- v16, identity <- v17, metadata <- v18

\* ERC-8004 identities and metadata.
Identities == INSTANCE ServiceRegistry WITH
    Services <- {1}, Early <- {}, Safes <- {x1, y1}, Agents <- {p1}, Operators <- {o1},
    Identities <- {7, 8}, Keys <- {"k"}, Values <- {0, 1}, DayLength <- 1, MaxNow <- 1,
    MaxSlots <- 1, MaxTerms <- 1, MaxTx <- 0, now <- v1, stage <- v2, slots <- v3, safeOf <- v4,
    terms <- v5, deployedBy <- v6, service <- v7, registration <- v8, multisig <- v9,
    operator <- v10, activity <- v11, uniqueAgents <- v12, agentDay <- v13,
    activeMultisigs <- v14, performance <- v15, global <- v16, identity <- v17, metadata <- v18

\* Four payment models of two mechs.
Fees == INSTANCE MechFees WITH
    Mechs <- {a1, b1}, Burner <- burner, Amounts <- 0..2, Prices <- {0, 2}, OneToOne <- FALSE,
    Ratio <- 4, Wei <- 2, Dec <- 2, DayLength <- 1, MaxNow <- 1, MaxEvents <- 3, now <- v1,
    events <- v2, owed <- v3, missed <- v4, global <- v5, mech <- v6, mechModel <- v7,
    dailyTotals <- v8, mechDaily <- v9, drainTotals <- v10, transaction <- v11

\* One mech of each kind and one nobody knows.
Legacy == INSTANCE LegacyMechFees WITH
    Lms <- {p1}, Lmms <- {q1}, Strangers <- {o1}, Amounts <- {0, 2}, Prices <- {0, 1},
    DayLength <- 1, MaxNow <- 1, MaxEvents <- 5, now <- v1, events <- v2, price <- v3,
    stray <- v4, mech <- v5, global <- v6, dailyFees <- v7, mechDaily <- v8

\* Ethereum.
Olas == INSTANCE TokenHolders WITH
    Accounts <- {a1, b1}, VeOlas <- ve, Zero <- zero, Amounts <- 0..2, MaxSupply <- 4,
    OnEthereum <- TRUE, balance <- v1, locked <- v2, pendingLog <- v3, token <- v4,
    veToken <- v5, holder <- v6, depositor <- v7, veolasHolderCount <- v8

\* An L2.
OlasL2 == INSTANCE TokenHolders WITH
    Accounts <- {a1, b1}, VeOlas <- ve, Zero <- zero, Amounts <- 0..2, MaxSupply <- 4,
    OnEthereum <- FALSE, balance <- v1, locked <- v2, pendingLog <- v3, token <- v4,
    veToken <- v5, holder <- v6, depositor <- v7, veolasHolderCount <- v8

\* The pool and its treasury.
LpPool == INSTANCE PoolLiquidity WITH
    Amounts <- 0..2, Reserves <- {0, 3}, Answers <- {0, 2, 5}, SwapAmounts <- {0, 10}, Wei <- 2,
    BasisPoints <- 4, FeeNumerator <- 3, FeeDenominator <- 10, Staleness <- 1, DayLength <- 2,
    MaxMinted <- 2, MaxMoves <- 2, MaxNow <- 3, MaxSwaps <- 1, MaxBridged <- 2,
    MaxBridgedMoves <- 0, Hidden <- 0, now <- v1, supply <- v2, inTreasury <- v3, bridged <- v4,
    lastSync <- v5, feedDown <- v6, metrics <- v7, treasury <- v8, reserves <- v9,
    priceData <- v10, daily <- v11, holding <- v12

\* LP tokens bridged to the treasury, some before the first indexed block.
Bridged == INSTANCE PoolLiquidity WITH
    Amounts <- 0..2, Reserves <- {0, 3}, Answers <- {0, 2, 5}, SwapAmounts <- {0, 10}, Wei <- 2,
    BasisPoints <- 4, FeeNumerator <- 3, FeeDenominator <- 10, Staleness <- 1, DayLength <- 2,
    MaxMinted <- 0, MaxMoves <- 0, MaxNow <- 1, MaxSwaps <- 0, MaxBridged <- 3,
    MaxBridgedMoves <- 4, Hidden <- 1, now <- v1, supply <- v2, inTreasury <- v3, bridged <- v4,
    lastSync <- v5, feedDown <- v6, metrics <- v7, treasury <- v8, reserves <- v9,
    priceData <- v10, daily <- v11, holding <- v12

\* A Balancer pool.
Vault == INSTANCE PoolLiquidityL2 WITH
    Pool <- p1, Others <- {q1}, Amounts <- 0..2, SwapAmounts <- {0, 3}, Balances <- {0, 5},
    Percentages <- {1, 2}, Wei <- 2, FeeNumerator <- 3, FeeDenominator <- 10, DayLength <- 1,
    MaxMinted <- 2, MaxNow <- 1, MaxSwaps <- 2, OnVault <- TRUE, Hidden <- 1, now <- v1,
    supply <- v2, vault <- v3, percentage <- v4, metrics <- v5, daily <- v6

\* The pair on Celo.
Pair == INSTANCE PoolLiquidityL2 WITH
    Pool <- p1, Others <- {q1}, Amounts <- 0..2, SwapAmounts <- {0, 3}, Balances <- {0, 5},
    Percentages <- {1, 2}, Wei <- 2, FeeNumerator <- 3, FeeDenominator <- 10, DayLength <- 1,
    MaxMinted <- 2, MaxNow <- 1, MaxSwaps <- 2, OnVault <- FALSE, Hidden <- 0, now <- v1,
    supply <- v2, vault <- v3, percentage <- v4, metrics <- v5, daily <- v6

\* Two voters.
Governance == INSTANCE Governor WITH
    Proposals <- {p1}, Voters <- {a1, b1}, Weights <- {1}, Quorums <- {1, 2}, VotingDelay <- 1,
    VotingPeriod <- 2, MaxBlock <- 5, block <- v1, phase <- v2, quorumAt <- v3, voted <- v4,
    tally <- v5, paramsTally <- v6, proposal <- v7, voteCast <- v8

\* A stablecoin, one that shares its feed, and a token priced by a pool.
TheFeeds == INSTANCE TokenPrices WITH
    Listed <- {"usdc", "bold", "velo"}, Unlisted <- {"odd"}, Critical <- {"usdc", "bold"},
    Bounds <- PriceBounds, Sources <- PriceSources, EthFeed <- "ethFeed",
    Feeds <- {"usdFeed", "ethFeed"}, Pools <- {"pool"}, FeedAnswers <- FeedAnswers,
    PoolAnswers <- PoolAnswers, CacheDuration <- 2, Staleness <- 1, MinConfidence <- 50,
    FallbackConfidence <- 95, ReferenceFactor <- 90, DefaultEth <- 3, MaxNow <- 3,
    MaxReads <- 2, now <- v1, answer <- v2, token <- v3, source <- v4, priceUpdate <- v5,
    returned <- v6, reads <- v7

\* LP tokens of two Safes.
LpPositions == INSTANCE BabydegenPositions WITH
    Pool <- o1, Gauge <- e1, Router <- k1, Outsider <- burner, Zero <- zero, Prices <- {1, 2},
    Safes <- {x1, y1}, Nfts <- {}, Ungauged <- {}, MaxLp <- 2, MaxLiquidity <- 0, MaxTx <- 4,
    MaxBlocks <- 1, block <- v1, price <- v2, closed <- v3, logs <- v4, tx <- v5, wallet <- v6,
    staked <- v7, nft <- v8, put <- v9, taken <- v10, position <- v11, mapping <- v12,
    pending <- v13

\* An NFT of a pool with a gauge.
NftPositions == INSTANCE BabydegenPositions WITH
    Pool <- o1, Gauge <- e1, Router <- k1, Outsider <- burner, Zero <- zero, Prices <- {1, 2},
    Safes <- {p1}, Nfts <- {q1}, MaxLp <- 0, MaxLiquidity <- 2, Ungauged <- {}, MaxTx <- 5,
    MaxBlocks <- 3, block <- v1, price <- v2, closed <- v3, logs <- v4, tx <- v5, wallet <- v6,
    staked <- v7, nft <- v8, put <- v9, taken <- v10, position <- v11, mapping <- v12,
    pending <- v13

\* An NFT of a pool without a gauge.
UngaugedPositions == INSTANCE BabydegenPositions WITH
    Pool <- o1, Gauge <- e1, Router <- k1, Outsider <- burner, Zero <- zero, Prices <- {1, 2},
    Safes <- {p1}, Nfts <- {q1}, MaxLp <- 0, MaxLiquidity <- 2, Ungauged <- {q1}, MaxTx <- 4,
    MaxBlocks <- 2, block <- v1, price <- v2, closed <- v3, logs <- v4, tx <- v5, wallet <- v6,
    staked <- v7, nft <- v8, put <- v9, taken <- v10, position <- v11, mapping <- v12,
    pending <- v13

\* Swaps spread over the clock.
SwapBuckets == INSTANCE OptimismPositions WITH
    Safes <- {p1}, Pool <- o1, Outsider <- k1, Zero <- zero, Nfts <- {}, BucketLength <- 2,
    Window <- 8, Slippages <- {1}, Prices <- {1}, MaxBpt <- 0, MaxLiquidity <- 0, MaxTx <- 5,
    MaxNow <- 9, MaxStep <- 3, now <- v1, price <- v2, closed <- v3, logs <- v4, tx <- v5,
    bpt <- v6, nft <- v7, put <- v8, taken <- v9, position <- v10, swap <- v11, buffer <- v12

\* A Balancer pool and the swaps before it.
BalancerPositions == INSTANCE OptimismPositions WITH
    Safes <- {p1}, Pool <- o1, Outsider <- k1, Zero <- zero, Nfts <- {}, BucketLength <- 1,
    Window <- 2, Slippages <- {-1, 2}, Prices <- {1, 2}, MaxBpt <- 2, MaxLiquidity <- 0,
    MaxTx <- 3, MaxNow <- 2, MaxStep <- 1, now <- v1, price <- v2, closed <- v3, logs <- v4,
    tx <- v5, bpt <- v6, nft <- v7, put <- v8, taken <- v9, position <- v10, swap <- v11,
    buffer <- v12

\* An NFT of Uniswap V3 and the swaps before it.
UniswapPositions == INSTANCE OptimismPositions WITH
    Safes <- {p1}, Pool <- o1, Outsider <- k1, Zero <- zero, Nfts <- {q1}, BucketLength <- 1,
    Window <- 2, Slippages <- {1}, Prices <- {1, 2}, MaxBpt <- 0, MaxLiquidity <- 2, MaxTx <- 4,
    MaxNow <- 2, MaxStep <- 1, now <- v1, price <- v2, closed <- v3, logs <- v4, tx <- v5,
    bpt <- v6, nft <- v7, put <- v8, taken <- v9, position <- v10, swap <- v11, buffer <- v12

-----------------------------------------------------------------------------
ASSUME LedgersAssumption ==
    /\ Registry!RegistryAssumption
    /\ Identities!RegistryAssumption
    /\ Fees!FeesAssumption
    /\ Legacy!LegacyAssumption
    /\ Olas!HoldersAssumption
    /\ OlasL2!HoldersAssumption
    /\ LpPool!PoolAssumption
    /\ Bridged!PoolAssumption
    /\ Vault!PoolL2Assumption
    /\ Pair!PoolL2Assumption
    /\ Governance!GovernorAssumption
    /\ TheFeeds!PricesAssumption
    /\ LpPositions!PositionsAssumption
    /\ NftPositions!PositionsAssumption
    /\ UngaugedPositions!PositionsAssumption
    /\ SwapBuckets!OptimismAssumption
    /\ BalancerPositions!OptimismAssumption
    /\ UniswapPositions!OptimismAssumption

\* The variables after the n-th are not used.
Unused17 == v18 = 0
Unused16 == v17 = 0 /\ Unused17
Unused15 == v16 = 0 /\ Unused16
Unused14 == v15 = 0 /\ Unused15
Unused13 == v14 = 0 /\ Unused14
Unused12 == v13 = 0 /\ Unused13
Unused11 == v12 = 0 /\ Unused12
Unused10 == v11 = 0 /\ Unused11
Unused9 == v10 = 0 /\ Unused10
Unused8 == v9 = 0 /\ Unused9
Unused7 == v8 = 0 /\ Unused8
Unused6 == v7 = 0 /\ Unused7
Kept17 == UNCHANGED v18
Kept16 == UNCHANGED v17 /\ Kept17
Kept15 == UNCHANGED v16 /\ Kept16
Kept14 == UNCHANGED v15 /\ Kept15
Kept13 == UNCHANGED v14 /\ Kept14
Kept12 == UNCHANGED v13 /\ Kept13
Kept11 == UNCHANGED v12 /\ Kept12
Kept10 == UNCHANGED v11 /\ Kept11
Kept9 == UNCHANGED v10 /\ Kept10
Kept8 == UNCHANGED v9 /\ Kept9
Kept7 == UNCHANGED v8 /\ Kept8
Kept6 == UNCHANGED v7 /\ Kept7

Init ==
    \/ subject = "registry" /\ Registry!Init
    \/ subject = "identities" /\ Identities!Init
    \/ subject = "fees" /\ Fees!Init /\ Unused11
    \/ subject = "legacy" /\ Legacy!Init /\ Unused8
    \/ subject = "olas" /\ Olas!Init /\ Unused8
    \/ subject = "olas-l2" /\ OlasL2!Init /\ Unused8
    \/ subject = "pool" /\ LpPool!Init /\ Unused12
    \/ subject = "bridged" /\ Bridged!Init /\ Unused12
    \/ subject = "vault" /\ Vault!Init /\ Unused6
    \/ subject = "pair" /\ Pair!Init /\ Unused6
    \/ subject = "governor" /\ Governance!Init /\ Unused8
    \/ subject = "prices" /\ TheFeeds!Init /\ Unused7
    \/ subject = "lp" /\ LpPositions!Init /\ Unused13
    \/ subject = "nft" /\ NftPositions!Init /\ Unused13
    \/ subject = "nft-ungauged" /\ UngaugedPositions!Init /\ Unused13
    \/ subject = "buckets" /\ SwapBuckets!Init /\ Unused12
    \/ subject = "balancer" /\ BalancerPositions!Init /\ Unused12
    \/ subject = "uniswap" /\ UniswapPositions!Init /\ Unused12

Next ==
    \/ subject = "registry" /\ Registry!Next /\ UNCHANGED subject
    \/ subject = "identities" /\ Identities!Next /\ UNCHANGED subject
    \/ subject = "fees" /\ Fees!Next /\ Kept11 /\ UNCHANGED subject
    \/ subject = "legacy" /\ Legacy!Next /\ Kept8 /\ UNCHANGED subject
    \/ subject = "olas" /\ Olas!Next /\ Kept8 /\ UNCHANGED subject
    \/ subject = "olas-l2" /\ OlasL2!Next /\ Kept8 /\ UNCHANGED subject
    \/ subject = "pool" /\ LpPool!Next /\ Kept12 /\ UNCHANGED subject
    \/ subject = "bridged" /\ Bridged!Next /\ Kept12 /\ UNCHANGED subject
    \/ subject = "vault" /\ Vault!Next /\ Kept6 /\ UNCHANGED subject
    \/ subject = "pair" /\ Pair!Next /\ Kept6 /\ UNCHANGED subject
    \/ subject = "governor" /\ Governance!Next /\ Kept8 /\ UNCHANGED subject
    \/ subject = "prices" /\ TheFeeds!Next /\ Kept7 /\ UNCHANGED subject
    \/ subject = "lp" /\ LpPositions!Next /\ Kept13 /\ UNCHANGED subject
    \/ subject = "nft" /\ NftPositions!Next /\ Kept13 /\ UNCHANGED subject
    \/ subject = "nft-ungauged" /\ UngaugedPositions!Next /\ Kept13 /\ UNCHANGED subject
    \/ subject = "buckets" /\ SwapBuckets!Next /\ Kept12 /\ UNCHANGED subject
    \/ subject = "balancer" /\ BalancerPositions!Next /\ Kept12 /\ UNCHANGED subject
    \/ subject = "uniswap" /\ UniswapPositions!Next /\ Kept12 /\ UNCHANGED subject

vars == <<subject, v1, v2, v3, v4, v5, v6, v7, v8, v9, v10, v11, v12, v13, v14, v15, v16, v17, v18>>
Spec == Init /\ [][Next]_vars

Symmetry == Permutations({a1, b1}) \cup Permutations({x1, y1})

-----------------------------------------------------------------------------
\* The activity rows of a day, of its agents and of its multisigs agree, an execution is
\* credited to the last deployment of its Safe, and whoever links an identity finds it
\* (service-registry/src/mapping.ts).
ActivityCredited ==
    /\ subject = "registry" => Registry!ActivityAddsUp /\ Registry!CreditGoesToLatest
    /\ subject = "identities" => Identities!IdentitiesResolve

\* The fees of new mechs agree at every level they are added up at, and what a mech was
\* paid out was accrued before, but for events without a price (new-mech-fees/src).
MechFeesAddUp ==
    subject = "fees" => Fees!MechFeesAddUp /\ Fees!EarningsCoverPayouts

\* The fees of legacy mechs agree at every level, but for mechs nobody knows
\* (legacy-mech-fees/src/mapping.ts).
LegacyFeesAddUp ==
    subject = "legacy" => Legacy!LegacyFeesAddUp

\* Balances, holders and depositors of OLAS and veOLAS are the chain's
\* (tokenomics-eth/src/utils.ts, tokenomics-l2/src/utils.ts).
HoldersMirrorChain ==
    /\ subject = "olas" => Olas!HoldersMirrorChain
    /\ subject = "olas-l2" => OlasL2!HoldersMirrorChain

\* Supply, treasury, reserves, cached prices and fees of the OLAS pools are the chain's
\* (liquidity/src, liquidity-l2/src).
PoolsMirrorChain ==
    /\ subject = "pool" => LpPool!PoolMirrorsChain
    /\ subject = "bridged" => Bridged!PoolMirrorsChain
    /\ subject = "vault" => Vault!PoolL2Consistent
    /\ subject = "pair" => Pair!PoolL2Consistent

\* A proposal's votes and quorum are the governor contract's, but for votes with
\* parameters (governance/src/governor-olas.ts).
ProposalsMirrorChain ==
    subject = "governor" => Governance!ProposalsMirrorChain

\* A price a handler is given is no older than the cache duration, and one that some
\* source then gave (babydegen-base/src/priceDiscovery.ts).
PriceIsRecent ==
    subject = "prices" => TheFeeds!PriceIsRecent

\* Positions are active as long as there is liquidity behind them, with the entries and the
\* exits that moved on the chain (babydegen-base/src/veloV2Shared.ts, veloCLShared.ts).
PositionsMirrorChain ==
    /\ subject = "lp" => LpPositions!PositionsMirrorChain
    /\ subject = "nft" => NftPositions!PositionsMirrorChain
    /\ subject = "nft-ungauged" => UngaugedPositions!PositionsMirrorChain

\* The same of Balancer pools and Uniswap V3, and every swap is kept for three buckets and
\* charged to one position (babydegen-optimism/src).
OptimismPositionsMirrorChain ==
    /\ subject = "buckets" => SwapBuckets!OptimismPositionsMirrorChain
    /\ subject = "balancer" => BalancerPositions!OptimismPositionsMirrorChain
    /\ subject = "uniswap" => UniswapPositions!OptimismPositionsMirrorChain

=============================================================================
