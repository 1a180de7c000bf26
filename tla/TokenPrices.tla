----------------------------- MODULE TokenPrices -----------------------------
(***************************************************************************)
(* babydegen: the price of a token in USD -- read from Chainlink feeds and *)
(* pools, averaged, kept for five minutes, with a fallback of one dollar   *)
(* for the stablecoins.                                                    *)
(*                                                                         *)
(* What the feeds and pools answer is external: `answer' has it for every  *)
(* tick of the clock.                                                      *)
(***************************************************************************)
EXTENDS Counters, Sequences, TLC

CONSTANTS
    Listed, Unlisted,       \* tokens with and without a configuration
    Critical,               \* CRITICAL_STABLECOINS
    Bounds,                 \* token -> least and greatest price, both excluded
    Sources,                \* token -> its sources: [address, type, pair, confidence]
    EthFeed,                \* ETH_USD_FEED
    Feeds, Pools,           \* addresses of Chainlink feeds and of pools
    FeedAnswers, PoolAnswers,   \* what they may answer; None when the call reverts
    CacheDuration, Staleness,   \* ticks
    MinConfidence, FallbackConfidence, ReferenceFactor,     \* percent
    DefaultEth,             \* price of ETH without its feed
    MaxNow, MaxReads,       \* bounds
    None

\* What the constants must satisfy (MCLedgers assumes it of its instances).
PricesAssumption ==
    /\ Critical \subseteq Listed /\ Unlisted \cap Listed = {} /\ EthFeed \in Feeds
    /\ Sources \in [Listed -> Seq([address : Feeds \cup Pools, type : STRING, pair : STRING,
                                   confidence : Nat])]
    /\ \A k \in Listed : \A i \in DOMAIN Sources[k] :
          Sources[k][i].address \in IF Sources[k][i].type = "velodrome_v2" THEN Pools ELSE Feeds
    /\ \A x \in FeedAnswers \ {None} : x.price \in Int /\ x.age \in Nat
    /\ \A x \in PoolAnswers \ {None} : x.own \in Nat /\ x.other \in Nat
    /\ {CacheDuration, MaxNow} \subseteq Nat \ {0}
    /\ {Staleness, MinConfidence, ReferenceFactor, DefaultEth} \subseteq Nat

VARIABLES
    now, answer,        \* external: the clock, tick -> address -> answer
    token,              \* Token
    source,             \* PriceSource
    priceUpdate,        \* PriceUpdate
    returned,           \* token -> the last price a handler was given, and when
    reads

vars == <<now, answer, token, source, priceUpdate, returned, reads>>

-----------------------------------------------------------------------------
(* Adapters: the price a source gives at tick t, or 0. *)

getChainlinkPrice(feed, t) ==
    LET round == answer[t][feed]
    IN  IF round = None \/ round.age > Staleness \/ round.price <= 0 THEN 0 ELSE round.price

\* Stablecoins are worth a dollar, and so is a pair nobody knows.
getPairTokenPrice(pair, t) ==
    IF pair # "weth" THEN 1
    ELSE IF getChainlinkPrice(EthFeed, t) > 0 THEN getChainlinkPrice(EthFeed, t) ELSE DefaultEth

\* The pool's reserves give the price in its other token.
getVelodromeV2Price(pool, pair, t) ==
    LET reserves == answer[t][pool]
    IN  IF reserves = None \/ reserves.own = 0 THEN 0
        ELSE (reserves.other * getPairTokenPrice(pair, t)) \div reserves.own

isValidPriceResult(k, price) == price > Bounds[k].least /\ price < Bounds[k].greatest

getPriceFromSource(k, s, t) ==
    LET price == IF s.type = "velodrome_v2" THEN getVelodromeV2Price(s.address, s.pair, t)
                 ELSE getChainlinkPrice(s.address, t)
        confidence == IF s.type = "chainlink_reference"
                      THEN (s.confidence * ReferenceFactor) \div 100 ELSE s.confidence
    IN  IF price > 0 /\ isValidPriceResult(k, price)
        THEN [price |-> price, confidence |-> confidence] ELSE [price |-> 0, confidence |-> 0]

\* The average of the valid prices, weighted by confidence.
getPriceFromSources(k, t) ==
    LET result(i) == getPriceFromSource(k, Sources[k][i], t)
        price(i) == result(i).price
        confidence(i) == result(i).confidence
        weighted(i) == price(i) * confidence(i)
        valid == {i \in DOMAIN Sources[k] : price(i) > 0}
        total == SumOver(valid, confidence)
    IN  IF valid = {} THEN [price |-> 0, confidence |-> 0]
        ELSE IF Cardinality(valid) = 1 THEN result(CHOOSE i \in valid : TRUE)
        ELSE IF total = 0 THEN [price |-> SumOver(valid, price) \div Cardinality(valid),
                                confidence |-> 50]
        ELSE [price |-> SumOver(valid, weighted) \div total,
              confidence |-> total \div Cardinality(valid)]

-----------------------------------------------------------------------------
(* Tokens. *)

NewToken == [derivedUSD |-> 0, priceConfidence |-> 0, lastPriceUpdate |-> 0]

\* The sources' rows are kept under their address: a feed of several tokens belongs
\* to the last one.
initializeToken(k) ==
    source' = [a \in {Sources[k][i].address : i \in DOMAIN Sources[k]} |-> k] @@ source

\* Seeded fault: a price is kept until it is refreshed by force.
CachedForEver(k, t, forceRefresh) ==
    /\ ~forceRefresh
    /\ token[k].priceConfidence > MinConfidence

Cached(k, t, forceRefresh) ==
    /\ ~forceRefresh
    /\ t - token[k].lastPriceUpdate < CacheDuration
    /\ token[k].priceConfidence > MinConfidence

Saved(k, price, confidence) ==
    /\ token' = Put(token, k, [derivedUSD |-> price, priceConfidence |-> confidence,
                               lastPriceUpdate |-> now])
    /\ priceUpdate' = Put(priceUpdate, <<k, now>>, price)

Returns(k, price) == returned' = Put(returned, k, [price |-> price, at |-> now])

Fresh(k) ==
    LET result == getPriceFromSources(k, now)
    IN  IF result.price > 0 /\ result.confidence > MinConfidence
        THEN Saved(k, result.price, result.confidence) /\ Returns(k, result.price)
        ELSE IF k \in Critical
        THEN Saved(k, 1, FallbackConfidence) /\ Returns(k, 1)
        ELSE /\ Returns(k, 0)
             /\ token' = Put(token, k, LoadOr(token, k, NewToken))
             /\ UNCHANGED priceUpdate

getTokenPriceUSD(k, forceRefresh) ==
    /\ reads < MaxReads /\ reads' = reads + 1
    /\ IF k \notin Listed THEN Returns(k, 0) /\ UNCHANGED <<token, source, priceUpdate>>
       ELSE IF k \notin DOMAIN token THEN initializeToken(k) /\ Fresh(k)
       ELSE /\ UNCHANGED source
            /\ IF Cached(k, now, forceRefresh)
               THEN Returns(k, token[k].derivedUSD) /\ UNCHANGED <<token, priceUpdate>>
               ELSE Fresh(k)
    /\ UNCHANGED <<now, answer>>

Tick == /\ now < MaxNow /\ now' = now + 1
        /\ UNCHANGED <<answer, token, source, priceUpdate, returned, reads>>

Answers == {f \in [Feeds \cup Pools -> FeedAnswers \cup PoolAnswers] :
               /\ \A x \in Feeds : f[x] \in FeedAnswers
               /\ \A x \in Pools : f[x] \in PoolAnswers}

Init ==
    /\ now = 1
    /\ answer \in [1..MaxNow -> Answers]
    /\ token = NoRows /\ source = NoRows /\ priceUpdate = NoRows /\ returned = NoRows /\ reads = 0

Next == Tick \/ \E k \in Listed \cup Unlisted, forceRefresh \in BOOLEAN :
                   getTokenPriceUSD(k, forceRefresh)

Spec == Init /\ [][Next]_vars

-----------------------------------------------------------------------------
(* Properties. *)

\* What the sources of token k said at tick t and may be believed.
Believed(k, t) ==
    {r.price : r \in {getPriceFromSource(k, Sources[k][i], t) : i \in DOMAIN Sources[k]}} \ {0}

\* Whatever price a handler gets lies between prices its sources gave less than the
\* cache's duration before; a stablecoin may be worth a dollar and another token
\* nothing when the sources then could not be believed.  The row of the token is its
\* last recorded update.
PriceIsRecent ==
    \A k \in DOMAIN returned :
       LET r == returned[k]
           from(u) == Believed(k, u)
           times == {u \in 1..MaxNow : u <= r.at /\ u > r.at - CacheDuration}
           unreliable(u) == getPriceFromSources(k, u).confidence <= MinConfidence
       IN  IF k \notin Listed THEN r.price = 0
           ELSE /\ \/ r.price = 0 /\ k \notin Critical /\ unreliable(r.at)
                   \/ r.price = 1 /\ k \in Critical /\ \E u \in times : unreliable(u)
                   \/ \E u \in times : \E a, b \in from(u) : a <= r.price /\ r.price <= b
                /\ token[k].lastPriceUpdate > 0 =>
                       priceUpdate[<<k, token[k].lastPriceUpdate>>] = token[k].derivedUSD
=============================================================================
