-------------------------- MODULE OptimismPositions --------------------------
(***************************************************************************)
(* babydegen (Optimism): the positions of the Safes in one Balancer pool   *)
(* and their Uniswap V3 NFTs, and the swaps through LiFi whose slippage is *)
(* charged to the positions they prepare.  A swap waits in one of four     *)
(* buckets of its Safe, of BucketLength each; a position that is made      *)
(* takes those of the last Window.                                         *)
(*                                                                         *)
(* As in BabydegenPositions the contracts are external and a handler reads *)
(* them as they are at the end of the block.  The ETH that a swap moves is *)
(* a matter of the balances, which this module leaves out.                 *)
(***************************************************************************)
EXTENDS Counters, Sequences, SequencesExt

CONSTANTS
    Safes, Nfts, Pool, Outsider, Zero,
    BucketLength, Window,               \* 300 s, 1200 s
    Slippages, Prices, MaxBpt, MaxLiquidity, MaxTx, MaxNow, MaxStep     \* bounds

OptimismAssumption ==
    /\ BucketLength \in Nat \ {0} /\ Window \in Nat
    /\ Safes \cap {Outsider, Zero} = {} /\ Slippages \subseteq Int /\ Prices \subseteq Nat \ {0}
    /\ Nfts \cap (Safes \cup {Pool}) = {} /\ {MaxBpt, MaxLiquidity, MaxStep} \subseteq Nat

VARIABLES
    \* The chain (external).
    now, price, closed, logs, tx,
    bpt,                    \* Safe -> its pool tokens
    nft,                    \* NFT -> state, the Safe it was made for, owner, liquidity
    put, taken,             \* NFT or Safe -> USD of its increases or joins; of the last way out
    \* The store.
    position,               \* <<Safe, Pool or NFT>> -> row
    swap,                   \* SwapTransaction rows, in their order
    buffer                  \* Safe -> AgentSwapBuffer

chain == <<now, price, closed, logs, tx, bpt, nft, put, taken>>
vars == <<chain, position, swap, buffer>>

isServiceAgent(x) == x \in Safes
Live(n) == nft[n].state = "live"

-----------------------------------------------------------------------------
(* Blocks and transactions. *)

Emits(events) ==
    /\ ~closed /\ tx < MaxTx
    /\ logs' = logs \o events /\ tx' = tx + 1
    /\ UNCHANGED <<now, price, closed, position, swap, buffer>>

CloseBlock ==
    /\ ~closed /\ closed' = TRUE
    /\ UNCHANGED <<now, price, logs, tx, bpt, nft, put, taken, position, swap, buffer>>

NextBlock ==
    /\ closed /\ logs = <<>> /\ closed' = FALSE
    /\ now' \in {t \in now + 1 .. now + MaxStep : t <= MaxNow} /\ price' \in Prices
    /\ UNCHANGED <<logs, tx, bpt, nft, put, taken, position, swap, buffer>>

SwapThroughLiFi(x, integrator, slippage) ==
    /\ Emits(<<[event |-> "LiFi", receiver |-> x, integrator |-> integrator, slippage |-> slippage]>>)
    /\ UNCHANGED <<bpt, nft, put, taken>>

\* A join, an exit, or a call that moves no pool tokens.
PoolBalanceChanged(x, deltas, minted) ==
    LET value == price * (deltas[1] + deltas[2])
    IN  /\ Emits(<<[event |-> "Balancer", liquidityProvider |-> x, deltas |-> deltas]>>)
        /\ bpt[x] + minted \in 0..MaxBpt
        /\ bpt' = [bpt EXCEPT ![x] = @ + minted]
        /\ put' = IF minted > 0 THEN [put EXCEPT ![x] = @ + value] ELSE put
        /\ taken' = IF minted < 0 THEN [taken EXCEPT ![x] = -value] ELSE taken
        /\ UNCHANGED nft

NftTransfer(from, to, n) == [event |-> "Transfer", from |-> from, to |-> to, id |-> n]
Increase(n, amount) == [event |-> "Increase", id |-> n, amount |-> amount]

\* Through a contract that mints to itself and hands the NFT on, or straight to the Safe.
MintNft(x, n, amount) ==
    /\ \/ Emits(<<NftTransfer(Zero, x, n), Increase(n, amount)>>)
       \/ Emits(<<NftTransfer(Zero, Outsider, n), Increase(n, amount), NftTransfer(Outsider, x, n)>>)
    /\ nft[n].state = "unborn"
    /\ nft' = [nft EXCEPT ![n] = [state |-> "live", home |-> x, owner |-> x, liquidity |-> amount]]
    /\ put' = [put EXCEPT ![n] = amount * price]
    /\ UNCHANGED <<bpt, taken>>

IncreaseNft(n, amount) ==
    /\ Emits(<<Increase(n, amount)>>)
    /\ Live(n) /\ nft[n].liquidity + amount <= MaxLiquidity
    /\ nft' = [nft EXCEPT ![n].liquidity = @ + amount]
    /\ put' = [put EXCEPT ![n] = @ + amount * price]
    /\ UNCHANGED <<bpt, taken>>

DecreaseNft(n, amount) ==
    /\ Emits(<<[event |-> "Decrease", id |-> n, amount |-> amount], [event |-> "Collect", id |-> n]>>)
    /\ Live(n) /\ nft[n].liquidity >= amount
    /\ nft' = [nft EXCEPT ![n].liquidity = @ - amount]
    /\ taken' = [taken EXCEPT ![n] = amount * price]
    /\ UNCHANGED <<bpt, put>>

BurnNft(n) ==
    /\ Emits(<<NftTransfer(nft[n].owner, Zero, n)>>)
    /\ Live(n) /\ nft[n].liquidity = 0
    /\ nft' = [nft EXCEPT ![n].state = "burned", ![n].owner = Zero]
    /\ UNCHANGED <<bpt, put, taken>>

GiveNftAway(n) ==
    /\ Emits(<<NftTransfer(nft[n].owner, Outsider, n)>>)
    /\ Live(n) /\ nft[n].owner \in Safes
    /\ nft' = [nft EXCEPT ![n].owner = Outsider]
    /\ UNCHANGED <<bpt, put, taken>>

-----------------------------------------------------------------------------
(* Swaps. *)

getBucketIndex(t) == t \div BucketLength
NewBuffer == [buckets |-> <<{}, {}, {}, {}>>, index |-> getBucketIndex(now)]

\* Seeded fault: the younger bucket is copied before the older one has moved on.
RotatedUpwards(buckets) == <<{}, buckets[1], buckets[1], buckets[1]>>

\* One bucket further, however many bucket lengths went by; the oldest is dropped.
Rotated(buckets) == <<{}, buckets[1], buckets[2], buckets[3]>>

addSwapToBuffer(b, id) ==
    LET rotated == IF getBucketIndex(now) > b.index
                   THEN [buckets |-> Rotated(b.buckets), index |-> getBucketIndex(now)] ELSE b
    IN  [rotated EXCEPT !.buckets[1] = @ \cup {id}]

createSwapTransaction(x, slippage) ==
    /\ swap' = Append(swap, [agent |-> x, timestamp |-> now, slippageUSD |-> slippage,
                             isAssociated |-> FALSE])
    /\ buffer' = Put(buffer, x, addSwapToBuffer(LoadOr(buffer, x, NewBuffer), Len(swap) + 1))

Handled(event) ==
    /\ closed /\ logs # <<>> /\ Head(logs).event = event
    /\ logs' = Tail(logs)
    /\ UNCHANGED <<now, price, closed, tx, bpt, nft, put, taken>>

handleLiFiGenericSwapCompleted ==
    LET e == Head(logs)
    IN  /\ Handled("LiFi")
        /\ IF e.integrator = "valory" /\ isServiceAgent(e.receiver)
           THEN createSwapTransaction(e.receiver, e.slippage)
           ELSE UNCHANGED <<swap, buffer>>
        /\ UNCHANGED position

InBuckets(x) == IF x \in DOMAIN buffer THEN UNION Range(buffer[x].buckets) ELSE {}

\* The swaps a position made now takes: of every bucket, those of the last Window.
Associated(x) == {i \in InBuckets(x) : now - swap[i].timestamp <= Window}

SlippageOf(ids) == LET slippage(i) == swap[i].slippageUSD IN SumOver(ids, slippage)

associateSwapsWithPosition(x) == IF SlippageOf(Associated(x)) < 0 THEN 0 ELSE SlippageOf(Associated(x))

\* Seeded fault: the swaps are marked but stay in their buckets.
AssociatesAgain(x) ==
    /\ swap' = [i \in DOMAIN swap |->
                   [swap[i] EXCEPT !.isAssociated = @ \/ i \in Associated(x)]]
    /\ UNCHANGED buffer

\* What the association leaves in the store: the swaps are marked, and out of their buckets.
Associates(x) ==
    /\ swap' = [i \in DOMAIN swap |->
                   [swap[i] EXCEPT !.isAssociated = @ \/ i \in Associated(x)]]
    /\ buffer' = IF x \in DOMAIN buffer
                 THEN [buffer EXCEPT ![x].buckets = [b \in DOMAIN @ |-> @[b] \ Associated(x)]]
                 ELSE buffer

-----------------------------------------------------------------------------
(* Balancer. *)

NewPosition ==
    [active |-> TRUE, liquidity |-> 0, usdCurrent |-> 0, entry |-> 0, exit |-> 0, exited |-> FALSE,
     costs |-> 0, netGain |-> 0]

calculatePositionROI(row) ==
    IF row.active \/ ~row.exited \/ row.entry + row.costs = 0 THEN row
    ELSE [row EXCEPT !.netGain = row.exit - row.entry - row.costs]

detectTransactionType(deltas) ==
    LET positive == \E i \in DOMAIN deltas : deltas[i] > 0
        negative == \E i \in DOMAIN deltas : deltas[i] < 0
    IN  IF positive /\ ~negative THEN "entry" ELSE IF negative /\ ~positive THEN "exit"
        ELSE IF positive THEN "rebalance" ELSE "no-change"

getBPTBalance(x) == bpt[x]

BalancerRefreshed(row, x) ==
    LET inactive == [row EXCEPT !.active = FALSE, !.usdCurrent = 0, !.liquidity = 0]
    IN  IF getBPTBalance(x) > 0
        THEN [row EXCEPT !.active = TRUE, !.usdCurrent = getBPTBalance(x) * price,
                         !.liquidity = getBPTBalance(x)]
        ELSE IF row.exited /\ row.exit > 0 THEN calculatePositionROI(inactive) ELSE inactive

\* Entries add up, an exit is the last one's.
BalancerFlow(row, deltas) ==
    LET usd == price * (deltas[1] + deltas[2])
    IN  CASE detectTransactionType(deltas) = "entry" -> [row EXCEPT !.entry = @ + usd]
          [] detectTransactionType(deltas) = "exit" -> [row EXCEPT !.exit = -usd, !.exited = TRUE]
          [] OTHER -> row

\* A row that an event with amounts makes is charged with the swaps before it.
refreshBalancerPositionWithEventAmounts(x, deltas) ==
    LET key == <<x, Pool>>
        row == LoadOr(position, key, [NewPosition EXCEPT !.costs = associateSwapsWithPosition(x)])
    IN  /\ position' = Put(position, key, BalancerRefreshed(BalancerFlow(row, deltas), x))
        /\ IF key \in DOMAIN position THEN UNCHANGED <<swap, buffer>> ELSE Associates(x)

refreshBalancerPosition(x) ==
    /\ position' = Put(position, <<x, Pool>>,
                       BalancerRefreshed(LoadOr(position, <<x, Pool>>, NewPosition), x))
    /\ UNCHANGED <<swap, buffer>>

handlePoolBalanceChanged ==
    LET e == Head(logs)
    IN  /\ Handled("Balancer")
        /\ IF ~isServiceAgent(e.liquidityProvider) THEN UNCHANGED <<position, swap, buffer>>
           ELSE IF detectTransactionType(e.deltas) = "no-change"
           THEN refreshBalancerPosition(e.liquidityProvider)
           ELSE refreshBalancerPositionWithEventAmounts(e.liquidityProvider, e.deltas)

-----------------------------------------------------------------------------
(* Uniswap V3: rows are the owner's, as the manager names it at the end of the block. *)

Tracked(n) == Live(n) /\ isServiceAgent(nft[n].owner)
Key(n) == <<nft[n].owner, n>>
isPositionClosed(liquidity) == liquidity = 0

UniRefreshed(row, n) ==
    LET valued == [row EXCEPT !.liquidity = nft[n].liquidity, !.usdCurrent = nft[n].liquidity * price]
    IN  IF isPositionClosed(nft[n].liquidity)
        THEN calculatePositionROI([valued EXCEPT !.active = FALSE, !.exit = valued.usdCurrent,
                                                 !.exited = TRUE])
        ELSE valued

\* Seeded fault: a closed row is valued, and closed, again.
RefreshedAlways(rows, n) ==
    IF Tracked(n) THEN Put(rows, Key(n), UniRefreshed(LoadOr(rows, Key(n), NewPosition), n)) ELSE rows

\* A closed row is left as it is.
refreshUniV3Position(rows, n) ==
    IF Tracked(n) /\ LoadOr(rows, Key(n), NewPosition).active
    THEN Put(rows, Key(n), UniRefreshed(LoadOr(rows, Key(n), NewPosition), n))
    ELSE rows

refreshUniV3PositionWithEventAmounts(n, amount) ==
    LET fresh == [NewPosition EXCEPT !.costs = associateSwapsWithPosition(nft[n].owner)]
        row == LoadOr(position, Key(n), fresh)
    IN  IF ~Tracked(n) THEN UNCHANGED <<position, swap, buffer>>
        ELSE /\ position' = refreshUniV3Position(
                   Put(position, Key(n), [row EXCEPT !.entry = @ + amount * price]), n)
             /\ IF Key(n) \in DOMAIN position THEN UNCHANGED <<swap, buffer>>
                ELSE Associates(nft[n].owner)

handleUniV3IncreaseLiquidity ==
    /\ Handled("Increase")
    /\ refreshUniV3PositionWithEventAmounts(Head(logs).id, Head(logs).amount)

refreshUniV3PositionWithExitAmounts(n, amount) ==
    IF ~Tracked(n) \/ Key(n) \notin DOMAIN position THEN position
    ELSE IF nft[n].liquidity > 0 THEN refreshUniV3Position(position, n)
    ELSE [position EXCEPT ![Key(n)] = calculatePositionROI(
             [@ EXCEPT !.active = FALSE, !.exit = amount * price, !.exited = TRUE,
                       !.usdCurrent = 0, !.liquidity = 0])]

handleUniV3DecreaseLiquidity ==
    /\ Handled("Decrease")
    /\ position' = refreshUniV3PositionWithExitAmounts(Head(logs).id, Head(logs).amount)
    /\ UNCHANGED <<swap, buffer>>

handleUniV3Collect ==
    /\ Handled("Collect")
    /\ position' = refreshUniV3Position(position, Head(logs).id)
    /\ UNCHANGED <<swap, buffer>>

\* The row of the sender is looked up under an id without the protocol: no row has one.
SendersRow(from, n) == <<from, n, Zero>>

handleUniV3Transfer ==
    LET e == Head(logs)
        left == SendersRow(e.from, e.id)
        closedRows == IF isServiceAgent(e.from) /\ left \in DOMAIN position
                      THEN [position EXCEPT ![left].active = FALSE] ELSE position
    IN  /\ Handled("Transfer")
        /\ position' = IF isServiceAgent(e.to) \/ isServiceAgent(e.from)
                       THEN refreshUniV3Position(closedRows, e.id) ELSE position
        /\ UNCHANGED <<swap, buffer>>

\* A polled block in which the snapshot of a Safe is due.
refreshAllActivePositions(x) ==
    LET refreshed(key) == IF key[2] = Pool THEN BalancerRefreshed(position[key], x)
                          ELSE refreshUniV3Position(position, key[2])[key]
    IN  [key \in DOMAIN position |->
            IF key[1] = x /\ position[key].active THEN refreshed(key) ELSE position[key]]

Poll(x) ==
    /\ closed /\ logs = <<>>
    /\ position' = refreshAllActivePositions(x)
    /\ UNCHANGED <<chain, swap, buffer>>

-----------------------------------------------------------------------------
Init ==
    /\ now = 0 /\ price \in Prices /\ closed = FALSE /\ logs = <<>> /\ tx = 0
    /\ bpt = [x \in Safes |-> 0]
    /\ nft = [n \in Nfts |-> [state |-> "unborn", home |-> Zero, owner |-> Zero, liquidity |-> 0]]
    /\ put = [x \in Nfts \cup Safes |-> 0] /\ taken = [x \in Nfts \cup Safes |-> 0]
    /\ position = NoRows /\ swap = <<>> /\ buffer = NoRows

Chain ==
    \/ CloseBlock \/ NextBlock
    \/ \E x \in Safes \cup {Outsider}, i \in {"valory", "other"}, s \in Slippages :
          (x \in Safes \/ i = "valory") /\ SwapThroughLiFi(x, i, s)
    \/ \E x \in Safes, amount \in 1..MaxBpt :
          \/ PoolBalanceChanged(x, <<amount, 0>>, amount)
          \/ PoolBalanceChanged(x, <<-amount, 0>>, -amount)
    \/ \E x \in Safes : MaxBpt > 0 /\ \E d \in {<<0, 0>>, <<1, -1>>} : PoolBalanceChanged(x, d, 0)
    \/ \E n \in Nfts, amount \in 1..MaxLiquidity :
          \/ IncreaseNft(n, amount) \/ DecreaseNft(n, amount)
          \/ \E x \in Safes : MintNft(x, n, amount)
    \/ \E n \in Nfts : BurnNft(n) \/ GiveNftAway(n)

Next ==
    \/ Chain
    \/ handleLiFiGenericSwapCompleted \/ handlePoolBalanceChanged
    \/ handleUniV3Transfer \/ handleUniV3IncreaseLiquidity
    \/ handleUniV3DecreaseLiquidity \/ handleUniV3Collect
    \/ \E x \in Safes : Poll(x)

Spec == Init /\ [][Next]_vars

-----------------------------------------------------------------------------
(* Properties. *)

Drained == closed /\ logs = <<>>

\* A swap waits in one bucket until it is associated, and is never lost before three whole
\* buckets have passed, however the swaps are spread over the clock (addSwapToBuffer).
SwapsKept ==
    \A i \in DOMAIN swap :
        LET waits == {b \in 1..4 : swap[i].agent \in DOMAIN buffer
                                  /\ i \in buffer[swap[i].agent].buckets[b]}
        IN  /\ Cardinality(waits) <= 1
            /\ swap[i].isAssociated => waits = {}
            /\ ~swap[i].isAssociated /\ now - swap[i].timestamp <= 3 * BucketLength => waits # {}

\* Every associated swap is charged, and to one position: what the positions of a Safe cost
\* is the slippage of its associated swaps, but for gains, which are not credited.
CostsAddUp ==
    \A x \in Safes :
        LET cost(key) == position[key].costs
            costs == SumOver({key \in DOMAIN position : key[1] = x}, cost)
            charged == {i \in DOMAIN swap : swap[i].agent = x /\ swap[i].isAssociated}
        IN  /\ costs >= SlippageOf(charged)
            /\ costs <= SlippageOf({i \in charged : swap[i].slippageUSD > 0})

\* The Balancer position of a Safe is active as long as it holds pool tokens, and has the
\* USD of all its joins and of its last exit.
BptMirrored ==
    \A x \in Safes :
        LET row == LoadOr(position, <<x, Pool>>, [NewPosition EXCEPT !.active = FALSE])
        IN  /\ row.active = (bpt[x] > 0) /\ row.liquidity = bpt[x]
            /\ row.entry = put[x] /\ row.exit = taken[x]

\* The same of an NFT that its Safe still has, however it came to it; one that is closed with
\* liquidity left was closed by an earlier exit, which no later event makes up for.
NftsMirrored ==
    \A n \in Nfts :
        Live(n) /\ nft[n].owner = nft[n].home =>
            /\ Key(n) \in DOMAIN position
            /\ LET row == position[Key(n)]
               IN  /\ row.entry = put[n]
                   /\ row.active => nft[n].liquidity > 0 /\ row.liquidity = nft[n].liquidity
                   /\ ~row.active => nft[n].liquidity = 0 \/ row.exited
                   /\ nft[n].liquidity = 0 => row.exited /\ row.exit = taken[n]

OptimismPositionsMirrorChain ==
    SwapsKept /\ CostsAddUp /\ (Drained => BptMirrored /\ NftsMirrored)

\* "Mark position as closed when NFT is transferred out" (uniV3NFTManager.ts:62).
ClosedWhenTransferredOut ==
    Drained => \A key \in DOMAIN position :
                  key[2] # Pool /\ nft[key[2]].owner # key[1] => ~position[key].active
=============================================================================
