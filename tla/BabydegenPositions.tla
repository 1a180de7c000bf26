-------------------------- MODULE BabydegenPositions --------------------------
(***************************************************************************)
(* babydegen (Base): the positions of the Safes in one pool of Velodrome   *)
(* V2, whose LP tokens may be staked in its gauge, and their NFTs of       *)
(* concentrated liquidity.  Every handler reads the contracts as they are  *)
(* at the END of the block of its event, so the events of a block queue up *)
(* in `logs' while the chain moves and are handled once it is closed.      *)
(*                                                                         *)
(* The pools, the gauges and the NFT manager are external.  A unit of      *)
(* liquidity is worth `price', which a block fixes; what a gauge owes is   *)
(* one.  The costs of a position are zero here: swaps are not associated   *)
(* with it, since its entryTimestamp is set when its row is made           *)
(* (veloV2Shared.ts:456, veloCLShared.ts:109).                             *)
(***************************************************************************)
EXTENDS Counters, Sequences

CONSTANTS
    Safes, Nfts, Ungauged,      \* Ungauged: NFTs of pools that have no gauge
    Pool, Gauge, Router, Outsider, Zero,    \* other accounts
    Prices, MaxLp, MaxLiquidity, MaxTx, MaxBlocks   \* bounds

PositionsAssumption ==
    /\ Ungauged \subseteq Nfts /\ Pool \notin Nfts
    /\ Safes \cap {Pool, Gauge, Router, Outsider, Zero} = {} /\ Zero \notin {Gauge, Outsider}
    /\ Prices \subseteq Nat \ {0} /\ {MaxLp, MaxLiquidity} \subseteq Nat

VARIABLES
    \* The chain (external).
    block, price, closed,   \* is the block closed, so that its events are handled?
    logs, tx,
    wallet, staked,         \* Safe -> its LP tokens, and those in the gauge
    nft,                    \* NFT -> the Safe it was minted to, its owner, its liquidity
    put, taken,             \* NFT -> USD of all its increases; of its last decrease
    \* The store.
    position,               \* <<Safe, Pool or NFT>> -> row
    mapping,                \* NFT -> Safe of its position id
    pending                 \* transaction -> Safe that a V2 mint goes to

chain == <<block, price, closed, logs, tx, wallet, staked, nft, put, taken>>
store == <<position, mapping, pending>>
vars == <<chain, store>>

getServiceByAgent(x) == x \in Safes
Live(n) == nft[n].state = "live"
Earned(x) == IF staked[x] > 0 THEN 1 ELSE 0

-----------------------------------------------------------------------------
(* Blocks and transactions.  Each transaction appends its events to logs.  *)

Emits(events) ==
    /\ ~closed /\ tx < MaxTx
    /\ logs' = logs \o events
    /\ tx' = tx + 1
    /\ UNCHANGED <<block, price, closed, store>>

CloseBlock ==
    /\ ~closed /\ closed' = TRUE
    /\ UNCHANGED <<block, price, logs, tx, wallet, staked, nft, put, taken, store>>

NextBlock ==
    /\ closed /\ logs = <<>> /\ block < MaxBlocks
    /\ closed' = FALSE /\ block' = block + 1 /\ price' \in Prices
    /\ UNCHANGED <<logs, tx, wallet, staked, nft, put, taken, store>>

LpTransfer(from, to) == [event |-> "Transfer", from |-> from, to |-> to, tx |-> tx]
NftTransfer(from, to, n) == [event |-> "NftTransfer", from |-> from, to |-> to, id |-> n]

AddLiquidityV2(x, amount) ==
    /\ Emits(<<LpTransfer(Zero, x), [event |-> "Mint", amount |-> amount, tx |-> tx]>>)
    /\ wallet[x] + amount <= MaxLp
    /\ wallet' = [wallet EXCEPT ![x] = @ + amount]
    /\ UNCHANGED <<staked, nft, put, taken>>

\* The router burns for the Safe, and keeps what it unwraps to ETH itself.
RemoveLiquidityV2(x, amount, to) ==
    /\ Emits(<<LpTransfer(x, Pool), LpTransfer(Pool, Zero),
               [event |-> "Burn", sender |-> Router, to |-> to, amount |-> amount]>>)
    /\ wallet[x] >= amount
    /\ wallet' = [wallet EXCEPT ![x] = @ - amount]
    /\ UNCHANGED <<staked, nft, put, taken>>

SendLp(x, y, amount) ==
    /\ Emits(<<LpTransfer(x, y)>>)
    /\ x # y /\ (x \in Safes => wallet[x] >= amount)
    /\ wallet' = [z \in Safes |-> IF z = x THEN wallet[z] - amount
                                  ELSE IF z = y THEN wallet[z] + amount ELSE wallet[z]]
    /\ \A z \in Safes : wallet'[z] <= MaxLp
    /\ UNCHANGED <<staked, nft, put, taken>>

StakeLp(x) ==
    /\ Emits(<<LpTransfer(x, Gauge)>>)
    /\ wallet[x] > 0
    /\ wallet' = [wallet EXCEPT ![x] = 0]
    /\ staked' = [staked EXCEPT ![x] = @ + wallet[x]]
    /\ UNCHANGED <<nft, put, taken>>

UnstakeLp(x) ==
    /\ Emits(<<LpTransfer(Gauge, x)>>)
    /\ staked[x] > 0
    /\ wallet' = [wallet EXCEPT ![x] = @ + staked[x]]
    /\ staked' = [staked EXCEPT ![x] = 0]
    /\ UNCHANGED <<nft, put, taken>>

MintNft(x, n, amount) ==
    /\ Emits(<<NftTransfer(Zero, x, n), [event |-> "Increase", id |-> n, amount |-> amount]>>)
    /\ nft[n].state = "unborn"
    /\ nft' = [nft EXCEPT ![n] = [state |-> "live", home |-> x, owner |-> x, liquidity |-> amount]]
    /\ put' = [put EXCEPT ![n] = amount * price]
    /\ UNCHANGED <<wallet, staked, taken>>

IncreaseNft(n, amount) ==
    /\ Emits(<<[event |-> "Increase", id |-> n, amount |-> amount]>>)
    /\ Live(n) /\ nft[n].owner # Gauge /\ nft[n].liquidity + amount <= MaxLiquidity
    /\ nft' = [nft EXCEPT ![n].liquidity = @ + amount]
    /\ put' = [put EXCEPT ![n] = @ + amount * price]
    /\ UNCHANGED <<wallet, staked, taken>>

\* What is taken out is collected in the same transaction.
DecreaseNft(n, amount) ==
    /\ Emits(<<[event |-> "Decrease", id |-> n, amount |-> amount], [event |-> "Collect", id |-> n]>>)
    /\ Live(n) /\ nft[n].owner # Gauge /\ nft[n].liquidity >= amount
    /\ nft' = [nft EXCEPT ![n].liquidity = @ - amount]
    /\ taken' = [taken EXCEPT ![n] = amount * price]
    /\ UNCHANGED <<wallet, staked, put>>

BurnNft(n) ==
    /\ Emits(<<NftTransfer(nft[n].owner, Zero, n)>>)
    /\ Live(n) /\ nft[n].owner # Gauge /\ nft[n].liquidity = 0
    /\ nft' = [nft EXCEPT ![n].state = "burned"]
    /\ UNCHANGED <<wallet, staked, put, taken>>

\* The gauge holds the NFTs that are staked; an outsider one that was given away.
MoveNft(n, to) ==
    /\ Emits(<<NftTransfer(nft[n].owner, to, n)>>)
    /\ Live(n)
    /\ \/ nft[n].owner = Gauge /\ to = nft[n].home
       \/ nft[n].owner \in Safes /\ to \in {Gauge, Outsider}
    /\ nft' = [nft EXCEPT ![n].owner = to]
    /\ UNCHANGED <<wallet, staked, put, taken>>

-----------------------------------------------------------------------------
(* Rows of positions. *)

NewPosition ==
    [active |-> TRUE, liquidity |-> 0, usdCurrent |-> 0, usdCurrentWithRewards |-> 0,
     entry |-> 0, exit |-> 0, exited |-> FALSE, investment |-> 0, netGain |-> 0]

\* Of a closed position whose exit is known; grossGainUSD is the exit.
calculatePositionROI(row) ==
    IF row.active \/ ~row.exited \/ row.entry = 0 THEN row
    ELSE [row EXCEPT !.investment = row.entry, !.netGain = row.exit - row.entry]

Emptied(row) == [row EXCEPT !.liquidity = 0, !.usdCurrent = 0, !.usdCurrentWithRewards = 0]

\* Seeded fault: LP tokens in the gauge are forgotten.
LpInWallet(row, x) ==
    LET held == wallet[x]
    IN  IF held = 0 THEN Emptied([row EXCEPT !.active = FALSE])
        ELSE [row EXCEPT !.active = TRUE, !.liquidity = held, !.usdCurrent = held * price,
                         !.usdCurrentWithRewards = held * price]

LpRefreshed(row, x) ==
    LET held == wallet[x] + staked[x]
        inactive == [row EXCEPT !.active = FALSE]
    IN  IF held = 0
        THEN Emptied(IF row.exit > 0 THEN calculatePositionROI(inactive) ELSE inactive)
        ELSE [row EXCEPT !.active = TRUE, !.liquidity = held, !.usdCurrent = held * price,
                         !.usdCurrentWithRewards = held * price + Earned(x)]

refreshVeloV2Position(rows, x) ==
    IF ~getServiceByAgent(x) THEN rows
    ELSE Put(rows, <<x, Pool>>, LpRefreshed(LoadOr(rows, <<x, Pool>>, NewPosition), x))

isPositionClosed(liquidity) == liquidity = 0

\* The row of an NFT the manager still knows: without a gauge only usdCurrent is saved,
\* and nothing makes a closed row active again.
NftRefreshed(row, n) ==
    LET value == nft[n].liquidity * price
        valued == [row EXCEPT !.liquidity = nft[n].liquidity, !.usdCurrent = value,
                              !.usdCurrentWithRewards = value + 1,
                              !.investment = IF @ = 0 THEN row.entry ELSE @]
    IN  IF n \in Ungauged THEN [row EXCEPT !.usdCurrent = value]
        ELSE IF ~isPositionClosed(nft[n].liquidity) THEN valued
        ELSE calculatePositionROI([valued EXCEPT !.active = FALSE, !.exit = value, !.exited = TRUE])

\* positions() reverts once the NFT is burned.
refreshVeloCLPosition(rows, key) ==
    IF key \in DOMAIN rows /\ Live(key[2]) THEN [rows EXCEPT ![key] = NftRefreshed(@, key[2])]
    ELSE rows

CreatedCLPosition(x, n) ==
    IF <<x, n>> \in DOMAIN position \/ ~Live(n) THEN position
    ELSE refreshVeloCLPosition(Put(position, <<x, n>>, NewPosition), <<x, n>>)

-----------------------------------------------------------------------------
(* Handlers, for the next event of a closed block. *)

Handled(event) ==
    /\ closed /\ logs # <<>> /\ Head(logs).event = event
    /\ logs' = Tail(logs)
    /\ UNCHANGED <<block, price, closed, tx, wallet, staked, nft, put, taken>>

storePendingPosition(t, x) == Put(pending, t, x)

handleVeloV2Transfer ==
    LET e == Head(logs)
    IN  /\ Handled("Transfer")
        /\ position' =
             IF e.from = Zero THEN refreshVeloV2Position(position, e.to)
             ELSE IF e.to = Zero THEN refreshVeloV2Position(position, e.from)
             ELSE refreshVeloV2Position(refreshVeloV2Position(position, e.from), e.to)
        /\ pending' = IF e.from = Zero /\ getServiceByAgent(e.to)
                      THEN storePendingPosition(e.tx, e.to) ELSE pending
        /\ UNCHANGED mapping

\* The entry is this mint's alone.
Entered(x, amount) == [position EXCEPT ![<<x, Pool>>].entry = amount * price]

getPendingPosition(t) == [u \in DOMAIN pending \ {t} |-> pending[u]]

handleVeloV2Mint ==
    LET e == Head(logs)
    IN  /\ Handled("Mint")
        /\ pending' = getPendingPosition(e.tx)
        /\ position' =
             IF e.tx \in DOMAIN pending /\ <<pending[e.tx], Pool>> \in DOMAIN position
             THEN refreshVeloV2Position(Entered(pending[e.tx], e.amount), pending[e.tx])
             ELSE position
        /\ UNCHANGED mapping

refreshVeloV2PositionWithBurnAmounts(x, amount) ==
    IF <<x, Pool>> \notin DOMAIN position THEN position
    ELSE refreshVeloV2Position(
           [position EXCEPT ![<<x, Pool>>] =
               calculatePositionROI([@ EXCEPT !.exit = amount * price, !.exited = TRUE])], x)

handleVeloV2Burn ==
    LET e == Head(logs)
    IN  /\ Handled("Burn")
        /\ position' = IF getServiceByAgent(e.to)
                       THEN refreshVeloV2PositionWithBurnAmounts(e.to, e.amount)
                       ELSE IF getServiceByAgent(e.sender)
                       THEN refreshVeloV2PositionWithBurnAmounts(e.sender, e.amount)
                       ELSE position
        /\ UNCHANGED <<mapping, pending>>

\* A mint to a Safe makes the row, a burn by one closes it; other transfers are ignored.
handleNFTTransfer ==
    LET e == Head(logs)
    IN  /\ Handled("NftTransfer")
        /\ mapping' = IF e.from = Zero /\ getServiceByAgent(e.to) /\ mapping[e.id] = Zero
                      THEN [mapping EXCEPT ![e.id] = e.to] ELSE mapping
        /\ position' =
             IF e.from = Zero
             THEN IF getServiceByAgent(e.to) THEN CreatedCLPosition(e.to, e.id) ELSE position
             ELSE IF e.to = Zero /\ <<e.from, e.id>> \in DOMAIN position
             THEN [position EXCEPT ![<<e.from, e.id>>].active = FALSE]
             ELSE position
        /\ UNCHANGED pending

\* Seeded fault: the entry is the last increase.
EntryReplaced(key, amount) ==
    IF key \notin DOMAIN position \/ ~Live(key[2]) THEN position
    ELSE refreshVeloCLPosition([position EXCEPT ![key].entry = amount * price], key)

refreshVeloCLPositionWithEventAmounts(key, amount) ==
    IF key \notin DOMAIN position \/ ~Live(key[2]) THEN position
    ELSE LET entry == position[key].entry + amount * price
         IN  refreshVeloCLPosition([position EXCEPT ![key].entry = entry,
                                                    ![key].investment = entry], key)

handleIncreaseLiquidity ==
    LET e == Head(logs)
    IN  /\ Handled("Increase")
        /\ position' = IF mapping[e.id] = Zero THEN position
                       ELSE refreshVeloCLPositionWithEventAmounts(<<mapping[e.id], e.id>>, e.amount)
        /\ UNCHANGED <<mapping, pending>>

\* A full exit takes the amounts of its event, and leaves usdCurrentWithRewards.
refreshVeloCLPositionWithExitAmounts(key, amount) ==
    IF key \notin DOMAIN position \/ ~Live(key[2]) THEN position
    ELSE IF nft[key[2]].liquidity > 0 THEN refreshVeloCLPosition(position, key)
    ELSE [position EXCEPT ![key] = calculatePositionROI(
             [@ EXCEPT !.active = FALSE, !.exit = amount * price, !.exited = TRUE,
                       !.liquidity = 0, !.usdCurrent = 0])]

handleDecreaseLiquidity ==
    LET e == Head(logs)
    IN  /\ Handled("Decrease")
        /\ position' = IF mapping[e.id] = Zero THEN position
                       ELSE refreshVeloCLPositionWithExitAmounts(<<mapping[e.id], e.id>>, e.amount)
        /\ UNCHANGED <<mapping, pending>>

\* Seeded fault: a collect finds its position, whose exit it then replaces by nothing.
CollectMapped(n) == mapping[n]

\* The id it looks the mapping up with lacks the "-" of the one it was saved with.
collectMapping(n) == Zero

handleCollect ==
    LET e == Head(logs)
    IN  /\ Handled("Collect")
        /\ position' = IF collectMapping(e.id) = Zero THEN position
                       ELSE refreshVeloCLPosition(position, <<collectMapping(e.id), e.id>>)
        /\ UNCHANGED <<mapping, pending>>

\* A polled block in which the snapshot of a Safe is due.
refreshAllActivePositions(x) ==
    LET refreshed(key) == IF key[2] = Pool THEN refreshVeloV2Position(position, x)[key]
                          ELSE refreshVeloCLPosition(position, key)[key]
    IN  [key \in DOMAIN position |->
            IF key[1] = x /\ position[key].active THEN refreshed(key) ELSE position[key]]

Poll(x) ==
    /\ closed /\ logs = <<>>
    /\ position' = refreshAllActivePositions(x)
    /\ UNCHANGED <<chain, mapping, pending>>

-----------------------------------------------------------------------------
Init ==
    /\ block = 0 /\ price \in Prices /\ closed = FALSE /\ logs = <<>> /\ tx = 0
    /\ wallet = [x \in Safes |-> 0] /\ staked = [x \in Safes |-> 0]
    /\ nft = [n \in Nfts |-> [state |-> "unborn", home |-> Zero, owner |-> Zero, liquidity |-> 0]]
    /\ put = [n \in Nfts |-> 0] /\ taken = [n \in Nfts |-> 0]
    /\ position = NoRows /\ pending = NoRows /\ mapping = [n \in Nfts |-> Zero]

Chain ==
    \/ CloseBlock \/ NextBlock
    \/ \E x \in Safes : StakeLp(x) \/ UnstakeLp(x)
    \/ \E x \in Safes, amount \in 1..MaxLp :
          \/ AddLiquidityV2(x, amount)
          \/ \E to \in {x, Router} : RemoveLiquidityV2(x, amount, to)
          \/ \E y \in Safes \cup {Outsider} : SendLp(x, y, amount)
          \/ SendLp(Outsider, x, amount)
    \/ \E n \in Nfts, amount \in 1..MaxLiquidity :
          \/ IncreaseNft(n, amount) \/ DecreaseNft(n, amount)
          \/ \E x \in Safes : MintNft(x, n, amount)
    \/ \E n \in Nfts : BurnNft(n) \/ \E to \in Safes \cup {Gauge, Outsider} : MoveNft(n, to)

Next ==
    \/ Chain
    \/ handleVeloV2Transfer \/ handleVeloV2Mint \/ handleVeloV2Burn
    \/ handleNFTTransfer \/ handleIncreaseLiquidity \/ handleDecreaseLiquidity \/ handleCollect
    \/ \E x \in Safes : Poll(x)

Spec == Init /\ [][Next]_vars

-----------------------------------------------------------------------------
(* Properties, of a block whose events are all handled. *)

Drained == closed /\ logs = <<>>

\* The row of a Safe's LP tokens is active as long as it has some, in its wallet or in the
\* gauge, and shows how many (refreshVeloV2Position).
LpMirrored ==
    \A x \in Safes :
        LET held == wallet[x] + staked[x]
            row == LoadOr(position, <<x, Pool>>, [NewPosition EXCEPT !.active = FALSE])
        IN  row.active = (held > 0) /\ row.liquidity = held

\* An NFT minted to a Safe has its row from then on; while it is active the NFT has
\* liquidity, which the row shows, and one that is closed with liquidity left was closed by
\* an earlier exit.  NFTs that were given away are nobody's.
NftsMirrored ==
    /\ \A n \in Nfts : Live(n) => mapping[n] = nft[n].home /\ <<nft[n].home, n>> \in DOMAIN position
    /\ \A key \in DOMAIN position :
          key[2] # Pool /\ nft[key[2]].owner # Outsider =>
              LET row == position[key]  liquidity == nft[key[2]].liquidity
              IN  /\ row.active => /\ Live(key[2]) /\ liquidity > 0
                                   /\ key[2] \notin Ungauged => row.liquidity = liquidity
                  /\ ~row.active => liquidity = 0 \/ row.exited

\* What was put into an NFT is its entry, and what was taken out last of an emptied one its
\* exit: whatever a collect or another event of the same block made of the row in between.
FlowsRecorded ==
    \A n \in Nfts :
        Live(n) => LET row == position[<<nft[n].home, n>>]
                   IN  /\ row.entry = put[n]
                       /\ nft[n].liquidity = 0 => row.exited /\ row.exit = taken[n]

\* The gain of a closed position is of its present entry and exit.
GainsCurrent ==
    \A key \in DOMAIN position :
        LET row == position[key]
            emptied == key[2] = Pool \/ (Live(key[2]) /\ nft[key[2]].liquidity = 0)
        IN  ~row.active /\ row.exited /\ row.entry > 0 /\ emptied =>
                row.netGain = row.exit - row.entry

PositionsMirrorChain == Drained => LpMirrored /\ NftsMirrored /\ FlowsRecorded /\ GainsCurrent

\* "Exit tracking (set when position closes)" (babydegen-base/schema.graphql:108): a position
\* that was entered and is closed has an exit.
ExitRecorded ==
    Drained => \A key \in DOMAIN position :
                  ~position[key].active /\ position[key].entry > 0 => position[key].exited
=============================================================================
