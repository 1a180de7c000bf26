-------------------------- MODULE TokenomicsEpochs --------------------------
(***************************************************************************)
(* The epochs of the tokenomics-eth subgraph.  An EpochSettled log closes  *)
(* the row of its epoch and opens the row of the next one in advance, so   *)
(* that bonds, products and claims, which carry no epoch number, can be    *)
(* booked by the block they happen in.  Staking claims are booked by an    *)
(* eth_call instead, and so is the bond capacity the next epoch starts     *)
(* with: both answer with the state at the end of the block.               *)
(*                                                                         *)
(* The contracts are external.  Block time is the block number; it is only *)
(* compared.  A total that is null before its first item is 0 here.        *)
(***************************************************************************)
EXTENDS Store, Sequences, FiniteSetsExt, Functions

CONSTANTS
    FirstBlock,      \* the block epoch 1 is hard-wired to start at
    FirstBond,       \* and the capacity it is hard-wired to have
    TopUpError,      \* what the top-up of epoch 2 is too high by
    Bonds,           \* capacities the contract can have
    Amounts,         \* amounts of an item
    Nominees,        \* staking contracts that claim
    ClaimAgain,      \* may a nominee claim twice in a block?
    MaxBlock,        \* bound: the last block
    MaxEpoch,        \* bound: the last epoch that is settled
    MaxItems         \* bound: bonds, products and claims of the whole run

ASSUME BlockAssumption == FirstBlock \in Nat
ASSUME EpochAssumption == MaxEpoch \in Nat
ASSUME AmountAssumption == /\ FirstBond \in Nat /\ TopUpError \in Nat
                           /\ Bonds \subseteq Nat /\ Amounts \subseteq Nat
ASSUME ClaimAssumption == ClaimAgain \in BOOLEAN
ASSUME NomineeAssumption == IsFiniteSet(Nominees)

Null == -1      \* a field that is not set; no block, time or epoch is negative

\* The totals that are booked by block number.
Totals == {"totalCreateProductsSupply", "devIncentivesTotalTopUp", "totalBondsClaimed"}

VARIABLES
    \* The chain (external).
    block, epochCounter,
    settledAt,       \* the block of the last settlement, or Null
    upgraded,        \* the Tokenomics implementation logs epoch numbers (V2)
    effectiveBond,   \* the contract's capacity now
    blockEndBond,    \* and at the end of this block: what an eth_call answers
    lastClaimed,     \* nominee -> mapLastClaimedStakingEpochs
    claimAnswer,     \* nominee -> what an eth_call for it answers in this block, or Null
    \* What happened, outside the store.
    happened,        \* total -> epoch -> amount of its items since the first settlement
    settled,         \* epoch -> staking incentives it was settled with
    claimed,         \* epoch -> staking incentives claimed for it
    items,
    \* The store.
    epoch, createBond,
    totalBondsClaimable   \* epoch -> that field of its row

chain == <<block, epochCounter, settledAt, upgraded, effectiveBond, blockEndBond,
           lastClaimed, claimAnswer>>
ghosts == <<happened, settled, claimed, items>>
store == <<epoch, createBond, totalBondsClaimable>>
vars == <<chain, ghosts, store>>

-----------------------------------------------------------------------------
(* Rows. *)

BlockOrNull == Nat \cup {Null}
EpochRow == [startBlock : BlockOrNull, endBlock : BlockOrNull, blockTimestamp : BlockOrNull,
             accountTopUps : Nat, availableDevIncentives : Int, effectiveBond : Nat,
             availableStakingIncentives : Int, totalStakingIncentives : Nat,
             maturedBonds : SUBSET Nat, total : [Totals -> Nat]]
BondRow == [epoch : BlockOrNull, blockNumber : Nat, maturity : Nat, amountOLAS : Nat]

NewEpoch == [startBlock |-> Null, endBlock |-> Null, blockTimestamp |-> Null,
             accountTopUps |-> 0, availableDevIncentives |-> 0, effectiveBond |-> 0,
             availableStakingIncentives |-> 0, totalStakingIncentives |-> 0,
             maturedBonds |-> {}, total |-> [t \in Totals |-> 0]]

-----------------------------------------------------------------------------
(* Which epoch a block belongs to. *)

Covers(row, b) == row.startBlock <= b /\ (row.endBlock = Null \/ b <= row.endBlock)

\* The rows the loop looks at: it stops at the first epoch that has none.
Found(b) == {i \in DOMAIN epoch : 1 .. i \subseteq DOMAIN epoch /\ Covers(epoch[i], b)}

\* The first epoch that covers the block, or Null.
findEpochId(b) ==
    IF Found(b) = {} THEN Null
    ELSE CHOOSE i \in Found(b) : \A j \in Found(b) : i <= j

-----------------------------------------------------------------------------
(* Settlement. *)

\* Seeded fault: only the bonds of the epoch that ends are looked at.
MaturedNow(n) ==
    IF n - 1 \notin DOMAIN epoch THEN {}
    ELSE {k \in DOMAIN createBond :
            createBond[k].epoch = n /\ createBond[k].maturity \in epoch[n-1].blockTimestamp .. block}

\* The bonds of all epochs so far that mature between the last settlement and
\* this one, both ends included.  Epoch 1 has no earlier settlement and gets none.
Matured(n) ==
    IF n - 1 \notin DOMAIN epoch THEN {}
    ELSE {k \in DOMAIN createBond :
            /\ createBond[k].epoch \in 1 .. n
            /\ createBond[k].maturity \in epoch[n-1].blockTimestamp .. block}

AmountOf(bonds) == SumFunction([k \in bonds |-> createBond[k].amountOLAS])

\* The row as it was opened by the settlement before, or the first one.
Opened(n) ==
    IF n = 1 THEN [LoadOr(epoch, n, NewEpoch) EXCEPT
                      !.startBlock = FirstBlock, !.effectiveBond = FirstBond,
                      !.availableDevIncentives = 0]
    ELSE LoadOr(epoch, n, NewEpoch)

SettledRow(n, topUps, staking) ==
    [Opened(n) EXCEPT !.endBlock = block, !.blockTimestamp = block, !.accountTopUps = topUps,
                      !.availableStakingIncentives = staking, !.maturedBonds = Matured(n)]

AdjustedTopUps(n, topUps) ==
    CASE n = 1 -> 0
      [] n = 2 -> topUps - TopUpError
      [] OTHER -> topUps

\* Seeded fault: the next epoch starts in the block that settles this one.
NextRowEarly(n, topUps) ==
    [NewEpoch EXCEPT !.startBlock = block, !.effectiveBond = blockEndBond,
                     !.availableDevIncentives = AdjustedTopUps(n, topUps)]

\* Seeded fault: the next epoch takes the capacity of the row before it.
NextRowStale(n, topUps) ==
    [NewEpoch EXCEPT !.startBlock = block + 1, !.effectiveBond = Opened(n).effectiveBond,
                     !.availableDevIncentives = AdjustedTopUps(n, topUps)]

NextRow(n, topUps) ==
    [NewEpoch EXCEPT !.startBlock = block + 1, !.effectiveBond = blockEndBond,
                     !.availableDevIncentives = AdjustedTopUps(n, topUps)]

\* Seeded fault: the epoch before is ended by this block as well.
SaveEndsPrevious(n, topUps, staking) ==
    /\ epoch' = [i \in DOMAIN epoch \cup {n, n + 1} |->
                    CASE i = n -> SettledRow(n, topUps, staking)
                      [] i = n + 1 -> NextRow(n, topUps)
                      [] i = n - 1 -> [epoch[i] EXCEPT !.endBlock = block]
                      [] OTHER -> epoch[i]]
    /\ totalBondsClaimable' = Put(totalBondsClaimable, n, AmountOf(Matured(n)))

handleEpochSave(n, topUps, staking) ==
    /\ epoch' = Put(Put(epoch, n + 1, NextRow(n, topUps)), n, SettledRow(n, topUps, staking))
    /\ totalBondsClaimable' = Put(totalBondsClaimable, n, AmountOf(Matured(n)))

\* The contract settles an epoch at most once a block and may change its
\* capacity with it.  Settlements of V1 carry no staking incentives.
handleEpochSettled(topUps, staking) ==
    /\ epochCounter <= MaxEpoch
    /\ settledAt < block /\ settledAt' = block
    /\ ~upgraded => staking = 0
    /\ handleEpochSave(epochCounter, topUps, staking)
    /\ epochCounter' = epochCounter + 1
    /\ effectiveBond' \in Bonds
    /\ settled' = Put(settled, epochCounter, staking)
    /\ UNCHANGED <<block, upgraded, blockEndBond, lastClaimed, claimAnswer, happened, claimed,
                   items, createBond>>

-----------------------------------------------------------------------------
(* The bond capacity of an epoch. *)

WithBond(e, bond) ==
    IF e \in DOMAIN epoch THEN [epoch EXCEPT ![e].effectiveBond = bond] ELSE epoch

\* V1 logs no epoch number: the row is found by the block.
handleEffectiveBondUpdated(bond) ==
    /\ ~upgraded
    /\ effectiveBond' = bond
    /\ epoch' = WithBond(findEpochId(block), bond)
    /\ UNCHANGED <<block, epochCounter, settledAt, upgraded, blockEndBond, lastClaimed, claimAnswer,
                   ghosts, createBond, totalBondsClaimable>>

handleEffectiveBondUpdatedV2(bond) ==
    /\ upgraded
    /\ effectiveBond' = bond
    /\ epoch' = WithBond(epochCounter, bond)
    /\ UNCHANGED <<block, epochCounter, settledAt, upgraded, blockEndBond, lastClaimed, claimAnswer,
                   ghosts, createBond, totalBondsClaimable>>

-----------------------------------------------------------------------------
(* Bonds, and the totals booked by block. *)

\* Depository V1 and V2: the bond matures later.
handleCreateBond(maturity, amount) ==
    /\ items < MaxItems /\ items' = items + 1
    /\ maturity > block
    /\ createBond' = Append(createBond, [epoch |-> findEpochId(block), blockNumber |-> block,
                                         maturity |-> maturity, amountOLAS |-> amount])
    /\ UNCHANGED <<chain, happened, settled, claimed, epoch, totalBondsClaimable>>

Booked(t, amount) ==
    IF findEpochId(block) = Null THEN epoch
    ELSE [epoch EXCEPT ![findEpochId(block)].total[t] = @ + amount]

\* The epoch of this block: the one settled in it, or else the running one.
EpochOfBlock == IF settledAt = block THEN epochCounter - 1 ELSE epochCounter

Item(t, amount) ==
    /\ items < MaxItems /\ items' = items + 1
    /\ epoch' = Booked(t, amount)
    /\ happened' = IF epochCounter = 1 THEN happened
                   ELSE [happened EXCEPT ![t][EpochOfBlock] = @ + amount]
    /\ UNCHANGED <<chain, settled, claimed, createBond, totalBondsClaimable>>

handleCreateProduct(supply) == Item("totalCreateProductsSupply", supply)
handleDevIncentiveSave(topUp) == Item("devIncentivesTotalTopUp", topUp)
\* An OLAS transfer out of one of the depositories.
handleTransfer(amount) == Item("totalBondsClaimed", amount)

-----------------------------------------------------------------------------
(* Staking incentives. *)

\* What the eth_call for a claim up to epoch `upTo` answers: no less than that,
\* and the same for every log of the nominee in this block.
ClaimAnswers(x, upTo) ==
    IF claimAnswer[x] # Null THEN {claimAnswer[x]} \cap {a \in Nat : a >= upTo}
    ELSE IF ClaimAgain THEN upTo .. MaxEpoch + 1 ELSE {upTo}

\* Seeded fault: the claim goes to the epoch the contract will claim next.
EpochOfClaimNext(answer) == answer

EpochOfClaim(answer) == answer - 1

Updated(f, g) == [x \in DOMAIN f |-> IF x \in DOMAIN g THEN g[x] ELSE f[x]]

\* One claim of every nominee in `upTo`, booked to the epoch before the answer.
StakingBooked(answer, amount) ==
    [e \in DOMAIN epoch |->
        LET sum == amount * Cardinality({x \in DOMAIN answer : EpochOfClaim(answer[x]) = e}) IN
        [epoch[e] EXCEPT !.totalStakingIncentives = @ + sum, !.availableStakingIncentives = @ - sum]]

\* A batch claims for several nominees, StakingIncentivesClaimed for one.
handleStakingIncentivesClaimed(upTo, answer, amount) ==
    /\ upgraded
    /\ items + Cardinality(DOMAIN upTo) <= MaxItems /\ items' = items + Cardinality(DOMAIN upTo)
    /\ \A x \in DOMAIN upTo : /\ lastClaimed[x] < upTo[x] /\ upTo[x] <= epochCounter
                              /\ ~ClaimAgain => claimAnswer[x] = Null
                              /\ answer[x] \in ClaimAnswers(x, upTo[x])
    /\ lastClaimed' = Updated(lastClaimed, upTo)
    /\ claimAnswer' = Updated(claimAnswer, answer)
    /\ claimed' = [e \in DOMAIN claimed |->
                      claimed[e] + amount * Cardinality({x \in DOMAIN upTo : upTo[x] - 1 = e})]
    /\ epoch' = StakingBooked(answer, amount)
    /\ UNCHANGED <<block, epochCounter, settledAt, upgraded, effectiveBond, blockEndBond,
                   happened, settled, createBond, totalBondsClaimable>>

-----------------------------------------------------------------------------
(* The chain. *)

\* A block ends in the state that the eth_calls of its logs were answered with.
NextBlock ==
    /\ block < MaxBlock
    /\ effectiveBond = blockEndBond
    /\ \A x \in Nominees : claimAnswer[x] \in {Null, lastClaimed[x]}
    /\ block' = block + 1
    /\ blockEndBond' \in Bonds
    /\ claimAnswer' = [x \in Nominees |-> Null]
    /\ UNCHANGED <<epochCounter, settledAt, upgraded, effectiveBond, lastClaimed, ghosts, store>>

Upgrade ==
    /\ ~upgraded /\ upgraded' = TRUE
    /\ UNCHANGED <<block, epochCounter, settledAt, effectiveBond, blockEndBond, lastClaimed, claimAnswer,
                   ghosts, store>>

Init ==
    /\ block = FirstBlock /\ epochCounter = 1 /\ settledAt = Null /\ upgraded = FALSE
    /\ effectiveBond \in Bonds /\ blockEndBond \in Bonds
    /\ lastClaimed = [x \in Nominees |-> 1]
    /\ claimAnswer = [x \in Nominees |-> Null]
    /\ happened = [t \in Totals |-> [e \in 1 .. MaxEpoch + 1 |-> 0]]
    /\ settled = NoRows
    /\ claimed = [e \in 1 .. MaxEpoch + 1 |-> 0]
    /\ items = 0
    /\ epoch = NoRows /\ createBond = <<>> /\ totalBondsClaimable = NoRows

Next ==
    \/ \E topUps \in Amounts, staking \in Amounts \cup {0} : handleEpochSettled(topUps, staking)
    \/ \E bond \in Bonds : \/ handleEffectiveBondUpdated(bond)
                           \/ handleEffectiveBondUpdatedV2(bond)
    \/ \E maturity \in FirstBlock .. MaxBlock, a \in Amounts : handleCreateBond(maturity, a)
    \/ \E a \in Amounts : \/ handleCreateProduct(a)
                          \/ handleDevIncentiveSave(a)
                          \/ handleTransfer(a)
    \/ \E batch \in SUBSET Nominees \ {{}}, a \in Amounts :
          \E upTo, answer \in [batch -> 1 .. MaxEpoch + 1] :
              handleStakingIncentivesClaimed(upTo, answer, a)
    \/ NextBlock
    \/ Upgrade

Spec == Init /\ [][Next]_vars

-----------------------------------------------------------------------------
(* Properties. *)

TypeOK ==
    /\ block \in Nat /\ FirstBlock <= block
    /\ epochCounter \in 1 .. MaxEpoch + 1
    /\ settledAt \in BlockOrNull
    /\ upgraded \in BOOLEAN
    /\ effectiveBond \in Nat /\ blockEndBond \in Nat
    /\ happened \in [Totals -> [1 .. MaxEpoch + 1 -> Nat]]
    /\ PartialFn(epoch, Nat \ {0}, EpochRow)
    /\ createBond \in Seq(BondRow)

\* The rows are those of the epochs so far, in order, without a gap or an
\* overlap, and the last one is open.
Calendar ==
    /\ DOMAIN epoch = IF epochCounter = 1 THEN {} ELSE 1 .. epochCounter
    /\ epochCounter = 1 <=> settledAt = Null
    /\ settledAt <= block
    /\ \A i \in DOMAIN epoch :
        /\ i < epochCounter =>
              /\ epoch[i].endBlock \in Nat /\ epoch[i].startBlock \in Nat
              /\ epoch[i].startBlock <= epoch[i].endBlock /\ epoch[i].endBlock <= settledAt
              /\ epoch[i].blockTimestamp = epoch[i].endBlock
        /\ i = epochCounter => epoch[i].startBlock = settledAt + 1 /\ epoch[i].endBlock = Null
        /\ i = epochCounter - 1 => epoch[i].endBlock = settledAt
        /\ \A j \in DOMAIN epoch : i < j => epoch[i].endBlock < epoch[j].startBlock

\* Since the first settlement, no block falls between two epochs.
NoGap ==
    epochCounter > 1 =>
        \A b \in FirstBlock .. block : \E i \in DOMAIN epoch : Covers(epoch[i], b)

\* A bond belongs to the epoch that contains the block it was created in, or,
\* before the first settlement, to none (depository.ts 90-93).
BondsInTheirEpoch ==
    \A k \in DOMAIN createBond :
        createBond[k].epoch # Null =>
            /\ createBond[k].epoch \in DOMAIN epoch
            /\ Covers(epoch[createBond[k].epoch], createBond[k].blockNumber)
            /\ createBond[k].blockNumber <= block

\* Product supply, developer top-ups and bond claims that carry no epoch number
\* are counted in the epoch they happened in, also in the block that settles
\* it, and nowhere else (findEpochId and its callers).
TotalsExact ==
    \A t \in Totals, e \in 1 .. MaxEpoch + 1 :
        happened[t][e] = IF e \in DOMAIN epoch THEN epoch[e].total[t] ELSE 0

\* The inductive invariant (types, the calendar of epochs, what is booked to them).
IInv == TypeOK /\ Calendar /\ NoGap /\ BondsInTheirEpoch /\ TotalsExact

\* Since the first settlement every block belongs to exactly one epoch
\* (mappings.ts 37, 97-101).
EveryBlockInOneEpoch ==
    epochCounter > 1 =>
        \A b \in FirstBlock .. block :
            \E i \in DOMAIN epoch : \A j \in DOMAIN epoch : Covers(epoch[j], b) <=> j = i

\* What a settled epoch has for staking is what was claimed and what is left,
\* and what was claimed is booked to the epoch it was claimed for
\* (dispenser.ts 255-294).
StakingSplit ==
    \A e \in DOMAIN settled :
        /\ epoch[e].totalStakingIncentives = claimed[e]
        /\ epoch[e].availableStakingIncentives = settled[e] - claimed[e]

\* A bond of some epoch is matured in one epoch from the settlement that passes
\* its maturity on, and in two only when it matures in the very block of the
\* first of them; what an epoch says is claimable is what its bonds are worth
\* (mappings.ts 53-92).
BondsMatureOnce ==
    /\ \A k \in DOMAIN createBond :
        createBond[k].epoch # Null =>
            LET in == {i \in DOMAIN epoch : k \in epoch[i].maturedBonds} IN
            /\ in = {} <=> createBond[k].maturity > settledAt
            /\ \A i, j \in in : i < j => j = i + 1 /\ createBond[k].maturity = epoch[i].endBlock
    /\ \A e \in DOMAIN totalBondsClaimable :
        totalBondsClaimable[e] = AmountOf(epoch[e].maturedBonds)

\* Once the block's last log is handled, the running epoch has the capacity the
\* contract has, whether the log named the epoch or not ("the epoch will
\* eventually record the value of the last event", tokenomics.ts 138-139).
CapacityOfLastEvent ==
    epochCounter > 1 /\ effectiveBond = blockEndBond =>
        epoch[epochCounter].effectiveBond = effectiveBond

\* A settled epoch keeps its bounds, its matured bonds and its top-ups.
SettledEpochsKept ==
    [][\A i \in DOMAIN epoch :
          epoch[i].endBlock # Null =>
              /\ i \in DOMAIN epoch'
              /\ epoch'[i].startBlock = epoch[i].startBlock
              /\ epoch'[i].endBlock = epoch[i].endBlock
              /\ epoch'[i].maturedBonds = epoch[i].maturedBonds
              /\ epoch'[i].accountTopUps = epoch[i].accountTopUps
              /\ epoch'[i].availableDevIncentives = epoch[i].availableDevIncentives]_vars
=============================================================================
