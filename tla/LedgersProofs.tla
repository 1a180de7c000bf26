---------------------------- MODULE LedgersProofs ----------------------------
(***************************************************************************)
(* Proofs about the ledgers of one kind or another.                        *)
(*                                                                         *)
(* The epochs of tokenomics-eth, for any number of epochs, blocks, bonds   *)
(* and items: the rows partition the blocks, and what carries no epoch     *)
(* number is counted in the epoch of its block.                            *)
(*                                                                         *)
(* Then, each with constants and variables of its own, ledgers MCLedgers   *)
(* checks on small instances: the holders of OLAS and the locks of veOLAS, *)
(* on Ethereum and on an L2; the pools of liquidity and of liquidity-l2,   *)
(* for any treasury, amounts, prices and fees; the governor's proposals,   *)
(* for any number of proposals and voters, any weights and any quorums;    *)
(* the positions of babydegen on Base, for any Safes, NFTs, amounts and    *)
(* length of a transaction: their rows mirror what the chain holds.        *)
(***************************************************************************)
EXTENDS TokenomicsEpochs, StoreTheorems, FiniteSetTheorems, SequenceTheorems

\* Every row is a record of the row type.
LEMMA RowTyped == ASSUME TypeOK, NEW i \in DOMAIN epoch PROVE epoch[i] \in EpochRow
BY DEF TypeOK, PartialFn

LEMMA BondTyped == ASSUME TypeOK, NEW k \in DOMAIN createBond PROVE createBond[k] \in BondRow
BY DEF TypeOK

\* The epoch of the present block is a row once an epoch was settled, and it
\* is the only row that covers the block.
LEMMA CurrentRow ==
    ASSUME TypeOK, Calendar, epochCounter > 1
    PROVE  /\ EpochOfBlock \in DOMAIN epoch /\ EpochOfBlock \in 1 .. MaxEpoch + 1
           /\ \A j \in DOMAIN epoch : Covers(epoch[j], block) <=> j = EpochOfBlock
<1>. DEFINE e == EpochOfBlock
<1>1. /\ epochCounter \in Nat /\ block \in Nat /\ settledAt \in Nat /\ settledAt <= block
      /\ DOMAIN epoch = 1 .. epochCounter
  BY EpochAssumption DEF TypeOK, Calendar, BlockOrNull, Null
<1>2. e \in DOMAIN epoch /\ e \in 1 .. MaxEpoch + 1
  BY <1>1, EpochAssumption DEF EpochOfBlock, TypeOK
<1>3. Covers(epoch[e], block)
  <2>1. CASE settledAt = block BY <2>1, <1>1, <1>2 DEF EpochOfBlock, Calendar, Covers
  <2>2. CASE settledAt # block BY <2>2, <1>2, <1>1 DEF EpochOfBlock, Calendar, Covers
  <2>. QED  BY <2>1, <2>2
<1>4. ASSUME NEW j \in DOMAIN epoch, j # e PROVE ~Covers(epoch[j], block)
  <2>1. CASE j < e
    <3>1. j < epochCounter
      BY <2>1, <1>1, <1>2
    <3>2. epoch[j].endBlock \in Nat /\ epoch[j].endBlock < epoch[e].startBlock
      BY <2>1, <3>1, <1>2 DEF Calendar
    <3>3. epoch[e].startBlock <= block /\ epoch[e].startBlock \in BlockOrNull
      BY <1>2, <1>3, RowTyped DEF Covers, EpochRow
    <3>. QED  BY <3>2, <3>3, <1>1 DEF Covers, BlockOrNull, Null
  <2>2. CASE e < j BY <2>2, <1>1, <1>2 DEF EpochOfBlock, Calendar, Covers
  <2>. QED  BY <2>1, <2>2, <1>1, <1>2, <1>4
<1>. QED  BY <1>2, <1>3, <1>4

\* findEpochId answers with the epoch of the present block, or with nothing
\* before the first settlement.
LEMMA FoundCurrent ==
    ASSUME TypeOK, Calendar
    PROVE  findEpochId(block) = IF epochCounter = 1 THEN Null ELSE EpochOfBlock
<1>1. epochCounter \in Nat /\ 1 <= epochCounter
  BY EpochAssumption DEF TypeOK
<1>2. CASE epochCounter = 1 BY <1>2 DEF Found, Calendar, findEpochId
<1>3. CASE epochCounter # 1 BY <1>1, <1>3, CurrentRow DEF Calendar, Found, findEpochId
<1>. QED  BY <1>2, <1>3

-----------------------------------------------------------------------------
(* Steps that leave the calendar alone. *)

\* The rows keep their bounds, and no epoch ends.
SameCalendar ==
    /\ UNCHANGED <<block, epochCounter, settledAt>>
    /\ DOMAIN epoch' = DOMAIN epoch
    /\ \A i \in DOMAIN epoch : /\ epoch'[i].startBlock = epoch[i].startBlock
                               /\ epoch'[i].endBlock = epoch[i].endBlock
                               /\ epoch'[i].blockTimestamp = epoch[i].blockTimestamp

LEMMA CalendarKept == ASSUME Calendar, NoGap, SameCalendar PROVE Calendar' /\ NoGap'
BY DEF Calendar, SameCalendar, NoGap, Covers

LEMMA BondsKept ==
    ASSUME TypeOK, BondsInTheirEpoch, SameCalendar, UNCHANGED createBond
    PROVE  BondsInTheirEpoch'
BY DEF BondsInTheirEpoch, SameCalendar, Covers

\* Rows replaced by rows of the type.
LEMMA RowsKept ==
    ASSUME TypeOK, DOMAIN epoch' = DOMAIN epoch, epoch' = [i \in DOMAIN epoch' |-> epoch'[i]],
           \A i \in DOMAIN epoch : epoch'[i] \in EpochRow
    PROVE  PartialFn(epoch', Nat \ {0}, EpochRow)
BY DEF TypeOK, PartialFn

-----------------------------------------------------------------------------
(* The inductive invariant. *)

LEMMA NoBonds == <<>> \in Seq(BondRow)
OBVIOUS

LEMMA InitIInv == Init => IInv
<1>. SUFFICES ASSUME Init PROVE IInv
  OBVIOUS
<1>. USE DEF Init, NoRows
<1>1. TypeOK
  <2>1. PartialFn(epoch, Nat \ {0}, EpochRow)
    BY NoRowsPartialFn
  <2>2. happened \in [Totals -> [1 .. MaxEpoch + 1 -> Nat]] /\ 1 \in 1 .. MaxEpoch + 1
    BY EpochAssumption
  <2>3. createBond \in Seq(BondRow)
    BY NoBonds
  <2>4. effectiveBond \in Nat /\ blockEndBond \in Nat
    BY AmountAssumption
  <2>5. block \in Nat /\ FirstBlock <= block
    BY BlockAssumption
  <2>6. settledAt \in BlockOrNull
    BY DEF BlockOrNull
  <2>7. upgraded \in BOOLEAN
    BY Zenon
  <2>. QED  BY <2>1, <2>2, <2>3, <2>4, <2>5, <2>6, <2>7 DEF TypeOK
<1>2. Calendar
  BY BlockAssumption DEF Calendar, Null
<1>3. NoGap /\ BondsInTheirEpoch /\ TotalsExact
  BY DEF NoGap, BondsInTheirEpoch, TotalsExact
<1>. QED  BY <1>1, <1>2, <1>3 DEF IInv

\* The row an epoch is settled from is the open one.
LEMMA OpenedRow ==
    ASSUME TypeOK, Calendar
    PROVE  /\ Opened(epochCounter) \in EpochRow
           /\ Opened(epochCounter).startBlock \in Nat
           /\ Opened(epochCounter).startBlock =
                 IF epochCounter = 1 THEN FirstBlock ELSE settledAt + 1
           /\ Opened(epochCounter).total =
                 IF epochCounter = 1 THEN [t \in Totals |-> 0] ELSE epoch[epochCounter].total
<1>1. NewEpoch \in EpochRow
  BY DEF NewEpoch, EpochRow, BlockOrNull, Null
<1>2. CASE epochCounter = 1
  BY <1>2, <1>1, BlockAssumption, AmountAssumption DEF Calendar, Opened, LoadOr, NewEpoch,
      EpochRow, BlockOrNull
<1>3. CASE epochCounter # 1
  BY <1>3, EpochAssumption, RowTyped DEF Calendar, TypeOK, BlockOrNull, Opened, LoadOr
<1>. QED  BY <1>2, <1>3

\* What a settlement makes of the rows.
LEMMA SettledRows ==
    ASSUME IInv, NEW topUps \in Amounts, NEW staking \in Amounts \cup {0},
           handleEpochSettled(topUps, staking)
    PROVE  LET n == epochCounter IN
           /\ n \in Nat /\ 1 <= n /\ n <= MaxEpoch /\ epochCounter' = n + 1
           /\ settledAt' = block /\ settledAt < block /\ block' = block
           /\ DOMAIN epoch' = 1 .. n + 1
           /\ \A i \in 1 .. n - 1 : i \in DOMAIN epoch /\ epoch'[i] = epoch[i]
           /\ epoch'[n] \in EpochRow
           /\ epoch'[n].startBlock = Opened(n).startBlock
           /\ epoch'[n].endBlock = block /\ epoch'[n].blockTimestamp = block
           /\ epoch'[n].total = Opened(n).total
           /\ epoch'[n].availableStakingIncentives = staking
           /\ epoch'[n].totalStakingIncentives = Opened(n).totalStakingIncentives
           /\ epoch'[n+1] \in EpochRow
           /\ epoch'[n+1].startBlock = block + 1 /\ epoch'[n+1].endBlock = Null
           /\ epoch'[n+1].total = [t \in Totals |-> 0]
           /\ epoch'[n+1].availableStakingIncentives = 0
           /\ epoch'[n+1].totalStakingIncentives = 0
<1>. DEFINE n == epochCounter
            settledRow == SettledRow(n, topUps, staking)
            next == NextRow(n, topUps)
<1>. USE DEF IInv
<1>1. /\ n \in Nat /\ 1 <= n /\ n <= MaxEpoch /\ epochCounter' = n + 1
      /\ settledAt' = block /\ settledAt < block /\ block' = block /\ block \in Nat
      /\ epoch' = Put(Put(epoch, n + 1, next), n, settledRow)
  BY EpochAssumption DEF handleEpochSettled, handleEpochSave, TypeOK
<1>2. topUps \in Nat /\ staking \in Nat /\ blockEndBond \in Nat /\ TopUpError \in Nat
  BY AmountAssumption DEF TypeOK
<1>3. DOMAIN epoch = IF n = 1 THEN {} ELSE 1 .. n
  BY DEF Calendar
<1>4. settledRow \in EpochRow /\ settledRow.startBlock = Opened(n).startBlock
      /\ settledRow.endBlock = block /\ settledRow.blockTimestamp = block
      /\ settledRow.total = Opened(n).total
      /\ settledRow.availableStakingIncentives = staking
      /\ settledRow.totalStakingIncentives = Opened(n).totalStakingIncentives
  <2>1. Opened(n) \in EpochRow
    BY OpenedRow
  <2>2. Matured(n) \in SUBSET Nat
    BY DEF Matured, TypeOK
  <2>. HIDE DEF n
  <2>3. ASSUME NEW row \in EpochRow, NEW matured \in SUBSET Nat
        PROVE  LET r == [row EXCEPT !.endBlock = block, !.blockTimestamp = block,
                                    !.accountTopUps = topUps,
                                    !.availableStakingIncentives = staking,
                                    !.maturedBonds = matured] IN
               /\ r \in EpochRow /\ r.startBlock = row.startBlock
               /\ r.endBlock = block /\ r.blockTimestamp = block
               /\ r.total = row.total /\ r.availableStakingIncentives = staking
               /\ r.totalStakingIncentives = row.totalStakingIncentives
    <3>1. block \in BlockOrNull /\ staking \in Int
      BY <1>1, <1>2 DEF BlockOrNull
    <3>. DEFINE ended == [row EXCEPT !.endBlock = block, !.blockTimestamp = block]
    <3>2. ended \in EpochRow
      BY <3>1 DEF EpochRow
    <3>3. ASSUME NEW q \in EpochRow
          PROVE  [q EXCEPT !.accountTopUps = topUps, !.availableStakingIncentives = staking,
                           !.maturedBonds = matured] \in EpochRow
      BY <3>1, <1>2 DEF EpochRow
    <3>4. [row EXCEPT !.endBlock = block, !.blockTimestamp = block, !.accountTopUps = topUps,
                      !.availableStakingIncentives = staking, !.maturedBonds = matured]
            = [ended EXCEPT !.accountTopUps = topUps, !.availableStakingIncentives = staking,
                            !.maturedBonds = matured]
      OBVIOUS
    <3>5. LET r == [row EXCEPT !.endBlock = block, !.blockTimestamp = block,
                               !.accountTopUps = topUps,
                               !.availableStakingIncentives = staking,
                               !.maturedBonds = matured] IN
          /\ r.startBlock = row.startBlock /\ r.endBlock = block /\ r.blockTimestamp = block
          /\ r.total = row.total /\ r.availableStakingIncentives = staking
          /\ r.totalStakingIncentives = row.totalStakingIncentives
      BY DEF EpochRow
    <3>. QED  BY <3>2, <3>3, <3>4, <3>5
  <2>. QED  BY <2>1, <2>2, <2>3 DEF SettledRow
<1>5. next \in EpochRow /\ next.startBlock = block + 1 /\ next.endBlock = Null
      /\ next.total = [t \in Totals |-> 0]
      /\ next.availableStakingIncentives = 0 /\ next.totalStakingIncentives = 0
  <2>1. AdjustedTopUps(n, topUps) \in Int
    BY <1>1, <1>2 DEF AdjustedTopUps
  <2>2. block + 1 \in BlockOrNull /\ Null \in BlockOrNull /\ 0 \in Nat /\ 0 \in Int
        /\ {} \in SUBSET Nat /\ [t \in Totals |-> 0] \in [Totals -> Nat]
    BY <1>1 DEF BlockOrNull
  <2>. DEFINE start0 == block + 1
              dev0 == AdjustedTopUps(n, topUps)
  <2>3. next = [NewEpoch EXCEPT !.startBlock = start0, !.effectiveBond = blockEndBond,
                                !.availableDevIncentives = dev0]
    BY DEF NextRow
  <2>4. start0 \in BlockOrNull /\ dev0 \in Int /\ start0 = block + 1
    BY <2>1, <2>2
  <2>5. NewEpoch \in EpochRow
    BY <2>2 DEF NewEpoch, EpochRow
  <2>. HIDE DEF n, next, start0, dev0
  <2>6. next \in EpochRow
    <3>1. ASSUME NEW row \in EpochRow
          PROVE  [row EXCEPT !.startBlock = start0, !.effectiveBond = blockEndBond,
                             !.availableDevIncentives = dev0] \in EpochRow
      BY <1>2, <2>4 DEF EpochRow
    <3>. QED  BY <2>3, <2>5, <3>1
  <2>7. /\ next.startBlock = start0 /\ next.endBlock = Null /\ next.total = [t \in Totals |-> 0]
        /\ next.availableStakingIncentives = 0 /\ next.totalStakingIncentives = 0
    BY <2>3 DEF NewEpoch
  <2>. QED  BY <2>4, <2>6, <2>7
<1>. HIDE DEF settledRow, next
<1>6. DOMAIN epoch' = 1 .. n + 1
  BY <1>1, <1>3 DEF Put
<1>7. epoch'[n] = settledRow /\ epoch'[n+1] = next
  BY <1>1 DEF Put
<1>8. \A i \in 1 .. n - 1 : i \in DOMAIN epoch /\ epoch'[i] = epoch[i]
  BY <1>1, <1>3 DEF Put
<1>. QED  BY <1>1, <1>4, <1>5, <1>6, <1>7, <1>8

LEMMA SettledStep ==
    ASSUME IInv, NEW topUps \in Amounts, NEW staking \in Amounts \cup {0},
           handleEpochSettled(topUps, staking)
    PROVE  IInv'
<1>. DEFINE n == epochCounter
<1>. USE DEF IInv
<1>1. /\ n \in Nat /\ 1 <= n /\ n <= MaxEpoch /\ epochCounter' = n + 1
      /\ settledAt' = block /\ settledAt < block /\ block' = block
      /\ DOMAIN epoch' = 1 .. n + 1
      /\ \A i \in 1 .. n - 1 : i \in DOMAIN epoch /\ epoch'[i] = epoch[i]
      /\ epoch'[n] \in EpochRow /\ epoch'[n+1] \in EpochRow
      /\ epoch'[n].startBlock = Opened(n).startBlock
      /\ epoch'[n].endBlock = block /\ epoch'[n].blockTimestamp = block
      /\ epoch'[n+1].startBlock = block + 1 /\ epoch'[n+1].endBlock = Null
  BY SettledRows
<1>2. /\ epoch'[n].total = Opened(n).total /\ epoch'[n+1].total = [t \in Totals |-> 0]
  BY SettledRows
<1>3. UNCHANGED <<upgraded, blockEndBond, happened, createBond>> /\ effectiveBond' \in Bonds
  BY DEF handleEpochSettled
<1>4. block \in Nat /\ FirstBlock <= block /\ FirstBlock \in Nat
      /\ DOMAIN epoch = IF n = 1 THEN {} ELSE 1 .. n
  BY BlockAssumption DEF TypeOK, Calendar
<1>5. /\ Opened(n).startBlock = IF n = 1 THEN FirstBlock ELSE settledAt + 1
      /\ Opened(n).startBlock \in Nat /\ Opened(n).startBlock <= block
      /\ Opened(n).total = IF n = 1 THEN [t \in Totals |-> 0] ELSE epoch[n].total
  BY <1>1, <1>4, OpenedRow DEF TypeOK, BlockOrNull, Null
<1>. HIDE DEF n
<1>6. TypeOK'
  <2>1. PartialFn(epoch', Nat \ {0}, EpochRow)
    <3>1. epoch' = [i \in DOMAIN epoch' |-> epoch'[i]]
      BY DEF handleEpochSettled, handleEpochSave, Put
    <3>2. \A i \in DOMAIN epoch' : epoch'[i] \in EpochRow BY <1>1, RowTyped
    <3>. QED  BY <3>1, <3>2, <1>1 DEF PartialFn
  <2>2. epochCounter' \in 1 .. MaxEpoch + 1
    BY <1>1, EpochAssumption
  <2>. QED  BY <2>1, <2>2, <1>1, <1>3, <1>4, AmountAssumption DEF TypeOK, BlockOrNull
<1>7. \A i \in 1 .. n - 1 : /\ epoch[i].endBlock \in Nat /\ epoch[i].startBlock \in Nat
                            /\ epoch[i].startBlock <= epoch[i].endBlock
                            /\ epoch[i].endBlock <= settledAt
                            /\ epoch[i].blockTimestamp = epoch[i].endBlock
                            /\ i \in DOMAIN epoch
                            /\ \A j \in DOMAIN epoch : i < j => epoch[i].endBlock < epoch[j].startBlock
  BY <1>1 DEF n, Calendar
<1>8. Calendar'
  <2>1. epochCounter' # 1 /\ settledAt' # Null /\ settledAt' <= block'
    BY <1>1, <1>4 DEF Null
  <2>2. ASSUME NEW i \in DOMAIN epoch', i < epochCounter'
        PROVE  /\ epoch'[i].endBlock \in Nat /\ epoch'[i].startBlock \in Nat
               /\ epoch'[i].startBlock <= epoch'[i].endBlock /\ epoch'[i].endBlock <= settledAt'
               /\ epoch'[i].blockTimestamp = epoch'[i].endBlock
    <3>1. CASE i = n
      BY <3>1, <1>1, <1>4, <1>5
    <3>2. CASE i # n BY <3>2, <2>2, <1>1, <1>4, <1>7 DEF TypeOK, BlockOrNull, Null
    <3>. QED  BY <3>1, <3>2
  <2>3. ASSUME NEW i \in DOMAIN epoch', NEW j \in DOMAIN epoch', i < j
        PROVE  epoch'[i].endBlock < epoch'[j].startBlock
    <3>1. i < epochCounter' /\ epoch'[i].endBlock \in Nat /\ epoch'[i].endBlock <= block
      BY <2>2, <2>3, <1>1
    <3>2. CASE j = n + 1
      BY <3>1, <3>2, <1>1, <1>4
    <3>3. CASE j = n BY <2>3, <3>3, <1>1, <1>5, <1>7 DEF TypeOK, BlockOrNull, Null
    <3>4. CASE j \in 1 .. n - 1 BY <2>3, <3>4, <1>1, <1>7
    <3>. QED  BY <3>2, <3>3, <3>4, <1>1
  <2>4. ASSUME NEW i \in DOMAIN epoch'
        PROVE  /\ i = epochCounter' => epoch'[i].startBlock = settledAt' + 1 /\ epoch'[i].endBlock = Null
               /\ i = epochCounter' - 1 => epoch'[i].endBlock = settledAt'
    BY <1>1
  <2>. QED  BY <2>1, <2>2, <2>3, <2>4, <1>1 DEF Calendar
<1>9. NoGap'
  <2>. SUFFICES ASSUME NEW b \in FirstBlock .. block
                PROVE  \E i \in DOMAIN epoch' : Covers(epoch'[i], b)
    BY <1>1 DEF NoGap
  <2>1. b \in Nat /\ b <= block /\ n \in DOMAIN epoch'
    BY <1>1, <1>4
  <2>2. CASE Opened(n).startBlock <= b
    BY <2>1, <2>2, <1>1, <1>4 DEF Covers, Null
  <2>3. CASE b < Opened(n).startBlock
    <3>1. n # 1 /\ b <= settledAt /\ settledAt \in BlockOrNull
      BY <2>1, <2>3, <1>4, <1>5 DEF TypeOK, BlockOrNull, Null
    <3>2. epochCounter > 1
      BY <3>1, <1>1 DEF n
    <3>3. PICK i \in DOMAIN epoch : Covers(epoch[i], b)
      BY <3>2 DEF NoGap
    <3>4. i # n BY <3>1, <3>3, <2>1 DEF n, Calendar, Covers, BlockOrNull, Null
    <3>5. i \in 1 .. n - 1
      BY <3>1, <3>4, <1>1, <1>4
    <3>. QED  BY <3>3, <3>5, <1>1
  <2>. QED  BY <2>1, <2>2, <2>3, <1>5, <1>4
<1>10. BondsInTheirEpoch'
  <2>. SUFFICES ASSUME NEW k \in DOMAIN createBond, createBond[k].epoch # Null
                PROVE  /\ createBond[k].epoch \in DOMAIN epoch'
                       /\ Covers(epoch'[createBond[k].epoch], createBond[k].blockNumber)
                       /\ createBond[k].blockNumber <= block
    BY <1>1, <1>3 DEF BondsInTheirEpoch
  <2>. DEFINE e == createBond[k].epoch
              b == createBond[k].blockNumber
  <2>1. e \in DOMAIN epoch /\ Covers(epoch[e], b) /\ b <= block /\ b \in Nat
    BY BondTyped DEF BondsInTheirEpoch, BondRow
  <2>2. n # 1 /\ e \in 1 .. n
    BY <2>1, <1>4
  <2>3. CASE e = n BY <2>1, <2>3, <2>2, <1>1, <1>4, <1>5 DEF n, Calendar, Covers
  <2>4. CASE e # n BY <2>2, <2>4, <1>1, <2>1
  <2>. QED  BY <2>3, <2>4
<1>11. TotalsExact'
  <2>. SUFFICES ASSUME NEW t \in Totals, NEW e \in 1 .. MaxEpoch + 1
                PROVE  happened[t][e] = IF e \in DOMAIN epoch' THEN epoch'[e].total[t] ELSE 0
    BY <1>3 DEF TotalsExact
  <2>1. happened[t][e] = IF e \in DOMAIN epoch THEN epoch[e].total[t] ELSE 0
    BY DEF TotalsExact
  <2>2. CASE e \in 1 .. n - 1
    BY <2>1, <2>2, <1>1
  <2>3. CASE e = n
    BY <2>1, <2>3, <1>1, <1>2, <1>4, <1>5
  <2>4. CASE e = n + 1
    BY <2>1, <2>4, <1>1, <1>2, <1>4
  <2>5. CASE e > n + 1
    BY <2>1, <2>5, <1>1, <1>4
  <2>. QED  BY <2>2, <2>3, <2>4, <2>5, <1>1
<1>. QED  BY <1>6, <1>8, <1>9, <1>10, <1>11

\* A capacity log changes one field of at most one row.
LEMMA BondSet ==
    ASSUME IInv, NEW e, NEW bond \in Bonds, effectiveBond' = bond, epoch' = WithBond(e, bond),
           UNCHANGED <<block, epochCounter, settledAt, upgraded, blockEndBond, happened, createBond>>
    PROVE  IInv'
<1>. USE DEF IInv
<1>1. bond \in Nat
  BY AmountAssumption
<1>2. /\ DOMAIN epoch' = DOMAIN epoch /\ epoch' = [i \in DOMAIN epoch' |-> epoch'[i]]
      /\ \A i \in DOMAIN epoch : \/ epoch'[i] = epoch[i]
                                 \/ epoch'[i] = [epoch[i] EXCEPT !.effectiveBond = bond]
  BY DEF WithBond, TypeOK, PartialFn
<1>3. ASSUME NEW i \in DOMAIN epoch
      PROVE  /\ epoch'[i] \in EpochRow /\ epoch'[i].startBlock = epoch[i].startBlock
             /\ epoch'[i].endBlock = epoch[i].endBlock
             /\ epoch'[i].blockTimestamp = epoch[i].blockTimestamp
             /\ epoch'[i].total = epoch[i].total
  <2>1. ASSUME NEW row \in EpochRow
        PROVE  LET r == [row EXCEPT !.effectiveBond = bond] IN
               /\ r \in EpochRow /\ r.startBlock = row.startBlock /\ r.endBlock = row.endBlock
               /\ r.blockTimestamp = row.blockTimestamp /\ r.total = row.total
    BY <1>1 DEF EpochRow
  <2>2. epoch[i] \in EpochRow
    BY RowTyped
  <2>. QED  BY <1>2, <2>1, <2>2
<1>4. SameCalendar
  BY <1>2, <1>3 DEF SameCalendar
<1>5. TypeOK' BY <1>2, <1>3, RowsKept, <1>1 DEF TypeOK
<1>6. Calendar' /\ NoGap' /\ BondsInTheirEpoch'
  BY <1>4, CalendarKept, BondsKept
<1>7. TotalsExact'
  BY <1>2, <1>3 DEF TotalsExact
<1>. QED  BY <1>5, <1>6, <1>7

\* A bond is created under the epoch of its block.
LEMMA CreateBondStep ==
    ASSUME IInv, NEW maturity \in FirstBlock .. MaxBlock, NEW amount \in Amounts,
           handleCreateBond(maturity, amount)
    PROVE  IInv'
<1>. USE DEF IInv
<1>. DEFINE e == findEpochId(block)
            row == [epoch |-> e, blockNumber |-> block, maturity |-> maturity, amountOLAS |-> amount]
<1>1. createBond' = Append(createBond, row) /\ UNCHANGED <<chain, happened, epoch>>
  BY DEF handleCreateBond
<1>2. e = IF epochCounter = 1 THEN Null ELSE EpochOfBlock
  BY FoundCurrent
<1>3. epochCounter \in Nat /\ 1 <= epochCounter /\ block \in Nat
  BY EpochAssumption DEF TypeOK
<1>4. epochCounter # 1 => /\ e \in DOMAIN epoch /\ e \in Nat /\ Covers(epoch[e], block)
  BY <1>2, <1>3, CurrentRow, EpochAssumption
<1>. HIDE DEF e
<1>5. row \in BondRow
  BY <1>2, <1>4, BlockAssumption, AmountAssumption, <1>3 DEF BlockOrNull, BondRow
<1>6. UNCHANGED <<block, epochCounter, settledAt, upgraded, effectiveBond, blockEndBond>>
  BY <1>1 DEF chain
<1>7. SameCalendar
  BY <1>1, <1>6 DEF SameCalendar
<1>. HIDE DEF row
<1>8. /\ createBond' \in Seq(BondRow) /\ DOMAIN createBond' = DOMAIN createBond \cup {Len(createBond) + 1}
      /\ createBond'[Len(createBond) + 1] = row
      /\ \A k \in DOMAIN createBond : createBond'[k] = createBond[k]
  BY <1>1, <1>5 DEF TypeOK
<1>9. TypeOK'
  BY <1>1, <1>6, <1>8 DEF TypeOK
<1>10. Calendar' /\ NoGap'
  BY <1>7, CalendarKept
<1>11. BondsInTheirEpoch'
  <2>1. row.epoch = e /\ row.blockNumber = block
    BY DEF row
  <2>2. row.epoch # Null => row.epoch \in DOMAIN epoch /\ Covers(epoch[row.epoch], row.blockNumber)
    BY <1>2, <1>4, <2>1
  <2>. SUFFICES ASSUME NEW k \in DOMAIN createBond', createBond'[k].epoch # Null
                PROVE  /\ createBond'[k].epoch \in DOMAIN epoch
                       /\ Covers(epoch[createBond'[k].epoch], createBond'[k].blockNumber)
                       /\ createBond'[k].blockNumber <= block
    BY <1>1, <1>6 DEF BondsInTheirEpoch
  <2>3. CASE k \in DOMAIN createBond
    BY <2>3, <1>8 DEF BondsInTheirEpoch
  <2>4. CASE k = Len(createBond) + 1
    BY <2>4, <1>8, <2>1, <2>2, <1>3
  <2>. QED  BY <2>3, <2>4, <1>8
<1>12. TotalsExact'
  BY <1>1 DEF TotalsExact
<1>. QED  BY <1>9, <1>10, <1>11, <1>12

LEMMA AddedTyped ==
    ASSUME NEW A, NEW B, NEW f \in [A -> [B -> Nat]], NEW a \in A, NEW b \in B, NEW n \in Nat
    PROVE  [f EXCEPT ![a][b] = @ + n] \in [A -> [B -> Nat]]
<1>. DEFINE row == [f[a] EXCEPT ![b] = @ + n]
<1>1. row \in [B -> Nat]
  OBVIOUS
<1>2. [f EXCEPT ![a][b] = @ + n] = [f EXCEPT ![a] = row]
  OBVIOUS
<1>. HIDE DEF row
<1>. QED  BY <1>1, <1>2

\* An item is added to the total of the epoch of its block.
LEMMA ItemStep ==
    ASSUME IInv, NEW t \in Totals, NEW amount \in Amounts, Item(t, amount)
    PROVE  IInv'
<1>. USE DEF IInv
<1>1. /\ UNCHANGED <<chain, createBond>> /\ epoch' = Booked(t, amount)
      /\ happened' = IF epochCounter = 1 THEN happened
                     ELSE [happened EXCEPT ![t][EpochOfBlock] = @ + amount]
  BY DEF Item
<1>2. UNCHANGED <<block, epochCounter, settledAt, upgraded, effectiveBond, blockEndBond>>
  BY <1>1 DEF chain
<1>3. epochCounter \in Nat /\ 1 <= epochCounter /\ amount \in Nat
  BY EpochAssumption, AmountAssumption DEF TypeOK
<1>4. CASE epochCounter = 1
  BY <1>1, <1>4, FoundCurrent, <1>2, CalendarKept, BondsKept DEF Booked, SameCalendar, TypeOK,
      TotalsExact
<1>5. CASE epochCounter # 1
  <2>. DEFINE e == EpochOfBlock
  <2>1. e \in DOMAIN epoch /\ e \in 1 .. MaxEpoch + 1 /\ findEpochId(block) = e /\ e # Null
    BY <1>3, <1>5, CurrentRow, FoundCurrent, EpochAssumption DEF Null
  <2>. HIDE DEF e
  <2>2. epoch' = [epoch EXCEPT ![e].total[t] = @ + amount]
    BY <1>1, <2>1 DEF Booked
  <2>3. happened' = [happened EXCEPT ![t][e] = @ + amount]
    BY <1>1, <1>5 DEF e
  <2>4. /\ DOMAIN epoch' = DOMAIN epoch /\ epoch' = [i \in DOMAIN epoch' |-> epoch'[i]]
        /\ \A i \in DOMAIN epoch \ {e} : epoch'[i] = epoch[i]
        /\ epoch'[e] = [epoch[e] EXCEPT !.total[t] = @ + amount]
    BY <2>1, <2>2 DEF TypeOK, PartialFn
  <2>5. /\ epoch'[e] \in EpochRow /\ epoch'[e].startBlock = epoch[e].startBlock
        /\ epoch'[e].endBlock = epoch[e].endBlock
        /\ epoch'[e].blockTimestamp = epoch[e].blockTimestamp
        /\ epoch'[e].total = [epoch[e].total EXCEPT ![t] = @ + amount]
    <3>1. ASSUME NEW row \in EpochRow
          PROVE  LET r == [row EXCEPT !.total[t] = @ + amount] IN
                 /\ r \in EpochRow /\ r.startBlock = row.startBlock /\ r.endBlock = row.endBlock
                 /\ r.blockTimestamp = row.blockTimestamp
                 /\ r.total = [row.total EXCEPT ![t] = @ + amount]
      BY <1>3 DEF EpochRow
    <3>. QED  BY <2>1, <2>4, <3>1, RowTyped
  <2>6. SameCalendar
    BY <1>2, <2>4, <2>5 DEF SameCalendar
  <2>7. TypeOK'
    <3>1. \A i \in DOMAIN epoch : epoch'[i] \in EpochRow
      BY <2>4, <2>5, RowTyped
    <3>2. PartialFn(epoch', Nat \ {0}, EpochRow)
      BY <2>4, <3>1, RowsKept
    <3>3. happened' \in [Totals -> [1 .. MaxEpoch + 1 -> Nat]]
      <4>1. happened \in [Totals -> [1 .. MaxEpoch + 1 -> Nat]]
        BY DEF TypeOK
      <4>. DEFINE Epochs == 1 .. MaxEpoch + 1
      <4>. HIDE DEF Epochs
      <4>2. happened \in [Totals -> [Epochs -> Nat]] /\ e \in Epochs
        BY <2>1, <4>1 DEF Epochs
      <4>3. happened' \in [Totals -> [Epochs -> Nat]]
        BY <1>3, <2>3, <4>2, AddedTyped
      <4>. QED  BY <4>3 DEF Epochs
    <3>. QED  BY <1>1, <1>2, <3>2, <3>3 DEF TypeOK
  <2>8. TotalsExact'
    <3>. SUFFICES ASSUME NEW u \in Totals, NEW i \in 1 .. MaxEpoch + 1
                  PROVE  happened'[u][i] = IF i \in DOMAIN epoch' THEN epoch'[i].total[u] ELSE 0
      BY DEF TotalsExact
    <3>1. happened[u][i] = IF i \in DOMAIN epoch THEN epoch[i].total[u] ELSE 0
      BY DEF TotalsExact
    <3>2. happened \in [Totals -> [1 .. MaxEpoch + 1 -> Nat]]
      BY DEF TypeOK
    <3>3. CASE i = e /\ u = t
      <4>1. happened'[u][i] = happened[t][e] + amount
        BY <2>1, <2>3, <3>2, <3>3
      <4>2. epoch'[i].total[u] = epoch[e].total[t] + amount
        BY <2>1, RowTyped, <2>5, <3>3 DEF EpochRow
      <4>. QED  BY <4>1, <4>2, <3>1, <3>3, <2>1, <2>4
    <3>4. CASE ~(i = e /\ u = t)
      <4>1. happened'[u][i] = happened[u][i]
        BY <2>1, <2>3, <3>2, <3>4
      <4>2. i \in DOMAIN epoch => epoch'[i].total[u] = epoch[i].total[u]
        <5>1. i = e => epoch'[i].total[u] = epoch[i].total[u]
          BY <2>1, RowTyped, <2>5, <3>4 DEF EpochRow
        <5>. QED  BY <5>1, <2>4
      <4>. QED  BY <4>1, <4>2, <3>1, <2>4
    <3>. QED  BY <3>3, <3>4
  <2>. QED  BY <1>1, <2>6, <2>7, <2>8, CalendarKept, BondsKept
<1>. QED  BY <1>4, <1>5

LEMMA EffectiveBondStep ==
    ASSUME IInv, NEW bond \in Bonds,
           handleEffectiveBondUpdated(bond) \/ handleEffectiveBondUpdatedV2(bond)
    PROVE  IInv'
BY BondSet DEF handleEffectiveBondUpdated, handleEffectiveBondUpdatedV2, ghosts

\* What a batch of claims changes of a row.
LEMMA ClaimedRows ==
    ASSUME TypeOK, NEW batch \in SUBSET Nominees, NEW answer \in [batch -> 1 .. MaxEpoch + 1],
           NEW amount \in Amounts, epoch' = StakingBooked(answer, amount)
    PROVE  /\ DOMAIN epoch' = DOMAIN epoch /\ epoch' = [i \in DOMAIN epoch' |-> epoch'[i]]
           /\ \A i \in DOMAIN epoch :
                 LET booked == amount * Cardinality({x \in batch : EpochOfClaim(answer[x]) = i}) IN
                 /\ booked \in Nat
                 /\ epoch'[i] \in EpochRow /\ epoch'[i].startBlock = epoch[i].startBlock
                 /\ epoch'[i].endBlock = epoch[i].endBlock
                 /\ epoch'[i].blockTimestamp = epoch[i].blockTimestamp
                 /\ epoch'[i].total = epoch[i].total
                 /\ epoch'[i].totalStakingIncentives = epoch[i].totalStakingIncentives + booked
                 /\ epoch'[i].availableStakingIncentives
                        = epoch[i].availableStakingIncentives - booked
<1>1. DOMAIN epoch' = DOMAIN epoch /\ epoch' = [i \in DOMAIN epoch' |-> epoch'[i]]
  BY DEF StakingBooked
<1>2. ASSUME NEW i \in DOMAIN epoch
      PROVE  LET booked == amount * Cardinality({x \in batch : EpochOfClaim(answer[x]) = i}) IN
             /\ booked \in Nat
             /\ epoch'[i] \in EpochRow /\ epoch'[i].startBlock = epoch[i].startBlock
             /\ epoch'[i].endBlock = epoch[i].endBlock
             /\ epoch'[i].blockTimestamp = epoch[i].blockTimestamp
             /\ epoch'[i].total = epoch[i].total
             /\ epoch'[i].totalStakingIncentives = epoch[i].totalStakingIncentives + booked
             /\ epoch'[i].availableStakingIncentives = epoch[i].availableStakingIncentives - booked
  <2>. DEFINE who == {x \in batch : EpochOfClaim(answer[x]) = i}
              booked == amount * Cardinality(who)
  <2>1. IsFiniteSet(who)
    BY NomineeAssumption, FS_Subset
  <2>2. Cardinality(who) \in Nat
    BY <2>1, FS_CardinalityType
  <2>3. amount \in Nat
    BY AmountAssumption
  <2>4. booked \in Nat
    <3>. HIDE DEF who
    <3>. QED  BY <2>2, <2>3
  <2>5. epoch'[i] = [epoch[i] EXCEPT !.totalStakingIncentives = @ + booked,
                                     !.availableStakingIncentives = @ - booked]
    BY DEF StakingBooked
  <2>. HIDE DEF booked
  <2>6. /\ epoch[i] \in EpochRow
        /\ epoch[i].totalStakingIncentives + booked \in Nat
        /\ epoch[i].availableStakingIncentives - booked \in Int
    BY <2>4, RowTyped DEF EpochRow
  <2>7. /\ epoch'[i] \in EpochRow /\ epoch'[i].startBlock = epoch[i].startBlock
        /\ epoch'[i].endBlock = epoch[i].endBlock
        /\ epoch'[i].blockTimestamp = epoch[i].blockTimestamp
        /\ epoch'[i].total = epoch[i].total
        /\ epoch'[i].totalStakingIncentives = epoch[i].totalStakingIncentives + booked
        /\ epoch'[i].availableStakingIncentives = epoch[i].availableStakingIncentives - booked
    <3>. DEFINE sum == epoch[i].totalStakingIncentives + booked
                rest == epoch[i].availableStakingIncentives - booked
                row == epoch[i]
    <3>1. /\ epoch'[i] = [row EXCEPT !.totalStakingIncentives = sum,
                                     !.availableStakingIncentives = rest]
          /\ row \in EpochRow /\ sum \in Nat /\ rest \in Int
      BY <2>5, <2>6
    <3>. HIDE DEF sum, rest, row
    <3>2. /\ epoch'[i] \in EpochRow /\ epoch'[i].startBlock = row.startBlock
          /\ epoch'[i].endBlock = row.endBlock /\ epoch'[i].blockTimestamp = row.blockTimestamp
          /\ epoch'[i].total = row.total /\ epoch'[i].totalStakingIncentives = sum
          /\ epoch'[i].availableStakingIncentives = rest
      BY <3>1 DEF EpochRow
    <3>. QED  BY <3>2 DEF sum, rest, row
  <2>. QED  BY <2>4, <2>7 DEF booked
<1>. QED  BY <1>1, <1>2

LEMMA ClaimStep ==
    ASSUME IInv, NEW batch \in SUBSET Nominees, NEW amount \in Amounts,
           NEW upTo \in [batch -> 1 .. MaxEpoch + 1], NEW answer \in [batch -> 1 .. MaxEpoch + 1],
           handleStakingIncentivesClaimed(upTo, answer, amount)
    PROVE  IInv'
<1>. USE DEF IInv
<1>1. /\ epoch' = StakingBooked(answer, amount)
      /\ UNCHANGED <<block, epochCounter, settledAt, upgraded, effectiveBond, blockEndBond,
                     happened, createBond>>
  BY DEF handleStakingIncentivesClaimed
<1>2. /\ DOMAIN epoch' = DOMAIN epoch /\ epoch' = [i \in DOMAIN epoch' |-> epoch'[i]]
      /\ \A i \in DOMAIN epoch :
            /\ epoch'[i] \in EpochRow /\ epoch'[i].startBlock = epoch[i].startBlock
            /\ epoch'[i].endBlock = epoch[i].endBlock
            /\ epoch'[i].blockTimestamp = epoch[i].blockTimestamp
            /\ epoch'[i].total = epoch[i].total
  BY <1>1, ClaimedRows
<1>3. SameCalendar
  BY <1>1, <1>2 DEF SameCalendar
<1>4. TypeOK' BY <1>2, RowsKept, <1>1 DEF TypeOK
<1>5. TotalsExact'
  BY <1>1, <1>2 DEF TotalsExact
<1>. QED  BY <1>1, <1>3, <1>4, <1>5, CalendarKept, BondsKept

\* The next block belongs to the running epoch.
LEMMA BlockStep == ASSUME IInv, NextBlock PROVE IInv'
<1>. USE DEF IInv
<1>1. /\ block' = block + 1 /\ blockEndBond' \in Nat
      /\ UNCHANGED <<epochCounter, settledAt, upgraded, effectiveBond, happened, epoch, createBond>>
  BY AmountAssumption DEF NextBlock, ghosts, store
<1>2. block \in Nat /\ FirstBlock \in Nat /\ epochCounter \in Nat /\ settledAt \in BlockOrNull
  BY BlockAssumption, EpochAssumption DEF TypeOK
<1>3. TypeOK' /\ TotalsExact'
  BY <1>1, <1>2 DEF TypeOK, TotalsExact
<1>4. Calendar' BY <1>1, <1>2 DEF Calendar, BlockOrNull, Null
<1>5. NoGap'
  <2>. SUFFICES ASSUME epochCounter > 1, NEW b \in FirstBlock .. block + 1
                PROVE  \E i \in DOMAIN epoch : Covers(epoch[i], b)
    BY <1>1 DEF NoGap
  <2>1. CASE b \in FirstBlock .. block
    BY <2>1 DEF NoGap
  <2>2. CASE b = block + 1 BY <1>2, <2>2 DEF Calendar, BlockOrNull, Null, Covers
  <2>. QED  BY <2>1, <2>2, <1>2
<1>6. BondsInTheirEpoch' BY BondTyped, <1>1, <1>2 DEF BondRow, BondsInTheirEpoch
<1>. QED  BY <1>3, <1>4, <1>5, <1>6

LEMMA IInvStep == IInv /\ [Next]_vars => IInv'
<1>. SUFFICES ASSUME IInv, [Next]_vars PROVE IInv'
  OBVIOUS
<1>1. CASE \E topUps \in Amounts, staking \in Amounts \cup {0} : handleEpochSettled(topUps, staking)
  BY <1>1, SettledStep
<1>2. CASE \E bond \in Bonds : handleEffectiveBondUpdated(bond) \/ handleEffectiveBondUpdatedV2(bond)
  BY <1>2, EffectiveBondStep
<1>3. CASE \E maturity \in FirstBlock .. MaxBlock, a \in Amounts : handleCreateBond(maturity, a)
  BY <1>3, CreateBondStep
<1>4. CASE \E a \in Amounts : handleCreateProduct(a) \/ handleDevIncentiveSave(a) \/ handleTransfer(a)
  BY <1>4, ItemStep DEF handleCreateProduct, handleDevIncentiveSave, handleTransfer, Totals
<1>5. CASE \E batch \in SUBSET Nominees \ {{}}, a \in Amounts :
             \E upTo, answer \in [batch -> 1 .. MaxEpoch + 1] :
                 handleStakingIncentivesClaimed(upTo, answer, a)
  BY <1>5, ClaimStep
<1>6. CASE NextBlock
  BY <1>6, BlockStep
<1>7. CASE Upgrade
  <2>1. /\ upgraded' \in BOOLEAN
        /\ UNCHANGED <<block, epochCounter, settledAt, effectiveBond, blockEndBond, happened, epoch,
                       createBond>>
    BY <1>7 DEF Upgrade, ghosts, store
  <2>. QED
    BY <2>1 DEF IInv, TypeOK, Calendar, NoGap, BondsInTheirEpoch, TotalsExact
<1>8. CASE UNCHANGED vars
  BY <1>8 DEF IInv, TypeOK, Calendar, NoGap, BondsInTheirEpoch, TotalsExact, vars, chain, ghosts, store
<1>. QED  BY <1>1, <1>2, <1>3, <1>4, <1>5, <1>6, <1>7, <1>8 DEF Next

\* The inductive invariant holds for any epochs, blocks and items.
THEOREM IInvInvariant == Spec => []IInv
<1>1. Init => IInv
  BY InitIInv
<1>2. IInv /\ [Next]_vars => IInv'
  BY IInvStep
<1>. QED  BY <1>1, <1>2, PTL DEF Spec

\* What carries no epoch number is counted in the epoch it happened in.
THEOREM TotalsAlwaysExact == Spec => []TotalsExact
<1>1. IInv => TotalsExact
  BY DEF IInv
<1>. QED  BY <1>1, IInvInvariant, PTL

\* Since the first settlement every block belongs to exactly one epoch.
THEOREM EveryBlockHasOneEpoch == Spec => []EveryBlockInOneEpoch
<1>1. IInv => EveryBlockInOneEpoch
  <2>. SUFFICES ASSUME IInv, epochCounter > 1, NEW b \in FirstBlock .. block
                PROVE  \E i \in DOMAIN epoch : \A j \in DOMAIN epoch : Covers(epoch[j], b) <=> j = i
    BY DEF EveryBlockInOneEpoch
  <2>. USE DEF IInv
  <2>1. PICK i \in DOMAIN epoch : Covers(epoch[i], b)
    BY DEF NoGap
  <2>2. epochCounter \in Nat /\ b \in Nat /\ DOMAIN epoch = 1 .. epochCounter
    BY BlockAssumption, EpochAssumption DEF TypeOK, Calendar
  <2>3. \A j \in DOMAIN epoch : epoch[j].startBlock \in BlockOrNull /\ epoch[j].endBlock \in BlockOrNull
    BY RowTyped DEF EpochRow
  <2>4. ASSUME NEW j \in DOMAIN epoch, NEW k \in DOMAIN epoch, j < k, Covers(epoch[j], b)
        PROVE  ~Covers(epoch[k], b)
    BY <2>2, <2>4, <2>3 DEF Calendar, Covers, BlockOrNull, Null
  <2>5. \A j \in DOMAIN epoch : Covers(epoch[j], b) <=> j = i
    BY <2>1, <2>2, <2>4
  <2>. QED  BY <2>5
<1>. QED  BY <1>1, IInvInvariant, PTL

\* What a settlement fixes of its row.
SettledKept(old, new) ==
    /\ new.startBlock = old.startBlock /\ new.endBlock = old.endBlock
    /\ new.maturedBonds = old.maturedBonds
    /\ new.accountTopUps = old.accountTopUps
    /\ new.availableDevIncentives = old.availableDevIncentives

\* The rows change in nothing but what items, claims and capacity logs book.
LEMMA RowsChange ==
    ASSUME IInv, NEW i \in DOMAIN epoch, NEW row,
           \/ row = epoch[i]
           \/ \E bond : row = [epoch[i] EXCEPT !.effectiveBond = bond]
           \/ \E total : row = [epoch[i] EXCEPT !.total = total]
           \/ \E sum, rest : row = [epoch[i] EXCEPT !.totalStakingIncentives = sum,
                                                 !.availableStakingIncentives = rest]
    PROVE  SettledKept(epoch[i], row)
BY RowTyped DEF IInv, EpochRow, SettledKept

\* A step that settles no epoch keeps the rows, their bounds and their bonds.
QuietStep ==
    /\ UNCHANGED <<epochCounter, settledAt, totalBondsClaimable>>
    /\ DOMAIN epoch' = DOMAIN epoch
    /\ \A i \in DOMAIN epoch : SettledKept(epoch[i], epoch'[i])
    /\ \/ UNCHANGED createBond
       \/ \E maturity \in FirstBlock .. MaxBlock, amount \in Amounts :
              handleCreateBond(maturity, amount)

LEMMA StepIsQuiet ==
    ASSUME IInv, [Next]_vars
    PROVE  \/ QuietStep
           \/ \E topUps \in Amounts, staking \in Amounts \cup {0} :
                  handleEpochSettled(topUps, staking)
<1>. DEFINE Kept == /\ DOMAIN epoch' = DOMAIN epoch
                    /\ \A i \in DOMAIN epoch : SettledKept(epoch[i], epoch'[i])
            Same == UNCHANGED <<epochCounter, settledAt, totalBondsClaimable, createBond>>
<1>1. ASSUME UNCHANGED epoch PROVE Kept
  BY <1>1 DEF SettledKept
<1>2. ASSUME NEW e, NEW bond, epoch' = WithBond(e, bond)
      PROVE  Kept
  <2>1. ASSUME NEW i \in DOMAIN epoch
        PROVE  /\ i \in DOMAIN epoch'
               /\ \/ epoch'[i] = epoch[i]
                  \/ \E b : epoch'[i] = [epoch[i] EXCEPT !.effectiveBond = b]
    BY <1>2 DEF WithBond
  <2>2. ASSUME NEW i \in DOMAIN epoch PROVE SettledKept(epoch[i], epoch'[i])
    BY <2>1, RowsChange
  <2>. QED  BY <1>2, <2>2 DEF WithBond
<1>3. ASSUME NEW t, NEW amount, epoch' = Booked(t, amount)
      PROVE  Kept
  <2>1. ASSUME NEW i \in DOMAIN epoch
        PROVE  /\ i \in DOMAIN epoch'
               /\ \/ epoch'[i] = epoch[i]
                  \/ \E total : epoch'[i] = [epoch[i] EXCEPT !.total = total]
    <3>. DEFINE new == [epoch[i].total EXCEPT ![t] = @ + amount]
    <3>1. /\ i \in DOMAIN epoch'
          /\ epoch'[i] = epoch[i] \/ epoch'[i] = [epoch[i] EXCEPT !.total = new]
      BY <1>3 DEF Booked
    <3>. HIDE DEF new
    <3>. QED  BY <3>1, Zenon
  <2>2. ASSUME NEW i \in DOMAIN epoch PROVE SettledKept(epoch[i], epoch'[i])
    BY <2>1, RowsChange
  <2>. QED  BY <1>3, <2>2 DEF Booked
<1>4. ASSUME NEW answer, NEW amount, epoch' = StakingBooked(answer, amount)
      PROVE  Kept
  <2>1. ASSUME NEW i \in DOMAIN epoch
        PROVE  /\ i \in DOMAIN epoch'
               /\ \E sum, rest : epoch'[i] = [epoch[i] EXCEPT !.totalStakingIncentives = sum,
                                                            !.availableStakingIncentives = rest]
    <3>. DEFINE booked == amount * Cardinality({x \in DOMAIN answer : EpochOfClaim(answer[x]) = i})
    <3>1. /\ i \in DOMAIN epoch'
          /\ epoch'[i] = [epoch[i] EXCEPT !.totalStakingIncentives = @ + booked,
                                          !.availableStakingIncentives = @ - booked]
      BY <1>4 DEF StakingBooked
    <3>. HIDE DEF booked
    <3>. QED  BY <3>1, Zenon
  <2>2. ASSUME NEW i \in DOMAIN epoch PROVE SettledKept(epoch[i], epoch'[i])
    BY <2>1, RowsChange
  <2>. QED  BY <1>4, <2>2 DEF StakingBooked
<1>5. ASSUME NEW maturity \in FirstBlock .. MaxBlock, NEW amount \in Amounts,
             handleCreateBond(maturity, amount)
      PROVE  QuietStep
  BY <1>1, <1>5 DEF handleCreateBond, chain, QuietStep
<1>6. ASSUME Kept, Same PROVE QuietStep
  BY <1>6 DEF QuietStep
<1>7. CASE UNCHANGED vars
  BY <1>1, <1>6, <1>7 DEF vars, chain, store
<1>8. ASSUME NEW bond \in Bonds,
             handleEffectiveBondUpdated(bond) \/ handleEffectiveBondUpdatedV2(bond)
      PROVE  QuietStep
  BY <1>2, <1>6, <1>8 DEF handleEffectiveBondUpdated, handleEffectiveBondUpdatedV2
<1>9. ASSUME NEW t, NEW amount, Item(t, amount) PROVE QuietStep
  BY <1>3, <1>6, <1>9 DEF Item, chain
<1>10. ASSUME NEW upTo, NEW answer, NEW amount, handleStakingIncentivesClaimed(upTo, answer, amount)
       PROVE  QuietStep
  BY <1>4, <1>6, <1>10 DEF handleStakingIncentivesClaimed
<1>11. CASE NextBlock \/ Upgrade
  BY <1>1, <1>6, <1>11 DEF NextBlock, Upgrade, store
<1>. HIDE DEF Kept, Same
<1>. QED
  BY <1>5, <1>7, <1>8, <1>9, <1>10, <1>11
  DEF Next, handleCreateProduct, handleDevIncentiveSave, handleTransfer

\* No step reopens a settled epoch or touches what its settlement fixed.
THEOREM SettledEpochsStayKept == Spec => SettledEpochsKept
<1>. DEFINE Kept == \A i \in DOMAIN epoch :
          epoch[i].endBlock # Null =>
              /\ i \in DOMAIN epoch'
              /\ epoch'[i].startBlock = epoch[i].startBlock
              /\ epoch'[i].endBlock = epoch[i].endBlock
              /\ epoch'[i].maturedBonds = epoch[i].maturedBonds
              /\ epoch'[i].accountTopUps = epoch[i].accountTopUps
              /\ epoch'[i].availableDevIncentives = epoch[i].availableDevIncentives
<1>1. IInv /\ [Next]_vars => [Kept]_vars
  <2>. SUFFICES ASSUME IInv, Next PROVE Kept
    OBVIOUS
  <2>1. ASSUME NEW topUps \in Amounts, NEW staking \in Amounts \cup {0},
               handleEpochSettled(topUps, staking)
        PROVE  Kept
    BY EpochAssumption, <2>1, SettledRows DEF IInv, TypeOK, Calendar
  <2>2. CASE QuietStep
    BY <2>2 DEF QuietStep, SettledKept
  <2>. QED  BY <2>1, <2>2, StepIsQuiet
<1>. QED  BY <1>1, IInvInvariant, PTL DEF Spec, SettledEpochsKept

-----------------------------------------------------------------------------
(* The bonds that mature in an epoch. *)

\* The bonds booked to epoch i or before that mature between the settlement
\* before it and its own.
DueIn(bonds, rows, i) ==
    {k \in DOMAIN bonds :
        /\ bonds[k].epoch \in 1 .. i
        /\ bonds[k].maturity \in rows[i-1].endBlock .. rows[i].endBlock}

\* A settled epoch has exactly the bonds that fell due in it; the first one,
\* and the one that runs, have none.
MaturedExactly ==
    \A i \in DOMAIN epoch :
        epoch[i].maturedBonds =
            IF 1 < i /\ i < epochCounter THEN DueIn(createBond, epoch, i) ELSE {}

\* A bond matures after the block it was created in, and epoch 1 only gets those
\* of the block that settles it.
BondsAhead ==
    \A k \in DOMAIN createBond :
        /\ createBond[k].blockNumber < createBond[k].maturity
        /\ FirstBlock <= createBond[k].blockNumber
        /\ createBond[k].epoch = 1 => epoch[1].endBlock <= createBond[k].blockNumber

\* Every settled epoch has its claimable total.
ClaimableKnown ==
    /\ DOMAIN totalBondsClaimable = 1 .. epochCounter - 1
    /\ \A e \in DOMAIN totalBondsClaimable :
          totalBondsClaimable[e] = AmountOf(epoch[e].maturedBonds)

BondInv == MaturedExactly /\ BondsAhead /\ ClaimableKnown

\* The bonds of the row that is settled and of the one that is opened.
LEMMA SettledBonds ==
    ASSUME IInv, NEW topUps \in Amounts, NEW staking \in Amounts \cup {0},
           handleEpochSettled(topUps, staking)
    PROVE  /\ epoch'[epochCounter].maturedBonds = Matured(epochCounter)
           /\ epoch'[epochCounter + 1].maturedBonds = {}
           /\ totalBondsClaimable' = Put(totalBondsClaimable, epochCounter,
                                         AmountOf(Matured(epochCounter)))
           /\ createBond' = createBond
<1>. DEFINE n == epochCounter
            ended == SettledRow(n, topUps, staking)
            next == NextRow(n, topUps)
            due == Matured(n)
<1>1. /\ n \in Nat /\ epoch' = Put(Put(epoch, n + 1, next), n, ended)
      /\ totalBondsClaimable' = Put(totalBondsClaimable, n, AmountOf(due))
      /\ createBond' = createBond
  BY EpochAssumption DEF handleEpochSettled, handleEpochSave, IInv, TypeOK
<1>2. next.maturedBonds = {}
  BY DEF NextRow, NewEpoch
<1>3. ended.maturedBonds = due
  <2>1. Opened(n) \in EpochRow
    BY OpenedRow DEF IInv
  <2>2. ended = [Opened(n) EXCEPT !.endBlock = block, !.blockTimestamp = block,
                   !.accountTopUps = topUps, !.availableStakingIncentives = staking,
                   !.maturedBonds = due]
    BY DEF SettledRow
  <2>. HIDE DEF ended, due
  <2>. QED  BY <2>1, <2>2 DEF EpochRow
<1>. HIDE DEF n, ended, next
<1>4. epoch'[n + 1] = next /\ epoch'[n] = ended
  BY <1>1 DEF Put
<1>. QED  BY <1>1, <1>2, <1>3, <1>4 DEF n

\* The amounts of bonds do not change.
LEMMA AmountsStay ==
    ASSUME NEW bonds, \A k \in bonds : createBond'[k] = createBond[k]
    PROVE  SumFunction([k \in bonds |-> createBond'[k].amountOLAS]) = AmountOf(bonds)
BY DEF AmountOf

\* The facts of the calendar that the proofs about bonds use.
LEMMA CalendarFacts ==
    ASSUME IInv
    PROVE  /\ epochCounter \in Nat /\ 1 <= epochCounter /\ block \in Nat
           /\ epochCounter # 1 => settledAt \in Nat /\ DOMAIN epoch = 1 .. epochCounter
           /\ epochCounter = 1 => DOMAIN epoch = {} /\ settledAt = Null
           /\ \A i \in 1 .. epochCounter - 1 :
                /\ i \in DOMAIN epoch /\ epoch[i].startBlock \in Nat /\ epoch[i].endBlock \in Nat
                /\ epoch[i].startBlock <= epoch[i].endBlock /\ epoch[i].endBlock <= settledAt
                /\ epoch[i].blockTimestamp = epoch[i].endBlock
           /\ \A i, j \in 1 .. epochCounter - 1 :
                i < j => epoch[i].endBlock < epoch[j].startBlock
<1>1. /\ epochCounter \in Nat /\ 1 <= epochCounter /\ block \in Nat
      /\ epochCounter # 1 => settledAt \in Nat /\ DOMAIN epoch = 1 .. epochCounter
      /\ epochCounter = 1 => DOMAIN epoch = {} /\ settledAt = Null
  BY EpochAssumption DEF IInv, TypeOK, Calendar, BlockOrNull
<1>2. \A i \in 1 .. epochCounter - 1 : i \in DOMAIN epoch /\ i < epochCounter
  BY <1>1
<1>. QED  BY <1>1, <1>2 DEF IInv, Calendar

\* A settlement matures what is due and opens an epoch without bonds.
LEMMA BondsSettled ==
    ASSUME IInv, BondInv, NEW topUps \in Amounts, NEW staking \in Amounts \cup {0},
           handleEpochSettled(topUps, staking)
    PROVE  BondInv'
<1>0. PICK n : n = epochCounter
  OBVIOUS
<1>1. /\ n \in Nat /\ 1 <= n /\ epochCounter' = n + 1
      /\ DOMAIN epoch' = 1 .. n + 1
      /\ \A i \in 1 .. n - 1 : i \in DOMAIN epoch /\ epoch'[i] = epoch[i]
      /\ epoch'[n].endBlock = block
  BY <1>0, SettledRows
<1>2. /\ epoch'[n].maturedBonds = Matured(n) /\ epoch'[n + 1].maturedBonds = {}
      /\ totalBondsClaimable' = Put(totalBondsClaimable, n, AmountOf(Matured(n)))
      /\ createBond' = createBond
  BY <1>0, SettledBonds
<1>3. MaturedExactly'
  <2>1. ASSUME NEW i \in 1 .. n - 1, 1 < i
        PROVE  epoch'[i].maturedBonds = DueIn(createBond', epoch', i)
    <3>1. /\ epoch[i].maturedBonds = DueIn(createBond, epoch, i) /\ epoch'[i] = epoch[i]
          /\ epoch'[i - 1] = epoch[i - 1]
      BY <1>0, <1>1, <2>1 DEF BondInv, MaturedExactly
    <3>. QED  BY <1>2, <3>1 DEF DueIn
  <2>2. 1 \in 1 .. n - 1 => epoch'[1].maturedBonds = {}
    BY <1>0, <1>1 DEF BondInv, MaturedExactly
  <2>3. n = 1 => epoch'[n].maturedBonds = {}
    BY <1>2, <1>0, CalendarFacts DEF Matured
  <2>4. n # 1 => epoch'[n].maturedBonds = DueIn(createBond', epoch', n)
    BY <1>1, <1>0, CalendarFacts, <1>2 DEF Matured, DueIn
  <2>5. \A i \in DOMAIN epoch' : i \in 1 .. n - 1 \/ i = n \/ i = n + 1
    BY <1>1
  <2>6. \A i \in DOMAIN epoch' :
          epoch'[i].maturedBonds = IF 1 < i /\ i < n + 1 THEN DueIn(createBond', epoch', i) ELSE {}
    <3>1. ASSUME NEW i \in DOMAIN epoch'
          PROVE  epoch'[i].maturedBonds =
                    IF 1 < i /\ i < n + 1 THEN DueIn(createBond', epoch', i) ELSE {}
      <4>1. CASE i = n + 1
        <5>1. epoch'[i].maturedBonds = {} /\ ~(i < n + 1)
          BY <1>1, <1>2, <4>1
        <5>. QED  BY <5>1
      <4>2. CASE i = n
        BY <1>1, <2>3, <2>4, <4>2
      <4>3. CASE i \in 1 .. n - 1 /\ i # 1
        BY <1>1, <2>1, <4>3
      <4>4. CASE i \in 1 .. n - 1 /\ i = 1
        BY <1>1, <2>2, <4>4
      <4>. QED  BY <2>5, <4>1, <4>2, <4>3, <4>4
    <3>. QED  BY <3>1
  <2>. QED  BY <1>1, <2>6 DEF MaturedExactly
<1>4. BondsAhead'
  <2>. SUFFICES ASSUME NEW k \in DOMAIN createBond, createBond[k].epoch = 1
                PROVE  epoch'[1].endBlock <= createBond[k].blockNumber
    BY <1>2 DEF BondInv, BondsAhead
  <2>1. 1 \in DOMAIN epoch
    BY DEF IInv, BondsInTheirEpoch, Null
  <2>2. n # 1
    BY <2>1, <1>0, CalendarFacts
  <2>3. epoch'[1] = epoch[1]
    BY <1>1, <2>2
  <2>. QED  BY <2>3 DEF BondInv, BondsAhead
<1>5. ClaimableKnown' BY <1>0, <1>1, <1>2 DEF BondInv, ClaimableKnown, Put, AmountOf
<1>. QED  BY <1>3, <1>4, <1>5 DEF BondInv

\* No other step touches what has matured: a new bond matures after its block,
\* so it is due in no epoch that has ended.
LEMMA BondsQuiet ==
    ASSUME IInv, BondInv, QuietStep
    PROVE  BondInv'
<1>. DEFINE n == epochCounter
<1>1. /\ n' = n /\ totalBondsClaimable' = totalBondsClaimable /\ DOMAIN epoch' = DOMAIN epoch
      /\ \A i \in DOMAIN epoch : /\ epoch'[i].startBlock = epoch[i].startBlock
                                 /\ epoch'[i].endBlock = epoch[i].endBlock
                                 /\ epoch'[i].maturedBonds = epoch[i].maturedBonds
  BY DEF QuietStep, SettledKept
<1>2. createBond \in Seq(BondRow)
  BY DEF IInv, TypeOK
<1>3. /\ DOMAIN createBond \subseteq DOMAIN createBond'
      /\ \A k \in DOMAIN createBond : createBond'[k] = createBond[k]
      /\ \A k \in DOMAIN createBond' \ DOMAIN createBond :
            /\ createBond'[k].epoch = findEpochId(block)
            /\ createBond'[k].blockNumber = block
            /\ createBond'[k].maturity \in Nat /\ block < createBond'[k].maturity
  <2>1. ASSUME NEW maturity \in FirstBlock .. MaxBlock, NEW amount \in Amounts,
               handleCreateBond(maturity, amount)
        PROVE  /\ DOMAIN createBond \subseteq DOMAIN createBond'
               /\ \A k \in DOMAIN createBond : createBond'[k] = createBond[k]
               /\ \A k \in DOMAIN createBond' \ DOMAIN createBond :
                     /\ createBond'[k].epoch = findEpochId(block)
                     /\ createBond'[k].blockNumber = block
                     /\ createBond'[k].maturity \in Nat /\ block < createBond'[k].maturity
    <3>. DEFINE row == [epoch |-> findEpochId(block), blockNumber |-> block,
                        maturity |-> maturity, amountOLAS |-> amount]
    <3>1. createBond' = Append(createBond, row) /\ block < maturity /\ maturity \in Nat
      BY <2>1, BlockAssumption, CalendarFacts DEF handleCreateBond
    <3>2. /\ row.epoch = findEpochId(block) /\ row.blockNumber = block
          /\ row.maturity = maturity
      OBVIOUS
    <3>. HIDE DEF row
    <3>3. /\ DOMAIN createBond' = DOMAIN createBond \cup {Len(createBond) + 1}
          /\ createBond'[Len(createBond) + 1] = row
          /\ \A k \in DOMAIN createBond : createBond'[k] = createBond[k]
      BY <1>2, <3>1
    <3>. QED  BY <3>1, <3>2, <3>3
  <2>2. CASE UNCHANGED createBond
    BY <2>2
  <2>. QED  BY <2>1, <2>2 DEF QuietStep
<1>4. MaturedExactly'
  <2>1. ASSUME NEW i \in DOMAIN epoch, 1 < i, i < n
        PROVE  DueIn(createBond', epoch', i) = DueIn(createBond, epoch, i)
    <3>1. /\ i \in 1 .. n - 1 /\ i - 1 \in 1 .. n - 1
          /\ epoch[i].endBlock \in Nat /\ epoch[i].endBlock <= settledAt
          /\ settledAt \in Nat /\ settledAt <= block /\ block \in Nat
      BY <2>1, CalendarFacts DEF IInv, Calendar
    <3>2. /\ epoch'[i].endBlock = epoch[i].endBlock
          /\ epoch'[i - 1].endBlock = epoch[i - 1].endBlock
      BY <1>1, <3>1, CalendarFacts
    <3>3. \A k \in DOMAIN createBond' \ DOMAIN createBond :
              ~(createBond'[k].maturity <= epoch[i].endBlock)
      BY <1>3, <3>1
    <3>. QED  BY <1>3, <3>2, <3>3 DEF DueIn
  <2>. QED  BY <1>1, <2>1 DEF BondInv, MaturedExactly
<1>5. BondsAhead'
  <2>1. ASSUME NEW k \in DOMAIN createBond
        PROVE  createBond[k].epoch = 1 => epoch'[1].endBlock <= createBond[k].blockNumber
    BY <1>1 DEF BondInv, BondsAhead, IInv, BondsInTheirEpoch, Null
  <2>2. findEpochId(block) = 1 => epoch'[1].endBlock <= block
    BY FoundCurrent, CalendarFacts, <1>1 DEF IInv, Null, Calendar
  <2>3. FirstBlock <= block
    BY DEF IInv, TypeOK
  <2>4. ASSUME NEW k \in DOMAIN createBond'
        PROVE  /\ createBond'[k].blockNumber < createBond'[k].maturity
               /\ FirstBlock <= createBond'[k].blockNumber
               /\ createBond'[k].epoch = 1 => epoch'[1].endBlock <= createBond'[k].blockNumber
    BY <1>3, <2>1, <2>2, <2>3 DEF BondInv, BondsAhead
  <2>. QED  BY <2>4 DEF BondsAhead
<1>6. ClaimableKnown'
  <2>1. \A e \in DOMAIN totalBondsClaimable : e \in DOMAIN epoch
    BY CalendarFacts DEF BondInv, ClaimableKnown
  <2>2. ASSUME NEW e \in DOMAIN totalBondsClaimable
        PROVE  SumFunction([k \in epoch'[e].maturedBonds |-> createBond'[k].amountOLAS]) =
                  totalBondsClaimable[e]
    BY <2>1, <2>2, <1>3, AmountsStay, <1>1 DEF BondInv, MaturedExactly, DueIn, ClaimableKnown
  <2>3. \A e \in DOMAIN totalBondsClaimable' :
          totalBondsClaimable'[e] =
            SumFunction([k \in epoch'[e].maturedBonds |-> createBond'[k].amountOLAS])
    BY <1>1, <2>2
  <2>4. DOMAIN totalBondsClaimable' = 1 .. epochCounter' - 1
    BY <1>1 DEF BondInv, ClaimableKnown
  <2>. QED  BY <2>3, <2>4 DEF ClaimableKnown, AmountOf
<1>. QED  BY <1>4, <1>5, <1>6 DEF BondInv

\* What BondInv says of the epochs a bond matures in.
LEMMA BondsOnce == ASSUME IInv, BondInv PROVE BondsMatureOnce
<1>. DEFINE n == epochCounter
            in(k) == {i \in DOMAIN epoch : k \in epoch[i].maturedBonds}
<1>1. ASSUME NEW k \in DOMAIN createBond, createBond[k].epoch # Null
      PROVE  /\ in(k) = {} <=> createBond[k].maturity > settledAt
             /\ \A i, j \in in(k) :
                   i < j => j = i + 1 /\ createBond[k].maturity = epoch[i].endBlock
  <2>. DEFINE m == createBond[k].maturity
              b == createBond[k].blockNumber
              e == createBond[k].epoch
  <2>1. m \in Nat /\ b \in Nat /\ b < m /\ FirstBlock <= b /\ FirstBlock \in Nat
    BY BlockAssumption, BondTyped DEF IInv, BondInv, BondsAhead, BondRow
  <2>2. e \in DOMAIN epoch /\ Covers(epoch[e], b)
    BY <1>1 DEF IInv, BondsInTheirEpoch
  <2>3. n # 1 /\ settledAt \in Nat /\ DOMAIN epoch = 1 .. n /\ n \in Nat /\ settledAt <= block
    BY <2>2, CalendarFacts DEF IInv, Calendar
  <2>4. \A i \in in(k) : /\ 1 < i /\ i \in 1 .. n - 1 /\ i - 1 \in 1 .. n - 1
                         /\ epoch[i-1].endBlock <= m /\ m <= epoch[i].endBlock
    <3>1. ASSUME NEW i \in DOMAIN epoch, k \in epoch[i].maturedBonds
          PROVE  /\ 1 < i /\ i \in 1 .. n - 1 /\ i - 1 \in 1 .. n - 1
                 /\ epoch[i-1].endBlock <= m /\ m <= epoch[i].endBlock
      <4>1. 1 < i /\ i < n /\ k \in DueIn(createBond, epoch, i)
        BY <3>1 DEF BondInv, MaturedExactly
      <4>2. i \in 1 .. n - 1 /\ i - 1 \in 1 .. n - 1
        BY <2>3, <4>1
      <4>3. epoch[i-1].endBlock <= m /\ m <= epoch[i].endBlock
        BY <4>1 DEF DueIn
      <4>. QED  BY <4>1, <4>2, <4>3
    <3>. QED  BY <3>1
  <2>. HIDE DEF m, b, e
  <2>5. in(k) # {} => ~(m > settledAt)
    BY <2>1, <2>3, <2>4, CalendarFacts
  <2>6. ASSUME m <= settledAt PROVE in(k) # {}
    <3>1. PICK i \in DOMAIN epoch : Covers(epoch[i], m)
      BY <2>1, <2>3, <2>6, CalendarFacts DEF IInv, NoGap
    <3>2. i \in 1 .. n - 1 BY <2>1, <2>3, <2>6, <3>1 DEF Covers, IInv, Calendar
    <3>3. epoch[i].startBlock <= m /\ m <= epoch[i].endBlock /\ epoch[i].endBlock \in Nat
      BY <3>1, <3>2, CalendarFacts DEF Covers, Null
    <3>4. e \in 1 .. i
      <4>1. CASE i < e
        <5>1. epoch[i].endBlock < epoch[e].startBlock
          BY <2>2, <3>1, <4>1 DEF IInv, Calendar
        <5>2. epoch[e].startBlock <= b /\ epoch[e].startBlock \in BlockOrNull
          BY <2>2, RowTyped DEF Covers, IInv, EpochRow
        <5>. QED  BY <2>1, <3>3, <5>1, <5>2 DEF BlockOrNull, Null
      <4>. QED  BY <2>2, <2>3, <3>2, <4>1
    <3>5. i # 1 BY <3>4, <2>1, <3>3 DEF BondInv, BondsAhead, b, e
    <3>6. i - 1 \in 1 .. n - 1 /\ i - 1 < i
      BY <2>3, <3>2, <3>5
    <3>7. epoch[i - 1].endBlock < epoch[i].startBlock /\ epoch[i - 1].endBlock \in Nat
          /\ epoch[i].startBlock \in Nat
      BY <3>2, <3>6, CalendarFacts
    <3>8. m \in epoch[i - 1].endBlock .. epoch[i].endBlock
      BY <2>1, <3>3, <3>7
    <3>9. k \in DueIn(createBond, epoch, i)
      BY <3>4, <3>8 DEF DueIn, m, e
    <3>10. epoch[i].maturedBonds = DueIn(createBond, epoch, i)
      BY <2>3, <3>2, <3>5 DEF BondInv, MaturedExactly
    <3>. QED  BY <3>1, <3>9, <3>10
  <2>7. ASSUME NEW i \in in(k), NEW j \in in(k), i < j
        PROVE  j = i + 1 /\ m = epoch[i].endBlock
    <3>1. /\ i \in 1 .. n - 1 /\ j \in 1 .. n - 1 /\ j - 1 \in 1 .. n - 1
          /\ epoch[j-1].endBlock <= m /\ m <= epoch[i].endBlock
      BY <2>4
    <3>2. epoch[i].endBlock \in Nat /\ epoch[j-1].endBlock \in Nat /\ epoch[j-1].startBlock \in Nat
          /\ epoch[j-1].startBlock <= epoch[j-1].endBlock
      BY <3>1, CalendarFacts
    <3>3. i < j - 1 => epoch[i].endBlock < epoch[j-1].startBlock
      BY <3>1, CalendarFacts
    <3>4. i = j - 1
      BY <2>1, <2>3, <2>7, <3>1, <3>2, <3>3
    <3>. QED  BY <2>1, <2>3, <3>1, <3>2, <3>4
  <2>8. in(k) = {} <=> m > settledAt
    BY <2>1, <2>3, <2>5, <2>6
  <2>. HIDE DEF in
  <2>. QED  BY <2>7, <2>8 DEF m
<1>. QED  BY <1>1 DEF BondsMatureOnce, BondInv, ClaimableKnown

\* Every bond matures in the epoch its maturity falls in, and in the next only
\* when it falls due in the settling block, for any bonds, blocks and epochs.
THEOREM BondsAlwaysMatureOnce == Spec => []BondsMatureOnce
<1>1. Init => BondInv
  BY DEF Init, BondInv, MaturedExactly, BondsAhead, ClaimableKnown, NoRows
<1>2. IInv /\ BondInv /\ [Next]_vars => BondInv'
  BY StepIsQuiet, BondsSettled, BondsQuiet
<1>3. IInv /\ BondInv => BondsMatureOnce
  BY BondsOnce
<1>. QED  BY <1>1, <1>2, <1>3, IInvInvariant, PTL DEF Spec
-----------------------------------------------------------------------------
(* The capacity of the running epoch. *)

\* The running row has the contract's capacity, or, in the block that opened
\* it, the one the eth_call answered with.
CapacityKnown ==
    epochCounter > 1 =>
        \/ /\ epoch[epochCounter].effectiveBond = effectiveBond
           /\ settledAt = block => upgraded
        \/ /\ epoch[epochCounter].effectiveBond = blockEndBond
           /\ settledAt = block

\* What a step leaves of the capacity and the staking incentives of the rows.
SameBonds == \A i \in DOMAIN epoch : epoch'[i].effectiveBond = epoch[i].effectiveBond
SameStaking ==
    \A i \in DOMAIN epoch :
        /\ epoch'[i].totalStakingIncentives = epoch[i].totalStakingIncentives
        /\ epoch'[i].availableStakingIncentives = epoch[i].availableStakingIncentives

\* The running epoch is a row.
LEMMA RunningRow ==
    ASSUME IInv, epochCounter > 1
    PROVE  epochCounter \in DOMAIN epoch /\ epochCounter \in Nat
BY EpochAssumption DEF IInv, TypeOK, Calendar

\* An item changes a total and nothing else.
LEMMA ItemKeeps ==
    ASSUME IInv, NEW t, NEW amount, epoch' = Booked(t, amount)
    PROVE  DOMAIN epoch' = DOMAIN epoch /\ SameBonds /\ SameStaking
<1>1. DOMAIN epoch' = DOMAIN epoch
  BY DEF Booked
<1>2. ASSUME NEW i \in DOMAIN epoch
      PROVE  /\ epoch'[i].effectiveBond = epoch[i].effectiveBond
             /\ epoch'[i].totalStakingIncentives = epoch[i].totalStakingIncentives
             /\ epoch'[i].availableStakingIncentives = epoch[i].availableStakingIncentives
  <2>. DEFINE new == [epoch[i].total EXCEPT ![t] = @ + amount]
  <2>1. epoch'[i] = epoch[i] \/ epoch'[i] = [epoch[i] EXCEPT !.total = new]
    BY DEF Booked
  <2>2. epoch[i] \in EpochRow
    BY RowTyped DEF IInv
  <2>. HIDE DEF new
  <2>. QED  BY <2>1, <2>2 DEF EpochRow
<1>. QED  BY <1>1, <1>2 DEF SameBonds, SameStaking

\* A capacity log changes the capacity of the row it finds and nothing else.
LEMMA BondKeeps ==
    ASSUME IInv, NEW e, NEW bond, epoch' = WithBond(e, bond)
    PROVE  /\ DOMAIN epoch' = DOMAIN epoch /\ SameStaking
           /\ e \in DOMAIN epoch => epoch'[e].effectiveBond = bond
           /\ \A i \in DOMAIN epoch \ {e} : epoch'[i] = epoch[i]
<1>1. DOMAIN epoch' = DOMAIN epoch /\ \A i \in DOMAIN epoch \ {e} : epoch'[i] = epoch[i]
  BY DEF WithBond
<1>2. ASSUME e \in DOMAIN epoch
      PROVE  /\ epoch'[e].effectiveBond = bond
             /\ epoch'[e].totalStakingIncentives = epoch[e].totalStakingIncentives
             /\ epoch'[e].availableStakingIncentives = epoch[e].availableStakingIncentives
  BY <1>2, RowTyped DEF WithBond, IInv, EpochRow
<1>. QED  BY <1>1, <1>2 DEF SameStaking

\* The row a settlement opens has the capacity the eth_call answers with.
LEMMA NextCapacity ==
    ASSUME IInv, NEW topUps \in Amounts, NEW staking \in Amounts \cup {0},
           handleEpochSettled(topUps, staking)
    PROVE  epoch'[epochCounter + 1].effectiveBond = blockEndBond
<1>. DEFINE n == epochCounter
            ended == SettledRow(n, topUps, staking)
            next == NextRow(n, topUps)
<1>1. n \in Nat /\ epoch' = Put(Put(epoch, n + 1, next), n, ended)
  BY EpochAssumption DEF handleEpochSettled, handleEpochSave, IInv, TypeOK
<1>2. next.effectiveBond = blockEndBond
  BY DEF NextRow, NewEpoch
<1>. HIDE DEF n, ended, next
<1>3. epoch'[n + 1] = next
  BY <1>1 DEF Put
<1>. QED  BY <1>2, <1>3 DEF n

LEMMA CapacityStep == IInv /\ CapacityKnown /\ [Next]_vars => CapacityKnown'
<1>. SUFFICES ASSUME IInv, CapacityKnown, [Next]_vars PROVE CapacityKnown'
  OBVIOUS
<1>1. ASSUME NEW topUps \in Amounts, NEW staking \in Amounts \cup {0},
             handleEpochSettled(topUps, staking)
      PROVE  CapacityKnown'
  BY <1>1, NextCapacity DEF handleEpochSettled, CapacityKnown
<1>2. ASSUME NEW bond \in Bonds, handleEffectiveBondUpdated(bond) PROVE CapacityKnown'
  <2>1. /\ ~upgraded /\ effectiveBond' = bond /\ epoch' = WithBond(findEpochId(block), bond)
        /\ UNCHANGED <<block, epochCounter, settledAt, upgraded, blockEndBond>>
    BY <1>2 DEF handleEffectiveBondUpdated
  <2>. SUFFICES ASSUME epochCounter > 1 PROVE CapacityKnown'
    BY <2>1 DEF CapacityKnown
  <2>2. findEpochId(block) = EpochOfBlock /\ epochCounter \in DOMAIN epoch /\ epochCounter \in Nat
    BY FoundCurrent, RunningRow DEF IInv
  <2>3. CASE settledAt = block BY <2>2, <2>3, <2>1, BondKeeps DEF EpochOfBlock, CapacityKnown
  <2>4. CASE settledAt # block BY <2>2, <2>4, <2>1, BondKeeps DEF EpochOfBlock, CapacityKnown
  <2>. QED  BY <2>3, <2>4
<1>3. ASSUME NEW bond \in Bonds, handleEffectiveBondUpdatedV2(bond) PROVE CapacityKnown'
  BY <1>3, RunningRow, BondKeeps DEF handleEffectiveBondUpdatedV2, CapacityKnown
<1>4. ASSUME SameBonds, UNCHANGED <<block, epochCounter, settledAt, effectiveBond, blockEndBond>>,
             upgraded => upgraded'
      PROVE  CapacityKnown'
  BY <1>4, RunningRow DEF CapacityKnown, SameBonds
<1>5. ASSUME UNCHANGED <<epoch, block, epochCounter, settledAt, effectiveBond, blockEndBond>>,
             upgraded => upgraded'
      PROVE  CapacityKnown'
  BY <1>5 DEF CapacityKnown
<1>6. ASSUME NEW t, NEW amount, Item(t, amount) PROVE CapacityKnown'
  BY <1>4, <1>6, ItemKeeps DEF Item, chain
<1>7. ASSUME NEW batch \in SUBSET Nominees, NEW amount \in Amounts,
             NEW upTo \in [batch -> 1 .. MaxEpoch + 1], NEW answer \in [batch -> 1 .. MaxEpoch + 1],
             handleStakingIncentivesClaimed(upTo, answer, amount)
      PROVE  CapacityKnown'
  <2>1. /\ epoch' = StakingBooked(answer, amount)
        /\ UNCHANGED <<block, epochCounter, settledAt, upgraded, effectiveBond, blockEndBond>>
    BY <1>7 DEF handleStakingIncentivesClaimed
  <2>2. ASSUME NEW i \in DOMAIN epoch PROVE epoch'[i].effectiveBond = epoch[i].effectiveBond
    <3>. DEFINE booked == amount * Cardinality({x \in DOMAIN answer : EpochOfClaim(answer[x]) = i})
                sum == epoch[i].totalStakingIncentives + booked
                rest == epoch[i].availableStakingIncentives - booked
    <3>1. epoch'[i] = [epoch[i] EXCEPT !.totalStakingIncentives = sum,
                                       !.availableStakingIncentives = rest]
      BY <2>1 DEF StakingBooked
    <3>2. epoch[i] \in EpochRow
      BY RowTyped DEF IInv
    <3>. HIDE DEF sum, rest
    <3>. QED  BY <3>1, <3>2 DEF EpochRow
  <2>. QED  BY <1>4, <2>1, <2>2 DEF SameBonds
<1>8. CASE NextBlock
  <2>1. /\ block' = block + 1 /\ effectiveBond = blockEndBond
        /\ UNCHANGED <<epochCounter, settledAt, upgraded, effectiveBond, epoch>>
    BY <1>8 DEF NextBlock, store
  <2>. SUFFICES ASSUME epochCounter > 1 PROVE CapacityKnown'
    BY <2>1 DEF CapacityKnown
  <2>2. settledAt \in Nat /\ block \in Nat /\ settledAt <= block
    BY DEF IInv, TypeOK, Calendar, BlockOrNull, Null
  <2>. QED  BY <2>1, <2>2 DEF CapacityKnown
<1>9. CASE Upgrade
  BY <1>5, <1>9 DEF Upgrade, store
<1>10. ASSUME NEW maturity, NEW amount, handleCreateBond(maturity, amount) PROVE CapacityKnown'
  BY <1>5, <1>10 DEF handleCreateBond, chain
<1>11. CASE UNCHANGED vars
  BY <1>5, <1>11 DEF vars, chain, store
<1>. QED
  BY <1>1, <1>2, <1>3, <1>6, <1>7, <1>8, <1>9, <1>10, <1>11
  DEF Next, handleCreateProduct, handleDevIncentiveSave, handleTransfer

\* When the last log of a block is handled, the running epoch has the capacity
\* the contract has, in whichever order its logs came.
THEOREM CapacityIsOfLastEvent == Spec => []CapacityOfLastEvent
<1>1. Init => CapacityKnown
  BY DEF Init, CapacityKnown
<1>2. IInv /\ CapacityKnown /\ [Next]_vars => CapacityKnown'
  BY CapacityStep
<1>3. CapacityKnown => CapacityOfLastEvent
  BY DEF CapacityKnown, CapacityOfLastEvent
<1>. QED  BY <1>1, <1>2, <1>3, IInvInvariant, PTL DEF Spec
-----------------------------------------------------------------------------
(* The split of an epoch's staking incentives. *)

\* Epochs are settled in order; one that is not has nothing claimed for it,
\* and nothing booked.
StakingBooks ==
    /\ DOMAIN settled = 1 .. epochCounter - 1
    /\ settled \in [DOMAIN settled -> Nat]
    /\ claimed \in [1 .. MaxEpoch + 1 -> Nat]
    /\ \A e \in epochCounter .. MaxEpoch + 1 : claimed[e] = 0
    /\ epochCounter > 1 => epoch[epochCounter].totalStakingIncentives = 0

SplitInv == StakingBooks /\ StakingSplit

LEMMA SplitSame ==
    ASSUME IInv, SplitInv, SameStaking, UNCHANGED <<epochCounter, settled, claimed>>
    PROVE  SplitInv'
BY RunningRow, EpochAssumption DEF SplitInv, StakingBooks, SameStaking, IInv, TypeOK, Calendar,
    StakingSplit

\* The row that is settled has nothing booked to it yet.
LEMMA OpenedEmpty ==
    ASSUME IInv, StakingBooks
    PROVE  Opened(epochCounter).totalStakingIncentives = 0
<1>1. CASE epochCounter = 1 BY <1>1 DEF IInv, Calendar, Opened, LoadOr, NewEpoch
<1>2. CASE epochCounter # 1
  BY <1>2, EpochAssumption, RunningRow DEF IInv, TypeOK, Opened, LoadOr, StakingBooks
<1>. QED  BY <1>1, <1>2

LEMMA SplitSettled ==
    ASSUME IInv, SplitInv, NEW topUps \in Amounts, NEW staking \in Amounts \cup {0},
           handleEpochSettled(topUps, staking)
    PROVE  SplitInv'
<1>. DEFINE n == epochCounter
<1>1. /\ n \in Nat /\ 1 <= n /\ n <= MaxEpoch /\ epochCounter' = n + 1
      /\ \A i \in 1 .. n - 1 : epoch'[i] = epoch[i]
      /\ epoch'[n].availableStakingIncentives = staking
      /\ epoch'[n].totalStakingIncentives = Opened(n).totalStakingIncentives
      /\ epoch'[n+1].totalStakingIncentives = 0
  BY SettledRows
<1>2. epoch'[n].totalStakingIncentives = 0
  BY <1>1, OpenedEmpty DEF SplitInv
<1>3. settled' = Put(settled, n, staking) /\ claimed' = claimed /\ staking \in Nat
  BY AmountAssumption DEF handleEpochSettled
<1>4. /\ DOMAIN settled = 1 .. n - 1 /\ settled \in [DOMAIN settled -> Nat]
      /\ claimed \in [1 .. MaxEpoch + 1 -> Nat]
      /\ \A e \in n .. MaxEpoch + 1 : claimed[e] = 0
  BY DEF SplitInv, StakingBooks
<1>5. \A e \in 1 .. n - 1 :
          /\ epoch[e].totalStakingIncentives = claimed[e]
          /\ epoch[e].availableStakingIncentives = settled[e] - claimed[e]
  BY <1>4 DEF SplitInv, StakingSplit
<1>. HIDE DEF n
<1>6. /\ DOMAIN settled' = 1 .. n /\ settled'[n] = staking
      /\ settled' \in [1 .. n -> Nat]
      /\ \A e \in 1 .. n - 1 : settled'[e] = settled[e]
  BY <1>1, <1>3, <1>4 DEF Put
<1>7. n \in 1 .. MaxEpoch + 1 /\ claimed[n] = 0
  BY <1>1, <1>4, EpochAssumption
<1>8. StakingBooks'
  BY <1>1, <1>3, <1>4, <1>6 DEF StakingBooks
<1>9. ASSUME NEW e \in 1 .. n
      PROVE  /\ epoch'[e].totalStakingIncentives = claimed[e]
             /\ epoch'[e].availableStakingIncentives = settled'[e] - claimed[e]
  <2>1. CASE e = n
    BY <2>1, <1>1, <1>2, <1>3, <1>6, <1>7
  <2>2. CASE e \in 1 .. n - 1
    BY <2>2, <1>1, <1>5, <1>6
  <2>. QED  BY <2>1, <2>2, <1>1
<1>10. StakingSplit'
  BY <1>3, <1>6, <1>9 DEF StakingSplit
<1>. QED  BY <1>8, <1>10 DEF SplitInv

\* When no nominee claims twice in a block, the eth_call answers with the epoch
\* of the claim.
LEMMA AnswerIsUpTo ==
    ASSUME ~ClaimAgain, NEW batch \in SUBSET Nominees, NEW amount \in Amounts,
           NEW upTo \in [batch -> 1 .. MaxEpoch + 1], NEW answer \in [batch -> 1 .. MaxEpoch + 1],
           handleStakingIncentivesClaimed(upTo, answer, amount)
    PROVE  answer = upTo /\ \A x \in batch : upTo[x] <= epochCounter
<1>1. ASSUME NEW x \in batch PROVE answer[x] = upTo[x] /\ upTo[x] <= epochCounter
  BY DEF handleStakingIncentivesClaimed, ClaimAnswers
<1>. QED  BY <1>1

LEMMA SplitClaimed ==
    ASSUME IInv, SplitInv, ~ClaimAgain, NEW batch \in SUBSET Nominees, NEW amount \in Amounts,
           NEW upTo \in [batch -> 1 .. MaxEpoch + 1], NEW answer \in [batch -> 1 .. MaxEpoch + 1],
           handleStakingIncentivesClaimed(upTo, answer, amount)
    PROVE  SplitInv'
<1>. DEFINE who(i) == {x \in batch : upTo[x] - 1 = i}
            sum == [i \in Int |-> amount * Cardinality(who(i))]
<1>1. answer = upTo /\ \A x \in batch : upTo[x] <= epochCounter /\ upTo[x] \in Nat
  BY AnswerIsUpTo, EpochAssumption
<1>2. /\ UNCHANGED <<epochCounter, settled>> /\ epoch' = StakingBooked(answer, amount)
      /\ claimed' = [e \in DOMAIN claimed |->
            claimed[e] + amount * Cardinality({x \in DOMAIN upTo : upTo[x] - 1 = e})]
  BY DEF handleStakingIncentivesClaimed
<1>3. epochCounter \in Nat /\ 1 <= epochCounter /\ epochCounter <= MaxEpoch + 1
      /\ DOMAIN epoch = IF epochCounter = 1 THEN {} ELSE 1 .. epochCounter
  BY EpochAssumption DEF IInv, TypeOK, Calendar
<1>4. ASSUME NEW i \in Int PROVE sum[i] = amount * Cardinality(who(i)) /\ sum[i] \in Nat
  <2>1. Cardinality(who(i)) \in Nat
    BY NomineeAssumption, FS_Subset, FS_CardinalityType
  <2>2. amount \in Nat
    BY AmountAssumption
  <2>3. sum[i] = amount * Cardinality(who(i))
    OBVIOUS
  <2>. HIDE DEF who
  <2>. QED  BY <2>1, <2>2, <2>3
<1>5. ASSUME NEW i \in Int, i >= epochCounter PROVE sum[i] = 0
  <2>1. who(i) = {}
    BY <1>1, <1>3, <1>5
  <2>2. Cardinality(who(i)) = 0
    BY <2>1, FS_EmptySet
  <2>3. amount \in Nat
    BY AmountAssumption
  <2>. HIDE DEF who
  <2>. QED  BY <2>2, <2>3
<1>6. ASSUME NEW e \in DOMAIN claimed, e \in Int PROVE claimed'[e] = claimed[e] + sum[e]
  BY <1>2, <1>6
<1>7. ASSUME NEW i \in DOMAIN epoch
      PROVE  /\ i \in Int
             /\ epoch'[i].totalStakingIncentives = epoch[i].totalStakingIncentives + sum[i]
             /\ epoch'[i].availableStakingIncentives = epoch[i].availableStakingIncentives - sum[i]
  <2>1. {x \in batch : EpochOfClaim(answer[x]) = i} = who(i)
    BY <1>1 DEF EpochOfClaim
  <2>2. i \in Int
    BY <1>3
  <2>3. TypeOK
    BY DEF IInv
  <2>. HIDE DEF who
  <2>. QED  BY <1>2, <2>1, <2>2, <2>3, ClaimedRows
<1>. HIDE DEF sum, who
<1>8. DOMAIN claimed = 1 .. MaxEpoch + 1 /\ DOMAIN claimed' = 1 .. MaxEpoch + 1
      /\ claimed' = [e \in 1 .. MaxEpoch + 1 |-> claimed'[e]]
  BY <1>2 DEF SplitInv, StakingBooks
<1>9. StakingBooks'
  <2>1. ASSUME NEW e \in 1 .. MaxEpoch + 1
        PROVE  /\ claimed'[e] \in Nat
               /\ e >= epochCounter => claimed'[e] = 0
    <3>1. e \in Int /\ claimed'[e] = claimed[e] + sum[e] /\ claimed[e] \in Nat
      BY <1>6, <1>8, EpochAssumption DEF SplitInv, StakingBooks
    <3>2. e >= epochCounter => claimed[e] = 0 /\ sum[e] = 0
      BY <3>1, <1>3, <1>5, EpochAssumption DEF SplitInv, StakingBooks
    <3>. QED  BY <3>1, <3>2, <1>4
  <2>2. claimed' \in [1 .. MaxEpoch + 1 -> Nat]
    BY <2>1, <1>8
  <2>3. \A e \in epochCounter .. MaxEpoch + 1 : claimed'[e] = 0
    BY <2>1, <1>3, EpochAssumption
  <2>4. epochCounter > 1 => epoch'[epochCounter].totalStakingIncentives = 0
    BY <1>3, <1>5, <1>7 DEF SplitInv, StakingBooks
  <2>. QED  BY <1>2, <2>2, <2>3, <2>4 DEF SplitInv, StakingBooks
<1>10. StakingSplit'
  <2>. SUFFICES ASSUME NEW e \in DOMAIN settled
                PROVE  /\ epoch'[e].totalStakingIncentives = claimed'[e]
                       /\ epoch'[e].availableStakingIncentives = settled[e] - claimed'[e]
    BY <1>2 DEF StakingSplit
  <2>1. e \in 1 .. epochCounter - 1
    BY DEF SplitInv, StakingBooks
  <2>2. e \in DOMAIN epoch /\ e \in DOMAIN claimed /\ e \in Int
    BY <2>1, <1>3, <1>8, EpochAssumption
  <2>3. claimed[e] \in Nat /\ settled[e] \in Nat /\ sum[e] \in Nat
    BY <2>2, <1>4, <1>8 DEF SplitInv, StakingBooks
  <2>4. /\ epoch[e].totalStakingIncentives = claimed[e]
        /\ epoch[e].availableStakingIncentives = settled[e] - claimed[e]
    BY DEF SplitInv, StakingSplit
  <2>. QED  BY <2>2, <2>3, <2>4, <1>6, <1>7
<1>. QED  BY <1>9, <1>10 DEF SplitInv

LEMMA SplitStep == ~ClaimAgain /\ IInv /\ SplitInv /\ [Next]_vars => SplitInv'
<1>. SUFFICES ASSUME ~ClaimAgain, IInv, SplitInv, [Next]_vars PROVE SplitInv'
  OBVIOUS
<1>1. ASSUME NEW t, NEW amount, Item(t, amount) PROVE SplitInv'
  BY <1>1, SplitSame, ItemKeeps DEF Item, chain
<1>2. ASSUME NEW bond \in Bonds,
             handleEffectiveBondUpdated(bond) \/ handleEffectiveBondUpdatedV2(bond)
      PROVE  SplitInv'
  BY <1>2, SplitSame, BondKeeps DEF handleEffectiveBondUpdated, handleEffectiveBondUpdatedV2,
      ghosts
<1>3. ASSUME UNCHANGED <<epoch, epochCounter, settled, claimed>> PROVE SplitInv'
  BY <1>3, SplitSame DEF SameStaking
<1>4. CASE NextBlock \/ Upgrade \/ UNCHANGED vars
  BY <1>3, <1>4 DEF NextBlock, Upgrade, vars, chain, ghosts, store
<1>5. ASSUME NEW maturity, NEW amount, handleCreateBond(maturity, amount) PROVE SplitInv'
  BY <1>3, <1>5 DEF handleCreateBond, chain
<1>. QED
  BY <1>1, <1>2, <1>4, <1>5, SplitSettled, SplitClaimed
  DEF Next, handleCreateProduct, handleDevIncentiveSave, handleTransfer

\* When no nominee claims twice in a block, a settled epoch's staking
\* incentives are what was claimed for it and what is left of them.
THEOREM StakingAlwaysSplit == ASSUME ~ClaimAgain PROVE Spec => []StakingSplit
<1>1. Init => SplitInv BY DEF Init, NoRows, SplitInv, StakingBooks, StakingSplit
<1>2. IInv /\ SplitInv /\ [Next]_vars => SplitInv'
  BY SplitStep
<1>3. SplitInv => StakingSplit
  BY DEF SplitInv
<1>. QED  BY <1>1, <1>2, <1>3, IInvInvariant, PTL DEF Spec

-----------------------------------------------------------------------------
(* tokenomics-eth and tokenomics-l2: the holders of OLAS and the locks of  *)
(* veOLAS.                                                                 *)

CONSTANTS OlasAccounts, VeOlas, Zero, OnEthereum, OlasAmounts, MaxSupply
VARIABLES olasBalance, locked, pendingLog, token, veToken, holder, depositor, veolasHolderCount

Tok == INSTANCE TokenHolders WITH
    Accounts <- OlasAccounts, Amounts <- OlasAmounts, balance <- olasBalance

\* The sums of TokenHolders are the library's.
LEMMA TokSum == ASSUME NEW f PROVE Tok!SumFunction(f) = SumFunction(f)
<1>1. ASSUME NEW S PROVE Tok!SumFunctionOnSet(f, S) = (CHOOSE g : AddsUp(f, S, g))[S]
  BY DEF Tok!SumFunctionOnSet, Tok!FoldFunctionOnSet, Tok!MapThenFoldSet, AddsUp, FirstOf
<1>. QED  BY <1>1, SumIsFold DEF Tok!SumFunction, SumFunction

\* The ids with a positive value.
Having(f) == {a \in DOMAIN f : f[a] > 0}

\* The function `g' is `f' with `d' more at `k'.
MovedAt(g, f, S, k, d) == \A a \in S : g[a] = IF a = k THEN f[a] + d ELSE f[a]

\* One value moves: so do the sum and the number of those that have something.
LEMMA OneMoved ==
    ASSUME NEW S, IsFiniteSet(S), NEW f \in [S -> Nat], NEW k \in S, NEW d \in Int, f[k] + d >= 0,
           NEW g \in [S -> Int], MovedAt(g, f, S, k, d)
    PROVE  /\ g \in [S -> Nat] /\ SumFunction(g) = SumFunction(f) + d /\ SumFunction(f) \in Int
           /\ Cardinality(Having(f)) \in Nat
           /\ Cardinality(Having(g)) = Cardinality(Having(f))
                 + (IF f[k] = 0 /\ f[k] + d > 0 THEN 1 ELSE 0)
                 - (IF f[k] > 0 /\ f[k] + d = 0 THEN 1 ELSE 0)
<1>0. \A a \in S : g[a] = IF a = k THEN f[a] + d ELSE f[a] BY DEF MovedAt
<1>1. f[k] \in Nat /\ f[k] + d \in Nat /\ g \in [S -> Nat] BY <1>0
<1>2. /\ SumFunction(g) = SumFunction(f) + g[k] - (IF k \in DOMAIN f THEN f[k] ELSE 0)
      /\ SumFunction(f) \in Int
  BY <1>0, <1>1, SumPut
<1>3. SumFunction(g) = SumFunction(f) + d BY <1>0, <1>1, <1>2, d \in Int
<1>4. PICK H : H = Having(f) OBVIOUS
<1>5. IsFiniteSet(H) /\ Cardinality(H) \in Nat BY <1>4, FS_Subset, FS_CardinalityType DEF Having
<1>6. CASE f[k] = 0 /\ f[k] + d > 0
  <2>1. Having(g) = H \cup {k} /\ k \notin H BY <1>0, <1>1, <1>4, <1>6 DEF Having
  <2>2. Cardinality(Having(g)) = Cardinality(H) + 1 BY <2>1, <1>5, FS_AddElement
  <2>3. ~(f[k] > 0) BY <1>6
  <2>. QED  BY <1>1, <1>2, <1>3, <1>4, <1>5, <1>6, <2>2, <2>3
<1>7. CASE f[k] > 0 /\ f[k] + d = 0
  <2>1. Having(g) = H \ {k} /\ k \in H BY <1>0, <1>1, <1>4, <1>7 DEF Having
  <2>2. Cardinality(Having(g)) = Cardinality(H) - 1 BY <2>1, <1>5, FS_RemoveElement
  <2>3. ~(f[k] = 0) BY <1>7
  <2>. QED  BY <1>1, <1>2, <1>3, <1>4, <1>5, <1>7, <2>2, <2>3
<1>8. CASE ~(f[k] = 0 /\ f[k] + d > 0) /\ ~(f[k] > 0 /\ f[k] + d = 0)
  <2>1. f[k] > 0 <=> f[k] + d > 0 BY ONLY <1>1, <1>8
  <2>2. Having(g) = H BY <1>0, <1>1, <1>4, <2>1 DEF Having
  <2>. QED  BY <1>1, <1>2, <1>3, <1>4, <1>5, <1>8, <2>2
<1>. QED  BY <1>6, <1>7, <1>8

\* What the contracts hold, and the tables.
HoldersTyped ==
    /\ olasBalance \in [Tok!Holders -> Nat] /\ locked \in [OlasAccounts -> Nat]
    /\ pendingLog \in OlasAccounts \cup {Zero}
    /\ DOMAIN token = {"balance", "holderCount"}
    /\ DOMAIN holder \subseteq Tok!Holders /\ DOMAIN depositor \subseteq OlasAccounts

\* What the rows say of the balances.
BalancesHeld ==
    /\ \A a \in Tok!Holders : LoadOr(holder, a, 0) = olasBalance[a]
    /\ token.balance = SumFunction(olasBalance)
    /\ token.holderCount = Cardinality(Having(olasBalance))

Depositors == {a \in OlasAccounts : LoadOr(depositor, a, FALSE) = TRUE}

\* What is locked is in veOLAS, and its accounts are the depositors, but for the
\* one whose Deposit is the next log.
LocksHeld ==
    /\ ~OnEthereum => pendingLog = Zero /\ \A a \in OlasAccounts : locked[a] = 0
    /\ OnEthereum => veToken = olasBalance[VeOlas]
    /\ SumFunction(locked) <= olasBalance[VeOlas]
    /\ veolasHolderCount = Cardinality(Depositors)
    /\ \A a \in OlasAccounts : a # pendingLog => (a \in Depositors <=> locked[a] > 0)
    /\ pendingLog # Zero => locked[pendingLog] > 0

HoldersInv == HoldersTyped /\ BalancesHeld /\ LocksHeld

\* There are finitely many holders.
LEMMA HoldersFinite ==
    ASSUME Tok!HoldersAssumption
    PROVE  /\ IsFiniteSet(OlasAccounts) /\ IsFiniteSet(Tok!Holders)
           /\ OlasAccounts \subseteq Tok!Holders /\ VeOlas \in Tok!Holders
           /\ Zero \notin Tok!Holders /\ OlasAmounts \subseteq Nat /\ VeOlas \notin OlasAccounts
<1>1. IsFiniteSet(OlasAccounts)
  BY DEF Tok!HoldersAssumption, Tok!IsFiniteSet, IsFiniteSet
<1>2. IsFiniteSet(OlasAccounts \cup {VeOlas}) BY ONLY <1>1, FS_AddElement
<1>. QED  BY <1>1, <1>2 DEF Tok!HoldersAssumption, Tok!Holders

\* It holds before the first log.
LEMMA HoldersInit == ASSUME Tok!HoldersAssumption, Tok!Init PROVE HoldersInv
<1>1. /\ olasBalance = [a \in Tok!Holders |-> 0] /\ locked = [a \in OlasAccounts |-> 0]
      /\ pendingLog = Zero /\ token = [balance |-> 0, holderCount |-> 0] /\ veToken = 0
      /\ DOMAIN holder = {} /\ DOMAIN depositor = {} /\ veolasHolderCount = 0
  BY DEF Tok!Init, Tok!NoRows
<1>2. HoldersTyped BY <1>1 DEF HoldersTyped
<1>3. SumFunction(olasBalance) = 0 /\ SumFunction(locked) = 0
  BY <1>1, HoldersFinite, SumOfZeros
<1>4. Having(olasBalance) = {} /\ Depositors = {} BY <1>1 DEF Having, Depositors, LoadOr
<1>5. BalancesHeld BY <1>1, <1>3, <1>4, FS_EmptySet DEF BalancesHeld, LoadOr
<1>6. LocksHeld BY <1>1, <1>3, <1>4, FS_EmptySet, HoldersFinite DEF LocksHeld
<1>. QED  BY <1>2, <1>5, <1>6 DEF HoldersInv

\* A row of a holder that is saved with another amount.
LEMMA HolderSaved ==
    ASSUME NEW rows, DOMAIN rows \subseteq Tok!Holders, NEW f \in [Tok!Holders -> Nat],
           \A a \in Tok!Holders : LoadOr(rows, a, 0) = f[a],
           NEW k \in Tok!Holders, NEW n, NEW next, next = Put(rows, k, n)
    PROVE  /\ DOMAIN next \subseteq Tok!Holders /\ next[k] = n
           /\ \A a \in Tok!Holders : LoadOr(next, a, 0) = IF a = k THEN n ELSE f[a]
BY DEF Put, LoadOr

\* The balances after a transfer.
OlasMoved(from, to, n) ==
    [a \in Tok!Holders |-> olasBalance[a] + (IF a = to THEN n ELSE 0) - (IF a = from THEN n ELSE 0)]

\* A transfer: first the sender's row, then the receiver's, which may be the same.
LEMMA TransferHeld ==
    ASSUME Tok!HoldersAssumption, HoldersTyped, BalancesHeld,
           NEW from \in Tok!Holders \cup {Zero}, NEW to \in Tok!Holders \cup {Zero},
           ~(from = Zero /\ to = Zero), NEW n \in Nat, from # Zero => n <= olasBalance[from],
           Tok!handleTransferBalances(from, to, n), olasBalance' = OlasMoved(from, to, n)
    PROVE  /\ olasBalance' \in [Tok!Holders -> Nat] /\ DOMAIN holder' \subseteq Tok!Holders
           /\ DOMAIN token' = {"balance", "holderCount"} /\ BalancesHeld'
<1>1. /\ IsFiniteSet(Tok!Holders) /\ Zero \notin Tok!Holders /\ olasBalance \in [Tok!Holders -> Nat]
      /\ DOMAIN holder \subseteq Tok!Holders
      /\ \A a \in Tok!Holders : LoadOr(holder, a, 0) = olasBalance[a]
  BY HoldersFinite DEF HoldersTyped, BalancesHeld
<1>2. PICK f, sent : f = olasBalance /\ sent = Tok!SavedFrom(from, n) OBVIOUS
<1>3. PICK mid : mid = [a \in Tok!Holders |-> IF a = from THEN f[a] + (-n) ELSE f[a]] OBVIOUS
<1>4. PICK left \in {0, 1} :
          /\ left = IF from # Zero /\ LoadOr(holder, from, 0) > 0 /\ sent[from] = 0 THEN 1 ELSE 0
  OBVIOUS
<1>5. /\ mid \in [Tok!Holders -> Nat] /\ DOMAIN sent \subseteq Tok!Holders
      /\ \A a \in Tok!Holders : LoadOr(sent, a, 0) = mid[a]
      /\ SumFunction(f) \in Int /\ Cardinality(Having(f)) \in Int
      /\ SumFunction(mid) = SumFunction(f) - (IF from = Zero THEN 0 ELSE n)
      /\ Cardinality(Having(mid)) = Cardinality(Having(f)) - left
  <2>1. CASE from = Zero
    <3>1. mid = f /\ sent = holder /\ left = 0
      BY <1>1, <1>2, <1>3, <1>4, <2>1 DEF Tok!SavedFrom
    <3>2. SumFunction(f) \in Int BY <1>1, <1>2, SumFunctionType
    <3>3. Cardinality(Having(f)) \in Nat BY <1>1, <1>2, FS_Subset, FS_CardinalityType DEF Having
    <3>. QED  BY <2>1, <3>1, <3>2, <3>3, <1>1, <1>2
  <2>2. CASE from # Zero
    <3>1. from \in Tok!Holders /\ n <= f[from] /\ f \in [Tok!Holders -> Nat] /\ f[from] \in Nat
      BY <2>2, <1>1, <1>2
    <3>2. PICK rows : rows = holder OBVIOUS
    <3>3. sent = Put(rows, from, f[from] - n)
      BY <2>2, <1>1, <1>2, <3>1, <3>2 DEF Tok!SavedFrom, Tok!Put, Tok!LoadOr, Put, LoadOr
    <3>4. /\ DOMAIN sent \subseteq Tok!Holders /\ sent[from] = f[from] - n
          /\ \A a \in Tok!Holders : LoadOr(sent, a, 0) = IF a = from THEN f[from] - n ELSE f[a]
      BY <1>1, <1>2, <3>2, <3>1, <3>3, HolderSaved
    <3>5. -n \in Int /\ f[from] + (-n) >= 0 /\ f[from] + (-n) = f[from] - n BY ONLY <3>1, n \in Nat
    <3>11. mid \in [Tok!Holders -> Int] /\ MovedAt(mid, f, Tok!Holders, from, -n)
      BY ONLY <1>3, <3>1, <3>5 DEF MovedAt
    <3>6. /\ mid \in [Tok!Holders -> Nat] /\ SumFunction(mid) = SumFunction(f) + (-n)
          /\ SumFunction(f) \in Int /\ Cardinality(Having(f)) \in Nat
          /\ Cardinality(Having(mid)) = Cardinality(Having(f))
                + (IF f[from] = 0 /\ f[from] + (-n) > 0 THEN 1 ELSE 0)
                - (IF f[from] > 0 /\ f[from] + (-n) = 0 THEN 1 ELSE 0)
      BY ONLY <1>1, <3>1, <3>5, <3>11, OneMoved
    <3>7. left = IF f[from] > 0 /\ f[from] + (-n) = 0 THEN 1 ELSE 0
      BY <1>1, <1>2, <1>4, <2>2, <3>1, <3>4, <3>5
    <3>8. ~(f[from] = 0 /\ f[from] + (-n) > 0) BY ONLY <3>1, n \in Nat
    <3>9. \A a \in Tok!Holders : LoadOr(sent, a, 0) = mid[a] BY <1>3, <3>4, <3>5
    <3>10. /\ SumFunction(mid) = SumFunction(f) - n
           /\ Cardinality(Having(mid)) = Cardinality(Having(f)) - left
      BY ONLY <3>6, <3>7, <3>8, n \in Nat
    <3>. QED  BY <2>2, <3>4, <3>6, <3>9, <3>10
  <2>. QED  BY <2>1, <2>2
<1>6. PICK last, joined : /\ last = olasBalance'
                          /\ joined = IF to # Zero /\ LoadOr(sent, to, 0) = 0 /\ n > 0 THEN 1 ELSE 0
  OBVIOUS
<1>7. holder' = Tok!SavedTo(sent, to, n) BY <1>2 DEF Tok!handleTransferBalances
<1>8. last = [a \in Tok!Holders |-> IF a = to THEN mid[a] + n ELSE mid[a]]
  <2>1. ASSUME NEW a \in Tok!Holders
        PROVE  f[a] + (IF a = to THEN n ELSE 0) - (IF a = from THEN n ELSE 0)
                  = IF a = to THEN mid[a] + n ELSE mid[a]
    BY <1>1, <1>2, <1>3, n \in Nat
  <2>. QED  BY <1>2, <1>6, <2>1 DEF OlasMoved
<1>9. /\ last \in [Tok!Holders -> Nat] /\ DOMAIN holder' \subseteq Tok!Holders
      /\ \A a \in Tok!Holders : LoadOr(holder', a, 0) = last[a]
      /\ SumFunction(last) = SumFunction(mid) + (IF to = Zero THEN 0 ELSE n)
      /\ Cardinality(Having(last)) = Cardinality(Having(mid)) + joined
  <2>1. CASE to = Zero BY <1>1, <1>5, <1>6, <1>7, <1>8, <2>1 DEF Tok!SavedTo
  <2>2. CASE to # Zero
    <3>1. to \in Tok!Holders /\ mid[to] \in Nat BY <2>2, <1>5
    <3>2. PICK next : next = holder' OBVIOUS
    <3>3. next = Put(sent, to, mid[to] + n)
      BY <1>5, <3>1, <2>2, <1>7, <3>2 DEF Tok!SavedTo, Tok!Put, Tok!LoadOr, Put, LoadOr
    <3>4. /\ DOMAIN next \subseteq Tok!Holders
          /\ \A a \in Tok!Holders : LoadOr(next, a, 0) = IF a = to THEN mid[to] + n ELSE mid[a]
      BY ONLY <1>5, <3>1, <3>3, HolderSaved
    <3>5. n \in Int /\ mid[to] + n >= 0 BY <3>1
    <3>11. last \in [Tok!Holders -> Int] /\ MovedAt(last, mid, Tok!Holders, to, n)
      BY ONLY <1>5, <1>8, <3>1, <3>5 DEF MovedAt
    <3>6. /\ last \in [Tok!Holders -> Nat] /\ SumFunction(last) = SumFunction(mid) + n
          /\ Cardinality(Having(mid)) \in Nat
          /\ Cardinality(Having(last)) = Cardinality(Having(mid))
                + (IF mid[to] = 0 /\ mid[to] + n > 0 THEN 1 ELSE 0)
                - (IF mid[to] > 0 /\ mid[to] + n = 0 THEN 1 ELSE 0)
      BY ONLY <1>1, <1>5, <3>1, <3>5, <3>11, OneMoved
    <3>7. joined = IF mid[to] = 0 /\ n > 0 THEN 1 ELSE 0 BY <1>5, <1>6, <2>2, <3>1
    <3>8. Cardinality(Having(last)) = Cardinality(Having(mid)) + joined
      BY ONLY <3>1, <3>6, <3>7, n \in Nat
    <3>9. \A a \in Tok!Holders : LoadOr(next, a, 0) = last[a] BY <1>8, <3>4
    <3>. QED  BY <2>2, <3>2, <3>4, <3>6, <3>8, <3>9
  <2>. QED  BY <2>1, <2>2
<1>10. PICK change, minted : /\ change = joined - left
                             /\ minted = IF from = Zero THEN n ELSE IF to = Zero THEN -n ELSE 0
  OBVIOUS
<1>11. token' = Add(token, [balance |-> minted, holderCount |-> change])
  BY <1>2, <1>4, <1>6, <1>10 DEF Tok!HolderChange, Tok!LoadOr, LoadOr, Tok!handleTransferBalances,
      Tok!Add, Add
<1>12. PICK row : row = token OBVIOUS
<1>13. DOMAIN row = {"balance", "holderCount"} BY <1>12 DEF HoldersTyped
<1>14. PICK after : after = Add(row, [balance |-> minted, holderCount |-> change]) OBVIOUS
<1>15. /\ DOMAIN after = {"balance", "holderCount"} /\ after.balance = row.balance + minted
       /\ after.holderCount = row.holderCount + change
  BY ONLY <1>13, <1>14 DEF Add
<1>16. row.balance = SumFunction(f) /\ row.holderCount = Cardinality(Having(f))
  BY <1>2, <1>12 DEF BalancesHeld
<1>17. joined \in Int /\ left \in Int BY <1>6
<1>18. after.balance = SumFunction(last) /\ after.holderCount = Cardinality(Having(last))
  BY ONLY <1>5, <1>9, <1>10, <1>15, <1>16, <1>17, n \in Nat, ~(from = Zero /\ to = Zero)
<1>. QED  BY <1>6, <1>9, <1>11, <1>12, <1>14, <1>15, <1>18 DEF BalancesHeld

\* Sizes in TokenHolders are the library's.
LEMMA TokCardinality == ASSUME NEW S PROVE Tok!Cardinality(S) = Cardinality(S)
BY DEF Tok!Cardinality, Cardinality

\* No natural is more than the sum it is part of.
LEMMA TermWithinSum ==
    ASSUME NEW f, IsFiniteSet(DOMAIN f), \A x \in DOMAIN f : f[x] \in Nat, NEW a \in DOMAIN f
    PROVE  f[a] <= SumFunction(f) /\ SumFunction(f) \in Int
<1>1. PICK S, T : S = DOMAIN f /\ T = S \ {a} OBVIOUS
<1>2. /\ IsFiniteSet(S) /\ T \in SUBSET S /\ \A x \in S : f[x] \in Int /\ f[x] >= 0
      /\ f[a] \in Int /\ a \in S
  BY <1>1
<1>3. IsFiniteSet(T) BY ONLY <1>2, FS_Subset
<1>4. SumFunctionOnSet(f, T) >= 0 /\ SumFunctionOnSet(f, T) \in Int
      /\ SumFunctionOnSet(f, S) \in Int
  BY ONLY <1>2, <1>3, SumType
<1>5. SumFunctionOnSet(f, S) = f[a] + SumFunctionOnSet(f, S \ {a}) BY ONLY <1>2, SumRemove
<1>6. SumFunction(f) = SumFunctionOnSet(f, S) BY <1>1 DEF SumFunction
<1>. QED  BY <1>1, <1>2, <1>4, <1>5, <1>6

\* The sum of what is locked, after one lock has changed.
LEMMA LockMoved ==
    ASSUME Tok!HoldersAssumption, HoldersTyped, NEW a \in OlasAccounts, NEW d \in Int,
           locked[a] + d >= 0, NEW next \in [OlasAccounts -> Int],
           MovedAt(next, locked, OlasAccounts, a, d)
    PROVE  /\ next \in [OlasAccounts -> Nat] /\ SumFunction(next) = SumFunction(locked) + d
           /\ SumFunction(locked) \in Int /\ next[a] = locked[a] + d
           /\ \A b \in OlasAccounts : b # a => next[b] = locked[b]
<1>1. PICK f : f = locked OBVIOUS
<1>2. f \in [OlasAccounts -> Nat] /\ IsFiniteSet(OlasAccounts)
  BY <1>1, HoldersFinite DEF HoldersTyped
<1>3. f[a] + d >= 0 /\ MovedAt(next, f, OlasAccounts, a, d) BY <1>1
<1>5. /\ next \in [OlasAccounts -> Nat] /\ SumFunction(next) = SumFunction(f) + d
      /\ SumFunction(f) \in Int
  BY ONLY <1>2, <1>3, next \in [OlasAccounts -> Int], d \in Int, a \in OlasAccounts, OneMoved
<1>. QED  BY <1>1, <1>3, <1>5 DEF MovedAt

\* What one account has locked is part of what veOLAS holds.
LEMMA LockedWithinVeOlas ==
    ASSUME Tok!HoldersAssumption, HoldersInv, NEW a \in OlasAccounts
    PROVE  locked[a] \in Nat /\ locked[a] <= olasBalance[VeOlas] /\ olasBalance[VeOlas] \in Nat
BY HoldersFinite, TermWithinSum DEF HoldersTyped, HoldersInv, LocksHeld

\* What a transfer that is not of a lock leaves of the locks.
LEMMA TransferLeavesLocks ==
    ASSUME Tok!HoldersAssumption, HoldersInv,
           NEW from \in Tok!Holders \cup {Zero}, NEW to \in Tok!Holders \cup {Zero}, NEW n \in Nat,
           from # Zero => n <= olasBalance[from], ~(from = Zero /\ to = Zero),
           Tok!Transferred(from, to, n)
    PROVE  /\ olasBalance' \in [Tok!Holders -> Nat] /\ DOMAIN holder' \subseteq Tok!Holders
           /\ DOMAIN token' = {"balance", "holderCount"} /\ BalancesHeld'
           /\ olasBalance'[VeOlas] = olasBalance[VeOlas] + Tok!VeOlasChange(from, to, n)
           /\ OnEthereum => veToken' = olasBalance'[VeOlas]
           /\ depositor' = depositor /\ veolasHolderCount' = veolasHolderCount
           /\ Depositors' = Depositors /\ Tok!VeOlasChange(from, to, n) \in Int
<1>1. /\ Tok!handleTransferBalances(from, to, n) /\ olasBalance' = OlasMoved(from, to, n)
      /\ depositor' = depositor /\ veolasHolderCount' = veolasHolderCount
      /\ OnEthereum => veToken' = veToken + Tok!VeOlasChange(from, to, n)
  BY DEF Tok!Transferred, Tok!handleTransfer, Tok!handleTransferL2, Tok!handleTransferBalancesL2, OlasMoved
<1>2. /\ olasBalance' \in [Tok!Holders -> Nat] /\ DOMAIN holder' \subseteq Tok!Holders
      /\ DOMAIN token' = {"balance", "holderCount"} /\ BalancesHeld'
  BY <1>1, TransferHeld DEF HoldersInv
<1>3. /\ Tok!VeOlasChange(from, to, n) \in Int
      /\ olasBalance'[VeOlas] = olasBalance[VeOlas] + Tok!VeOlasChange(from, to, n)
  BY HoldersFinite, <1>1 DEF HoldersInv, HoldersTyped, OlasMoved, Tok!VeOlasChange
<1>4. OnEthereum => veToken' = olasBalance'[VeOlas]
  BY <1>1, <1>3 DEF HoldersInv, LocksHeld
<1>. QED  BY <1>1, <1>2, <1>3, <1>4 DEF Depositors

\* A mint, a burn or a transfer.
LEMMA HoldersAfterTransfer ==
    ASSUME Tok!HoldersAssumption, HoldersInv,
           NEW from \in Tok!Holders \cup {Zero}, NEW to \in Tok!Holders \cup {Zero},
           NEW n \in OlasAmounts, Tok!Transfer(from, to, n)
    PROVE  HoldersInv'
<1>1. /\ n \in Nat /\ from # VeOlas /\ ~(from = Zero /\ to = Zero)
      /\ from # Zero => n <= olasBalance[from]
      /\ Tok!Transferred(from, to, n) /\ locked' = locked /\ pendingLog' = pendingLog
  BY HoldersFinite DEF Tok!Transfer
<1>2. /\ olasBalance' \in [Tok!Holders -> Nat] /\ DOMAIN holder' \subseteq Tok!Holders
      /\ DOMAIN token' = {"balance", "holderCount"} /\ BalancesHeld'
      /\ olasBalance'[VeOlas] = olasBalance[VeOlas] + Tok!VeOlasChange(from, to, n)
      /\ OnEthereum => veToken' = olasBalance'[VeOlas]
      /\ depositor' = depositor /\ veolasHolderCount' = veolasHolderCount
      /\ Depositors' = Depositors
  BY <1>1, TransferLeavesLocks
<1>3. Tok!VeOlasChange(from, to, n) \in Nat BY <1>1 DEF Tok!VeOlasChange
<1>4. HoldersTyped' BY <1>1, <1>2 DEF HoldersInv, HoldersTyped
<1>5. SumFunction(locked) \in Int /\ olasBalance[VeOlas] \in Nat
  BY HoldersFinite, SumFunctionType DEF HoldersInv, HoldersTyped
<1>6. SumFunction(locked') <= olasBalance'[VeOlas]
  BY <1>1, <1>2, <1>3, <1>5 DEF HoldersInv, LocksHeld
<1>7. LocksHeld' BY <1>1, <1>2, <1>6 DEF HoldersInv, LocksHeld
<1>. QED  BY <1>2, <1>4, <1>7 DEF HoldersInv

\* OLAS is locked; its Deposit is the next log.
LEMMA HoldersAfterLock ==
    ASSUME Tok!HoldersAssumption, HoldersInv, NEW a \in OlasAccounts, NEW n \in OlasAmounts,
           Tok!Lock(a, n)
    PROVE  HoldersInv'
<1>1. /\ n \in Nat /\ n > 0 /\ OnEthereum /\ pendingLog = Zero /\ a \in Tok!Holders /\ a # VeOlas
      /\ a # Zero /\ n <= olasBalance[a] /\ Tok!Transferred(a, VeOlas, n) /\ pendingLog' = a
      /\ VeOlas # Zero
      /\ VeOlas \in Tok!Holders
  BY HoldersFinite DEF Tok!Lock, Tok!Quiet
<1>2. /\ olasBalance' \in [Tok!Holders -> Nat] /\ DOMAIN holder' \subseteq Tok!Holders
      /\ DOMAIN token' = {"balance", "holderCount"} /\ BalancesHeld'
      /\ olasBalance'[VeOlas] = olasBalance[VeOlas] + Tok!VeOlasChange(a, VeOlas, n)
      /\ OnEthereum => veToken' = olasBalance'[VeOlas]
      /\ depositor' = depositor /\ veolasHolderCount' = veolasHolderCount
      /\ Depositors' = Depositors
  BY <1>1, TransferLeavesLocks
<1>3. Tok!VeOlasChange(a, VeOlas, n) = n BY <1>1 DEF Tok!VeOlasChange
<1>4. PICK next : next = locked' OBVIOUS
<1>5. next = [locked EXCEPT ![a] = locked[a] + n] BY <1>4 DEF Tok!Lock
<1>6. locked[a] \in Nat /\ locked[a] + n >= 0 /\ n \in Int /\ HoldersTyped
  BY <1>1 DEF HoldersInv, HoldersTyped
<1>12. next \in [OlasAccounts -> Int] /\ MovedAt(next, locked, OlasAccounts, a, n)
  BY <1>5, <1>6 DEF MovedAt, HoldersTyped
<1>7. /\ next \in [OlasAccounts -> Nat] /\ SumFunction(next) = SumFunction(locked) + n
      /\ SumFunction(locked) \in Int /\ next[a] = locked[a] + n
      /\ \A b \in OlasAccounts : b # a => next[b] = locked[b]
  BY ONLY <1>12, <1>6, LockMoved, Tok!HoldersAssumption, a \in OlasAccounts
<1>8. HoldersTyped' BY <1>1, <1>2, <1>4, <1>7 DEF HoldersInv, HoldersTyped
<1>9. SumFunction(locked') <= olasBalance'[VeOlas]
  BY <1>1, <1>2, <1>3, <1>4, <1>7 DEF HoldersInv, HoldersTyped, LocksHeld
<1>10. \A b \in OlasAccounts : b # pendingLog' => (b \in Depositors' <=> locked'[b] > 0)
  BY <1>1, <1>2, <1>4, <1>7, HoldersFinite DEF HoldersInv, LocksHeld
<1>11. LocksHeld' BY <1>1, <1>2, <1>4, <1>6, <1>7, <1>9, <1>10 DEF HoldersInv, LocksHeld
<1>. QED  BY <1>2, <1>8, <1>11 DEF HoldersInv

\* The depositors are as finite as the accounts.
LEMMA DepositorsFinite ==
    ASSUME Tok!HoldersAssumption
    PROVE  IsFiniteSet(Depositors) /\ Cardinality(Depositors) \in Nat
BY HoldersFinite, FS_Subset, FS_CardinalityType DEF Depositors

\* A Deposit log makes its account a depositor, and counts it if it was none.
LEMMA DepositedCounts ==
    ASSUME Tok!HoldersAssumption, HoldersInv, NEW a \in OlasAccounts, Tok!Deposited(a)
    PROVE  /\ Depositors' = Depositors \cup {a} /\ DOMAIN depositor' \subseteq OlasAccounts
           /\ veolasHolderCount' = Cardinality(Depositors')
<1>1. PICK D, N : D = Depositors /\ N = Depositors' OBVIOUS
<1>2. /\ depositor' = Put(depositor, a, TRUE)
      /\ veolasHolderCount' = IF LoadOr(depositor, a, FALSE) THEN veolasHolderCount
                              ELSE veolasHolderCount + 1
  BY DEF Tok!Deposited, Tok!Put, Tok!LoadOr, Put, LoadOr
<1>3. DOMAIN depositor' \subseteq OlasAccounts BY <1>2 DEF Put, HoldersInv, HoldersTyped
<1>4. N = D \cup {a} BY <1>1, <1>2 DEF Depositors, Put, LoadOr
<1>5. IsFiniteSet(D) /\ Cardinality(D) \in Nat /\ veolasHolderCount = Cardinality(D)
  BY <1>1, DepositorsFinite DEF HoldersInv, LocksHeld
<1>6. Cardinality(N) = IF a \in D THEN Cardinality(D) ELSE Cardinality(D) + 1
  BY ONLY <1>4, <1>5, FS_AddElement
<1>7. a \in D <=> LoadOr(depositor, a, FALSE) = TRUE BY <1>1 DEF Depositors
<1>. QED  BY <1>1, <1>2, <1>3, <1>4, <1>5, <1>6, <1>7

\* The Deposit of a lock.
LEMMA HoldersAfterDeposit ==
    ASSUME Tok!HoldersAssumption, HoldersInv, Tok!handleDeposit PROVE HoldersInv'
<1>1. /\ pendingLog # Zero /\ Tok!Deposited(pendingLog) /\ pendingLog' = Zero
      /\ olasBalance' = olasBalance /\ locked' = locked /\ token' = token
      /\ veToken' = veToken /\ holder' = holder
  BY DEF Tok!handleDeposit, Tok!Quiet
<1>2. PICK a : a = pendingLog OBVIOUS
<1>3. a \in OlasAccounts BY <1>1, <1>2 DEF HoldersInv, HoldersTyped
<1>4. /\ Depositors' = Depositors \cup {a} /\ DOMAIN depositor' \subseteq OlasAccounts
      /\ veolasHolderCount' = Cardinality(Depositors')
  BY <1>1, <1>2, <1>3, DepositedCounts
<1>5. HoldersTyped' BY <1>1, <1>4 DEF HoldersInv, HoldersTyped
<1>6. BalancesHeld' BY <1>1 DEF HoldersInv, BalancesHeld
<1>7. \A b \in OlasAccounts : b # pendingLog' => (b \in Depositors' <=> locked'[b] > 0)
  BY <1>1, <1>2, <1>4 DEF HoldersInv, LocksHeld
<1>8. LocksHeld' BY <1>1, <1>4, <1>7 DEF HoldersInv, LocksHeld
<1>. QED  BY <1>5, <1>6, <1>8 DEF HoldersInv

\* A lock that is prolonged: its account is a depositor already.
LEMMA HoldersAfterProlonged ==
    ASSUME Tok!HoldersAssumption, HoldersInv, NEW a \in OlasAccounts, Tok!handleDepositProlonged(a)
    PROVE  HoldersInv'
BY HoldersFinite, DepositedCounts DEF Tok!handleDepositProlonged, Tok!Quiet, Tok!chain, HoldersInv,
    LocksHeld, HoldersTyped, BalancesHeld

\* A withdrawal: the whole lock goes back, and its account is a depositor no more.
LEMMA HoldersAfterWithdraw ==
    ASSUME Tok!HoldersAssumption, HoldersInv, NEW a \in OlasAccounts, Tok!handleWithdraw(a)
    PROVE  HoldersInv'
<1>1. /\ pendingLog = Zero /\ locked[a] > 0 /\ pendingLog' = pendingLog
      /\ a # Zero /\ a # VeOlas /\ a \in Tok!Holders /\ VeOlas \in Tok!Holders /\ VeOlas # Zero
  BY HoldersFinite DEF Tok!handleWithdraw, Tok!Quiet
<1>2. PICK n : n = locked[a] OBVIOUS
<1>3. n \in Nat /\ n > 0 /\ n <= olasBalance[VeOlas] /\ olasBalance[VeOlas] \in Nat
  BY <1>1, <1>2, LockedWithinVeOlas
<1>4. Tok!handleTransferBalances(VeOlas, a, n)
  BY <1>2 DEF Tok!handleWithdraw, Tok!handleTransfer
<1>5. veToken' = veToken + Tok!VeOlasChange(VeOlas, a, n)
  BY <1>2 DEF Tok!handleWithdraw, Tok!handleTransfer
<1>6. olasBalance' = OlasMoved(VeOlas, a, n)
  <2>1. olasBalance' = [olasBalance EXCEPT ![a] = @ + n, ![VeOlas] = @ - n]
    BY <1>2 DEF Tok!handleWithdraw
  <2>2. olasBalance \in [Tok!Holders -> Nat] BY DEF HoldersInv, HoldersTyped
  <2>3. DOMAIN olasBalance' = Tok!Holders BY <2>1, <2>2
  <2>4. ASSUME NEW b \in Tok!Holders
        PROVE  olasBalance'[b] = olasBalance[b] + (IF b = a THEN n ELSE 0)
                                                - (IF b = VeOlas THEN n ELSE 0)
    BY <1>1, <1>3, <2>1, <2>2
  <2>5. olasBalance' = [b \in Tok!Holders |-> olasBalance'[b]] BY <2>1, <2>2
  <2>. QED  BY <2>4, <2>5 DEF OlasMoved
<1>7. /\ olasBalance' \in [Tok!Holders -> Nat] /\ DOMAIN holder' \subseteq Tok!Holders
      /\ DOMAIN token' = {"balance", "holderCount"} /\ BalancesHeld'
  BY <1>3, <1>1, <1>4, <1>6, TransferHeld, Tok!HoldersAssumption DEF HoldersInv
<1>8. olasBalance'[VeOlas] = olasBalance[VeOlas] - n BY <1>1, <1>3, <1>6 DEF OlasMoved
<1>9. OnEthereum /\ veToken' = olasBalance'[VeOlas]
  BY <1>2, <1>3, <1>1, <1>5, <1>8 DEF HoldersInv, LocksHeld, Tok!VeOlasChange
<1>10. PICK next : next = locked' OBVIOUS
<1>11. next = [locked EXCEPT ![a] = 0] BY <1>10 DEF Tok!handleWithdraw
<1>12. -n \in Int /\ locked[a] + (-n) >= 0 /\ HoldersTyped BY <1>2, <1>3 DEF HoldersInv
<1>13. next \in [OlasAccounts -> Int] /\ MovedAt(next, locked, OlasAccounts, a, -n)
  BY <1>2, <1>3, <1>11, <1>12 DEF MovedAt, HoldersTyped
<1>14. /\ next \in [OlasAccounts -> Nat] /\ SumFunction(next) = SumFunction(locked) + (-n)
       /\ SumFunction(locked) \in Int /\ next[a] = locked[a] + (-n)
       /\ \A b \in OlasAccounts : b # a => next[b] = locked[b]
  BY ONLY <1>12, <1>13, LockMoved, Tok!HoldersAssumption, a \in OlasAccounts
<1>15. SumFunction(locked) <= olasBalance[VeOlas] BY DEF HoldersInv, LocksHeld
<1>16. SumFunction(locked') <= olasBalance'[VeOlas]
  BY <1>3, <1>8, <1>10, <1>14, <1>15
<1>17. PICK D, N : D = Depositors /\ N = Depositors' OBVIOUS
<1>18. a \in D BY <1>1, <1>17 DEF HoldersInv, LocksHeld
<1>19. depositor' = Put(depositor, a, FALSE) /\ veolasHolderCount' = veolasHolderCount - 1
  BY <1>17, <1>18 DEF Tok!handleWithdraw, Depositors, Tok!LoadOr, Tok!Put, LoadOr, Put
<1>20. DOMAIN depositor' \subseteq OlasAccounts BY <1>19 DEF Put, HoldersInv, HoldersTyped
<1>21. N = D \ {a} BY <1>17, <1>19 DEF Depositors, Put, LoadOr
<1>22. IsFiniteSet(D) /\ Cardinality(D) \in Nat /\ veolasHolderCount = Cardinality(D)
  BY <1>17, DepositorsFinite DEF HoldersInv, LocksHeld
<1>23. Cardinality(N) = Cardinality(D) - 1 BY ONLY <1>18, <1>21, <1>22, FS_RemoveElement
<1>24. veolasHolderCount' = Cardinality(Depositors') BY <1>17, <1>19, <1>22, <1>23
<1>25. \A b \in OlasAccounts : b # pendingLog' => (b \in Depositors' <=> locked'[b] > 0)
  <2>1. ASSUME NEW b \in OlasAccounts PROVE b \in N <=> next[b] > 0
    BY <1>1, <1>17, HoldersFinite, <1>2, <1>3, <1>14, <1>21 DEF HoldersInv, LocksHeld
  <2>. QED  BY <1>10, <1>17, <2>1
<1>26. HoldersTyped' BY <1>1, <1>7, <1>10, <1>14, <1>20 DEF HoldersInv, HoldersTyped
<1>27. LocksHeld' BY <1>1, <1>9, <1>16, <1>24, <1>25 DEF LocksHeld
<1>. QED  BY <1>7, <1>26, <1>27 DEF HoldersInv

\* Every step keeps the invariant.
LEMMA HoldersKept ==
    ASSUME Tok!HoldersAssumption, HoldersInv, [Tok!Next]_(Tok!vars) PROVE HoldersInv'
<1>1. CASE Tok!Next
  BY <1>1, HoldersAfterTransfer, HoldersAfterLock, HoldersAfterDeposit, HoldersAfterProlonged,
     HoldersAfterWithdraw DEF Tok!Next
<1>2. CASE UNCHANGED Tok!vars
  BY <1>2 DEF Tok!vars, Tok!chain, HoldersInv, HoldersTyped, BalancesHeld, LocksHeld, Depositors
<1>. QED  BY <1>1, <1>2

\* The invariant says what the rows promise.
LEMMA HoldersShown ==
    ASSUME Tok!HoldersAssumption, HoldersInv PROVE Tok!HoldersMirrorChain
<1>1. /\ olasBalance \in [Tok!Holders -> Nat] /\ locked \in [OlasAccounts -> Nat]
  BY DEF HoldersInv, HoldersTyped
<1>2. \A a : Tok!LoadOr(holder, a, 0) = LoadOr(holder, a, 0) BY DEF Tok!LoadOr, LoadOr
<1>3. Tok!Supply = SumFunction(olasBalance) BY <1>1, TokSum DEF Tok!Supply, Tok!SumOver
<1>4. Tok!Cardinality({a \in Tok!Holders : olasBalance[a] > 0}) = Cardinality(Having(olasBalance))
  BY <1>1, TokCardinality DEF Having
<1>5. Tok!BalancesMirrorChain
  BY <1>2, <1>3, <1>4 DEF Tok!BalancesMirrorChain, HoldersInv, BalancesHeld
<1>6. ASSUME OnEthereum
      PROVE  /\ veToken = Tok!LoadOr(holder, VeOlas, 0)
             /\ veToken >= Tok!SumOver(OlasAccounts, LAMBDA a : locked[a])
             /\ Tok!Quiet => veolasHolderCount = Tok!Cardinality({a \in OlasAccounts : locked[a] > 0})
  <2>1. veToken = olasBalance[VeOlas] /\ VeOlas \in Tok!Holders
    BY <1>6, HoldersFinite DEF HoldersInv, LocksHeld
  <2>2. veToken = Tok!LoadOr(holder, VeOlas, 0) BY <1>2, <2>1 DEF HoldersInv, BalancesHeld
  <2>3. Tok!SumOver(OlasAccounts, LAMBDA a : locked[a]) = SumFunction(locked)
    BY <1>1, TokSum DEF Tok!SumOver
  <2>4. veToken >= SumFunction(locked)
    BY <1>1, HoldersFinite, SumFunctionType, <2>1 DEF HoldersInv, LocksHeld
  <2>5. ASSUME Tok!Quiet
        PROVE  veolasHolderCount = Tok!Cardinality({a \in OlasAccounts : locked[a] > 0})
    BY <2>5, HoldersFinite, TokCardinality DEF Tok!Quiet, HoldersInv, LocksHeld, Depositors
  <2>. QED  BY <2>2, <2>3, <2>4, <2>5
<1>7. Tok!LocksMirrorChain BY <1>6 DEF Tok!LocksMirrorChain
<1>. QED  BY <1>5, <1>7 DEF Tok!HoldersMirrorChain

\* After every log of OLAS and veOLAS the rows are the contracts' state: each balance, the
\* supply, how many hold OLAS, and on Ethereum what veOLAS holds, which covers every lock,
\* and, between a lock's two logs excepted, how many accounts have one.
THEOREM HoldersAlwaysMirrorChain ==
    ASSUME Tok!HoldersAssumption PROVE Tok!Spec => []Tok!HoldersMirrorChain
<1>1. Tok!Init => HoldersInv BY HoldersInit
<1>2. HoldersInv /\ [Tok!Next]_(Tok!vars) => HoldersInv' BY HoldersKept
<1>3. HoldersInv => Tok!HoldersMirrorChain BY HoldersShown
<1>. QED  BY <1>1, <1>2, <1>3, PTL DEF Tok!Spec

-----------------------------------------------------------------------------
(* liquidity: the OLAS-ETH pool on Ethereum.                               *)

CONSTANTS LpAmounts, Reserves, LpAnswers, LpSwapAmounts, LpWei, LpBasisPoints, LpFeeNumerator,
    LpFeeDenominator, LpStaleness, LpDayLength, LpMaxMinted, LpMaxMoves, LpMaxNow, LpMaxSwaps,
    LpMaxBridged, LpMaxBridgedMoves, LpHidden, LpNone
VARIABLES lpNow, lpSupply, inTreasury, bridged, lastSync, feedDown, lpMetrics, treasury, reserves,
    priceData, lpDaily, holding

Lp == INSTANCE PoolLiquidity WITH
    Amounts <- LpAmounts, Answers <- LpAnswers, SwapAmounts <- LpSwapAmounts, Wei <- LpWei,
    BasisPoints <- LpBasisPoints, FeeNumerator <- LpFeeNumerator,
    FeeDenominator <- LpFeeDenominator, Staleness <- LpStaleness, DayLength <- LpDayLength,
    MaxMinted <- LpMaxMinted, MaxMoves <- LpMaxMoves, MaxNow <- LpMaxNow, MaxSwaps <- LpMaxSwaps,
    MaxBridged <- LpMaxBridged, MaxBridgedMoves <- LpMaxBridgedMoves, Hidden <- LpHidden,
    None <- LpNone, now <- lpNow, supply <- lpSupply, metrics <- lpMetrics, daily <- lpDaily

\* The sums of PoolLiquidity are the library's.
LEMMA LpTotal == ASSUME NEW f, NEW c PROVE Lp!Total(f, c) = Total(f, c)
<1>1. ASSUME NEW g, NEW S PROVE Lp!SumFunctionOnSet(g, S) = (CHOOSE h : AddsUp(g, S, h))[S]
  BY DEF Lp!SumFunctionOnSet, Lp!FoldFunctionOnSet, Lp!MapThenFoldSet, AddsUp, FirstOf
<1>2. ASSUME NEW g PROVE Lp!SumFunction(g) = SumFunction(g)
  BY <1>1, SumIsFold DEF Lp!SumFunction, SumFunction
<1>3. Lp!Total(f, c) = Lp!SumFunction([k \in DOMAIN f |-> f[k][c]])
  BY DEF Lp!Total, Lp!SumOver
<1>4. Total(f, c) = SumFunction([k \in DOMAIN f |-> f[k][c]])
  BY DEF Total, SumOver
<1>. QED  BY <1>2, <1>3, <1>4

\* Types: the counters are integers, the cached price has a time.
PoolTyped ==
    /\ lpNow \in Nat /\ lpSupply \in Nat /\ inTreasury \in 0..lpSupply /\ bridged \in Nat
    /\ lastSync \in Nat \cup {LpNone} /\ feedDown \in BOOLEAN
    /\ DOMAIN lpMetrics = Lp!MetricFields /\ \A c \in Lp!MetricFields : lpMetrics[c] \in Int
    /\ DOMAIN treasury = Lp!HoldingFields /\ \A c \in Lp!HoldingFields : treasury[c] \in Int
    /\ DOMAIN holding = Lp!HoldingFields /\ \A c \in Lp!HoldingFields : holding[c] \in Int
    /\ priceData # LpNone => priceData.at \in Nat /\ priceData.price \in Int
    /\ reserves = <<lpMetrics.currentReserve0, lpMetrics.currentReserve1>>
    /\ CountersTyped(lpDaily, Lp!DailyFields)

\* Fees, with the library's totals.
FeesOfDays ==
    /\ lpMetrics.cumulativeFeesUsd = Total(lpDaily, "totalFeesUsd")
    /\ lpMetrics.cumulativeProtocolFeesUsd = Total(lpDaily, "protocolFeesUsd")
    /\ lpMetrics.cumulativeExternalFeesUsd = Total(lpDaily, "externalFeesUsd")
    /\ lpMetrics.cumulativeFeesUsd =
          lpMetrics.cumulativeProtocolFeesUsd + lpMetrics.cumulativeExternalFeesUsd

PoolInv == /\ PoolTyped /\ FeesOfDays /\ Lp!SharesMirrorChain /\ Lp!ValuesAreCurrent
           /\ Lp!PricesAreFresh /\ Lp!BridgedWithinHoldings

\* A row of metrics: thirteen integers.
PoolRow(m) == DOMAIN m = Lp!MetricFields /\ \A c \in Lp!MetricFields : m[c] \in Int

\* The row m, and its values in USD at the prices given.
Valued(m, prices) ==
    prices # LpNone =>
       /\ m.ethUsdPrice = prices.price
       /\ m.poolLiquidityUsd = (2 * m.currentReserve1 * prices.price) \div LpWei
       /\ m.protocolOwnedLiquidityUsd = (m.poolLiquidityUsd * m.treasuryPercentage) \div LpBasisPoints

\* What valuing a row leaves alone.
Unvalued == Lp!MetricFields \ {"ethUsdPrice", "poolLiquidityUsd", "protocolOwnedLiquidityUsd"}

\* A row that is valued again has the present values, and the rest of the row as it was.
LEMMA Recalculated ==
    ASSUME Lp!PoolAssumption, NEW m, PoolRow(m), NEW prices,
           prices # LpNone => prices.price \in Int,
           NEW next, next = Lp!recalculateUsd(m, prices)
    PROVE  PoolRow(next) /\ Valued(next, prices) /\ \A c \in Unvalued : next[c] = m[c]
<1>1. CASE prices = LpNone
  BY <1>1 DEF Lp!recalculateUsd, Valued, Unvalued, PoolRow
<1>2. CASE prices # LpNone
  <2>1. PICK usd : usd = (2 * m.currentReserve1 * prices.price) \div LpWei OBVIOUS
  <2>2. PICK own : own = (usd * m.treasuryPercentage) \div LpBasisPoints OBVIOUS
  <2>3. PICK p : p = prices.price OBVIOUS
  <2>4. PICK m1 : m1 = [m EXCEPT !.ethUsdPrice = p] OBVIOUS
  <2>5. PICK m2 : m2 = [m1 EXCEPT !.poolLiquidityUsd = usd] OBVIOUS
  <2>6. PICK m3 : m3 = [m2 EXCEPT !.protocolOwnedLiquidityUsd = own] OBVIOUS
  <2>7. next = m3 BY <1>2, <2>1, <2>2, <2>3, <2>4, <2>5, <2>6 DEF Lp!recalculateUsd
  <2>8. usd \in Int /\ own \in Int /\ p \in Int
    BY <1>2, <2>1, <2>2, <2>3 DEF PoolRow, Lp!MetricFields, Lp!PoolAssumption
  <2>9. /\ DOMAIN m3 = Lp!MetricFields /\ m3.ethUsdPrice = p /\ m3.poolLiquidityUsd = usd
        /\ m3.protocolOwnedLiquidityUsd = own /\ \A c \in Unvalued : m3[c] = m[c]
    BY <2>4, <2>5, <2>6 DEF PoolRow, Unvalued, Lp!MetricFields
  <2>10. PoolRow(next)
    BY <2>7, <2>8, <2>9 DEF PoolRow, Unvalued
  <2>11. m.currentReserve1 = m3.currentReserve1 /\ m.treasuryPercentage = m3.treasuryPercentage
    BY <2>9 DEF Unvalued, Lp!MetricFields
  <2>. QED  BY <2>1, <2>2, <2>3, <2>7, <2>9, <2>10, <2>11 DEF Valued
<1>. QED  BY <1>1, <1>2

\* Supply and its counters move together.
LEMMA SupplyCounted ==
    ASSUME NEW m, PoolRow(m), NEW n \in Nat, NEW isMint \in BOOLEAN, NEW isBurn \in BOOLEAN,
           NEW next, next = Lp!WithSupply(m, n, isMint, isBurn)
    PROVE  /\ PoolRow(next)
           /\ next.totalSupply = m.totalSupply + (IF isMint THEN n ELSE IF isBurn THEN -n ELSE 0)
           /\ next.totalMinted = m.totalMinted + (IF isMint THEN n ELSE 0)
           /\ next.totalBurned = m.totalBurned + (IF ~isMint /\ isBurn THEN n ELSE 0)
           /\ \A c \in Lp!MetricFields \ {"totalSupply", "totalMinted", "totalBurned"} : next[c] = m[c]
BY DEF PoolRow, Lp!MetricFields, Lp!WithSupply, Lp!Add

\* The treasury's row after LP tokens came in or went out.
LEMMA TreasuryMoved ==
    ASSUME NEW row, DOMAIN row = Lp!HoldingFields, \A c \in Lp!HoldingFields : row[c] \in Int,
           NEW n \in Nat, NEW came, NEW went,
           came = Lp!Add(row, [currentBalance |-> n, totalAcquired |-> n, transactionCount |-> 1]),
           went = Lp!Add(row, [currentBalance |-> -n, totalSold |-> n, transactionCount |-> 1])
    PROVE  /\ DOMAIN came = Lp!HoldingFields /\ \A c \in Lp!HoldingFields : came[c] \in Int
           /\ DOMAIN went = Lp!HoldingFields /\ \A c \in Lp!HoldingFields : went[c] \in Int
           /\ came.currentBalance = row.currentBalance + n
           /\ came.totalAcquired = row.totalAcquired + n /\ came.totalSold = row.totalSold
           /\ went.currentBalance = row.currentBalance - n
           /\ went.totalAcquired = row.totalAcquired /\ went.totalSold = row.totalSold + n
BY DEF Lp!Add, Lp!HoldingFields

Steps == {"zero", "treasury", "other"}

\* An LP transfer.
LEMMA PoolAfterTransfer ==
    ASSUME Lp!PoolAssumption, PoolInv, NEW from \in Steps, NEW to \in Steps, NEW n \in LpAmounts,
           Lp!handleLPTransfer(from, to, n)
    PROVE  PoolInv'
<1>1. PICK m, row : m = lpMetrics /\ row = treasury OBVIOUS
<1>2. /\ n \in Nat /\ PoolRow(m) /\ DOMAIN row = Lp!HoldingFields
      /\ \A c \in Lp!HoldingFields : row[c] \in Int
      /\ lpSupply \in Nat /\ inTreasury \in 0..lpSupply
  BY <1>1 DEF Lp!PoolAssumption, PoolInv, PoolTyped, PoolRow
<1>3. PICK isMint, isBurn : isMint = (from = "zero") /\ isBurn = (to = "zero") OBVIOUS
<1>4. PICK s : s = Lp!WithSupply(m, n, isMint, isBurn) OBVIOUS
<1>5. /\ PoolRow(s)
      /\ s.totalSupply = m.totalSupply + (IF isMint THEN n ELSE IF isBurn THEN -n ELSE 0)
      /\ s.totalMinted = m.totalMinted + (IF isMint THEN n ELSE 0)
      /\ s.totalBurned = m.totalBurned + (IF ~isMint /\ isBurn THEN n ELSE 0)
      /\ \A c \in Lp!MetricFields \ {"totalSupply", "totalMinted", "totalBurned"} : s[c] = m[c]
  <2>1. isMint \in BOOLEAN /\ isBurn \in BOOLEAN BY <1>3
  <2>. QED  BY ONLY <1>2, <1>4, <2>1, SupplyCounted
<1>6. PICK came, went :
        /\ came = Lp!Add(row, [currentBalance |-> n, totalAcquired |-> n, transactionCount |-> 1])
        /\ went = Lp!Add(row, [currentBalance |-> -n, totalSold |-> n, transactionCount |-> 1])
  OBVIOUS
<1>7. /\ DOMAIN came = Lp!HoldingFields /\ \A c \in Lp!HoldingFields : came[c] \in Int
      /\ DOMAIN went = Lp!HoldingFields /\ \A c \in Lp!HoldingFields : went[c] \in Int
      /\ came.currentBalance = row.currentBalance + n
      /\ came.totalAcquired = row.totalAcquired + n /\ came.totalSold = row.totalSold
      /\ went.currentBalance = row.currentBalance - n
      /\ went.totalAcquired = row.totalAcquired /\ went.totalSold = row.totalSold + n
  BY ONLY <1>2, <1>6, TreasuryMoved
<1>8. PICK next : next = treasury' OBVIOUS
<1>9. next = IF to = "treasury" THEN came ELSE IF from = "treasury" THEN went ELSE row
  BY <1>1, <1>6, <1>8 DEF Lp!handleLPTransfer, Lp!updateTreasuryHoldings
<1>10. /\ row.currentBalance = inTreasury /\ row.currentBalance = row.totalAcquired - row.totalSold
       /\ row.totalAcquired \in Int /\ row.totalSold \in Int
  BY <1>1, <1>2 DEF PoolInv, Lp!SharesMirrorChain, Lp!HoldingFields
<1>11. inTreasury' = inTreasury + (IF to = "treasury" THEN n ELSE 0)
                                - (IF from = "treasury" THEN n ELSE 0)
       /\ (from = "treasury" => to = "other")
  BY DEF Lp!handleLPTransfer
<1>12. /\ DOMAIN next = Lp!HoldingFields /\ \A c \in Lp!HoldingFields : next[c] \in Int
       /\ next.currentBalance = inTreasury' /\ next.currentBalance = next.totalAcquired - next.totalSold
       /\ inTreasury' \in Int
  <2>1. CASE to = "treasury" BY <2>1, <1>9, <1>11, <1>2, <1>7, <1>10
  <2>2. CASE to # "treasury" /\ from = "treasury" BY <2>2, <1>9, <1>2, <1>11, <1>7, <1>10
  <2>3. CASE to # "treasury" /\ from # "treasury" BY <2>3, <1>9, <1>2, <1>11, <1>10
  <2>. QED  BY <2>1, <2>2, <2>3
<1>19. /\ m.totalSupply = lpSupply /\ m.totalSupply = m.totalMinted - m.totalBurned
       /\ m.totalMinted \in Int /\ m.totalBurned \in Int
  BY <1>1, <1>2 DEF PoolInv, Lp!SharesMirrorChain, PoolRow, Lp!MetricFields
<1>20. /\ lpSupply' \in Nat /\ inTreasury' \in 0..lpSupply' /\ s.totalSupply = lpSupply'
       /\ s.totalSupply = s.totalMinted - s.totalBurned
  <2>1. /\ lpSupply' = lpSupply + (IF from = "zero" THEN n ELSE IF to = "zero" THEN -n ELSE 0)
        /\ from = "treasury" => to = "other" /\ n <= inTreasury
        /\ from = "other" => n <= lpSupply - inTreasury
    BY DEF Lp!handleLPTransfer
  <2>2. from \in {"zero", "treasury", "other"} BY DEF Steps
  <2>3. PICK supply2, held2 : supply2 = lpSupply' /\ held2 = inTreasury' OBVIOUS
  <2>4. PICK d, in, out : /\ d = IF from = "zero" THEN n ELSE IF to = "zero" THEN -n ELSE 0
                          /\ in = IF to = "treasury" THEN n ELSE 0
                          /\ out = IF from = "treasury" THEN n ELSE 0
    OBVIOUS
  <2>5. supply2 = lpSupply + d /\ held2 = inTreasury + in - out BY <1>11, <2>1, <2>3, <2>4
  <2>6. /\ d \in Int /\ in \in Nat /\ out \in Nat
        /\ lpSupply + d >= inTreasury + in - out /\ inTreasury + in - out >= 0
    BY <1>2, <2>4, <2>1, <2>2 DEF Steps
  <2>7. supply2 \in Nat /\ held2 \in 0..supply2 BY ONLY <1>2, <2>5, <2>6
  <2>8. s.totalSupply = m.totalSupply + d BY <1>3, <1>5, <2>4
  <2>9. s.totalSupply = s.totalMinted - s.totalBurned
    <3>1. CASE from = "zero" BY <1>3, <1>5, <2>4, <3>1, <2>8, <1>2, <1>19
    <3>2. CASE from # "zero" /\ to = "zero" BY <1>3, <1>5, <2>4, <3>2, <2>8, <1>2, <1>19
    <3>3. CASE from # "zero" /\ to # "zero" BY <1>3, <1>5, <2>4, <3>3, <2>8, <1>2, <1>19
    <3>. QED  BY <3>1, <3>2, <3>3
  <2>. QED  BY <1>19, <2>3, <2>5, <2>7, <2>8, <2>9
<1>13. PICK b, share : b = next.currentBalance
                       /\ share = Lp!calculatePercentageBasisPoints(b, s.totalSupply)
  OBVIOUS
<1>14. PICK s1 : s1 = [s EXCEPT !.treasurySupply = b] OBVIOUS
<1>15. PICK s2 : s2 = [s1 EXCEPT !.treasuryPercentage = share] OBVIOUS
<1>16. PICK last : last = Lp!recalculateUsd(s2, priceData) OBVIOUS
<1>17. lpMetrics' = last
  BY <1>1, <1>3, <1>4, <1>8, <1>13, <1>14, <1>15, <1>16
     DEF Lp!handleLPTransfer, Lp!updateGlobalMetricsAfterTransfer
<1>18. share \in Int /\ b \in Int
  BY <1>12, <1>13, <1>5, <1>20 DEF Lp!HoldingFields, PoolRow, Lp!MetricFields, Lp!PoolAssumption,
      Lp!calculatePercentageBasisPoints
<1>21. /\ PoolRow(s2) /\ s2.treasurySupply = b /\ s2.treasuryPercentage = share
       /\ \A c \in Lp!MetricFields \ {"treasurySupply", "treasuryPercentage"} : s2[c] = s[c]
  BY <1>5, <1>14, <1>15, <1>18 DEF PoolRow, Lp!MetricFields
<1>22. priceData # LpNone => priceData.at \in Nat /\ priceData.price \in Int
  BY DEF PoolInv, PoolTyped
<1>23. PoolRow(last) /\ Valued(last, priceData) /\ \A c \in Unvalued : last[c] = s2[c]
  BY <1>16, <1>22, <1>21, Recalculated, Lp!PoolAssumption
<1>24. /\ last.totalSupply = s.totalSupply /\ last.totalMinted = s.totalMinted
       /\ last.totalBurned = s.totalBurned /\ last.treasurySupply = b
       /\ last.treasuryPercentage = share
       /\ last.currentReserve0 = m.currentReserve0 /\ last.currentReserve1 = m.currentReserve1
       /\ last.cumulativeFeesUsd = m.cumulativeFeesUsd
       /\ last.cumulativeProtocolFeesUsd = m.cumulativeProtocolFeesUsd
       /\ last.cumulativeExternalFeesUsd = m.cumulativeExternalFeesUsd
  BY <1>5, <1>21, <1>23 DEF Unvalued, Lp!MetricFields
<1>25. /\ lpNow' = lpNow /\ bridged' = bridged /\ lastSync' = lastSync /\ feedDown' = feedDown
       /\ reserves' = reserves /\ priceData' = priceData /\ lpDaily' = lpDaily
       /\ holding' = holding
  BY DEF Lp!handleLPTransfer
<1>26. PoolTyped'
  BY <1>1, <1>8, <1>12, <1>17, <1>20, <1>22, <1>23, <1>24, <1>25
     DEF PoolInv, PoolTyped, PoolRow
<1>27. FeesOfDays' BY <1>1, <1>17, <1>24, <1>25 DEF PoolInv, FeesOfDays
<1>28. Lp!SharesMirrorChain'
  BY <1>8, <1>12, <1>13, <1>17, <1>20, <1>24
     DEF Lp!SharesMirrorChain, Lp!calculatePercentageBasisPoints
<1>29. Lp!ValuesAreCurrent'
  BY <1>1, <1>24, <1>25, <1>17, <1>23 DEF PoolInv, PoolTyped, Valued, Lp!ValuesAreCurrent
<1>30. Lp!PricesAreFresh' /\ Lp!BridgedWithinHoldings'
  BY <1>25 DEF PoolInv, Lp!PricesAreFresh, Lp!BridgedWithinHoldings
<1>. QED  BY <1>26, <1>27, <1>28, <1>29, <1>30 DEF PoolInv

\* A Sync: reserves, the cached price, and the values at both.
LEMMA PoolAfterSync ==
    ASSUME Lp!PoolAssumption, PoolInv, NEW r0 \in Reserves, NEW r1 \in Reserves,
           NEW answer \in LpAnswers \cup {LpNone}, Lp!handleSync(r0, r1, answer)
    PROVE  PoolInv'
<1>1. PICK m, old : m = lpMetrics /\ old = priceData OBVIOUS
<1>2. PICK prices : prices = priceData' OBVIOUS
<1>3. /\ r0 \in Int /\ r1 \in Int /\ PoolRow(m) /\ lpNow \in Nat /\ LpStaleness \in Nat
      /\ old # LpNone => old.at \in Nat /\ old.price \in Int
      /\ LpAnswers \subseteq Int /\ LpNone \notin Nat
  BY <1>1 DEF Lp!PoolAssumption, PoolInv, PoolTyped, PoolRow
<1>4. PICK fresh : fresh = [price |-> answer, at |-> lpNow] OBVIOUS
<1>5. fresh.price = answer /\ fresh.at = lpNow BY <1>4
<1>6. prices = IF /\ old = LpNone \/ lpNow - old.at > LpStaleness
                  /\ answer # LpNone /\ answer > 0
               THEN fresh ELSE old
  BY <1>1, <1>2, <1>4 DEF Lp!handleSync, Lp!refreshChainlinkPrice
<1>7. /\ prices # LpNone => prices.at \in Nat /\ prices.price \in Int
      /\ answer # LpNone /\ answer > 0 => prices = LpNone \/ lpNow - prices.at <= LpStaleness
  <2>1. CASE prices = old /\ old # LpNone BY <1>3, <1>6, <1>5, <2>1
  <2>2. CASE prices = old /\ old = LpNone BY <2>2, <1>6
  <2>3. CASE prices = fresh /\ answer # LpNone /\ answer > 0 BY <1>3, <1>5, <2>3
  <2>. QED  BY <1>6, <2>1, <2>2, <2>3
<1>8. PICK m1 : m1 = [m EXCEPT !.currentReserve0 = r0] OBVIOUS
<1>9. PICK m2 : m2 = [m1 EXCEPT !.currentReserve1 = r1] OBVIOUS
<1>10. PICK last : last = Lp!recalculateUsd(m2, prices) OBVIOUS
<1>11. lpMetrics' = last
  BY <1>1, <1>2, <1>8, <1>9, <1>10 DEF Lp!handleSync, Lp!updateGlobalMetricsAfterSync
<1>12. /\ PoolRow(m2) /\ m2.currentReserve0 = r0 /\ m2.currentReserve1 = r1
       /\ \A c \in Lp!MetricFields \ {"currentReserve0", "currentReserve1"} : m2[c] = m[c]
  BY <1>3, <1>8, <1>9 DEF PoolRow, Lp!MetricFields
<1>13. PoolRow(last) /\ Valued(last, prices) /\ \A c \in Unvalued : last[c] = m2[c]
  BY ONLY <1>7, <1>10, <1>12, Recalculated, Lp!PoolAssumption
<1>14. /\ last.totalSupply = m.totalSupply /\ last.totalMinted = m.totalMinted
       /\ last.totalBurned = m.totalBurned /\ last.treasurySupply = m.treasurySupply
       /\ last.treasuryPercentage = m.treasuryPercentage
       /\ last.currentReserve0 = r0 /\ last.currentReserve1 = r1
       /\ last.cumulativeFeesUsd = m.cumulativeFeesUsd
       /\ last.cumulativeProtocolFeesUsd = m.cumulativeProtocolFeesUsd
       /\ last.cumulativeExternalFeesUsd = m.cumulativeExternalFeesUsd
  BY <1>12, <1>13 DEF Unvalued, Lp!MetricFields
<1>15. /\ lpNow' = lpNow /\ lpSupply' = lpSupply /\ inTreasury' = inTreasury
       /\ bridged' = bridged /\ treasury' = treasury /\ lpDaily' = lpDaily /\ holding' = holding
       /\ reserves' = <<r0, r1>> /\ lastSync' = lpNow
       /\ feedDown' = (answer = LpNone \/ answer <= 0)
  BY DEF Lp!handleSync
<1>16. PoolTyped'
  BY <1>2, <1>3, <1>7, <1>11, <1>13, <1>14, <1>15 DEF PoolInv, PoolTyped, PoolRow
<1>17. FeesOfDays' BY <1>1, <1>11, <1>14, <1>15 DEF PoolInv, FeesOfDays
<1>18. Lp!SharesMirrorChain'
  BY <1>1, <1>11, <1>14, <1>15
     DEF PoolInv, Lp!SharesMirrorChain, Lp!calculatePercentageBasisPoints
<1>19. Lp!ValuesAreCurrent' BY <1>14, <1>15, <1>2, <1>11, <1>13 DEF Valued, Lp!ValuesAreCurrent
<1>20. Lp!PricesAreFresh'
  <2>0. fresh # LpNone \/ ~(answer \in Int) BY <1>3, <1>4 DEF Lp!PoolAssumption
  <2>1. ASSUME ~feedDown' PROVE priceData' # LpNone /\ lastSync' - priceData'.at <= LpStaleness
    <3>1. answer # LpNone /\ ~(answer <= 0) BY <1>15, <2>1
    <3>2. answer \in Int BY <1>3, <3>1
    <3>3. answer > 0 BY <3>1, <3>2
    <3>4. prices # LpNone BY <1>6, <2>0, <3>1, <3>2, <3>3
    <3>. QED  BY <1>2, <1>7, <1>15, <3>1, <3>3, <3>4
  <2>. QED  BY <2>1 DEF Lp!PricesAreFresh
<1>21. Lp!BridgedWithinHoldings' BY <1>15 DEF PoolInv, Lp!BridgedWithinHoldings
<1>. QED  BY <1>16, <1>17, <1>18, <1>19, <1>20, <1>21 DEF PoolInv

\* A swap: the fees of the day and of all days.
LEMMA PoolAfterSwap ==
    ASSUME Lp!PoolAssumption, PoolInv, NEW a0 \in LpSwapAmounts, NEW a1 \in LpSwapAmounts,
           Lp!handleSwap(a0, a1)
    PROVE  PoolInv'
<1>1. PICK m, table : m = lpMetrics /\ table = lpDaily OBVIOUS
<1>2. /\ PoolRow(m) /\ CountersTyped(table, Lp!DailyFields)
      /\ a0 \in Nat /\ a1 \in Nat /\ LpFeeNumerator \in Nat /\ LpFeeDenominator \in Nat \ {0}
      /\ LpWei \in Nat \ {0} /\ LpBasisPoints \in Nat \ {0}
  BY <1>1 DEF Lp!PoolAssumption, PoolInv, PoolTyped, PoolRow
<1>3. /\ m.currentReserve0 \in Int /\ m.currentReserve1 \in Int /\ m.ethUsdPrice \in Int
      /\ m.treasuryPercentage \in Int
  BY <1>2 DEF PoolRow, Lp!MetricFields
<1>4. PICK fee0, fee1 : fee0 = Lp!FeeOf(a0) /\ fee1 = Lp!FeeOf(a1) OBVIOUS
<1>5. fee0 \in Nat /\ fee1 \in Nat BY <1>2, <1>4 DEF Lp!FeeOf
<1>6. PICK usd : usd = IF Lp!CanUpdateUsdFees(fee0, fee1) THEN Lp!FeeUsd(fee0, fee1) ELSE 0
  OBVIOUS
<1>7. usd \in Int
  <2>1. CASE ~Lp!CanUpdateUsdFees(fee0, fee1) BY <1>6, <2>1
  <2>2. CASE Lp!CanUpdateUsdFees(fee0, fee1)
    <3>1. usd = (IF fee1 > 0 THEN (fee1 * m.ethUsdPrice) \div LpWei ELSE 0)
                + (IF fee0 > 0
                   THEN (((fee0 * m.currentReserve1) \div m.currentReserve0) * m.ethUsdPrice)
                        \div LpWei
                   ELSE 0)
      BY <1>1, <1>6, <2>2 DEF Lp!FeeUsd
    <3>2. (fee1 * m.ethUsdPrice) \div LpWei \in Int BY <1>2, <1>3, <1>5
    <3>3. fee0 > 0 => m.currentReserve0 > 0
      BY <1>1, <1>5, <2>2 DEF Lp!CanUpdateUsdFees
    <3>4. fee0 > 0 => (((fee0 * m.currentReserve1) \div m.currentReserve0) * m.ethUsdPrice)
                        \div LpWei \in Int
      BY <1>3, <1>5, <3>3, <1>2
    <3>. QED  BY <3>1, <3>2, <3>4
  <2>. QED  BY <2>1, <2>2
<1>8. PICK protocol : protocol = IF Lp!CanUpdateUsdFees(fee0, fee1) THEN Lp!ProtocolPart(usd) ELSE 0
  OBVIOUS
<1>9. PICK external : external = IF Lp!CanUpdateUsdFees(fee0, fee1) THEN Lp!ExternalPart(usd) ELSE 0
  OBVIOUS
<1>10. protocol \in Int /\ external \in Int /\ usd = protocol + external
  <2>1. (usd * m.treasuryPercentage) \div LpBasisPoints \in Int BY <1>3, <1>7, <1>2
  <2>2. CASE ~Lp!CanUpdateUsdFees(fee0, fee1) BY <1>6, <1>8, <1>9, <2>2
  <2>3. CASE Lp!CanUpdateUsdFees(fee0, fee1)
    BY <1>1, <1>8, <2>3, <1>9, <1>7, <2>1 DEF Lp!ProtocolPart, Lp!ExternalPart
  <2>. QED  BY <2>2, <2>3
<1>11. PICK today : today = [totalFeesToken0 |-> fee0, totalFeesToken1 |-> fee1,
                             totalFeesUsd |-> usd, protocolFeesUsd |-> protocol,
                             externalFeesUsd |-> external, swapCount |-> 1]
  OBVIOUS
<1>12. /\ DOMAIN today = Lp!DailyFields /\ today.totalFeesToken0 = fee0
       /\ today.totalFeesToken1 = fee1 /\ today.totalFeesUsd = usd
       /\ today.protocolFeesUsd = protocol /\ today.externalFeesUsd = external
       /\ today.swapCount = 1
  BY <1>11 DEF Lp!DailyFields
<1>13. PICK table2, day : table2 = lpDaily' /\ day = Lp!Day OBVIOUS
<1>14. table2 = AddTo(table, day, Lp!DailyFields, today)
  BY <1>1, <1>4, <1>6, <1>8, <1>9, <1>11, <1>13
     DEF Lp!handleSwap, Lp!AddTo, Lp!Put, Lp!LoadOr, Lp!Add, Lp!Zeros, AddTo, Put, LoadOr, Add, Zeros
<1>15. AllIntegers(today) BY <1>5, <1>7, <1>10, <1>12 DEF Lp!DailyFields, AllIntegers
<1>16. CountersTyped(table2, Lp!DailyFields) /\ TotalsRaised(table2, table, Lp!DailyFields, today)
  BY ONLY <1>2, <1>14, <1>15, TotalAddTo
<1>17. /\ Total(table2, "totalFeesUsd") = Total(table, "totalFeesUsd") + usd
       /\ Total(table2, "protocolFeesUsd") = Total(table, "protocolFeesUsd") + protocol
       /\ Total(table2, "externalFeesUsd") = Total(table, "externalFeesUsd") + external
  BY <1>12, <1>16 DEF Lp!DailyFields, TotalsRaised
<1>18. PICK delta : delta = [cumulativeFeesUsd |-> usd, cumulativeProtocolFeesUsd |-> protocol,
                             cumulativeExternalFeesUsd |-> external]
  OBVIOUS
<1>19. /\ DOMAIN delta = {"cumulativeFeesUsd", "cumulativeProtocolFeesUsd", "cumulativeExternalFeesUsd"}
       /\ delta.cumulativeFeesUsd = usd /\ delta.cumulativeProtocolFeesUsd = protocol
       /\ delta.cumulativeExternalFeesUsd = external
  BY <1>18
<1>20. PICK last : last = Add(m, delta) OBVIOUS
<1>21. lpMetrics' = last
  BY <1>1, <1>4, <1>6, <1>8, <1>9, <1>18, <1>20 DEF Lp!handleSwap, Lp!Add, Add
<1>22. /\ PoolRow(last)
       /\ last.cumulativeFeesUsd = m.cumulativeFeesUsd + usd
       /\ last.cumulativeProtocolFeesUsd = m.cumulativeProtocolFeesUsd + protocol
       /\ last.cumulativeExternalFeesUsd = m.cumulativeExternalFeesUsd + external
       /\ \A c \in Lp!MetricFields \ DOMAIN delta : last[c] = m[c]
  BY <1>2, <1>7, <1>10, <1>19, <1>20 DEF Add, PoolRow, Lp!MetricFields
<1>23. /\ last.totalSupply = m.totalSupply /\ last.totalMinted = m.totalMinted
       /\ last.totalBurned = m.totalBurned /\ last.treasurySupply = m.treasurySupply
       /\ last.treasuryPercentage = m.treasuryPercentage
       /\ last.currentReserve0 = m.currentReserve0 /\ last.currentReserve1 = m.currentReserve1
       /\ last.ethUsdPrice = m.ethUsdPrice /\ last.poolLiquidityUsd = m.poolLiquidityUsd
       /\ last.protocolOwnedLiquidityUsd = m.protocolOwnedLiquidityUsd
  BY <1>19, <1>22 DEF Lp!MetricFields
<1>24. /\ lpNow' = lpNow /\ lpSupply' = lpSupply /\ inTreasury' = inTreasury
       /\ bridged' = bridged /\ lastSync' = lastSync /\ feedDown' = feedDown
       /\ treasury' = treasury /\ reserves' = reserves /\ priceData' = priceData
       /\ holding' = holding
  BY DEF Lp!handleSwap, Lp!chain
<1>25. PoolTyped'
  BY <1>1, <1>13, <1>16, <1>21, <1>22, <1>23, <1>24 DEF PoolInv, PoolTyped, PoolRow
<1>26. FeesOfDays'
  <2>1. /\ m.cumulativeFeesUsd = Total(table, "totalFeesUsd")
        /\ m.cumulativeProtocolFeesUsd = Total(table, "protocolFeesUsd")
        /\ m.cumulativeExternalFeesUsd = Total(table, "externalFeesUsd")
        /\ m.cumulativeFeesUsd = m.cumulativeProtocolFeesUsd + m.cumulativeExternalFeesUsd
    BY <1>1 DEF PoolInv, FeesOfDays
  <2>2. /\ m.cumulativeFeesUsd \in Int /\ m.cumulativeProtocolFeesUsd \in Int
        /\ m.cumulativeExternalFeesUsd \in Int
    BY <1>2 DEF PoolRow, Lp!MetricFields
  <2>3. last.cumulativeFeesUsd = last.cumulativeProtocolFeesUsd + last.cumulativeExternalFeesUsd
    BY ONLY <1>7, <1>10, <1>22, <2>1, <2>2
  <2>. QED  BY <1>13, <1>17, <1>21, <1>22, <2>1, <2>3 DEF FeesOfDays
<1>27. Lp!SharesMirrorChain'
  BY <1>1, <1>21, <1>23, <1>24
     DEF PoolInv, Lp!SharesMirrorChain, Lp!calculatePercentageBasisPoints
<1>28. Lp!ValuesAreCurrent'
  BY <1>1, <1>21, <1>23, <1>24 DEF PoolInv, Lp!ValuesAreCurrent
<1>29. Lp!PricesAreFresh' /\ Lp!BridgedWithinHoldings'
  BY <1>24 DEF PoolInv, Lp!PricesAreFresh, Lp!BridgedWithinHoldings
<1>. QED  BY <1>25, <1>26, <1>27, <1>28, <1>29 DEF PoolInv

\* A bridged LP token comes to the treasury or leaves it.
LEMMA PoolAfterBridged ==
    ASSUME Lp!PoolAssumption, PoolInv, NEW incoming \in BOOLEAN, NEW n \in LpAmounts,
           Lp!handleBridgedLPTransfer(incoming, n)
    PROVE  PoolInv'
<1>1. PICK row, next : row = holding /\ next = holding' OBVIOUS
<1>2. /\ n \in Nat /\ DOMAIN row = Lp!HoldingFields /\ \A c \in Lp!HoldingFields : row[c] \in Int
      /\ bridged \in Nat /\ row.currentBalance \in 0..bridged
  BY <1>1 DEF Lp!PoolAssumption, PoolInv, PoolTyped, Lp!BridgedWithinHoldings
<1>3. /\ DOMAIN next = Lp!HoldingFields /\ \A c \in Lp!HoldingFields : next[c] \in Int
      /\ bridged' \in Nat /\ next.currentBalance \in 0..bridged'
  <2>1. CASE incoming
    <3>1. next = Lp!Add(row, [currentBalance |-> n, totalAcquired |-> n, transactionCount |-> 1])
      BY <1>1, <2>1 DEF Lp!handleBridgedLPTransfer
    <3>2. /\ DOMAIN next = Lp!HoldingFields /\ \A c \in Lp!HoldingFields : next[c] \in Int
          /\ next.currentBalance = row.currentBalance + n
      BY ONLY <1>2, <3>1, TreasuryMoved
    <3>3. bridged' = bridged + n BY <2>1 DEF Lp!handleBridgedLPTransfer
    <3>. QED  BY <1>2, <3>2, <3>3
  <2>2. CASE ~incoming
    BY <1>2, <1>1, <2>2 DEF Lp!Add, Lp!HoldingFields, Lp!handleBridgedLPTransfer, Lp!Clamped
  <2>. QED  BY <2>1, <2>2
<1>4. /\ lpNow' = lpNow /\ lpSupply' = lpSupply /\ inTreasury' = inTreasury
      /\ lastSync' = lastSync /\ feedDown' = feedDown /\ lpMetrics' = lpMetrics
      /\ treasury' = treasury /\ reserves' = reserves /\ priceData' = priceData
      /\ lpDaily' = lpDaily
  BY DEF Lp!handleBridgedLPTransfer
<1>5. PoolTyped' BY <1>1, <1>3, <1>4 DEF PoolInv, PoolTyped
<1>6. FeesOfDays' BY <1>4 DEF PoolInv, FeesOfDays
<1>7. Lp!SharesMirrorChain'
  BY <1>4 DEF PoolInv, Lp!SharesMirrorChain, Lp!calculatePercentageBasisPoints
<1>8. Lp!ValuesAreCurrent' /\ Lp!PricesAreFresh'
  BY <1>4 DEF PoolInv, Lp!ValuesAreCurrent, Lp!PricesAreFresh
<1>9. Lp!BridgedWithinHoldings' BY <1>1, <1>3 DEF Lp!BridgedWithinHoldings
<1>. QED  BY <1>5, <1>6, <1>7, <1>8, <1>9 DEF PoolInv

\* The tables before the first log.
LEMMA PoolInit == ASSUME Lp!PoolAssumption, Lp!Init PROVE PoolInv
<1>1. /\ lpNow = 1 /\ lpSupply = 0 /\ inTreasury = 0 /\ bridged = LpHidden /\ LpHidden \in Nat
      /\ lastSync = LpNone /\ feedDown = FALSE /\ reserves = <<0, 0>> /\ priceData = LpNone
      /\ DOMAIN lpMetrics = Lp!MetricFields /\ \A c \in Lp!MetricFields : lpMetrics[c] = 0
      /\ DOMAIN treasury = Lp!HoldingFields /\ \A c \in Lp!HoldingFields : treasury[c] = 0
      /\ DOMAIN holding = Lp!HoldingFields /\ \A c \in Lp!HoldingFields : holding[c] = 0
      /\ DOMAIN lpDaily = {}
  BY DEF Lp!PoolAssumption, Lp!Init, Lp!Zeros, Lp!NoRows
<1>2. CountersTyped(lpDaily, Lp!DailyFields) BY <1>1, FS_EmptySet DEF CountersTyped
<1>3. \A c : Total(lpDaily, c) = 0
  <2>1. ASSUME NEW c PROVE Total(lpDaily, c) = 0 BY <1>1, SumOfNone, TotalIsColumn DEF Column
  <2>. QED  BY <2>1
<1>4. PoolTyped
  <2>1. reserves = <<lpMetrics.currentReserve0, lpMetrics.currentReserve1>>
    BY <1>1 DEF Lp!MetricFields
  <2>2. \A c \in Lp!MetricFields : lpMetrics[c] \in Int BY <1>1
  <2>3. \A c \in Lp!HoldingFields : treasury[c] \in Int /\ holding[c] \in Int BY <1>1
  <2>4. lpNow \in Nat /\ lpSupply \in Nat /\ inTreasury \in 0..lpSupply /\ bridged \in Nat BY <1>1
  <2>. QED  BY <1>1, <1>2, <2>1, <2>2, <2>3, <2>4 DEF PoolTyped
<1>5. FeesOfDays BY <1>1, <1>3 DEF FeesOfDays, Lp!MetricFields
<1>6. Lp!SharesMirrorChain
  BY <1>1 DEF Lp!SharesMirrorChain, Lp!calculatePercentageBasisPoints, Lp!MetricFields, Lp!HoldingFields
<1>7. Lp!ValuesAreCurrent /\ Lp!PricesAreFresh /\ Lp!BridgedWithinHoldings
  BY <1>1 DEF Lp!ValuesAreCurrent, Lp!PricesAreFresh, Lp!BridgedWithinHoldings, Lp!MetricFields,
              Lp!HoldingFields
<1>. QED  BY <1>4, <1>5, <1>6, <1>7 DEF PoolInv

\* Every step keeps the invariant.
LEMMA PoolKept == ASSUME Lp!PoolAssumption, PoolInv, [Lp!Next]_(Lp!vars) PROVE PoolInv'
<1>1. CASE Lp!Tick
  <2>1. /\ lpNow' = lpNow + 1 /\ lpSupply' = lpSupply /\ inTreasury' = inTreasury
        /\ bridged' = bridged /\ lastSync' = lastSync /\ feedDown' = feedDown
        /\ lpMetrics' = lpMetrics /\ treasury' = treasury /\ reserves' = reserves
        /\ priceData' = priceData /\ lpDaily' = lpDaily /\ holding' = holding
    BY <1>1 DEF Lp!Tick
  <2>2. PoolTyped' BY <2>1 DEF PoolInv, PoolTyped
  <2>. QED  BY <2>1, <2>2 DEF PoolInv, FeesOfDays, Lp!SharesMirrorChain,
                              Lp!calculatePercentageBasisPoints, Lp!ValuesAreCurrent,
                              Lp!PricesAreFresh, Lp!BridgedWithinHoldings
<1>2. CASE UNCHANGED Lp!vars
  <2>1. /\ lpNow' = lpNow /\ lpSupply' = lpSupply /\ inTreasury' = inTreasury
        /\ bridged' = bridged /\ lastSync' = lastSync /\ feedDown' = feedDown
        /\ lpMetrics' = lpMetrics /\ treasury' = treasury /\ reserves' = reserves
        /\ priceData' = priceData /\ lpDaily' = lpDaily /\ holding' = holding
    BY <1>2 DEF Lp!vars, Lp!chain
  <2>. QED  BY <2>1 DEF PoolInv, PoolTyped, FeesOfDays, Lp!SharesMirrorChain,
                        Lp!calculatePercentageBasisPoints, Lp!ValuesAreCurrent,
                        Lp!PricesAreFresh, Lp!BridgedWithinHoldings
<1>. QED  BY <1>1, <1>2, PoolAfterTransfer, PoolAfterSync, PoolAfterSwap, PoolAfterBridged
          DEF Lp!Next, Steps

\* For any amounts, reserves, prices and fee, however late the feed answers: supply, treasury
\* and share are the LP token's, the values in USD are those of the present reserves, price and
\* share, after a Sync whose feed answered the price is fresh, fees add up over the days and
\* split without remainder, and a bridged balance is within what the treasury holds.
THEOREM PoolAlwaysMirrorsChain ==
    ASSUME Lp!PoolAssumption PROVE Lp!Spec => []Lp!PoolMirrorsChain
<1>1. Lp!Init => PoolInv BY PoolInit
<1>2. PoolInv /\ [Lp!Next]_(Lp!vars) => PoolInv' BY PoolKept
<1>3. PoolInv => Lp!PoolMirrorsChain
  BY LpTotal DEF PoolInv, FeesOfDays, Lp!PoolMirrorsChain, Lp!FeesSplit
<1>. QED  BY <1>1, <1>2, <1>3, PTL DEF Lp!Spec

-----------------------------------------------------------------------------
(* liquidity-l2: the pools of the other chains.                            *)

CONSTANTS L2Pool, L2Others, OnVault, L2Amounts, L2SwapAmounts, L2Balances, L2Percentages, L2Wei,
    L2FeeNumerator, L2FeeDenominator, L2DayLength, L2Hidden, L2MaxMinted, L2MaxNow, L2MaxSwaps,
    L2None
VARIABLES l2Now, l2Supply, vault, percentage, l2Metrics, l2Daily

L2 == INSTANCE PoolLiquidityL2 WITH
    Pool <- L2Pool, Others <- L2Others, Amounts <- L2Amounts, SwapAmounts <- L2SwapAmounts,
    Balances <- L2Balances, Percentages <- L2Percentages, Wei <- L2Wei,
    FeeNumerator <- L2FeeNumerator, FeeDenominator <- L2FeeDenominator, DayLength <- L2DayLength,
    Hidden <- L2Hidden, MaxMinted <- L2MaxMinted, MaxNow <- L2MaxNow, MaxSwaps <- L2MaxSwaps,
    None <- L2None, now <- l2Now, supply <- l2Supply, metrics <- l2Metrics, daily <- l2Daily

\* The sums of PoolLiquidityL2 are the library's.
LEMMA L2Total == ASSUME NEW f, NEW c PROVE L2!Total(f, c) = Total(f, c)
<1>1. ASSUME NEW g, NEW S PROVE L2!SumFunctionOnSet(g, S) = (CHOOSE h : AddsUp(g, S, h))[S]
  BY DEF L2!SumFunctionOnSet, L2!FoldFunctionOnSet, L2!MapThenFoldSet, AddsUp, FirstOf
<1>2. ASSUME NEW g PROVE L2!SumFunction(g) = SumFunction(g)
  BY <1>1, SumIsFold DEF L2!SumFunction, SumFunction
<1>3. L2!Total(f, c) = L2!SumFunction([k \in DOMAIN f |-> f[k][c]])
  BY DEF L2!Total, L2!SumOver
<1>4. Total(f, c) = SumFunction([k \in DOMAIN f |-> f[k][c]])
  BY DEF Total, SumOver
<1>. QED  BY <1>2, <1>3, <1>4

L2Fields == {"poolId", "token0", "reserve0", "reserve1", "totalSupply", "totalMinted",
             "totalBurned", "cumulativeFeesToken0", "cumulativeFeesToken1", "swapFeePercentage"}
L2Counters == {"totalSupply", "totalMinted", "totalBurned", "cumulativeFeesToken0",
               "cumulativeFeesToken1", "swapFeePercentage"}

\* A row of the pool.
L2Row(m) == DOMAIN m = L2Fields /\ \A c \in L2Counters : m[c] \in Int

\* The row m says this of the supply.
SupplyTold(m, supplied) ==
    /\ m.totalSupply \in 0..supplied
    /\ L2Hidden = 0 => m.totalSupply = supplied /\ m.totalSupply = m.totalMinted - m.totalBurned

\* The row m has collected what the days have.
FeesTold(m, days) ==
    /\ m.cumulativeFeesToken0 = Total(days, "totalFeesToken0")
    /\ m.cumulativeFeesToken1 = Total(days, "totalFeesToken1")

\* The pool's row, or a new one.
TheRow == LoadOr(l2Metrics, L2Pool, L2!NewMetrics)

L2Inv ==
    /\ l2Supply \in Nat /\ percentage \in L2Percentages
    /\ DOMAIN l2Metrics \subseteq {L2Pool}
    /\ L2Row(TheRow) /\ SupplyTold(TheRow, l2Supply) /\ FeesTold(TheRow, l2Daily)
    /\ CountersTyped(l2Daily, L2!DailyFields)

\* Another row of the pool is saved, the same supply and fees but for what is said.
LEMMA L2Saved ==
    ASSUME L2Inv, NEW m, l2Metrics' = L2!Put(l2Metrics, L2Pool, m)
    PROVE  TheRow' = m /\ DOMAIN l2Metrics' \subseteq {L2Pool}
BY DEF L2Inv, L2!Put, TheRow, LoadOr

\* Rows that agree on the counters tell the same.
LEMMA L2Same ==
    ASSUME NEW m, L2Row(m), NEW next, DOMAIN next = L2Fields,
           \A c \in L2Counters \ {"swapFeePercentage"} : next[c] = m[c],
           next["swapFeePercentage"] \in Int, NEW supplied, NEW days
    PROVE  /\ L2Row(next)
           /\ SupplyTold(m, supplied) => SupplyTold(next, supplied)
           /\ FeesTold(m, days) => FeesTold(next, days)
BY DEF L2Row, L2Counters, SupplyTold, FeesTold

\* The Vault's balances change no counter.
LEMMA ReservesOnly ==
    ASSUME NEW m, L2Row(m), NEW next, next = L2!WithReserves(m)
    PROVE  DOMAIN next = L2Fields /\ \A c \in L2Counters : next[c] = m[c]
<1>1. CASE ~OnVault BY <1>1 DEF L2!WithReserves, L2Row
<1>2. CASE OnVault BY <1>2 DEF L2!WithReserves, L2Row, L2Counters, L2Fields
<1>. QED  BY <1>1, <1>2

\* The supply of the row after a mint, a burn (clamped at zero) or a transfer.
LEMMA SuppliedRow ==
    ASSUME NEW m, L2Row(m), NEW total \in Nat, SupplyTold(m, total), NEW n \in Nat,
           NEW isMint \in BOOLEAN, NEW isBurn \in BOOLEAN, ~isMint => n <= total,
           NEW next, next = L2!Supplied(m, n, isMint, isBurn)
    PROVE  /\ L2Row(next)
           /\ SupplyTold(next, total + (IF isMint THEN n ELSE IF isBurn THEN -n ELSE 0))
           /\ next.cumulativeFeesToken0 = m.cumulativeFeesToken0
           /\ next.cumulativeFeesToken1 = m.cumulativeFeesToken1
<1>1. /\ DOMAIN m = L2Fields /\ L2Counters \subseteq L2Fields
      /\ m.totalSupply \in 0..total /\ m.totalMinted \in Int /\ m.totalBurned \in Int
      /\ L2Hidden = 0 => m.totalSupply = total /\ m.totalSupply = m.totalMinted - m.totalBurned
      /\ \A c \in L2Counters : m[c] \in Int
  BY DEF L2Row, L2Counters, L2Fields, SupplyTold
<1>2. CASE isMint BY <1>2, <1>1 DEF L2!Supplied, L2!Add, L2Fields, L2Row, SupplyTold
<1>3. CASE ~isMint /\ isBurn
  <2>1. PICK d : d = [totalBurned |-> n] OBVIOUS
  <2>2. DOMAIN d = {"totalBurned"} /\ d.totalBurned = n BY <2>1
  <2>3. PICK m1 : m1 = L2!Add(m, d) OBVIOUS
  <2>4. /\ DOMAIN m1 = L2Fields /\ m1.totalBurned = m.totalBurned + n
        /\ \A c \in L2Fields \ {"totalBurned"} : m1[c] = m[c]
    BY <1>1, <2>2, <2>3 DEF L2!Add, L2Fields
  <2>5. PICK left : left = IF n > m1.totalSupply THEN 0 ELSE m1.totalSupply - n OBVIOUS
  <2>6. next = [m1 EXCEPT !.totalSupply = left] BY <1>3, <2>1, <2>3, <2>5 DEF L2!Supplied
  <2>7. m1.totalSupply = m.totalSupply BY <2>4 DEF L2Fields
  <2>8. left \in 0..(total - n) /\ (L2Hidden = 0 => left = total - n) BY <1>1, <1>3, <2>5, <2>7
  <2>9. /\ DOMAIN next = L2Fields /\ next.totalSupply = left
        /\ next.totalBurned = m.totalBurned + n /\ next.totalMinted = m.totalMinted
        /\ \A c \in L2Fields \ {"totalSupply", "totalBurned"} : next[c] = m[c]
    BY <2>4, <2>6 DEF L2Fields
  <2>10. L2Row(next)
    <3>1. left \in Int /\ m.totalBurned + n \in Int BY <1>1, <1>3, <2>8
    <3>2. \A c \in L2Counters : next[c] \in Int BY <1>1, <2>9, <3>1
    <3>. QED  BY <2>9, <3>2 DEF L2Row
  <2>11. total + (-n) = total - n OBVIOUS
  <2>12. SupplyTold(next, total - n) BY <1>1, <2>8, <2>9 DEF SupplyTold
  <2>. QED  BY <1>3, <2>9, <2>10, <2>11, <2>12 DEF L2Fields
<1>4. CASE ~isMint /\ ~isBurn BY <1>4 DEF L2!Supplied
<1>. QED  BY <1>2, <1>3, <1>4

\* The row is made with every counter at zero.
LEMMA NewL2Row ==
    /\ L2Row(L2!NewMetrics) /\ \A c \in L2Counters : L2!NewMetrics[c] = 0
BY DEF L2!NewMetrics, L2Row, L2Fields, L2Counters

\* A BPT (or pair) transfer.
LEMMA L2AfterTransfer ==
    ASSUME L2!PoolL2Assumption, L2Inv, NEW from \in {"zero", "other"}, NEW to \in {"zero", "other"},
           NEW n \in L2Amounts, L2!handleBPTTransfer(from, to, n)
    PROVE  L2Inv'
<1>1. PICK m, total : m = TheRow /\ total = l2Supply OBVIOUS
<1>2. PICK isMint : isMint = (from = "zero") OBVIOUS
<1>3. PICK isBurn : isBurn = (to = "zero") OBVIOUS
<1>4. PICK s : s = L2!Supplied(m, n, isMint, isBurn) OBVIOUS
<1>5. PICK last : last = IF isMint \/ isBurn THEN L2!WithReserves(s) ELSE s OBVIOUS
<1>6. L2!getOrCreatePoolMetrics(L2Pool) = m
  BY <1>1 DEF L2!getOrCreatePoolMetrics, L2!LoadOr, TheRow, LoadOr
<1>7. /\ l2Metrics' = L2!Put(l2Metrics, L2Pool, last)
      /\ l2Supply' = total + (IF isMint THEN n ELSE IF isBurn THEN -n ELSE 0)
      /\ ~isMint => n <= total
      /\ percentage' = percentage /\ l2Daily' = l2Daily
  BY <1>1, <1>2, <1>3, <1>4, <1>5, <1>6 DEF L2!handleBPTTransfer
<1>8. n \in Nat /\ total \in Nat /\ isMint \in BOOLEAN /\ isBurn \in BOOLEAN
  BY <1>1, <1>2, <1>3 DEF L2!PoolL2Assumption, L2Inv
<1>9. L2Row(m) /\ SupplyTold(m, total) /\ FeesTold(m, l2Daily) BY <1>1 DEF L2Inv
<1>10. PICK total2 : total2 = total + (IF isMint THEN n ELSE IF isBurn THEN -n ELSE 0) OBVIOUS
<1>11. /\ L2Row(s) /\ SupplyTold(s, total2)
       /\ s.cumulativeFeesToken0 = m.cumulativeFeesToken0
       /\ s.cumulativeFeesToken1 = m.cumulativeFeesToken1
  BY ONLY <1>4, <1>7, <1>8, <1>9, <1>10, SuppliedRow
<1>12. FeesTold(s, l2Daily) BY <1>9, <1>11 DEF FeesTold
<1>13. DOMAIN last = L2Fields /\ \A c \in L2Counters : last[c] = s[c]
  BY <1>11, ReservesOnly, <1>5 DEF L2Row
<1>14. /\ \A c \in L2Counters \ {"swapFeePercentage"} : last[c] = s[c]
       /\ last["swapFeePercentage"] \in Int
  BY <1>11, <1>13 DEF L2Row, L2Counters
<1>15. L2Row(last) /\ SupplyTold(last, total2) /\ FeesTold(last, l2Daily)
  BY <1>11, <1>12, <1>13, <1>14, L2Same
<1>16. TheRow' = last /\ DOMAIN l2Metrics' \subseteq {L2Pool} BY <1>7, L2Saved
<1>17. l2Supply' \in Nat BY <1>7, <1>8
<1>18. L2Row(TheRow)' /\ SupplyTold(TheRow, l2Supply)' /\ FeesTold(TheRow, l2Daily)'
  BY <1>7, <1>10, <1>15, <1>16 DEF L2Row, SupplyTold, FeesTold
<1>. QED  BY <1>7, <1>16, <1>17, <1>18 DEF L2Inv

\* A Sync of the pair on Celo.
LEMMA L2AfterSync ==
    ASSUME L2!PoolL2Assumption, L2Inv, L2!handleUniswapSync PROVE L2Inv'
<1>1. PICK m : m = TheRow OBVIOUS
<1>2. PICK m1 : m1 = [m EXCEPT !.reserve0 = vault[1]] OBVIOUS
<1>3. PICK m2 : m2 = [m1 EXCEPT !.reserve1 = vault[2]] OBVIOUS
<1>4. PICK last : last = [m2 EXCEPT !.token0 = TRUE] OBVIOUS
<1>5. L2!getOrCreatePoolMetrics(L2Pool) = m
  BY <1>1 DEF L2!getOrCreatePoolMetrics, L2!LoadOr, TheRow, LoadOr
<1>6. /\ l2Metrics' = L2!Put(l2Metrics, L2Pool, last)
      /\ l2Supply' = l2Supply /\ percentage' = percentage /\ l2Daily' = l2Daily
  BY <1>2, <1>3, <1>4, <1>5 DEF L2!handleUniswapSync, L2!chain
<1>7. L2Row(m) /\ SupplyTold(m, l2Supply) /\ FeesTold(m, l2Daily) BY <1>1 DEF L2Inv
<1>8. DOMAIN m1 = L2Fields /\ \A c \in L2Counters : m1[c] = m[c]
  BY <1>2, <1>7 DEF L2Row, L2Counters, L2Fields
<1>9. DOMAIN m2 = L2Fields /\ \A c \in L2Counters : m2[c] = m1[c]
  BY <1>3, <1>8 DEF L2Counters, L2Fields
<1>10. DOMAIN last = L2Fields /\ \A c \in L2Counters : last[c] = m2[c]
  BY <1>4, <1>9 DEF L2Counters, L2Fields
<1>11. /\ \A c \in L2Counters \ {"swapFeePercentage"} : last[c] = m[c]
       /\ last["swapFeePercentage"] \in Int
  BY <1>7, <1>8, <1>9, <1>10 DEF L2Row, L2Counters
<1>12. L2Row(last) /\ SupplyTold(last, l2Supply) /\ FeesTold(last, l2Daily)
  BY <1>7, <1>10, <1>11, L2Same
<1>13. TheRow' = last /\ DOMAIN l2Metrics' \subseteq {L2Pool} BY <1>6, L2Saved
<1>14. L2Row(TheRow)' /\ SupplyTold(TheRow, l2Supply)' /\ FeesTold(TheRow, l2Daily)'
  BY <1>6, <1>12, <1>13 DEF L2Row, SupplyTold, FeesTold
<1>. QED  BY <1>6, <1>13, <1>14 DEF L2Inv

\* Fees of a swap are added to the row and to the day.
LEMMA L2AfterFees ==
    ASSUME L2Inv, NEW m, L2Row(m), SupplyTold(m, l2Supply), FeesTold(m, l2Daily),
           NEW fee0 \in Int, NEW fee1 \in Int, L2!Swapped(L2Pool, m, fee0, fee1)
    PROVE  L2Inv'
<1>1. PICK table, table2, day : table = l2Daily /\ table2 = l2Daily' /\ day = L2!Day OBVIOUS
<1>2. PICK today : today = [totalFeesToken0 |-> fee0, totalFeesToken1 |-> fee1, swapCount |-> 1]
  OBVIOUS
<1>3. /\ DOMAIN today = L2!DailyFields /\ today.totalFeesToken0 = fee0
      /\ today.totalFeesToken1 = fee1 /\ today.swapCount = 1
  BY <1>2 DEF L2!DailyFields
<1>4. table2 = AddTo(table, day, L2!DailyFields, today)
  BY <1>1, <1>2
     DEF L2!Swapped, L2!AddTo, L2!Put, L2!LoadOr, L2!Add, L2!Zeros, AddTo, Put, LoadOr, Add, Zeros
<1>5. AllIntegers(today) BY <1>3 DEF L2!DailyFields, AllIntegers
<1>6. CountersTyped(table, L2!DailyFields) BY <1>1 DEF L2Inv
<1>7. CountersTyped(table2, L2!DailyFields) /\ TotalsRaised(table2, table, L2!DailyFields, today)
  BY ONLY <1>4, <1>5, <1>6, TotalAddTo
<1>8. /\ Total(table2, "totalFeesToken0") = Total(table, "totalFeesToken0") + fee0
      /\ Total(table2, "totalFeesToken1") = Total(table, "totalFeesToken1") + fee1
  BY <1>3, <1>7 DEF TotalsRaised, L2!DailyFields
<1>9. PICK delta : delta = [cumulativeFeesToken0 |-> fee0, cumulativeFeesToken1 |-> fee1] OBVIOUS
<1>10. /\ DOMAIN delta = {"cumulativeFeesToken0", "cumulativeFeesToken1"}
       /\ delta.cumulativeFeesToken0 = fee0 /\ delta.cumulativeFeesToken1 = fee1
  BY <1>9
<1>11. PICK last : last = L2!Add(m, delta) OBVIOUS
<1>12. /\ DOMAIN last = L2Fields
       /\ last.cumulativeFeesToken0 = m.cumulativeFeesToken0 + fee0
       /\ last.cumulativeFeesToken1 = m.cumulativeFeesToken1 + fee1
       /\ \A c \in L2Fields \ DOMAIN delta : last[c] = m[c]
  BY <1>10, <1>11 DEF L2!Add, L2Row, L2Fields
<1>13. L2Row(last) BY <1>10, <1>12 DEF L2Row, L2Counters, L2Fields
<1>14. SupplyTold(last, l2Supply) BY <1>10, <1>12 DEF L2Fields, SupplyTold
<1>15. FeesTold(last, table2) BY <1>1, <1>8, <1>12 DEF FeesTold
<1>16. /\ l2Metrics' = L2!Put(l2Metrics, L2Pool, last)
       /\ l2Supply' = l2Supply /\ percentage' = percentage
  BY <1>9, <1>11 DEF L2!Swapped, L2!chain
<1>17. TheRow' = last /\ DOMAIN l2Metrics' \subseteq {L2Pool} BY <1>16, L2Saved
<1>18. L2Row(TheRow)' /\ SupplyTold(TheRow, l2Supply)' /\ FeesTold(TheRow, l2Daily)'
  BY <1>1, <1>13, <1>14, <1>15, <1>16, <1>17 DEF L2Row, SupplyTold, FeesTold
<1>. QED  BY <1>1, <1>7, <1>16, <1>17, <1>18 DEF L2Inv

\* A swap of the pair.
LEMMA L2AfterPairSwap ==
    ASSUME L2!PoolL2Assumption, L2Inv, NEW a0 \in L2SwapAmounts, NEW a1 \in L2SwapAmounts,
           L2!handleUniswapSwap(a0, a1)
    PROVE  L2Inv'
BY L2AfterFees DEF L2!PoolL2Assumption, L2!getOrCreatePoolMetrics, L2!LoadOr, TheRow, LoadOr,
    L2!handleUniswapSwap, L2Inv

\* A swap of the Vault: only those of the pool's own row count.
LEMMA L2AfterVaultSwap ==
    ASSUME L2!PoolL2Assumption, L2Inv, NEW p, NEW n \in L2SwapAmounts, NEW in0 \in BOOLEAN,
           L2!handleVaultSwap(p, n, in0)
    PROVE  L2Inv'
<1>1. p \in DOMAIN l2Metrics /\ p = L2Pool
  BY DEF L2!handleVaultSwap, L2!SwapOfPool, L2Inv
<1>2. PICK m : m = l2Metrics[p] OBVIOUS
<1>3. m = TheRow BY <1>1, <1>2 DEF TheRow, LoadOr
<1>4. PICK known : known = IF m.poolId = L2None THEN [m EXCEPT !.poolId = p] ELSE m OBVIOUS
<1>5. PICK last : last = L2!WithFee(known) OBVIOUS
<1>6. PICK fee : fee = (n * last.swapFeePercentage) \div L2Wei OBVIOUS
<1>7. L2!Swapped(L2Pool, last, fee, 0) \/ L2!Swapped(L2Pool, last, 0, fee)
  BY <1>1, <1>2, <1>4, <1>5, <1>6 DEF L2!handleVaultSwap, L2!SwapOfPool
<1>8. L2Row(m) /\ SupplyTold(m, l2Supply) /\ FeesTold(m, l2Daily) BY <1>3 DEF L2Inv
<1>9. DOMAIN known = L2Fields /\ \A c \in L2Counters : known[c] = m[c]
  BY <1>4, <1>8 DEF L2Row, L2Counters, L2Fields
<1>10. percentage \in Int /\ n \in Nat /\ L2Wei \in Nat \ {0}
  BY DEF L2!PoolL2Assumption, L2Inv
<1>11. /\ DOMAIN last = L2Fields
       /\ \A c \in L2Counters \ {"swapFeePercentage"} : last[c] = m[c]
       /\ last["swapFeePercentage"] \in Int
  BY <1>8, <1>9, <1>5, <1>10 DEF L2Row, L2Counters, L2!WithFee, L2Fields
<1>12. L2Row(last) /\ SupplyTold(last, l2Supply) /\ FeesTold(last, l2Daily)
  BY <1>8, <1>11, L2Same
<1>13. fee \in Int /\ 0 \in Int BY <1>10, <1>11, <1>6
<1>. QED  BY <1>7, <1>12, <1>13, L2AfterFees

\* It holds before the first log.
LEMMA L2InitInv == ASSUME L2!PoolL2Assumption, L2!Init PROVE L2Inv
<1>1. /\ l2Supply = L2Hidden /\ L2Hidden \in Nat /\ percentage \in L2Percentages
      /\ DOMAIN l2Metrics = {} /\ DOMAIN l2Daily = {}
  BY DEF L2!PoolL2Assumption, L2!Init, L2!NoRows
<1>2. CountersTyped(l2Daily, L2!DailyFields) BY <1>1, FS_EmptySet DEF CountersTyped
<1>3. \A c : Total(l2Daily, c) = 0
  <2>1. ASSUME NEW c PROVE Total(l2Daily, c) = 0 BY <1>1, SumOfNone, TotalIsColumn DEF Column
  <2>. QED  BY <2>1
<1>4. TheRow = L2!NewMetrics BY <1>1 DEF TheRow, LoadOr
<1>5. L2Row(TheRow) /\ \A c \in L2Counters : TheRow[c] = 0 BY <1>4, NewL2Row
<1>6. SupplyTold(TheRow, l2Supply) BY <1>1, <1>5 DEF SupplyTold, L2Counters
<1>7. FeesTold(TheRow, l2Daily) BY <1>3, <1>5 DEF FeesTold, L2Counters
<1>. QED  BY <1>1, <1>2, <1>5, <1>6, <1>7 DEF L2Inv

\* Every step keeps the invariant.
LEMMA L2Kept == ASSUME L2!PoolL2Assumption, L2Inv, [L2!Next]_(L2!vars) PROVE L2Inv'
<1>1. CASE L2!NextBlock \/ UNCHANGED L2!vars
  <2>1. /\ l2Supply' = l2Supply /\ l2Metrics' = l2Metrics /\ l2Daily' = l2Daily
        /\ percentage' \in L2Percentages
    BY <1>1 DEF L2!NextBlock, L2!vars, L2!chain, L2Inv
  <2>2. TheRow' = TheRow BY <2>1 DEF TheRow
  <2>. QED  BY <2>1, <2>2 DEF L2Inv, L2Row, SupplyTold, FeesTold
<1>. QED  BY <1>1, L2AfterTransfer, L2AfterSync, L2AfterVaultSwap, L2AfterPairSwap DEF L2!Next

\* The invariant says what the rows promise.
LEMMA L2Shown == ASSUME L2Inv PROVE L2!PoolL2Consistent
<1>1. \A p \in DOMAIN l2Metrics : p = L2Pool /\ l2Metrics[p] = TheRow
  BY DEF L2Inv, TheRow, LoadOr
<1>2. ASSUME NEW c \in L2Counters PROVE L2!Total(l2Metrics, c) = TheRow[c]
  <2>1. PICK col : col = Column(l2Metrics, c) OBVIOUS
  <2>2. DOMAIN col = DOMAIN l2Metrics /\ \A p \in DOMAIN l2Metrics : col[p] = l2Metrics[p][c]
    BY <2>1 DEF Column
  <2>3. L2!Total(l2Metrics, c) = SumFunction(col) BY <2>1, L2Total, TotalIsColumn
  <2>4. CASE DOMAIN l2Metrics = {} BY <2>4, NewL2Row, <2>2, SumOfNone, <2>3 DEF TheRow, LoadOr
  <2>5. CASE DOMAIN l2Metrics # {} BY <1>1, <2>2, <2>5, SumOfOne, <2>3 DEF L2Inv, L2Row
  <2>. QED  BY <2>4, <2>5
<1>3. /\ L2!Total(l2Metrics, "cumulativeFeesToken0") = L2!Total(l2Daily, "totalFeesToken0")
      /\ L2!Total(l2Metrics, "cumulativeFeesToken1") = L2!Total(l2Daily, "totalFeesToken1")
  BY <1>2, L2Total DEF L2Inv, FeesTold, L2Counters
<1>. QED  BY <1>1, <1>3 DEF L2Inv, SupplyTold, L2!PoolL2Consistent

\* On the Vault or as a pair, for any amounts, fees and any supply before the first indexed
\* block: the row of the pool never tells a negative supply nor more than there is, tells it
\* exactly when nothing was hidden, has collected what the days have, and no other pool has one.
THEOREM PoolL2AlwaysConsistent ==
    ASSUME L2!PoolL2Assumption PROVE L2!Spec => []L2!PoolL2Consistent
<1>1. L2!Init => L2Inv BY L2InitInv
<1>2. L2Inv /\ [L2!Next]_(L2!vars) => L2Inv' BY L2Kept
<1>3. L2Inv => L2!PoolL2Consistent BY L2Shown
<1>. QED  BY <1>1, <1>2, <1>3, PTL DEF L2!Spec

-----------------------------------------------------------------------------
(* governance: the proposals of the governor. *)

CONSTANTS Proposals, Voters, Weights, Quorums, VotingDelay, VotingPeriod, GvMaxBlock, GvNone
VARIABLES gvBlock, phase, quorumAt, voted, tally, paramsTally, proposal, voteCast

Gov == INSTANCE Governor WITH MaxBlock <- GvMaxBlock, None <- GvNone, block <- gvBlock

Phases == {"none", "open", "queued", "executed", "canceled"}
Marks == {"isQueued", "isExecuted", "isCancelled"}
Weighed == [Proposals \X Gov!Supports -> Nat]

\* A row has its fields, and numbers where it counts.
ProposalRow(row) ==
    /\ DOMAIN row = {"startBlock", "votesFor", "votesAgainst", "quorum"} \cup Marks
    /\ row.startBlock \in 0 .. (GvMaxBlock + VotingDelay)
    /\ row.votesFor \in Nat /\ row.votesAgainst \in Nat
    /\ \A m \in Marks : row[m] \in BOOLEAN

ProposalsTyped ==
    /\ gvBlock \in 0 .. GvMaxBlock
    /\ phase \in [Proposals -> Phases]
    /\ quorumAt \in [0 .. (GvMaxBlock + VotingDelay) -> Quorums]
    /\ tally \in Weighed /\ paramsTally \in Weighed /\ voteCast \in Weighed
    /\ DOMAIN proposal \subseteq Proposals
    /\ \A p \in DOMAIN proposal : ProposalRow(proposal[p])

\* The rows are those of the proposals the contract has.
ProposalsKnown == \A p \in Proposals : p \in DOMAIN proposal <=> phase[p] # "none"

\* Nobody has voted on a proposal that is not made.
Unvoted ==
    \A p \in Proposals, s \in Gov!Supports :
        phase[p] = "none" =>
            tally[<<p, s>>] = 0 /\ paramsTally[<<p, s>>] = 0 /\ voteCast[<<p, s>>] = 0

\* A proposal the contract has queued is marked so.
QueuedMarked == \A p \in Proposals : phase[p] = "queued" => proposal[p].isQueued

\* What TalliesMirrorChain says of one proposal.
ProposalMirrored(p) ==
    /\ proposal[p].votesFor + paramsTally[<<p, "for">>] = tally[<<p, "for">>]
    /\ proposal[p].votesAgainst + paramsTally[<<p, "against">>] = tally[<<p, "against">>]
    /\ \A s \in Gov!Supports : voteCast[<<p, s>>] + paramsTally[<<p, s>>] = tally[<<p, s>>]
    /\ proposal[p].isExecuted <=> phase[p] = "executed"
    /\ proposal[p].isCancelled <=> phase[p] = "canceled"

GovernorInv == ProposalsTyped /\ ProposalsKnown /\ Unvoted /\ QueuedMarked /\ Gov!QuorumOfStart /\ Gov!TalliesMirrorChain

-----------------------------------------------------------------------------
(* What the row operators do. *)

\* Marking a row sets the mark and nothing else.
LEMMA MarkSets ==
    ASSUME NEW row, ProposalRow(row), NEW mark \in Marks
    PROVE  /\ ProposalRow(Gov!Mark(row, mark))
           /\ Gov!Mark(row, mark)[mark] = TRUE
           /\ \A x \in DOMAIN row : x # mark => Gov!Mark(row, mark)[x] = row[x]
BY DEF ProposalRow, Gov!Mark, Marks

\* Tallying a vote adds its weight to the counter of its side.
LEMMA TalliedAdds ==
    ASSUME NEW row, ProposalRow(row), NEW s \in Gov!Supports, NEW w \in Nat
    PROVE  LET next == Gov!Tallied(row, s, w)
           IN  /\ ProposalRow(next)
               /\ \A x \in DOMAIN row : x \notin {"votesFor", "votesAgainst"} => next[x] = row[x]
               /\ next.votesFor = row.votesFor + (IF s = "for" THEN w ELSE 0)
               /\ next.votesAgainst = row.votesAgainst + (IF s = "against" THEN w ELSE 0)
BY DEF Gov!Tallied, Gov!Add, ProposalRow, Marks, Gov!Supports

-----------------------------------------------------------------------------
(* The invariant holds at the start and is kept by every step. *)

\* The governor starts without proposals and votes.
LEMMA GovernorInit == ASSUME Gov!GovernorAssumption, Gov!Init PROVE GovernorInv
<1>1. DOMAIN proposal = {}
  BY DEF Gov!Init, Gov!NoRows
<1>2. \A x \in Proposals \X Gov!Supports : tally[x] = 0 /\ paramsTally[x] = 0 /\ voteCast[x] = 0
  BY DEF Gov!Init
<1>3. ProposalsTyped
  BY <1>1 DEF Gov!Init, ProposalsTyped, Gov!GovernorAssumption, Weighed, Phases
<1>. QED  BY <1>1, <1>2, <1>3 DEF Gov!Init, GovernorInv, ProposalsKnown, Unvoted, QueuedMarked, Gov!QuorumOfStart,
               Gov!TalliesMirrorChain

\* A block passes.
LEMMA NextBlockStep == ASSUME Gov!GovernorAssumption, GovernorInv, Gov!NextBlock PROVE GovernorInv'
<1>1. ProposalsTyped' BY DEF GovernorInv, ProposalsTyped, Gov!NextBlock, Gov!GovernorAssumption
<1>2. ProposalsKnown' /\ Unvoted' /\ QueuedMarked'
  BY DEF GovernorInv, ProposalsKnown, Unvoted, QueuedMarked, Gov!NextBlock
<1>3. Gov!QuorumOfStart' /\ Gov!TalliesMirrorChain'
  BY DEF GovernorInv, Gov!QuorumOfStart, Gov!StartOf, Gov!TalliesMirrorChain, Gov!NextBlock
<1>. QED  BY <1>1, <1>2, <1>3 DEF GovernorInv

\* A new proposal starts with no votes, as the contract's does.
LEMMA CreatedStep ==
    ASSUME Gov!GovernorAssumption, GovernorInv, NEW p \in Proposals, Gov!handleProposalCreated(p)
    PROVE  GovernorInv'
<1>1. /\ phase \in [Proposals -> Phases] /\ phase[p] = "none"
      /\ phase' = [phase EXCEPT ![p] = "open"]
      /\ p \notin DOMAIN proposal
      /\ UNCHANGED <<gvBlock, quorumAt, voted, tally, paramsTally, voteCast>>
  BY DEF GovernorInv, ProposalsTyped, ProposalsKnown, Gov!handleProposalCreated
<1>2. \A q \in Proposals : phase'[q] = IF q = p THEN "open" ELSE phase[q]
  BY <1>1
<1>3. /\ DOMAIN proposal' = DOMAIN proposal \cup {p}
      /\ \A q \in DOMAIN proposal : proposal'[q] = proposal[q] /\ q # p
  BY <1>1 DEF Gov!handleProposalCreated, Gov!Put
<1>4. proposal'[p] = [startBlock |-> gvBlock + VotingDelay, votesFor |-> 0,
                      votesAgainst |-> 0, quorum |-> GvNone, isQueued |-> FALSE,
                      isExecuted |-> FALSE, isCancelled |-> FALSE]
  BY <1>1 DEF Gov!handleProposalCreated, Gov!Put
<1>5. ProposalRow(proposal'[p])
  BY <1>4 DEF ProposalRow, Marks, Gov!GovernorAssumption, GovernorInv, ProposalsTyped
<1>6. ProposalsTyped'
  BY <1>3, <1>5, <1>1 DEF GovernorInv, ProposalsTyped, Phases, Weighed, ProposalRow
<1>7. ProposalsKnown'
  BY <1>2, <1>3 DEF GovernorInv, ProposalsKnown
<1>8. Unvoted'
  BY <1>1, <1>2 DEF GovernorInv, Unvoted
<1>9. QueuedMarked'
  BY <1>2, <1>3 DEF GovernorInv, QueuedMarked, ProposalsKnown
<1>10. Gov!QuorumOfStart'
  BY <1>1, <1>3, <1>4 DEF GovernorInv, Gov!QuorumOfStart, Gov!StartOf
<1>11. Gov!TalliesMirrorChain'
  <2>1. \A s \in Gov!Supports : /\ tally[<<p, s>>] = 0 /\ paramsTally[<<p, s>>] = 0
                            /\ voteCast[<<p, s>>] = 0
    BY <1>1 DEF GovernorInv, Unvoted
  <2>2. ASSUME NEW q \in DOMAIN proposal
        PROVE  q \in Proposals /\ phase'[q] = phase[q] /\ proposal'[q] = proposal[q]
    BY <1>2, <1>3 DEF GovernorInv, ProposalsTyped
  <2>3. phase'[p] = "open" BY <1>2
  <2>. SUFFICES ASSUME NEW q \in DOMAIN proposal' PROVE ProposalMirrored(q)'
    BY DEF Gov!TalliesMirrorChain, ProposalMirrored
  <2>4. CASE q = p BY <2>4, <1>1, <1>4, <2>1, <2>3 DEF Gov!Supports, ProposalMirrored
  <2>5. CASE q # p
    BY <2>5, <1>3, <1>1, <2>2 DEF GovernorInv, Gov!TalliesMirrorChain, ProposalMirrored
  <2>. QED  BY <2>4, <2>5
<1>. QED  BY <1>6, <1>7, <1>8, <1>9, <1>10, <1>11 DEF GovernorInv

-----------------------------------------------------------------------------
(* Votes. *)

\* The count with the weight of a vote in it.
CountRaised(c, p, s, w) == [c EXCEPT ![<<p, s>>] = @ + w]

\* d is a count like c, with a vote's weight more where it was cast.
VoteAdded(d, c, p, s, w) ==
    /\ d \in Weighed
    /\ \A q \in Proposals, t \in Gov!Supports :
          d[<<q, t>>] = c[<<q, t>>] + IF q = p /\ t = s THEN w ELSE 0

\* What a vote adds to a count.
LEMMA CountAdds ==
    \A c \in Weighed, p \in Proposals, s \in Gov!Supports, w \in Nat :
       VoteAdded(CountRaised(c, p, s, w), c, p, s, w)
<1>. SUFFICES ASSUME NEW c \in Weighed, NEW p \in Proposals, NEW s \in Gov!Supports, NEW w \in Nat
              PROVE  VoteAdded(CountRaised(c, p, s, w), c, p, s, w)
  OBVIOUS
<1>1. <<p, s>> \in Proposals \X Gov!Supports /\ c[<<p, s>>] \in Nat
  BY DEF Weighed
<1>2. \A q \in Proposals, t \in Gov!Supports :
         c[<<q, t>>] \in Nat /\ (<<q, t>> = <<p, s>> <=> q = p /\ t = s)
  BY DEF Weighed
<1>. QED  BY <1>1, <1>2 DEF VoteAdded, Weighed, CountRaised

\* A vote changes neither the phase of its proposal nor its block.
LEMMA CastStep ==
    ASSUME Gov!GovernorAssumption, GovernorInv, NEW p \in Proposals, NEW v \in Voters,
           NEW s \in Gov!Supports, NEW w \in Weights, Gov!Cast(p, v, s, w)
    PROVE  /\ w \in Nat /\ p \in DOMAIN proposal /\ phase[p] = "open"
           /\ tally' \in Weighed
           /\ \A q \in Proposals, t \in Gov!Supports :
                 tally'[<<q, t>>] = tally[<<q, t>>] + IF q = p /\ t = s THEN w ELSE 0
           /\ UNCHANGED <<gvBlock, phase, quorumAt>>
<1>1. w \in Nat
  BY DEF Gov!GovernorAssumption
<1>0. tally \in Weighed
  BY DEF GovernorInv, ProposalsTyped
<1>2. phase[p] = "open" /\ p \in DOMAIN proposal
  BY DEF Gov!Cast, Gov!Voting, GovernorInv, ProposalsKnown
<1>3. tally' = CountRaised(tally, p, s, w)
  BY DEF Gov!Cast, CountRaised
<1>4. VoteAdded(CountRaised(tally, p, s, w), tally, p, s, w)
  BY <1>0, <1>1, CountAdds
<1>5. UNCHANGED <<gvBlock, phase, quorumAt>>
  BY DEF Gov!Cast
<1>. QED  BY <1>1, <1>2, <1>3, <1>4, <1>5 DEF VoteAdded

\* A vote is in the tally and in the row alike.
LEMMA VoteStep ==
    ASSUME Gov!GovernorAssumption, GovernorInv, NEW p \in Proposals, NEW v \in Voters,
           NEW s \in Gov!Supports, NEW w \in Weights, Gov!handleVoteCast(p, v, s, w)
    PROVE  GovernorInv'
<1>1. /\ w \in Nat /\ p \in DOMAIN proposal /\ phase[p] = "open"
      /\ tally' \in Weighed
      /\ \A q \in Proposals, t \in Gov!Supports :
            tally'[<<q, t>>] = tally[<<q, t>>] + IF q = p /\ t = s THEN w ELSE 0
      /\ UNCHANGED <<gvBlock, phase, quorumAt, paramsTally>>
  BY CastStep DEF Gov!handleVoteCast
<1>2. /\ voteCast' \in Weighed
      /\ \A q \in Proposals, t \in Gov!Supports :
            voteCast'[<<q, t>>] = voteCast[<<q, t>>] + IF q = p /\ t = s THEN w ELSE 0
  <2>0. w \in Nat BY <1>1
  <2>1. voteCast \in Weighed BY DEF GovernorInv, ProposalsTyped
  <2>2. voteCast' = CountRaised(voteCast, p, s, w) BY DEF Gov!handleVoteCast, CountRaised
  <2>3. VoteAdded(CountRaised(voteCast, p, s, w), voteCast, p, s, w)
    BY <2>0, <2>1, CountAdds
  <2>. QED  BY <2>2, <2>3 DEF VoteAdded
<1>. DEFINE old == proposal[p]  new == Gov!Tallied(old, s, w)
<1>3. /\ DOMAIN proposal' = DOMAIN proposal
      /\ proposal'[p] = new
      /\ \A q \in DOMAIN proposal : q # p => proposal'[q] = proposal[q]
  BY <1>1 DEF Gov!handleVoteCast
<1>4. ProposalRow(old)
  BY <1>1 DEF GovernorInv, ProposalsTyped
<1>5. /\ ProposalRow(new)
      /\ \A x \in DOMAIN old : x \notin {"votesFor", "votesAgainst"} => new[x] = old[x]
      /\ new.votesFor = old.votesFor + (IF s = "for" THEN w ELSE 0)
      /\ new.votesAgainst = old.votesAgainst + (IF s = "against" THEN w ELSE 0)
  BY <1>1, <1>4, TalliedAdds
<1>6. /\ new.startBlock = old.startBlock /\ new.quorum = old.quorum
      /\ new.isQueued = old.isQueued /\ new.isExecuted = old.isExecuted
      /\ new.isCancelled = old.isCancelled
  BY <1>4, <1>5 DEF ProposalRow, Marks
<1>. HIDE DEF new
<1>7. ProposalsTyped'
  <2>1. \A q \in DOMAIN proposal' : ProposalRow(proposal'[q])
    BY <1>3, <1>5 DEF GovernorInv, ProposalsTyped
  <2>. QED  BY <1>1, <1>2, <1>3, <2>1 DEF GovernorInv, ProposalsTyped, ProposalRow, Weighed
<1>8. ProposalsKnown' /\ QueuedMarked'
  BY <1>1, <1>3, <1>6 DEF GovernorInv, ProposalsKnown, QueuedMarked
<1>9. Unvoted'
  BY <1>1, <1>2 DEF GovernorInv, Unvoted
<1>10. Gov!QuorumOfStart'
  <2>1. \A q \in DOMAIN proposal : /\ proposal'[q].quorum = proposal[q].quorum
                                   /\ proposal'[q].startBlock = proposal[q].startBlock
                                   /\ proposal'[q].isQueued = proposal[q].isQueued
                                   /\ proposal'[q].isExecuted = proposal[q].isExecuted
    BY <1>3, <1>6
  <2>. QED  BY <1>1, <1>3, <2>1 DEF GovernorInv, Gov!QuorumOfStart, Gov!StartOf
<1>11. Gov!TalliesMirrorChain'
  <2>. SUFFICES ASSUME NEW q \in DOMAIN proposal
                PROVE  /\ proposal'[q].votesFor + paramsTally[<<q, "for">>] = tally'[<<q, "for">>]
                       /\ proposal'[q].votesAgainst + paramsTally[<<q, "against">>]
                             = tally'[<<q, "against">>]
                       /\ \A t \in Gov!Supports :
                             voteCast'[<<q, t>>] + paramsTally[<<q, t>>] = tally'[<<q, t>>]
                       /\ proposal'[q].isExecuted <=> phase[q] = "executed"
                       /\ proposal'[q].isCancelled <=> phase[q] = "canceled"
    BY <1>1, <1>3 DEF Gov!TalliesMirrorChain
  <2>1. q \in Proposals /\ ProposalRow(proposal[q]) /\ {"for", "against"} \subseteq Gov!Supports
    BY DEF GovernorInv, ProposalsTyped, Gov!Supports
  <2>2. \A t \in Gov!Supports : /\ tally[<<q, t>>] \in Nat /\ paramsTally[<<q, t>>] \in Nat
                            /\ voteCast[<<q, t>>] \in Nat
    BY <2>1 DEF GovernorInv, ProposalsTyped, Weighed
  <2>3. /\ proposal[q].votesFor + paramsTally[<<q, "for">>] = tally[<<q, "for">>]
        /\ proposal[q].votesAgainst + paramsTally[<<q, "against">>] = tally[<<q, "against">>]
        /\ \A t \in Gov!Supports : voteCast[<<q, t>>] + paramsTally[<<q, t>>] = tally[<<q, t>>]
        /\ proposal[q].isExecuted <=> phase[q] = "executed"
        /\ proposal[q].isCancelled <=> phase[q] = "canceled"
    BY DEF GovernorInv, Gov!TalliesMirrorChain
  <2>4. proposal[q].votesFor \in Nat /\ proposal[q].votesAgainst \in Nat
    BY <2>1 DEF ProposalRow
  <2>5. CASE q = p
    <3>1. \A t \in Gov!Supports : voteCast'[<<q, t>>] + paramsTally[<<q, t>>] = tally'[<<q, t>>]
      BY <1>1, <1>2, <2>1, <2>2, <2>3
    <3>2. /\ proposal'[q].votesFor + paramsTally[<<q, "for">>] = tally'[<<q, "for">>]
          /\ proposal'[q].votesAgainst + paramsTally[<<q, "against">>] = tally'[<<q, "against">>]
      BY <2>5, <1>1, <1>3, <1>5, <2>1, <2>2, <2>3, <2>4
    <3>. QED  BY <3>1, <3>2, <2>5, <1>3, <1>6, <2>3
  <2>6. CASE q # p
    BY <2>6, <1>1, <1>2, <1>3, <2>1, <2>2, <2>3
  <2>. QED  BY <2>5, <2>6
<1>. QED  BY <1>7, <1>8, <1>9, <1>10, <1>11 DEF GovernorInv

\* A vote with parameters adds the same to the contract's tally and to what the
\* rows leave out.
LEMMA VoteWithParamsStep ==
    ASSUME Gov!GovernorAssumption, GovernorInv, NEW p \in Proposals, NEW v \in Voters,
           NEW s \in Gov!Supports, NEW w \in Weights, Gov!handleVoteCastWithParams(p, v, s, w)
    PROVE  GovernorInv'
<1>1. /\ w \in Nat /\ p \in DOMAIN proposal /\ phase[p] = "open"
      /\ tally' \in Weighed
      /\ \A q \in Proposals, t \in Gov!Supports :
            tally'[<<q, t>>] = tally[<<q, t>>] + IF q = p /\ t = s THEN w ELSE 0
      /\ UNCHANGED <<gvBlock, phase, quorumAt, proposal, voteCast>>
  BY CastStep DEF Gov!handleVoteCastWithParams
<1>2. /\ paramsTally' \in Weighed
      /\ \A q \in Proposals, t \in Gov!Supports :
            paramsTally'[<<q, t>>] = paramsTally[<<q, t>>] + IF q = p /\ t = s THEN w ELSE 0
  <2>0. w \in Nat BY <1>1
  <2>1. paramsTally \in Weighed BY DEF GovernorInv, ProposalsTyped
  <2>2. paramsTally' = CountRaised(paramsTally, p, s, w) BY DEF Gov!handleVoteCastWithParams, CountRaised
  <2>3. VoteAdded(CountRaised(paramsTally, p, s, w), paramsTally, p, s, w)
    BY <2>0, <2>1, CountAdds
  <2>. QED  BY <2>2, <2>3 DEF VoteAdded
<1>3. ProposalsTyped'
  BY <1>1, <1>2 DEF GovernorInv, ProposalsTyped, ProposalRow, Weighed
<1>4. ProposalsKnown' /\ QueuedMarked'
  BY <1>1 DEF GovernorInv, ProposalsKnown, QueuedMarked
<1>5. Unvoted'
  BY <1>1, <1>2 DEF GovernorInv, Unvoted
<1>6. Gov!QuorumOfStart'
  BY <1>1 DEF GovernorInv, Gov!QuorumOfStart, Gov!StartOf
<1>7. Gov!TalliesMirrorChain'
  <2>1. \A q \in DOMAIN proposal :
           /\ q \in Proposals
           /\ proposal[q].votesFor \in Nat /\ proposal[q].votesAgainst \in Nat
    BY DEF GovernorInv, ProposalsTyped, ProposalRow
  <2>2. \A q \in Proposals, t \in Gov!Supports :
           tally[<<q, t>>] \in Nat /\ paramsTally[<<q, t>>] \in Nat /\ voteCast[<<q, t>>] \in Nat
    BY DEF GovernorInv, ProposalsTyped, Weighed
  <2>3. "for" \in Gov!Supports /\ "against" \in Gov!Supports
    BY DEF Gov!Supports
  <2>. SUFFICES ASSUME NEW q \in DOMAIN proposal PROVE ProposalMirrored(q)'
    BY <1>1 DEF Gov!TalliesMirrorChain, ProposalMirrored
  <2>4. ProposalMirrored(q)
    BY DEF GovernorInv, Gov!TalliesMirrorChain, ProposalMirrored
  <2>5. \A t \in Gov!Supports : voteCast'[<<q, t>>] + paramsTally'[<<q, t>>] = tally'[<<q, t>>]
    BY <1>1, <1>2, <2>1, <2>2, <2>4 DEF ProposalMirrored
  <2>6. proposal'[q].votesFor + paramsTally'[<<q, "for">>] = tally'[<<q, "for">>]
    BY <1>1, <1>2, <2>1, <2>2, <2>3, <2>4 DEF ProposalMirrored
  <2>7. proposal'[q].votesAgainst + paramsTally'[<<q, "against">>] = tally'[<<q, "against">>]
    BY <1>1, <1>2, <2>1, <2>2, <2>3, <2>4 DEF ProposalMirrored
  <2>. QED  BY <2>4, <2>5, <2>6, <2>7, <1>1 DEF ProposalMirrored
<1>. QED  BY <1>3, <1>4, <1>5, <1>6, <1>7 DEF GovernorInv

-----------------------------------------------------------------------------
(* Queueing, execution and cancellation. *)

\* The row a proposal has after it moved on, whatever it moved to.
LEMMA QuorumRead ==
    ASSUME NEW p \in Proposals, NEW row, ProposalRow(row)
    PROVE  LET next == Gov!updateProposalQuorum(p, row)
           IN  /\ ProposalRow(next)
               /\ \A x \in DOMAIN row : x # "quorum" => next[x] = row[x]
               /\ next.quorum = IF row.quorum = GvNone /\ gvBlock > row.startBlock
                                THEN quorumAt[row.startBlock] ELSE row.quorum
BY DEF Gov!updateProposalQuorum, ProposalRow, Marks

\* A proposal that is queued, executed or cancelled: its mark is set, and its quorum read.
LEMMA MovedStep ==
    ASSUME Gov!GovernorAssumption, GovernorInv, NEW p \in Proposals,
           NEW to \in Phases \ {"none"}, NEW mark \in Marks, Gov!Moved(p, to, mark),
           phase[p] \in {"open", "queued"},
           mark \in {"isQueued", "isExecuted"} =>
              \/ gvBlock > Gov!StartOf(p) + VotingPeriod \/ phase[p] = "queued",
           to = "executed" <=> mark = "isExecuted",
           to = "canceled" <=> mark = "isCancelled",
           to = "queued" <=> mark = "isQueued"
    PROVE  GovernorInv'
<1>1. /\ phase \in [Proposals -> Phases] /\ p \in DOMAIN proposal
      /\ UNCHANGED <<gvBlock, quorumAt, voted, tally, paramsTally, voteCast>>
      /\ \A q \in Proposals : phase'[q] = IF q = p THEN to ELSE phase[q]
      /\ phase' \in [Proposals -> Phases]
  BY DEF GovernorInv, ProposalsTyped, ProposalsKnown, Gov!Moved
<1>. DEFINE old == proposal[p]  marked == Gov!Mark(old, mark)  new == Gov!updateProposalQuorum(p, marked)
<1>2. /\ DOMAIN proposal' = DOMAIN proposal
      /\ proposal'[p] = new
      /\ \A q \in DOMAIN proposal : q # p => proposal'[q] = proposal[q]
  BY <1>1 DEF Gov!Moved
<1>3. ProposalRow(old)
  BY <1>1 DEF GovernorInv, ProposalsTyped
<1>4. /\ ProposalRow(marked) /\ marked[mark] = TRUE
      /\ \A x \in DOMAIN old : x # mark => marked[x] = old[x]
  BY <1>3, MarkSets
<1>5. DOMAIN old = DOMAIN marked
  BY <1>3, <1>4 DEF ProposalRow
<1>. HIDE DEF marked
<1>6. /\ ProposalRow(new)
      /\ \A x \in DOMAIN marked : x # "quorum" => new[x] = marked[x]
      /\ new.quorum = IF marked.quorum = GvNone /\ gvBlock > marked.startBlock
                      THEN quorumAt[marked.startBlock] ELSE marked.quorum
  BY <1>4, QuorumRead
<1>. HIDE DEF new
<1>7. /\ new[mark] = TRUE
      /\ \A m \in Marks : m # mark => new[m] = old[m]
      /\ new.startBlock = old.startBlock
      /\ new.votesFor = old.votesFor /\ new.votesAgainst = old.votesAgainst
      /\ new.quorum = IF old.quorum = GvNone /\ gvBlock > old.startBlock
                      THEN quorumAt[old.startBlock] ELSE old.quorum
  BY <1>3, <1>4, <1>5, <1>6 DEF ProposalRow, Marks
<1>8. ProposalsTyped' BY <1>2, <1>6, <1>1 DEF GovernorInv, ProposalsTyped, ProposalRow, Weighed
<1>9. ProposalsKnown'
  BY <1>1, <1>2 DEF GovernorInv, ProposalsKnown
<1>10. Unvoted'
  BY <1>1 DEF GovernorInv, Unvoted
<1>11. QueuedMarked' BY <1>7, <1>1, <1>2 DEF GovernorInv, ProposalsKnown, QueuedMarked
<1>12. Gov!QuorumOfStart'
  <2>1. new.quorum \in {GvNone, quorumAt[new.startBlock]}
    BY <1>1, <1>7 DEF GovernorInv, Gov!QuorumOfStart, Gov!StartOf
  <2>2. ASSUME new.isQueued \/ new.isExecuted PROVE new.quorum # GvNone
    <3>1. quorumAt[old.startBlock] # GvNone
      BY <1>3 DEF ProposalRow, Gov!GovernorAssumption, GovernorInv, ProposalsTyped
    <3>2. CASE mark \in {"isQueued", "isExecuted"} /\ gvBlock > Gov!StartOf(p) + VotingPeriod
      BY <3>2, <1>3, <3>1, <1>7 DEF ProposalRow, Gov!StartOf, Gov!GovernorAssumption, GovernorInv,
          ProposalsTyped
    <3>3. CASE phase[p] = "queued"
      BY <3>3, <1>1, <1>7 DEF GovernorInv, QueuedMarked, Gov!QuorumOfStart
    <3>4. CASE mark = "isCancelled"
      BY <2>2, <3>4, <1>7, <1>1, <3>1 DEF Marks, GovernorInv, Gov!QuorumOfStart
    <3>. QED  BY <3>2, <3>3, <3>4 DEF Marks
  <2>. QED  BY <1>1, <1>2, <2>1, <2>2 DEF GovernorInv, Gov!QuorumOfStart, Gov!StartOf
<1>13. Gov!TalliesMirrorChain'
  <2>1. new.isExecuted <=> to = "executed"
    BY <1>1, <1>7 DEF GovernorInv, Gov!TalliesMirrorChain, Marks
  <2>2. new.isCancelled <=> to = "canceled"
    BY <1>1, <1>7 DEF GovernorInv, Gov!TalliesMirrorChain, Marks
  <2>3. \A q \in DOMAIN proposal : q \in Proposals
    BY DEF GovernorInv, ProposalsTyped
  <2>. SUFFICES ASSUME NEW q \in DOMAIN proposal PROVE ProposalMirrored(q)'
    BY <1>2 DEF Gov!TalliesMirrorChain, ProposalMirrored
  <2>4. ProposalMirrored(q)
    BY DEF GovernorInv, Gov!TalliesMirrorChain, ProposalMirrored
  <2>5. CASE q = p
    BY <2>3, <2>4, <2>5, <1>1, <1>2, <1>7, <2>1, <2>2 DEF ProposalMirrored
  <2>6. CASE q # p
    BY <2>3, <2>4, <2>6, <1>1, <1>2 DEF ProposalMirrored
  <2>. QED  BY <2>5, <2>6
<1>. QED  BY <1>8, <1>9, <1>10, <1>11, <1>12, <1>13 DEF GovernorInv

-----------------------------------------------------------------------------
\* Every step of the governor and of its handlers keeps the invariant.
LEMMA GovernorStep == ASSUME Gov!GovernorAssumption, GovernorInv, [Gov!Next]_(Gov!vars) PROVE GovernorInv'
<1>1. CASE Gov!NextBlock BY <1>1, NextBlockStep
<1>2. ASSUME NEW p \in Proposals, Gov!handleProposalCreated(p) PROVE GovernorInv'
  BY <1>2, CreatedStep
<1>3. ASSUME NEW p \in Proposals, Gov!handleProposalQueued(p) PROVE GovernorInv'
  BY <1>3, MovedStep DEF Gov!handleProposalQueued, Phases, Marks
<1>4. ASSUME NEW p \in Proposals, Gov!handleProposalExecuted(p) PROVE GovernorInv'
  BY <1>4, MovedStep DEF Gov!handleProposalExecuted, Phases, Marks
<1>5. ASSUME NEW p \in Proposals, Gov!handleProposalCanceled(p) PROVE GovernorInv'
  BY <1>5, MovedStep DEF Gov!handleProposalCanceled, Phases, Marks
<1>6. ASSUME NEW p \in Proposals, NEW v \in Voters, NEW s \in Gov!Supports, NEW w \in Weights,
             Gov!handleVoteCast(p, v, s, w)
      PROVE  GovernorInv'
  BY <1>6, VoteStep
<1>7. ASSUME NEW p \in Proposals, NEW v \in Voters, NEW s \in Gov!Supports, NEW w \in Weights,
             Gov!handleVoteCastWithParams(p, v, s, w)
      PROVE  GovernorInv'
  BY <1>7, VoteWithParamsStep
<1>8. CASE UNCHANGED Gov!vars
  <2>1. UNCHANGED <<gvBlock, phase, quorumAt, tally, paramsTally, proposal, voteCast>>
    BY <1>8 DEF Gov!vars, Gov!chain
  <2>2. ProposalsTyped' BY <2>1 DEF GovernorInv, ProposalsTyped
  <2>3. ProposalsKnown' /\ Unvoted' /\ QueuedMarked'
    BY <2>1 DEF GovernorInv, ProposalsKnown, Unvoted, QueuedMarked
  <2>4. Gov!QuorumOfStart' /\ Gov!TalliesMirrorChain'
    BY <2>1 DEF GovernorInv, Gov!QuorumOfStart, Gov!StartOf, Gov!TalliesMirrorChain
  <2>. QED  BY <2>2, <2>3, <2>4 DEF GovernorInv
<1>. QED  BY <1>1, <1>2, <1>3, <1>4, <1>5, <1>6, <1>7, <1>8 DEF Gov!Next

\* The rows of the proposals mirror the contract: the tallies less the votes
\* cast with parameters, what became of each proposal, and the quorum of its
\* start block, never of another (governor-olas.ts).
THEOREM ProposalsAlwaysMirrorChain ==
    ASSUME Gov!GovernorAssumption PROVE Gov!Spec => []Gov!ProposalsMirrorChain
<1>1. Gov!Init => GovernorInv BY GovernorInit
<1>2. GovernorInv /\ [Gov!Next]_(Gov!vars) => GovernorInv' BY GovernorStep
<1>3. GovernorInv => Gov!ProposalsMirrorChain BY DEF GovernorInv, Gov!ProposalsMirrorChain
<1>. QED  BY <1>1, <1>2, <1>3, PTL DEF Gov!Spec
-----------------------------------------------------------------------------
(* babydegen: positions in Velodrome and Aerodrome pools.                  *)

CONSTANTS BpSafes, Nfts, Ungauged, BpPool, BpGauge, BpRouter, BpOutsider, BpZero, BpPrices,
          MaxLp, MaxLiquidity, BpMaxTx, MaxBlocks
VARIABLES bpBlock, bpPrice, closed, bpLogs, bpTx, wallet, staked, nft, put, taken, bpPosition,
          mapping, pending

Bp == INSTANCE BabydegenPositions WITH
    Safes <- BpSafes, Pool <- BpPool, Gauge <- BpGauge, Router <- BpRouter,
    Outsider <- BpOutsider, Zero <- BpZero, Prices <- BpPrices, MaxTx <- BpMaxTx,
    block <- bpBlock, price <- bpPrice, logs <- bpLogs, tx <- bpTx, position <- bpPosition

BpAccounts == BpSafes \cup {BpPool, BpGauge, BpRouter, BpOutsider, BpZero}
BpNft == [state : {"unborn", "live", "burned"}, home : BpSafes \cup {BpZero}, owner : BpAccounts,
          liquidity : Nat]
BpRow == [active : BOOLEAN, liquidity : Nat, usdCurrent : Nat, usdCurrentWithRewards : Nat,
          entry : Nat, exit : Nat, exited : BOOLEAN, investment : Nat, netGain : Int]
BpEvents ==
    [event : {"Transfer"}, from : BpAccounts, to : BpAccounts, tx : Nat]
    \cup [event : {"Mint"}, amount : Positives, tx : Nat]
    \cup [event : {"Burn"}, sender : {BpRouter}, to : BpSafes \cup {BpRouter}, amount : Positives]
    \cup [event : {"NftTransfer"}, from : BpAccounts, to : BpAccounts, id : Nfts]
    \cup [event : {"Increase", "Decrease"}, id : Nfts, amount : Positives]
    \cup [event : {"Collect"}, id : Nfts]

\* Types of the chain.
BpChainTyped ==
    /\ bpPrice \in Positives /\ bpTx \in Nat /\ bpLogs \in Seq(BpEvents)
    /\ wallet \in [BpSafes -> Nat] /\ staked \in [BpSafes -> Nat]
    /\ nft \in [Nfts -> BpNft] /\ put \in [Nfts -> Nat] /\ taken \in [Nfts -> Nat]

\* Types of the rows.
BpKeys == BpSafes \X (Nfts \cup {BpPool})
RowsTyped(rows) == PartialFn(rows, BpKeys, BpRow)
BpTyped == BpChainTyped /\ RowsTyped(bpPosition) /\ mapping \in [Nfts -> BpSafes \cup {BpZero}]

\* The gain of a row that is closed.
GainRight(row) ==
    ~row.active /\ row.exited /\ row.entry > 0 => row.netGain = row.exit - row.entry

\* What a closed row is given.
LEMMA RoiOfRow ==
    ASSUME NEW row \in BpRow, NEW next, next = Bp!calculatePositionROI(row)
    PROVE  /\ next \in BpRow /\ GainRight(next)
           /\ next.active = row.active /\ next.liquidity = row.liquidity
           /\ next.entry = row.entry /\ next.exit = row.exit /\ next.exited = row.exited
<1>1. next = IF row.active \/ ~row.exited \/ row.entry = 0 THEN row
             ELSE [row EXCEPT !.investment = row.entry, !.netGain = row.exit - row.entry]
  BY DEF Bp!calculatePositionROI
<1>2. CASE row.active \/ ~row.exited \/ row.entry = 0 BY <1>1, <1>2 DEF GainRight, BpRow
<1>3. CASE ~(row.active \/ ~row.exited \/ row.entry = 0)
  <2>1. next = [row EXCEPT !.investment = row.entry, !.netGain = row.exit - row.entry]
    BY <1>1, <1>3
  <2>2. PICK gain, entry : gain = row.exit - row.entry /\ entry = row.entry OBVIOUS
  <2>3. gain \in Int /\ entry \in Nat BY <2>2 DEF BpRow
  <2>4. next = [row EXCEPT !.investment = entry, !.netGain = gain] BY <2>1, <2>2
  <2>5. /\ next \in BpRow /\ next.netGain = gain
        /\ next.active = row.active /\ next.liquidity = row.liquidity
        /\ next.entry = row.entry /\ next.exit = row.exit /\ next.exited = row.exited
    BY ONLY <2>3, <2>4, row \in BpRow DEF BpRow
  <2>. QED  BY <2>2, <2>5 DEF GainRight
<1>. QED  BY <1>2, <1>3

-----------------------------------------------------------------------------
(* LP tokens. *)

LpHeld(x) == wallet[x] + staked[x]

\* A row of LP tokens that was exited has an exit, and its gain if it is closed.
LpRowRight(row) == (row.exited => row.exit > 0) /\ GainRight(row)

\* The row of what a Safe holds.
LpRowShows(row, held) == (row.active <=> held > 0) /\ row.liquidity = held

LEMMA LpRefreshedRow ==
    ASSUME BpChainTyped, NEW x \in BpSafes, NEW row \in BpRow, row.exited => row.exit > 0,
           NEW next, next = Bp!LpRefreshed(row, x)
    PROVE  next \in BpRow /\ LpRowRight(next) /\ LpRowShows(next, LpHeld(x))
<1>1. PICK held, earned : held = wallet[x] + staked[x] /\ earned = Bp!Earned(x) OBVIOUS
<1>2. held \in Nat /\ earned \in Nat /\ bpPrice \in Nat /\ held * bpPrice \in Nat
  BY <1>1 DEF BpChainTyped, Positives, Bp!Earned
<1>3. PICK inactive : inactive = [row EXCEPT !.active = FALSE] OBVIOUS
<1>4. /\ inactive \in BpRow /\ ~inactive.active /\ inactive.exit = row.exit
      /\ inactive.exited = row.exited /\ inactive.entry = row.entry
  BY <1>3 DEF BpRow
<1>5. next = IF held = 0
             THEN Bp!Emptied(IF row.exit > 0 THEN Bp!calculatePositionROI(inactive) ELSE inactive)
             ELSE [row EXCEPT !.active = TRUE, !.liquidity = held, !.usdCurrent = held * bpPrice,
                              !.usdCurrentWithRewards = held * bpPrice + earned]
  BY <1>1, <1>3 DEF Bp!LpRefreshed
<1>6. CASE held = 0
  <2>1. PICK last : last = IF row.exit > 0 THEN Bp!calculatePositionROI(inactive) ELSE inactive
    OBVIOUS
  <2>2. PICK roi : roi = Bp!calculatePositionROI(inactive) OBVIOUS
  <2>3. /\ roi \in BpRow /\ GainRight(roi) /\ ~roi.active /\ roi.exit = row.exit
        /\ roi.exited = row.exited
    BY <1>4, <2>2, RoiOfRow
  <2>4. last \in BpRow /\ LpRowRight(last) /\ ~last.active
    <3>1. CASE row.exit > 0 BY <2>1, <2>2, <2>3, <3>1 DEF LpRowRight
    <3>2. CASE ~(row.exit > 0) BY <1>4, <2>1, <3>2 DEF LpRowRight, GainRight
    <3>. QED  BY <3>1, <3>2
  <2>5. next = [last EXCEPT !.liquidity = 0, !.usdCurrent = 0, !.usdCurrentWithRewards = 0]
    BY <1>5, <1>6, <2>1 DEF Bp!Emptied
  <2>6. next \in BpRow /\ ~next.active /\ next.liquidity = 0 /\ next.exited = last.exited
        /\ next.exit = last.exit /\ next.entry = last.entry /\ next.netGain = last.netGain
    BY ONLY <2>4, <2>5 DEF BpRow
  <2>. QED  BY <1>1, <1>6, <2>4, <2>6 DEF LpRowRight, GainRight, LpRowShows, LpHeld
<1>7. CASE held # 0
  <2>1. next = [row EXCEPT !.active = TRUE, !.liquidity = held, !.usdCurrent = held * bpPrice,
                           !.usdCurrentWithRewards = held * bpPrice + earned]
    BY <1>5, <1>7
  <2>2. PICK a, b : a = held * bpPrice /\ b = held * bpPrice + earned OBVIOUS
  <2>3. a \in Nat /\ b \in Nat BY <1>2, <2>2
  <2>4. /\ next \in BpRow /\ next.active /\ next.liquidity = held /\ next.exited = row.exited
        /\ next.exit = row.exit
    BY <1>2, <2>1, <2>2, <2>3 DEF BpRow
  <2>. QED  BY <1>1, <1>2, <1>7, <2>4 DEF LpRowRight, GainRight, LpRowShows, LpHeld
<1>. QED  BY <1>6, <1>7

-----------------------------------------------------------------------------
(* NFTs: what their rows show, and what of it the logs of the block still  *)
(* to be handled are going to change.                                      *)

LEMMA NftRefreshedRow ==
    ASSUME BpChainTyped, NEW n \in Nfts, NEW row \in BpRow, NEW next, next = Bp!NftRefreshed(row, n)
    PROVE  /\ next \in BpRow /\ next.entry = row.entry
           /\ nft[n].liquidity > 0 =>
                 /\ next.active = row.active /\ next.exit = row.exit /\ next.exited = row.exited
           /\ n \notin Ungauged /\ next.active => next.liquidity = nft[n].liquidity
           /\ row.active /\ ~next.active => next.exited
           /\ next.active => row.active
           /\ row.exited => next.exited
<1>1. PICK liquidity, value : liquidity = nft[n].liquidity /\ value = nft[n].liquidity * bpPrice
  OBVIOUS
<1>2. liquidity \in Nat /\ value \in Nat BY <1>1 DEF BpChainTyped, Positives, BpNft
<1>12. PICK withRewards : withRewards = value + 1 OBVIOUS
<1>3. PICK investment : investment = IF row.investment = 0 THEN row.entry ELSE row.investment
  OBVIOUS
<1>13. withRewards \in Nat BY ONLY <1>2, <1>12
<1>4. investment \in Nat BY <1>3 DEF BpRow
<1>5. PICK valued : valued = [row EXCEPT !.liquidity = liquidity, !.usdCurrent = value,
                                         !.usdCurrentWithRewards = withRewards,
                                         !.investment = investment]
  OBVIOUS
<1>6. /\ valued \in BpRow /\ valued.entry = row.entry /\ valued.active = row.active
      /\ valued.exit = row.exit /\ valued.exited = row.exited /\ valued.liquidity = liquidity
  BY ONLY <1>2, <1>4, <1>5, <1>13, row \in BpRow DEF BpRow
<1>7. next = IF n \in Ungauged THEN [row EXCEPT !.usdCurrent = value]
             ELSE IF liquidity # 0 THEN valued
             ELSE Bp!calculatePositionROI([valued EXCEPT !.active = FALSE, !.exit = value,
                                                         !.exited = TRUE])
  BY <1>1, <1>3, <1>5, <1>12 DEF Bp!NftRefreshed, Bp!isPositionClosed
<1>8. CASE n \in Ungauged BY <1>7, <1>8, <1>2, row \in BpRow DEF BpRow
<1>9. CASE n \notin Ungauged /\ liquidity # 0 BY <1>7, <1>9, <1>1, <1>6
<1>10. CASE n \notin Ungauged /\ liquidity = 0
  <2>1. PICK last : last = [valued EXCEPT !.active = FALSE, !.exit = value, !.exited = TRUE] OBVIOUS
  <2>2. last \in BpRow /\ ~last.active /\ last.exited /\ last.entry = row.entry
    BY ONLY <1>2, <1>6, <2>1 DEF BpRow
  <2>3. next = Bp!calculatePositionROI(last) BY <1>7, <1>10, <2>1
  <2>4. next \in BpRow /\ ~next.active /\ next.exited /\ next.entry = row.entry
    BY <2>2, <2>3, RoiOfRow
  <2>. QED  BY <1>1, <1>2, <1>10, <2>4
<1>. QED  BY <1>8, <1>9, <1>10

\* A log of NFT n: it is minted, moves out of the world, or its liquidity changes.
IsMint(e, n) == e.event = "NftTransfer" /\ e.id = n /\ e.from = BpZero
IsBurn(e, n) == e.event = "NftTransfer" /\ e.id = n /\ e.from # BpZero /\ e.to = BpZero
Concerns(e, n) == IsMint(e, n) \/ IsBurn(e, n) \/ IsFlow(e, n)

\* Below, r is the NFT n on the chain, m its mapping, rows the positions and l the logs still
\* to be handled, at price p.

\* Nothing is known of an NFT before it is minted; then it has one home.
BornOK(n, r, m, rows, l) ==
    /\ r.state = "unborn" => /\ m = BpZero
                             /\ \A i \in 1..Len(l) : ~Concerns(l[i], n)
    /\ r.state # "unborn" => /\ r.home \in BpSafes
                             /\ r.owner \in {r.home, BpGauge, BpOutsider}
    /\ r.state = "burned" => r.liquidity = 0 /\ r.owner # BpGauge
    /\ m \in {BpZero, r.home}
    /\ \A key \in DOMAIN rows : key[2] = n => key[1] = r.home /\ r.state # "unborn"
    /\ \A i \in 1..Len(l) : /\ IsMint(l[i], n) => l[i].to = r.home
                            /\ IsBurn(l[i], n) => r.state = "burned"

\* It is mapped and, if it is live, has its row, or the log that does this comes before
\* those that need it.
MadeOK(n, r, m, rows, l) ==
    r.state # "unborn" =>
       \/ m = r.home /\ (r.state = "live" => KeyOf(n, r) \in DOMAIN rows)
       \/ \E i \in 1..Len(l) : IsMint(l[i], n) /\ \A j \in 1..i : ~IsFlow(l[j], n)

\* The entry and what the logs are going to add to it is what was put in.
EntryOK(n, r, in, p, rows, l) == r.state = "live" => Adds(n, EntryOf(n, r, rows), in, p, l)

\* The row of an NFT that was exited.
ExitRow(n, r, exit, rows) ==
    /\ KeyOf(n, r) \in DOMAIN rows
    /\ ~rows[KeyOf(n, r)].active /\ rows[KeyOf(n, r)].exited
    /\ rows[KeyOf(n, r)].exit = exit /\ GainRight(rows[KeyOf(n, r)])

\* The exit of an emptied NFT is what was taken out last, or the last log about it is of that.
ExitOK(n, r, out, p, rows, l) ==
    r.state = "live" /\ r.liquidity = 0 =>
       \/ ExitRow(n, r, out, rows) /\ \A i \in 1..Len(l) : ~IsFlow(l[i], n)
       \/ \E i \in 1..Len(l) : /\ IsDecrease(l[i], n) /\ l[i].amount * p = out
                               /\ \A j \in (i + 1)..Len(l) : ~IsFlow(l[j], n)

\* The row of a burned NFT is closed, but for one that was given away, or will be.
GoneOK(n, r, rows, l) ==
    ActiveRow(n, r, rows) /\ r.state = "burned" =>
       r.owner = BpOutsider \/ \E i \in 1..Len(l) : IsBurn(l[i], n) /\ l[i].from = r.home

\* The row of a live NFT shows its liquidity, or will.
ShowsOK(n, r, rows, l) ==
    ActiveRow(n, r, rows) /\ r.state = "live" /\ n \notin Ungauged =>
       \/ rows[KeyOf(n, r)].liquidity = r.liquidity
       \/ \E i \in 1..Len(l) : IsFlow(l[i], n)

\* The row of a live NFT is closed by an exit only.
ClosedOK(n, r, rows) ==
    KeyOf(n, r) \in DOMAIN rows /\ r.state = "live" =>
       rows[KeyOf(n, r)].active \/ rows[KeyOf(n, r)].exited

NftOK(n, r, m, in, out, p, rows, l) ==
    /\ BornOK(n, r, m, rows, l) /\ MadeOK(n, r, m, rows, l) /\ EntryOK(n, r, in, p, rows, l)
    /\ ExitOK(n, r, out, p, rows, l) /\ GoneOK(n, r, rows, l) /\ ShowsOK(n, r, rows, l)
    /\ ClosedOK(n, r, rows)

-----------------------------------------------------------------------------
(* The first log is handled: k are the logs after it. *)

LEMMA BornHandled ==
    ASSUME NEW n, NEW r, NEW m, NEW rows, NEW l, NEW k, BornOK(n, r, m, rows, l), TailOf(l, k),
           NEW new \in {m, r.home}, r.state = "unborn" => new = m,
           NEW next, \A key \in DOMAIN next : key[2] = n => key[1] = r.home /\ r.state # "unborn"
    PROVE  BornOK(n, r, new, next, k)
BY TailPlaces DEF BornOK

LEMMA MadeHandled ==
    ASSUME NEW n, NEW r, NEW m, NEW rows, NEW l, NEW k, MadeOK(n, r, m, rows, l), TailOf(l, k),
           ~IsMint(l[1], n), NEW next, KeyOf(n, r) \in DOMAIN rows => KeyOf(n, r) \in DOMAIN next
    PROVE  MadeOK(n, r, m, next, k)
<1>1. /\ Len(l) \in Nat /\ Len(k) \in Nat /\ Len(l) = Len(k) + 1
      /\ \A i \in 1..Len(k) : k[i] = l[i + 1]
  BY DEF TailOf
<1>2. ASSUME NEW i \in 1..Len(l), IsMint(l[i], n), \A j \in 1..i : ~IsFlow(l[j], n)
      PROVE  \E u \in 1..Len(k) : IsMint(k[u], n) /\ \A j \in 1..u : ~IsFlow(k[j], n)
  <2>1. PICK u \in 1..Len(k) : i = u + 1 /\ k[u] = l[i] BY <1>2, TailPlaces
  <2>2. \A j \in 1..u : k[j] = l[j + 1] /\ j + 1 \in 1..i BY <1>1, <2>1
  <2>. QED  BY <1>2, <2>1, <2>2
<1>. QED  BY <1>2 DEF MadeOK

\* A log that is not about the exit, or the last that is.
LEMMA ExitHandled ==
    ASSUME NEW n, NEW r, NEW out, NEW p, NEW rows, NEW l, NEW k, ExitOK(n, r, out, p, rows, l),
           TailOf(l, k), NEW next,
           r.state = "live" /\ r.liquidity = 0 =>
              /\ ~IsFlow(l[1], n) /\ ExitRow(n, r, out, rows) => ExitRow(n, r, out, next)
              /\ IsDecrease(l[1], n) => ExitRow(n, r, l[1].amount * p, next)
    PROVE  ExitOK(n, r, out, p, next, k)
<1>1. /\ Len(l) \in Nat /\ Len(k) \in Nat /\ Len(l) = Len(k) + 1
      /\ \A i \in 1..Len(k) : k[i] = l[i + 1] /\ i + 1 \in 1..Len(l)
  BY DEF TailOf
<1>. SUFFICES ASSUME r.state = "live" /\ r.liquidity = 0
              PROVE  \/ ExitRow(n, r, out, next) /\ \A i \in 1..Len(k) : ~IsFlow(k[i], n)
                     \/ \E i \in 1..Len(k) : /\ IsDecrease(k[i], n) /\ k[i].amount * p = out
                                             /\ \A j \in (i + 1)..Len(k) : ~IsFlow(k[j], n)
  BY DEF ExitOK
<1>2. CASE ExitRow(n, r, out, rows) /\ \A i \in 1..Len(l) : ~IsFlow(l[i], n)
  <2>1. 1 \in 1..Len(l) BY <1>1
  <2>. QED  BY <1>1, <1>2, <2>1
<1>3. ASSUME NEW i \in 1..Len(l), IsDecrease(l[i], n), l[i].amount * p = out,
             \A j \in (i + 1)..Len(l) : ~IsFlow(l[j], n), i = 1
      PROVE  ExitRow(n, r, out, next) /\ \A u \in 1..Len(k) : ~IsFlow(k[u], n)
  <2>1. \A u \in 1..Len(k) : k[u] = l[u + 1] /\ u + 1 \in (i + 1)..Len(l) BY <1>1, <1>3
  <2>. QED  BY <1>3, <2>1
<1>4. ASSUME NEW i \in 1..Len(l), IsDecrease(l[i], n), l[i].amount * p = out,
             \A j \in (i + 1)..Len(l) : ~IsFlow(l[j], n), i # 1
      PROVE  \E u \in 1..Len(k) : /\ IsDecrease(k[u], n) /\ k[u].amount * p = out
                                  /\ \A j \in (u + 1)..Len(k) : ~IsFlow(k[j], n)
  <2>1. PICK u \in 1..Len(k) : i = u + 1 /\ k[u] = l[i] BY <1>4, TailPlaces
  <2>2. \A j \in (u + 1)..Len(k) : k[j] = l[j + 1] /\ j + 1 \in (i + 1)..Len(l) BY <1>1, <2>1
  <2>. QED  BY <1>4, <2>1, <2>2
<1>5. CASE \E i \in 1..Len(l) : /\ IsDecrease(l[i], n) /\ l[i].amount * p = out
                                /\ \A j \in (i + 1)..Len(l) : ~IsFlow(l[j], n)
  BY <1>3, <1>4, <1>5
<1>. QED  BY <1>2, <1>5 DEF ExitOK

LEMMA GoneHandled ==
    ASSUME NEW n, NEW r, NEW rows, NEW l, NEW k, GoneOK(n, r, rows, l), TailOf(l, k), NEW next,
           ActiveRow(n, r, next) => ActiveRow(n, r, rows) /\ ~(IsBurn(l[1], n) /\ l[1].from = r.home)
    PROVE  GoneOK(n, r, next, k)
<1>1. ASSUME NEW i \in 1..Len(l), IsBurn(l[i], n), l[i].from = r.home, i # 1
      PROVE  \E u \in 1..Len(k) : IsBurn(k[u], n) /\ k[u].from = r.home
  BY <1>1, TailPlaces
<1>. QED  BY <1>1 DEF GoneOK

LEMMA ShowsHandled ==
    ASSUME NEW n, NEW r, NEW rows, NEW l, NEW k, ShowsOK(n, r, rows, l), TailOf(l, k), NEW next,
           ~IsFlow(l[1], n), ActiveRow(n, r, next) => ActiveRow(n, r, rows),
           ActiveRow(n, r, next) => next[KeyOf(n, r)].liquidity = rows[KeyOf(n, r)].liquidity
    PROVE  ShowsOK(n, r, next, k)
BY TailPlaces DEF ShowsOK

\* The rows of NFT n are the same.
SameRows(n, rows, next) ==
    \A key : key[2] = n => /\ key \in DOMAIN next <=> key \in DOMAIN rows
                           /\ key \in DOMAIN rows => next[key] = rows[key]

\* A log of another NFT, or of none, is handled.
LEMMA OtherHandled ==
    ASSUME NEW n, NEW r, NEW m, NEW in, NEW out, NEW p, NEW rows, NEW l,
           NftOK(n, r, m, in, out, p, rows, l), NEW k, TailOf(l, k), ~Concerns(l[1], n),
           NEW next, SameRows(n, rows, next), EntryOf(n, r, rows) \in Int
    PROVE  NftOK(n, r, m, in, out, p, next, k)
<1>1. /\ KeyOf(n, r) \in DOMAIN next <=> KeyOf(n, r) \in DOMAIN rows
      /\ KeyOf(n, r) \in DOMAIN rows => next[KeyOf(n, r)] = rows[KeyOf(n, r)]
  BY DEF SameRows, KeyOf
<1>2. ~IsMint(l[1], n) /\ ~IsBurn(l[1], n) /\ ~IsFlow(l[1], n) /\ ~IsIncrease(l[1], n)
      /\ ~IsDecrease(l[1], n)
  BY DEF Concerns, IsFlow
<1>3. BornOK(n, r, m, next, k)
  <2>1. \A key \in DOMAIN next : key[2] = n => key[1] = r.home /\ r.state # "unborn"
    BY DEF NftOK, BornOK, SameRows
  <2>2. BornOK(n, r, m, rows, l) BY DEF NftOK
  <2>. QED  BY <2>1, <2>2, BornHandled
<1>4. MadeOK(n, r, m, next, k) BY <1>1, <1>2, MadeHandled DEF NftOK
<1>5. EntryOK(n, r, in, p, next, k) BY <1>1, <1>2, AddsAfter DEF EntryOK, NftOK, EntryOf, PutBy
<1>6. ExitOK(n, r, out, p, next, k) BY <1>1, <1>2, ExitHandled DEF ExitRow, NftOK
<1>7. ActiveRow(n, r, next) => ActiveRow(n, r, rows) BY <1>1 DEF ActiveRow
<1>8. GoneOK(n, r, next, k) BY <1>2, <1>7, GoneHandled DEF NftOK
<1>9. ShowsOK(n, r, next, k) BY <1>1, <1>2, <1>7, ShowsHandled DEF NftOK, ActiveRow
<1>10. ClosedOK(n, r, next) BY <1>1 DEF NftOK, ClosedOK
<1>. QED  BY <1>3, <1>4, <1>5, <1>6, <1>8, <1>9, <1>10 DEF NftOK

\* The row of NFT n is changed, and no other of its rows: at most made.
RowMade(n, r, rows, next) ==
    /\ \A key \in DOMAIN next : key[2] = n => key \in DOMAIN rows \/ key = KeyOf(n, r)
    /\ KeyOf(n, r) \in DOMAIN rows => KeyOf(n, r) \in DOMAIN next

LEMMA KeysKept ==
    ASSUME NEW n, NEW r, NEW m, NEW rows, NEW l, BornOK(n, r, m, rows, l), r.state # "unborn",
           NEW next, RowMade(n, r, rows, next)
    PROVE  \A key \in DOMAIN next : key[2] = n => key[1] = r.home /\ r.state # "unborn"
BY DEF RowMade, BornOK, KeyOf

\* The mint of the NFT: its row is made, if it is still live.
LEMMA MintHandled ==
    ASSUME NEW n, NEW r, NEW m, NEW in, NEW out, NEW p, NEW rows, NEW l,
           NftOK(n, r, m, in, out, p, rows, l), NEW k, TailOf(l, k), IsMint(l[1], n),
           EntryOf(n, r, rows) \in Int, NEW next, RowMade(n, r, rows, next),
           KeyOf(n, r) \in DOMAIN rows => next[KeyOf(n, r)] = rows[KeyOf(n, r)],
           r.state = "live" => KeyOf(n, r) \in DOMAIN next,
           KeyOf(n, r) \notin DOMAIN rows /\ KeyOf(n, r) \in DOMAIN next =>
              LET row == next[KeyOf(n, r)]
              IN  /\ r.state = "live" /\ row.entry = 0 /\ (row.active \/ row.exited)
                  /\ row.active /\ n \notin Ungauged => row.liquidity = r.liquidity
    PROVE  NftOK(n, r, r.home, in, out, p, next, k)
<1>1. ~IsBurn(l[1], n) /\ ~IsFlow(l[1], n) /\ ~IsIncrease(l[1], n) /\ ~IsDecrease(l[1], n)
  BY DEF IsMint, IsBurn, IsFlow, IsIncrease, IsDecrease
<1>2. /\ BornOK(n, r, m, rows, l) /\ MadeOK(n, r, m, rows, l) /\ EntryOK(n, r, in, p, rows, l)
      /\ ExitOK(n, r, out, p, rows, l) /\ GoneOK(n, r, rows, l) /\ ShowsOK(n, r, rows, l)
      /\ ClosedOK(n, r, rows)
  BY DEF NftOK
<1>3. r.state # "unborn" BY <1>2 DEF TailOf, BornOK, Concerns
<1>4. BornOK(n, r, r.home, next, k) BY <1>2, <1>3, KeysKept, BornHandled
<1>5. MadeOK(n, r, r.home, next, k) BY DEF MadeOK
<1>6. EntryOK(n, r, in, p, next, k)
  <2>. SUFFICES ASSUME r.state = "live" PROVE Adds(n, EntryOf(n, r, next), in, p, k)
    BY DEF EntryOK
  <2>1. Adds(n, EntryOf(n, r, rows), in, p, l) BY <1>2 DEF EntryOK
  <2>2. PICK entry : entry = EntryOf(n, r, rows) OBVIOUS
  <2>3. EntryOf(n, r, next) = entry BY <2>2 DEF EntryOf, RowMade
  <2>4. PutBy(l[1], n, p) = 0 BY <1>1 DEF PutBy
  <2>5. Adds(n, entry + PutBy(l[1], n, p), in, p, k) BY <2>1, <2>2, AddsAfter
  <2>6. entry + PutBy(l[1], n, p) = entry BY <2>2, <2>4
  <2>. QED  BY <2>3, <2>5, <2>6
<1>7. ExitOK(n, r, out, p, next, k) BY <1>1, <1>2, ExitHandled DEF ExitRow, RowMade
<1>8. GoneOK(n, r, next, k)
  <2>1. CASE r.state = "live" BY <2>1 DEF GoneOK
  <2>2. CASE r.state # "live" BY <2>2, <1>1, <1>2, GoneHandled DEF ActiveRow
  <2>. QED  BY <2>1, <2>2
<1>9. ShowsOK(n, r, next, k)
  <2>1. CASE KeyOf(n, r) \in DOMAIN rows BY <2>1, <1>1, <1>2, ShowsHandled DEF ActiveRow
  <2>2. CASE KeyOf(n, r) \notin DOMAIN rows BY <2>2 DEF ShowsOK, ActiveRow
  <2>. QED  BY <2>1, <2>2
<1>10. ClosedOK(n, r, next) BY <1>2 DEF ClosedOK
<1>. QED  BY <1>4, <1>5, <1>6, <1>7, <1>8, <1>9, <1>10 DEF NftOK

\* The first log of a flow finds the row of a live NFT.
LEMMA FlowMapped ==
    ASSUME NEW n, NEW r, NEW m, NEW in, NEW out, NEW p, NEW rows, NEW l,
           NftOK(n, r, m, in, out, p, rows, l), NEW k, TailOf(l, k), IsFlow(l[1], n)
    PROVE  /\ r.state # "unborn" /\ m = r.home
           /\ r.state = "live" => KeyOf(n, r) \in DOMAIN rows
BY DEF TailOf, NftOK, BornOK, Concerns, MadeOK

\* More or less liquidity: the row of a live NFT follows, and closes with a full exit.
LEMMA FlowHandled ==
    ASSUME NEW n, NEW r, NEW m, NEW in, NEW out, NEW p, NEW rows, NEW l,
           NftOK(n, r, m, in, out, p, rows, l), NEW k, TailOf(l, k), IsFlow(l[1], n),
           NEW next, RowMade(n, r, rows, next), r.liquidity \in Nat,
           r.state # "live" => SameRows(n, rows, next),
           r.state = "live" =>
              LET row == next[KeyOf(n, r)]
              IN  /\ row.entry = rows[KeyOf(n, r)].entry + PutBy(l[1], n, p)
                  /\ row.active \/ row.exited
                  /\ row.active /\ n \notin Ungauged => row.liquidity = r.liquidity
                  /\ r.liquidity = 0 /\ IsDecrease(l[1], n) =>
                        ~row.active /\ row.exited /\ row.exit = l[1].amount * p /\ GainRight(row)
    PROVE  NftOK(n, r, m, in, out, p, next, k)
<1>1. ~IsBurn(l[1], n) /\ ~IsMint(l[1], n)
  BY DEF IsMint, IsBurn, IsFlow, IsIncrease, IsDecrease
<1>2. /\ BornOK(n, r, m, rows, l) /\ MadeOK(n, r, m, rows, l) /\ EntryOK(n, r, in, p, rows, l)
      /\ ExitOK(n, r, out, p, rows, l) /\ GoneOK(n, r, rows, l) /\ ShowsOK(n, r, rows, l)
      /\ ClosedOK(n, r, rows)
  BY DEF NftOK
<1>3. /\ r.state # "unborn" /\ m = r.home
      /\ r.state = "live" => KeyOf(n, r) \in DOMAIN rows /\ KeyOf(n, r) \in DOMAIN next
  BY FlowMapped DEF RowMade
<1>4. BornOK(n, r, m, next, k) BY <1>2, <1>3, KeysKept, BornHandled
<1>5. MadeOK(n, r, m, next, k) BY <1>3 DEF MadeOK
<1>6. EntryOK(n, r, in, p, next, k) BY <1>2, <1>3, AddsAfter DEF EntryOK, EntryOf
<1>7. ExitOK(n, r, out, p, next, k) BY <1>3, <1>2, ExitHandled DEF ExitRow
<1>8. GoneOK(n, r, next, k)
  <2>1. CASE r.state = "live" BY <2>1 DEF GoneOK
  <2>2. CASE r.state # "live" BY <2>2, <1>1, <1>2, GoneHandled DEF ActiveRow, SameRows, KeyOf
  <2>. QED  BY <2>1, <2>2
<1>9. ShowsOK(n, r, next, k) BY DEF ShowsOK, ActiveRow
<1>10. ClosedOK(n, r, next) BY DEF ClosedOK
<1>. QED  BY <1>4, <1>5, <1>6, <1>7, <1>8, <1>9, <1>10 DEF NftOK

\* The burn of the NFT closes the row of the Safe that burns it.
LEMMA BurnHandled ==
    ASSUME NEW n, NEW r, NEW m, NEW in, NEW out, NEW p, NEW rows, NEW l,
           NftOK(n, r, m, in, out, p, rows, l), NEW k, TailOf(l, k), IsBurn(l[1], n),
           NEW next, DOMAIN next = DOMAIN rows,
           \A key \in DOMAIN rows : next[key] = rows[key] \/ ~next[key].active,
           KeyOf(n, r) \in DOMAIN rows /\ l[1].from = r.home => ~next[KeyOf(n, r)].active
    PROVE  NftOK(n, r, m, in, out, p, next, k)
<1>1. ~IsMint(l[1], n) BY DEF IsMint, IsBurn
<1>2. /\ BornOK(n, r, m, rows, l) /\ MadeOK(n, r, m, rows, l) /\ GoneOK(n, r, rows, l)
  BY DEF NftOK
<1>3. r.state = "burned" BY <1>2 DEF TailOf, BornOK
<1>4. BornOK(n, r, m, next, k)
  <2>1. \A key \in DOMAIN next : key[2] = n => key[1] = r.home /\ r.state # "unborn"
    BY <1>2 DEF BornOK
  <2>. QED  BY <1>2, <1>3, <2>1, BornHandled
<1>5. MadeOK(n, r, m, next, k) BY <1>1, <1>2, MadeHandled
<1>6. GoneOK(n, r, next, k) BY <1>2, GoneHandled DEF ActiveRow
<1>. QED  BY <1>3, <1>4, <1>5, <1>6 DEF NftOK, EntryOK, ExitOK, ShowsOK, ClosedOK

\* A poll of the Safe: no log is left.
LEMMA PollHandled ==
    ASSUME NEW n, NEW r, NEW m, NEW in, NEW out, NEW p, NEW q, NEW rows, NEW l, Len(l) = 0,
           NftOK(n, r, m, in, out, p, rows, l), NEW next, DOMAIN next = DOMAIN rows,
           KeyOf(n, r) \in DOMAIN rows =>
              LET row == rows[KeyOf(n, r)]  new == next[KeyOf(n, r)]
              IN  new = row \/ (/\ row.active /\ r.state = "live" /\ new.entry = row.entry
                                /\ new.active \/ new.exited
                                /\ new.active /\ n \notin Ungauged => new.liquidity = r.liquidity)
    PROVE  NftOK(n, r, m, in, out, q, next, l)
<1>1. /\ BornOK(n, r, m, rows, l) /\ MadeOK(n, r, m, rows, l) /\ EntryOK(n, r, in, p, rows, l)
      /\ ExitOK(n, r, out, p, rows, l) /\ GoneOK(n, r, rows, l) /\ ShowsOK(n, r, rows, l)
      /\ ClosedOK(n, r, rows)
  BY DEF NftOK
<1>2. \A i \in 1..Len(l) : FALSE OBVIOUS
<1>3. BornOK(n, r, m, next, l) BY <1>1 DEF BornOK
<1>4. MadeOK(n, r, m, next, l) BY <1>1, <1>2 DEF MadeOK
<1>5. EntryOK(n, r, in, q, next, l) BY <1>1, <1>2 DEF EntryOf, EntryOK, Adds
<1>6. ExitOK(n, r, out, q, next, l) BY <1>1, <1>2 DEF ExitOK, ExitRow
<1>7. GoneOK(n, r, next, l) BY <1>1, <1>2 DEF GoneOK, ActiveRow
<1>8. ShowsOK(n, r, next, l) BY <1>1, <1>2 DEF ShowsOK, ActiveRow
<1>9. ClosedOK(n, r, next) BY <1>1 DEF ClosedOK
<1>. QED  BY <1>3, <1>4, <1>5, <1>6, <1>7, <1>8, <1>9 DEF NftOK

-----------------------------------------------------------------------------
(* Logs are appended: k are the logs l and more. *)

\* It is still mapped, or will be.
LEMMA MadeMore ==
    ASSUME NEW n, NEW r, NEW m, NEW rows, NEW l, MadeOK(n, r, m, rows, l), r.state # "unborn",
           NEW k, Extends(l, k), NEW s, s.home = r.home, s.state = "live" => r.state = "live"
    PROVE  MadeOK(n, s, m, rows, k)
<1>1. ASSUME NEW i \in 1..Len(l), IsMint(l[i], n), \A j \in 1..i : ~IsFlow(l[j], n)
      PROVE  \E u \in 1..Len(k) : IsMint(k[u], n) /\ \A j \in 1..u : ~IsFlow(k[j], n)
  BY ExtendsPlaces, <1>1 DEF Extends
<1>. QED  BY <1>1 DEF MadeOK, KeyOf

\* The NFT itself is not concerned: at most its owner changes.
LEMMA OtherAppended ==
    ASSUME NEW n, NEW r, NEW m, NEW in, NEW out, NEW p, NEW rows, NEW l,
           NftOK(n, r, m, in, out, p, rows, l), NEW k, Extends(l, k),
           \A i \in After(l, k) : ~Concerns(k[i], n), NEW s,
           s.state = r.state, s.home = r.home, s.liquidity = r.liquidity,
           s.owner = r.owner \/ (r.state = "live" /\ s.owner \in {r.home, BpGauge, BpOutsider})
    PROVE  NftOK(n, s, m, in, out, p, rows, k)
<1>1. /\ BornOK(n, r, m, rows, l) /\ MadeOK(n, r, m, rows, l) /\ EntryOK(n, r, in, p, rows, l)
      /\ ExitOK(n, r, out, p, rows, l) /\ GoneOK(n, r, rows, l) /\ ShowsOK(n, r, rows, l)
      /\ ClosedOK(n, r, rows)
  BY DEF NftOK
<1>2. \A i \in After(l, k) : ~IsMint(k[i], n) /\ ~IsBurn(k[i], n) /\ ~IsFlow(k[i], n)
                             /\ ~IsIncrease(k[i], n)
  BY DEF Concerns, IsFlow
<1>3. KeyOf(n, s) = KeyOf(n, r) BY DEF KeyOf
<1>4. BornOK(n, s, m, rows, k) BY <1>1, <1>2, ExtendsPlaces DEF BornOK
<1>5. MadeOK(n, s, m, rows, k)
  <2>1. CASE r.state = "unborn" BY <2>1 DEF MadeOK
  <2>2. CASE r.state # "unborn" BY <1>1, <2>2, MadeMore
  <2>. QED  BY <2>1, <2>2
<1>6. EntryOK(n, s, in, p, rows, k) BY <1>3, <1>1, <1>2, AddsQuietly DEF EntryOf, EntryOK
<1>7. ExitOK(n, s, out, p, rows, k)
  <2>. SUFFICES ASSUME s.state = "live" /\ s.liquidity = 0
                PROVE  \/ ExitRow(n, s, out, rows) /\ \A i \in 1..Len(k) : ~IsFlow(k[i], n)
                       \/ \E i \in 1..Len(k) : /\ IsDecrease(k[i], n) /\ k[i].amount * p = out
                                               /\ \A j \in (i + 1)..Len(k) : ~IsFlow(k[j], n)
    BY DEF ExitOK
  <2>1. CASE ExitRow(n, r, out, rows) /\ \A i \in 1..Len(l) : ~IsFlow(l[i], n)
    BY <1>3, <2>1, <1>2, ExtendsPlaces DEF ExitRow
  <2>2. ASSUME NEW i \in 1..Len(l), IsDecrease(l[i], n), l[i].amount * p = out,
               \A j \in (i + 1)..Len(l) : ~IsFlow(l[j], n)
        PROVE  \E u \in 1..Len(k) : /\ IsDecrease(k[u], n) /\ k[u].amount * p = out
                                    /\ \A j \in (u + 1)..Len(k) : ~IsFlow(k[j], n)
    <3>1. i \in 1..Len(k) /\ k[i] = l[i] BY ExtendsPlaces
    <3>2. ASSUME NEW j \in (i + 1)..Len(k) PROVE ~IsFlow(k[j], n)
      <4>1. j \in 1..Len(k) BY DEF Extends
      <4>2. CASE j \in 1..Len(l) BY <4>2, ExtendsPlaces, <2>2
      <4>3. CASE j \in After(l, k) BY <1>2, <4>3
      <4>. QED  BY <4>1, <4>2, <4>3, ExtendsPlaces
    <3>. QED  BY <2>2, <3>1, <3>2
  <2>. QED  BY <1>1, <2>1, <2>2 DEF ExitOK
<1>8. GoneOK(n, s, rows, k) BY ExtendsPlaces, <1>1, <1>3 DEF GoneOK, ActiveRow
<1>9. ShowsOK(n, s, rows, k) BY ExtendsPlaces, <1>1, <1>3 DEF ShowsOK, ActiveRow
<1>10. ClosedOK(n, s, rows) BY <1>1, <1>3 DEF ClosedOK
<1>. QED  BY <1>4, <1>5, <1>6, <1>7, <1>8, <1>9, <1>10 DEF NftOK

\* It is minted: then the transaction logs its first liquidity.
LEMMA MintAppended ==
    ASSUME NEW n, NEW r, NEW m, NEW in, NEW out, NEW p \in Int, NEW rows, NEW l,
           NftOK(n, r, m, in, out, p, rows, l), r.state = "unborn",
           NEW h, NEW k, Extends(l, h), Len(h) = Len(l) + 1, Extends(h, k), Len(k) = Len(h) + 1,
           IsMint(h[Len(h)], n), IsIncrease(k[Len(k)], n), k[Len(k)].amount \in Nat \ {0},
           NEW s, s.state = "live", s.home \in BpSafes, s.owner = s.home,
           s.liquidity = k[Len(k)].amount, h[Len(h)].to = s.home
    PROVE  NftOK(n, s, m, s.liquidity * p, out, p, rows, k)
<1>1. PICK amount : amount = s.liquidity OBVIOUS
<1>2. amount \in Nat \ {0} /\ k[Len(k)].amount = amount BY <1>1
<1>3. BornOK(n, r, m, rows, l) BY DEF NftOK
<1>4. /\ m = BpZero /\ \A i \in 1..Len(l) : ~Concerns(l[i], n)
      /\ \A key \in DOMAIN rows : key[2] # n
  BY <1>3 DEF BornOK
<1>5. KeyOf(n, s) \notin DOMAIN rows BY <1>4 DEF KeyOf
<1>6. /\ ~IsBurn(h[Len(h)], n) /\ ~IsFlow(h[Len(h)], n) /\ ~IsIncrease(h[Len(h)], n)
      /\ ~IsBurn(k[Len(k)], n) /\ ~IsMint(k[Len(k)], n)
  BY DEF IsMint, IsBurn, IsFlow, IsIncrease, IsDecrease
<1>7. /\ Len(l) \in Nat /\ Len(h) = Len(l) + 1 /\ Len(k) = Len(l) + 2
      /\ \A i \in 1..Len(k) : i \in 1..Len(l) \/ i = Len(h) \/ i = Len(k)
      /\ \A i \in 1..Len(l) : k[i] = l[i] /\ h[i] = l[i]
      /\ k[Len(h)] = h[Len(h)]
  BY DEF Extends
<1>8. BornOK(n, s, m, rows, k)
  <2>1. ASSUME NEW i \in 1..Len(k)
        PROVE  /\ IsMint(k[i], n) => k[i].to = s.home
               /\ IsBurn(k[i], n) => s.state = "burned"
    BY <1>4, <1>7, <1>6 DEF Concerns
  <2>. QED  BY <1>4, <2>1 DEF BornOK
<1>9. MadeOK(n, s, m, rows, k)
  <2>1. Len(h) \in 1..Len(k) /\ IsMint(k[Len(h)], n) BY <1>7
  <2>2. ASSUME NEW j \in 1..Len(h) PROVE ~IsFlow(k[j], n) BY <1>4, <1>7, <1>6 DEF Concerns
  <2>. QED  BY <2>1, <2>2 DEF MadeOK
<1>10. EntryOK(n, s, amount * p, p, rows, k)
  <2>1. EntryOf(n, s, rows) = 0 BY <1>5 DEF EntryOf
  <2>2. Adds(n, 0, 0, p, h) BY <1>4, <1>6, <1>7, AddsNothing DEF Concerns, IsFlow
  <2>3. PutBy(k[Len(k)], n, p) = amount * p BY <1>2 DEF PutBy
  <2>4. amount * p \in Int BY <1>2
  <2>5. Adds(n, 0, 0 + PutBy(k[Len(k)], n, p), p, k) BY <2>2, <2>3, <2>4, AddsMore
  <2>6. 0 + PutBy(k[Len(k)], n, p) = amount * p BY <2>3, <2>4
  <2>7. Adds(n, 0, amount * p, p, k) BY <2>5, <2>6
  <2>. QED  BY <2>1, <2>7 DEF EntryOK
<1>11. ExitOK(n, s, out, p, rows, k) BY <1>1, <1>2 DEF ExitOK
<1>12. GoneOK(n, s, rows, k) /\ ShowsOK(n, s, rows, k) /\ ClosedOK(n, s, rows)
  BY <1>5 DEF GoneOK, ShowsOK, ClosedOK, ActiveRow
<1>. QED  BY <1>1, <1>8, <1>9, <1>10, <1>11, <1>12 DEF NftOK

\* It is burned, by its owner, when it is empty.
LEMMA BurnAppended ==
    ASSUME NEW n, NEW r, NEW m, NEW in, NEW out, NEW p, NEW rows, NEW l,
           NftOK(n, r, m, in, out, p, rows, l), r.state = "live", r.owner # BpGauge,
           r.liquidity = 0, NEW k, Extends(l, k), Len(k) = Len(l) + 1,
           IsBurn(k[Len(k)], n), k[Len(k)].from = r.owner,
           NEW s, s.state = "burned", s.home = r.home, s.owner = r.owner, s.liquidity = 0
    PROVE  NftOK(n, s, m, in, out, p, rows, k)
<1>1. BornOK(n, r, m, rows, l) /\ MadeOK(n, r, m, rows, l) BY DEF NftOK
<1>2. ~IsMint(k[Len(k)], n) BY DEF IsMint, IsBurn
<1>3. /\ Len(k) \in 1..Len(k)
      /\ \A i \in 1..Len(k) : i = Len(k) \/ (i \in 1..Len(l) /\ k[i] = l[i])
  BY DEF Extends
<1>4. BornOK(n, s, m, rows, k) BY <1>1, <1>2, <1>3 DEF BornOK
<1>5. MadeOK(n, s, m, rows, k) BY <1>1, MadeMore
<1>6. GoneOK(n, s, rows, k) BY <1>1, <1>3 DEF BornOK, GoneOK
<1>. QED  BY <1>4, <1>5, <1>6 DEF NftOK, EntryOK, ExitOK, ShowsOK, ClosedOK

\* Its liquidity changes; what comes after the log of that is of no concern.
LEMMA FlowAppended ==
    ASSUME NEW n, NEW r, NEW m, NEW in, NEW out, NEW p \in Int, NEW rows, NEW l,
           NftOK(n, r, m, in, out, p, rows, l), r.state = "live", in \in Int,
           NEW k, Extends(l, k), Len(k) = Len(l) + 1, IsFlow(k[Len(k)], n),
           k[Len(k)].amount \in Nat \ {0},
           NEW s, s.state = "live", s.home = r.home, s.owner = r.owner, s.liquidity \in Nat,
           IsIncrease(k[Len(k)], n) => s.liquidity > 0
    PROVE  NftOK(n, s, m, in + PutBy(k[Len(k)], n, p),
                 IF IsDecrease(k[Len(k)], n) THEN k[Len(k)].amount * p ELSE out, p, rows, k)
<1>1. /\ BornOK(n, r, m, rows, l) /\ MadeOK(n, r, m, rows, l) /\ EntryOK(n, r, in, p, rows, l)
      /\ ClosedOK(n, r, rows)
  BY DEF NftOK
<1>2. ~IsMint(k[Len(k)], n) /\ ~IsBurn(k[Len(k)], n)
  BY DEF IsMint, IsBurn, IsFlow, IsIncrease, IsDecrease
<1>3. /\ Len(k) \in 1..Len(k) /\ Len(k) \in Nat
      /\ \A i \in 1..Len(k) : i = Len(k) \/ (i \in 1..Len(l) /\ k[i] = l[i])
  BY DEF Extends
<1>4. KeyOf(n, s) = KeyOf(n, r) BY DEF KeyOf
<1>5. BornOK(n, s, m, rows, k) BY <1>1, <1>2, <1>3 DEF BornOK
<1>6. MadeOK(n, s, m, rows, k) BY <1>1, MadeMore
<1>7. EntryOK(n, s, in + PutBy(k[Len(k)], n, p), p, rows, k)
  <2>1. EntryOf(n, s, rows) = EntryOf(n, r, rows) BY <1>4 DEF EntryOf
  <2>2. Adds(n, EntryOf(n, r, rows), in, p, l) BY <1>1 DEF EntryOK
  <2>3. PutBy(k[Len(k)], n, p) \in Int BY DEF PutBy
  <2>4. Adds(n, EntryOf(n, r, rows), in + PutBy(k[Len(k)], n, p), p, k)
    BY <2>2, <2>3, AddsMore
  <2>. QED  BY <2>1, <2>4 DEF EntryOK
<1>8. ExitOK(n, s, IF IsDecrease(k[Len(k)], n) THEN k[Len(k)].amount * p ELSE out, p, rows, k)
  BY <1>3 DEF ExitOK, IsFlow
<1>9. GoneOK(n, s, rows, k) BY DEF GoneOK
<1>10. ShowsOK(n, s, rows, k) BY <1>3 DEF ShowsOK
<1>11. ClosedOK(n, s, rows) BY <1>1, <1>4 DEF ClosedOK
<1>. QED  BY <1>5, <1>6, <1>7, <1>8, <1>9, <1>10, <1>11 DEF NftOK

-----------------------------------------------------------------------------
(* The invariant. *)

BpAssumed ==
    /\ Ungauged \subseteq Nfts /\ BpPool \notin Nfts
    /\ BpSafes \cap {BpPool, BpGauge, BpRouter, BpOutsider, BpZero} = {}
    /\ BpZero \notin {BpGauge, BpOutsider}
    /\ BpPrices \subseteq Positives
    /\ {MaxLp, MaxLiquidity} \subseteq Nat

\* The row of a Safe's LP tokens, if it has any, shows how many.
LpShown(x, held, rows) ==
    IF <<x, BpPool>> \in DOMAIN rows THEN LpRowShows(rows[<<x, BpPool>>], held) ELSE held = 0

\* A log of a transfer of LP tokens of x.
IsLpTransfer(e, x) == e.event = "Transfer" /\ x \in {e.from, e.to}

\* It does, or a log that is still to be handled is of a transfer of its.
LpOK(x, held, rows, l) ==
    LpShown(x, held, rows) \/ \E i \in 1..Len(l) : IsLpTransfer(l[i], x)

LpRight(rows) == \A key \in DOMAIN rows : key[2] = BpPool => LpRowRight(rows[key])

BpNftsOK ==
    \A n \in Nfts : NftOK(n, nft[n], mapping[n], put[n], taken[n], bpPrice, bpPosition, bpLogs)
BpLpOK == \A x \in BpSafes : LpOK(x, LpHeld(x), bpPosition, bpLogs)

BpInv == BpTyped /\ BpNftsOK /\ BpLpOK /\ LpRight(bpPosition)

LEMMA EntryTyped ==
    ASSUME NEW rows, RowsTyped(rows), NEW n, NEW r
    PROVE  EntryOf(n, r, rows) \in Int
BY DEF RowsTyped, PartialFn, BpRow, EntryOf

LEMMA LpHandled ==
    ASSUME NEW x, NEW held, NEW rows, NEW l, NEW k, LpOK(x, held, rows, l), TailOf(l, k), NEW next,
           \/ LpShown(x, held, next)
           \/ ~IsLpTransfer(l[1], x) /\ (LpShown(x, held, rows) => LpShown(x, held, next))
    PROVE  LpOK(x, held, next, k)
BY TailPlaces DEF LpOK

\* What every handler leaves alone, and the logs it leaves.
LEMMA HandledFacts ==
    ASSUME BpTyped, NEW event, Bp!Handled(event)
    PROVE  /\ bpPrice' = bpPrice /\ bpTx' = bpTx /\ wallet' = wallet /\ staked' = staked
           /\ nft' = nft /\ put' = put /\ taken' = taken
           /\ TailOf(bpLogs, bpLogs') /\ bpLogs' \in Seq(BpEvents)
           /\ Head(bpLogs) = bpLogs[1] /\ bpLogs[1] \in BpEvents /\ bpLogs[1].event = event
           /\ BpChainTyped'
BY TailIsTailOf DEF Bp!Handled, BpTyped, BpChainTyped

\* A log that is no NFT's is handled.
LEMMA LpStep ==
    ASSUME BpInv, NEW event, Bp!Handled(event), event \in {"Transfer", "Mint", "Burn", "Collect"},
           RowsTyped(bpPosition'), LpRight(bpPosition'), mapping' = mapping,
           \A n \in Nfts : SameRows(n, bpPosition, bpPosition'),
           \A x \in BpSafes :
              \/ LpShown(x, LpHeld(x), bpPosition')
              \/ /\ ~IsLpTransfer(bpLogs[1], x)
                 /\ LpShown(x, LpHeld(x), bpPosition) => LpShown(x, LpHeld(x), bpPosition')
    PROVE  BpInv'
<1>1. BpTyped BY DEF BpInv
<1>2. /\ bpPrice' = bpPrice /\ wallet' = wallet /\ staked' = staked
      /\ nft' = nft /\ put' = put /\ taken' = taken
      /\ TailOf(bpLogs, bpLogs') /\ bpLogs[1].event = event /\ BpChainTyped'
  BY <1>1, HandledFacts
<1>3. BpTyped' BY <1>1, <1>2 DEF BpTyped
<1>4. BpNftsOK'
  <2>1. ASSUME NEW n \in Nfts
        PROVE  NftOK(n, nft[n], mapping[n], put[n], taken[n], bpPrice, bpPosition', bpLogs')
    <3>1. NftOK(n, nft[n], mapping[n], put[n], taken[n], bpPrice, bpPosition, bpLogs)
      BY DEF BpInv, BpNftsOK
    <3>2. ~Concerns(bpLogs[1], n)
      BY <1>2 DEF Concerns, IsMint, IsBurn, IsFlow, IsIncrease, IsDecrease
    <3>3. EntryOf(n, nft[n], bpPosition) \in Int BY <1>1, EntryTyped DEF BpTyped
    <3>. QED  BY <1>2, <3>1, <3>2, <3>3, OtherHandled
  <2>. QED  BY <1>2, <2>1 DEF BpNftsOK
<1>5. BpLpOK'
  <2>1. ASSUME NEW x \in BpSafes PROVE LpOK(x, LpHeld(x), bpPosition', bpLogs')
    BY <1>2, LpHandled DEF BpInv, BpLpOK
  <2>. QED  BY <1>2, <2>1 DEF BpLpOK, LpHeld
<1>. QED  BY <1>3, <1>4, <1>5 DEF BpInv

\* The rows of the others are the same.
OnlyRowsOf(n, rows, next) ==
    \A key : key[2] # n => /\ key \in DOMAIN next <=> key \in DOMAIN rows
                           /\ key \in DOMAIN rows => next[key] = rows[key]

\* A log of an NFT is handled.
LEMMA NftStep ==
    ASSUME BpAssumed, BpInv, NEW event, Bp!Handled(event), event # "Transfer", NEW n \in Nfts,
           RowsTyped(bpPosition'), OnlyRowsOf(n, bpPosition, bpPosition'),
           mapping' \in [Nfts -> BpSafes \cup {BpZero}],
           \A o \in Nfts \ {n} : mapping'[o] = mapping[o] /\ ~Concerns(bpLogs[1], o),
           NftOK(n, nft[n], mapping'[n], put[n], taken[n], bpPrice, bpPosition', bpLogs')
    PROVE  BpInv'
<1>1. BpTyped BY DEF BpInv
<1>2. /\ bpPrice' = bpPrice /\ wallet' = wallet /\ staked' = staked
      /\ nft' = nft /\ put' = put /\ taken' = taken
      /\ TailOf(bpLogs, bpLogs') /\ bpLogs[1].event = event /\ BpChainTyped'
  BY <1>1, HandledFacts
<1>3. BpTyped' BY <1>1, <1>2 DEF BpTyped
<1>4. BpNftsOK'
  <2>1. ASSUME NEW o \in Nfts, o # n
        PROVE  NftOK(o, nft[o], mapping'[o], put[o], taken[o], bpPrice, bpPosition', bpLogs')
    BY <1>1, EntryTyped, <2>1, <1>2, OtherHandled DEF BpInv, BpNftsOK, BpTyped, SameRows,
        OnlyRowsOf
  <2>. QED  BY <1>2, <2>1 DEF BpNftsOK
<1>5. BpLpOK'
  <2>1. ASSUME NEW x \in BpSafes PROVE LpOK(x, LpHeld(x), bpPosition', bpLogs')
    BY <1>2, LpHandled DEF BpInv, BpLpOK, BpAssumed, LpShown, OnlyRowsOf, IsLpTransfer
  <2>. QED  BY <1>2, <2>1 DEF BpLpOK, LpHeld
<1>6. LpRight(bpPosition')
  <2>1. ASSUME NEW key \in DOMAIN bpPosition', key[2] = BpPool PROVE LpRowRight(bpPosition'[key])
    BY <2>1 DEF BpAssumed, OnlyRowsOf, BpInv, LpRight
  <2>. QED  BY <2>1 DEF LpRight
<1>. QED  BY <1>3, <1>4, <1>5, <1>6 DEF BpInv

-----------------------------------------------------------------------------
(* Handlers of events of LP tokens. *)

\* The row of x shows what it holds; those of the others are the same.
LpRefreshOf(x, rows, next) ==
    /\ RowsTyped(next) /\ LpRight(next) /\ DOMAIN rows \subseteq DOMAIN next
    /\ \A n \in Nfts : SameRows(n, rows, next)
    /\ \A y \in BpSafes : IF y = x THEN LpShown(y, LpHeld(y), next)
                          ELSE LpShown(y, LpHeld(y), rows) => LpShown(y, LpHeld(y), next)

\* But for the row of x, at least, all are right.
RightBut(x, rows) ==
    \A key \in DOMAIN rows : key[2] = BpPool =>
        IF key[1] = x THEN rows[key].exited => rows[key].exit > 0 ELSE LpRowRight(rows[key])

LEMMA NewPositionTyped == Bp!NewPosition \in BpRow /\ ~Bp!NewPosition.exited
BY DEF Bp!NewPosition, BpRow

LEMMA LpIsRefreshed ==
    ASSUME BpAssumed, BpChainTyped, NEW rows, RowsTyped(rows), NEW x,
           RightBut(x, rows), x \in BpSafes \/ LpRight(rows),
           NEW next, next = Bp!refreshVeloV2Position(rows, x)
    PROVE  LpRefreshOf(x, rows, next)
<1>1. CASE x \notin BpSafes
  BY <1>1 DEF Bp!refreshVeloV2Position, Bp!getServiceByAgent, LpRefreshOf, SameRows
<1>2. CASE x \in BpSafes
  <2>1. PICK key : key = <<x, BpPool>> OBVIOUS
  <2>2. PICK old : old = Bp!LoadOr(rows, key, Bp!NewPosition) OBVIOUS
  <2>3. PICK new : new = Bp!LpRefreshed(old, x) OBVIOUS
  <2>4. next = [k \in DOMAIN rows \cup {key} |-> IF k = key THEN new ELSE rows[k]]
    BY <1>2, <2>1, <2>2, <2>3 DEF Bp!refreshVeloV2Position, Bp!getServiceByAgent, Bp!Put
  <2>5. key \in BpKeys /\ key[1] = x /\ key[2] = BpPool BY <1>2, <2>1 DEF BpKeys
  <2>6. old \in BpRow /\ (old.exited => old.exit > 0)
    BY <2>2, <2>5, NewPositionTyped DEF Bp!LoadOr, RowsTyped, PartialFn, RightBut
  <2>7. new \in BpRow /\ LpRowRight(new) /\ LpRowShows(new, LpHeld(x))
    BY <1>2, <2>3, <2>6, LpRefreshedRow
  <2>8. RowsTyped(next) BY <2>4, <2>5, <2>7 DEF RowsTyped, PartialFn
  <2>9. LpRight(next)
    <3>1. ASSUME NEW k \in DOMAIN next, k[2] = BpPool, k # key PROVE LpRowRight(next[k])
      BY <2>4, <3>1, <2>1 DEF RowsTyped, PartialFn, BpKeys, RightBut
    <3>2. next[key] = new BY <2>4
    <3>. QED  BY <2>7, <3>1, <3>2 DEF LpRight
  <2>10. ASSUME NEW n \in Nfts PROVE SameRows(n, rows, next) BY <2>4, <2>5 DEF BpAssumed, SameRows
  <2>11. ASSUME NEW y \in BpSafes, y # x
         PROVE  LpShown(y, LpHeld(y), rows) => LpShown(y, LpHeld(y), next)
    BY <2>1, <2>11, <2>4 DEF LpShown
  <2>12. LpShown(x, LpHeld(x), next) BY <2>1, <2>4, <2>7 DEF LpShown
  <2>13. DOMAIN rows \subseteq DOMAIN next BY <2>4
  <2>. QED  BY <1>2, <2>8, <2>9, <2>10, <2>11, <2>12, <2>13 DEF LpRefreshOf
<1>. QED  BY <1>1, <1>2

LEMMA RightIsRightBut == ASSUME NEW x, NEW rows, LpRight(rows) PROVE RightBut(x, rows)
BY DEF LpRight, RightBut, LpRowRight

LEMMA LpTransferHandled ==
    ASSUME BpAssumed, BpInv, Bp!handleVeloV2Transfer PROVE BpInv'
<1>1. PICK e : e = Head(bpLogs) OBVIOUS
<1>2. /\ Bp!Handled("Transfer") /\ mapping' = mapping
      /\ bpPosition' =
            IF e.from = BpZero THEN Bp!refreshVeloV2Position(bpPosition, e.to)
            ELSE IF e.to = BpZero THEN Bp!refreshVeloV2Position(bpPosition, e.from)
            ELSE Bp!refreshVeloV2Position(Bp!refreshVeloV2Position(bpPosition, e.from), e.to)
  BY <1>1 DEF Bp!handleVeloV2Transfer
<1>3. BpTyped /\ BpChainTyped /\ RowsTyped(bpPosition) /\ LpRight(bpPosition)
  BY DEF BpInv, BpTyped
<1>4. e = bpLogs[1] /\ e.event = "Transfer" BY <1>1, <1>2, <1>3, HandledFacts
<1>5. \A x \in BpSafes : x # BpZero BY DEF BpAssumed
<1>6. PICK once : once = Bp!refreshVeloV2Position(bpPosition, e.from) OBVIOUS
<1>7. LpRefreshOf(e.from, bpPosition, once) BY <1>3, <1>6, LpIsRefreshed, RightIsRightBut
<1>8. CASE e.from = BpZero
  <2>1. bpPosition' = Bp!refreshVeloV2Position(bpPosition, e.to) BY <1>2, <1>8
  <2>2. LpRefreshOf(e.to, bpPosition, bpPosition') BY <1>3, <2>1, LpIsRefreshed, RightIsRightBut
  <2>3. \A x \in BpSafes : IsLpTransfer(bpLogs[1], x) => x = e.to
    BY <1>4, <1>5, <1>8 DEF IsLpTransfer
  <2>. QED  BY <1>2, <2>2, <2>3, LpStep DEF LpRefreshOf
<1>9. CASE e.from # BpZero /\ e.to = BpZero
  BY <1>2, <1>6, <1>9, <1>4, <1>5, <1>7, LpStep DEF IsLpTransfer, LpRefreshOf
<1>10. CASE e.from # BpZero /\ e.to # BpZero
  <2>1. bpPosition' = Bp!refreshVeloV2Position(once, e.to) BY <1>2, <1>6, <1>10
  <2>2. RowsTyped(once) /\ LpRight(once) BY <1>7 DEF LpRefreshOf
  <2>3. LpRefreshOf(e.to, once, bpPosition') BY <1>3, <2>1, <2>2, LpIsRefreshed, RightIsRightBut
  <2>4. \A n \in Nfts : SameRows(n, bpPosition, bpPosition')
    BY <1>7, <2>3 DEF LpRefreshOf, SameRows
  <2>5. ASSUME NEW x \in BpSafes
        PROVE  \/ LpShown(x, LpHeld(x), bpPosition')
               \/ /\ ~IsLpTransfer(bpLogs[1], x)
                  /\ LpShown(x, LpHeld(x), bpPosition) => LpShown(x, LpHeld(x), bpPosition')
    BY <1>4, <1>7, <2>3 DEF LpRefreshOf, IsLpTransfer
  <2>. QED  BY <1>2, <2>3, <2>4, <2>5, LpStep DEF LpRefreshOf
<1>. QED  BY <1>8, <1>9, <1>10

\* The row of x is changed, then refreshed.
LEMMA LpChanged ==
    ASSUME BpAssumed, BpInv, NEW event \in {"Mint", "Burn"}, Bp!Handled(event), mapping' = mapping,
           NEW x, <<x, BpPool>> \in DOMAIN bpPosition,
           NEW row \in BpRow, row.exited => row.exit > 0, NEW rows,
           rows = [bpPosition EXCEPT ![<<x, BpPool>>] = row],
           bpPosition' = Bp!refreshVeloV2Position(rows, x)
    PROVE  BpInv'
<1>1. BpTyped /\ BpChainTyped /\ RowsTyped(bpPosition) /\ LpRight(bpPosition)
  BY DEF BpInv, BpTyped
<1>2. bpLogs[1].event = event BY <1>1, HandledFacts
<1>3. x \in BpSafes BY <1>1 DEF RowsTyped, PartialFn, BpKeys
<1>4. /\ DOMAIN rows = DOMAIN bpPosition /\ rows[<<x, BpPool>>] = row
      /\ \A key \in DOMAIN rows : key # <<x, BpPool>> => rows[key] = bpPosition[key]
      /\ rows = [key \in DOMAIN rows |-> rows[key]]
  OBVIOUS
<1>5. RowsTyped(rows) BY <1>1, <1>4 DEF RowsTyped, PartialFn
<1>6. RightBut(x, rows)
  <2>1. ASSUME NEW key \in DOMAIN rows, key[2] = BpPool
        PROVE  IF key[1] = x THEN rows[key].exited => rows[key].exit > 0 ELSE LpRowRight(rows[key])
    <3>1. key \in BpKeys BY <1>5 DEF RowsTyped, PartialFn
    <3>2. CASE key[1] = x BY <2>1, <3>1, <3>2, <1>4 DEF BpKeys
    <3>3. CASE key[1] # x BY <3>3, <1>1, <1>4, <2>1 DEF LpRight
    <3>. QED  BY <3>2, <3>3
  <2>. QED  BY <2>1 DEF RightBut
<1>7. LpRefreshOf(x, rows, bpPosition') BY <1>1, <1>3, <1>5, <1>6, LpIsRefreshed
<1>8. \A n \in Nfts : SameRows(n, bpPosition, rows)
  BY <1>4 DEF SameRows, BpAssumed
<1>9. \A n \in Nfts : SameRows(n, bpPosition, bpPosition') BY <1>7, <1>8 DEF LpRefreshOf, SameRows
<1>10. ASSUME NEW y \in BpSafes
       PROVE  \/ LpShown(y, LpHeld(y), bpPosition')
              \/ /\ ~IsLpTransfer(bpLogs[1], y)
                 /\ LpShown(y, LpHeld(y), bpPosition) => LpShown(y, LpHeld(y), bpPosition')
  <2>1. ~IsLpTransfer(bpLogs[1], y) BY <1>2 DEF IsLpTransfer
  <2>2. CASE y = x BY <1>7, <2>2 DEF LpRefreshOf
  <2>3. CASE y # x BY <2>3, <1>4, <1>7, <2>1 DEF LpShown, LpRefreshOf
  <2>. QED  BY <2>2, <2>3
<1>. QED  BY <1>7, <1>9, <1>10, LpStep DEF LpRefreshOf

\* Nothing is changed.
LEMMA LpIgnored ==
    ASSUME BpInv, NEW event \in {"Mint", "Burn", "Collect"}, Bp!Handled(event), mapping' = mapping,
           bpPosition' = bpPosition
    PROVE  BpInv'
BY HandledFacts, LpStep DEF BpInv, BpTyped, IsLpTransfer, SameRows

LEMMA LpMintHandled == ASSUME BpAssumed, BpInv, Bp!handleVeloV2Mint PROVE BpInv'
<1>1. PICK e : e = Head(bpLogs) OBVIOUS
<1>2. /\ Bp!Handled("Mint") /\ mapping' = mapping
      /\ bpPosition' =
            IF e.tx \in DOMAIN pending /\ <<pending[e.tx], BpPool>> \in DOMAIN bpPosition
            THEN Bp!refreshVeloV2Position(Bp!Entered(pending[e.tx], e.amount), pending[e.tx])
            ELSE bpPosition
  BY <1>1 DEF Bp!handleVeloV2Mint
<1>3. CASE e.tx \in DOMAIN pending /\ <<pending[e.tx], BpPool>> \in DOMAIN bpPosition
  <2>1. PICK x : x = pending[e.tx] OBVIOUS
  <2>2. PICK paid : paid = e.amount * bpPrice OBVIOUS
  <2>3. <<x, BpPool>> \in DOMAIN bpPosition BY <1>3, <2>1
  <2>4. BpTyped /\ RowsTyped(bpPosition) /\ LpRight(bpPosition) BY DEF BpInv, BpTyped
  <2>5. paid \in Nat
    <3>1. e \in BpEvents /\ e.event = "Mint" BY <1>1, <1>2, <2>4, HandledFacts
    <3>2. e.amount \in Nat BY <3>1 DEF BpEvents, Positives
    <3>3. bpPrice \in Nat BY <2>4 DEF BpTyped, BpChainTyped, Positives
    <3>. QED  BY <2>2, <3>2, <3>3
  <2>6. PICK old : old = bpPosition[<<x, BpPool>>] OBVIOUS
  <2>7. old \in BpRow /\ (old.exited => old.exit > 0)
    BY <2>3, <2>4, <2>6 DEF RowsTyped, PartialFn, LpRight, LpRowRight
  <2>8. PICK row : row = [old EXCEPT !.entry = paid] OBVIOUS
  <2>9. row \in BpRow /\ (row.exited => row.exit > 0) BY ONLY <2>5, <2>7, <2>8 DEF BpRow
  <2>10. PICK rows : rows = Bp!Entered(x, e.amount) OBVIOUS
  <2>11. rows = [bpPosition EXCEPT ![<<x, BpPool>>] = row]
    BY <2>2, <2>3, <2>6, <2>8, <2>10 DEF Bp!Entered
  <2>12. bpPosition' = Bp!refreshVeloV2Position(rows, x) BY <1>2, <1>3, <2>1, <2>10
  <2>. QED  BY <1>2, <2>3, <2>9, <2>11, <2>12, LpChanged
<1>4. CASE ~(e.tx \in DOMAIN pending /\ <<pending[e.tx], BpPool>> \in DOMAIN bpPosition)
  BY <1>2, <1>4, LpIgnored
<1>. QED  BY <1>3, <1>4

\* The exit of LP tokens.
LEMMA LpExited ==
    ASSUME BpAssumed, BpInv, Bp!Handled("Burn"), mapping' = mapping, NEW x,
           NEW amount \in Positives,
           bpPosition' = Bp!refreshVeloV2PositionWithBurnAmounts(x, amount)
    PROVE  BpInv'
<1>1. CASE <<x, BpPool>> \notin DOMAIN bpPosition
  BY <1>1, LpIgnored DEF Bp!refreshVeloV2PositionWithBurnAmounts
<1>2. CASE <<x, BpPool>> \in DOMAIN bpPosition
  <2>1. PICK got : got = amount * bpPrice OBVIOUS
  <2>2. RowsTyped(bpPosition) BY DEF BpInv, BpTyped
  <2>3. got \in Nat /\ got > 0 BY <2>1 DEF BpInv, BpTyped, BpChainTyped, Positives
  <2>4. PICK old : old = bpPosition[<<x, BpPool>>] OBVIOUS
  <2>5. old \in BpRow BY <1>2, <2>2, <2>4 DEF RowsTyped, PartialFn
  <2>6. PICK exited : exited = [old EXCEPT !.exit = got, !.exited = TRUE] OBVIOUS
  <2>7. exited \in BpRow /\ exited.exit = got BY ONLY <2>3, <2>5, <2>6 DEF BpRow
  <2>8. PICK row : row = Bp!calculatePositionROI(exited) OBVIOUS
  <2>9. row \in BpRow /\ row.exit > 0 BY <2>3, <2>7, <2>8, RoiOfRow
  <2>10. PICK rows : rows = [bpPosition EXCEPT ![<<x, BpPool>>] = row] OBVIOUS
  <2>11. bpPosition' = Bp!refreshVeloV2Position(rows, x)
    BY <1>2, <2>1, <2>4, <2>6, <2>8, <2>10 DEF Bp!refreshVeloV2PositionWithBurnAmounts
  <2>. QED  BY <1>2, <2>9, <2>10, <2>11, LpChanged
<1>. QED  BY <1>1, <1>2

LEMMA LpBurnHandled == ASSUME BpAssumed, BpInv, Bp!handleVeloV2Burn PROVE BpInv'
BY HandledFacts, LpExited, LpIgnored DEF Bp!handleVeloV2Burn, Bp!getServiceByAgent, BpInv, BpEvents

-----------------------------------------------------------------------------
(* Handlers of events of NFTs, and polls. *)

LEMMA RowReplaced ==
    ASSUME NEW rows, RowsTyped(rows), NEW key \in DOMAIN rows, NEW new \in BpRow, NEW next,
           next = [rows EXCEPT ![key] = new], NEW n, key[2] = n
    PROVE  /\ RowsTyped(next) /\ OnlyRowsOf(n, rows, next) /\ DOMAIN next = DOMAIN rows
           /\ next[key] = new
           /\ \A k \in DOMAIN rows : k # key => next[k] = rows[k]
BY DEF RowsTyped, PartialFn, OnlyRowsOf

\* The NFT of the next log, and its row.
LEMMA NftHeard ==
    ASSUME BpAssumed, BpInv, NEW event \in {"NftTransfer", "Increase", "Decrease"},
           Bp!Handled(event)
    PROVE  LET e == Head(bpLogs)  n == Head(bpLogs).id
           IN  /\ e = bpLogs[1] /\ e \in BpEvents /\ e.event = event /\ n \in Nfts
               /\ nft[n] \in BpNft /\ RowsTyped(bpPosition) /\ BpChainTyped
               /\ mapping \in [Nfts -> BpSafes \cup {BpZero}]
               /\ TailOf(bpLogs, bpLogs') /\ 1 \in 1..Len(bpLogs)
               /\ NftOK(n, nft[n], mapping[n], put[n], taken[n], bpPrice, bpPosition, bpLogs)
               /\ BornOK(n, nft[n], mapping[n], bpPosition, bpLogs)
               /\ EntryOf(n, nft[n], bpPosition) \in Int
               /\ \A o \in Nfts \ {n} : ~Concerns(e, o)
<1>1. BpTyped BY DEF BpInv
<1>2. PICK e, n : e = Head(bpLogs) /\ n = Head(bpLogs).id OBVIOUS
<1>3. e = bpLogs[1] /\ e \in BpEvents /\ e.event = event /\ TailOf(bpLogs, bpLogs')
  BY <1>1, <1>2, HandledFacts
<1>4. n \in Nfts BY <1>2, <1>3 DEF BpEvents
<1>5. /\ nft[n] \in BpNft /\ RowsTyped(bpPosition) /\ mapping \in [Nfts -> BpSafes \cup {BpZero}]
      /\ BpChainTyped
  BY <1>1, <1>4 DEF BpTyped, BpChainTyped
<1>6. NftOK(n, nft[n], mapping[n], put[n], taken[n], bpPrice, bpPosition, bpLogs)
  BY <1>4 DEF BpInv, BpNftsOK
<1>7. 1 \in 1..Len(bpLogs) BY <1>3 DEF TailOf
<1>8. \A o \in Nfts \ {n} : ~Concerns(e, o)
  BY <1>2 DEF Concerns, IsMint, IsBurn, IsFlow, IsIncrease, IsDecrease
<1>. QED  BY <1>2, <1>3, <1>4, <1>5, <1>6, <1>7, <1>8, EntryTyped DEF NftOK

LEMMA NftTransferHandled == ASSUME BpAssumed, BpInv, Bp!handleNFTTransfer PROVE BpInv'
<1>1. PICK e, n, r : e = Head(bpLogs) /\ n = e.id /\ r = nft[n] OBVIOUS
<1>2. /\ Bp!Handled("NftTransfer")
      /\ mapping' = IF e.from = BpZero /\ e.to \in BpSafes /\ mapping[n] = BpZero
                    THEN [mapping EXCEPT ![n] = e.to] ELSE mapping
      /\ bpPosition' =
            IF e.from = BpZero
            THEN IF e.to \in BpSafes THEN Bp!CreatedCLPosition(e.to, n) ELSE bpPosition
            ELSE IF e.to = BpZero /\ <<e.from, n>> \in DOMAIN bpPosition
            THEN [bpPosition EXCEPT ![<<e.from, n>>].active = FALSE]
            ELSE bpPosition
  BY <1>1 DEF Bp!handleNFTTransfer, Bp!getServiceByAgent
<1>3. /\ e = bpLogs[1] /\ e \in BpEvents /\ e.event = "NftTransfer" /\ n \in Nfts
      /\ r \in BpNft /\ RowsTyped(bpPosition) /\ BpChainTyped
      /\ mapping \in [Nfts -> BpSafes \cup {BpZero}]
      /\ TailOf(bpLogs, bpLogs') /\ 1 \in 1..Len(bpLogs)
      /\ NftOK(n, r, mapping[n], put[n], taken[n], bpPrice, bpPosition, bpLogs)
      /\ BornOK(n, r, mapping[n], bpPosition, bpLogs)
      /\ EntryOf(n, r, bpPosition) \in Int
      /\ \A o \in Nfts \ {n} : ~Concerns(e, o)
  BY <1>1, <1>2, NftHeard
<1>4. CASE e.from = BpZero
  <2>1. IsMint(e, n) /\ r.state # "unborn" /\ e.to = r.home /\ r.home \in BpSafes
    BY <1>1, <1>3, <1>4 DEF IsMint, Concerns, BornOK
  <2>2. mapping[n] \in {BpZero, r.home} BY <1>3 DEF BornOK
  <2>3. /\ mapping' \in [Nfts -> BpSafes \cup {BpZero}] /\ mapping'[n] = r.home
        /\ \A o \in Nfts \ {n} : mapping'[o] = mapping[o]
    BY <1>2, <1>3, <1>4, <2>1, <2>2
  <2>4. PICK key : key = <<r.home, n>> OBVIOUS
  <2>5. key = KeyOf(n, r) /\ key[2] = n /\ key \in BpKeys BY <1>3, <2>1, <2>4 DEF KeyOf, BpKeys
  <2>6. bpPosition' = Bp!CreatedCLPosition(r.home, n) BY <1>2, <1>4, <2>1
  <2>7. CASE key \in DOMAIN bpPosition \/ r.state # "live"
    <3>1. bpPosition' = bpPosition BY <1>1, <2>4, <2>6, <2>7 DEF Bp!CreatedCLPosition, Bp!Live
    <3>2. RowMade(n, r, bpPosition, bpPosition') /\ OnlyRowsOf(n, bpPosition, bpPosition')
      BY <3>1 DEF RowMade, OnlyRowsOf
    <3>3. NftOK(n, r, r.home, put[n], taken[n], bpPrice, bpPosition', bpLogs')
      BY <1>3, <2>1, <2>5, <2>7, <3>1, <3>2, MintHandled
    <3>. QED  BY <1>1, <1>2, <1>3, <2>3, <3>1, <3>2, <3>3, NftStep
  <2>8. CASE key \notin DOMAIN bpPosition /\ r.state = "live"
    <3>1. PICK old : old = Bp!NewPosition OBVIOUS
    <3>2. old \in BpRow /\ old.entry = 0 /\ old.active BY <3>1, NewPositionTyped DEF Bp!NewPosition
    <3>3. PICK new : new = Bp!NftRefreshed(old, n) OBVIOUS
    <3>4. /\ new \in BpRow /\ new.entry = 0 /\ (new.active \/ new.exited)
          /\ new.active /\ n \notin Ungauged => new.liquidity = r.liquidity
      BY <1>1, <1>3, <3>2, <3>3, NftRefreshedRow
    <3>5. PICK made : made = [k \in DOMAIN bpPosition \cup {key} |-> IF k = key THEN old
                                                                    ELSE bpPosition[k]]
      OBVIOUS
    <3>6. bpPosition' = Bp!refreshVeloCLPosition(made, key)
      BY <1>1, <2>4, <2>6, <2>8, <3>1, <3>5 DEF Bp!CreatedCLPosition, Bp!Live, Bp!Put
    <3>7. bpPosition' = [made EXCEPT ![key] = new]
      BY <1>1, <2>5, <2>8, <3>3, <3>5, <3>6 DEF Bp!refreshVeloCLPosition, Bp!Live
    <3>8. /\ DOMAIN bpPosition' = DOMAIN bpPosition \cup {key} /\ bpPosition'[key] = new
          /\ \A k \in DOMAIN bpPosition : k # key /\ bpPosition'[k] = bpPosition[k]
          /\ bpPosition' = [k \in DOMAIN bpPosition' |-> bpPosition'[k]]
      BY <2>8, <3>5, <3>7
    <3>9. RowsTyped(bpPosition') BY <1>3, <2>5, <3>4, <3>8 DEF RowsTyped, PartialFn
    <3>10. RowMade(n, r, bpPosition, bpPosition') /\ OnlyRowsOf(n, bpPosition, bpPosition')
      BY <2>5, <3>8 DEF RowMade, OnlyRowsOf
    <3>11. NftOK(n, r, r.home, put[n], taken[n], bpPrice, bpPosition', bpLogs')
      <4>1. KeyOf(n, r) \notin DOMAIN bpPosition /\ KeyOf(n, r) \in DOMAIN bpPosition'
            /\ bpPosition'[KeyOf(n, r)] = new
        BY <2>5, <2>8, <3>8
      <4>. QED  BY <1>3, <2>1, <2>8, <3>4, <3>10, <4>1, MintHandled
    <3>. QED  BY <1>1, <1>2, <1>3, <2>3, <3>9, <3>10, <3>11, NftStep
  <2>. QED  BY <2>7, <2>8
<1>5. CASE e.from # BpZero
  <2>1. mapping' = mapping BY <1>2, <1>5
  <2>2. \A o \in Nfts \ {n} : mapping'[o] = mapping[o] BY <2>1
  <2>3. CASE e.to = BpZero /\ <<e.from, n>> \in DOMAIN bpPosition
    <3>1. PICK key : key = <<e.from, n>> OBVIOUS
    <3>2. PICK old : old = bpPosition[key] OBVIOUS
    <3>3. PICK new : new = [old EXCEPT !.active = FALSE] OBVIOUS
    <3>4. old \in BpRow BY <1>3, <2>3, <3>1, <3>2 DEF RowsTyped, PartialFn
    <3>5. new \in BpRow /\ ~new.active BY ONLY <3>3, <3>4 DEF BpRow
    <3>6. bpPosition' = [bpPosition EXCEPT ![key] = new] BY <1>2, <1>5, <2>3, <3>1, <3>2, <3>3
    <3>7. /\ RowsTyped(bpPosition') /\ OnlyRowsOf(n, bpPosition, bpPosition')
          /\ DOMAIN bpPosition' = DOMAIN bpPosition /\ bpPosition'[key] = new
          /\ \A k \in DOMAIN bpPosition : k # key => bpPosition'[k] = bpPosition[k]
      BY <1>3, <2>3, <3>1, <3>5, <3>6, RowReplaced
    <3>8. IsBurn(e, n) BY <1>1, <1>3, <1>5, <2>3 DEF IsBurn
    <3>9. /\ \A k \in DOMAIN bpPosition : bpPosition'[k] = bpPosition[k] \/ ~bpPosition'[k].active
          /\ e.from = r.home => ~bpPosition'[KeyOf(n, r)].active
      BY <3>1, <3>5, <3>7 DEF KeyOf
    <3>10. NftOK(n, r, mapping[n], put[n], taken[n], bpPrice, bpPosition', bpLogs')
      BY <1>3, <3>7, <3>8, <3>9, BurnHandled
    <3>. QED  BY <1>1, <1>2, <1>3, <2>1, <2>2, <3>7, <3>10, NftStep
  <2>4. CASE ~(e.to = BpZero /\ <<e.from, n>> \in DOMAIN bpPosition)
    <3>1. bpPosition' = bpPosition BY <1>2, <1>5, <2>4
    <3>2. OnlyRowsOf(n, bpPosition, bpPosition') /\ SameRows(n, bpPosition, bpPosition')
      BY <3>1 DEF OnlyRowsOf, SameRows
    <3>3. NftOK(n, r, mapping[n], put[n], taken[n], bpPrice, bpPosition', bpLogs')
      <4>1. CASE IsBurn(e, n) BY <2>4, <4>1, <1>3, <3>1, BurnHandled DEF KeyOf, IsBurn
      <4>2. CASE ~IsBurn(e, n)
        BY <1>3, <1>5, <4>2, <3>2, OtherHandled DEF Concerns, IsMint, IsFlow, IsIncrease,
            IsDecrease
      <4>. QED  BY <4>1, <4>2
    <3>. QED  BY <1>1, <1>2, <1>3, <2>1, <2>2, <3>1, <3>2, <3>3, NftStep
  <2>. QED  BY <2>3, <2>4
<1>. QED  BY <1>4, <1>5

\* What the log e of a flow makes of the row of a live NFT, at price p.
FlowRow(n, r, e, p, old, new) ==
    /\ new.entry = old.entry + PutBy(e, n, p)
    /\ old.active \/ old.exited => new.active \/ new.exited
    /\ new.active /\ n \notin Ungauged => new.liquidity = r.liquidity
    /\ r.liquidity = 0 /\ IsDecrease(e, n) =>
          ~new.active /\ new.exited /\ new.exit = e.amount * p /\ GainRight(new)

\* The log of a flow finds the NFT's row, if it is live.
LEMMA FlowStep ==
    ASSUME BpAssumed, BpInv, NEW event \in {"Increase", "Decrease"}, Bp!Handled(event),
           mapping' = mapping, NEW n, n = Head(bpLogs).id, NEW r, r = nft[n],
           NEW new, r.state # "live" => bpPosition' = bpPosition,
           r.state = "live" =>
              /\ new \in BpRow /\ bpPosition' = [bpPosition EXCEPT ![KeyOf(n, r)] = new]
              /\ FlowRow(n, r, bpLogs[1], bpPrice, bpPosition[KeyOf(n, r)], new)
    PROVE  BpInv'
<1>1. PICK e : e = Head(bpLogs) OBVIOUS
<1>2. /\ e = bpLogs[1] /\ e \in BpEvents /\ e.event = event /\ n \in Nfts
      /\ r \in BpNft /\ RowsTyped(bpPosition) /\ BpChainTyped
      /\ mapping \in [Nfts -> BpSafes \cup {BpZero}]
      /\ TailOf(bpLogs, bpLogs') /\ 1 \in 1..Len(bpLogs)
      /\ NftOK(n, r, mapping[n], put[n], taken[n], bpPrice, bpPosition, bpLogs)
      /\ \A o \in Nfts \ {n} : ~Concerns(e, o)
  BY <1>1, NftHeard
<1>3. IsFlow(e, n) BY <1>1, <1>2 DEF IsFlow, IsIncrease, IsDecrease
<1>4. r.liquidity \in Nat BY <1>2 DEF BpNft
<1>5. r.state = "live" => KeyOf(n, r) \in DOMAIN bpPosition BY <1>2, <1>3, FlowMapped
<1>6. CASE r.state # "live"
  BY <1>6, <1>2, <1>3, <1>4, FlowHandled, <1>1, NftStep DEF OnlyRowsOf, SameRows, RowMade
<1>7. CASE r.state = "live"
  <2>1. PICK key, old : key = KeyOf(n, r) /\ old = bpPosition[KeyOf(n, r)] OBVIOUS
  <2>2. /\ new \in BpRow /\ bpPosition' = [bpPosition EXCEPT ![key] = new]
        /\ FlowRow(n, r, e, bpPrice, old, new)
    BY <1>2, <1>7, <2>1
  <2>3. key \in DOMAIN bpPosition /\ key[2] = n BY <1>5, <1>7, <2>1 DEF KeyOf
  <2>4. /\ RowsTyped(bpPosition') /\ OnlyRowsOf(n, bpPosition, bpPosition')
        /\ DOMAIN bpPosition' = DOMAIN bpPosition /\ bpPosition'[key] = new
    BY <1>2, <2>2, <2>3, RowReplaced
  <2>5. RowMade(n, r, bpPosition, bpPosition') BY <2>4 DEF RowMade
  <2>6. old.active \/ old.exited BY <1>2, <1>7, <2>1, <2>3 DEF NftOK, ClosedOK
  <2>7. NftOK(n, r, mapping[n], put[n], taken[n], bpPrice, bpPosition', bpLogs')
    <3>1. bpPosition'[KeyOf(n, r)] = new /\ bpPosition[KeyOf(n, r)] = old BY <2>1, <2>4
    <3>2. LET row == bpPosition'[KeyOf(n, r)]
          IN  /\ row.entry = bpPosition[KeyOf(n, r)].entry + PutBy(bpLogs[1], n, bpPrice)
              /\ row.active \/ row.exited
              /\ row.active /\ n \notin Ungauged => row.liquidity = r.liquidity
              /\ r.liquidity = 0 /\ IsDecrease(bpLogs[1], n) =>
                    /\ ~row.active /\ row.exited /\ row.exit = bpLogs[1].amount * bpPrice
                    /\ GainRight(row)
      BY <1>2, <2>2, <2>6, <3>1 DEF FlowRow
    <3>. QED  BY <1>2, <1>3, <1>4, <1>7, <2>5, <3>2, FlowHandled
  <2>. QED  BY <1>1, <1>2, <2>4, <2>7, NftStep
<1>. QED  BY <1>6, <1>7

\* The mapping of the NFT of a flow is to its home.
LEMMA FlowFound ==
    ASSUME BpAssumed, BpInv, NEW event \in {"Increase", "Decrease"}, Bp!Handled(event),
           NEW n, n = Head(bpLogs).id
    PROVE  /\ mapping[n] = nft[n].home /\ mapping[n] # BpZero
           /\ nft[n].state = "live" => KeyOf(n, nft[n]) \in DOMAIN bpPosition
           /\ n \in Nfts /\ RowsTyped(bpPosition) /\ BpChainTyped
           /\ Head(bpLogs) = bpLogs[1] /\ bpLogs[1].event = event /\ bpLogs[1].id = n
           /\ bpLogs[1].amount \in Positives
BY NftHeard, FlowMapped DEF IsFlow, IsIncrease, IsDecrease, BornOK, BpAssumed, BpEvents

LEMMA IncreaseHandled == ASSUME BpAssumed, BpInv, Bp!handleIncreaseLiquidity PROVE BpInv'
<1>1. PICK e, n, r : e = Head(bpLogs) /\ n = e.id /\ r = nft[n] OBVIOUS
<1>2. /\ Bp!Handled("Increase") /\ mapping' = mapping
      /\ bpPosition' = IF mapping[n] = BpZero THEN bpPosition
                       ELSE Bp!refreshVeloCLPositionWithEventAmounts(<<mapping[n], n>>, e.amount)
  BY <1>1 DEF Bp!handleIncreaseLiquidity
<1>3. /\ mapping[n] = r.home /\ mapping[n] # BpZero
      /\ r.state = "live" => KeyOf(n, r) \in DOMAIN bpPosition
      /\ n \in Nfts /\ RowsTyped(bpPosition) /\ BpChainTyped
      /\ e = bpLogs[1] /\ e.event = "Increase" /\ e.id = n /\ e.amount \in Positives
  BY <1>1, <1>2, FlowFound
<1>4. PICK key : key = KeyOf(n, r) OBVIOUS
<1>5. key = <<mapping[n], n>> /\ key[2] = n BY <1>3, <1>4 DEF KeyOf
<1>6. bpPosition' = Bp!refreshVeloCLPositionWithEventAmounts(key, e.amount) BY <1>2, <1>3, <1>5
<1>7. CASE r.state # "live"
  BY <1>1, <1>5, <1>6, <1>7, <1>2, FlowStep DEF Bp!refreshVeloCLPositionWithEventAmounts, Bp!Live
<1>8. CASE r.state = "live"
  <2>1. PICK old, paid : old = bpPosition[key] /\ paid = e.amount * bpPrice OBVIOUS
  <2>2. paid \in Nat BY <1>3, <2>1 DEF BpChainTyped, Positives
  <2>3. key \in DOMAIN bpPosition BY <1>3, <1>4, <1>8
  <2>4. old \in BpRow /\ old.entry \in Nat BY <1>3, <2>1, <2>3 DEF RowsTyped, PartialFn, BpRow
  <2>5. PICK entry : entry = old.entry + paid OBVIOUS
  <2>6. entry \in Nat BY <2>2, <2>4, <2>5
  <2>7. PICK changed : changed = [old EXCEPT !.entry = entry, !.investment = entry] OBVIOUS
  <2>8. /\ changed \in BpRow /\ changed.entry = entry /\ changed.active = old.active
        /\ changed.exited = old.exited
    BY ONLY <2>4, <2>6, <2>7 DEF BpRow
  <2>9. PICK new : new = Bp!NftRefreshed(changed, n) OBVIOUS
  <2>10. /\ new \in BpRow /\ new.entry = entry
         /\ old.active \/ old.exited => new.active \/ new.exited
         /\ new.active /\ n \notin Ungauged => new.liquidity = r.liquidity
    BY <1>1, <1>3, <2>8, <2>9, NftRefreshedRow
  <2>11. PICK rows : rows = [bpPosition EXCEPT ![key].entry = entry, ![key].investment = entry]
    OBVIOUS
  <2>12. rows = [bpPosition EXCEPT ![key] = changed] BY <2>1, <2>3, <2>7, <2>11
  <2>13. bpPosition' = Bp!refreshVeloCLPosition(rows, key)
    BY <1>1, <1>5, <1>6, <1>8, <2>1, <2>3, <2>5, <2>11
       DEF Bp!refreshVeloCLPositionWithEventAmounts, Bp!Live
  <2>14. bpPosition' = [rows EXCEPT ![key] = new]
    BY <1>1, <1>5, <1>8, <2>3, <2>9, <2>12, <2>13 DEF Bp!refreshVeloCLPosition, Bp!Live
  <2>15. bpPosition' = [bpPosition EXCEPT ![key] = new] BY <2>3, <2>12, <2>14
  <2>16. PutBy(bpLogs[1], n, bpPrice) = paid BY <1>3, <2>1 DEF PutBy, IsIncrease
  <2>17. FlowRow(n, r, bpLogs[1], bpPrice, old, new)
    BY <1>3, <2>5, <2>10, <2>16 DEF IsDecrease, FlowRow
  <2>. QED  BY <1>1, <1>2, <1>4, <1>8, <2>1, <2>10, <2>15, <2>17, FlowStep
<1>. QED  BY <1>7, <1>8

LEMMA DecreaseHandled == ASSUME BpAssumed, BpInv, Bp!handleDecreaseLiquidity PROVE BpInv'
<1>1. PICK e, n, r : e = Head(bpLogs) /\ n = e.id /\ r = nft[n] OBVIOUS
<1>2. /\ Bp!Handled("Decrease") /\ mapping' = mapping
      /\ bpPosition' = IF mapping[n] = BpZero THEN bpPosition
                       ELSE Bp!refreshVeloCLPositionWithExitAmounts(<<mapping[n], n>>, e.amount)
  BY <1>1 DEF Bp!handleDecreaseLiquidity
<1>3. /\ mapping[n] = r.home /\ mapping[n] # BpZero
      /\ r.state = "live" => KeyOf(n, r) \in DOMAIN bpPosition
      /\ n \in Nfts /\ RowsTyped(bpPosition) /\ BpChainTyped
      /\ e = bpLogs[1] /\ e.event = "Decrease" /\ e.id = n /\ e.amount \in Positives
  BY <1>1, <1>2, FlowFound
<1>4. PICK key : key = KeyOf(n, r) OBVIOUS
<1>5. key = <<mapping[n], n>> /\ key[2] = n BY <1>3, <1>4 DEF KeyOf
<1>6. bpPosition' = Bp!refreshVeloCLPositionWithExitAmounts(key, e.amount) BY <1>2, <1>3, <1>5
<1>7. r.liquidity \in Nat BY <1>1, <1>3 DEF BpChainTyped, BpNft
<1>8. PutBy(bpLogs[1], n, bpPrice) = 0 BY <1>3 DEF PutBy, IsIncrease
<1>9. CASE r.state # "live"
  BY <1>1, <1>5, <1>6, <1>9, <1>2, FlowStep DEF Bp!refreshVeloCLPositionWithExitAmounts, Bp!Live
<1>10. CASE r.state = "live"
  <2>1. PICK old : old = bpPosition[key] OBVIOUS
  <2>2. key \in DOMAIN bpPosition BY <1>3, <1>4, <1>10
  <2>3. old \in BpRow /\ old.entry \in Nat BY <1>3, <2>1, <2>2 DEF RowsTyped, PartialFn, BpRow
  <2>4. CASE r.liquidity > 0
    <3>1. PICK new : new = Bp!NftRefreshed(old, n) OBVIOUS
    <3>2. /\ new \in BpRow /\ new.entry = old.entry
          /\ old.active \/ old.exited => new.active \/ new.exited
          /\ new.active /\ n \notin Ungauged => new.liquidity = r.liquidity
      BY <1>1, <1>3, <2>3, <3>1, NftRefreshedRow
    <3>3. bpPosition' = Bp!refreshVeloCLPosition(bpPosition, key)
      BY <1>1, <1>5, <1>6, <1>10, <2>2, <2>4
         DEF Bp!refreshVeloCLPositionWithExitAmounts, Bp!Live
    <3>4. bpPosition' = [bpPosition EXCEPT ![key] = new]
      BY <1>1, <1>5, <1>10, <2>1, <2>2, <3>1, <3>3 DEF Bp!refreshVeloCLPosition, Bp!Live
    <3>5. r.liquidity # 0 BY <1>7, <2>4
    <3>6. new.entry = old.entry + PutBy(bpLogs[1], n, bpPrice) BY <1>8, <2>3, <3>2
    <3>7. FlowRow(n, r, bpLogs[1], bpPrice, old, new) BY <3>2, <3>5, <3>6 DEF FlowRow
    <3>. QED  BY <1>1, <1>2, <1>4, <1>10, <2>1, <3>2, <3>4, <3>7, FlowStep
  <2>5. CASE ~(r.liquidity > 0)
    <3>1. PICK got : got = e.amount * bpPrice OBVIOUS
    <3>2. got \in Nat BY <1>3, <3>1 DEF BpChainTyped, Positives
    <3>3. PICK closing : closing = [old EXCEPT !.active = FALSE, !.exit = got, !.exited = TRUE,
                                               !.liquidity = 0, !.usdCurrent = 0]
      OBVIOUS
    <3>4. /\ closing \in BpRow /\ ~closing.active /\ closing.exited /\ closing.exit = got
          /\ closing.entry = old.entry
      BY ONLY <2>3, <3>2, <3>3 DEF BpRow
    <3>5. PICK new : new = Bp!calculatePositionROI(closing) OBVIOUS
    <3>6. /\ new \in BpRow /\ ~new.active /\ new.exited /\ new.exit = got
          /\ new.entry = old.entry /\ GainRight(new)
      BY <3>4, <3>5, RoiOfRow
    <3>7. bpPosition' = [bpPosition EXCEPT ![key] = new]
      BY <1>1, <1>5, <1>6, <1>10, <2>1, <2>2, <2>5, <3>1, <3>3, <3>5
         DEF Bp!refreshVeloCLPositionWithExitAmounts, Bp!Live
    <3>8. new.entry = old.entry + PutBy(bpLogs[1], n, bpPrice) BY <1>8, <2>3, <3>6
    <3>9. new.exit = bpLogs[1].amount * bpPrice BY <1>3, <3>1, <3>6
    <3>10. FlowRow(n, r, bpLogs[1], bpPrice, old, new) BY <3>6, <3>8, <3>9 DEF FlowRow
    <3>. QED  BY <1>1, <1>2, <1>4, <1>10, <2>1, <3>6, <3>7, <3>10, FlowStep
  <2>. QED  BY <2>4, <2>5
<1>. QED  BY <1>9, <1>10

LEMMA CollectHandled == ASSUME BpAssumed, BpInv, Bp!handleCollect PROVE BpInv'
BY LpIgnored DEF Bp!handleCollect, Bp!collectMapping

LEMMA Polled == ASSUME BpAssumed, BpInv, NEW x \in BpSafes, Bp!Poll(x) PROVE BpInv'
<1>1. /\ bpLogs = <<>> /\ bpLogs' = bpLogs /\ mapping' = mapping /\ bpPrice' = bpPrice
      /\ bpTx' = bpTx /\ wallet' = wallet /\ staked' = staked /\ nft' = nft /\ put' = put
      /\ taken' = taken /\ bpPosition' = Bp!refreshAllActivePositions(x)
  BY DEF Bp!Poll, Bp!chain
<1>2. BpTyped /\ BpChainTyped /\ RowsTyped(bpPosition) /\ LpRight(bpPosition)
  BY DEF BpInv, BpTyped
<1>3. PICK lp : lp = Bp!refreshVeloV2Position(bpPosition, x) OBVIOUS
<1>4. LpRefreshOf(x, bpPosition, lp) BY <1>2, <1>3, LpIsRefreshed, RightIsRightBut
<1>5. DOMAIN bpPosition' = DOMAIN bpPosition
      /\ bpPosition' = [key \in DOMAIN bpPosition' |-> bpPosition'[key]]
  BY <1>1 DEF Bp!refreshAllActivePositions
<1>6. ASSUME NEW key \in DOMAIN bpPosition
      PROVE  bpPosition'[key] =
               IF key[1] = x /\ bpPosition[key].active
               THEN IF key[2] = BpPool THEN lp[key]
                    ELSE Bp!refreshVeloCLPosition(bpPosition, key)[key]
               ELSE bpPosition[key]
  BY <1>1, <1>3, <1>6 DEF Bp!refreshAllActivePositions
<1>7. ASSUME NEW key \in DOMAIN bpPosition, key[2] = BpPool
      PROVE  /\ bpPosition'[key] \in BpRow /\ LpRowRight(bpPosition'[key])
             /\ bpPosition'[key] = bpPosition[key]
                \/ (key = <<x, BpPool>> /\ LpRowShows(bpPosition'[key], LpHeld(x)))
  <2>1. key \in BpKeys /\ bpPosition[key] \in BpRow /\ LpRowRight(bpPosition[key])
    BY <1>2, <1>7 DEF RowsTyped, PartialFn, LpRight
  <2>2. CASE key[1] = x /\ bpPosition[key].active
    BY <1>6, <1>7, <2>2, <2>1, <1>4 DEF BpKeys, LpRefreshOf, RowsTyped, PartialFn, LpRight, LpShown
  <2>3. CASE ~(key[1] = x /\ bpPosition[key].active) BY <1>6, <1>7, <2>3, <2>1
  <2>. QED  BY <2>2, <2>3
<1>8. ASSUME NEW key \in DOMAIN bpPosition, key[2] # BpPool
      PROVE  /\ bpPosition'[key] \in BpRow /\ key[2] \in Nfts
             /\ bpPosition'[key] = bpPosition[key]
                \/ LET row == bpPosition[key]  new == bpPosition'[key]
                   IN  /\ row.active /\ nft[key[2]].state = "live" /\ new.entry = row.entry
                       /\ new.active \/ new.exited
                       /\ new.active /\ key[2] \notin Ungauged => new.liquidity = nft[key[2]].liquidity
  <2>1. key \in BpKeys /\ bpPosition[key] \in BpRow BY <1>2, <1>8 DEF RowsTyped, PartialFn
  <2>2. key[2] \in Nfts BY <1>8, <2>1 DEF BpKeys
  <2>3. CASE key[1] = x /\ bpPosition[key].active /\ nft[key[2]].state = "live"
    <3>1. PICK n, row : n = key[2] /\ row = bpPosition[key] OBVIOUS
    <3>2. PICK new : new = Bp!NftRefreshed(row, n) OBVIOUS
    <3>3. bpPosition'[key] = new
      BY <1>6, <1>8, <2>3, <3>1, <3>2 DEF Bp!refreshVeloCLPosition, Bp!Live
    <3>4. /\ new \in BpRow /\ new.entry = row.entry /\ (row.active => new.active \/ new.exited)
          /\ new.active /\ n \notin Ungauged => new.liquidity = nft[n].liquidity
      BY <1>2, <2>1, <2>2, <3>1, <3>2, NftRefreshedRow
    <3>. QED  BY <2>2, <2>3, <3>1, <3>3, <3>4
  <2>4. CASE ~(key[1] = x /\ bpPosition[key].active /\ nft[key[2]].state = "live")
    BY <1>6, <1>8, <2>4, <2>1, <2>2 DEF Bp!refreshVeloCLPosition, Bp!Live
  <2>. QED  BY <2>3, <2>4
<1>9. RowsTyped(bpPosition') BY <1>2, <1>5, <1>7, <1>8 DEF RowsTyped, PartialFn
<1>10. BpTyped' BY <1>1, <1>2, <1>9 DEF BpTyped, BpChainTyped
<1>11. BpNftsOK'
  <2>1. ASSUME NEW n \in Nfts
        PROVE  NftOK(n, nft[n], mapping[n], put[n], taken[n], bpPrice, bpPosition', bpLogs)
    <3>1. NftOK(n, nft[n], mapping[n], put[n], taken[n], bpPrice, bpPosition, bpLogs)
      BY DEF BpInv, BpNftsOK
    <3>2. KeyOf(n, nft[n])[2] = n /\ n # BpPool BY DEF KeyOf, BpAssumed
    <3>3. Len(bpLogs) = 0 BY <1>1
    <3>. QED  BY <1>5, <1>8, <3>1, <3>2, <3>3, PollHandled
  <2>. QED  BY <1>1, <2>1 DEF BpNftsOK
<1>12. BpLpOK'
  <2>1. ASSUME NEW y \in BpSafes PROVE LpOK(y, LpHeld(y), bpPosition', bpLogs)
    <3>1. LpOK(y, LpHeld(y), bpPosition, bpLogs) BY DEF BpInv, BpLpOK
    <3>2. LpShown(y, LpHeld(y), bpPosition) BY <1>1, <3>1 DEF LpOK
    <3>3. PICK key : key = <<y, BpPool>> OBVIOUS
    <3>4. key = <<x, BpPool>> => x = y BY <3>3
    <3>5. LpShown(y, LpHeld(y), bpPosition') BY <1>5, <1>7, <3>2, <3>3, <3>4 DEF LpShown
    <3>. QED  BY <3>5 DEF LpOK
  <2>. QED  BY <1>1, <2>1 DEF BpLpOK, LpHeld
<1>13. LpRight(bpPosition') BY <1>5, <1>7 DEF LpRight
<1>. QED  BY <1>10, <1>11, <1>12, <1>13 DEF BpInv

-----------------------------------------------------------------------------
(* Steps of the chain. *)

LEMMA EmitsFacts ==
    ASSUME BpTyped, NEW es \in Seq(BpEvents), Bp!Emits(es)
    PROVE  /\ bpPrice' = bpPrice /\ bpTx' \in Nat /\ bpPosition' = bpPosition /\ mapping' = mapping
           /\ bpLogs' \in Seq(BpEvents) /\ Extends(bpLogs, bpLogs')
           /\ Len(bpLogs') = Len(bpLogs) + Len(es)
           /\ \A j \in 1..Len(es) : bpLogs'[Len(bpLogs) + j] = es[j]
           /\ \A i \in After(bpLogs, bpLogs') : \E j \in 1..Len(es) : bpLogs'[i] = es[j]
<1>1. /\ bpLogs' = bpLogs \o es /\ bpTx' = bpTx + 1 /\ bpPrice' = bpPrice
      /\ bpPosition' = bpPosition /\ mapping' = mapping
  BY DEF Bp!Emits, Bp!store
<1>2. bpLogs \in Seq(BpEvents) /\ bpTx \in Nat BY DEF BpTyped, BpChainTyped
<1>3. bpTx' \in Nat BY <1>1, <1>2
<1>4. /\ bpLogs' \in Seq(BpEvents) /\ Extends(bpLogs, bpLogs')
      /\ Len(bpLogs') = Len(bpLogs) + Len(es)
      /\ \A j \in 1..Len(es) : bpLogs'[Len(bpLogs) + j] = es[j]
      /\ \A i \in After(bpLogs, bpLogs') : \E j \in 1..Len(es) : bpLogs'[i] = es[j]
  <2>1. PICK l, k : l = bpLogs /\ k = bpLogs' OBVIOUS
  <2>2. l \in Seq(BpEvents) /\ Joined(l, es, k) BY <1>1, <1>2, <2>1 DEF Joined
  <2>3. /\ k \in Seq(BpEvents) /\ Extends(l, k) /\ Len(k) = Len(l) + Len(es)
        /\ \A j \in 1..Len(es) : k[Len(l) + j] = es[j]
        /\ \A i \in After(l, k) : \E j \in 1..Len(es) : k[i] = es[j]
    BY ONLY <2>2, es \in Seq(BpEvents), Concatenated
  <2>. QED  BY <2>1, <2>3
<1>. QED  BY <1>1, <1>3, <1>4

LEMMA NftUntouched ==
    ASSUME BpInv, NEW es \in Seq(BpEvents), Bp!Emits(es), NEW n \in Nfts,
           \A j \in 1..Len(es) : ~Concerns(es[j], n), NEW s,
           s.state = nft[n].state, s.home = nft[n].home, s.liquidity = nft[n].liquidity,
           s.owner = nft[n].owner
           \/ (nft[n].state = "live" /\ s.owner \in {nft[n].home, BpGauge, BpOutsider})
    PROVE  NftOK(n, s, mapping[n], put[n], taken[n], bpPrice, bpPosition, bpLogs')
BY EmitsFacts, OtherAppended DEF BpInv, BpNftsOK

LEMMA LpUntouched ==
    ASSUME BpInv, NEW es \in Seq(BpEvents), Bp!Emits(es), NEW x \in BpSafes, NEW held,
           held = LpHeld(x) \/ \E j \in 1..Len(es) : IsLpTransfer(es[j], x)
    PROVE  LpOK(x, held, bpPosition, bpLogs')
<1>1. BpTyped BY DEF BpInv
<1>2. /\ Extends(bpLogs, bpLogs') /\ Len(bpLogs') = Len(bpLogs) + Len(es)
      /\ \A j \in 1..Len(es) : bpLogs'[Len(bpLogs) + j] = es[j]
  BY <1>1, EmitsFacts
<1>3. LpOK(x, LpHeld(x), bpPosition, bpLogs) BY DEF BpInv, BpLpOK
<1>4. ASSUME NEW j \in 1..Len(es), IsLpTransfer(es[j], x)
      PROVE  \E i \in 1..Len(bpLogs') : IsLpTransfer(bpLogs'[i], x)
  BY <1>2, <1>4 DEF Extends
<1>5. ASSUME NEW i \in 1..Len(bpLogs), IsLpTransfer(bpLogs[i], x)
      PROVE  \E u \in 1..Len(bpLogs') : IsLpTransfer(bpLogs'[u], x)
  BY <1>2, <1>5, ExtendsPlaces
<1>. QED  BY <1>3, <1>4, <1>5 DEF LpOK

\* LP tokens move.
LEMMA LpChainStep ==
    ASSUME BpInv, NEW es \in Seq(BpEvents), Bp!Emits(es),
           nft' = nft, put' = put, taken' = taken,
           wallet' \in [BpSafes -> Nat], staked' \in [BpSafes -> Nat],
           \A j \in 1..Len(es) : es[j].event \in {"Transfer", "Mint", "Burn"},
           \A x \in BpSafes : \/ wallet'[x] = wallet[x] /\ staked'[x] = staked[x]
                              \/ \E j \in 1..Len(es) : IsLpTransfer(es[j], x)
    PROVE  BpInv'
<1>1. BpTyped BY DEF BpInv
<1>2. /\ bpPrice' = bpPrice /\ bpTx' \in Nat /\ bpPosition' = bpPosition /\ mapping' = mapping
      /\ bpLogs' \in Seq(BpEvents)
  BY <1>1, EmitsFacts
<1>3. BpTyped' BY <1>1, <1>2 DEF BpTyped, BpChainTyped
<1>4. BpNftsOK'
  <2>1. ASSUME NEW n \in Nfts
        PROVE  NftOK(n, nft[n], mapping[n], put[n], taken[n], bpPrice, bpPosition, bpLogs')
    BY NftUntouched DEF Concerns, IsMint, IsBurn, IsFlow, IsIncrease, IsDecrease
  <2>. QED  BY <1>2, <2>1 DEF BpNftsOK
<1>5. BpLpOK'
  <2>1. ASSUME NEW x \in BpSafes PROVE LpOK(x, wallet'[x] + staked'[x], bpPosition, bpLogs')
    BY LpUntouched DEF LpHeld
  <2>. QED  BY <1>2, <2>1 DEF BpLpOK, LpHeld
<1>6. LpRight(bpPosition') BY <1>2 DEF BpInv
<1>. QED  BY <1>3, <1>4, <1>5, <1>6 DEF BpInv

LEMMA LpTransferTyped ==
    ASSUME BpTyped, NEW from \in BpAccounts, NEW to \in BpAccounts, NEW e,
           e = Bp!LpTransfer(from, to)
    PROVE  e \in BpEvents /\ e.event = "Transfer" /\ e.from = from /\ e.to = to
BY DEF BpTyped, BpChainTyped, Bp!LpTransfer, BpEvents

LEMMA AddLiquidityStep ==
    ASSUME BpAssumed, BpInv, NEW x \in BpSafes, NEW amount \in 1..MaxLp,
           Bp!AddLiquidityV2(x, amount)
    PROVE  BpInv'
<1>1. BpTyped /\ bpTx \in Nat BY DEF BpInv, BpTyped, BpChainTyped
<1>2. PICK a, b : /\ a = Bp!LpTransfer(BpZero, x)
                  /\ b = [event |-> "Mint", amount |-> amount, tx |-> bpTx]
  OBVIOUS
<1>3. a \in BpEvents /\ a.event = "Transfer" /\ a.from = BpZero /\ a.to = x
  <2>1. BpZero \in BpAccounts /\ x \in BpAccounts BY DEF BpAccounts
  <2>. QED  BY <1>1, <1>2, <2>1, LpTransferTyped
<1>4. amount \in Nat /\ amount \in Positives BY DEF BpAssumed, Positives
<1>5. b \in BpEvents /\ b.event = "Mint" BY <1>1, <1>2, <1>4 DEF BpEvents
<1>6. PICK es : es = <<a, b>> OBVIOUS
<1>7. es \in Seq(BpEvents) /\ Len(es) = 2 /\ es[1] = a /\ es[2] = b BY <1>3, <1>5, <1>6
<1>8. /\ Bp!Emits(es) /\ wallet' = [wallet EXCEPT ![x] = wallet[x] + amount]
      /\ staked' = staked /\ nft' = nft /\ put' = put /\ taken' = taken
  BY <1>2, <1>6 DEF Bp!AddLiquidityV2
<1>9. wallet \in [BpSafes -> Nat] /\ staked \in [BpSafes -> Nat] BY <1>1 DEF BpTyped, BpChainTyped
<1>10. wallet' \in [BpSafes -> Nat] /\ staked' \in [BpSafes -> Nat] BY <1>4, <1>8, <1>9
<1>11. \A j \in 1..Len(es) : es[j].event \in {"Transfer", "Mint", "Burn"} BY <1>7, <1>3, <1>5
<1>12. IsLpTransfer(es[1], x) /\ 1 \in 1..Len(es) BY <1>3, <1>7 DEF IsLpTransfer
<1>13. \A y \in BpSafes : \/ wallet'[y] = wallet[y] /\ staked'[y] = staked[y]
                          \/ \E j \in 1..Len(es) : IsLpTransfer(es[j], y)
  BY <1>8, <1>9, <1>12
<1>. QED  BY <1>7, <1>8, <1>10, <1>11, <1>13, LpChainStep

LEMMA RemoveLiquidityStep ==
    ASSUME BpAssumed, BpInv, NEW x \in BpSafes, NEW amount \in 1..MaxLp, NEW to \in {x, BpRouter},
           Bp!RemoveLiquidityV2(x, amount, to)
    PROVE  BpInv'
<1>1. BpTyped BY DEF BpInv
<1>2. PICK a, b, c :
         /\ a = Bp!LpTransfer(x, BpPool) /\ b = Bp!LpTransfer(BpPool, BpZero)
         /\ c = [event |-> "Burn", sender |-> BpRouter, to |-> to, amount |-> amount]
  OBVIOUS
<1>3. a \in BpEvents /\ a.event = "Transfer" /\ a.from = x
  BY <1>1, <1>2, LpTransferTyped DEF BpAccounts
<1>4. b \in BpEvents /\ b.event = "Transfer" BY <1>2, <1>1, LpTransferTyped DEF BpAccounts
<1>5. amount \in Nat /\ amount \in Positives BY DEF BpAssumed, Positives
<1>6. c \in BpEvents /\ c.event = "Burn" BY <1>2, <1>5 DEF BpEvents
<1>7. PICK es : es = <<a, b, c>> OBVIOUS
<1>8. es \in Seq(BpEvents) /\ Len(es) = 3 /\ es[1] = a /\ es[2] = b /\ es[3] = c
  BY <1>3, <1>4, <1>6, <1>7
<1>9. /\ Bp!Emits(es) /\ wallet' = [wallet EXCEPT ![x] = wallet[x] - amount]
      /\ wallet[x] >= amount
      /\ staked' = staked /\ nft' = nft /\ put' = put /\ taken' = taken
  BY <1>2, <1>7 DEF Bp!RemoveLiquidityV2
<1>10. wallet \in [BpSafes -> Nat] /\ staked \in [BpSafes -> Nat]
  BY <1>1 DEF BpTyped, BpChainTyped
<1>11. wallet' \in [BpSafes -> Nat] /\ staked' \in [BpSafes -> Nat] BY <1>5, <1>9, <1>10
<1>12. \A j \in 1..Len(es) : es[j].event \in {"Transfer", "Mint", "Burn"} BY <1>8, <1>3, <1>4, <1>6
<1>13. IsLpTransfer(es[1], x) /\ 1 \in 1..Len(es) BY <1>3, <1>8 DEF IsLpTransfer
<1>14. \A y \in BpSafes : \/ wallet'[y] = wallet[y] /\ staked'[y] = staked[y]
                          \/ \E j \in 1..Len(es) : IsLpTransfer(es[j], y)
  BY <1>9, <1>10, <1>13
<1>. QED  BY <1>8, <1>9, <1>11, <1>12, <1>14, LpChainStep

\* One transfer of LP tokens.
LEMMA LpMoves ==
    ASSUME BpInv, NEW x \in BpAccounts, NEW y \in BpAccounts, Bp!Emits(<<Bp!LpTransfer(x, y)>>),
           nft' = nft, put' = put, taken' = taken,
           wallet' \in [BpSafes -> Nat], staked' \in [BpSafes -> Nat],
           \A z \in BpSafes : z # x /\ z # y => wallet'[z] = wallet[z] /\ staked'[z] = staked[z]
    PROVE  BpInv'
<1>1. BpTyped BY DEF BpInv
<1>2. PICK a : a = Bp!LpTransfer(x, y) OBVIOUS
<1>3. a \in BpEvents /\ a.event = "Transfer" /\ a.from = x /\ a.to = y
  BY <1>1, <1>2, LpTransferTyped
<1>4. PICK es : es = <<a>> OBVIOUS
<1>5. es \in Seq(BpEvents) /\ Len(es) = 1 /\ es[1] = a BY <1>3, <1>4
<1>6. Bp!Emits(es) BY <1>2, <1>4
<1>7. \A j \in 1..Len(es) : es[j].event \in {"Transfer", "Mint", "Burn"} BY <1>5, <1>3
<1>8. 1 \in 1..Len(es) /\ IsLpTransfer(es[1], x) /\ IsLpTransfer(es[1], y)
  BY <1>3, <1>5 DEF IsLpTransfer
<1>9. \A z \in BpSafes : \/ wallet'[z] = wallet[z] /\ staked'[z] = staked[z]
                         \/ \E j \in 1..Len(es) : IsLpTransfer(es[j], z)
  BY <1>8
<1>. QED  BY <1>5, <1>6, <1>7, <1>9, LpChainStep

LEMMA SendLpStep ==
    ASSUME BpAssumed, BpInv, NEW x \in BpAccounts, NEW y \in BpAccounts, NEW amount \in 1..MaxLp,
           Bp!SendLp(x, y, amount)
    PROVE  BpInv'
<1>1. /\ Bp!Emits(<<Bp!LpTransfer(x, y)>>) /\ x # y /\ (x \in BpSafes => wallet[x] >= amount)
      /\ wallet' = [z \in BpSafes |-> IF z = x THEN wallet[z] - amount
                                      ELSE IF z = y THEN wallet[z] + amount ELSE wallet[z]]
      /\ staked' = staked /\ nft' = nft /\ put' = put /\ taken' = taken
  BY DEF Bp!SendLp
<1>2. wallet \in [BpSafes -> Nat] /\ staked \in [BpSafes -> Nat]
  BY DEF BpInv, BpTyped, BpChainTyped
<1>3. amount \in Nat BY DEF BpAssumed
<1>4. wallet' \in [BpSafes -> Nat]
  <2>1. ASSUME NEW z \in BpSafes PROVE wallet'[z] \in Nat BY <1>1, <1>2, <1>3
  <2>2. wallet' = [z \in BpSafes |-> wallet'[z]] BY <1>1
  <2>. QED  BY <2>1, <2>2
<1>. QED  BY <1>1, <1>2, <1>4, LpMoves

LEMMA StakeStep ==
    ASSUME BpAssumed, BpInv, NEW x \in BpSafes, Bp!StakeLp(x) \/ Bp!UnstakeLp(x)
    PROVE  BpInv'
<1>1. wallet \in [BpSafes -> Nat] /\ staked \in [BpSafes -> Nat]
  BY DEF BpInv, BpTyped, BpChainTyped
<1>2. x \in BpAccounts /\ BpGauge \in BpAccounts BY DEF BpAccounts
<1>3. wallet[x] + staked[x] \in Nat /\ staked[x] + wallet[x] \in Nat BY <1>1
<1>4. CASE Bp!StakeLp(x) BY <1>4, <1>1, <1>3, <1>2, LpMoves DEF Bp!StakeLp
<1>5. CASE Bp!UnstakeLp(x) BY <1>5, <1>1, <1>3, <1>2, LpMoves DEF Bp!UnstakeLp
<1>. QED  BY <1>4, <1>5

\* Something happens to an NFT.
LEMMA NftChainStep ==
    ASSUME BpInv, NEW es \in Seq(BpEvents), Bp!Emits(es), NEW n \in Nfts, NEW s \in BpNft,
           NEW in \in Nat, NEW out \in Nat,
           wallet' = wallet, staked' = staked, nft' = [nft EXCEPT ![n] = s],
           put' = [put EXCEPT ![n] = in], taken' = [taken EXCEPT ![n] = out],
           \A o \in Nfts \ {n} : \A j \in 1..Len(es) : ~Concerns(es[j], o),
           NftOK(n, s, mapping[n], in, out, bpPrice, bpPosition, bpLogs')
    PROVE  BpInv'
<1>1. BpTyped BY DEF BpInv
<1>2. /\ bpPrice' = bpPrice /\ bpTx' \in Nat /\ bpPosition' = bpPosition /\ mapping' = mapping
      /\ bpLogs' \in Seq(BpEvents)
  BY <1>1, EmitsFacts
<1>3. nft \in [Nfts -> BpNft] /\ put \in [Nfts -> Nat] /\ taken \in [Nfts -> Nat]
  BY <1>1 DEF BpTyped, BpChainTyped
<1>4. BpTyped' BY <1>1, <1>2, <1>3 DEF BpTyped, BpChainTyped
<1>5. BpNftsOK'
  <2>1. ASSUME NEW o \in Nfts
        PROVE  NftOK(o, nft'[o], mapping[o], put'[o], taken'[o], bpPrice, bpPosition, bpLogs')
    <3>1. CASE o = n BY <1>3, <3>1
    <3>2. CASE o # n BY <1>3, <3>2, NftUntouched
    <3>. QED  BY <3>1, <3>2
  <2>. QED  BY <1>2, <2>1 DEF BpNftsOK
<1>6. BpLpOK'
  <2>1. ASSUME NEW x \in BpSafes PROVE LpOK(x, LpHeld(x), bpPosition, bpLogs')
    BY LpUntouched
  <2>. QED  BY <1>2, <2>1 DEF BpLpOK, LpHeld
<1>7. LpRight(bpPosition') BY <1>2 DEF BpInv
<1>. QED  BY <1>4, <1>5, <1>6, <1>7 DEF BpInv

LEMMA MintNftStep ==
    ASSUME BpAssumed, BpInv, NEW x \in BpSafes, NEW n \in Nfts, NEW amount \in 1..MaxLiquidity,
           Bp!MintNft(x, n, amount)
    PROVE  BpInv'
<1>1. BpTyped BY DEF BpInv
<1>2. PICK a, b : /\ a = Bp!NftTransfer(BpZero, x, n)
                  /\ b = [event |-> "Increase", id |-> n, amount |-> amount]
  OBVIOUS
<1>3. a = [event |-> "NftTransfer", from |-> BpZero, to |-> x, id |-> n]
  BY <1>2 DEF Bp!NftTransfer
<1>4. /\ a \in BpEvents /\ a.event = "NftTransfer" /\ a.from = BpZero /\ a.to = x /\ a.id = n
  BY <1>3 DEF BpEvents, BpAccounts
<1>5. amount \in Nat /\ amount \in Positives BY DEF BpAssumed, Positives
<1>6. b \in BpEvents /\ b.event = "Increase" /\ b.id = n /\ b.amount = amount
  BY <1>2, <1>5 DEF BpEvents
<1>7. PICK es : es = <<a, b>> OBVIOUS
<1>8. es \in Seq(BpEvents) /\ Len(es) = 2 /\ es[1] = a /\ es[2] = b BY <1>4, <1>6, <1>7
<1>9. PICK s, in : /\ s = [state |-> "live", home |-> x, owner |-> x, liquidity |-> amount]
                   /\ in = amount * bpPrice
  OBVIOUS
<1>10. /\ Bp!Emits(es) /\ nft[n].state = "unborn" /\ nft' = [nft EXCEPT ![n] = s]
       /\ put' = [put EXCEPT ![n] = in]
       /\ wallet' = wallet /\ staked' = staked /\ taken' = taken
  BY <1>2, <1>7, <1>9 DEF Bp!MintNft
<1>11. /\ bpPrice \in Nat /\ taken \in [Nfts -> Nat] /\ bpLogs \in Seq(BpEvents)
  BY <1>1 DEF BpTyped, BpChainTyped, Positives
<1>12. in \in Nat BY <1>5, <1>9, <1>11
<1>13. taken' = [taken EXCEPT ![n] = taken[n]] BY <1>10, <1>11
<1>14. /\ s \in BpNft /\ s.state = "live" /\ s.home = x /\ s.owner = x /\ s.liquidity = amount
  BY <1>5, <1>9 DEF BpNft, BpAccounts
<1>15. ASSUME NEW o \in Nfts \ {n} PROVE \A j \in 1..Len(es) : ~Concerns(es[j], o)
  BY <1>8, <1>4, <1>6 DEF Concerns, IsMint, IsBurn, IsFlow, IsIncrease, IsDecrease
<1>16. NftOK(n, s, mapping[n], in, taken[n], bpPrice, bpPosition, bpLogs')
  <2>1. /\ bpLogs' \in Seq(BpEvents) /\ Extends(bpLogs, bpLogs') /\ Len(bpLogs') = Len(bpLogs) + 2
        /\ \A j \in 1..Len(es) : bpLogs'[Len(bpLogs) + j] = es[j]
    BY <1>1, <1>8, <1>10, EmitsFacts
  <2>2. PICK h : h = Append(bpLogs, a) OBVIOUS
  <2>3. /\ Len(bpLogs) \in Nat /\ Len(h) = Len(bpLogs) + 1 /\ h[Len(h)] = a
        /\ \A i \in 1..Len(bpLogs) : h[i] = bpLogs[i]
    BY <1>4, <1>11, <2>2
  <2>4. bpLogs'[Len(bpLogs) + 1] = a /\ bpLogs'[Len(bpLogs) + 2] = b BY <1>8, <2>1
  <2>5. Extends(bpLogs, h) BY <2>3 DEF Extends
  <2>6. Extends(h, bpLogs')
    <3>1. ASSUME NEW i \in 1..Len(h) PROVE bpLogs'[i] = h[i] BY <2>3, <2>1, <2>4 DEF Extends
    <3>2. Len(h) \in Nat /\ Len(bpLogs') \in Nat /\ Len(h) <= Len(bpLogs') BY <2>1, <2>3
    <3>. QED  BY <3>1, <3>2 DEF Extends
  <2>7. Len(bpLogs') = Len(h) + 1 /\ bpLogs'[Len(bpLogs')] = b BY <2>1, <2>3, <2>4
  <2>8. IsMint(h[Len(h)], n) /\ IsIncrease(bpLogs'[Len(bpLogs')], n)
    BY <1>4, <1>6, <2>3, <2>7 DEF IsMint, IsIncrease
  <2>9. NftOK(n, nft[n], mapping[n], put[n], taken[n], bpPrice, bpPosition, bpLogs)
    BY DEF BpInv, BpNftsOK
  <2>10. bpLogs'[Len(bpLogs')].amount \in Nat \ {0} /\ s.liquidity = bpLogs'[Len(bpLogs')].amount
    BY <1>5, <1>6, <1>14, <2>7 DEF Positives
  <2>11. h[Len(h)].to = s.home BY <1>4, <1>14, <2>3
  <2>12. PICK k, l, r : k = bpLogs' /\ l = bpLogs /\ r = nft[n] OBVIOUS
  <2>13. NftOK(n, s, mapping[n], s.liquidity * bpPrice, taken[n], bpPrice, bpPosition, k)
    <3>1. bpPrice \in Int BY <1>11
    <3>. QED  BY <1>10, <1>14, <2>3, <2>5, <2>6, <2>7, <2>8, <2>9, <2>10, <2>11, <2>12, <3>1,
                 MintAppended
  <2>. QED  BY <1>9, <1>14, <2>12, <2>13
<1>. QED  BY <1>8, <1>10, <1>11, <1>12, <1>13, <1>14, <1>15, <1>16, NftChainStep

LEMMA IncreaseNftStep ==
    ASSUME BpAssumed, BpInv, NEW n \in Nfts, NEW amount \in 1..MaxLiquidity,
           Bp!IncreaseNft(n, amount)
    PROVE  BpInv'
<1>1. BpTyped BY DEF BpInv
<1>2. /\ nft \in [Nfts -> BpNft] /\ put \in [Nfts -> Nat] /\ taken \in [Nfts -> Nat]
      /\ bpPrice \in Nat /\ bpLogs \in Seq(BpEvents)
  BY <1>1 DEF BpTyped, BpChainTyped, Positives
<1>3. PICK e : e = [event |-> "Increase", id |-> n, amount |-> amount] OBVIOUS
<1>4. amount \in Nat /\ amount > 0 /\ amount \in Positives BY DEF BpAssumed, Positives
<1>5. e \in BpEvents /\ e.event = "Increase" /\ e.id = n /\ e.amount = amount
  BY <1>3, <1>4 DEF BpEvents
<1>6. PICK es : es = <<e>> OBVIOUS
<1>7. es \in Seq(BpEvents) /\ Len(es) = 1 /\ es[1] = e BY <1>5, <1>6
<1>8. PICK r, in : r = nft[n] /\ in = put[n] OBVIOUS
<1>9. r \in BpNft /\ r.liquidity \in Nat /\ in \in Nat BY <1>2, <1>8 DEF BpNft
<1>10. PICK liquidity, added : liquidity = r.liquidity + amount /\ added = amount * bpPrice OBVIOUS
<1>11. liquidity \in Nat /\ liquidity > 0 /\ added \in Nat /\ in + added \in Nat
  <2>1. liquidity \in Nat /\ liquidity > 0 BY ONLY <1>4, <1>9, <1>10
  <2>2. bpPrice \in Nat BY <1>2
  <2>3. added \in Nat BY ONLY <1>4, <1>10, <2>2
  <2>4. in + added \in Nat BY ONLY <1>9, <2>3
  <2>. QED  BY <2>1, <2>3, <2>4
<1>12. PICK s : s = [r EXCEPT !.liquidity = liquidity] OBVIOUS
<1>13. /\ s \in BpNft /\ s.state = r.state /\ s.home = r.home /\ s.owner = r.owner
       /\ s.liquidity = liquidity
  BY <1>9, <1>11, <1>12 DEF BpNft
<1>14. /\ Bp!Emits(es) /\ r.state = "live"
       /\ nft' = [nft EXCEPT ![n].liquidity = nft[n].liquidity + amount]
       /\ put' = [put EXCEPT ![n] = put[n] + amount * bpPrice]
       /\ wallet' = wallet /\ staked' = staked /\ taken' = taken
  BY <1>3, <1>6, <1>8 DEF Bp!IncreaseNft, Bp!Live
<1>15. /\ nft' = [nft EXCEPT ![n] = s] /\ put' = [put EXCEPT ![n] = in + added]
       /\ taken' = [taken EXCEPT ![n] = taken[n]]
  BY <1>2, <1>8, <1>10, <1>12, <1>14
<1>16. \A j \in 1..Len(es) : j = 1 BY <1>7
<1>17. \A o \in Nfts \ {n} : \A j \in 1..Len(es) : ~Concerns(es[j], o)
  BY <1>5, <1>7, <1>16 DEF Concerns, IsMint, IsBurn, IsFlow, IsIncrease, IsDecrease
<1>18. NftOK(n, s, mapping[n], in + added, taken[n], bpPrice, bpPosition, bpLogs')
  <2>1. PICK k, l : k = bpLogs' /\ l = bpLogs OBVIOUS
  <2>2. /\ Extends(l, k) /\ Len(k) = Len(l) + 1 /\ k[Len(k)] = e
    BY <1>7, <1>1, <1>14, <2>1, EmitsFacts
  <2>3. NftOK(n, r, mapping[n], in, taken[n], bpPrice, bpPosition, l)
    BY <1>8, <2>1 DEF BpInv, BpNftsOK
  <2>4. IsIncrease(k[Len(k)], n) /\ IsFlow(k[Len(k)], n) /\ ~IsDecrease(k[Len(k)], n)
    BY <1>5, <2>2 DEF IsIncrease, IsDecrease, IsFlow
  <2>5. PutBy(k[Len(k)], n, bpPrice) = added BY <1>5, <1>10, <2>2, <2>4 DEF PutBy
  <2>6. k[Len(k)].amount \in Nat \ {0} BY <1>4, <1>5, <2>2
  <2>7. s.state = "live" /\ s.liquidity \in Nat /\ s.liquidity > 0 /\ bpPrice \in Int /\ in \in Int
    BY <1>2, <1>9, <1>11, <1>13, <1>14
  <2>8. NftOK(n, s, mapping[n], in + PutBy(k[Len(k)], n, bpPrice),
              IF IsDecrease(k[Len(k)], n) THEN k[Len(k)].amount * bpPrice ELSE taken[n],
              bpPrice, bpPosition, k)
    BY <1>13, <1>14, <2>2, <2>3, <2>4, <2>6, <2>7, FlowAppended
  <2>. QED  BY <2>1, <2>4, <2>5, <2>8
<1>19. Bp!Emits(es) /\ wallet' = wallet /\ staked' = staked BY <1>14
<1>20. PICK total, out : total = in + added /\ out = taken[n] OBVIOUS
<1>21. /\ total \in Nat /\ out \in Nat /\ put' = [put EXCEPT ![n] = total]
       /\ taken' = [taken EXCEPT ![n] = out] /\ nft' = [nft EXCEPT ![n] = s]
       /\ NftOK(n, s, mapping[n], total, out, bpPrice, bpPosition, bpLogs')
  BY <1>2, <1>11, <1>15, <1>18, <1>20
<1>. QED  BY <1>7, <1>13, <1>17, <1>19, <1>21, NftChainStep

LEMMA DecreaseNftStep ==
    ASSUME BpAssumed, BpInv, NEW n \in Nfts, NEW amount \in 1..MaxLiquidity,
           Bp!DecreaseNft(n, amount)
    PROVE  BpInv'
<1>1. BpTyped BY DEF BpInv
<1>2. /\ nft \in [Nfts -> BpNft] /\ put \in [Nfts -> Nat] /\ taken \in [Nfts -> Nat]
      /\ bpPrice \in Nat /\ bpLogs \in Seq(BpEvents)
  BY <1>1 DEF BpTyped, BpChainTyped, Positives
<1>3. PICK e, c : /\ e = [event |-> "Decrease", id |-> n, amount |-> amount]
                  /\ c = [event |-> "Collect", id |-> n]
  OBVIOUS
<1>4. amount \in Nat /\ amount > 0 /\ amount \in Positives BY DEF BpAssumed, Positives
<1>5. /\ e \in BpEvents /\ e.event = "Decrease" /\ e.id = n /\ e.amount = amount
      /\ c \in BpEvents /\ c.event = "Collect"
  BY <1>3, <1>4 DEF BpEvents
<1>6. PICK es : es = <<e, c>> OBVIOUS
<1>7. es \in Seq(BpEvents) /\ Len(es) = 2 /\ es[1] = e /\ es[2] = c BY <1>5, <1>6
<1>8. PICK r, in : r = nft[n] /\ in = put[n] OBVIOUS
<1>9. r \in BpNft /\ r.liquidity \in Nat /\ in \in Nat BY <1>2, <1>8 DEF BpNft
<1>10. PICK liquidity, got : liquidity = r.liquidity - amount /\ got = amount * bpPrice OBVIOUS
<1>11. /\ Bp!Emits(es) /\ r.state = "live" /\ r.liquidity >= amount
       /\ nft' = [nft EXCEPT ![n].liquidity = nft[n].liquidity - amount]
       /\ taken' = [taken EXCEPT ![n] = amount * bpPrice]
       /\ wallet' = wallet /\ staked' = staked /\ put' = put
  BY <1>3, <1>6, <1>8 DEF Bp!DecreaseNft, Bp!Live
<1>12. liquidity \in Nat /\ got \in Nat BY <1>2, <1>4, <1>9, <1>10, <1>11
<1>13. PICK s : s = [r EXCEPT !.liquidity = liquidity] OBVIOUS
<1>14. /\ s \in BpNft /\ s.state = r.state /\ s.home = r.home /\ s.owner = r.owner
       /\ s.liquidity = liquidity
  BY <1>9, <1>12, <1>13 DEF BpNft
<1>15. /\ nft' = [nft EXCEPT ![n] = s] /\ put' = [put EXCEPT ![n] = in]
       /\ taken' = [taken EXCEPT ![n] = got]
  BY <1>2, <1>8, <1>10, <1>11, <1>13
<1>16. \A j \in 1..Len(es) : j = 1 \/ j = 2 BY <1>7
<1>17. \A o \in Nfts \ {n} : \A j \in 1..Len(es) : ~Concerns(es[j], o)
  BY <1>5, <1>7, <1>16 DEF Concerns, IsMint, IsBurn, IsFlow, IsIncrease, IsDecrease
<1>18. NftOK(n, s, mapping[n], in, got, bpPrice, bpPosition, bpLogs')
  <2>1. PICK k, l, h : k = bpLogs' /\ l = bpLogs /\ h = Append(bpLogs, e) OBVIOUS
  <2>2. /\ Extends(l, k) /\ Len(k) = Len(l) + 2 /\ Len(l) \in Nat
        /\ k[Len(l) + 1] = e /\ k[Len(l) + 2] = c
    <3>1. 1 \in 1..Len(es) /\ 2 \in 1..Len(es) BY <1>7
    <3>2. /\ Extends(bpLogs, bpLogs') /\ Len(bpLogs') = Len(bpLogs) + Len(es)
          /\ \A j \in 1..Len(es) : bpLogs'[Len(bpLogs) + j] = es[j]
      BY <1>1, <1>7, <1>11, EmitsFacts
    <3>3. /\ Extends(l, k) /\ Len(k) = Len(l) + 2 /\ \A j \in 1..Len(es) : k[Len(l) + j] = es[j]
      BY <1>7, <2>1, <3>2
    <3>. QED  BY <1>7, <3>1, <3>3 DEF Extends
  <2>3. /\ Len(h) = Len(l) + 1 /\ h[Len(h)] = e /\ \A i \in 1..Len(l) : h[i] = l[i]
    BY <1>2, <1>5, <2>1
  <2>4. Extends(l, h) BY <2>2, <2>3 DEF Extends
  <2>5. Extends(h, k)
    <3>1. ASSUME NEW i \in 1..Len(h) PROVE k[i] = h[i] BY <2>2, <2>3 DEF Extends
    <3>2. Len(h) \in Nat /\ Len(k) \in Nat /\ Len(h) <= Len(k) BY <2>2, <2>3
    <3>. QED  BY <3>1, <3>2 DEF Extends
  <2>6. NftOK(n, r, mapping[n], in, taken[n], bpPrice, bpPosition, l)
    BY <1>8, <2>1 DEF BpInv, BpNftsOK
  <2>7. IsDecrease(h[Len(h)], n) /\ IsFlow(h[Len(h)], n) /\ ~IsIncrease(h[Len(h)], n)
    BY <1>5, <2>3 DEF IsIncrease, IsDecrease, IsFlow
  <2>8. PutBy(h[Len(h)], n, bpPrice) = 0 BY <2>7 DEF PutBy
  <2>9. h[Len(h)].amount \in Nat \ {0} BY <1>4, <1>5, <2>3
  <2>10. s.state = "live" /\ s.liquidity \in Nat /\ bpPrice \in Int /\ in \in Int
    BY <1>2, <1>9, <1>11, <1>12, <1>14
  <2>11. NftOK(n, s, mapping[n], in + PutBy(h[Len(h)], n, bpPrice),
               IF IsDecrease(h[Len(h)], n) THEN h[Len(h)].amount * bpPrice ELSE taken[n],
               bpPrice, bpPosition, h)
    BY <1>11, <1>14, <2>3, <2>4, <2>6, <2>7, <2>9, <2>10, FlowAppended
  <2>12. /\ in + PutBy(h[Len(h)], n, bpPrice) = in
         /\ (IF IsDecrease(h[Len(h)], n) THEN h[Len(h)].amount * bpPrice ELSE taken[n]) = got
    BY <1>5, <1>9, <1>10, <2>3, <2>7, <2>8
  <2>13. NftOK(n, s, mapping[n], in, got, bpPrice, bpPosition, h) BY ONLY <2>11, <2>12
  <2>14. \A i \in After(h, k) : ~Concerns(k[i], n)
    BY <2>2, <2>3, <1>5 DEF After, Concerns, IsMint, IsBurn, IsFlow, IsIncrease, IsDecrease
  <2>15. NftOK(n, s, mapping[n], in, got, bpPrice, bpPosition, k)
    BY <2>5, <2>13, <2>14, OtherAppended
  <2>. QED  BY <2>1, <2>15
<1>19. Bp!Emits(es) /\ wallet' = wallet /\ staked' = staked BY <1>11
<1>. QED  BY <1>7, <1>9, <1>12, <1>14, <1>15, <1>17, <1>18, <1>19, NftChainStep

\* The owners of an NFT.
LEMMA OwnersKnown ==
    ASSUME BpAssumed, BpInv, NEW n \in Nfts, nft[n].state = "live"
    PROVE  /\ nft[n].home \in BpSafes /\ nft[n].owner \in {nft[n].home, BpGauge, BpOutsider}
           /\ BpZero \notin {nft[n].home, BpGauge, BpOutsider}
BY DEF BpInv, BpNftsOK, NftOK, BornOK, BpAssumed

LEMMA NftTransferTyped ==
    ASSUME NEW from \in BpAccounts, NEW to \in BpAccounts, NEW n \in Nfts, NEW e, NEW es,
           e = Bp!NftTransfer(from, to, n), es = <<e>>
    PROVE  /\ e \in BpEvents /\ e.event = "NftTransfer" /\ e.from = from /\ e.to = to /\ e.id = n
           /\ es \in Seq(BpEvents) /\ Len(es) = 1 /\ es[1] = e
           /\ \A o \in Nfts \ {n} : \A j \in 1..Len(es) : ~Concerns(es[j], o)
<1>1. e = [event |-> "NftTransfer", from |-> from, to |-> to, id |-> n] BY DEF Bp!NftTransfer
<1>2. /\ e \in BpEvents /\ e.event = "NftTransfer" /\ e.from = from /\ e.to = to /\ e.id = n
  BY <1>1 DEF BpEvents
<1>3. es \in Seq(BpEvents) /\ Len(es) = 1 /\ es[1] = e BY <1>2
<1>4. \A j \in 1..Len(es) : j = 1 BY <1>3
<1>5. \A o \in Nfts \ {n} : ~Concerns(e, o)
  BY <1>2 DEF Concerns, IsMint, IsBurn, IsFlow, IsIncrease, IsDecrease
<1>. QED  BY <1>2, <1>3, <1>4, <1>5

LEMMA BurnNftStep ==
    ASSUME BpAssumed, BpInv, NEW n \in Nfts, Bp!BurnNft(n)
    PROVE  BpInv'
<1>1. BpTyped BY DEF BpInv
<1>2. /\ nft \in [Nfts -> BpNft] /\ put \in [Nfts -> Nat] /\ taken \in [Nfts -> Nat]
  BY <1>1 DEF BpTyped, BpChainTyped
<1>3. PICK r : r = nft[n] OBVIOUS
<1>4. PICK e : e = Bp!NftTransfer(r.owner, BpZero, n) OBVIOUS
<1>5. PICK es : es = <<e>> OBVIOUS
<1>6. r \in BpNft /\ r.owner \in BpAccounts BY <1>2, <1>3 DEF BpNft
<1>7. /\ e \in BpEvents /\ e.event = "NftTransfer" /\ e.from = r.owner /\ e.to = BpZero
      /\ e.id = n /\ es \in Seq(BpEvents) /\ Len(es) = 1 /\ es[1] = e
      /\ \A o \in Nfts \ {n} : \A j \in 1..Len(es) : ~Concerns(es[j], o)
  <2>1. BpZero \in BpAccounts BY DEF BpAccounts
  <2>. QED  BY <1>4, <1>5, <1>6, <2>1, NftTransferTyped
<1>8. PICK s : s = [r EXCEPT !.state = "burned"] OBVIOUS
<1>9. /\ Bp!Emits(es) /\ r.state = "live" /\ r.owner # BpGauge /\ r.liquidity = 0
      /\ nft' = [nft EXCEPT ![n].state = "burned"]
      /\ wallet' = wallet /\ staked' = staked /\ put' = put /\ taken' = taken
  BY <1>3, <1>4, <1>5 DEF Bp!BurnNft, Bp!Live
<1>10. /\ s \in BpNft /\ s.state = "burned" /\ s.home = r.home /\ s.owner = r.owner
       /\ s.liquidity = 0
  BY <1>6, <1>8, <1>9 DEF BpNft
<1>11. /\ nft' = [nft EXCEPT ![n] = s] /\ put' = [put EXCEPT ![n] = put[n]]
       /\ taken' = [taken EXCEPT ![n] = taken[n]]
  BY <1>2, <1>3, <1>8, <1>9
<1>12. NftOK(n, s, mapping[n], put[n], taken[n], bpPrice, bpPosition, bpLogs')
  <2>1. PICK k, l : k = bpLogs' /\ l = bpLogs OBVIOUS
  <2>2. /\ Extends(l, k) /\ Len(k) = Len(l) + 1 /\ k[Len(k)] = e
    BY <1>7, <1>1, <1>9, <2>1, EmitsFacts
  <2>3. NftOK(n, r, mapping[n], put[n], taken[n], bpPrice, bpPosition, l)
    BY <1>3, <2>1 DEF BpInv, BpNftsOK
  <2>4. r.owner # BpZero BY <1>3, <1>9, OwnersKnown
  <2>5. IsBurn(k[Len(k)], n) /\ k[Len(k)].from = r.owner BY <1>7, <2>2, <2>4 DEF IsBurn
  <2>6. NftOK(n, s, mapping[n], put[n], taken[n], bpPrice, bpPosition, k)
    BY <1>9, <1>10, <2>2, <2>3, <2>5, BurnAppended
  <2>. QED  BY <2>1, <2>6
<1>20. Bp!Emits(es) /\ wallet' = wallet /\ staked' = staked BY <1>9
<1>21. PICK in, out : in = put[n] /\ out = taken[n] OBVIOUS
<1>22. /\ in \in Nat /\ out \in Nat /\ put' = [put EXCEPT ![n] = in]
       /\ taken' = [taken EXCEPT ![n] = out] /\ nft' = [nft EXCEPT ![n] = s]
       /\ NftOK(n, s, mapping[n], in, out, bpPrice, bpPosition, bpLogs')
  BY <1>2, <1>11, <1>12, <1>21
<1>. QED  BY <1>7, <1>10, <1>20, <1>22, NftChainStep

LEMMA MoveNftStep ==
    ASSUME BpAssumed, BpInv, NEW n \in Nfts, NEW to \in BpSafes \cup {BpGauge, BpOutsider},
           Bp!MoveNft(n, to)
    PROVE  BpInv'
<1>1. BpTyped BY DEF BpInv
<1>2. /\ nft \in [Nfts -> BpNft] /\ put \in [Nfts -> Nat] /\ taken \in [Nfts -> Nat]
  BY <1>1 DEF BpTyped, BpChainTyped
<1>3. PICK r : r = nft[n] OBVIOUS
<1>4. PICK e : e = Bp!NftTransfer(r.owner, to, n) OBVIOUS
<1>5. PICK es : es = <<e>> OBVIOUS
<1>6. r \in BpNft /\ r.owner \in BpAccounts /\ to \in BpAccounts
  BY <1>2, <1>3 DEF BpNft, BpAccounts
<1>7. /\ e \in BpEvents /\ e.event = "NftTransfer" /\ e.from = r.owner /\ e.to = to
      /\ e.id = n /\ es \in Seq(BpEvents) /\ Len(es) = 1 /\ es[1] = e
      /\ \A o \in Nfts \ {n} : \A j \in 1..Len(es) : ~Concerns(es[j], o)
  BY <1>4, <1>5, <1>6, NftTransferTyped
<1>8. PICK s : s = [r EXCEPT !.owner = to] OBVIOUS
<1>9. /\ Bp!Emits(es) /\ r.state = "live"
      /\ \/ r.owner = BpGauge /\ to = r.home
         \/ r.owner \in BpSafes /\ to \in {BpGauge, BpOutsider}
      /\ nft' = [nft EXCEPT ![n].owner = to]
      /\ wallet' = wallet /\ staked' = staked /\ put' = put /\ taken' = taken
  BY <1>3, <1>4, <1>5 DEF Bp!MoveNft, Bp!Live
<1>10. /\ s \in BpNft /\ s.state = r.state /\ s.home = r.home /\ s.owner = to
       /\ s.liquidity = r.liquidity
  BY <1>6, <1>8 DEF BpNft
<1>11. /\ nft' = [nft EXCEPT ![n] = s] /\ put' = [put EXCEPT ![n] = put[n]]
       /\ taken' = [taken EXCEPT ![n] = taken[n]]
  BY <1>2, <1>3, <1>8, <1>9
<1>12. /\ s.owner \in {r.home, BpGauge, BpOutsider} /\ r.owner # BpZero /\ to # BpZero
  BY <1>3, <1>9, <1>10, OwnersKnown
<1>13. \A j \in 1..Len(es) : ~Concerns(es[j], n)
  BY <1>7, <1>12 DEF Concerns, IsMint, IsBurn, IsFlow, IsIncrease, IsDecrease
<1>14. NftOK(n, s, mapping[n], put[n], taken[n], bpPrice, bpPosition, bpLogs')
  BY <1>3, <1>7, <1>9, <1>10, <1>12, <1>13, NftUntouched
<1>20. Bp!Emits(es) /\ wallet' = wallet /\ staked' = staked BY <1>9
<1>21. PICK in, out : in = put[n] /\ out = taken[n] OBVIOUS
<1>22. /\ in \in Nat /\ out \in Nat /\ put' = [put EXCEPT ![n] = in]
       /\ taken' = [taken EXCEPT ![n] = out] /\ nft' = [nft EXCEPT ![n] = s]
       /\ NftOK(n, s, mapping[n], in, out, bpPrice, bpPosition, bpLogs')
  BY <1>2, <1>11, <1>14, <1>21
<1>. QED  BY <1>7, <1>10, <1>20, <1>22, NftChainStep

LEMMA BpCloseBlockStep == ASSUME BpInv, Bp!CloseBlock PROVE BpInv'
BY DEF BpInv, Bp!CloseBlock, Bp!store, BpTyped, BpChainTyped, BpNftsOK, BpLpOK, LpHeld

LEMMA BpNextBlockStep == ASSUME BpAssumed, BpInv, Bp!NextBlock PROVE BpInv'
<1>1. /\ bpLogs = <<>> /\ bpLogs' = bpLogs /\ mapping' = mapping /\ bpPrice' \in BpPrices
      /\ bpTx' = bpTx /\ wallet' = wallet /\ staked' = staked /\ nft' = nft /\ put' = put
      /\ taken' = taken /\ bpPosition' = bpPosition
  BY DEF Bp!NextBlock, Bp!store
<1>2. BpTyped' BY <1>1 DEF BpInv, BpTyped, BpChainTyped, BpAssumed
<1>3. BpNftsOK'
  <2>1. ASSUME NEW n \in Nfts
        PROVE  NftOK(n, nft[n], mapping[n], put[n], taken[n], bpPrice', bpPosition, bpLogs)
    BY <1>1, PollHandled DEF BpInv, BpNftsOK
  <2>. QED  BY <1>1, <2>1 DEF BpNftsOK
<1>4. BpLpOK' BY <1>1 DEF BpInv, BpLpOK, LpHeld
<1>. QED  BY <1>1, <1>2, <1>3, <1>4 DEF BpInv

-----------------------------------------------------------------------------
(* The theorem. *)

LEMMA BpAssumptionMeans == Bp!PositionsAssumption => BpAssumed
BY DEF Bp!PositionsAssumption, BpAssumed, Positives

LEMMA BpStarts == ASSUME BpAssumed, Bp!Init PROVE BpInv
<1>1. /\ bpPrice \in BpPrices /\ bpLogs = <<>> /\ bpTx = 0
      /\ wallet = [x \in BpSafes |-> 0] /\ staked = [x \in BpSafes |-> 0]
      /\ nft = [n \in Nfts |-> [state |-> "unborn", home |-> BpZero, owner |-> BpZero,
                                liquidity |-> 0]]
      /\ put = [n \in Nfts |-> 0] /\ taken = [n \in Nfts |-> 0]
      /\ bpPosition = Bp!NoRows /\ mapping = [n \in Nfts |-> BpZero]
  BY DEF Bp!Init
<1>2. DOMAIN bpPosition = {} /\ bpPosition = [key \in DOMAIN bpPosition |-> bpPosition[key]]
  BY <1>1 DEF Bp!NoRows
<1>3. \A n \in Nfts : nft[n] \in BpNft /\ nft[n].state = "unborn" BY <1>1 DEF BpNft, BpAccounts
<1>4. BpChainTyped BY <1>1, <1>3 DEF BpChainTyped, BpAssumed
<1>5. BpTyped BY <1>2, <1>1, <1>4 DEF RowsTyped, PartialFn, BpTyped
<1>6. BpNftsOK
  <2>1. ASSUME NEW n \in Nfts
        PROVE  NftOK(n, nft[n], mapping[n], put[n], taken[n], bpPrice, bpPosition, bpLogs)
    <3>1. nft[n].state = "unborn" /\ mapping[n] = BpZero BY <1>1, <1>3
    <3>2. \A i \in 1..Len(bpLogs) : FALSE BY <1>1
    <3>3. BornOK(n, nft[n], mapping[n], bpPosition, bpLogs) BY <1>2, <3>1, <3>2 DEF BornOK
    <3>. QED  BY <3>1, <3>3 DEF NftOK, MadeOK, EntryOK, ExitOK, GoneOK, ShowsOK, ClosedOK
  <2>. QED  BY <2>1 DEF BpNftsOK
<1>7. BpLpOK BY <1>1, <1>2 DEF BpLpOK, LpOK, LpShown, LpHeld
<1>8. LpRight(bpPosition) BY <1>2 DEF LpRight
<1>. QED  BY <1>5, <1>6, <1>7, <1>8 DEF BpInv

LEMMA BpChainStep == ASSUME BpAssumed, BpInv, Bp!Chain PROVE BpInv'
<1>1. BpSafes \subseteq BpAccounts /\ BpOutsider \in BpAccounts BY DEF BpAccounts
<1>2. CASE Bp!CloseBlock BY <1>2, BpCloseBlockStep
<1>3. CASE Bp!NextBlock BY <1>3, BpNextBlockStep
<1>4. CASE \E x \in BpSafes : Bp!StakeLp(x) \/ Bp!UnstakeLp(x) BY <1>4, StakeStep
<1>5. CASE \E x \in BpSafes, amount \in 1..MaxLp : Bp!AddLiquidityV2(x, amount)
  BY <1>5, AddLiquidityStep
<1>6. CASE \E x \in BpSafes, amount \in 1..MaxLp :
              \E to \in {x, BpRouter} : Bp!RemoveLiquidityV2(x, amount, to)
  BY <1>6, RemoveLiquidityStep
<1>7. CASE \E x \in BpSafes, amount \in 1..MaxLp :
              \/ \E y \in BpSafes \cup {BpOutsider} : Bp!SendLp(x, y, amount)
              \/ Bp!SendLp(BpOutsider, x, amount)
  BY <1>7, <1>1, SendLpStep
<1>8. CASE \E n \in Nfts, amount \in 1..MaxLiquidity : Bp!IncreaseNft(n, amount)
  BY <1>8, IncreaseNftStep
<1>9. CASE \E n \in Nfts, amount \in 1..MaxLiquidity : Bp!DecreaseNft(n, amount)
  BY <1>9, DecreaseNftStep
<1>10. CASE \E n \in Nfts, amount \in 1..MaxLiquidity :
               \E x \in BpSafes : Bp!MintNft(x, n, amount)
  BY <1>10, MintNftStep
<1>11. CASE \E n \in Nfts : Bp!BurnNft(n) BY <1>11, BurnNftStep
<1>12. CASE \E n \in Nfts : \E to \in BpSafes \cup {BpGauge, BpOutsider} : Bp!MoveNft(n, to)
  BY <1>12, MoveNftStep
<1>. QED  BY <1>2, <1>3, <1>4, <1>5, <1>6, <1>7, <1>8, <1>9, <1>10, <1>11, <1>12 DEF Bp!Chain

LEMMA BpSteps == ASSUME BpAssumed, BpInv, [Bp!Next]_(Bp!vars) PROVE BpInv'
<1>1. CASE Bp!Chain BY <1>1, BpChainStep
<1>2. CASE Bp!handleVeloV2Transfer BY <1>2, LpTransferHandled
<1>3. CASE Bp!handleVeloV2Mint BY <1>3, LpMintHandled
<1>4. CASE Bp!handleVeloV2Burn BY <1>4, LpBurnHandled
<1>5. CASE Bp!handleNFTTransfer BY <1>5, NftTransferHandled
<1>6. CASE Bp!handleIncreaseLiquidity BY <1>6, IncreaseHandled
<1>7. CASE Bp!handleDecreaseLiquidity BY <1>7, DecreaseHandled
<1>8. CASE Bp!handleCollect BY <1>8, CollectHandled
<1>9. CASE \E x \in BpSafes : Bp!Poll(x) BY <1>9, Polled
<1>10. CASE UNCHANGED Bp!vars
  BY <1>10 DEF BpInv, Bp!vars, Bp!chain, Bp!store, BpTyped, BpChainTyped, BpNftsOK, BpLpOK, LpHeld
<1>. QED  BY <1>1, <1>2, <1>3, <1>4, <1>5, <1>6, <1>7, <1>8, <1>9, <1>10 DEF Bp!Next

\* Once the logs are handled.
LEMMA NftDrained ==
    ASSUME BpAssumed, BpInv, bpLogs = <<>>, NEW n \in Nfts
    PROVE  LET r == nft[n]  key == KeyOf(n, nft[n])
           IN  /\ r.liquidity \in Nat /\ (r.state = "burned" => r.liquidity = 0)
               /\ r.state = "live" =>
                     /\ mapping[n] = r.home /\ key \in DOMAIN bpPosition
                     /\ bpPosition[key].entry = put[n]
                     /\ bpPosition[key].active \/ bpPosition[key].exited
                     /\ r.liquidity = 0 => ExitRow(n, r, taken[n], bpPosition)
                     /\ bpPosition[key].active /\ n \notin Ungauged =>
                           bpPosition[key].liquidity = r.liquidity
               /\ r.state = "burned" /\ r.owner # BpOutsider => ~ActiveRow(n, r, bpPosition)
               /\ \A k \in DOMAIN bpPosition : k[2] = n => k = key /\ r.state # "unborn"
<1>1. PICK r, key : r = nft[n] /\ key = KeyOf(n, nft[n]) OBVIOUS
<1>2. NftOK(n, r, mapping[n], put[n], taken[n], bpPrice, bpPosition, bpLogs)
  BY <1>1 DEF BpInv, BpNftsOK
<1>3. Len(bpLogs) = 0 /\ \A i \in 1..Len(bpLogs) : FALSE OBVIOUS
<1>4. r \in BpNft /\ RowsTyped(bpPosition) BY <1>1 DEF BpInv, BpTyped, BpChainTyped
<1>5. r.liquidity \in Nat /\ (r.state = "burned" => r.liquidity = 0)
  BY <1>2, <1>4 DEF BpNft, NftOK, BornOK
<1>6. ASSUME r.state = "live"
      PROVE  /\ mapping[n] = r.home /\ key \in DOMAIN bpPosition
             /\ bpPosition[key].entry = put[n]
             /\ bpPosition[key].active \/ bpPosition[key].exited
             /\ r.liquidity = 0 => ExitRow(n, r, taken[n], bpPosition)
             /\ bpPosition[key].active /\ n \notin Ungauged =>
                   bpPosition[key].liquidity = r.liquidity
  <2>1. mapping[n] = r.home /\ key \in DOMAIN bpPosition
    BY <1>1, <1>2, <1>3, <1>6 DEF NftOK, MadeOK
  <2>2. bpPosition[key].entry = put[n]
    BY <1>2, <1>6, <1>3, <1>1, <2>1 DEF NftOK, EntryOK, Adds, EntryOf
  <2>3. bpPosition[key].active \/ bpPosition[key].exited
    BY <1>1, <1>2, <1>6, <2>1 DEF NftOK, ClosedOK
  <2>4. r.liquidity = 0 => ExitRow(n, r, taken[n], bpPosition)
    BY <1>2, <1>3, <1>6 DEF NftOK, ExitOK
  <2>5. bpPosition[key].active /\ n \notin Ungauged => bpPosition[key].liquidity = r.liquidity
    BY <1>1, <1>2, <1>3, <1>6, <2>1 DEF NftOK, ShowsOK, ActiveRow
  <2>. QED  BY <2>1, <2>2, <2>3, <2>4, <2>5
<1>7. r.state = "burned" /\ r.owner # BpOutsider => ~ActiveRow(n, r, bpPosition)
  BY <1>2, <1>3 DEF NftOK, GoneOK
<1>8. ASSUME NEW k \in DOMAIN bpPosition, k[2] = n PROVE k = key /\ r.state # "unborn"
  BY <1>2, <1>8, <1>4, <1>1 DEF NftOK, BornOK, RowsTyped, PartialFn, BpKeys, KeyOf
<1>. QED  BY <1>1, <1>5, <1>6, <1>7, <1>8

LEMMA BpSafe == ASSUME BpAssumed, BpInv PROVE Bp!PositionsMirrorChain
<1>. SUFFICES ASSUME bpLogs = <<>>
              PROVE  Bp!LpMirrored /\ Bp!NftsMirrored /\ Bp!FlowsRecorded /\ Bp!GainsCurrent
  BY DEF Bp!PositionsMirrorChain, Bp!Drained
<1>1. /\ BpTyped /\ RowsTyped(bpPosition) /\ LpRight(bpPosition)
      /\ nft \in [Nfts -> BpNft] /\ wallet \in [BpSafes -> Nat] /\ staked \in [BpSafes -> Nat]
  BY DEF BpInv, BpTyped, BpChainTyped
<1>2. \A key \in DOMAIN bpPosition : /\ key \in BpKeys /\ bpPosition[key] \in BpRow
                                     /\ key[2] = BpPool \/ key[2] \in Nfts
  BY <1>1 DEF RowsTyped, PartialFn, BpKeys
<1>3. Bp!LpMirrored
  <2>1. ASSUME NEW x \in BpSafes
        PROVE  LET held == wallet[x] + staked[x]
                   row == Bp!LoadOr(bpPosition, <<x, BpPool>>, [Bp!NewPosition EXCEPT !.active = FALSE])
               IN  row.active = (held > 0) /\ row.liquidity = held
    <3>1. PICK held, fresh : /\ held = wallet[x] + staked[x]
                             /\ fresh = [Bp!NewPosition EXCEPT !.active = FALSE]
      OBVIOUS
    <3>2. held \in Nat BY <1>1, <3>1
    <3>3. fresh.active = FALSE /\ fresh.liquidity = 0 BY <3>1 DEF Bp!NewPosition
    <3>4. PICK row : row = Bp!LoadOr(bpPosition, <<x, BpPool>>, fresh) OBVIOUS
    <3>5. row.active \in BOOLEAN
      BY <1>2, <3>3, <3>4 DEF Bp!LoadOr, BpRow
    <3>6. LpShown(x, held, bpPosition) BY <3>1 DEF BpInv, BpLpOK, LpHeld, LpOK
    <3>7. (row.active <=> held > 0) /\ row.liquidity = held
      BY <3>2, <3>3, <3>4, <3>6 DEF LpShown, LpRowShows, Bp!LoadOr
    <3>8. row.active = (held > 0) BY ONLY <3>5, <3>7
    <3>. QED  BY <3>1, <3>4, <3>7, <3>8
  <2>. QED  BY <2>1 DEF Bp!LpMirrored
<1>4. Bp!NftsMirrored
  <2>1. ASSUME NEW n \in Nfts, nft[n].state = "live"
        PROVE  mapping[n] = nft[n].home /\ <<nft[n].home, n>> \in DOMAIN bpPosition
    BY <2>1, NftDrained DEF KeyOf
  <2>2. ASSUME NEW key \in DOMAIN bpPosition, key[2] # BpPool, nft[key[2]].owner # BpOutsider
        PROVE  LET row == bpPosition[key]  liquidity == nft[key[2]].liquidity
               IN  /\ row.active => /\ nft[key[2]].state = "live" /\ liquidity > 0
                                    /\ key[2] \notin Ungauged => row.liquidity = liquidity
                   /\ ~row.active => liquidity = 0 \/ row.exited
    BY <1>2, <2>2, NftDrained, <1>1 DEF BpNft, ActiveRow, ExitRow
  <2>. QED  BY <2>1, <2>2 DEF Bp!NftsMirrored, Bp!Live
<1>5. Bp!FlowsRecorded
  <2>1. ASSUME NEW n \in Nfts, nft[n].state = "live"
        PROVE  LET row == bpPosition[<<nft[n].home, n>>]
               IN  /\ row.entry = put[n]
                   /\ nft[n].liquidity = 0 => row.exited /\ row.exit = taken[n]
    BY <2>1, NftDrained DEF KeyOf, ExitRow
  <2>. QED  BY <2>1 DEF Bp!FlowsRecorded, Bp!Live
<1>6. Bp!GainsCurrent
  <2>1. ASSUME NEW key \in DOMAIN bpPosition,
               key[2] = BpPool \/ (nft[key[2]].state = "live" /\ nft[key[2]].liquidity = 0)
        PROVE  GainRight(bpPosition[key])
    <3>1. CASE key[2] = BpPool BY <1>1, <3>1 DEF LpRight, LpRowRight
    <3>2. CASE key[2] # BpPool BY <1>2, <2>1, <3>2, NftDrained DEF ExitRow
    <3>. QED  BY <3>1, <3>2
  <2>. QED  BY <2>1 DEF Bp!GainsCurrent, GainRight, Bp!Live
<1>. QED  BY <1>3, <1>4, <1>5, <1>6

\* Once the events of a block are handled, the rows of the positions show what the chain has:
\* LP tokens in the wallet and in the gauge, the NFTs with their liquidity, what was put into
\* them and taken out last (refreshVeloV2Position, refreshVeloCLPositionWithEventAmounts,
\* refreshVeloCLPositionWithExitAmounts).
THEOREM PositionsAlwaysMirrorChain ==
    Bp!PositionsAssumption => (Bp!Spec => []Bp!PositionsMirrorChain)
<1>. SUFFICES ASSUME BpAssumed PROVE Bp!Spec => []Bp!PositionsMirrorChain
  BY BpAssumptionMeans
<1>1. Bp!Init => BpInv BY BpStarts
<1>2. BpInv /\ [Bp!Next]_(Bp!vars) => BpInv' BY BpSteps
<1>3. BpInv => Bp!PositionsMirrorChain BY BpSafe
<1>. QED  BY <1>1, <1>2, <1>3, PTL DEF Bp!Spec
=============================================================================
