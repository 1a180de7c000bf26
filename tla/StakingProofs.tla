---------------------------- MODULE StakingProofs ----------------------------
(***************************************************************************)
(* Proofs about the staking subgraph for any set of services, contracts,   *)
(* stakes and rewards and any number of epochs and days.  The inductive    *)
(* invariant is Staking's IInv; it is shown to be kept conjunct by         *)
(* conjunct, each conjunct by one lemma with a step per handler.  On it    *)
(* rest the action properties, the refinement of StakingLedger, the sums   *)
(* (SumInv) and the median.                                                *)
(*                                                                         *)
(* Then, each with constants and variables of its own, the subgraphs that  *)
(* follow the work of services: what executions are credited to in the     *)
(* service registry, and the fees of legacy and of new mechs.              *)
(***************************************************************************)
EXTENDS Staking, StoreTheorems

\* What may be assumed about the chosen rewards of a checkpoint: they go to
\* services staked in the contract and are positive.
LEMMA RewardsShape ==
    ASSUME NEW c \in Contracts, NEW reward \in Rewards(c)
    PROVE  /\ DOMAIN reward \subseteq {s \in Services : stakedIn[s] = c}
           /\ \A s \in DOMAIN reward : reward[s] \in Nat \ {0}
BY RewardAssumption DEF Rewards

\* The initial rows of an entity are well typed.
LEMMA FreshRows == NewService \in ServiceRow /\ NewHistory \in HistoryRow
BY DEF NewService, ServiceRow, NewHistory, HistoryRow

\* The fields of a Service row.
LEMMA RowFields ==
    ASSUME NEW row \in ServiceRow
    PROVE  /\ row = [f \in DOMAIN row |-> row[f]]
           /\ row.currentOlasStaked \in Int /\ row.olasRewardsEarned \in Nat
           /\ row.olasRewardsClaimed \in Nat /\ row.totalEpochsParticipated \in Nat
           /\ row.latestStakingContract \in Contracts \cup {None}
BY DEF ServiceRow

\* Setting fields of a Service row to values of their types.
LEMMA RowSet ==
    ASSUME NEW row \in ServiceRow
    PROVE  /\ \A n \in Nat : /\ [row EXCEPT !.olasRewardsEarned = n] \in ServiceRow
                             /\ [row EXCEPT !.olasRewardsClaimed = n] \in ServiceRow
                             /\ [row EXCEPT !.totalEpochsParticipated = n] \in ServiceRow
           /\ \A h \in Contracts \cup {None}, i \in Int, n \in Nat :
                /\ [row EXCEPT !.currentOlasStaked = i, !.latestStakingContract = h]
                        \in ServiceRow
                /\ [row EXCEPT !.latestStakingContract = h, !.olasRewardsClaimed = n,
                               !.currentOlasStaked = i] \in ServiceRow
BY DEF ServiceRow

\* A Service row keeps its type under the changes the handlers make to it, and
\* the fields a handler does not mention keep their values.
LEMMA RowChanges ==
    ASSUME NEW row \in ServiceRow, NEW c \in Contracts, NEW olas \in Nat,
           NEW reward \in Nat, NEW key
    PROVE  /\ StakedRow(row, c, olas) \in ServiceRow
           /\ UnstakedRow(row, olas, reward) \in ServiceRow
           /\ Participation(row, key) \in ServiceRow
<1>1. /\ row.currentOlasStaked + olas \in Int /\ row.currentOlasStaked - olas \in Int
      /\ row.olasRewardsClaimed + reward \in Nat
      /\ row.totalEpochsParticipated + 1 \in Nat
  BY RowFields
<1>2. StakedRow(row, c, olas) \in ServiceRow
  BY <1>1, RowSet, Zenon DEF StakedRow
<1>3. UnstakedRow(row, olas, reward) \in ServiceRow
  BY <1>1, RowSet, Zenon DEF UnstakedRow
<1>4. Participation(row, key) \in ServiceRow BY RowFields, RowSet, <1>1 DEF Participation
<1>. QED  BY <1>2, <1>3, <1>4

\* So does the Global row under the three kinds of change.
LEMMA GlobalChanges ==
    ASSUME NEW g, IsGlobalRow(g), NEW n \in Nat, NEW total
    PROVE  /\ IsGlobalRow([g EXCEPT !.cumulativeOlasStaked = @ + n,
                                    !.currentOlasStaked = @ + n])
           /\ IsGlobalRow([g EXCEPT !.cumulativeOlasUnstaked = @ + n,
                                    !.currentOlasStaked = @ - n])
           /\ IsGlobalRow([g EXCEPT !.totalRewards = total, !.lastActiveDayTimestamp = n])
<1>1. DOMAIN g = GlobalFields
  BY Zenon DEF IsGlobalRow
<1>2. ASSUME NEW h, DOMAIN h = GlobalFields, h = [f \in DOMAIN h |-> h[f]],
             h.cumulativeOlasStaked \in Nat, h.cumulativeOlasUnstaked \in Nat,
             h.currentOlasStaked \in Int, h.lastActiveDayTimestamp \in Nat
      PROVE  IsGlobalRow(h)
  BY <1>2, Zenon DEF IsGlobalRow
<1>3. /\ g.cumulativeOlasStaked \in Nat /\ g.cumulativeOlasUnstaked \in Nat
      /\ g.currentOlasStaked \in Int /\ g.lastActiveDayTimestamp \in Nat
  BY DEF IsGlobalRow
<1>4. {"cumulativeOlasStaked", "cumulativeOlasUnstaked", "currentOlasStaked",
       "totalRewards", "lastActiveDayTimestamp"} \subseteq DOMAIN g
  BY <1>1 DEF GlobalFields
<1>5. IsGlobalRow([g EXCEPT !.cumulativeOlasStaked = @ + n, !.currentOlasStaked = @ + n])
  <2> DEFINE h == [g EXCEPT !.cumulativeOlasStaked = @ + n, !.currentOlasStaked = @ + n]
  <2>1. DOMAIN h = GlobalFields /\ h = [f \in DOMAIN h |-> h[f]]
    BY <1>1
  <2>2. /\ h.cumulativeOlasStaked = g.cumulativeOlasStaked + n
        /\ h.cumulativeOlasUnstaked = g.cumulativeOlasUnstaked
        /\ h.currentOlasStaked = g.currentOlasStaked + n
        /\ h.lastActiveDayTimestamp = g.lastActiveDayTimestamp
    BY <1>4
  <2> HIDE DEF h
  <2>3. /\ h.cumulativeOlasStaked \in Nat /\ h.cumulativeOlasUnstaked \in Nat
        /\ h.currentOlasStaked \in Int /\ h.lastActiveDayTimestamp \in Nat
    BY <1>3, <2>2
  <2>4. IsGlobalRow(h)
    BY <1>2, <2>1, <2>3
  <2>. QED  BY <2>4 DEF h
<1>6. IsGlobalRow([g EXCEPT !.cumulativeOlasUnstaked = @ + n, !.currentOlasStaked = @ - n])
  <2> DEFINE h == [g EXCEPT !.cumulativeOlasUnstaked = @ + n, !.currentOlasStaked = @ - n]
  <2>1. DOMAIN h = GlobalFields /\ h = [f \in DOMAIN h |-> h[f]]
    BY <1>1
  <2>2. /\ h.cumulativeOlasStaked = g.cumulativeOlasStaked
        /\ h.cumulativeOlasUnstaked = g.cumulativeOlasUnstaked + n
        /\ h.currentOlasStaked = g.currentOlasStaked - n
        /\ h.lastActiveDayTimestamp = g.lastActiveDayTimestamp
    BY <1>4
  <2> HIDE DEF h
  <2>3. /\ h.cumulativeOlasStaked \in Nat /\ h.cumulativeOlasUnstaked \in Nat
        /\ h.currentOlasStaked \in Int /\ h.lastActiveDayTimestamp \in Nat
    BY <1>3, <2>2
  <2>4. IsGlobalRow(h)
    BY <1>2, <2>1, <2>3
  <2>. QED  BY <2>4 DEF h
<1>7. IsGlobalRow([g EXCEPT !.totalRewards = total, !.lastActiveDayTimestamp = n])
  BY <1>1, <1>2, <1>3, <1>4
<1>. QED  BY <1>5, <1>6, <1>7

\* getOlasForStaking never returns a negative amount.
LEMMA StakeNat == ASSUME NEW c \in Contracts PROVE getOlasForStaking(c) \in Nat
BY StakeAssumption DEF getOlasForStaking

\* The rows a checkpoint leaves in Service have the type of the entity.
LEMMA CheckpointServicesType ==
    ASSUME TypeOK, NEW c \in Contracts, NEW reward \in Rewards(c), NEW zero
    PROVE  /\ PartialFn(CheckpointServices(c, reward, zero), Services, ServiceRow)
           /\ DOMAIN CheckpointServices(c, reward, zero) = DOMAIN service
           /\ \A s \in DOMAIN service :
                LET row == CheckpointServices(c, reward, zero)[s] IN
                /\ row.latestStakingContract = service[s].latestStakingContract
                /\ row.currentOlasStaked = service[s].currentOlasStaked
                /\ row.olasRewardsClaimed = service[s].olasRewardsClaimed
                /\ row.olasRewardsEarned = service[s].olasRewardsEarned
                        + (IF s \in DOMAIN reward THEN reward[s] ELSE 0)
BY RewardsShape DEF CheckpointServices, Participation, TypeOK, PartialFn, ServiceRow

-----------------------------------------------------------------------------
(* Type correctness. *)

\* The Global row has all its fields and only typed stakes.
LEMMA InitType == Init => TypeOK
BY NoRowsPartialFn DEF Init, TypeOK, IsGlobalRow, GlobalFields

\* handleServiceStaked keeps every row well typed.
LEMMA StakedType ==
    ASSUME TypeOK, NEW s \in Services, NEW c \in Contracts, handleServiceStaked(s, c)
    PROVE  TypeOK'
<1> DEFINE olas == getOlasForStaking(c)
           key == historyId(s, c)
           slot == <<c, epoch[c]>>
           row == LoadOr(service, s, NewService)
<1>1. olas \in Nat
  BY StakeNat
<1>2. row \in ServiceRow
  BY FreshRows, LoadOrType DEF TypeOK
<1>3. Participation(StakedRow(row, c, olas), key) \in ServiceRow
  BY <1>1, <1>2, RowChanges, StakedRow(row, c, olas) \in ServiceRow
<1>4. PartialFn(service', Services, ServiceRow)
  BY <1>3, PutPartialFn DEF handleServiceStaked, TypeOK
<1>5. key \in Services \X Contracts \X Nat /\ slot \in Contracts \X Nat
  BY DEF historyId, TypeOK
<1>6. PartialFn(history', Services \X Contracts \X Nat, HistoryRow)
  BY FreshRows, LoadOrType, <1>5, PutPartialFn DEF TypeOK, handleServiceStaked
<1>7. PartialFn(active', Contracts \X Nat, SUBSET Services)
  <2>1. LoadOr(active, slot, {}) \cup {s} \in SUBSET Services
    BY DEF LoadOr, PartialFn, TypeOK
  <2>. QED  BY <2>1, <1>5, PutPartialFn DEF handleServiceStaked, TypeOK
<1>8. stakedIn' \in [Services -> Contracts \cup {None}]
  BY DEF handleServiceStaked, TypeOK
<1>9. IsGlobalRow(global')
  BY <1>1, GlobalChanges DEF handleServiceStaked, TypeOK
<1>. QED  BY <1>4, <1>6, <1>7, <1>8, <1>9 DEF handleServiceStaked, TypeOK

\* So do both unstake handlers, which differ in RewardUpdate only.
LEMMA UnstakeType ==
    ASSUME TypeOK, NEW s \in Services, NEW c \in Contracts,
           Leaves(s, c), processUnstake(s, c, pending[s])
    PROVE  TypeOK'
<1> DEFINE olas == getOlasForStaking(c)
           key == historyId(s, c)
<1>1. olas \in Nat /\ pending[s] \in Nat
  BY StakeNat DEF TypeOK
<1>2. PartialFn(service', Services, ServiceRow)
  <2>1. CASE s \in DOMAIN service
    BY <2>1, <1>1, RowChanges, UnstakedRow(service[s], olas, pending[s]) \in ServiceRow DEF TypeOK,
        PartialFn, processUnstake
  <2>2. CASE s \notin DOMAIN service
    BY <2>2 DEF processUnstake, TypeOK
  <2>. QED  BY <2>1, <2>2
<1>3. PartialFn(history', Services \X Contracts \X Nat, HistoryRow)
  <2>1. [LoadOr(history, key, NewHistory) EXCEPT !.rewardAmount = pending[s]] \in HistoryRow
    <3>1. LoadOr(history, key, NewHistory) \in HistoryRow
      BY FreshRows, LoadOrType DEF TypeOK
    <3>. QED  BY <3>1, <1>1 DEF HistoryRow
  <2>2. key \in Services \X Contracts \X Nat
    BY DEF historyId, TypeOK
  <2>. QED  BY <2>1, <2>2, PutPartialFn DEF processUnstake, TypeOK
<1>4. IsGlobalRow(global')
  BY <1>1, GlobalChanges DEF processUnstake, GlobalUnstake, TypeOK
<1>. QED  BY <1>1, <1>2, <1>3, <1>4 DEF Leaves, processUnstake, TypeOK

\* And handleCheckpoint, over the rows of all services it touches.
LEMMA CheckpointType ==
    ASSUME TypeOK, NEW c \in Contracts, NEW reward \in Rewards(c),
           handleCheckpoint(c, reward)
    PROVE  TypeOK'
<1> DEFINE zero == ZeroRewarded(c, DOMAIN reward)
<1>1. /\ DOMAIN reward \subseteq Services
      /\ \A s \in DOMAIN reward : reward[s] \in Nat
  BY RewardsShape
<1>2. zero \subseteq Services
  BY DEF ZeroRewarded, LoadOr, TypeOK, PartialFn
<1>3. PartialFn(service', Services, ServiceRow)
  BY CheckpointServicesType DEF handleCheckpoint
<1>4. PartialFn(history', Services \X Contracts \X Nat, HistoryRow)
  <2> DEFINE rewardKeys == {historyId(s, c) : s \in DOMAIN reward}
             zeroKeys == {historyId(s, c) : s \in zero}
  <2>1. epoch[c] \in Nat
    BY DEF TypeOK
  <2>2. /\ rewardKeys \subseteq Services \X Contracts \X Nat
        /\ zeroKeys \subseteq Services \X Contracts \X Nat
        /\ \A k \in rewardKeys : reward[k[1]] \in Nat
    BY <1>1, <1>2, <2>1 DEF historyId
  <2>3. history' = CheckpointHistory(c, reward, zero)
    BY DEF handleCheckpoint
  <2>. QED  BY <2>2, <2>3 DEF CheckpointHistory, TypeOK, PartialFn, HistoryRow
<1>5. PartialFn(active', Contracts \X Nat, SUBSET Services)
  <2> DEFINE now == <<c, epoch[c]>>
             next == <<c, epoch[c] + 1>>
  <2>1. CASE now \in DOMAIN active
    <3>1. LoadOr(active, next, {}) \cup active[now] \in SUBSET Services
      BY <2>1 DEF LoadOr, PartialFn, TypeOK
    <3>2. next \in Contracts \X Nat
      BY DEF TypeOK
    <3>3. active' = Put(active, next, LoadOr(active, next, {}) \cup active[now])
      BY <2>1 DEF handleCheckpoint, RollOver
    <3>. QED  BY <3>1, <3>2, <3>3, PutPartialFn DEF TypeOK
  <2>2. CASE now \notin DOMAIN active
    BY <2>2 DEF handleCheckpoint, RollOver, TypeOK
  <2>. QED  BY <2>1, <2>2
<1>6. pending' \in [Services -> Nat]
  BY <1>1 DEF handleCheckpoint, TypeOK
<1>7. epoch' \in [Contracts -> Nat]
  BY DEF handleCheckpoint, TypeOK
<1>8. IsGlobalRow(global')
  BY GlobalChanges DEF handleCheckpoint, upsertCumulativeDailyStakingGlobal,
                       GlobalAfter, TypeOK
<1>. QED  BY <1>3, <1>4, <1>5, <1>6, <1>7, <1>8 DEF handleCheckpoint, TypeOK

\* Every step keeps the types.
LEMMA NextType == ASSUME TypeOK, [Next]_vars PROVE TypeOK'
<1>1. CASE AdvanceDay
  BY <1>1 DEF AdvanceDay, store, TypeOK
<1>2. ASSUME NEW c \in Contracts, handleInstanceCreated(c) PROVE TypeOK'
  BY <1>2 DEF handleInstanceCreated, TypeOK
<1>3. ASSUME NEW c \in Contracts, NEW reward \in Rewards(c), handleCheckpoint(c, reward)
      PROVE  TypeOK'
  BY <1>3, CheckpointType
<1>4. ASSUME NEW c \in Contracts, NEW s \in Services, UnindexedStake(s, c) PROVE TypeOK'
  BY <1>4 DEF UnindexedStake, store, TypeOK
<1>5. ASSUME NEW c \in Contracts, NEW s \in Services, handleServiceStaked(s, c)
      PROVE  TypeOK'
  BY <1>5, StakedType
<1>6. ASSUME NEW c \in Contracts, NEW s \in Services, handleRewardClaimed(s, c)
      PROVE  TypeOK'
  <2>1. pending[s] \in Nat /\ pending' \in [Services -> Nat]
    BY <1>6 DEF handleRewardClaimed, TypeOK
  <2>2. PartialFn(service', Services, ServiceRow)
    <3>1. CASE s \in DOMAIN service
      <4> DEFINE n == service[s].olasRewardsClaimed + pending[s]
      <4>1. service[s] \in ServiceRow
        BY <3>1 DEF TypeOK, PartialFn
      <4>2. n \in Nat
        BY <4>1, <2>1, RowFields
      <4>3. [service[s] EXCEPT !.olasRewardsClaimed = n] \in ServiceRow
        BY <4>1, <4>2, RowSet, Zenon
      <4>4. service' = [service EXCEPT ![s] = [service[s] EXCEPT !.olasRewardsClaimed = n]]
        BY <1>6, <3>1, Zenon DEF handleRewardClaimed
      <4>. QED  BY <4>3, <4>4 DEF TypeOK, PartialFn
    <3>2. CASE s \notin DOMAIN service
      BY <1>6, <3>2 DEF handleRewardClaimed, TypeOK
    <3>. QED  BY <3>1, <3>2
  <2>. QED  BY <1>6, <2>1, <2>2 DEF handleRewardClaimed, TypeOK
<1>7. ASSUME NEW c \in Contracts, NEW s \in Services, handleServiceUnstaked(s, c)
      PROVE  TypeOK'
  BY <1>7, UnstakeType DEF handleServiceUnstaked
<1>8. ASSUME NEW c \in Contracts, NEW s \in Services, handleServiceForceUnstaked(s, c)
      PROVE  TypeOK'
  BY <1>8, UnstakeType DEF handleServiceForceUnstaked
<1>9. CASE UNCHANGED vars
  BY <1>9 DEF vars, chain, store, TypeOK
<1>. QED  BY <1>1, <1>2, <1>3, <1>4, <1>5, <1>6, <1>7, <1>8, <1>9 DEF Next

-----------------------------------------------------------------------------
(* What each handler does to the Service rows, field by field. *)

\* The four fields the safety invariants are about, after a stake.
LEMMA StakedRowEffects ==
    ASSUME NEW row \in ServiceRow, NEW c, NEW olas, NEW key
    PROVE  LET r == Participation(StakedRow(row, c, olas), key) IN
           /\ r.latestStakingContract = c
           /\ r.currentOlasStaked = row.currentOlasStaked + olas
           /\ r.olasRewardsEarned = row.olasRewardsEarned
           /\ r.olasRewardsClaimed = row.olasRewardsClaimed
BY DEF Participation, StakedRow, ServiceRow

\* A service that is staked in an indexed contract has a row.
LEMMA StakedHasRow ==
    ASSUME TypeOK, StakeMirrorsChain, NEW s \in Services, stakedIn[s] \in stakingContract
    PROVE  /\ s \in DOMAIN service
           /\ service[s].latestStakingContract = stakedIn[s]
           /\ service[s].currentOlasStaked = StakeOf[stakedIn[s]]
           /\ stakedIn[s] # None
BY NoneAssumption DEF StakeMirrorsChain, TypeOK

\* A service staked nowhere has a row without a contract or stake, or no row.
LEMMA UnstakedRowEmpty ==
    ASSUME TypeOK, StakeMirrorsChain, NEW s \in Services, stakedIn[s] = None
    PROVE  /\ LoadOr(service, s, NewService).latestStakingContract = None
           /\ LoadOr(service, s, NewService).currentOlasStaked = 0
BY NoneAssumption DEF StakeMirrorsChain, TypeOK, LoadOr, NewService

\* Effect of handleServiceStaked.
StakedResult(s, c) ==
    /\ DOMAIN service' = DOMAIN service \cup {s}
    /\ \A t \in DOMAIN service : t # s => service'[t] = service[t]
    /\ service'[s].latestStakingContract = c
    /\ service'[s].currentOlasStaked =
         LoadOr(service, s, NewService).currentOlasStaked + StakeOf[c]
    /\ service'[s].olasRewardsEarned = LoadOr(service, s, NewService).olasRewardsEarned
    /\ service'[s].olasRewardsClaimed = LoadOr(service, s, NewService).olasRewardsClaimed
    /\ \A t \in Services : stakedIn'[t] = IF t = s THEN c ELSE stakedIn[t]
    /\ stakedIn[s] = None /\ c \in stakingContract

LEMMA StakedEffect ==
    ASSUME TypeOK, NEW s \in Services, NEW c \in Contracts, handleServiceStaked(s, c)
    PROVE  StakedResult(s, c)
<1> DEFINE old == LoadOr(service, s, NewService)
           row == Participation(StakedRow(old, c, StakeOf[c]), historyId(s, c))
<1>1. old \in ServiceRow
  BY FreshRows, LoadOrType DEF TypeOK
<1>2. service' = Put(service, s, row) BY DEF handleServiceStaked, getOlasForStaking
<1>3. /\ row.latestStakingContract = c
      /\ row.currentOlasStaked = old.currentOlasStaked + StakeOf[c]
      /\ row.olasRewardsEarned = old.olasRewardsEarned
      /\ row.olasRewardsClaimed = old.olasRewardsClaimed
  BY <1>1, StakedRowEffects
<1>4. /\ \A t \in Services : stakedIn'[t] = IF t = s THEN c ELSE stakedIn[t]
      /\ stakedIn[s] = None /\ c \in stakingContract
  BY DEF handleServiceStaked, TypeOK
<1> HIDE DEF row
<1>5. /\ DOMAIN service' = DOMAIN service \cup {s} /\ service'[s] = row
      /\ \A t \in DOMAIN service : t # s => service'[t] = service[t]
  BY <1>2 DEF Put
<1> HIDE DEF old
<1>. QED  BY <1>3, <1>4, <1>5 DEF old, StakedResult

\* Effect of both unstakes.
LEMMA UnstakeEffect ==
    ASSUME TypeOK, StakeMirrorsChain, NEW s \in Services, NEW c \in Contracts,
           Leaves(s, c), processUnstake(s, c, pending[s])
    PROVE  /\ DOMAIN service' = DOMAIN service /\ s \in DOMAIN service
           /\ \A t \in DOMAIN service : t # s => service'[t] = service[t]
           /\ service'[s].latestStakingContract = None
           /\ service'[s].currentOlasStaked = service[s].currentOlasStaked - StakeOf[c]
           /\ service'[s].olasRewardsEarned = service[s].olasRewardsEarned
           /\ service'[s].olasRewardsClaimed = service[s].olasRewardsClaimed + pending[s]
           /\ \A t \in Services : stakedIn'[t] = IF t = s THEN None ELSE stakedIn[t]
           /\ \A t \in Services : pending'[t] = IF t = s THEN 0 ELSE pending[t]
           /\ stakedIn[s] = c /\ c \in stakingContract
<1> DEFINE row == Participation(UnstakedRow(service[s], StakeOf[c], pending[s]),
                                historyId(s, c))
<1>1. stakedIn[s] = c /\ c \in stakingContract
  BY DEF Leaves
<1>2. s \in DOMAIN service
  BY <1>1, StakedHasRow
<1>3. service[s] \in ServiceRow
  BY <1>2 DEF TypeOK, PartialFn
<1>4. service' = [service EXCEPT ![s] = row] BY <1>1, <1>2 DEF getOlasForStaking, processUnstake
<1>5. /\ row.latestStakingContract = None
      /\ row.currentOlasStaked = service[s].currentOlasStaked - StakeOf[c]
      /\ row.olasRewardsEarned = service[s].olasRewardsEarned
      /\ row.olasRewardsClaimed = service[s].olasRewardsClaimed + pending[s]
  BY <1>3 DEF Participation, UnstakedRow, ServiceRow
<1>6. /\ \A t \in Services : stakedIn'[t] = IF t = s THEN None ELSE stakedIn[t]
      /\ \A t \in Services : pending'[t] = IF t = s THEN 0 ELSE pending[t]
  BY DEF Leaves, TypeOK
<1> HIDE DEF row
<1>7. /\ DOMAIN service' = DOMAIN service /\ service'[s] = row
      /\ \A t \in DOMAIN service : t # s => service'[t] = service[t]
  BY <1>2, <1>4
<1>. QED  BY <1>1, <1>2, <1>5, <1>6, <1>7

\* Effect of handleRewardClaimed.
LEMMA ClaimEffect ==
    ASSUME TypeOK, StakeMirrorsChain, NEW s \in Services, NEW c \in Contracts,
           handleRewardClaimed(s, c)
    PROVE  /\ DOMAIN service' = DOMAIN service /\ s \in DOMAIN service
           /\ \A t \in DOMAIN service : t # s => service'[t] = service[t]
           /\ service'[s].latestStakingContract = service[s].latestStakingContract
           /\ service'[s].currentOlasStaked = service[s].currentOlasStaked
           /\ service'[s].olasRewardsEarned = service[s].olasRewardsEarned
           /\ service'[s].olasRewardsClaimed = service[s].olasRewardsClaimed + pending[s]
           /\ \A t \in Services : pending'[t] = IF t = s THEN 0 ELSE pending[t]
           /\ stakedIn[s] = c /\ c \in stakingContract
<1>1. stakedIn[s] = c /\ c \in stakingContract
  BY DEF handleRewardClaimed
<1>2. s \in DOMAIN service
  BY <1>1, StakedHasRow
<1>3. service[s] \in ServiceRow
  BY <1>2 DEF TypeOK, PartialFn
<1> DEFINE row == [service[s] EXCEPT !.olasRewardsClaimed = @ + pending[s]]
<1>4. service' = [service EXCEPT ![s] = row]
  BY <1>2, Zenon DEF handleRewardClaimed
<1>5. /\ row.latestStakingContract = service[s].latestStakingContract
      /\ row.currentOlasStaked = service[s].currentOlasStaked
      /\ row.olasRewardsEarned = service[s].olasRewardsEarned
      /\ row.olasRewardsClaimed = service[s].olasRewardsClaimed + pending[s]
  BY <1>3 DEF ServiceRow
<1>6. \A t \in Services : pending'[t] = IF t = s THEN 0 ELSE pending[t]
  BY DEF handleRewardClaimed, TypeOK
<1> HIDE DEF row
<1>7. /\ DOMAIN service' = DOMAIN service /\ service'[s] = row
      /\ \A t \in DOMAIN service : t # s => service'[t] = service[t]
  BY <1>2, <1>4
<1>. QED  BY <1>1, <1>2, <1>5, <1>6, <1>7

\* Effect of handleCheckpoint on the Service rows and the accrued rewards.
LEMMA CheckpointEffect ==
    ASSUME TypeOK, StakeMirrorsChain, NEW c \in Contracts, NEW reward \in Rewards(c),
           handleCheckpoint(c, reward)
    PROVE  /\ DOMAIN service' = DOMAIN service /\ DOMAIN reward \subseteq DOMAIN service
           /\ \A s \in DOMAIN service :
                /\ service'[s].latestStakingContract = service[s].latestStakingContract
                /\ service'[s].currentOlasStaked = service[s].currentOlasStaked
                /\ service'[s].olasRewardsClaimed = service[s].olasRewardsClaimed
                /\ service'[s].olasRewardsEarned = service[s].olasRewardsEarned
                        + (IF s \in DOMAIN reward THEN reward[s] ELSE 0)
           /\ \A s \in Services :
                pending'[s] = pending[s] + (IF s \in DOMAIN reward THEN reward[s] ELSE 0)
           /\ \A s \in DOMAIN reward : s \in Services /\ stakedIn[s] = c
           /\ c \in stakingContract
BY RewardsShape, StakedHasRow, CheckpointServicesType DEF handleCheckpoint, TypeOK

-----------------------------------------------------------------------------
(* The conjuncts of the inductive invariant. *)

\* A service only enters contracts that exist, and rows are created with them.
LEMMA NextPlacement == ASSUME TypeOK, Placement, [Next]_vars PROVE Placement'
<1>1. CASE AdvanceDay
  BY <1>1 DEF AdvanceDay, store, Placement
<1>2. ASSUME NEW c \in Contracts, handleInstanceCreated(c) PROVE Placement'
  BY <1>2 DEF handleInstanceCreated, Placement
<1>3. ASSUME NEW c \in Contracts, NEW reward \in Rewards(c), handleCheckpoint(c, reward)
      PROVE  Placement'
  BY <1>3 DEF handleCheckpoint, Placement
<1>4. ASSUME NEW c \in Contracts, NEW s \in Services, UnindexedStake(s, c) PROVE Placement'
  BY <1>4 DEF UnindexedStake, store, Placement, TypeOK
<1>5. ASSUME NEW c \in Contracts, NEW s \in Services, handleServiceStaked(s, c)
      PROVE  Placement'
  BY <1>5 DEF handleServiceStaked, Placement, TypeOK
<1>6. ASSUME NEW c \in Contracts, NEW s \in Services, handleRewardClaimed(s, c)
      PROVE  Placement'
  BY <1>6 DEF handleRewardClaimed, Placement
<1>7. ASSUME NEW c \in Contracts, NEW s \in Services,
             handleServiceUnstaked(s, c) \/ handleServiceForceUnstaked(s, c)
      PROVE  Placement'
  BY <1>7 DEF handleServiceUnstaked, handleServiceForceUnstaked, Leaves, processUnstake,
              Placement, TypeOK
<1>8. CASE UNCHANGED vars
  BY <1>8 DEF vars, chain, store, Placement
<1>. QED  BY <1>1, <1>2, <1>3, <1>4, <1>5, <1>6, <1>7, <1>8 DEF Next

\* What an unstake removes is what the stake of that contract had added.
LEMMA NextStakeMirrors ==
    ASSUME TypeOK, Placement, StakeMirrorsChain, [Next]_vars
    PROVE  StakeMirrorsChain'
<1>1. CASE AdvanceDay
  BY <1>1 DEF AdvanceDay, store, StakeMirrorsChain
<1>2. ASSUME NEW c \in Contracts, handleInstanceCreated(c) PROVE StakeMirrorsChain'
  BY <1>2, NoneAssumption DEF handleInstanceCreated, Placement, StakeMirrorsChain
<1>3. ASSUME NEW c \in Contracts, NEW reward \in Rewards(c), handleCheckpoint(c, reward)
      PROVE  StakeMirrorsChain'
  BY <1>3, CheckpointEffect DEF handleCheckpoint, StakeMirrorsChain
<1>4. ASSUME NEW c \in Contracts, NEW s \in Services, UnindexedStake(s, c)
      PROVE  StakeMirrorsChain'
  BY <1>4, NoneAssumption DEF UnindexedStake, store, TypeOK, StakeMirrorsChain
<1>5. ASSUME NEW c \in Contracts, NEW s \in Services, handleServiceStaked(s, c)
      PROVE  StakeMirrorsChain'
  <2>1. stakingContract' = stakingContract
    BY <1>5 DEF handleServiceStaked
  <2>2. LoadOr(service, s, NewService).currentOlasStaked = 0
    BY <1>5, UnstakedRowEmpty DEF handleServiceStaked
  <2>3. StakeOf[c] \in Nat
    BY StakeAssumption
  <2>5. StakedResult(s, c)
    BY <1>5, StakedEffect
  <2>4. service'[s].currentOlasStaked = StakeOf[c]
    BY <2>2, <2>3, <2>5 DEF StakedResult
  <2>. QED  BY <2>1, <2>4, <2>5, NoneAssumption
           DEF StakedResult, StakeMirrorsChain, TypeOK
<1>6. ASSUME NEW c \in Contracts, NEW s \in Services, handleRewardClaimed(s, c)
      PROVE  StakeMirrorsChain'
  BY <1>6, ClaimEffect DEF handleRewardClaimed, StakeMirrorsChain
<1>7. ASSUME NEW c \in Contracts, NEW s \in Services,
             Leaves(s, c), processUnstake(s, c, pending[s])
      PROVE  StakeMirrorsChain'
  <2>1. stakingContract' = stakingContract
    BY <1>7 DEF processUnstake
  <2>2. service[s].currentOlasStaked = StakeOf[c] /\ StakeOf[c] \in Nat
    BY <1>7, StakedHasRow, StakeAssumption DEF Leaves
  <2>3. service'[s].currentOlasStaked = 0
    BY <1>7, <2>2, UnstakeEffect
  <2>. QED  BY <1>7, <2>1, <2>3, UnstakeEffect, NoneAssumption DEF StakeMirrorsChain, TypeOK
<1>8. CASE UNCHANGED vars
  BY <1>8 DEF vars, chain, store, StakeMirrorsChain
<1>. QED  BY <1>1, <1>2, <1>3, <1>4, <1>5, <1>6, <1>7, <1>8
          DEF Next, handleServiceUnstaked, handleServiceForceUnstaked

\* Claims and unstakes move exactly the accrued reward, checkpoints add to both.
LEMMA NextRewards ==
    ASSUME TypeOK, StakeMirrorsChain, RewardsAccounted, [Next]_vars
    PROVE  RewardsAccounted'
<1> DEFINE Earned(s) == LoadOr(service, s, NewService).olasRewardsEarned
           Claimed(s) == LoadOr(service, s, NewService).olasRewardsClaimed
<1>0. \A s \in Services : /\ pending[s] \in Nat
                          /\ Earned(s) \in Nat /\ Claimed(s) \in Nat
  BY FreshRows, LoadOrType, RowFields DEF TypeOK
<1>1. CASE UNCHANGED <<service, pending>>
  BY <1>1 DEF RewardsAccounted, LoadOr
<1>2. ASSUME NEW c \in Contracts, NEW reward \in Rewards(c), handleCheckpoint(c, reward)
      PROVE  RewardsAccounted'
  BY RewardsShape, <1>0, <1>2, CheckpointEffect DEF RewardsAccounted, LoadOr
<1>3. ASSUME NEW c \in Contracts, NEW s \in Services, handleServiceStaked(s, c)
      PROVE  RewardsAccounted'
  <2>1. pending' = pending
    BY <1>3 DEF handleServiceStaked
  <2>2. StakedResult(s, c)
    BY <1>3, StakedEffect
  <2>. QED  BY <2>1, <2>2 DEF StakedResult, RewardsAccounted, LoadOr
<1>4. ASSUME NEW c \in Contracts, NEW s \in Services, handleRewardClaimed(s, c)
      PROVE  RewardsAccounted'
  BY <1>0, <1>4, ClaimEffect DEF RewardsAccounted, LoadOr
<1>5. ASSUME NEW c \in Contracts, NEW s \in Services,
             Leaves(s, c), processUnstake(s, c, pending[s])
      PROVE  RewardsAccounted'
  BY <1>0, <1>5, UnstakeEffect DEF RewardsAccounted, LoadOr
<1>. QED  BY <1>1, <1>2, <1>3, <1>4, <1>5
          DEF Next, AdvanceDay, handleInstanceCreated, UnindexedStake, handleServiceUnstaked,
              handleServiceForceUnstaked, vars, chain, store

\* The tracker of the running epoch gains the services that stake, and the
\* roll-over carries all of them into the next epoch.
LEMMA NextActive ==
    ASSUME TypeOK, Placement, ActiveCoversStaked, [Next]_vars
    PROVE  ActiveCoversStaked'
<1>1. CASE UNCHANGED <<active, epoch, stakedIn, stakingContract>>
  BY <1>1 DEF ActiveCoversStaked
<1>2. ASSUME NEW c \in Contracts, handleInstanceCreated(c) PROVE ActiveCoversStaked'
  BY <1>2, NoneAssumption DEF handleInstanceCreated, Placement, ActiveCoversStaked
<1>3. ASSUME NEW c \in Contracts, NEW reward \in Rewards(c), handleCheckpoint(c, reward)
      PROVE  ActiveCoversStaked'
  <2>1. /\ stakedIn' = stakedIn /\ stakingContract' = stakingContract
        /\ epoch' = [epoch EXCEPT ![c] = @ + 1] /\ active' = RollOver(c)
    BY <1>3 DEF handleCheckpoint
  <2>2. \A slot \in DOMAIN active :
            slot \in DOMAIN active' /\ active[slot] \subseteq active'[slot]
    BY <2>1 DEF RollOver, Put, LoadOr
  <2>3. ASSUME NEW s \in Services, stakedIn[s] = c, c \in stakingContract
        PROVE  LET slot == <<c, epoch'[c]>> IN slot \in DOMAIN active' /\ s \in active'[slot]
    BY <2>3, <2>1 DEF ActiveCoversStaked, TypeOK, RollOver, Put
  <2>4. ASSUME NEW s \in Services, stakedIn[s] # c, stakedIn[s] \in stakingContract
        PROVE  LET slot == <<stakedIn[s], epoch'[stakedIn[s]]>>
               IN  slot \in DOMAIN active' /\ s \in active'[slot]
    BY <2>1, <2>4, <2>2 DEF TypeOK, ActiveCoversStaked
  <2>. QED  BY <2>1, <2>3, <2>4 DEF ActiveCoversStaked
<1>4. ASSUME NEW c \in Contracts, NEW s \in Services, UnindexedStake(s, c)
      PROVE  ActiveCoversStaked'
  BY <1>4, NoneAssumption DEF UnindexedStake, store, ActiveCoversStaked, TypeOK
<1>5. ASSUME NEW c \in Contracts, NEW s \in Services, handleServiceStaked(s, c)
      PROVE  ActiveCoversStaked'
  <2> DEFINE slot == <<c, epoch[c]>>
  <2>1. /\ active' = Put(active, slot, LoadOr(active, slot, {}) \cup {s})
        /\ stakedIn' = [stakedIn EXCEPT ![s] = c]
        /\ epoch' = epoch /\ stakingContract' = stakingContract
    BY <1>5 DEF handleServiceStaked
  <2>2. slot \in DOMAIN active' /\ s \in active'[slot]
    BY <2>1 DEF Put
  <2>3. \A k \in DOMAIN active : k \in DOMAIN active' /\ active[k] \subseteq active'[k]
    BY <2>1 DEF Put, LoadOr
  <2>. QED  BY <2>1, <2>2, <2>3 DEF ActiveCoversStaked, TypeOK
<1>6. ASSUME NEW c \in Contracts, NEW s \in Services,
             Leaves(s, c), processUnstake(s, c, pending[s])
      PROVE  ActiveCoversStaked'
  BY <1>6, NoneAssumption DEF Leaves, processUnstake, ActiveCoversStaked, TypeOK
<1>. QED  BY <1>1, <1>2, <1>3, <1>4, <1>5, <1>6
          DEF Next, AdvanceDay, handleRewardClaimed, handleServiceUnstaked,
              handleServiceForceUnstaked, vars, chain, store

\* Every handler writes under the running epoch, and only a checkpoint marks a
\* row as settled, ending that epoch.  So a settled row is never written again.
LEMMA HistoryKept ==
    ASSUME TypeOK, SettledInPast, [Next]_vars
    PROVE  /\ \A k \in DOMAIN history :
                history[k].checkpointed => k \in DOMAIN history' /\ history'[k] = history[k]
           /\ SettledInPast'
<1> DEFINE Kept == \A k \in DOMAIN history :
                     history[k].checkpointed => k \in DOMAIN history'
                                                /\ history'[k] = history[k]
<1>0. \A k \in DOMAIN history : k \in Services \X Contracts \X Nat
  BY DEF TypeOK, PartialFn
<1>1. CASE UNCHANGED <<history, epoch>>
  BY <1>1 DEF SettledInPast
<1>2. ASSUME NEW c \in Contracts, NEW reward \in Rewards(c), handleCheckpoint(c, reward)
      PROVE  Kept /\ SettledInPast'
  <2> DEFINE zero == ZeroRewarded(c, DOMAIN reward)
             rewardKeys == {historyId(s, c) : s \in DOMAIN reward}
             zeroKeys == {historyId(s, c) : s \in zero}
  <2>1. \A k \in rewardKeys \cup zeroKeys : k[2] = c /\ k[3] = epoch[c]
    BY DEF historyId
  <2>2. history' = CheckpointHistory(c, reward, zero)
    BY <1>2 DEF handleCheckpoint
  <2>3. /\ DOMAIN history' = DOMAIN history \cup rewardKeys \cup zeroKeys
        /\ \A k \in DOMAIN history \ (rewardKeys \cup zeroKeys) : history'[k] = history[k]
    BY <2>2 DEF CheckpointHistory
  <2> HIDE DEF rewardKeys, zeroKeys, zero
  <2>4. epoch[c] \in Nat
    BY DEF TypeOK
  <2>5. epoch' = [epoch EXCEPT ![c] = @ + 1]
    BY <1>2 DEF handleCheckpoint
  <2>6. \A k \in DOMAIN history : k \in rewardKeys \cup zeroKeys => ~history[k].checkpointed
    BY <2>1, <2>4 DEF SettledInPast
  <2>7. Kept
    BY <2>3, <2>6
  <2>8. \A d \in Contracts : epoch'[d] = IF d = c THEN epoch[d] + 1 ELSE epoch[d]
    BY <2>5 DEF TypeOK
  <2>9. \A k \in rewardKeys \cup zeroKeys : k[3] < epoch'[k[2]]
    BY <2>1, <2>4, <2>8
  <2>10. \A k \in DOMAIN history : history[k].checkpointed => k[3] < epoch'[k[2]]
    BY <1>0, <2>8 DEF SettledInPast, TypeOK
  <2>. QED  BY <2>3, <2>7, <2>9, <2>10 DEF SettledInPast
<1>3. ASSUME NEW c \in Contracts, NEW s \in Services, handleServiceStaked(s, c)
      PROVE  Kept /\ SettledInPast'
  <2> DEFINE key == historyId(s, c)
  <2>1. history' = Put(history, key, LoadOr(history, key, NewHistory)) /\ epoch' = epoch
    BY <1>3 DEF handleServiceStaked
  <2> HIDE DEF key
  <2>. QED  BY <2>1 DEF SettledInPast, Put, LoadOr, NewHistory
<1>4. ASSUME NEW c \in Contracts, NEW s \in Services,
             Leaves(s, c), processUnstake(s, c, pending[s])
      PROVE  Kept /\ SettledInPast'
  <2> DEFINE key == historyId(s, c)
             row == [LoadOr(history, key, NewHistory) EXCEPT !.rewardAmount = pending[s]]
  <2>1. history' = Put(history, key, row) /\ epoch' = epoch
    BY <1>4 DEF processUnstake, Leaves
  <2>2. key[2] = c /\ key[3] = epoch[c] /\ epoch[c] \in Nat
    BY DEF historyId, TypeOK
  <2>3. key \in DOMAIN history => ~history[key].checkpointed
    BY <2>2 DEF SettledInPast
  <2>4. row.checkpointed = LoadOr(history, key, NewHistory).checkpointed
    BY FreshRows, LoadOrType DEF TypeOK, HistoryRow
  <2>5. ~row.checkpointed
    BY <2>3, <2>4 DEF LoadOr, NewHistory
  <2> HIDE DEF key, row
  <2>. QED  BY <2>1, <2>3, <2>5 DEF SettledInPast, Put
<1>. QED  BY <1>1, <1>2, <1>3, <1>4
          DEF Next, AdvanceDay, handleInstanceCreated, UnindexedStake, handleRewardClaimed,
              handleServiceUnstaked, handleServiceForceUnstaked, vars, chain, store

-----------------------------------------------------------------------------
(* The rows a service's totals are made of. *)

\* The history rows of a service, those a checkpoint settled, and their rewards.
Mine(h, s) == {k \in DOMAIN h : k[1] = s}
Settled(h, s) == {k \in Mine(h, s) : h[k].checkpointed}
Paid(h, s) == [k \in Settled(h, s) |-> h[k].rewardAmount]

\* The stakes and the earnings of all services.
StakeMap(svc) == [s \in DOMAIN svc |-> svc[s].currentOlasStaked]
EarnedMap(svc) == [s \in DOMAIN svc |-> svc[s].olasRewardsEarned]

\* Both maps have finitely many entries, all of them integers.
LEMMA MapTypes ==
    ASSUME TypeOK
    PROVE  /\ IsFiniteSet(DOMAIN service)
           /\ \A s \in DOMAIN service : /\ service[s] \in ServiceRow
                                        /\ service[s].currentOlasStaked \in Int
                                        /\ service[s].olasRewardsEarned \in Nat
                                        /\ service[s].totalEpochsParticipated \in Nat
BY ServicesAssumption, FS_Subset, RowFields DEF TypeOK, PartialFn

\* A row of a running epoch changes no settled row of any service, and is one
\* row more of its own service when it is new.
LEMMA OneRow ==
    ASSUME NEW h, IsFiniteSet(DOMAIN h), NEW key, NEW row, ~row.checkpointed,
           key \in DOMAIN h => ~h[key].checkpointed, NEW s
    PROVE  /\ Paid(Put(h, key, row), s) = Paid(h, s)
           /\ Cardinality(Mine(Put(h, key, row), s)) =
                Cardinality(Mine(h, s)) + (IF key \in DOMAIN h \/ key[1] # s THEN 0 ELSE 1)
<1>. DEFINE g == Put(h, key, row)
<1>1. DOMAIN g = DOMAIN h \cup {key} /\ \A k \in DOMAIN g : g[k] = IF k = key THEN row ELSE h[k]
  BY DEF Put
<1>. HIDE DEF g
<1>2. Settled(g, s) = Settled(h, s)
  BY <1>1 DEF Settled, Mine
<1>3. \A k \in Settled(h, s) : g[k] = h[k]
  BY <1>1 DEF Settled, Mine
<1>4. Paid(g, s) = Paid(h, s)
  BY <1>2, <1>3 DEF Paid
<1>5. IsFiniteSet(Mine(h, s)) /\ Cardinality(Mine(h, s)) \in Nat
  BY FS_Subset, FS_CardinalityType DEF Mine
<1>6. CASE key \in DOMAIN h \/ key[1] # s
  <2>1. Mine(g, s) = Mine(h, s)
    BY <1>1, <1>6 DEF Mine
  <2>. QED  BY <1>4, <1>5, <1>6, <2>1 DEF g
<1>7. CASE ~(key \in DOMAIN h \/ key[1] # s)
  <2>1. Mine(g, s) = Mine(h, s) \cup {key} /\ key \notin Mine(h, s)
    BY <1>1, <1>7 DEF Mine
  <2>. QED  BY <1>4, <1>5, <1>7, <2>1, FS_AddElement DEF g
<1>. QED  BY <1>6, <1>7

\* g is h with the row key of service s written and settled.
SettledBy(h, g, s, key) ==
    /\ IsFiniteSet(DOMAIN h) /\ key[1] = s
    /\ key \in DOMAIN h => ~h[key].checkpointed
    /\ Mine(g, s) = Mine(h, s) \cup {key}
    /\ \A k \in Mine(h, s) \ {key} : g[k] = h[k]
    /\ g[key].checkpointed /\ g[key].rewardAmount \in Int
    /\ \A k \in DOMAIN h : h[k].rewardAmount \in Int

\* A row that a checkpoint settles is one more settled row of its service, and
\* one row more when it is new.
LEMMA SettledRow ==
    ASSUME NEW h, NEW g, NEW s, NEW key, SettledBy(h, g, s, key)
    PROVE  /\ SumFunction(Paid(g, s)) = SumFunction(Paid(h, s)) + g[key].rewardAmount
           /\ Cardinality(Mine(g, s)) =
                Cardinality(Mine(h, s)) + (IF key \in DOMAIN h THEN 0 ELSE 1)
<1>. USE DEF SettledBy
<1>1. IsFiniteSet(Mine(h, s)) /\ Cardinality(Mine(h, s)) \in Nat
  BY FS_Subset, FS_CardinalityType DEF Mine
<1>2. IsFiniteSet(Settled(h, s))
  BY <1>1, FS_Subset DEF Settled
<1>3. Settled(g, s) = Settled(h, s) \cup {key} /\ key \notin Settled(h, s)
  BY DEF Settled, Mine
<1>. DEFINE a == Paid(h, s)
            b == Paid(g, s)
<1>4. /\ DOMAIN a = Settled(h, s) /\ DOMAIN b = DOMAIN a \cup {key} /\ key \notin DOMAIN a
      /\ b[key] = g[key].rewardAmount
      /\ \A k \in DOMAIN a : a[k] \in Int
      /\ \A k \in DOMAIN a \ {key} : b[k] = a[k]
  BY <1>3 DEF Paid, Settled, Mine
<1>. HIDE DEF a, b
<1>5. /\ SumFunction(b) = SumFunction(a) + b[key] - (IF key \in DOMAIN a THEN a[key] ELSE 0)
      /\ SumFunction(a) \in Int
  BY <1>2, <1>4, SumPut
<1>6. SumFunction(b) = SumFunction(a) + b[key]
  BY <1>4, <1>5
<1>7. Cardinality(Mine(g, s)) = Cardinality(Mine(h, s)) + (IF key \in DOMAIN h THEN 0 ELSE 1)
  <2>1. key \in Mine(h, s) <=> key \in DOMAIN h
    BY DEF Mine
  <2>2. Cardinality(Mine(h, s) \cup {key}) =
          IF key \in Mine(h, s) THEN Cardinality(Mine(h, s)) ELSE Cardinality(Mine(h, s)) + 1
    BY <1>1, FS_AddElement
  <2>. QED  BY <1>1, <2>1, <2>2
<1>. QED  BY <1>4, <1>6, <1>7 DEF a, b

-----------------------------------------------------------------------------
(* The totals. *)

\* How the sums over the services follow a change of one Service row.
LEMMA OneServiceSums ==
    ASSUME NEW svc, NEW svc2, IsFiniteSet(DOMAIN svc), NEW s,
           \A t \in DOMAIN svc : svc[t].currentOlasStaked \in Int /\ svc[t].olasRewardsEarned \in Int,
           DOMAIN svc2 = DOMAIN svc \cup {s},
           \A t \in DOMAIN svc : t # s => svc2[t] = svc[t],
           svc2[s].currentOlasStaked \in Int, svc2[s].olasRewardsEarned \in Int
    PROVE  /\ SumFunction(StakeMap(svc2)) = SumFunction(StakeMap(svc)) + svc2[s].currentOlasStaked
                - (IF s \in DOMAIN svc THEN svc[s].currentOlasStaked ELSE 0)
           /\ SumFunction(EarnedMap(svc2)) = SumFunction(EarnedMap(svc)) + svc2[s].olasRewardsEarned
                - (IF s \in DOMAIN svc THEN svc[s].olasRewardsEarned ELSE 0)
<1>2. /\ DOMAIN StakeMap(svc) = DOMAIN svc /\ DOMAIN StakeMap(svc2) = DOMAIN svc2
      /\ \A t \in DOMAIN svc : StakeMap(svc)[t] = svc[t].currentOlasStaked
      /\ \A t \in DOMAIN svc2 : StakeMap(svc2)[t] = svc2[t].currentOlasStaked
      /\ DOMAIN EarnedMap(svc) = DOMAIN svc /\ DOMAIN EarnedMap(svc2) = DOMAIN svc2
      /\ \A t \in DOMAIN svc : EarnedMap(svc)[t] = svc[t].olasRewardsEarned
      /\ \A t \in DOMAIN svc2 : EarnedMap(svc2)[t] = svc2[t].olasRewardsEarned
  BY DEF StakeMap, EarnedMap
<1>3. SumFunction(StakeMap(svc2)) = SumFunction(StakeMap(svc)) + StakeMap(svc2)[s]
                - (IF s \in DOMAIN svc THEN StakeMap(svc)[s] ELSE 0)
  <2>. DEFINE f == StakeMap(svc)
              g == StakeMap(svc2)
  <2>1. /\ IsFiniteSet(DOMAIN f) /\ DOMAIN g = DOMAIN f \cup {s} /\ DOMAIN f = DOMAIN svc
        /\ \A x \in DOMAIN f : f[x] \in Int
        /\ g[s] \in Int
        /\ \A x \in DOMAIN f \ {s} : g[x] = f[x]
    BY <1>2
  <2>. HIDE DEF f, g
  <2>2. SumFunction(g) = SumFunction(f) + g[s] - (IF s \in DOMAIN f THEN f[s] ELSE 0)
    BY ONLY <2>1, SumPut
  <2>. QED  BY <2>1, <2>2 DEF f, g
<1>4. SumFunction(EarnedMap(svc2)) = SumFunction(EarnedMap(svc)) + EarnedMap(svc2)[s]
                - (IF s \in DOMAIN svc THEN EarnedMap(svc)[s] ELSE 0)
  <2>. DEFINE f == EarnedMap(svc)
              g == EarnedMap(svc2)
  <2>1. /\ IsFiniteSet(DOMAIN f) /\ DOMAIN g = DOMAIN f \cup {s} /\ DOMAIN f = DOMAIN svc
        /\ \A x \in DOMAIN f : f[x] \in Int
        /\ g[s] \in Int
        /\ \A x \in DOMAIN f \ {s} : g[x] = f[x]
    BY <1>2
  <2>. HIDE DEF f, g
  <2>2. SumFunction(g) = SumFunction(f) + g[s] - (IF s \in DOMAIN f THEN f[s] ELSE 0)
    BY ONLY <2>1, SumPut
  <2>. QED  BY <2>1, <2>2 DEF f, g
<1>. QED  BY <1>2, <1>3, <1>4

\* What a checkpoint writes to the history.
LEMMA CheckpointKeys ==
    ASSUME TypeOK, RowsKnown, StakeMirrorsChain, NEW c \in Contracts,
           NEW reward \in Rewards(c), handleCheckpoint(c, reward)
    PROVE  LET zero == ZeroRewarded(c, DOMAIN reward)
               keys == {<<s, c, epoch[c]>> : s \in DOMAIN reward \cup zero}
           IN  /\ DOMAIN reward \cup zero \subseteq DOMAIN service
               /\ DOMAIN history' = DOMAIN history \cup keys
               /\ IsFiniteSet(keys)
               /\ \A k \in DOMAIN history \ keys : history'[k] = history[k]
               /\ \A s \in DOMAIN reward \cup zero :
                    history'[<<s, c, epoch[c]>>] =
                       [rewardAmount |-> IF s \in DOMAIN reward THEN reward[s] ELSE 0,
                        checkpointed |-> TRUE]
<1>. DEFINE zero == ZeroRewarded(c, DOMAIN reward)
            all == DOMAIN reward \cup zero
            keys == {<<s, c, epoch[c]>> : s \in all}
            rewardKeys == {historyId(s, c) : s \in DOMAIN reward}
            zeroKeys == {historyId(s, c) : s \in zero}
<1>1. DOMAIN reward \subseteq DOMAIN service
  BY CheckpointEffect
<1>2. zero \subseteq DOMAIN service /\ zero \cap DOMAIN reward = {}
  BY DEF ZeroRewarded, LoadOr, RowsKnown
<1>3. history' = CheckpointHistory(c, reward, zero)
  BY DEF handleCheckpoint
<1>. HIDE DEF zero
<1>4. rewardKeys \cup zeroKeys = keys
  BY DEF historyId
<1>5. /\ DOMAIN history' = DOMAIN history \cup rewardKeys \cup zeroKeys
      /\ \A k \in DOMAIN history' :
           history'[k] = IF k \in zeroKeys THEN [rewardAmount |-> 0, checkpointed |-> TRUE]
                         ELSE IF k \in rewardKeys
                              THEN [rewardAmount |-> reward[k[1]], checkpointed |-> TRUE]
                              ELSE history[k]
  BY <1>3 DEF CheckpointHistory
<1>6. IsFiniteSet(keys)
  <2>1. IsFiniteSet(all)
    BY <1>1, <1>2, MapTypes, FS_Subset
  <2>. DEFINE g == [s \in all |-> <<s, c, epoch[c]>>]
  <2>2. g \in Surjection(all, keys)
    BY DEF Surjection
  <2>. HIDE DEF all, keys, g
  <2>. QED  BY <2>1, <2>2, FS_Surjection
<1>7. \A s \in all : /\ <<s, c, epoch[c]>> \in zeroKeys <=> s \in zero
                     /\ <<s, c, epoch[c]>> \in rewardKeys <=> s \in DOMAIN reward
                     /\ <<s, c, epoch[c]>>[1] = s
  BY DEF historyId
<1>. HIDE DEF rewardKeys, zeroKeys
<1>8. \A k \in DOMAIN history \ keys : history'[k] = history[k]
  BY <1>4, <1>5
<1>9. ASSUME NEW s \in all
      PROVE  history'[<<s, c, epoch[c]>>] =
                       [rewardAmount |-> IF s \in DOMAIN reward THEN reward[s] ELSE 0,
                        checkpointed |-> TRUE]
  BY <1>4, <1>5, <1>2, <1>7
<1>. QED  BY <1>1, <1>2, <1>4, <1>5, <1>6, <1>8, <1>9 DEF zero

\* Rows of the history and trackers are only written for services with a row.
LEMMA NextRowsKnown ==
    ASSUME TypeOK, StakeMirrorsChain, RowsKnown, [Next]_vars
    PROVE  RowsKnown'
<1>1. CASE UNCHANGED <<history, active, service>>
  BY <1>1 DEF RowsKnown
<1>2. ASSUME NEW c \in Contracts, NEW reward \in Rewards(c), handleCheckpoint(c, reward)
      PROVE  RowsKnown'
  <2>1. DOMAIN service' = DOMAIN service
    BY <1>2, CheckpointEffect
  <2>2. IsFiniteSet(DOMAIN history') /\ \A k \in DOMAIN history' : k[1] \in DOMAIN service
    <3>. DEFINE keys == {<<s, c, epoch[c]>> : s \in DOMAIN reward \cup ZeroRewarded(c, DOMAIN reward)}
    <3>1. /\ DOMAIN history' = DOMAIN history \cup keys /\ IsFiniteSet(keys)
          /\ \A k \in keys : k[1] \in DOMAIN service
      BY <1>2, CheckpointKeys
    <3>. HIDE DEF keys
    <3>. QED  BY <3>1, FS_Union DEF RowsKnown
  <2>3. \A slot \in DOMAIN active' : active'[slot] \subseteq DOMAIN service
    BY <1>2 DEF handleCheckpoint, RollOver, Put, LoadOr, RowsKnown
  <2>. QED  BY <2>1, <2>2, <2>3 DEF RowsKnown
<1>3. ASSUME NEW c \in Contracts, NEW s \in Services, handleServiceStaked(s, c)
      PROVE  RowsKnown'
  <2>1. DOMAIN service' = DOMAIN service \cup {s}
    BY <1>3 DEF handleServiceStaked, Put
  <2>2. /\ DOMAIN history' = DOMAIN history \cup {historyId(s, c)}
        /\ historyId(s, c)[1] = s
    BY <1>3 DEF handleServiceStaked, Put, historyId
  <2>3. \A slot \in DOMAIN active' : active'[slot] \subseteq DOMAIN service \cup {s}
    BY <1>3 DEF handleServiceStaked, Put, LoadOr, RowsKnown
  <2>. QED  BY <2>1, <2>2, <2>3, FS_AddElement DEF RowsKnown
<1>4. ASSUME NEW c \in Contracts, NEW s \in Services, handleRewardClaimed(s, c)
      PROVE  RowsKnown'
  BY <1>4, ClaimEffect DEF handleRewardClaimed, RowsKnown
<1>5. ASSUME NEW c \in Contracts, NEW s \in Services,
             Leaves(s, c), processUnstake(s, c, pending[s])
      PROVE  RowsKnown'
  <2>1. DOMAIN service' = DOMAIN service /\ s \in DOMAIN service /\ active' = active
    BY <1>5, UnstakeEffect DEF processUnstake
  <2>2. /\ DOMAIN history' = DOMAIN history \cup {historyId(s, c)}
        /\ historyId(s, c)[1] = s
    BY <1>5 DEF processUnstake, Put, historyId
  <2>. QED  BY <2>1, <2>2, FS_AddElement DEF RowsKnown
<1>. QED  BY <1>1, <1>2, <1>3, <1>4, <1>5
          DEF Next, AdvanceDay, handleInstanceCreated, UnindexedStake, handleServiceUnstaked,
              handleServiceForceUnstaked, vars, chain, store

\* What a checkpoint does to the totals and to the snapshot of its day.
LEMMA CheckpointTotals ==
    ASSUME TypeOK, StakeMirrorsChain, NEW c \in Contracts, NEW reward \in Rewards(c),
           handleCheckpoint(c, reward)
    PROVE  /\ IsFiniteSet(DOMAIN reward) /\ SumFunction(reward) \in Nat
           /\ global'.currentOlasStaked = global.currentOlasStaked
           /\ global'.cumulativeOlasStaked = global.cumulativeOlasStaked
           /\ global'.cumulativeOlasUnstaked = global.cumulativeOlasUnstaked
           /\ global'.totalRewards = global.totalRewards + SumFunction(reward)
           /\ global'.lastActiveDayTimestamp = day /\ day' = day
           /\ DOMAIN snapshot' = DOMAIN snapshot \cup {day}
           /\ \A d \in DOMAIN snapshot : d # day => snapshot'[d] = snapshot[d]
           /\ snapshot'[day].totalRewards = global.totalRewards + SumFunction(reward)
           /\ snapshot'[day].numServices = Cardinality(DOMAIN service)
           /\ snapshot'[day].medianCumulativeRewards =
                computeMedianOfAllServices(EarnedMap(service'))
<1>1. IsFiniteSet(DOMAIN reward) /\ \A s \in DOMAIN reward : reward[s] \in Nat
  BY CheckpointEffect, RewardsShape, MapTypes, FS_Subset
<1>2. SumFunction(reward) \in Nat
  BY <1>1, SumFunctionType
<1>3. DOMAIN global = GlobalFields
  BY DEF TypeOK, IsGlobalRow
<1>. DEFINE total == global.totalRewards + SumFunction(reward)
            row == SnapshotRow(service', total)
<1>4. global' = [global EXCEPT !.totalRewards = total, !.lastActiveDayTimestamp = day]
  BY DEF handleCheckpoint, upsertCumulativeDailyStakingGlobal, GlobalAfter
<1>5. snapshot' = Put(snapshot, day, row) /\ day' = day
  BY DEF handleCheckpoint, upsertCumulativeDailyStakingGlobal
<1>6. DOMAIN service' = DOMAIN service
  BY CheckpointEffect
<1>7. /\ row.totalRewards = total /\ row.numServices = Cardinality(DOMAIN service)
      /\ row.medianCumulativeRewards = computeMedianOfAllServices(EarnedMap(service'))
  BY <1>6 DEF SnapshotRow, EarnedMap
<1>. HIDE DEF total, row
<1>8. /\ global'.currentOlasStaked = global.currentOlasStaked
      /\ global'.cumulativeOlasStaked = global.cumulativeOlasStaked
      /\ global'.cumulativeOlasUnstaked = global.cumulativeOlasUnstaked
      /\ global'.totalRewards = total /\ global'.lastActiveDayTimestamp = day
  BY <1>3, <1>4 DEF GlobalFields
<1>9. /\ DOMAIN snapshot' = DOMAIN snapshot \cup {day} /\ snapshot'[day] = row
      /\ \A d \in DOMAIN snapshot : d # day => snapshot'[d] = snapshot[d]
  BY <1>5 DEF Put
<1>. QED  BY <1>1, <1>2, <1>5, <1>7, <1>8, <1>9 DEF total

\* What the other handlers do to the Global row.
LEMMA GlobalStakes ==
    ASSUME TypeOK, NEW n
    PROVE  /\ LET g == [global EXCEPT !.cumulativeOlasStaked = @ + n,
                                      !.currentOlasStaked = @ + n]
              IN  /\ g.cumulativeOlasStaked = global.cumulativeOlasStaked + n
                  /\ g.currentOlasStaked = global.currentOlasStaked + n
                  /\ g.cumulativeOlasUnstaked = global.cumulativeOlasUnstaked
                  /\ g.totalRewards = global.totalRewards
                  /\ g.lastActiveDayTimestamp = global.lastActiveDayTimestamp
           /\ LET g == GlobalUnstake(global, n)
              IN  /\ g.cumulativeOlasStaked = global.cumulativeOlasStaked
                  /\ g.currentOlasStaked = global.currentOlasStaked - n
                  /\ g.cumulativeOlasUnstaked = global.cumulativeOlasUnstaked + n
                  /\ g.totalRewards = global.totalRewards
                  /\ g.lastActiveDayTimestamp = global.lastActiveDayTimestamp
BY DEF TypeOK, IsGlobalRow, GlobalFields, GlobalUnstake

\* Rewards are added to a RewardUpdate row and nothing is taken off.
LEMMA RewardUpdateShape ==
    ASSUME SnapshotsInPast, TypeOK, [Next]_vars
    PROVE  rewardUpdate' = [x \in {"Claimable", "Claimed"} |-> rewardUpdate'[x]]
<1>1. rewardUpdate = [x \in {"Claimable", "Claimed"} |-> rewardUpdate[x]]
  BY DEF SnapshotsInPast
<1>2. CASE UNCHANGED rewardUpdate
  BY <1>1, <1>2
<1>3. ASSUME NEW c \in Contracts, NEW reward \in Rewards(c), handleCheckpoint(c, reward)
      PROVE  rewardUpdate' = [x \in {"Claimable", "Claimed"} |-> rewardUpdate'[x]]
  BY <1>3, <1>1 DEF handleCheckpoint
<1>4. ASSUME NEW c \in Contracts, NEW s \in Services,
             handleRewardClaimed(s, c) \/ handleServiceUnstaked(s, c)
      PROVE  rewardUpdate' = [x \in {"Claimable", "Claimed"} |-> rewardUpdate'[x]]
  BY <1>4, <1>1 DEF handleRewardClaimed, handleServiceUnstaked
<1>. QED  BY <1>2, <1>3, <1>4
          DEF Next, AdvanceDay, handleInstanceCreated, UnindexedStake, handleServiceStaked,
              handleServiceForceUnstaked, vars, chain, store

\* Snapshots are of the running day or before it.
LEMMA NextSnapshotsInPast ==
    ASSUME TypeOK, StakeMirrorsChain, SnapshotsInPast, [Next]_vars
    PROVE  SnapshotsInPast'
<1>1. ASSUME UNCHANGED <<snapshot, rewardUpdate, global>>, day' \in Nat, day <= day',
             DOMAIN service' = DOMAIN service
      PROVE  SnapshotsInPast'
  BY <1>1 DEF SnapshotsInPast, TypeOK, IsGlobalRow
<1>. DEFINE Base == /\ global.lastActiveDayTimestamp \in Nat /\ day \in Nat /\ day # 0
                    /\ rewardUpdate' = [x \in {"Claimable", "Claimed"} |-> rewardUpdate'[x]]
<1>0. Base
  BY RewardUpdateShape DEF SnapshotsInPast, TypeOK, IsGlobalRow
<1>2. ASSUME NEW c \in Contracts, NEW reward \in Rewards(c), handleCheckpoint(c, reward)
      PROVE  SnapshotsInPast'
  BY <1>2, CheckpointEffect, MapTypes, FS_CardinalityType, CheckpointTotals, <1>0 DEF
      SnapshotsInPast
<1>3. ASSUME global'.totalRewards = global.totalRewards,
             global'.lastActiveDayTimestamp = global.lastActiveDayTimestamp,
             UNCHANGED <<snapshot, day>>, IsFiniteSet(DOMAIN service'),
             DOMAIN service \subseteq DOMAIN service'
      PROVE  SnapshotsInPast'
  BY <1>3, MapTypes, FS_CardinalityType, FS_Subset, <1>0 DEF SnapshotsInPast
<1>4. ASSUME NEW c \in Contracts, NEW s \in Services, handleServiceStaked(s, c)
      PROVE  SnapshotsInPast'
  BY <1>4, GlobalStakes, <1>3, MapTypes, FS_AddElement DEF handleServiceStaked, Put
<1>5. ASSUME NEW c \in Contracts, NEW s \in Services, handleRewardClaimed(s, c)
      PROVE  SnapshotsInPast'
  BY <1>5, ClaimEffect, <1>3, MapTypes DEF handleRewardClaimed
<1>6. ASSUME NEW c \in Contracts, NEW s \in Services,
             Leaves(s, c), processUnstake(s, c, pending[s])
      PROVE  SnapshotsInPast'
  BY <1>6, UnstakeEffect, GlobalStakes, <1>3, MapTypes DEF Leaves, processUnstake
<1>7. CASE AdvanceDay
  BY <1>1, <1>7 DEF AdvanceDay, store, TypeOK
<1>8. CASE UNCHANGED <<service, snapshot, rewardUpdate, global, day>>
  BY <1>1, <1>8 DEF TypeOK
<1>. QED  BY <1>2, <1>4, <1>5, <1>6, <1>7, <1>8
          DEF Next, handleInstanceCreated, UnindexedStake, handleServiceUnstaked,
              handleServiceForceUnstaked, vars, chain, store

-----------------------------------------------------------------------------
(* The invariants, for every value of the constants. *)

\* The inductive invariant holds initially and is kept by every handler.
LEMMA InitInv == Init => IInv
<1>1. ASSUME Init PROVE TypeOK
  BY <1>1, InitType
<1>2. ASSUME Init PROVE Placement /\ ActiveCoversStaked /\ SettledInPast
  BY <1>2 DEF Init, Placement, ActiveCoversStaked, SettledInPast, NoRows
<1>3. ASSUME Init PROVE StakeMirrorsChain
  BY <1>3, NoneAssumption DEF Init, StakeMirrorsChain, NoRows
<1>4. ASSUME Init PROVE RewardsAccounted
  BY <1>4 DEF Init, RewardsAccounted, LoadOr, NewService, NoRows
<1>5. ASSUME Init PROVE RowsKnown /\ SnapshotsInPast
  BY <1>5, FS_EmptySet DEF Init, RowsKnown, SnapshotsInPast, NoRows
<1>. QED  BY <1>1, <1>2, <1>3, <1>4, <1>5 DEF IInv

\* Every handler keeps it.
LEMMA NextInv == ASSUME IInv, [Next]_vars PROVE IInv'
BY NextType, NextPlacement, NextStakeMirrors, NextRewards, NextActive, HistoryKept,
     NextRowsKnown, NextSnapshotsInPast DEF IInv

\* The inductive invariant holds in every reachable state.
THEOREM Inductive == Spec => []IInv
BY InitInv, NextInv, PTL DEF Spec

\* Rows, trackers and totals have their types in every reachable state.
THEOREM TypeCorrect == Spec => []TypeOK
BY Inductive, PTL DEF IInv

\* A Service row mirrors where the service is staked and that contract's stake,
\* after any number of restakes and migrations between any contracts.
THEOREM StakeMirrored == Spec => []StakeMirrorsChain
BY Inductive, PTL DEF IInv

\* What was earned at checkpoints is what was claimed plus what is still owed.
THEOREM RewardsAlwaysAccounted == Spec => []RewardsAccounted
BY Inductive, PTL DEF IInv

\* The tracker of the running epoch never misses a staked service.
THEOREM ActiveAlwaysCovers == Spec => []ActiveCoversStaked
BY Inductive, PTL DEF IInv

\* A settled history row is never changed or removed.
THEOREM HistoryFrozen == Spec => SettledRowsFrozen
<1>1. IInv /\ [Next]_vars =>
        [\A k \in DOMAIN history :
            history[k].checkpointed => /\ k \in DOMAIN history'
                                       /\ history'[k] = history[k]]_vars
  BY HistoryKept DEF IInv
<1>. QED  BY <1>1, Inductive, PTL DEF Spec, SettledRowsFrozen

-----------------------------------------------------------------------------
(* The checkpoint's two passes. *)

\* A staked service is rewarded or gets the zero-reward entry: the tracker lists
\* it and its row names the contract, so the migration filter lets it through.
LEMMA CheckpointSettles ==
    ASSUME IInv, [Next]_vars, NEW c \in stakingContract, epoch'[c] # epoch[c],
           NEW s \in Services, stakedIn[s] = c
    PROVE  LET k == <<s, c, epoch[c]>> IN k \in DOMAIN history' /\ history'[k].checkpointed
<1>1. c \in Contracts
  BY DEF IInv, TypeOK
<1>2. PICK reward \in Rewards(c) : handleCheckpoint(c, reward)
  <2>1. PICK d \in Contracts : \E reward \in Rewards(d) : handleCheckpoint(d, reward)
    BY DEF Next, AdvanceDay, handleInstanceCreated, UnindexedStake, handleServiceStaked,
           handleRewardClaimed, handleServiceUnstaked, handleServiceForceUnstaked, Leaves,
           vars, chain, store
  <2>2. d = c
    BY <1>1, <2>1 DEF handleCheckpoint, IInv, TypeOK
  <2>. QED  BY <2>1, <2>2
<1> DEFINE zero == ZeroRewarded(c, DOMAIN reward)
<1>3. s \in DOMAIN reward \cup zero
  BY StakedHasRow DEF IInv, ActiveCoversStaked, ZeroRewarded, LoadOr
<1>4. history' = CheckpointHistory(c, reward, zero)
  BY <1>2 DEF handleCheckpoint
<1> HIDE DEF zero
<1>. QED  BY <1>3, <1>4 DEF CheckpointHistory, historyId

\* A checkpoint settles the epoch of every service staked in its contract.
THEOREM CheckpointComplete == Spec => CheckpointSettlesAll
<1>1. IInv /\ [Next]_vars =>
        [\A c \in stakingContract : epoch'[c] # epoch[c] =>
            \A s \in Services : stakedIn[s] = c =>
               LET k == <<s, c, epoch[c]>>
               IN k \in DOMAIN history' /\ history'[k].checkpointed]_vars
  BY CheckpointSettles
<1>. QED  BY <1>1, Inductive, PTL DEF Spec, CheckpointSettlesAll

\* A new history row names the contract its service is staked in, if that is an
\* indexed contract at all.
LEMMA NewRowsAtHome ==
    ASSUME IInv, [Next]_vars, NEW k \in DOMAIN history' \ DOMAIN history,
           stakedIn'[k[1]] \in stakingContract
    PROVE  stakedIn'[k[1]] = k[2]
<1>1. ASSUME NEW c \in Contracts, NEW reward \in Rewards(c), handleCheckpoint(c, reward)
      PROVE  stakedIn'[k[1]] = k[2]
  <2> DEFINE zero == ZeroRewarded(c, DOMAIN reward)
  <2>1. history' = CheckpointHistory(c, reward, zero) /\ stakedIn' = stakedIn
    BY <1>1 DEF handleCheckpoint
  <2>2. PICK s \in DOMAIN reward \cup zero : k = <<s, c, epoch[c]>>
    BY <2>1 DEF CheckpointHistory, historyId
  <2>3. CASE s \in DOMAIN reward
    BY <2>1, <2>2, <2>3, RewardsShape
  <2>4. CASE s \in zero
    BY <2>4, <2>1, <2>2, StakedHasRow DEF ZeroRewarded, LoadOr, IInv, TypeOK, PartialFn
  <2>. QED  BY <2>2, <2>3, <2>4
<1>2. ASSUME NEW c \in Contracts, NEW s \in Services, handleServiceStaked(s, c)
      PROVE  stakedIn'[k[1]] = k[2]
  BY <1>2 DEF handleServiceStaked, Put, historyId, IInv, TypeOK
<1>3. ASSUME NEW c \in Contracts, NEW s \in Services,
             Leaves(s, c), processUnstake(s, c, pending[s])
      PROVE  FALSE
  BY <1>3, NoneAssumption DEF processUnstake, Leaves, Put, historyId, IInv, TypeOK
<1>. QED  BY <1>1, <1>2, <1>3
          DEF Next, AdvanceDay, handleInstanceCreated, UnindexedStake, handleRewardClaimed,
              handleServiceUnstaked, handleServiceForceUnstaked, vars, chain, store

\* A contract writes no new row for a service that migrated to another one.
THEOREM MigrationRespected == Spec => MigratedGetsNoRow
<1>1. IInv /\ [Next]_vars =>
        [\A k \in DOMAIN history' \ DOMAIN history :
            stakedIn'[k[1]] \in stakingContract => stakedIn'[k[1]] = k[2]]_vars
  BY NewRowsAtHome
<1>. QED  BY <1>1, Inductive, PTL DEF Spec, MigratedGetsNoRow

-----------------------------------------------------------------------------
(* Refinement of the ledger of stakes and rewards. *)

\* The ledger's view of a service that has a row, and of one that has none.
LEMMA LedgerView ==
    ASSUME NEW s \in Services
    PROVE  /\ HomeOf[s] = LoadOr(service, s, NewService).latestStakingContract
           /\ EarnedOf[s] = LoadOr(service, s, NewService).olasRewardsEarned
           /\ ClaimedOf[s] = LoadOr(service, s, NewService).olasRewardsClaimed
BY DEF HomeOf, EarnedOf, ClaimedOf

\* The ledger is at home where the invariant says the service is staked.
LEMMA LedgerTypes ==
    ASSUME IInv, NEW s \in Services
    PROVE  /\ HomeOf[s] = IF stakedIn[s] \in stakingContract THEN stakedIn[s] ELSE None
           /\ EarnedOf[s] \in Nat /\ ClaimedOf[s] \in Nat /\ pending[s] \in Nat
           /\ EarnedOf[s] = ClaimedOf[s] + pending[s]
BY FreshRows, LoadOrType, RowFields, LedgerView DEF IInv, TypeOK, RewardsAccounted,
    StakeMirrorsChain, LoadOr, NewService

\* Every step of the subgraph is one ledger step or none.
LEMMA LedgerStep == ASSUME IInv, [Next]_vars PROVE [Ledger!Next]_(Ledger!vars)
<1>1. CASE UNCHANGED service
  BY <1>1 DEF Ledger!vars, HomeOf, EarnedOf, ClaimedOf
<1>2. ASSUME NEW c \in Contracts, NEW reward \in Rewards(c), handleCheckpoint(c, reward)
      PROVE  Ledger!Pay(c)
  <2>1. \A s \in DOMAIN reward : reward[s] \in Nat \ {0}
    BY RewardsShape
  <2>2. /\ DOMAIN service' = DOMAIN service
        /\ \A s \in DOMAIN service :
             /\ service'[s].latestStakingContract = service[s].latestStakingContract
             /\ service'[s].olasRewardsClaimed = service[s].olasRewardsClaimed
             /\ service'[s].olasRewardsEarned = service[s].olasRewardsEarned
                    + (IF s \in DOMAIN reward THEN reward[s] ELSE 0)
        /\ \A s \in DOMAIN reward : s \in DOMAIN service /\ stakedIn[s] = c
        /\ c \in stakingContract
    BY <1>2, CheckpointEffect DEF IInv
  <2>3. HomeOf' = HomeOf /\ ClaimedOf' = ClaimedOf
    BY <2>2 DEF HomeOf, ClaimedOf, LoadOr
  <2>4. ASSUME NEW s \in Services
        PROVE  /\ EarnedOf'[s] \in Nat
               /\ \/ EarnedOf'[s] = EarnedOf[s]
                  \/ HomeOf[s] = c /\ EarnedOf'[s] > EarnedOf[s]
    BY LedgerTypes, <2>2, LedgerView, <2>1 DEF EarnedOf, LoadOr, NewService
  <2>5. EarnedOf' \in [Services -> Nat]
    BY <2>4 DEF EarnedOf
  <2>. QED  BY <2>3, <2>4, <2>5 DEF Ledger!Pay
<1>3. ASSUME NEW c \in Contracts, NEW s \in Services, handleServiceStaked(s, c)
      PROVE  Ledger!Stake(s, c)
  <2>1. StakedResult(s, c)
    BY <1>3, StakedEffect DEF IInv
  <2>2. HomeOf[s] = None
    BY <2>1, LedgerTypes, NoneAssumption DEF StakedResult
  <2>3. HomeOf' = [HomeOf EXCEPT ![s] = c]
    BY <2>1 DEF StakedResult, HomeOf, LoadOr
  <2>4. EarnedOf' = EarnedOf /\ ClaimedOf' = ClaimedOf
    BY <2>1 DEF StakedResult, EarnedOf, ClaimedOf, LoadOr
  <2>. QED  BY <2>2, <2>3, <2>4 DEF Ledger!Stake
<1>4. ASSUME NEW c \in Contracts, NEW s \in Services, handleRewardClaimed(s, c)
      PROVE  Ledger!Claim(s)
  <2>1. pending[s] > 0 /\ stakedIn[s] = c /\ c \in stakingContract
    BY <1>4 DEF handleRewardClaimed
  <2>2. HomeOf[s] # None /\ EarnedOf[s] > ClaimedOf[s]
    BY <2>1, LedgerTypes, NoneAssumption
  <2>3. HomeOf' = HomeOf /\ EarnedOf' = EarnedOf
    BY <1>4, ClaimEffect DEF IInv, HomeOf, EarnedOf, LoadOr
  <2>4. ClaimedOf' = [ClaimedOf EXCEPT ![s] = EarnedOf[s]]
    BY <1>4, ClaimEffect, LedgerTypes DEF IInv, ClaimedOf, LoadOr
  <2>. QED  BY <2>2, <2>3, <2>4 DEF Ledger!Claim, Ledger!Settle
<1>5. ASSUME NEW c \in Contracts, NEW s \in Services,
             Leaves(s, c), processUnstake(s, c, pending[s])
      PROVE  Ledger!Leave(s)
  <2>1. HomeOf[s] # None
    BY <1>5, LedgerTypes, NoneAssumption DEF Leaves
  <2>2. HomeOf' = [HomeOf EXCEPT ![s] = None]
    BY <1>5, UnstakeEffect DEF IInv, HomeOf, LoadOr
  <2>4. EarnedOf' = EarnedOf
    BY <1>5, UnstakeEffect DEF IInv, EarnedOf, LoadOr
  <2>3. ClaimedOf' = [ClaimedOf EXCEPT ![s] = EarnedOf[s]]
    <3>1. ClaimedOf' = [ClaimedOf EXCEPT ![s] = ClaimedOf[s] + pending[s]]
      BY <1>5, UnstakeEffect DEF IInv, ClaimedOf, LoadOr
    <3>. QED  BY <3>1, LedgerTypes
  <2>. QED  BY <2>1, <2>2, <2>3, <2>4 DEF Ledger!Leave, Ledger!Settle
<1>. QED  BY <1>1, <1>2, <1>3, <1>4, <1>5
          DEF Next, AdvanceDay, handleInstanceCreated, UnindexedStake, handleServiceUnstaked,
              handleServiceForceUnstaked, vars, chain, store, Ledger!Next

\* The Service rows implement the ledger: a service is at home in one contract
\* at a time, earns only there, and leaves with everything claimed.
THEOREM RefinesLedger == Spec => LedgerSpec
<1>1. Init => Ledger!Init
  BY DEF Init, Ledger!Init, HomeOf, EarnedOf, ClaimedOf, LoadOr, NoRows, NewService
<1>2. IInv /\ [Next]_vars => [Ledger!Next]_(Ledger!vars)
  BY LedgerStep
<1>. QED  BY <1>1, <1>2, Inductive, PTL DEF Spec, LedgerSpec, Ledger!Spec

-----------------------------------------------------------------------------
(* The daily median. *)

\* How many values of f are below v, and how many are at most v.
Below(f, v) == {x \in DOMAIN f : f[x] < v}
UpTo(f, v) == {x \in DOMAIN f : f[x] <= v}

\* The sets of positions KthSmallest counts are finite, and grow with the value.
LEMMA Counts ==
    ASSUME NEW f, IsFiniteSet(DOMAIN f), \A x \in DOMAIN f : f[x] \in Int, NEW v \in Int
    PROVE  /\ Cardinality(DOMAIN f) \in Nat
           /\ Cardinality(Below(f, v)) \in Nat /\ Cardinality(UpTo(f, v)) \in Nat
           /\ Cardinality(UpTo(f, v)) <= Cardinality(DOMAIN f)
           /\ Cardinality(Below(f, v)) <= Cardinality(UpTo(f, v))
           /\ Cardinality({x \in DOMAIN f : f[x] >= v}) =
                Cardinality(DOMAIN f) - Cardinality(Below(f, v))
           /\ \A u \in Int : u < v => Cardinality(UpTo(f, u)) <= Cardinality(Below(f, v))
<1>. DEFINE D == DOMAIN f
<1>1. Below(f, v) \subseteq UpTo(f, v) /\ UpTo(f, v) \subseteq D
  BY DEF Below, UpTo
<1>2. IsFiniteSet(UpTo(f, v)) /\ IsFiniteSet(Below(f, v))
  BY <1>1, FS_Subset
<1>3. {x \in D : f[x] >= v} = D \ Below(f, v) /\ D \cap Below(f, v) = Below(f, v)
  BY DEF Below
<1>4. Cardinality(D \ Below(f, v)) = Cardinality(D) - Cardinality(Below(f, v))
  BY <1>3, FS_Difference
<1>5. ASSUME NEW u \in Int, u < v
      PROVE  Cardinality(UpTo(f, u)) <= Cardinality(Below(f, v))
  BY <1>5, <1>2, FS_Subset DEF UpTo, Below
<1>. QED  BY <1>1, <1>2, <1>3, <1>4, <1>5, FS_Subset, FS_CardinalityType

\* The values of a function on a finite set are finitely many.
LEMMA FiniteRange == ASSUME NEW f, IsFiniteSet(DOMAIN f) PROVE IsFiniteSet(Range(f))
<1>. DEFINE g == [x \in DOMAIN f |-> f[x]]
<1>1. g \in Surjection(DOMAIN f, Range(f))
  BY DEF Surjection, Range
<1>. QED  BY <1>1, FS_Surjection

\* The k-th element of the sorted array: there is one, with fewer than k values
\* below it and k at most it.
LEMMA KthSmallestExists ==
    ASSUME NEW f, IsFiniteSet(DOMAIN f), \A x \in DOMAIN f : f[x] \in Int,
           NEW k \in 1 .. Cardinality(DOMAIN f)
    PROVE  /\ KthSmallest(f, k) \in Range(f)
           /\ Cardinality(Below(f, KthSmallest(f, k))) < k
           /\ Cardinality(UpTo(f, KthSmallest(f, k))) >= k
<1>. DEFINE n == Cardinality(DOMAIN f)
            C == {v \in Range(f) : Cardinality(UpTo(f, v)) >= k}
<1>0. n \in Nat /\ k \in Nat /\ k > 0 /\ k <= n
  BY FS_CardinalityType
<1>1. IsFiniteSet(Range(f)) /\ Range(f) \subseteq Int
  BY FiniteRange DEF Range
<1>2. Range(f) # {} BY <1>0, FS_EmptySet DEF Range
<1>3. C # {}
  <2>1. PICK m \in Range(f) : \A y \in Range(f) : y <= m
    BY <1>1, <1>2, FiniteIntExtremes
  <2>2. UpTo(f, m) = DOMAIN f
    BY <2>1 DEF UpTo, Range
  <2>. QED  BY <1>0, <2>2
<1>4. IsFiniteSet(C) /\ C \subseteq Int
  BY <1>1, FS_Subset
<1>5. PICK v \in C : \A y \in C : v <= y
  <2>. HIDE DEF C
  <2>. QED  BY <1>3, <1>4, FiniteIntExtremes
<1>6. Cardinality(Below(f, v)) < k
  <2>. DEFINE W == {w \in Range(f) : w < v}
  <2>1. CASE W = {} BY <2>1, <1>0, FS_EmptySet DEF Below, Range
  <2>2. CASE W # {}
    <3>1. IsFiniteSet(W) /\ W \subseteq Int
      BY <1>1, FS_Subset
    <3>2. PICK u \in W : \A y \in W : y <= u
      <4>. HIDE DEF W
      <4>. QED  BY <2>2, <3>1, FiniteIntExtremes
    <3>3. Below(f, v) = UpTo(f, u)
      BY <1>1, <1>4, <3>2 DEF Below, UpTo, Range
    <3>4. u \notin C
      BY <1>1, <1>4, <1>5, <3>2
    <3>5. Cardinality(UpTo(f, u)) < k
      <4>1. u \in Int /\ u \in Range(f)
        BY <1>1, <3>2
      <4>2. Cardinality(UpTo(f, u)) \in Nat
        BY <4>1, Counts
      <4>3. ~(Cardinality(UpTo(f, u)) >= k)
        BY <3>4, <4>1
      <4>. QED  BY <1>0, <4>2, <4>3
    <3>. QED  BY <3>3, <3>5
  <2>. QED  BY <2>1, <2>2
<1>7. \E w \in Range(f) : /\ Cardinality({x \in DOMAIN f : f[x] < w}) < k
                          /\ Cardinality({x \in DOMAIN f : f[x] <= w}) >= k
  BY <1>5, <1>6 DEF Below, UpTo
<1>. QED  BY <1>7 DEF KthSmallest, Below, UpTo

\* The code's median - the middle of the sorted array, or the truncated mean of
\* the two middle elements - is the mean of the lower and the upper median of
\* the definition, for every non-empty list of amounts.
THEOREM MedianCorrect ==
    ASSUME NEW f, IsFiniteSet(DOMAIN f), DOMAIN f # {}, \A x \in DOMAIN f : f[x] \in Int
    PROVE  computeMedianOfAllServices(f) = MedianOf(f)
<1>. DEFINE n == Cardinality(DOMAIN f)
            low == {v \in Range(f) : 2 * Cardinality(UpTo(f, v)) >= n}
            high == {v \in Range(f) : 2 * Cardinality({x \in DOMAIN f : f[x] >= v}) >= n}
            m == n \div 2
<1>1. n \in Nat /\ n > 0
  BY FS_CardinalityType, FS_EmptySet
<1>2. Range(f) \subseteq Int
  BY DEF Range
<1>3. MedianOf(f) = (Min(low) + Max(high)) \div 2
  BY DEF MedianOf, UpTo
<1>4. ASSUME NEW v \in Range(f), NEW k \in Nat, 2 * k >= n, 2 * (k - 1) < n,
             Cardinality(Below(f, v)) < k, Cardinality(UpTo(f, v)) >= k
      PROVE  Min(low) = v
  <2>1. v \in low
    <3>1. Cardinality(UpTo(f, v)) \in Nat
      BY <1>2, Counts
    <3>2. 2 * Cardinality(UpTo(f, v)) >= n
      BY <1>1, <1>4, <3>1
    <3>. QED  BY <3>2
  <2>2. ASSUME NEW u \in low PROVE v <= u
    <3>1. u \in Int /\ v \in Int /\ 2 * Cardinality(UpTo(f, u)) >= n
      BY <1>2
    <3>2. u < v => Cardinality(UpTo(f, u)) <= Cardinality(Below(f, v))
      BY <3>1, Counts
    <3>3. Cardinality(UpTo(f, u)) \in Nat /\ Cardinality(Below(f, v)) \in Nat
      BY <3>1, Counts
    <3>. HIDE DEF n
    <3>. QED  BY <1>1, <1>4, <3>1, <3>2, <3>3
  <2>3. low \subseteq Int
    BY <1>2
  <2>. HIDE DEF low
  <2>4. \A u \in low : (\A y \in low : u <= y) => u = v
    BY <2>1, <2>2, <2>3
  <2>. QED  BY <2>1, <2>2, <2>4 DEF Min
<1>5. ASSUME NEW v \in Range(f), NEW k \in Nat, 2 * (n - k) < n, 2 * (n - k + 1) >= n,
             Cardinality(Below(f, v)) < k, Cardinality(UpTo(f, v)) >= k
      PROVE  Max(high) = v
  <2>0. v \in Int
    BY <1>2
  <2>1. v \in high BY <2>0, Counts, <1>1, <1>5
  <2>2. ASSUME NEW u \in high PROVE v >= u
    <3>1. u \in Int /\ 2 * Cardinality({x \in DOMAIN f : f[x] >= u}) >= n
      BY <1>2
    <3>2. v < u => Cardinality(UpTo(f, v)) <= Cardinality(Below(f, u))
      BY <2>0, <3>1, Counts
    <3>3. /\ Cardinality(UpTo(f, v)) \in Nat /\ Cardinality(Below(f, u)) \in Nat
          /\ Cardinality({x \in DOMAIN f : f[x] >= u}) = n - Cardinality(Below(f, u))
      BY <2>0, <3>1, Counts
    <3>. HIDE DEF n
    <3>. QED  BY <1>1, <1>5, <2>0, <3>1, <3>2, <3>3
  <2>3. high \subseteq Int
    BY <1>2
  <2>. HIDE DEF high
  <2>4. \A u \in high : (\A y \in high : u >= y) => u = v
    BY <2>1, <2>2, <2>3
  <2>. QED  BY <2>1, <2>2, <2>4 DEF Max
<1>6. CASE n % 2 = 1
  <2>. DEFINE v == KthSmallest(f, m + 1)
  <2>1. n = 2 * m + 1 /\ m \in Nat /\ m + 1 \in 1 .. n
    BY <1>1, <1>6
  <2>2. computeMedianOfAllServices(f) = v
    BY <1>1, <1>6 DEF computeMedianOfAllServices
  <2>3. v \in Range(f) /\ Cardinality(Below(f, v)) < m + 1 /\ Cardinality(UpTo(f, v)) >= m + 1
    BY <2>1, KthSmallestExists
  <2>4. v \in Int
    BY <1>2, <2>3
  <2>. HIDE DEF v, m, n, low, high
  <2>5. Min(low) = v /\ Max(high) = v
    BY <1>4, <1>5, <2>1, <2>3
  <2>6. (v + v) \div 2 = v
    BY <2>4
  <2>. QED  BY <1>3, <2>2, <2>5, <2>6
<1>7. CASE n % 2 # 1
  <2>. DEFINE v == KthSmallest(f, m)
              w == KthSmallest(f, m + 1)
  <2>1. n = 2 * m /\ m \in Nat /\ m \in 1 .. n /\ m + 1 \in 1 .. n
    BY <1>1, <1>7
  <2>2. computeMedianOfAllServices(f) = (v + w) \div 2
    BY <1>1, <1>7 DEF computeMedianOfAllServices
  <2>3. /\ v \in Range(f) /\ Cardinality(Below(f, v)) < m /\ Cardinality(UpTo(f, v)) >= m
        /\ w \in Range(f) /\ Cardinality(Below(f, w)) < m + 1
        /\ Cardinality(UpTo(f, w)) >= m + 1
    BY <2>1, KthSmallestExists
  <2>. HIDE DEF v, w, m, n, low, high
  <2>4. Min(low) = v
    BY <1>4, <2>1, <2>3
  <2>5. Max(high) = w
    BY <1>5, <2>1, <2>3
  <2>. QED  BY <1>3, <2>2, <2>4, <2>5
<1>. QED  BY <1>6, <1>7

-----------------------------------------------------------------------------
(* Totals and sums: every handler moves both sides of each equality alike. *)

\* The inductive invariant of the totals.
SumInv == IInv /\ GlobalIsSumOfServices /\ HistoryAddsUp /\ SnapshotsAgree

\* The Global row and the sums over the Service rows move together.
LEMMA NextGlobalSums ==
    ASSUME IInv, GlobalIsSumOfServices, [Next]_vars
    PROVE  GlobalIsSumOfServices'
<1>. DEFINE stakes(svc) == SumFunction(StakeMap(svc))
            earnings(svc) == SumFunction(EarnedMap(svc))
<1>1. /\ global.currentOlasStaked = stakes(service)
      /\ global.currentOlasStaked = global.cumulativeOlasStaked - global.cumulativeOlasUnstaked
      /\ global.totalRewards = rewardUpdate["Claimable"]
      /\ global.totalRewards = earnings(service)
  BY DEF GlobalIsSumOfServices, StakeMap, EarnedMap
<1>2. ASSUME global'.currentOlasStaked = stakes(service'),
             global'.currentOlasStaked =
                    global'.cumulativeOlasStaked - global'.cumulativeOlasUnstaked,
             global'.totalRewards = rewardUpdate'["Claimable"],
             global'.totalRewards = earnings(service')
      PROVE  GlobalIsSumOfServices'
  BY <1>2 DEF GlobalIsSumOfServices, StakeMap, EarnedMap
<1>3. /\ TypeOK /\ StakeMirrorsChain /\ SnapshotsInPast
      /\ global.cumulativeOlasStaked \in Nat /\ global.cumulativeOlasUnstaked \in Nat
      /\ global.currentOlasStaked \in Int /\ global.totalRewards \in Nat
      /\ rewardUpdate = [x \in {"Claimable", "Claimed"} |-> rewardUpdate[x]]
  BY DEF IInv, TypeOK, IsGlobalRow, SnapshotsInPast
<1>4. CASE UNCHANGED <<global, service, rewardUpdate>>
  BY <1>1, <1>2, <1>4
<1>5. ASSUME NEW c \in Contracts, NEW reward \in Rewards(c), handleCheckpoint(c, reward)
      PROVE  GlobalIsSumOfServices'
  <2>. DEFINE e == EarnedMap(service)
              g == EarnedMap(service')
              a == StakeMap(service)
              b == StakeMap(service')
  <2>1. /\ DOMAIN service' = DOMAIN service /\ DOMAIN reward \subseteq DOMAIN service
        /\ \A s \in DOMAIN service :
              /\ service'[s].currentOlasStaked = service[s].currentOlasStaked
              /\ service'[s].olasRewardsEarned = service[s].olasRewardsEarned
                    + (IF s \in DOMAIN reward THEN reward[s] ELSE 0)
        /\ \A s \in DOMAIN reward : reward[s] \in Nat
    BY <1>3, <1>5, CheckpointEffect, RewardsShape
  <2>2. /\ DOMAIN a = DOMAIN service /\ DOMAIN b = DOMAIN a /\ IsFiniteSet(DOMAIN a)
        /\ \A s \in DOMAIN a : b[s] = a[s]
    BY <1>3, <2>1, MapTypes DEF StakeMap
  <2>3. /\ IsFiniteSet(DOMAIN e) /\ DOMAIN g = DOMAIN e /\ DOMAIN reward \subseteq DOMAIN e
        /\ \A s \in DOMAIN e : e[s] \in Int
        /\ \A s \in DOMAIN reward : reward[s] \in Int
        /\ \A s \in DOMAIN e : g[s] = IF s \in DOMAIN reward THEN e[s] + reward[s] ELSE e[s]
    BY <1>3, <2>1, MapTypes DEF EarnedMap
  <2>. HIDE DEF a, b, e, g
  <2>4. SumFunction(b) = SumFunction(a)
    BY <2>2, SumsAgree
  <2>5. SumFunction(g) = SumFunction(e) + SumFunction(reward)
    BY ONLY <2>3, SumRaise
  <2>6. rewardUpdate'["Claimable"] = rewardUpdate["Claimable"] + SumFunction(reward)
    BY <1>3, <1>5 DEF handleCheckpoint
  <2>7. /\ global'.currentOlasStaked = global.currentOlasStaked
        /\ global'.cumulativeOlasStaked = global.cumulativeOlasStaked
        /\ global'.cumulativeOlasUnstaked = global.cumulativeOlasUnstaked
        /\ global'.totalRewards = global.totalRewards + SumFunction(reward)
    BY <1>3, <1>5, CheckpointTotals
  <2>. QED  BY <1>1, <1>2, <2>4, <2>5, <2>6, <2>7 DEF a, b, e, g
<1>6. ASSUME NEW c \in Contracts, NEW s \in Services, handleServiceStaked(s, c)
      PROVE  GlobalIsSumOfServices'
  <2>1. StakedResult(s, c)
    BY <1>3, <1>6, StakedEffect
  <2>2. /\ StakeOf[c] \in Nat /\ IsFiniteSet(DOMAIN service)
        /\ \A t \in DOMAIN service : /\ service[t].currentOlasStaked \in Int
                                     /\ service[t].olasRewardsEarned \in Int
    BY <1>3, MapTypes, StakeAssumption
  <2>3. /\ DOMAIN service' = DOMAIN service \cup {s}
        /\ \A t \in DOMAIN service : t # s => service'[t] = service[t]
        /\ service'[s].currentOlasStaked =
             (IF s \in DOMAIN service THEN service[s].currentOlasStaked ELSE 0) + StakeOf[c]
        /\ service'[s].olasRewardsEarned =
             IF s \in DOMAIN service THEN service[s].olasRewardsEarned ELSE 0
    BY <2>1 DEF StakedResult, LoadOr, NewService
  <2>4. service'[s].currentOlasStaked \in Int /\ service'[s].olasRewardsEarned \in Int
    BY <2>2, <2>3
  <2>5. /\ stakes(service') = stakes(service) + service'[s].currentOlasStaked
                - (IF s \in DOMAIN service THEN service[s].currentOlasStaked ELSE 0)
        /\ earnings(service') = earnings(service) + service'[s].olasRewardsEarned
                - (IF s \in DOMAIN service THEN service[s].olasRewardsEarned ELSE 0)
    BY <2>2, <2>3, <2>4, OneServiceSums
  <2>6. global' = [global EXCEPT !.cumulativeOlasStaked = @ + StakeOf[c],
                                 !.currentOlasStaked = @ + StakeOf[c]]
    BY <1>6 DEF handleServiceStaked, getOlasForStaking
  <2>7. /\ global'.cumulativeOlasStaked = global.cumulativeOlasStaked + StakeOf[c]
        /\ global'.currentOlasStaked = global.currentOlasStaked + StakeOf[c]
        /\ global'.cumulativeOlasUnstaked = global.cumulativeOlasUnstaked
        /\ global'.totalRewards = global.totalRewards
    BY <1>3, <2>6, GlobalStakes
  <2>8. rewardUpdate' = rewardUpdate
    BY <1>6 DEF handleServiceStaked
  <2>9. /\ stakes(service') = stakes(service) + StakeOf[c]
        /\ earnings(service') = earnings(service)
    <3>. HIDE DEF stakes, earnings
    <3>1. stakes(service) \in Int /\ earnings(service) \in Int
      BY <1>1, <1>3
    <3>. QED  BY <2>2, <2>3, <2>5, <3>1
  <2>10. /\ global'.currentOlasStaked = stakes(service')
         /\ global'.currentOlasStaked =
                    global'.cumulativeOlasStaked - global'.cumulativeOlasUnstaked
         /\ global'.totalRewards = rewardUpdate'["Claimable"]
         /\ global'.totalRewards = earnings(service')
    <3>. HIDE DEF stakes, earnings
    <3>1. global'.currentOlasStaked = stakes(service')
      BY <1>1, <2>7, <2>9
    <3>2. global'.currentOlasStaked =
            global'.cumulativeOlasStaked - global'.cumulativeOlasUnstaked
      BY <1>1, <1>3, <2>2, <2>7
    <3>3. global'.totalRewards = rewardUpdate'["Claimable"]
      BY <1>1, <2>7, <2>8
    <3>4. global'.totalRewards = earnings(service')
      BY <1>1, <2>7, <2>9
    <3>. QED  BY <3>1, <3>2, <3>3, <3>4
  <2>. QED  BY <1>2, <2>10
<1>7. ASSUME NEW c \in Contracts, NEW s \in Services, handleRewardClaimed(s, c)
      PROVE  GlobalIsSumOfServices'
  BY <1>3, <1>7, ClaimEffect, <1>1, <1>2 DEF StakeMap, EarnedMap, handleRewardClaimed
<1>8. ASSUME NEW c \in Contracts, NEW s \in Services,
             Leaves(s, c), processUnstake(s, c, pending[s]),
             rewardUpdate'["Claimable"] = rewardUpdate["Claimable"]
      PROVE  GlobalIsSumOfServices'
  <2>1. /\ DOMAIN service' = DOMAIN service \cup {s} /\ s \in DOMAIN service
        /\ \A t \in DOMAIN service : t # s => service'[t] = service[t]
        /\ service'[s].currentOlasStaked = service[s].currentOlasStaked - StakeOf[c]
        /\ service'[s].olasRewardsEarned = service[s].olasRewardsEarned
    BY <1>3, <1>8, UnstakeEffect
  <2>2. /\ StakeOf[c] \in Nat /\ IsFiniteSet(DOMAIN service)
        /\ \A t \in DOMAIN service : /\ service[t].currentOlasStaked \in Int
                                     /\ service[t].olasRewardsEarned \in Int
    BY <1>3, MapTypes, StakeAssumption
  <2>4. service'[s].currentOlasStaked \in Int /\ service'[s].olasRewardsEarned \in Int
    BY <2>1, <2>2
  <2>5. /\ stakes(service') = stakes(service) + service'[s].currentOlasStaked
                - (IF s \in DOMAIN service THEN service[s].currentOlasStaked ELSE 0)
        /\ earnings(service') = earnings(service) + service'[s].olasRewardsEarned
                - (IF s \in DOMAIN service THEN service[s].olasRewardsEarned ELSE 0)
    BY <2>1, <2>2, <2>4, OneServiceSums
  <2>6. global' = GlobalUnstake(global, StakeOf[c])
    BY <1>8 DEF processUnstake, Leaves, getOlasForStaking
  <2>7. /\ global'.cumulativeOlasStaked = global.cumulativeOlasStaked
        /\ global'.currentOlasStaked = global.currentOlasStaked - StakeOf[c]
        /\ global'.cumulativeOlasUnstaked = global.cumulativeOlasUnstaked + StakeOf[c]
        /\ global'.totalRewards = global.totalRewards
    BY <1>3, <2>6, GlobalStakes
  <2>9. /\ stakes(service') = stakes(service) - StakeOf[c]
        /\ earnings(service') = earnings(service)
    <3>. HIDE DEF stakes, earnings
    <3>1. stakes(service) \in Int /\ earnings(service) \in Int
      BY <1>1, <1>3
    <3>. QED  BY <2>1, <2>2, <2>5, <3>1
  <2>10. /\ global'.currentOlasStaked = stakes(service')
         /\ global'.currentOlasStaked =
                    global'.cumulativeOlasStaked - global'.cumulativeOlasUnstaked
         /\ global'.totalRewards = rewardUpdate'["Claimable"]
         /\ global'.totalRewards = earnings(service')
    <3>. HIDE DEF stakes, earnings
    <3>1. global'.currentOlasStaked = stakes(service')
      BY <1>1, <2>7, <2>9
    <3>2. global'.currentOlasStaked =
            global'.cumulativeOlasStaked - global'.cumulativeOlasUnstaked
      BY <1>1, <1>3, <2>2, <2>7
    <3>3. global'.totalRewards = rewardUpdate'["Claimable"]
      BY <1>1, <2>7, <1>8
    <3>4. global'.totalRewards = earnings(service')
      BY <1>1, <2>7, <2>9
    <3>. QED  BY <3>1, <3>2, <3>3, <3>4
  <2>. QED  BY <1>2, <2>10
<1>9. ASSUME NEW c \in Contracts, NEW s \in Services, handleServiceUnstaked(s, c)
      PROVE  GlobalIsSumOfServices'
  BY <1>3, <1>9, <1>8 DEF handleServiceUnstaked
<1>10. ASSUME NEW c \in Contracts, NEW s \in Services, handleServiceForceUnstaked(s, c)
       PROVE  GlobalIsSumOfServices'
  BY <1>8, <1>10 DEF handleServiceForceUnstaked
<1>11. \/ GlobalIsSumOfServices' \/ UNCHANGED <<global, service, rewardUpdate>>
  BY <1>5, <1>6, <1>7, <1>9, <1>10
     DEF Next, AdvanceDay, handleInstanceCreated, UnindexedStake, vars, chain, store
<1>. QED  BY <1>4, <1>11 DEF GlobalIsSumOfServices, StakeMap, EarnedMap

\* A handler that counts a participation adds one exactly when the row is new.
LEMMA StakeCounts ==
    ASSUME NEW row \in ServiceRow, NEW c, NEW olas, NEW key
    PROVE  Participation(StakedRow(row, c, olas), key).totalEpochsParticipated =
             row.totalEpochsParticipated + (IF key \in DOMAIN history THEN 0 ELSE 1)
BY DEF Participation, StakedRow, ServiceRow

\* The same when the service leaves.
LEMMA UnstakeCounts ==
    ASSUME NEW row \in ServiceRow, NEW olas, NEW reward, NEW key
    PROVE  Participation(UnstakedRow(row, olas, reward), key).totalEpochsParticipated =
             row.totalEpochsParticipated + (IF key \in DOMAIN history THEN 0 ELSE 1)
BY DEF Participation, UnstakedRow, ServiceRow

\* The property, in terms of the rows' sets named above.
LEMMA HistoryForm ==
    HistoryAddsUp <=>
        \A s \in DOMAIN service :
            /\ service[s].totalEpochsParticipated = Cardinality(Mine(history, s))
            /\ service[s].olasRewardsEarned = SumFunction(Paid(history, s))
BY DEF HistoryAddsUp, Mine, Settled, Paid

\* A step that changes neither the history nor these two fields keeps it.
LEMMA HistoryUntouched ==
    ASSUME HistoryAddsUp, history' = history, DOMAIN service' = DOMAIN service,
           \A s \in DOMAIN service :
             /\ service'[s].totalEpochsParticipated = service[s].totalEpochsParticipated
             /\ service'[s].olasRewardsEarned = service[s].olasRewardsEarned
    PROVE  HistoryAddsUp'
<1>1. \A s \in DOMAIN service' :
            /\ service'[s].totalEpochsParticipated = Cardinality(Mine(history', s))
            /\ service'[s].olasRewardsEarned = SumFunction(Paid(history', s))
  BY HistoryForm
<1>. QED  BY <1>1 DEF HistoryAddsUp, Mine, Settled, Paid

\* It also holds of the initial row a service without a row would get.
LEMMA HistoryOfAll ==
    ASSUME RowsKnown, HistoryAddsUp, NEW s
    PROVE  LET row == LoadOr(service, s, NewService) IN
           /\ row.totalEpochsParticipated = Cardinality(Mine(history, s))
           /\ row.olasRewardsEarned = SumFunction(Paid(history, s))
<1>1. CASE s \in DOMAIN service
  BY <1>1, HistoryForm DEF LoadOr
<1>2. CASE s \notin DOMAIN service
  BY <1>2, FS_EmptySet, SumOfNone DEF Mine, Paid, Settled, RowsKnown, LoadOr, NewService
<1>. QED  BY <1>1, <1>2

\* One handler writes one unsettled history row and counts it on its service.
LEMMA OneRowAdds ==
    ASSUME IInv, HistoryAddsUp, NEW s \in Services, NEW key, key[1] = s, NEW row,
           ~row.checkpointed, key \in DOMAIN history => ~history[key].checkpointed,
           history' = Put(history, key, row),
           DOMAIN service' = DOMAIN service \cup {s},
           \A t \in DOMAIN service : t # s => service'[t] = service[t],
           service'[s].olasRewardsEarned = LoadOr(service, s, NewService).olasRewardsEarned,
           service'[s].totalEpochsParticipated =
                LoadOr(service, s, NewService).totalEpochsParticipated
                    + (IF key \in DOMAIN history THEN 0 ELSE 1)
    PROVE  HistoryAddsUp'
<1>1. IsFiniteSet(DOMAIN history) /\ RowsKnown
  BY DEF IInv, RowsKnown
<1>2. ASSUME NEW t
      PROVE  /\ Paid(history', t) = Paid(history, t)
             /\ Cardinality(Mine(history', t)) = Cardinality(Mine(history, t))
                    + (IF key \in DOMAIN history \/ key[1] # t THEN 0 ELSE 1)
  BY <1>1, OneRow
<1>3. ASSUME NEW t \in DOMAIN service'
      PROVE  /\ service'[t].totalEpochsParticipated = Cardinality(Mine(history', t))
             /\ service'[t].olasRewardsEarned = SumFunction(Paid(history', t))
  <2>1. CASE t = s BY <1>1, HistoryOfAll, <1>2, <2>1
  <2>2. CASE t # s
    <3>1. t \in DOMAIN service /\ service'[t] = service[t]
      BY <2>2
    <3>2. /\ service[t].totalEpochsParticipated = Cardinality(Mine(history, t))
          /\ service[t].olasRewardsEarned = SumFunction(Paid(history, t))
      BY <3>1, HistoryForm
    <3>3. Cardinality(Mine(history', t)) = Cardinality(Mine(history, t))
      <4>1. Cardinality(Mine(history, t)) \in Nat
        BY <1>1, FS_Subset, FS_CardinalityType DEF Mine
      <4>. QED  BY <1>2, <2>2, <4>1
    <3>. QED  BY <1>2, <3>1, <3>2, <3>3
  <2>. QED  BY <2>1, <2>2
<1>. QED  BY <1>3 DEF HistoryAddsUp, Mine, Settled, Paid

\* The history of every service keeps adding up to its row.
LEMMA NextHistoryAdds ==
    ASSUME IInv, HistoryAddsUp, [Next]_vars
    PROVE  HistoryAddsUp'
<1>1. /\ TypeOK /\ StakeMirrorsChain /\ RowsKnown /\ SettledInPast
      /\ IsFiniteSet(DOMAIN history)
      /\ \A k \in DOMAIN history : /\ k \in Services \X Contracts \X Nat
                                   /\ history[k].rewardAmount \in Int
  BY DEF IInv, TypeOK, PartialFn, HistoryRow, RowsKnown
<1>2. ASSUME NEW s \in Services, NEW c \in Contracts, historyId(s, c) \in DOMAIN history
      PROVE  ~history[historyId(s, c)].checkpointed
  BY <1>1, <1>2 DEF historyId, SettledInPast, TypeOK
<1>3. CASE UNCHANGED <<history, service>>
  BY <1>3, HistoryUntouched
<1>4. ASSUME NEW c \in Contracts, NEW reward \in Rewards(c), handleCheckpoint(c, reward)
      PROVE  HistoryAddsUp'
  <2>. DEFINE zero == ZeroRewarded(c, DOMAIN reward)
              all == DOMAIN reward \cup zero
              keys == {<<s, c, epoch[c]>> : s \in all}
  <2>1. /\ all \subseteq DOMAIN service
        /\ DOMAIN history' = DOMAIN history \cup keys
        /\ \A k \in DOMAIN history \ keys : history'[k] = history[k]
        /\ \A s \in all : history'[<<s, c, epoch[c]>>] =
              [rewardAmount |-> IF s \in DOMAIN reward THEN reward[s] ELSE 0,
               checkpointed |-> TRUE]
    BY <1>1, <1>4, CheckpointKeys
  <2>2. /\ DOMAIN service' = DOMAIN service
        /\ \A s \in DOMAIN service : service'[s].olasRewardsEarned =
              service[s].olasRewardsEarned + (IF s \in DOMAIN reward THEN reward[s] ELSE 0)
        /\ \A s \in DOMAIN reward : reward[s] \in Nat
    BY <1>1, <1>4, CheckpointEffect, RewardsShape
  <2>3. ASSUME NEW s \in DOMAIN service
        PROVE  service'[s].totalEpochsParticipated = service[s].totalEpochsParticipated
                  + (IF s \in all /\ <<s, c, epoch[c]>> \notin DOMAIN history THEN 1 ELSE 0)
    <3>1. service' = CheckpointServices(c, reward, zero)
      BY <1>4 DEF handleCheckpoint
    <3>2. service[s] \in ServiceRow
      BY <1>1, MapTypes
    <3>. HIDE DEF zero
    <3>. QED  BY <3>1, <3>2 DEF CheckpointServices, Participation, historyId, ServiceRow
  <2>4. ASSUME NEW s \in DOMAIN service'
        PROVE  /\ service'[s].totalEpochsParticipated = Cardinality(Mine(history', s))
               /\ service'[s].olasRewardsEarned = SumFunction(Paid(history', s))
    <3>. DEFINE key == <<s, c, epoch[c]>>
    <3>1. /\ s \in DOMAIN service /\ s \in Services
          /\ service[s].totalEpochsParticipated = Cardinality(Mine(history, s))
          /\ service[s].olasRewardsEarned = SumFunction(Paid(history, s))
          /\ service[s].totalEpochsParticipated \in Nat /\ service[s].olasRewardsEarned \in Nat
      BY <1>1, <2>2, HistoryForm, MapTypes DEF TypeOK, PartialFn
    <3>2. \A k \in keys : k[1] = s => k = key
      OBVIOUS
    <3>3. CASE s \in all
      <4>1. key \in keys /\ key[1] = s
        BY <3>3
      <4>2. Mine(history', s) = Mine(history, s) \cup {key}
        <5>. HIDE DEF keys, key
        <5>. QED  BY <2>1, <3>2, <4>1 DEF Mine
      <4>3. \A k \in Mine(history, s) \ {key} : history'[k] = history[k]
        <5>. HIDE DEF keys, key
        <5>. QED  BY <2>1, <3>2, <4>1 DEF Mine
      <4>4. /\ history'[key].checkpointed
            /\ history'[key].rewardAmount = IF s \in DOMAIN reward THEN reward[s] ELSE 0
        <5>1. history'[key] = [rewardAmount |-> IF s \in DOMAIN reward THEN reward[s] ELSE 0,
                               checkpointed |-> TRUE]
          BY <2>1, <3>3
        <5>. QED  BY <5>1
      <4>5. key \in DOMAIN history => ~history[key].checkpointed
        BY <1>2, <3>1 DEF historyId
      <4>6. history'[key].rewardAmount \in Int
        BY <2>2, <4>4
      <4>7. \A k \in DOMAIN history : history[k].rewardAmount \in Int
        BY <1>1
      <4>8. service'[s].totalEpochsParticipated = service[s].totalEpochsParticipated
                  + (IF key \in DOMAIN history THEN 0 ELSE 1)
        BY <2>3, <3>1, <3>3
      <4>. HIDE DEF key
      <4>9. /\ SumFunction(Paid(history', s)) =
                 SumFunction(Paid(history, s)) + history'[key].rewardAmount
            /\ Cardinality(Mine(history', s)) =
                 Cardinality(Mine(history, s)) + (IF key \in DOMAIN history THEN 0 ELSE 1)
        <5>1. IsFiniteSet(DOMAIN history) /\ history'[key].checkpointed /\ key[1] = s
          BY <1>1, <4>1, <4>4
        <5>2. SettledBy(history, history', s, key)
          BY ONLY <5>1, <4>2, <4>3, <4>5, <4>6, <4>7 DEF SettledBy
        <5>. QED  BY <5>2, SettledRow
      <4>. QED  BY <2>2, <3>1, <4>4, <4>8, <4>9
    <3>4. CASE s \notin all
      <4>1. (\A k \in keys : k[1] # s) /\ s \notin DOMAIN reward
        BY <3>4
      <4>. HIDE DEF keys, all
      <4>2. Mine(history', s) = Mine(history, s)
        BY <2>1, <4>1 DEF Mine
      <4>3. \A k \in Mine(history, s) : history'[k] = history[k]
        BY <2>1, <4>1 DEF Mine
      <4>4. Paid(history', s) = Paid(history, s)
        BY <4>2, <4>3 DEF Paid, Settled
      <4>5. service'[s].totalEpochsParticipated = service[s].totalEpochsParticipated + 0
        BY <2>3, <3>1, <3>4
      <4>6. service'[s].olasRewardsEarned = service[s].olasRewardsEarned + 0
        BY <2>2, <3>1, <4>1
      <4>. QED  BY <3>1, <4>2, <4>4, <4>5, <4>6
    <3>. QED  BY <3>3, <3>4
  <2>. QED  BY <2>4 DEF HistoryAddsUp, Mine, Settled, Paid
<1>5. ASSUME NEW c \in Contracts, NEW s \in Services, handleServiceStaked(s, c)
      PROVE  HistoryAddsUp'
  <2>. DEFINE key == historyId(s, c)
              row == LoadOr(history, key, NewHistory)
              old == LoadOr(service, s, NewService)
  <2>1. StakedResult(s, c)
    BY <1>1, <1>5, StakedEffect
  <2>2. history' = Put(history, key, row)
    BY <1>5 DEF handleServiceStaked
  <2>3. ~row.checkpointed /\ key[1] = s
    BY <1>2 DEF LoadOr, NewHistory, historyId
  <2>4. service'[s].totalEpochsParticipated =
          old.totalEpochsParticipated + (IF key \in DOMAIN history THEN 0 ELSE 1)
    <3>1. old \in ServiceRow
      BY <1>1, FreshRows, LoadOrType DEF TypeOK
    <3>2. service' = Put(service, s, Participation(StakedRow(old, c, getOlasForStaking(c)), key))
      BY <1>5 DEF handleServiceStaked
    <3>3. service'[s] = Participation(StakedRow(old, c, getOlasForStaking(c)), key)
      BY <3>2 DEF Put
    <3>. HIDE DEF old, key
    <3>. QED  BY <3>1, <3>3, StakeCounts
  <2>5. /\ DOMAIN service' = DOMAIN service \cup {s}
        /\ \A t \in DOMAIN service : t # s => service'[t] = service[t]
        /\ service'[s].olasRewardsEarned = old.olasRewardsEarned
    BY <2>1 DEF StakedResult
  <2>6. key \in DOMAIN history => ~history[key].checkpointed
    BY <1>2
  <2>. HIDE DEF key, row
  <2>. QED  BY <2>2, <2>3, <2>4, <2>5, <2>6, OneRowAdds
<1>6. ASSUME NEW c \in Contracts, NEW s \in Services, handleRewardClaimed(s, c)
      PROVE  HistoryAddsUp'
  <2>1. history' = history
    BY <1>6 DEF handleRewardClaimed
  <2>2. /\ DOMAIN service' = DOMAIN service /\ s \in DOMAIN service
        /\ \A t \in DOMAIN service : t # s => service'[t] = service[t]
        /\ service'[s].olasRewardsEarned = service[s].olasRewardsEarned
    BY <1>1, <1>6, ClaimEffect
  <2>3. service'[s].totalEpochsParticipated = service[s].totalEpochsParticipated
    BY <1>1, <2>2, MapTypes, <1>6 DEF handleRewardClaimed, ServiceRow
  <2>. QED  BY <2>1, <2>2, <2>3, HistoryUntouched
<1>7. ASSUME NEW c \in Contracts, NEW s \in Services,
             Leaves(s, c), processUnstake(s, c, pending[s])
      PROVE  HistoryAddsUp'
  <2>. DEFINE key == historyId(s, c)
              row == [LoadOr(history, key, NewHistory) EXCEPT !.rewardAmount = pending[s]]
  <2>1. /\ DOMAIN service' = DOMAIN service /\ s \in DOMAIN service
        /\ \A t \in DOMAIN service : t # s => service'[t] = service[t]
        /\ service'[s].olasRewardsEarned = service[s].olasRewardsEarned
    BY <1>1, <1>7, UnstakeEffect
  <2>2. history' = Put(history, key, row)
    BY <1>7 DEF processUnstake
  <2>3. ~row.checkpointed /\ key[1] = s
    BY <1>1, FreshRows, LoadOrType, <1>2 DEF TypeOK, LoadOr, NewHistory, HistoryRow, historyId
  <2>4. service'[s].totalEpochsParticipated =
          service[s].totalEpochsParticipated + (IF key \in DOMAIN history THEN 0 ELSE 1)
    <3>1. service[s] \in ServiceRow
      BY <1>1, <2>1, MapTypes
    <3>2. service' = [service EXCEPT ![s] =
            Participation(UnstakedRow(service[s], getOlasForStaking(c), pending[s]), key)]
      BY <1>7, <2>1 DEF processUnstake
    <3>3. service'[s] =
            Participation(UnstakedRow(service[s], getOlasForStaking(c), pending[s]), key)
      BY <2>1, <3>2
    <3>. HIDE DEF key
    <3>. QED  BY <3>1, <3>3, UnstakeCounts
  <2>5. /\ DOMAIN service' = DOMAIN service \cup {s}
        /\ LoadOr(service, s, NewService) = service[s]
    BY <2>1 DEF LoadOr
  <2>6. key \in DOMAIN history => ~history[key].checkpointed
    BY <1>2
  <2>. HIDE DEF key, row
  <2>. QED  BY <2>1, <2>2, <2>3, <2>4, <2>5, <2>6, OneRowAdds
<1>. QED  BY <1>3, <1>4, <1>5, <1>6, <1>7
          DEF Next, AdvanceDay, handleInstanceCreated, UnindexedStake, handleServiceUnstaked,
              handleServiceForceUnstaked, vars, chain, store

\* What SnapshotsAgree says of the row of the last active day.
LEMMA SnapshotsForm ==
    SnapshotsAgree <=>
      /\ global.lastActiveDayTimestamp # 0 =>
            /\ global.lastActiveDayTimestamp \in DOMAIN snapshot
            /\ snapshot[global.lastActiveDayTimestamp].totalRewards = global.totalRewards
            /\ EarnedMap(service) # NoRows
                 /\ snapshot[global.lastActiveDayTimestamp].numServices =
                      Cardinality(DOMAIN service) =>
                  snapshot[global.lastActiveDayTimestamp].medianCumulativeRewards =
                      MedianOf(EarnedMap(service))
      /\ \A d, e \in DOMAIN snapshot :
            /\ d <= global.lastActiveDayTimestamp
            /\ d <= e => /\ snapshot[d].totalRewards <= snapshot[e].totalRewards
                         /\ snapshot[d].numServices <= snapshot[e].numServices
BY DEF SnapshotsAgree, EarnedMap

\* Between checkpoints the last snapshot stays right: the totals stay, and its
\* median is only read as long as no service has been added.
LEMMA SnapshotsStay ==
    ASSUME TypeOK, SnapshotsInPast, SnapshotsAgree, snapshot' = snapshot,
           global'.totalRewards = global.totalRewards,
           global'.lastActiveDayTimestamp = global.lastActiveDayTimestamp,
           \/ EarnedMap(service') = EarnedMap(service) /\ DOMAIN service' = DOMAIN service
           \/ \E s : s \notin DOMAIN service /\ DOMAIN service' = DOMAIN service \cup {s}
    PROVE  SnapshotsAgree'
<1>1. Cardinality(DOMAIN service) \in Nat
  BY MapTypes, FS_CardinalityType
<1>. DEFINE last == global.lastActiveDayTimestamp
<1>2. CASE \E s : s \notin DOMAIN service /\ DOMAIN service' = DOMAIN service \cup {s}
  <2>1. Cardinality(DOMAIN service') = Cardinality(DOMAIN service) + 1
    BY <1>2, MapTypes, FS_AddElement
  <2>2. last # 0 => /\ snapshot[last].numServices \in Nat
                    /\ snapshot[last].numServices <= Cardinality(DOMAIN service)
    BY DEF SnapshotsInPast
  <2>3. last # 0 => snapshot[last].numServices # Cardinality(DOMAIN service')
    BY <1>1, <2>1, <2>2
  <2>. QED  BY <2>3 DEF SnapshotsAgree
<1>3. CASE EarnedMap(service') = EarnedMap(service) /\ DOMAIN service' = DOMAIN service
  BY <1>3 DEF SnapshotsAgree, EarnedMap
<1>. QED  BY <1>2, <1>3

\* A checkpoint rewrites the snapshot of the day from the rows it leaves; every
\* earlier snapshot shows a total and a number of services that only grew since.
LEMMA NextSnapshotsAgree ==
    ASSUME IInv, GlobalIsSumOfServices, SnapshotsAgree, [Next]_vars
    PROVE  SnapshotsAgree'
<1>1. TypeOK /\ StakeMirrorsChain /\ RewardsAccounted /\ SnapshotsInPast /\ RowsKnown
  BY DEF IInv
<1>2. CASE UNCHANGED <<snapshot, global, service>>
  BY <1>2 DEF SnapshotsAgree
<1>3. ASSUME NEW c \in Contracts, NEW reward \in Rewards(c), handleCheckpoint(c, reward)
      PROVE  SnapshotsAgree'
  <2>. DEFINE last == global.lastActiveDayTimestamp
              total == global.totalRewards + SumFunction(reward)
              n == Cardinality(DOMAIN service)
  <2>1. /\ SumFunction(reward) \in Nat
        /\ global'.totalRewards = total
        /\ global'.lastActiveDayTimestamp = day
        /\ DOMAIN snapshot' = DOMAIN snapshot \cup {day}
        /\ \A d \in DOMAIN snapshot : d # day => snapshot'[d] = snapshot[d]
        /\ snapshot'[day].totalRewards = total
        /\ snapshot'[day].numServices = n
        /\ snapshot'[day].medianCumulativeRewards =
                computeMedianOfAllServices(EarnedMap(service'))
    BY <1>1, <1>3, CheckpointTotals
  <2>2. /\ DOMAIN service' = DOMAIN service
        /\ \A s \in DOMAIN service : service'[s].olasRewardsEarned \in Int
    BY <1>1, <1>3, CheckpointEffect, MapTypes, NextType DEF TypeOK, PartialFn, ServiceRow
  <2>3. EarnedMap(service') # NoRows =>
          computeMedianOfAllServices(EarnedMap(service')) = MedianOf(EarnedMap(service'))
    <3>. DEFINE f == EarnedMap(service')
    <3>1. /\ DOMAIN f = DOMAIN service
          /\ \A s \in DOMAIN f : f[s] \in Int
      BY <2>2 DEF EarnedMap
    <3>2. IsFiniteSet(DOMAIN f)
      BY <1>1, <3>1, MapTypes
    <3>3. DOMAIN f = {} => f = NoRows
      BY DEF EarnedMap, NoRows
    <3>. HIDE DEF f
    <3>. QED  BY <3>1, <3>2, <3>3, MedianCorrect DEF f
  <2>4. /\ n \in Nat /\ day \in Nat /\ day # 0 /\ last \in Nat /\ last <= day
        /\ global.totalRewards \in Nat /\ total \in Nat
        /\ \A d \in DOMAIN snapshot : /\ d \in Nat
                                      /\ snapshot[d].totalRewards \in Nat
                                      /\ snapshot[d].numServices \in Nat
    BY <1>1, <2>1, MapTypes, FS_CardinalityType DEF SnapshotsInPast, TypeOK, IsGlobalRow
  <2>5. \A d \in DOMAIN snapshot : /\ d <= last
                                   /\ snapshot[d].totalRewards <= global.totalRewards
                                   /\ snapshot[d].numServices <= n
    <3>1. ASSUME NEW d \in DOMAIN snapshot
          PROVE  /\ d <= last
                 /\ snapshot[d].totalRewards <= global.totalRewards
                 /\ snapshot[d].numServices <= n
      BY SnapshotsForm, <1>1, <2>4 DEF SnapshotsInPast
    <3>. QED  BY <3>1
  <2>. HIDE DEF last, total, n
  <2>6. \A d \in DOMAIN snapshot' : /\ d <= day
                                    /\ snapshot'[d].totalRewards <= total
                                    /\ snapshot'[d].numServices <= n
    BY <2>1, <2>4, <2>5 DEF total
  <2>7. \A d, e \in DOMAIN snapshot' :
            d <= e => /\ snapshot'[d].totalRewards <= snapshot'[e].totalRewards
                      /\ snapshot'[d].numServices <= snapshot'[e].numServices
    <3>1. ASSUME NEW d \in DOMAIN snapshot', NEW e \in DOMAIN snapshot', d <= e
          PROVE  /\ snapshot'[d].totalRewards <= snapshot'[e].totalRewards
                 /\ snapshot'[d].numServices <= snapshot'[e].numServices
      <4>1. CASE e = day
        BY <2>1, <2>6, <4>1
      <4>2. CASE e # day BY <2>1, <2>4, <2>6, <4>2, <3>1, SnapshotsForm
      <4>. QED  BY <4>1, <4>2
    <3>. QED  BY <3>1
  <2>8. /\ global'.lastActiveDayTimestamp \in DOMAIN snapshot'
        /\ snapshot'[global'.lastActiveDayTimestamp].totalRewards = global'.totalRewards
        /\ EarnedMap(service') # NoRows =>
              snapshot'[global'.lastActiveDayTimestamp].medianCumulativeRewards =
                  MedianOf(EarnedMap(service'))
    BY <2>1, <2>3
  <2>. QED  BY <2>1, <2>6, <2>7, <2>8 DEF SnapshotsAgree, EarnedMap
<1>4. ASSUME NEW c \in Contracts, NEW s \in Services, handleServiceStaked(s, c)
      PROVE  SnapshotsAgree'
  <2>1. StakedResult(s, c)
    BY <1>1, <1>4, StakedEffect
  <2>2. /\ DOMAIN service' = DOMAIN service \cup {s}
        /\ \A t \in DOMAIN service : t # s => service'[t] = service[t]
        /\ s \in DOMAIN service =>
              service'[s].olasRewardsEarned = service[s].olasRewardsEarned
    BY <2>1 DEF StakedResult, LoadOr
  <2>3. snapshot' = snapshot
    BY <1>4 DEF handleServiceStaked
  <2>4. /\ global'.totalRewards = global.totalRewards
        /\ global'.lastActiveDayTimestamp = global.lastActiveDayTimestamp
    BY <1>1, <1>4, GlobalStakes DEF handleServiceStaked
  <2>5. CASE s \in DOMAIN service BY <2>2, <2>5, <1>1, <2>3, <2>4, SnapshotsStay DEF EarnedMap
  <2>6. CASE s \notin DOMAIN service
    BY <1>1, <2>2, <2>3, <2>4, <2>6, SnapshotsStay
  <2>. QED  BY <2>5, <2>6
<1>5. ASSUME NEW c \in Contracts, NEW s \in Services, handleRewardClaimed(s, c)
      PROVE  SnapshotsAgree'
  BY <1>1, <1>5, ClaimEffect, SnapshotsStay DEF EarnedMap, handleRewardClaimed
<1>6. ASSUME NEW c \in Contracts, NEW s \in Services,
             Leaves(s, c), processUnstake(s, c, pending[s])
      PROVE  SnapshotsAgree'
  BY <1>1, <1>6, UnstakeEffect, GlobalStakes, SnapshotsStay DEF EarnedMap, processUnstake
<1>. QED  BY <1>2, <1>3, <1>4, <1>5, <1>6
          DEF Next, AdvanceDay, handleInstanceCreated, UnindexedStake, handleServiceUnstaked,
              handleServiceForceUnstaked, vars, chain, store

\* The totals, the histories and the snapshots agree in every reachable state,
\* for any services, contracts, stakes and rewards.
THEOREM SumsInductive == Spec => []SumInv
<1>1. Init => SumInv
  <2>1. ASSUME Init PROVE GlobalIsSumOfServices
    BY <2>1, SumOfNone DEF Init, StakeMap, EarnedMap, NoRows, GlobalIsSumOfServices
  <2>2. ASSUME Init PROVE HistoryAddsUp /\ SnapshotsAgree
    BY <2>2 DEF Init, HistoryAddsUp, SnapshotsAgree, NoRows
  <2>3. Init => IInv
    BY InitInv
  <2>. QED  BY <2>1, <2>2, <2>3 DEF SumInv
<1>2. SumInv /\ [Next]_vars => SumInv'
  BY NextInv, NextGlobalSums, NextHistoryAdds, NextSnapshotsAgree DEF SumInv
<1>. QED  BY <1>1, <1>2, PTL DEF Spec

\* A service's history adds up to its row, after any number of checkpoints,
\* stakes, unstakes and migrations.
THEOREM HistoryAlwaysAddsUp == Spec => []HistoryAddsUp
BY SumsInductive, PTL DEF SumInv

\* The Global row is the sum of the Service rows, and the snapshots show it.
THEOREM TotalsAlwaysAgree == Spec => []TotalsAgree
<1>1. SumInv => TotalsAgree
  BY DEF SumInv, TotalsAgree
<1>. QED  BY <1>1, SumsInductive, PTL

-----------------------------------------------------------------------------
(* service-registry: what executions are credited to.                      *)

CONSTANTS RgServices, Early, RgSafes, Agents, RgOperators, Identities, Keys, Values,
          RgDayLength, RgMaxNow, MaxSlots, MaxTerms, MaxTx, RgNone
VARIABLES rgNow, rgStage, slots, rgSafeOf, terms, deployedBy, rgService, rgRegistration,
          multisig, rgOperator, activity, uniqueAgents, agentDay, activeMultisigs,
          performance, rgGlobal, identity, metadata

Rg == INSTANCE ServiceRegistry WITH
    Services <- RgServices, Safes <- RgSafes, Operators <- RgOperators,
    DayLength <- RgDayLength, MaxNow <- RgMaxNow, None <- RgNone, now <- rgNow,
    stage <- rgStage, safeOf <- rgSafeOf, service <- rgService,
    registration <- rgRegistration, operator <- rgOperator, global <- rgGlobal

\* The sums of ServiceRegistry are the library's.
LEMMA RgSum == ASSUME NEW f PROVE Rg!SumFunction(f) = SumFunction(f)
<1>1. ASSUME NEW g, NEW S PROVE Rg!SumFunctionOnSet(g, S) = (CHOOSE h : AddsUp(g, S, h))[S]
  BY DEF Rg!SumFunctionOnSet, Rg!FoldFunctionOnSet, Rg!MapThenFoldSet, AddsUp, FirstOf
<1>. QED  BY <1>1, SumIsFold DEF Rg!SumFunction, SumFunction

RgStages == {"none", "open", "deployed"}
RgSlots == [agent : Agents, at : Nat]
RgServiceRow == [agentIds : Seq(Agents), multisig : RgSafes \cup {RgNone},
                 erc8004Agent : Identities \cup {RgNone}]

\* Types.
RgTyped ==
    /\ rgNow \in Nat \ {0}
    /\ rgStage \in [RgServices -> RgStages] /\ slots \in [RgServices -> SUBSET RgSlots]
    /\ DOMAIN rgSafeOf = RgServices /\ DOMAIN deployedBy = RgSafes
    /\ DOMAIN rgService \subseteq RgServices
    /\ \A s \in DOMAIN rgService : rgService[s] \in RgServiceRow
    /\ DOMAIN rgRegistration \subseteq RgServices \X Agents
    /\ \A k \in DOMAIN rgRegistration : rgRegistration[k] \in 1..rgNow

AgentIds(s) == rgService[s].agentIds

\* The agents of a service's row are those of its slots; the latest slot of each is its
\* registration.  Slots from before the first indexed block have no registration.
SlotsOf(s) ==
    /\ rgStage[s] = "none" => slots[s] = {} /\ s \notin DOMAIN rgService
    /\ \A r \in slots[s] :
          /\ r.at <= rgNow
          /\ r.at > 0 => /\ s \in DOMAIN rgService
                         /\ \E i \in DOMAIN AgentIds(s) : AgentIds(s)[i] = r.agent
                         /\ rgRegistration[<<s, r.agent>>] >= r.at
    /\ s \in DOMAIN rgService =>
          /\ slots[s] # {} => AgentIds(s) # <<>>
          /\ \A i \in DOMAIN AgentIds(s) :
                /\ <<s, AgentIds(s)[i]>> \in DOMAIN rgRegistration
                /\ \E r \in slots[s] : /\ r.agent = AgentIds(s)[i]
                                       /\ r.at = rgRegistration[<<s, AgentIds(s)[i]>>]

SlotsOK == \A s \in RgServices : SlotsOf(s)

\* A Safe stands for one agent of one service, the right ones when the service of its last
\* deployment is indexed.
CreditOf(x) ==
    /\ multisig[x].serviceId \in DOMAIN rgService
    /\ \E a \in Agents : multisig[x].agentIds = <<a>>
    /\ deployedBy[x].indexed =>
          /\ multisig[x].serviceId = deployedBy[x].service
          /\ multisig[x].agentIds[1] \in deployedBy[x].agents
          /\ (rgStage[deployedBy[x].service] = "deployed" /\ rgSafeOf[deployedBy[x].service] = x) =>
                rgService[deployedBy[x].service].multisig = x

CreditsOK == DOMAIN multisig \subseteq RgSafes /\ \A x \in DOMAIN multisig : CreditOf(x)

\* Whoever links an identity finds its rows.
IdentityOf(s) ==
    rgService[s].erc8004Agent # RgNone =>
       /\ rgService[s].erc8004Agent \in DOMAIN identity
       /\ <<rgService[s].erc8004Agent, "ecosystem">> \in DOMAIN metadata
       /\ <<rgService[s].erc8004Agent, "serviceRegistry">> \in DOMAIN metadata

IdentitiesOK == \A s \in DOMAIN rgService : IdentityOf(s)

\* The links of a day's row, none without a row.
LinksOf(f, d) == IF d \in DOMAIN f THEN f[d].links ELSE {}

\* The agents of a day, and their Safes.
ActiveAgents(d) == {k[2] : k \in {x \in DOMAIN agentDay : x[1] = d}}
ActiveSafes(d) == UNION {agentDay[k].links : k \in {x \in DOMAIN agentDay : x[1] = d}}

\* A row that counts its links.
Counted(row, c) == IsFiniteSet(row.links) /\ row[c] = Cardinality(row.links)

DaysCounted ==
    /\ DOMAIN agentDay \subseteq Nat \X Agents
    /\ \A k \in DOMAIN agentDay : /\ DOMAIN agentDay[k] = {"txCount", "activeMultisigCount", "links"}
                                  /\ Counted(agentDay[k], "activeMultisigCount")
    /\ \A d \in DOMAIN uniqueAgents : Counted(uniqueAgents[d], "count")
    /\ \A d \in DOMAIN activeMultisigs : /\ DOMAIN activeMultisigs[d] = {"count", "links"}
                                         /\ Counted(activeMultisigs[d], "count")
    /\ \A d : LinksOf(uniqueAgents, d) = ActiveAgents(d)
    /\ \A d : LinksOf(activeMultisigs, d) = ActiveSafes(d)

\* The days of an agent.
DaysOfAgent(a) == Nat \X {a}

ExecutionsCounted ==
    /\ IsFiniteSet(DOMAIN agentDay) /\ \A k \in DOMAIN agentDay : agentDay[k].txCount \in Int
    /\ IsFiniteSet(DOMAIN performance) /\ DOMAIN performance \subseteq Agents
    /\ \A a \in DOMAIN performance : performance[a] \in Int
    /\ \A a \in Agents : LoadOr(performance, a, 0) = KeptSum(agentDay, DaysOfAgent(a), "txCount")
    /\ DOMAIN rgGlobal = {"txCount", "lastUpdated", "totalOperators"}
    /\ rgGlobal.txCount = SumFunction([a \in DOMAIN performance |-> performance[a]])
    /\ IsFiniteSet(rgOperator) /\ rgGlobal.totalOperators = Cardinality(rgOperator)

RgInv == RgTyped /\ SlotsOK /\ CreditsOK /\ IdentitiesOK /\ DaysCounted /\ ExecutionsCounted

\* What the properties say, from the invariant.
LEMMA RgImplies ==
    ASSUME RgInv PROVE Rg!ActivityAddsUp /\ Rg!CreditGoesToLatest /\ Rg!IdentitiesResolve
<1>1. Rg!CountsMatchLinks
  <2>1. ASSUME NEW d \in DOMAIN uniqueAgents
        PROVE  /\ uniqueAgents[d].count = Rg!Cardinality(uniqueAgents[d].links)
               /\ uniqueAgents[d].links = {k[2] : k \in {x \in DOMAIN agentDay : x[1] = d}}
    BY DEF RgInv, DaysCounted, Counted, LinksOf, ActiveAgents, Rg!Cardinality, Cardinality
  <2>2. ASSUME NEW d \in DOMAIN activeMultisigs
        PROVE  /\ activeMultisigs[d].count = Rg!Cardinality(activeMultisigs[d].links)
               /\ activeMultisigs[d].links =
                     UNION {agentDay[k].links : k \in {x \in DOMAIN agentDay : x[1] = d}}
    BY DEF RgInv, DaysCounted, Counted, LinksOf, ActiveSafes, Rg!Cardinality, Cardinality
  <2>3. ASSUME NEW k \in DOMAIN agentDay
        PROVE  agentDay[k].activeMultisigCount = Rg!Cardinality(agentDay[k].links)
    BY DEF RgInv, DaysCounted, Counted, Rg!Cardinality, Cardinality
  <2>. QED  BY <2>1, <2>2, <2>3 DEF Rg!CountsMatchLinks
<1>2. Rg!TransactionsAddUp
  <2>1. SUFFICES LET perf(a) == performance[a]
                     tx(k) == agentDay[k].txCount
                 IN  /\ rgGlobal.txCount = Rg!SumOver(DOMAIN performance, perf)
                     /\ \A a \in DOMAIN performance :
                           performance[a] = Rg!SumOver({k \in DOMAIN agentDay : k[2] = a}, tx)
                     /\ rgGlobal.totalOperators = Rg!Cardinality(rgOperator)
    BY DEF Rg!TransactionsAddUp
  <2>2. LET perf(a) == performance[a] IN rgGlobal.txCount = Rg!SumOver(DOMAIN performance, perf)
    BY RgSum DEF RgInv, ExecutionsCounted, Rg!SumOver
  <2>3. ASSUME NEW a \in DOMAIN performance
        PROVE  LET tx(k) == agentDay[k].txCount
               IN  performance[a] = Rg!SumOver({k \in DOMAIN agentDay : k[2] = a}, tx)
    <3>1. a \in Agents /\ performance[a] = KeptSum(agentDay, DaysOfAgent(a), "txCount")
      BY DEF RgInv, ExecutionsCounted, LoadOr
    <3>2. {k \in DOMAIN agentDay : k[2] = a} = (DOMAIN agentDay) \cap DaysOfAgent(a)
      BY DEF RgInv, DaysCounted, DaysOfAgent
    <3>3. performance[a] = SumFunction([k \in {k \in DOMAIN agentDay : k[2] = a} |-> agentDay[k]["txCount"]])
      BY <3>1, <3>2 DEF KeptSum
    <3>. QED  BY <3>3, RgSum DEF Rg!SumOver
  <2>4. rgGlobal.totalOperators = Rg!Cardinality(rgOperator)
    BY DEF RgInv, ExecutionsCounted, Rg!Cardinality, Cardinality
  <2>. QED  BY <2>2, <2>3, <2>4
<1>3. Rg!CreditGoesToLatest
  <2>1. SUFFICES ASSUME NEW x \in DOMAIN multisig
                 PROVE  LET last == deployedBy[x]
                        IN  last.indexed =>
                              /\ multisig[x].serviceId = last.service
                              /\ Len(multisig[x].agentIds) = 1 /\ multisig[x].agentIds[1] \in last.agents
                              /\ (rgStage[last.service] = "deployed" /\ rgSafeOf[last.service] = x) =>
                                     rgService[last.service].multisig = x
    BY DEF Rg!CreditGoesToLatest
  <2>2. CreditOf(x) BY DEF RgInv, CreditsOK
  <2>3. Len(multisig[x].agentIds) = 1 BY <2>2 DEF CreditOf
  <2>. QED  BY <2>2, <2>3 DEF CreditOf
<1>4. Rg!IdentitiesResolve
  BY DEF RgInv, IdentitiesOK, IdentityOf, Rg!IdentitiesResolve
<1>. QED  BY <1>1, <1>2, <1>3, <1>4 DEF Rg!ActivityAddsUp

\* The invariant holds before the first log.
LEMMA RgInit == ASSUME Rg!RegistryAssumption, Rg!Init PROVE RgInv
<1>1. /\ rgNow = 1 /\ DOMAIN rgService = {} /\ DOMAIN rgRegistration = {} /\ DOMAIN multisig = {}
      /\ DOMAIN uniqueAgents = {} /\ DOMAIN agentDay = {} /\ DOMAIN activeMultisigs = {}
      /\ DOMAIN performance = {} /\ rgOperator = {}
      /\ rgGlobal = [txCount |-> 0, lastUpdated |-> 0, totalOperators |-> 0]
      /\ rgStage = [s \in RgServices |-> IF s \in Early THEN "open" ELSE "none"]
      /\ slots \in [RgServices -> {{}} \cup {{[agent |-> a, at |-> 0]} : a \in Agents}]
      /\ \A s \in RgServices : slots[s] = {} <=> s \notin Early
      /\ DOMAIN rgSafeOf = RgServices /\ DOMAIN deployedBy = RgSafes
  BY DEF Rg!Init, Rg!NoRows
<1>2. ASSUME NEW s \in RgServices PROVE slots[s] \in SUBSET RgSlots /\ \A r \in slots[s] : r.at = 0
  BY <1>1 DEF RgSlots
<1>3. RgTyped BY <1>1, <1>2 DEF RgStages, RgTyped
<1>4. SlotsOK
  <2>1. ASSUME NEW s \in RgServices PROVE SlotsOf(s) BY <1>1, <1>2 DEF SlotsOf
  <2>. QED  BY <2>1 DEF SlotsOK
<1>5. CreditsOK /\ IdentitiesOK BY <1>1 DEF CreditsOK, IdentitiesOK
<1>6. DaysCounted BY <1>1 DEF DaysCounted, LinksOf, ActiveAgents, ActiveSafes
<1>7. ExecutionsCounted BY FS_EmptySet, <1>1, KeptNone, SumOfNone DEF LoadOr, ExecutionsCounted
<1>. QED  BY <1>3, <1>4, <1>5, <1>6, <1>7 DEF RgInv

\* What the invariant is said of.
rgChain == <<rgNow, rgStage, slots, rgSafeOf, terms, deployedBy>>
rgTables == <<uniqueAgents, agentDay, activeMultisigs, performance>>

\* The tables of executions are left alone, and the operators.
LEMMA RgTablesKept ==
    ASSUME DaysCounted, UNCHANGED <<uniqueAgents, agentDay, activeMultisigs>>
    PROVE  DaysCounted'
<1>1. ASSUME NEW d PROVE LinksOf(uniqueAgents, d)' = LinksOf(uniqueAgents, d)
  BY DEF LinksOf
<1>2. ASSUME NEW d PROVE LinksOf(activeMultisigs, d)' = LinksOf(activeMultisigs, d)
  BY DEF LinksOf
<1>3. ASSUME NEW d PROVE ActiveAgents(d)' = ActiveAgents(d) /\ ActiveSafes(d)' = ActiveSafes(d)
  BY DEF ActiveAgents, ActiveSafes
<1>4. uniqueAgents' = uniqueAgents /\ agentDay' = agentDay /\ activeMultisigs' = activeMultisigs
  OBVIOUS
<1>. QED  BY <1>1, <1>2, <1>3, <1>4 DEF DaysCounted, Counted

LEMMA RgExecutionsKept ==
    ASSUME ExecutionsCounted, UNCHANGED <<agentDay, performance, rgGlobal, rgOperator>>
    PROVE  ExecutionsCounted'
BY DEF ExecutionsCounted, DaysOfAgent, KeptSum, LoadOr

\* Services keep their rows and identities their tables.
LEMMA RgIdentitiesKept ==
    ASSUME IdentitiesOK, DOMAIN identity \subseteq DOMAIN identity',
           DOMAIN metadata \subseteq DOMAIN metadata',
           \A s \in DOMAIN rgService' :
              \/ s \in DOMAIN rgService /\ rgService'[s].erc8004Agent = rgService[s].erc8004Agent
              \/ rgService'[s].erc8004Agent = RgNone
    PROVE  IdentitiesOK'
BY DEF IdentitiesOK, IdentityOf

\* A service whose slots, agents and registrations are left alone.
LEMMA SlotsKept ==
    ASSUME NEW t \in RgServices, SlotsOf(t), slots[t] \subseteq RgSlots, slots'[t] = slots[t],
           rgNow \in Nat, rgNow' \in Nat, rgNow <= rgNow',
           rgStage'[t] = "none" => rgStage[t] = "none",
           t \in DOMAIN rgService' <=> t \in DOMAIN rgService,
           t \in DOMAIN rgService => rgService'[t].agentIds = rgService[t].agentIds,
           \A a : <<t, a>> \in DOMAIN rgRegistration =>
                     /\ <<t, a>> \in DOMAIN rgRegistration'
                     /\ rgRegistration'[<<t, a>>] = rgRegistration[<<t, a>>]
    PROVE  SlotsOf(t)'
<1>1. rgStage'[t] = "none" => slots'[t] = {} /\ t \notin DOMAIN rgService' BY DEF SlotsOf
<1>2. ASSUME NEW r \in slots'[t] PROVE r.at <= rgNow'
  <2>0. r \in slots[t] /\ r \in RgSlots OBVIOUS
  <2>1. r.at \in Nat /\ r.at <= rgNow BY <2>0 DEF SlotsOf, RgSlots
  <2>. QED  BY ONLY <2>1, rgNow \in Nat, rgNow' \in Nat, rgNow <= rgNow'
<1>3. CASE t \in DOMAIN rgService
  <2>1. AgentIds(t)' = AgentIds(t) BY <1>3 DEF AgentIds
  <2>2. ASSUME NEW i \in DOMAIN AgentIds(t)
        PROVE  /\ <<t, AgentIds(t)[i]>> \in DOMAIN rgRegistration'
               /\ rgRegistration'[<<t, AgentIds(t)[i]>>] = rgRegistration[<<t, AgentIds(t)[i]>>]
    BY <1>3 DEF SlotsOf
  <2>3. ASSUME NEW r \in slots'[t], r.at > 0
        PROVE  /\ \E i \in DOMAIN AgentIds(t) : AgentIds(t)[i] = r.agent
               /\ rgRegistration'[<<t, r.agent>>] >= r.at
    BY <2>3, <2>2 DEF SlotsOf
  <2>4. /\ slots'[t] # {} => AgentIds(t) # <<>>
        /\ \A i \in DOMAIN AgentIds(t) :
              /\ <<t, AgentIds(t)[i]>> \in DOMAIN rgRegistration'
              /\ \E r \in slots'[t] : /\ r.agent = AgentIds(t)[i]
                                      /\ r.at = rgRegistration'[<<t, AgentIds(t)[i]>>]
    BY <1>3, <2>2 DEF SlotsOf
  <2>. QED  BY <1>1, <1>2, <1>3, <2>1, <2>3, <2>4 DEF SlotsOf
<1>4. CASE t \notin DOMAIN rgService BY <1>4, <1>1, <1>2 DEF SlotsOf
<1>. QED  BY <1>3, <1>4

\* What no deployment changes of the credits.
LEMMA RgCreditsKept ==
    ASSUME CreditsOK, UNCHANGED <<multisig, deployedBy, rgSafeOf>>,
           DOMAIN rgService \subseteq DOMAIN rgService',
           \A s \in DOMAIN rgService :
              rgStage'[s] = "deployed" =>
                 rgStage[s] = "deployed" /\ rgService'[s].multisig = rgService[s].multisig
    PROVE  CreditsOK'
<1>1. ASSUME NEW x \in DOMAIN multisig PROVE CreditOf(x)' BY DEF CreditsOK, CreditOf
<1>. QED  BY <1>1 DEF CreditsOK

\* A step that moves nothing but the clock.
LEMMA RgTick == ASSUME RgInv, Rg!Tick PROVE RgInv'
<1>1. /\ rgNow' = rgNow + 1 /\ UNCHANGED <<rgStage, slots, rgSafeOf, deployedBy, rgService,
            rgRegistration, multisig, rgOperator, rgTables, rgGlobal, identity, metadata>>
  BY DEF Rg!Tick, Rg!daily, Rg!erc8004, rgTables
<1>2. RgTyped' /\ rgNow \in Nat BY <1>1 DEF RgInv, RgTyped
<1>3. SlotsOK'
  <2>1. ASSUME NEW s \in RgServices PROVE SlotsOf(s)'
    BY <1>1, <1>2, SlotsKept DEF RgInv, SlotsOK, RgTyped
  <2>. QED  BY <2>1 DEF SlotsOK
<1>4. CreditsOK' BY <1>1, RgCreditsKept DEF RgInv
<1>5. IdentitiesOK' BY <1>1, RgIdentitiesKept DEF RgInv
<1>6. DaysCounted' BY <1>1, RgTablesKept DEF RgInv, rgTables
<1>7. ExecutionsCounted' BY <1>1, RgExecutionsKept DEF RgInv, rgTables
<1>. QED  BY <1>2, <1>3, <1>4, <1>5, <1>6, <1>7 DEF RgInv

-----------------------------------------------------------------------------
(* service-registry: registration and deployment. *)

\* A deployment is credited to one agent, of those registered last for it.
LEMMA RecentIsLatest ==
    ASSUME Rg!RegistryAssumption, RgTyped, NEW s \in DOMAIN rgService, SlotsOf(s), slots[s] # {}
    PROVE  \E a \in Agents : /\ Rg!CreditedAgents(s, AgentIds(s)) = <<a>>
                             /\ a \in Rg!LatestOf(slots[s])
<1>1. PICK ids : ids = AgentIds(s) OBVIOUS
<1>2. s \in RgServices /\ ids \in Seq(Agents) /\ rgNow \in Nat BY <1>1 DEF RgTyped, RgServiceRow, AgentIds
<1>3. ids # <<>> /\ DOMAIN ids = 1..Len(ids) /\ Len(ids) \in Nat /\ Len(ids) > 0
  BY <1>1, <1>2 DEF SlotsOf
<1>4. PICK at : at = [i \in DOMAIN ids |-> rgRegistration[<<s, ids[i]>>]] OBVIOUS
<1>5. \A i \in DOMAIN ids : /\ <<s, ids[i]>> \in DOMAIN rgRegistration
                            /\ rgRegistration[<<s, ids[i]>>] = at[i]
                            /\ at[i] \in 1..rgNow /\ ids[i] \in Agents
                            /\ \E r \in slots[s] : r.agent = ids[i] /\ r.at = at[i]
  BY <1>1, <1>2, <1>3, <1>4 DEF SlotsOf, RgTyped
<1>6. PICK latest : latest = {i \in DOMAIN ids : \A j \in DOMAIN ids : at[j] <= at[i]} OBVIOUS
<1>7. latest # {}
  <2>1. PICK T : T = {at[i] : i \in DOMAIN ids} OBVIOUS
  <2>2. T \subseteq 1..rgNow /\ T # {}
    <3>1. 1 \in DOMAIN ids BY <1>3
    <3>2. \A i \in DOMAIN ids : at[i] \in 1..rgNow BY <1>5
    <3>. QED  BY ONLY <2>1, <3>1, <3>2
  <2>3. IsFiniteSet(1..rgNow) BY <1>2, FS_Interval
  <2>4. IsFiniteSet(T) BY <2>2, <2>3, FS_Subset
  <2>5. T \subseteq Int /\ T # {} BY <2>2
  <2>6. PICK m \in T : \A y \in T : y <= m BY ONLY <2>4, <2>5, FiniteIntExtremes
  <2>7. PICK i \in DOMAIN ids : at[i] = m BY <2>1, <2>6
  <2>8. i \in latest BY <1>6, <2>1, <2>6, <2>7
  <2>. QED  BY <2>8
<1>8. \E i \in latest : \A j \in latest : i <= j
  <2>1. latest \subseteq 1..Len(ids) /\ IsFiniteSet(1..Len(ids)) BY <1>3, <1>6, FS_Interval
  <2>2. IsFiniteSet(latest) BY <2>1, FS_Subset
  <2>3. latest \subseteq Int BY <2>1
  <2>. QED  BY ONLY <1>7, <2>2, <2>3, FiniteIntExtremes
<1>9. PICK c : c = CHOOSE i \in latest : \A j \in latest : i <= j OBVIOUS
<1>10. c \in latest BY <1>8, <1>9
<1>11. PICK a : a = ids[c] OBVIOUS
<1>12. c \in DOMAIN ids /\ a \in Agents /\ \A j \in DOMAIN ids : at[j] <= at[c]
  BY <1>5, <1>6, <1>10, <1>11
<1>13. Rg!getMostRecentAgentId(s, ids) = a
  <2>1. {i \in DOMAIN ids : /\ <<s, ids[i]>> \in DOMAIN rgRegistration
                            /\ rgRegistration[<<s, ids[i]>>] \in 1..rgNow} = DOMAIN ids
    BY <1>5
  <2>2. {i \in DOMAIN ids : \A j \in DOMAIN ids :
             rgRegistration[<<s, ids[j]>>] <= rgRegistration[<<s, ids[i]>>]} = latest
    BY <1>5, <1>6
  <2>3. DOMAIN ids # {} BY <1>12
  <2>. QED  BY <1>9, <1>11, <2>1, <2>2, <2>3 DEF Rg!getMostRecentAgentId
<1>14. a # RgNone BY <1>12 DEF Rg!RegistryAssumption
<1>15. Rg!CreditedAgents(s, ids) = <<a>> BY <1>13, <1>14 DEF Rg!CreditedAgents
<1>16. a \in Rg!LatestOf(slots[s])
  <2>1. PICK r \in slots[s] : r.agent = a /\ r.at = at[c] BY <1>5, <1>11, <1>12
  <2>2. ASSUME NEW y \in slots[s] PROVE y.at <= r.at
    <3>1. y.at \in Nat /\ at[c] \in Nat
      <4>1. at[c] \in 1..rgNow BY <1>5, <1>12
      <4>2. y \in RgSlots BY <1>2 DEF RgTyped
      <4>. QED  BY <1>2, <4>1, <4>2 DEF RgSlots
    <3>2. CASE y.at = 0 BY <2>1, <3>1, <3>2
    <3>3. CASE y.at > 0
      <4>1. PICK j \in DOMAIN ids : ids[j] = y.agent BY <1>1, <3>3 DEF SlotsOf
      <4>2. at[j] >= y.at BY <1>5, <3>3, <4>1 DEF SlotsOf
      <4>3. at[j] \in 1..rgNow /\ at[j] <= at[c] BY <1>5, <1>12
      <4>. QED  BY ONLY <1>2, <2>1, <3>1, <4>2, <4>3
    <3>. QED  BY <3>1, <3>2, <3>3
  <2>. QED  BY <2>1, <2>2 DEF Rg!LatestOf
<1>. QED  BY <1>1, <1>12, <1>15, <1>16

\* A service that is made has no slots yet.
LEMMA RgCreate ==
    ASSUME RgInv, NEW s \in RgServices, Rg!handleCreateService(s) PROVE RgInv'
<1>1. /\ rgStage[s] = "none" /\ rgStage' = [rgStage EXCEPT ![s] = "open"]
      /\ rgService' = Rg!Put(rgService, s, Rg!getOrCreateService(s))
      /\ UNCHANGED <<rgNow, slots, rgSafeOf, deployedBy, rgRegistration, multisig, rgOperator,
                     rgTables, rgGlobal, identity, metadata>>
  BY DEF Rg!handleCreateService, Rg!daily, Rg!erc8004, rgTables
<1>2. s \notin DOMAIN rgService /\ slots[s] = {} BY <1>1 DEF RgInv, SlotsOK, SlotsOf
<1>3. /\ DOMAIN rgService' = DOMAIN rgService \cup {s}
      /\ rgService'[s] = [agentIds |-> <<>>, multisig |-> RgNone, erc8004Agent |-> RgNone]
      /\ \A t \in DOMAIN rgService : t # s /\ rgService'[t] = rgService[t]
  BY <1>1, <1>2 DEF Rg!Put, Rg!getOrCreateService, Rg!LoadOr, Rg!NewService
<1>4. rgStage \in [RgServices -> RgStages] BY DEF RgInv, RgTyped
<1>5. RgTyped'
  <2>1. rgService'[s] \in RgServiceRow BY <1>3 DEF RgServiceRow
  <2>2. rgStage' \in [RgServices -> RgStages] BY <1>1, <1>4 DEF RgStages
  <2>. QED  BY <1>1, <1>3, <2>1, <2>2 DEF RgInv, RgTyped
<1>6. SlotsOK'
  <2>1. ASSUME NEW t \in RgServices PROVE SlotsOf(t)'
    <3>1. SlotsOf(t) BY DEF RgInv, SlotsOK
    <3>2. CASE t = s BY <1>1, <1>2, <1>3, <1>4, <3>2 DEF SlotsOf, AgentIds
    <3>3. CASE t # s BY <1>1, <1>4, <3>3, <1>3, <3>1, SlotsKept DEF RgInv, RgTyped
    <3>. QED  BY <3>2, <3>3
  <2>. QED  BY <2>1 DEF SlotsOK
<1>7. CreditsOK' BY <1>1, <1>3, <1>4, RgCreditsKept DEF RgInv, RgTyped
<1>8. IdentitiesOK' BY <1>3, <1>1, RgIdentitiesKept DEF RgInv
<1>9. DaysCounted' BY <1>1, RgTablesKept DEF RgInv, rgTables
<1>10. ExecutionsCounted' BY <1>1, RgExecutionsKept DEF RgInv, rgTables
<1>. QED  BY <1>5, <1>6, <1>7, <1>8, <1>9, <1>10 DEF RgInv

\* An agent that registers has the latest slot of all; the row of its service lists it.
LEMMA RgRegister ==
    ASSUME RgInv, NEW s \in RgServices, NEW a \in Agents, NEW o,
           Rg!handleRegisterInstance(s, a, o)
    PROVE  RgInv'
<1>1. PICK slot : slot = [agent |-> a, at |-> rgNow] OBVIOUS
<1>2. PICK row : row = Rg!getOrCreateService(s) OBVIOUS
<1>3. PICK ids : ids = Rg!WithAgent(row.agentIds, a) OBVIOUS
<1>4. /\ rgStage[s] = "open" /\ slots' = [slots EXCEPT ![s] = slots[s] \cup {slot}]
      /\ rgRegistration' = Rg!Put(rgRegistration, <<s, a>>, rgNow)
      /\ rgService' = Rg!Put(rgService, s, [row EXCEPT !.agentIds = ids])
      /\ Rg!updateUniqueOperators(o)
      /\ UNCHANGED <<rgNow, rgStage, rgSafeOf, deployedBy, multisig, rgTables, identity, metadata>>
  BY <1>1, <1>2, <1>3
  DEF Rg!handleRegisterInstance, Rg!createOrUpdateAgentRegistration, Rg!daily, Rg!erc8004, rgTables
<1>5. /\ rgNow \in Nat \ {0} /\ slots \in [RgServices -> SUBSET RgSlots]
      /\ DOMAIN rgRegistration \subseteq RgServices \X Agents
      /\ \A k \in DOMAIN rgRegistration : rgRegistration[k] \in 1..rgNow
  BY DEF RgInv, RgTyped
<1>6. row \in RgServiceRow
  <2>1. Rg!NewService \in RgServiceRow BY DEF Rg!NewService, RgServiceRow
  <2>2. \A t \in DOMAIN rgService : rgService[t] \in RgServiceRow BY DEF RgInv, RgTyped
  <2>. QED  BY <1>2, <2>1, <2>2 DEF Rg!getOrCreateService, Rg!LoadOr
<1>7. /\ ids \in Seq(Agents) /\ \E i \in DOMAIN ids : ids[i] = a
      /\ \A i \in DOMAIN ids : ids[i] = a \/ \E j \in DOMAIN row.agentIds : row.agentIds[j] = ids[i]
      /\ \A j \in DOMAIN row.agentIds : \E i \in DOMAIN ids : ids[i] = row.agentIds[j]
  <2>1. PICK old : old = row.agentIds OBVIOUS
  <2>2. old \in Seq(Agents) BY <1>6, <2>1 DEF RgServiceRow
  <2>3. ids = IF \E i \in DOMAIN old : old[i] = a THEN old ELSE Append(old, a)
    BY <1>3, <2>1 DEF Rg!WithAgent, Rg!Contains
  <2>4. CASE \E i \in DOMAIN old : old[i] = a
    <3>1. ids = old BY <2>3, <2>4
    <3>. QED  BY <2>1, <2>2, <2>4, <3>1
  <2>5. CASE ~\E i \in DOMAIN old : old[i] = a
    <3>1. ids = Append(old, a) BY <2>3, <2>5
    <3>2. /\ ids \in Seq(Agents) /\ Len(ids) = Len(old) + 1 /\ ids[Len(old) + 1] = a
          /\ \A i \in 1..Len(old) : ids[i] = old[i]
          /\ DOMAIN ids = 1..(Len(old) + 1) /\ DOMAIN old = 1..Len(old) /\ Len(old) \in Nat
      BY <2>2, <3>1
    <3>. QED  BY <2>1, <3>2
  <2>. QED  BY <2>4, <2>5
<1>8. /\ DOMAIN rgService' = DOMAIN rgService \cup {s}
      /\ rgService'[s] = [row EXCEPT !.agentIds = ids]
      /\ \A t \in DOMAIN rgService \ {s} : rgService'[t] = rgService[t]
  BY <1>4 DEF Rg!Put
<1>9. /\ rgService'[s] \in RgServiceRow /\ rgService'[s].agentIds = ids
      /\ rgService'[s].multisig = row.multisig /\ rgService'[s].erc8004Agent = row.erc8004Agent
  BY <1>6, <1>7, <1>8 DEF RgServiceRow
<1>10. /\ DOMAIN rgRegistration' = DOMAIN rgRegistration \cup {<<s, a>>}
       /\ rgRegistration'[<<s, a>>] = rgNow
       /\ \A k \in DOMAIN rgRegistration \ {<<s, a>>} : rgRegistration'[k] = rgRegistration[k]
  BY <1>4 DEF Rg!Put
<1>11. slots'[s] = slots[s] \cup {slot} /\ \A t \in RgServices \ {s} : slots'[t] = slots[t]
  BY <1>4, <1>5
<1>12. slot \in RgSlots /\ slot.agent = a /\ slot.at = rgNow BY <1>1, <1>5 DEF RgSlots
<1>13. RgTyped'
  <2>1. slots' \in [RgServices -> SUBSET RgSlots] BY <1>4, <1>5, <1>11, <1>12
  <2>2. rgNow \in 1..rgNow BY <1>5
  <2>3. DOMAIN rgRegistration' \subseteq RgServices \X Agents BY <1>5, <1>10
  <2>4. \A k \in DOMAIN rgRegistration' : rgRegistration'[k] \in 1..rgNow BY <1>5, <1>10, <2>2
  <2>. QED  BY <1>4, <1>8, <1>9, <2>1, <2>3, <2>4 DEF RgInv, RgTyped
<1>14. SlotsOK'
  <2>1. ASSUME NEW t \in RgServices PROVE SlotsOf(t)'
    <3>1. SlotsOf(t) BY DEF RgInv, SlotsOK
    <3>2. CASE t = s
      <4>1. SlotsOf(s) /\ s \in DOMAIN rgService' BY <1>8, <3>1, <3>2
      <4>2. AgentIds(s)' = ids BY <1>9 DEF AgentIds
      <4>3. rgStage'[s] # "none" BY <1>4
      <4>4. ASSUME NEW j \in DOMAIN row.agentIds
            PROVE  /\ <<s, row.agentIds[j]>> \in DOMAIN rgRegistration
                   /\ \E r \in slots[s] : /\ r.agent = row.agentIds[j]
                                          /\ r.at = rgRegistration[<<s, row.agentIds[j]>>]
        <5>1. CASE s \in DOMAIN rgService
          <6>1. row = rgService[s] BY <1>2, <5>1 DEF Rg!getOrCreateService, Rg!LoadOr
          <6>. QED  BY <4>1, <5>1, <6>1 DEF SlotsOf, AgentIds
        <5>2. CASE s \notin DOMAIN rgService
          <6>1. row.agentIds = <<>>
            BY <1>2, <5>2 DEF Rg!getOrCreateService, Rg!LoadOr, Rg!NewService
          <6>. QED  BY <6>1
        <5>. QED  BY <5>1, <5>2
      <4>5. ASSUME NEW r \in slots'[s]
            PROVE  /\ r.at <= rgNow
                   /\ r.at > 0 => /\ \E i \in DOMAIN ids : ids[i] = r.agent
                                  /\ rgRegistration'[<<s, r.agent>>] >= r.at
        <5>1. CASE r = slot
          <6>1. rgNow <= rgNow /\ rgNow >= rgNow BY <1>5
          <6>. QED  BY <1>7, <1>10, <1>12, <5>1, <6>1
        <5>2. CASE r # slot
          <6>1. r \in slots[s] BY <1>11, <5>2
          <6>2. r.at <= rgNow BY <4>1, <6>1 DEF SlotsOf
          <6>3. ASSUME r.at > 0
                PROVE  /\ \E i \in DOMAIN ids : ids[i] = r.agent
                       /\ rgRegistration'[<<s, r.agent>>] >= r.at
            <7>1. /\ s \in DOMAIN rgService /\ rgRegistration[<<s, r.agent>>] >= r.at
                  /\ \E i \in DOMAIN AgentIds(s) : AgentIds(s)[i] = r.agent
              BY <4>1, <6>1, <6>3 DEF SlotsOf
            <7>2. row.agentIds = AgentIds(s)
              BY <1>2, <7>1 DEF Rg!getOrCreateService, Rg!LoadOr, AgentIds
            <7>3. <<s, r.agent>> \in DOMAIN rgRegistration BY <4>4, <7>1, <7>2
            <7>4. CASE r.agent = a
              <8>1. r \in RgSlots BY <1>5, <6>1
              <8>2. r.at \in Nat BY <8>1 DEF RgSlots
              <8>3. rgNow >= r.at BY <1>5, <6>2, <8>2
              <8>. QED  BY <1>7, <1>10, <7>4, <8>3
            <7>5. CASE r.agent # a
              <8>1. rgRegistration'[<<s, r.agent>>] = rgRegistration[<<s, r.agent>>]
                BY <1>10, <7>3, <7>5
              <8>. QED  BY <1>7, <7>1, <7>2, <8>1
            <7>. QED  BY <7>4, <7>5
          <6>. QED  BY <6>2, <6>3
        <5>. QED  BY <5>1, <5>2
      <4>6. ids # <<>> BY <1>7
      <4>7. ASSUME NEW i \in DOMAIN ids
            PROVE  /\ <<s, ids[i]>> \in DOMAIN rgRegistration'
                   /\ \E r \in slots'[s] : /\ r.agent = ids[i]
                                           /\ r.at = rgRegistration'[<<s, ids[i]>>]
        <5>1. CASE ids[i] = a BY <1>10, <1>11, <1>12, <5>1
        <5>2. CASE ids[i] # a
          <6>1. PICK j \in DOMAIN row.agentIds : row.agentIds[j] = ids[i] BY <1>7, <5>2
          <6>2. /\ <<s, ids[i]>> \in DOMAIN rgRegistration
                /\ \E r \in slots[s] : r.agent = ids[i] /\ r.at = rgRegistration[<<s, ids[i]>>]
            BY <4>4, <6>1
          <6>3. rgRegistration'[<<s, ids[i]>>] = rgRegistration[<<s, ids[i]>>]
            BY <1>10, <5>2, <6>2
          <6>. QED  BY <1>10, <1>11, <6>2, <6>3
        <5>. QED  BY <5>1, <5>2
      <4>8. rgNow' = rgNow BY <1>4
      <4>9. SlotsOf(s)'
        BY <4>1, <4>2, <4>3, <4>5, <4>6, <4>7, <4>8 DEF SlotsOf
      <4>. QED  BY <3>2, <4>9
    <3>3. CASE t # s
      <4>1. t \in DOMAIN rgService' <=> t \in DOMAIN rgService BY <1>8, <3>3
      <4>2. t \in DOMAIN rgService => rgService'[t].agentIds = rgService[t].agentIds BY <1>8, <3>3
      <4>3. ASSUME NEW b, <<t, b>> \in DOMAIN rgRegistration
            PROVE  /\ <<t, b>> \in DOMAIN rgRegistration'
                   /\ rgRegistration'[<<t, b>>] = rgRegistration[<<t, b>>]
        <5>1. <<t, b>> # <<s, a>> BY <3>3
        <5>. QED  BY <1>10, <4>3, <5>1
      <4>4. slots'[t] = slots[t] /\ slots[t] \subseteq RgSlots BY <1>5, <1>11, <3>3
      <4>5. rgNow \in Nat /\ rgNow' = rgNow /\ rgStage' = rgStage /\ rgNow <= rgNow BY <1>4, <1>5
      <4>. QED  BY <3>1, <4>1, <4>2, <4>3, <4>4, <4>5, SlotsKept
    <3>. QED  BY <3>2, <3>3
  <2>. QED  BY <2>1 DEF SlotsOK
<1>15. s \in DOMAIN rgService => row = rgService[s]
  BY <1>2 DEF Rg!getOrCreateService, Rg!LoadOr
<1>16. s \notin DOMAIN rgService => row.erc8004Agent = RgNone
  BY <1>2 DEF Rg!getOrCreateService, Rg!LoadOr, Rg!NewService
<1>17. CreditsOK'
  <2>1. \A t \in DOMAIN rgService : rgService'[t].multisig = rgService[t].multisig
    BY <1>8, <1>9, <1>15
  <2>. QED  BY <1>4, <1>8, <2>1, RgCreditsKept DEF RgInv
<1>18. IdentitiesOK'
  <2>1. ASSUME NEW t \in DOMAIN rgService'
        PROVE  \/ t \in DOMAIN rgService /\ rgService'[t].erc8004Agent = rgService[t].erc8004Agent
               \/ rgService'[t].erc8004Agent = RgNone
    BY <1>8, <1>9, <1>15, <1>16
  <2>. QED  BY <1>4, <2>1, RgIdentitiesKept DEF RgInv
<1>19. DaysCounted' BY <1>4, RgTablesKept DEF RgInv, rgTables
<1>20. ExecutionsCounted'
  <2>1. ExecutionsCounted BY DEF RgInv
  <2>2. /\ DOMAIN rgGlobal' = {"txCount", "lastUpdated", "totalOperators"}
        /\ rgGlobal'.txCount = rgGlobal.txCount
        /\ IsFiniteSet(rgOperator') /\ rgGlobal'.totalOperators = Cardinality(rgOperator')
    <3>1. /\ IsFiniteSet(rgOperator) /\ rgGlobal.totalOperators = Cardinality(rgOperator)
          /\ DOMAIN rgGlobal = {"txCount", "lastUpdated", "totalOperators"}
      BY <2>1 DEF ExecutionsCounted
    <3>2. CASE o \in rgOperator
      <4>1. rgOperator' = rgOperator /\ rgGlobal' = rgGlobal
        BY <1>4, <3>2 DEF Rg!updateUniqueOperators
      <4>. QED  BY <3>1, <4>1
    <3>3. CASE o \notin rgOperator
      <4>1. /\ rgOperator' = rgOperator \cup {o}
            /\ rgGlobal' = Rg!Add(rgGlobal, [totalOperators |-> 1])
        BY <1>4, <3>3 DEF Rg!updateUniqueOperators
      <4>2. /\ IsFiniteSet(rgOperator') /\ Cardinality(rgOperator') = Cardinality(rgOperator) + 1
        BY <3>1, <3>3, <4>1, FS_AddElement
      <4>3. /\ DOMAIN rgGlobal' = DOMAIN rgGlobal /\ rgGlobal'.txCount = rgGlobal.txCount
            /\ rgGlobal'.totalOperators = rgGlobal.totalOperators + 1
        BY <3>1, <4>1 DEF Rg!Add
      <4>. QED  BY <3>1, <4>2, <4>3
    <3>. QED  BY <3>2, <3>3
  <2>3. agentDay' = agentDay /\ performance' = performance BY <1>4 DEF rgTables
  <2>4. /\ \A b \in Agents : KeptSum(agentDay, DaysOfAgent(b), "txCount")'
                                = KeptSum(agentDay, DaysOfAgent(b), "txCount")
        /\ \A b \in Agents : LoadOr(performance, b, 0)' = LoadOr(performance, b, 0)
    BY <2>3 DEF KeptSum, DaysOfAgent, LoadOr
  <2>. QED  BY <2>1, <2>2, <2>3, <2>4 DEF ExecutionsCounted
<1>. QED  BY <1>13, <1>14, <1>17, <1>18, <1>19, <1>20 DEF RgInv

\* A deployment is credited to its service, and to one agent of those registered last.
LEMMA RgDeploy ==
    ASSUME Rg!RegistryAssumption, RgInv, NEW s \in RgServices, NEW safe \in RgSafes,
           Rg!handleCreateMultisig(s, safe)
    PROVE  RgInv'
<1>1. /\ rgStage[s] = "open" /\ slots[s] # {}
      /\ rgStage' = [rgStage EXCEPT ![s] = "deployed"]
      /\ rgSafeOf' = [rgSafeOf EXCEPT ![s] = safe]
      /\ deployedBy' = [deployedBy EXCEPT ![safe] =
                           [service |-> s, agents |-> Rg!LatestOf(slots[s]),
                            indexed |-> s \in DOMAIN rgService]]
      /\ UNCHANGED <<rgNow, slots, rgRegistration, rgOperator, rgTables, rgGlobal, identity, metadata>>
  BY DEF Rg!handleCreateMultisig, Rg!daily, Rg!erc8004, rgTables
<1>2. /\ rgStage \in [RgServices -> RgStages] /\ DOMAIN rgSafeOf = RgServices
      /\ DOMAIN deployedBy = RgSafes /\ DOMAIN rgService \subseteq RgServices
      /\ slots \in [RgServices -> SUBSET RgSlots] /\ rgNow \in Nat
      /\ \A t \in DOMAIN rgService : rgService[t] \in RgServiceRow
  BY DEF RgInv, RgTyped
<1>3. /\ rgStage' \in [RgServices -> RgStages] /\ rgStage'[s] = "deployed"
      /\ \A t \in RgServices \ {s} : rgStage'[t] = rgStage[t]
      /\ DOMAIN rgSafeOf' = RgServices /\ rgSafeOf'[s] = safe
      /\ \A t \in RgServices \ {s} : rgSafeOf'[t] = rgSafeOf[t]
      /\ DOMAIN deployedBy' = RgSafes
      /\ deployedBy'[safe].service = s /\ deployedBy'[safe].agents = Rg!LatestOf(slots[s])
      /\ deployedBy'[safe].indexed = (s \in DOMAIN rgService)
      /\ \A x \in RgSafes \ {safe} : deployedBy'[x] = deployedBy[x]
  BY <1>1, <1>2 DEF RgStages
<1>4. /\ s \in DOMAIN rgService => /\ rgService' = [rgService EXCEPT ![s].multisig = safe]
                                   /\ multisig' = Rg!Put(multisig, safe,
                                        [serviceId |-> s,
                                         agentIds |-> Rg!CreditedAgents(s, rgService[s].agentIds)])
      /\ s \notin DOMAIN rgService => rgService' = rgService /\ multisig' = multisig
  BY DEF Rg!handleCreateMultisig
<1>5. /\ DOMAIN rgService' = DOMAIN rgService
      /\ s \in DOMAIN rgService => rgService'[s].multisig = safe
      /\ \A t \in DOMAIN rgService : /\ rgService'[t] \in RgServiceRow
                                     /\ rgService'[t].agentIds = rgService[t].agentIds
                                     /\ rgService'[t].erc8004Agent = rgService[t].erc8004Agent
                                     /\ t # s => rgService'[t].multisig = rgService[t].multisig
  <2>1. CASE s \in DOMAIN rgService
    <3>1. rgService' = [rgService EXCEPT ![s].multisig = safe] BY <1>4, <2>1
    <3>2. DOMAIN rgService' = DOMAIN rgService BY <3>1
    <3>3. ASSUME NEW t \in DOMAIN rgService
          PROVE  /\ rgService'[t] \in RgServiceRow
                 /\ rgService'[t].agentIds = rgService[t].agentIds
                 /\ rgService'[t].erc8004Agent = rgService[t].erc8004Agent
                 /\ rgService'[t].multisig = IF t = s THEN safe ELSE rgService[t].multisig
      <4>1. CASE t = s BY <3>1, <4>1, <1>2 DEF RgServiceRow
      <4>2. CASE t # s BY <1>2, <3>1, <4>2
      <4>. QED  BY <4>1, <4>2
    <3>. QED  BY <2>1, <3>2, <3>3
  <2>2. CASE s \notin DOMAIN rgService BY <1>2, <1>4, <2>2
  <2>. QED  BY <2>1, <2>2
<1>6. RgTyped' BY <1>1, <1>2, <1>3, <1>5 DEF RgInv, RgTyped
<1>7. SlotsOK'
  <2>1. ASSUME NEW t \in RgServices PROVE SlotsOf(t)'
    BY <1>3, <1>1, <1>2, <1>5, SlotsKept DEF RgInv, SlotsOK
  <2>. QED  BY <2>1 DEF SlotsOK
<1>8. CreditsOK'
  <2>1. DOMAIN multisig \subseteq RgSafes /\ \A x \in DOMAIN multisig : CreditOf(x)
    BY DEF RgInv, CreditsOK
  <2>2. DOMAIN multisig' \subseteq RgSafes BY <1>4, <2>1 DEF Rg!Put
  <2>3. ASSUME NEW x \in DOMAIN multisig, x # safe PROVE CreditOf(x)' /\ multisig'[x] = multisig[x]
    <3>1. multisig'[x] = multisig[x] BY <1>4, <2>3 DEF Rg!Put
    <3>2. CreditOf(x) /\ deployedBy'[x] = deployedBy[x] BY <1>3, <2>1, <2>3
    <3>3. ASSUME deployedBy[x].indexed, rgStage'[deployedBy[x].service] = "deployed",
                 rgSafeOf'[deployedBy[x].service] = x
          PROVE  rgService'[deployedBy[x].service].multisig = x
      BY <3>2, <3>3, <1>3, <2>3, <1>2, <1>5 DEF CreditOf
    <3>. QED  BY <1>5, <3>1, <3>2, <3>3 DEF CreditOf
  <2>4. CASE s \in DOMAIN rgService
    <3>1. SlotsOf(s) BY DEF RgInv, SlotsOK
    <3>2. PICK a \in Agents : /\ Rg!CreditedAgents(s, AgentIds(s)) = <<a>>
                              /\ a \in Rg!LatestOf(slots[s])
      BY <1>1, <2>4, <3>1, RecentIsLatest DEF RgInv
    <3>3. /\ multisig'[safe].serviceId = s /\ multisig'[safe].agentIds = <<a>>
          /\ DOMAIN multisig' = DOMAIN multisig \cup {safe}
      BY <1>4, <2>4, <3>2 DEF Rg!Put, AgentIds
    <3>4. CreditOf(safe)' BY <1>3, <1>5, <2>4, <3>2, <3>3 DEF CreditOf
    <3>. QED  BY <2>2, <2>3, <3>3, <3>4 DEF CreditsOK
  <2>5. CASE s \notin DOMAIN rgService
    <3>1. multisig' = multisig /\ ~deployedBy'[safe].indexed BY <1>3, <1>4, <2>5
    <3>2. safe \in DOMAIN multisig => CreditOf(safe)'
      BY <1>5, <2>1, <3>1 DEF CreditOf
    <3>. QED  BY <2>2, <2>3, <3>1, <3>2 DEF CreditsOK
  <2>. QED  BY <2>4, <2>5
<1>9. IdentitiesOK' BY <1>1, <1>5, RgIdentitiesKept DEF RgInv
<1>10. DaysCounted' BY <1>1, RgTablesKept DEF RgInv, rgTables
<1>11. ExecutionsCounted' BY <1>1, RgExecutionsKept DEF RgInv, rgTables
<1>. QED  BY <1>6, <1>7, <1>8, <1>9, <1>10, <1>11 DEF RgInv

\* A service that is terminated forgets its agents and its Safe; credits stay.
LEMMA RgTerminate ==
    ASSUME RgInv, NEW s \in RgServices, Rg!handleTerminateService(s) PROVE RgInv'
<1>1. /\ rgStage[s] \in {"open", "deployed"} /\ rgStage' = [rgStage EXCEPT ![s] = "open"]
      /\ slots' = [slots EXCEPT ![s] = {}]
      /\ UNCHANGED <<rgNow, rgSafeOf, deployedBy, rgRegistration, multisig, rgOperator, rgTables,
                     rgGlobal, identity, metadata>>
  BY DEF Rg!handleTerminateService, Rg!daily, Rg!erc8004, rgTables
<1>2. /\ rgStage \in [RgServices -> RgStages] /\ slots \in [RgServices -> SUBSET RgSlots]
      /\ rgNow \in Nat /\ \A t \in DOMAIN rgService : rgService[t] \in RgServiceRow
  BY DEF RgInv, RgTyped
<1>3. /\ DOMAIN rgService' = DOMAIN rgService
      /\ s \in DOMAIN rgService => rgService'[s].agentIds = <<>>
      /\ \A t \in DOMAIN rgService : /\ rgService'[t] \in RgServiceRow
                                     /\ rgService'[t].erc8004Agent = rgService[t].erc8004Agent
                                     /\ t # s => rgService'[t] = rgService[t]
  <2>1. CASE s \in DOMAIN rgService
    <3>1. PICK row : row = [rgService[s] EXCEPT !.agentIds = <<>>, !.multisig = RgNone] OBVIOUS
    <3>2. rgService' = [rgService EXCEPT ![s] = row]
      BY <2>1, <3>1 DEF Rg!handleTerminateService
    <3>3. row \in RgServiceRow /\ row.agentIds = <<>> /\ row.erc8004Agent = rgService[s].erc8004Agent
      <4>1. rgService[s] \in RgServiceRow BY <1>2, <2>1
      <4>2. <<>> \in Seq(Agents) OBVIOUS
      <4>3. row = [agentIds |-> <<>>, multisig |-> RgNone,
                   erc8004Agent |-> rgService[s].erc8004Agent]
        BY <3>1, <4>1 DEF RgServiceRow
      <4>. QED  BY <4>1, <4>2, <4>3 DEF RgServiceRow
    <3>. QED  BY <1>2, <2>1, <3>2, <3>3
  <2>2. CASE s \notin DOMAIN rgService BY <2>2, <1>2 DEF Rg!handleTerminateService
  <2>. QED  BY <2>1, <2>2
<1>4. /\ rgStage' \in [RgServices -> RgStages] /\ rgStage'[s] = "open"
      /\ \A t \in RgServices \ {s} : rgStage'[t] = rgStage[t]
      /\ slots' \in [RgServices -> SUBSET RgSlots] /\ slots'[s] = {}
      /\ \A t \in RgServices \ {s} : slots'[t] = slots[t]
  BY <1>1, <1>2 DEF RgStages
<1>5. RgTyped' BY <1>1, <1>3, <1>4 DEF RgInv, RgTyped
<1>6. SlotsOK'
  <2>1. ASSUME NEW t \in RgServices PROVE SlotsOf(t)'
    <3>1. CASE t = s BY <1>3, <1>4, <3>1 DEF AgentIds, SlotsOf
    <3>2. CASE t # s BY <1>1, <1>2, <1>4, <3>2, <1>3, SlotsKept DEF RgInv, SlotsOK
    <3>. QED  BY <3>1, <3>2
  <2>. QED  BY <2>1 DEF SlotsOK
<1>7. CreditsOK'
  <2>1. ASSUME NEW t \in DOMAIN rgService, rgStage'[t] = "deployed"
        PROVE  rgStage[t] = "deployed" /\ rgService'[t].multisig = rgService[t].multisig
    BY <1>4, <2>1, <1>3 DEF RgInv, RgTyped
  <2>. QED  BY <1>1, <1>3, <2>1, RgCreditsKept DEF RgInv
<1>8. IdentitiesOK' BY <1>1, <1>3, RgIdentitiesKept DEF RgInv
<1>9. DaysCounted' BY <1>1, RgTablesKept DEF RgInv, rgTables
<1>10. ExecutionsCounted' BY <1>1, RgExecutionsKept DEF RgInv, rgTables
<1>. QED  BY <1>5, <1>6, <1>7, <1>8, <1>9, <1>10 DEF RgInv

-----------------------------------------------------------------------------
(* service-registry: executions.                                           *)

\* What is said of services, registrations and deployments, when those are left alone.
LEMMA RgRestKept ==
    ASSUME RgInv, UNCHANGED <<rgChain, rgService, rgRegistration, multisig>>
    PROVE  RgTyped' /\ SlotsOK' /\ CreditsOK'
<1>1. UNCHANGED <<rgNow, rgStage, slots, rgSafeOf, deployedBy>> BY DEF rgChain
<1>2. RgTyped' BY <1>1 DEF RgInv, RgTyped
<1>3. SlotsOK'
  <2>1. ASSUME NEW t \in RgServices PROVE SlotsOf(t)'
    BY <1>1, SlotsKept DEF RgInv, SlotsOK, RgTyped
  <2>. QED  BY <2>1 DEF SlotsOK
<1>4. CreditsOK' BY <1>1, RgCreditsKept DEF RgInv
<1>. QED  BY <1>2, <1>3, <1>4

\* A link that is made once is counted once.
LEMMA RgLinked ==
    ASSUME NEW row, NEW c, NEW x, NEW delta, NEW next, c \in DOMAIN row, "links" \in DOMAIN row,
           c # "links", Counted(row, c), DOMAIN delta = {c}, delta[c] = 1,
           next = Rg!Linked(row, delta, x)
    PROVE  /\ DOMAIN next = DOMAIN row /\ next.links = row.links \cup {x} /\ Counted(next, c)
           /\ \A f \in DOMAIN row \ {c, "links"} : next[f] = row[f]
<1>1. IsFiniteSet(row.links) /\ row[c] = Cardinality(row.links) BY DEF Counted
<1>2. CASE x \in row.links BY <1>2 DEF Rg!Linked
<1>3. CASE x \notin row.links
  <2>1. PICK more : more = Rg!Add(row, delta) OBVIOUS
  <2>2. next = [more EXCEPT !.links = more.links \cup {x}] BY <1>3, <2>1 DEF Rg!Linked
  <2>3. /\ DOMAIN more = DOMAIN row /\ more[c] = row[c] + 1
        /\ \A f \in DOMAIN row \ {c} : more[f] = row[f]
    BY <2>1 DEF Rg!Add
  <2>4. /\ DOMAIN next = DOMAIN row /\ next.links = row.links \cup {x} /\ next[c] = row[c] + 1
        /\ \A f \in DOMAIN row \ {c, "links"} : next[f] = row[f]
    BY <2>2, <2>3
  <2>5. /\ IsFiniteSet(row.links \cup {x})
        /\ Cardinality(row.links \cup {x}) = Cardinality(row.links) + 1
    BY ONLY <1>1, <1>3, FS_AddElement
  <2>6. Counted(next, c) BY <1>1, <2>4, <2>5 DEF Counted
  <2>. QED  BY <2>4, <2>6
<1>. QED  BY <1>2, <1>3

\* What an execution does to the rows of its day and its agent.
ExecutedFor(today, a, safe) ==
    /\ \A d : LinksOf(uniqueAgents, d)' = LinksOf(uniqueAgents, d) \cup (IF d = today THEN {a} ELSE {})
    /\ \A d : LinksOf(activeMultisigs, d)' =
                 LinksOf(activeMultisigs, d) \cup (IF d = today THEN {safe} ELSE {})
    /\ DOMAIN agentDay' = DOMAIN agentDay \cup {<<today, a>>}
    /\ \A k \in DOMAIN agentDay \ {<<today, a>>} : agentDay'[k] = agentDay[k]
    /\ agentDay'[<<today, a>>].links = LinksOf(agentDay, <<today, a>>) \cup {safe}
    /\ agentDay'[<<today, a>>].txCount = RowOf(agentDay, <<today, a>>, "txCount") + 1
    /\ \A d \in DOMAIN uniqueAgents' : Counted(uniqueAgents'[d], "count")
    /\ \A d \in DOMAIN activeMultisigs' : /\ DOMAIN activeMultisigs'[d] = {"count", "links"}
                                          /\ Counted(activeMultisigs'[d], "count")
    /\ \A k \in DOMAIN agentDay' : /\ DOMAIN agentDay'[k] = {"txCount", "activeMultisigCount", "links"}
                                   /\ Counted(agentDay'[k], "activeMultisigCount")
    /\ DOMAIN performance' = DOMAIN performance \cup {a}
    /\ performance'[a] = LoadOr(performance, a, 0) + 1
    /\ \A b \in DOMAIN performance \ {a} : performance'[b] = performance[b]

\* The agents of a sequence of one.
LEMMA RgOneAgent == ASSUME NEW a PROVE Rg!ToSet(<<a>>) = {a}
BY DEF Rg!ToSet

\* A row without links counts them.
LEMMA RgNoLinks == IsFiniteSet({}) /\ Cardinality({}) = 0
BY FS_EmptySet

LEMMA RgExecutedRows ==
    ASSUME RgInv, NEW a \in Agents, NEW safe, NEW today, today = Rg!Day(rgNow),
           Rg!updateDailyUniqueAgents(<<a>>), Rg!updateDailyAgentPerformance(<<a>>, safe),
           Rg!updateDailyActiveMultisigs(safe)
    PROVE  ExecutedFor(today, a, safe)
<1>1. DaysCounted /\ ExecutionsCounted BY DEF RgInv
<1>2. /\ \A d : LinksOf(uniqueAgents, d)' = LinksOf(uniqueAgents, d) \cup (IF d = today THEN {a} ELSE {})
      /\ \A d \in DOMAIN uniqueAgents' : Counted(uniqueAgents'[d], "count")
  <2>1. PICK row : row = Rg!LoadOr(uniqueAgents, today, Rg!NewDay) OBVIOUS
  <2>2. PICK new : new = {a} \ row.links OBVIOUS
  <2>3. PICK next : next = [count |-> row.count + Cardinality(new), links |-> row.links \cup new]
    OBVIOUS
  <2>4. uniqueAgents' = Rg!Put(uniqueAgents, today, next)
    BY <2>1, <2>2, <2>3, RgOneAgent DEF Rg!Cardinality, Cardinality, Rg!updateDailyUniqueAgents
  <2>5. row.links = LinksOf(uniqueAgents, today) BY <2>1 DEF Rg!LoadOr, Rg!NewDay, LinksOf
  <2>6. IsFiniteSet(row.links) /\ row.count = Cardinality(row.links)
    BY <1>1, <2>1, RgNoLinks DEF Rg!LoadOr, Rg!NewDay, DaysCounted, Counted
  <2>7. next.links = row.links \cup {a} BY <2>2, <2>3
  <2>8. Counted(next, "count")
    <3>1. CASE a \in row.links
      <4>1. new = {} /\ next.links = row.links BY <2>2, <2>7, <3>1
      <4>2. Cardinality(row.links) \in Nat BY <2>6, FS_CardinalityType
      <4>3. next.count = Cardinality(row.links) BY <2>3, <2>6, <4>1, <4>2, RgNoLinks
      <4>. QED  BY <2>6, <4>1, <4>3 DEF Counted
    <3>2. CASE a \notin row.links
      <4>1. new = {a} BY <2>2, <3>2
      <4>2. Cardinality(new) = 1 BY <4>1, FS_Singleton
      <4>3. /\ IsFiniteSet(row.links \cup {a})
            /\ Cardinality(row.links \cup {a}) = Cardinality(row.links) + 1
        BY ONLY <2>6, <3>2, FS_AddElement
      <4>4. next.count = row.count + 1 BY <2>3, <4>2
      <4>. QED  BY <2>6, <2>7, <4>3, <4>4 DEF Counted
    <3>. QED  BY <3>1, <3>2
  <2>9. /\ DOMAIN uniqueAgents' = DOMAIN uniqueAgents \cup {today} /\ uniqueAgents'[today] = next
        /\ \A d \in DOMAIN uniqueAgents \ {today} : uniqueAgents'[d] = uniqueAgents[d]
    BY <2>4 DEF Rg!Put
  <2>10. \A d \in DOMAIN uniqueAgents' : Counted(uniqueAgents'[d], "count")
    BY <1>1, <2>8, <2>9 DEF DaysCounted
  <2>11. ASSUME NEW d
         PROVE  LinksOf(uniqueAgents, d)' = LinksOf(uniqueAgents, d) \cup (IF d = today THEN {a} ELSE {})
    BY <2>5, <2>7, <2>9 DEF LinksOf
  <2>. QED  BY <2>10, <2>11
<1>3. /\ \A d : LinksOf(activeMultisigs, d)' =
                   LinksOf(activeMultisigs, d) \cup (IF d = today THEN {safe} ELSE {})
      /\ \A d \in DOMAIN activeMultisigs' : /\ DOMAIN activeMultisigs'[d] = {"count", "links"}
                                            /\ Counted(activeMultisigs'[d], "count")
  <2>1. PICK row : row = Rg!LoadOr(activeMultisigs, today, Rg!NewDay) OBVIOUS
  <2>2. PICK delta : delta = [count |-> 1] OBVIOUS
  <2>3. PICK next : next = Rg!Linked(row, delta, safe) OBVIOUS
  <2>4. activeMultisigs' = Rg!Put(activeMultisigs, today, next)
    BY <2>1, <2>2, <2>3 DEF Rg!updateDailyActiveMultisigs
  <2>5. row.links = LinksOf(activeMultisigs, today) BY <2>1 DEF Rg!LoadOr, Rg!NewDay, LinksOf
  <2>6. DOMAIN row = {"count", "links"} /\ Counted(row, "count")
    BY <1>1, <2>1, RgNoLinks DEF Rg!LoadOr, Rg!NewDay, DaysCounted, Counted
  <2>7. DOMAIN delta = {"count"} /\ delta["count"] = 1 BY <2>2
  <2>8. DOMAIN next = {"count", "links"} /\ next.links = row.links \cup {safe} /\ Counted(next, "count")
    BY <2>3, <2>6, <2>7, RgLinked
  <2>9. /\ DOMAIN activeMultisigs' = DOMAIN activeMultisigs \cup {today} /\ activeMultisigs'[today] = next
        /\ \A d \in DOMAIN activeMultisigs \ {today} : activeMultisigs'[d] = activeMultisigs[d]
    BY <2>4 DEF Rg!Put
  <2>10. \A d \in DOMAIN activeMultisigs' : /\ DOMAIN activeMultisigs'[d] = {"count", "links"}
                                            /\ Counted(activeMultisigs'[d], "count")
    BY <1>1, <2>8, <2>9 DEF DaysCounted
  <2>11. ASSUME NEW d
         PROVE  LinksOf(activeMultisigs, d)' =
                   LinksOf(activeMultisigs, d) \cup (IF d = today THEN {safe} ELSE {})
    BY <2>5, <2>8, <2>9 DEF LinksOf
  <2>. QED  BY <2>10, <2>11
<1>4. PICK key : key = <<today, a>> OBVIOUS
<1>5. PICK old : old = Rg!LoadOr(agentDay, key, Rg!NewAgentDay) OBVIOUS
<1>6. PICK row : row = Rg!Add(old, [txCount |-> 1]) OBVIOUS
<1>7. PICK delta : delta = [activeMultisigCount |-> 1] OBVIOUS
<1>8. PICK next : next = Rg!Linked(row, delta, safe) OBVIOUS
<1>9. /\ DOMAIN agentDay' = DOMAIN agentDay \cup {key} /\ agentDay'[key] = next
      /\ \A k \in DOMAIN agentDay \ {key} : agentDay'[k] = agentDay[k]
      /\ performance' = [b \in DOMAIN performance \cup {a} |->
                            Rg!LoadOr(performance, b, 0) + IF b \in {a} THEN 1 ELSE 0]
  BY <1>4, RgOneAgent, <1>5, <1>6, <1>7, <1>8 DEF Rg!updateDailyAgentPerformance
<1>10. /\ DOMAIN old = {"txCount", "activeMultisigCount", "links"}
       /\ Counted(old, "activeMultisigCount") /\ old.links = LinksOf(agentDay, key)
       /\ old.txCount = RowOf(agentDay, key, "txCount") /\ old.txCount \in Int
  BY <1>1, <1>5, RgNoLinks DEF Rg!LoadOr, DaysCounted, ExecutionsCounted, LinksOf, RowOf,
      Rg!NewAgentDay, Counted
<1>11. /\ DOMAIN row = {"txCount", "activeMultisigCount", "links"}
       /\ row.activeMultisigCount = old.activeMultisigCount /\ row.links = old.links
       /\ row.txCount = old.txCount + 1
  BY <1>6, <1>10 DEF Rg!Add
<1>12. Counted(row, "activeMultisigCount") BY <1>10, <1>11 DEF Counted
<1>13. DOMAIN delta = {"activeMultisigCount"} /\ delta["activeMultisigCount"] = 1 BY <1>7
<1>14. /\ DOMAIN next = {"txCount", "activeMultisigCount", "links"}
       /\ next.links = row.links \cup {safe} /\ Counted(next, "activeMultisigCount")
       /\ next.txCount = row.txCount
  BY <1>8, <1>11, <1>12, <1>13, RgLinked
<1>15. \A k \in DOMAIN agentDay' : /\ DOMAIN agentDay'[k] = {"txCount", "activeMultisigCount", "links"}
                                   /\ Counted(agentDay'[k], "activeMultisigCount")
  BY <1>1, <1>9, <1>14 DEF DaysCounted
<1>16. /\ DOMAIN performance' = DOMAIN performance \cup {a}
       /\ performance'[a] = LoadOr(performance, a, 0) + 1
       /\ \A b \in DOMAIN performance \ {a} : performance'[b] = performance[b]
  BY <1>1, <1>9 DEF ExecutionsCounted, Rg!LoadOr, LoadOr
<1>17. agentDay'[<<today, a>>].links = LinksOf(agentDay, <<today, a>>) \cup {safe}
  BY <1>4, <1>9, <1>10, <1>11, <1>14
<1>18. agentDay'[<<today, a>>].txCount = RowOf(agentDay, <<today, a>>, "txCount") + 1
  BY <1>4, <1>9, <1>10, <1>11, <1>14
<1>. QED  BY <1>2, <1>3, <1>4, <1>9, <1>15, <1>16, <1>17, <1>18 DEF ExecutedFor

\* The agents of a day and their Safes, after an execution.
LEMMA RgDaysCounted ==
    ASSUME DaysCounted, NEW today \in Nat, NEW a \in Agents, NEW safe, ExecutedFor(today, a, safe)
    PROVE  DaysCounted'
<1>1. PICK key : key = <<today, a>> OBVIOUS
<1>2. /\ DOMAIN agentDay' = DOMAIN agentDay \cup {key}
      /\ \A k \in DOMAIN agentDay \ {key} : agentDay'[k] = agentDay[k]
      /\ agentDay'[key].links = LinksOf(agentDay, key) \cup {safe}
  BY <1>1 DEF ExecutedFor
<1>3. key[1] = today /\ key[2] = a /\ key \in Nat \X Agents BY <1>1
<1>4. ASSUME NEW d PROVE LinksOf(uniqueAgents, d)' = ActiveAgents(d)'
  <2>1. LinksOf(uniqueAgents, d) = ActiveAgents(d) BY DEF DaysCounted
  <2>2. ActiveAgents(d)' = ActiveAgents(d) \cup (IF d = today THEN {a} ELSE {})
    <3>1. CASE d = today BY <1>2, <1>3, <3>1 DEF ActiveAgents
    <3>2. CASE d # today BY <1>2, <1>3, <3>2 DEF ActiveAgents
    <3>. QED  BY <3>1, <3>2
  <2>. QED  BY <2>1, <2>2 DEF ExecutedFor
<1>5. ASSUME NEW d PROVE LinksOf(activeMultisigs, d)' = ActiveSafes(d)'
  <2>1. LinksOf(activeMultisigs, d) = ActiveSafes(d) BY DEF DaysCounted
  <2>2. ActiveSafes(d)' = ActiveSafes(d) \cup (IF d = today THEN {safe} ELSE {})
    <3>1. ASSUME NEW k \in DOMAIN agentDay, NEW x \in agentDay[k].links
          PROVE  k \in DOMAIN agentDay' /\ x \in agentDay'[k].links
      BY <1>2, <3>1 DEF LinksOf
    <3>2. ASSUME NEW k \in DOMAIN agentDay', NEW x \in agentDay'[k].links
          PROVE  (k \in DOMAIN agentDay /\ x \in agentDay[k].links) \/ (k = key /\ x = safe)
      BY <1>2, <3>2 DEF LinksOf
    <3>3. key \in DOMAIN agentDay' /\ safe \in agentDay'[key].links BY <1>2
    <3>4. \A x : x \in ActiveSafes(d) <=>
                    \E k \in DOMAIN agentDay : k[1] = d /\ x \in agentDay[k].links
      BY DEF ActiveSafes
    <3>5. \A x : x \in ActiveSafes(d)' <=>
                    \E k \in DOMAIN agentDay' : k[1] = d /\ x \in agentDay'[k].links
      BY DEF ActiveSafes
    <3>6. CASE d = today BY <1>3, <3>1, <3>2, <3>3, <3>4, <3>5, <3>6
    <3>7. CASE d # today BY <1>3, <3>1, <3>2, <3>4, <3>5, <3>7
    <3>. QED  BY <3>6, <3>7
  <2>. QED  BY <2>1, <2>2 DEF ExecutedFor
<1>6. DOMAIN agentDay' \subseteq Nat \X Agents BY <1>2, <1>3 DEF DaysCounted
<1>. QED  BY <1>4, <1>5, <1>6 DEF DaysCounted, ExecutedFor

\* The sums over the days of the agents, after an execution.
LEMMA RgExecutionsCounted ==
    ASSUME DaysCounted, ExecutionsCounted, NEW today \in Nat, NEW a \in Agents, NEW safe,
           ExecutedFor(today, a, safe), Rg!updateGlobalMetrics, UNCHANGED rgOperator
    PROVE  ExecutionsCounted'
<1>1. PICK key : key = <<today, a>> OBVIOUS
<1>2. PICK f, g : f = agentDay /\ g = agentDay' OBVIOUS
<1>3. /\ IsFiniteSet(DOMAIN f) /\ \A k \in DOMAIN f : f[k]["txCount"] \in Int
      /\ DOMAIN g = DOMAIN f \cup {key} /\ \A k \in DOMAIN f \ {key} : g[k] = f[k]
      /\ g[key]["txCount"] = RowOf(f, key, "txCount") + 1
  BY <1>1, <1>2 DEF ExecutionsCounted, ExecutedFor
<1>4. /\ IsFiniteSet(DOMAIN agentDay') /\ \A k \in DOMAIN agentDay' : agentDay'[k].txCount \in Int
  BY <1>3, FS_AddElement, <1>2 DEF RowOf
<1>5. ASSUME NEW b \in Agents
      PROVE  /\ KeptSum(f, DaysOfAgent(b), "txCount") \in Int
             /\ KeptSum(g, DaysOfAgent(b), "txCount") =
                   KeptSum(f, DaysOfAgent(b), "txCount") + (IF b = a THEN 1 ELSE 0)
  <2>1. PICK K : K = DaysOfAgent(b) OBVIOUS
  <2>2. /\ KeptSum(f, K, "txCount") \in Int
        /\ KeptSum(g, K, "txCount") = KeptSum(f, K, "txCount") + (IF key \in K THEN 1 ELSE 0)
    <3>1. CounterTyped(f, "txCount") /\ RowRaised(g, f, key, "txCount", 1)
      BY <1>3 DEF CounterTyped, RowRaised
    <3>. QED  BY <3>1, KeptPut
  <2>3. key \in K <=> b = a BY <1>1, <2>1 DEF DaysOfAgent
  <2>. QED  BY <2>1, <2>2, <2>3
<1>6. /\ IsFiniteSet(DOMAIN performance) /\ DOMAIN performance \subseteq Agents
      /\ \A b \in DOMAIN performance : performance[b] \in Int
      /\ DOMAIN performance' = DOMAIN performance \cup {a}
      /\ performance'[a] = LoadOr(performance, a, 0) + 1
      /\ \A b \in DOMAIN performance \ {a} : performance'[b] = performance[b]
  BY DEF ExecutionsCounted, ExecutedFor
<1>7. LoadOr(performance, a, 0) \in Int BY <1>6 DEF LoadOr
<1>8. /\ IsFiniteSet(DOMAIN performance') /\ DOMAIN performance' \subseteq Agents
      /\ \A b \in DOMAIN performance' : performance'[b] \in Int
  BY <1>6, FS_AddElement, <1>7
<1>9. ASSUME NEW b \in Agents
      PROVE  LoadOr(performance, b, 0)' = KeptSum(agentDay, DaysOfAgent(b), "txCount")'
  <2>1. LoadOr(performance, b, 0) = KeptSum(f, DaysOfAgent(b), "txCount")
    BY <1>2 DEF ExecutionsCounted
  <2>2. LoadOr(performance, b, 0)' = LoadOr(performance, b, 0) + (IF b = a THEN 1 ELSE 0)
    BY <1>6 DEF LoadOr
  <2>3. KeptSum(agentDay, DaysOfAgent(b), "txCount")' = KeptSum(g, DaysOfAgent(b), "txCount")
    BY <1>2 DEF KeptSum, DaysOfAgent
  <2>. QED  BY <1>5, <2>1, <2>2, <2>3
<1>10. SumFunction([b \in DOMAIN performance' |-> performance'[b]])
          = SumFunction([b \in DOMAIN performance |-> performance[b]]) + 1
  BY <1>6, <1>7, SumPut DEF LoadOr
<1>11. /\ DOMAIN rgGlobal' = {"txCount", "lastUpdated", "totalOperators"}
       /\ rgGlobal'.txCount = rgGlobal.txCount + 1
       /\ rgGlobal'.totalOperators = rgGlobal.totalOperators
  BY DEF ExecutionsCounted, Rg!updateGlobalMetrics, Rg!Add
<1>. QED  BY <1>4, <1>8, <1>9, <1>10, <1>11 DEF ExecutionsCounted

\* A day is a number of days.
LEMMA RgDayType == ASSUME Rg!RegistryAssumption, NEW t \in Nat PROVE Rg!Day(t) \in Nat
BY DEF Rg!RegistryAssumption, Rg!Day

\* An execution.
LEMMA RgExecuted ==
    ASSUME Rg!RegistryAssumption, RgInv, NEW safe \in RgSafes, Rg!Executed(safe) PROVE RgInv'
<1>1. safe \in DOMAIN multisig BY DEF Rg!Executed
<1>2. PICK a \in Agents : multisig[safe].agentIds = <<a>> BY <1>1 DEF RgInv, CreditsOK, CreditOf
<1>3. PICK today : today = Rg!Day(rgNow) OBVIOUS
<1>4. today \in Nat BY <1>3, RgDayType DEF RgInv, RgTyped
<1>5. /\ Rg!updateDailyUniqueAgents(<<a>>) /\ Rg!updateDailyAgentPerformance(<<a>>, safe)
      /\ Rg!updateDailyActiveMultisigs(safe) /\ Rg!updateGlobalMetrics
      /\ UNCHANGED <<rgChain, rgService, rgRegistration, multisig, rgOperator, identity, metadata>>
  BY <1>2 DEF Rg!Executed, Rg!chain, rgChain, Rg!erc8004
<1>6. ExecutedFor(today, a, safe) BY <1>3, <1>5, RgExecutedRows
<1>7. DaysCounted' BY <1>4, <1>6, RgDaysCounted DEF RgInv
<1>8. ExecutionsCounted' BY <1>4, <1>5, <1>6, RgExecutionsCounted DEF RgInv
<1>9. RgTyped' /\ SlotsOK' /\ CreditsOK' BY <1>5, RgRestKept
<1>10. IdentitiesOK' BY <1>5, RgIdentitiesKept DEF RgInv
<1>. QED  BY <1>7, <1>8, <1>9, <1>10 DEF RgInv

-----------------------------------------------------------------------------
(* service-registry: identities.                                           *)

LEMMA RgLink ==
    ASSUME RgInv, NEW s \in RgServices, NEW i \in Identities, Rg!handleServiceAgentLinked(s, i)
    PROVE  RgInv'
<1>1. /\ s \in DOMAIN rgService
      /\ rgService' = [rgService EXCEPT ![s].erc8004Agent = i]
      /\ identity' = Rg!Put(identity, i, Rg!LoadOr(identity, i, RgNone))
      /\ UNCHANGED <<rgNow, rgStage, slots, rgSafeOf, deployedBy, rgRegistration, multisig,
                     rgOperator, rgTables, rgGlobal>>
  BY DEF Rg!handleServiceAgentLinked, Rg!chain, Rg!daily, rgTables
<1>2. PICK first : first = Rg!Put(metadata, <<i, "serviceRegistry">>, s) OBVIOUS
<1>3. metadata' = Rg!Put(first, <<i, "ecosystem">>, "Olas")
  BY <1>2 DEF Rg!handleServiceAgentLinked, Rg!initializeERC8004DefaultMetadata
<1>4. /\ DOMAIN identity' = DOMAIN identity \cup {i}
      /\ DOMAIN metadata' = DOMAIN metadata \cup {<<i, "serviceRegistry">>, <<i, "ecosystem">>}
  BY <1>1, <1>2, <1>3 DEF Rg!Put
<1>5. \A t \in DOMAIN rgService : rgService[t] \in RgServiceRow BY DEF RgInv, RgTyped
<1>6. /\ DOMAIN rgService' = DOMAIN rgService /\ rgService'[s].erc8004Agent = i
      /\ \A t \in DOMAIN rgService : /\ rgService'[t] \in RgServiceRow
                                     /\ rgService'[t].agentIds = rgService[t].agentIds
                                     /\ rgService'[t].multisig = rgService[t].multisig
                                     /\ t # s => rgService'[t] = rgService[t]
  BY <1>1, <1>5 DEF RgServiceRow
<1>7. RgTyped' BY <1>1, <1>6 DEF RgInv, RgTyped
<1>8. SlotsOK'
  <2>1. ASSUME NEW t \in RgServices PROVE SlotsOf(t)'
    BY <1>1, <1>6, SlotsKept DEF RgInv, SlotsOK, RgTyped
  <2>. QED  BY <2>1 DEF SlotsOK
<1>9. CreditsOK' BY <1>1, <1>6, RgCreditsKept DEF RgInv
<1>10. IdentitiesOK'
  <2>1. ASSUME NEW t \in DOMAIN rgService' PROVE IdentityOf(t)'
    <3>1. CASE t = s BY <1>4, <1>6, <3>1 DEF IdentityOf
    <3>2. CASE t # s BY <1>6, <3>2, <1>4 DEF RgInv, IdentitiesOK, IdentityOf
    <3>. QED  BY <3>1, <3>2
  <2>. QED  BY <2>1 DEF IdentitiesOK
<1>11. DaysCounted' BY <1>1, RgTablesKept DEF RgInv, rgTables
<1>12. ExecutionsCounted' BY <1>1, RgExecutionsKept DEF RgInv, rgTables
<1>. QED  BY <1>7, <1>8, <1>9, <1>10, <1>11, <1>12 DEF RgInv

\* A step that changes nothing but adds rows of identities, or of their metadata.
LEMMA RgIdentityRows ==
    ASSUME RgInv, DOMAIN identity \subseteq DOMAIN identity', DOMAIN metadata \subseteq DOMAIN metadata',
           UNCHANGED <<rgChain, rgService, rgRegistration, multisig, rgOperator, rgTables, rgGlobal>>
    PROVE  RgInv'
BY RgRestKept, RgIdentitiesKept, RgTablesKept, RgExecutionsKept DEF RgInv, rgTables

LEMMA RgWalletSet ==
    ASSUME RgInv, NEW i, NEW safe, Rg!handleAgentWalletSet(i, safe) PROVE RgInv'
BY RgIdentityRows DEF Rg!handleAgentWalletSet, Rg!chain, rgChain, Rg!daily, rgTables, Rg!Put

LEMMA RgMetadataSet ==
    ASSUME RgInv, NEW i, NEW key, NEW value, Rg!handleMetadataSet(i, key, value) PROVE RgInv'
BY RgIdentityRows DEF Rg!handleMetadataSet, Rg!chain, rgChain, Rg!daily, rgTables, Rg!Put

-----------------------------------------------------------------------------
(* service-registry: the theorem.                                          *)

LEMMA RgNext == ASSUME Rg!RegistryAssumption, RgInv, Rg!Next PROVE RgInv'
<1>1. CASE Rg!Tick BY <1>1, RgTick
<1>2. ASSUME NEW s \in RgServices, Rg!handleCreateService(s) PROVE RgInv' BY <1>2, RgCreate
<1>3. ASSUME NEW s \in RgServices, NEW a \in Agents, NEW o \in RgOperators,
             Rg!handleRegisterInstance(s, a, o)
      PROVE  RgInv'
  BY <1>3, RgRegister
<1>4. ASSUME NEW s \in RgServices, NEW x \in RgSafes, Rg!handleCreateMultisig(s, x) PROVE RgInv'
  BY <1>4, RgDeploy
<1>5. ASSUME NEW s \in RgServices, Rg!handleTerminateService(s) PROVE RgInv' BY <1>5, RgTerminate
<1>6. ASSUME NEW s \in RgServices, NEW i \in Identities, Rg!handleServiceAgentLinked(s, i)
      PROVE  RgInv'
  BY <1>6, RgLink
<1>7. ASSUME NEW x \in RgSafes, Rg!handleExecutionSuccess(x) \/ Rg!handleExecutionFromModuleSuccess(x)
      PROVE  RgInv'
  BY <1>7, RgExecuted DEF Rg!handleExecutionSuccess, Rg!handleExecutionFromModuleSuccess
<1>8. ASSUME NEW i \in Identities, NEW x \in RgSafes, Rg!handleAgentWalletSet(i, x) PROVE RgInv'
  BY <1>8, RgWalletSet
<1>9. ASSUME NEW i \in Identities, NEW k \in Keys, NEW v \in Values, Rg!handleMetadataSet(i, k, v)
      PROVE  RgInv'
  BY <1>9, RgMetadataSet
<1>. QED  BY <1>1, <1>2, <1>3, <1>4, <1>5, <1>6, <1>7, <1>8, <1>9 DEF Rg!Next

\* A step that changes nothing.
LEMMA RgStutter == ASSUME RgInv, UNCHANGED Rg!vars PROVE RgInv'
BY RgIdentityRows DEF Rg!vars, Rg!chain, rgChain, Rg!daily, rgTables, Rg!erc8004

\* For any services, agents, Safes and identities, however services are registered, deployed,
\* terminated and deployed again: the counters of every day and agent are what the rows under
\* them say and their executions add up to the system's; a Safe of an indexed service counts
\* for that service and for one agent of those registered last for its deployment; and an
\* identity a service links has its row and its default metadata (handlers of
\* service-registry and its helpers).
THEOREM ExecutionsAlwaysCredited ==
    Rg!RegistryAssumption =>
       (Rg!Spec => [](Rg!ActivityAddsUp /\ Rg!CreditGoesToLatest /\ Rg!IdentitiesResolve))
<1>. SUFFICES ASSUME Rg!RegistryAssumption
              PROVE  Rg!Spec => [](Rg!ActivityAddsUp /\ Rg!CreditGoesToLatest /\ Rg!IdentitiesResolve)
  OBVIOUS
<1>1. Rg!Init => RgInv BY RgInit
<1>2. RgInv /\ [Rg!Next]_(Rg!vars) => RgInv' BY RgNext, RgStutter
<1>3. RgInv => Rg!ActivityAddsUp /\ Rg!CreditGoesToLatest /\ Rg!IdentitiesResolve BY RgImplies
<1>. QED  BY <1>1, <1>2, <1>3, PTL DEF Rg!Spec

-----------------------------------------------------------------------------
(* legacy-mech-fees: the fees of the two kinds of mechs.                   *)

CONSTANTS Lms, Lmms, Strangers, LgPrices, LgAmounts, LgDayLength, LgMaxNow, LgMaxEvents
VARIABLES lgNow, lgEvents, lgPrice, stray, lgMech, lgGlobal, lgDaily, lgMechDaily

Lg == INSTANCE LegacyMechFees WITH
    Prices <- LgPrices, Amounts <- LgAmounts, DayLength <- LgDayLength, MaxNow <- LgMaxNow,
    MaxEvents <- LgMaxEvents, now <- lgNow, events <- lgEvents, price <- lgPrice,
    mech <- lgMech, global <- lgGlobal, dailyFees <- lgDaily, mechDaily <- lgMechDaily

\* The sums of LegacyMechFees are the library's.
LEMMA LgSum == ASSUME NEW f PROVE Lg!SumFunction(f) = SumFunction(f)
<1>1. ASSUME NEW g, NEW S PROVE Lg!SumFunctionOnSet(g, S) = (CHOOSE h : AddsUp(g, S, h))[S]
  BY DEF Lg!SumFunctionOnSet, Lg!FoldFunctionOnSet, Lg!MapThenFoldSet, AddsUp, FirstOf
<1>. QED  BY <1>1, SumIsFold DEF Lg!SumFunction, SumFunction

\* And so are its totals.
LEMMA LgTotal == ASSUME NEW f, NEW c PROVE Lg!Total(f, c) = Total(f, c)
BY LgSum DEF Lg!Total, Lg!SumOver, Total, SumOver

Kinds == {"lm", "lmm"}
Directions == {"in", "out"}
LgCounters == {"lmIn", "lmOut", "lmmIn", "lmmOut"}
LgFields == {"in", "out", "price"}

\* The mechs of a kind, indexed or not.
OfLgKind(kind) == IF kind = "lm" THEN Lms ELSE Lmms

\* What the rows say a mech was paid or paid out, nothing without a row.
Shown(m, dir) == IF m \in DOMAIN lgMech THEN lgMech[m][dir] ELSE 0

\* The days of a mech.
DaysOf(m) == {m} \X Nat

\* Types.
LgTyped ==
    /\ lgNow \in Nat /\ stray \in Nat
    /\ lgPrice \in [Lg!Mechs \cup Strangers -> Nat]
    /\ CountersTyped(lgMech, LgFields) /\ DOMAIN lgMech \subseteq Lg!Mechs
    /\ \A m \in DOMAIN lgMech : lgMech[m].price \in Nat
    /\ CountersTyped(lgDaily, LgCounters)
    /\ CountersTyped(lgMechDaily, LgCounters)
    /\ DOMAIN lgMechDaily \subseteq Lg!Mechs \X Nat
    /\ DOMAIN lgGlobal = LgCounters \cup Directions
    /\ \A c \in LgCounters \cup Directions : lgGlobal[c] \in Int

\* The totals of a kind and a direction.
LgTotals(kind, dir) ==
    LET c == Lg!CounterOf(kind, dir)
    IN  /\ lgGlobal[c] = KeptSum(lgMech, OfLgKind(kind), dir) + (IF c = "lmmIn" THEN stray ELSE 0)
        /\ lgGlobal[c] = Total(lgDaily, c)

\* The days of a mech add up to its row.
LgDays(m, dir) == Shown(m, dir) = KeptSum(lgMechDaily, DaysOf(m), Lg!CounterOf(Lg!Kind(m), dir))

LgInv ==
    /\ LgTyped
    /\ \A kind \in Kinds, dir \in Directions : LgTotals(kind, dir)
    /\ \A dir \in Directions :
          lgGlobal[dir] = lgGlobal[Lg!CounterOf("lm", dir)] + lgGlobal[Lg!CounterOf("lmm", dir)]
    /\ \A m \in Lg!Mechs, dir \in Directions : LgDays(m, dir)

\* Every kind and direction has a counter of its own.
LEMMA CounterOfEach ==
    /\ \A kind \in Kinds, dir \in Directions :
          /\ Lg!CounterOf(kind, dir) \in LgCounters /\ Lg!CounterOf(kind, dir) # dir
          /\ \A kind2 \in Kinds, dir2 \in Directions :
                /\ Lg!CounterOf(kind2, dir2) = Lg!CounterOf(kind, dir) <=> kind2 = kind /\ dir2 = dir
                /\ Lg!CounterOf(kind2, dir2) # dir
    /\ Lg!CounterOf("lmm", "in") = "lmmIn"
    /\ \A m \in Lg!Mechs : Lg!Kind(m) \in Kinds
    /\ Lg!KindCounters = LgCounters
BY DEF Lg!CounterOf, Lg!Kind, Kinds, Directions, LgCounters, Lg!KindCounters

\* A mech is of its kind and of no other.
LEMMA KindOfMech ==
    ASSUME Lg!LegacyAssumption, NEW m \in Lg!Mechs, NEW kind \in Kinds
    PROVE  m \in OfLgKind(kind) <=> Lg!Kind(m) = kind
BY DEF Lg!LegacyAssumption, Lg!Mechs, Lg!Kind, OfLgKind, Kinds

\* The module's rows of counters are those of Counters.
LEMMA LgAddTo ==
    ASSUME NEW f, NEW k, NEW fields, NEW delta
    PROVE  Lg!AddTo(f, k, fields, delta) = AddTo(f, k, fields, delta)
BY DEF Lg!AddTo, Lg!Put, Lg!Add, Lg!LoadOr, Lg!Zeros, AddTo, Put, Add, LoadOr, Zeros

-----------------------------------------------------------------------------
(* The tables of a payment. *)

\* The sums of the tables above a mech are raised by this payment.
TotalsPaid(kind, dir, amount) ==
    /\ DOMAIN lgGlobal' = LgCounters \cup Directions
    /\ \A c \in LgCounters \cup Directions : lgGlobal'[c] \in Int
    /\ CountersTyped(lgDaily', LgCounters)
    /\ \A kind2 \in Kinds, dir2 \in Directions :
          LET c == Lg!CounterOf(kind2, dir2)
              more == IF kind2 = kind /\ dir2 = dir THEN amount ELSE 0
          IN  /\ lgGlobal'[c] = lgGlobal[c] + more
              /\ Total(lgDaily', c) = Total(lgDaily, c) + more
    /\ \A dir2 \in Directions :
          lgGlobal'[dir2] = lgGlobal[dir2] + (IF dir2 = dir THEN amount ELSE 0)

\* What updateGlobalFees and updateDailyFees do to these sums.
LEMMA TotalsArePaid ==
    ASSUME LgInv, NEW kind \in Kinds, NEW dir \in Directions, NEW amount \in Nat,
           lgGlobal' = Lg!updateGlobalFees(kind, dir, amount),
           lgDaily' = Lg!updateDailyFees(kind, dir, amount)
    PROVE  TotalsPaid(kind, dir, amount)
<1>1. PICK c0 : c0 = Lg!CounterOf(kind, dir) OBVIOUS
<1>2. c0 \in LgCounters /\ c0 # dir BY <1>1, CounterOfEach
<1>3. /\ DOMAIN lgGlobal = LgCounters \cup Directions
      /\ \A c \in LgCounters \cup Directions : lgGlobal[c] \in Int
      /\ CountersTyped(lgDaily, LgCounters)
  BY DEF LgInv, LgTyped
<1>4. /\ DOMAIN lgGlobal' = LgCounters \cup Directions
      /\ \A c \in LgCounters \cup Directions :
            lgGlobal'[c] = lgGlobal[c] + (IF c \in {c0, dir} THEN amount ELSE 0)
  <2>1. CASE amount <= 0 BY <2>1, <1>3 DEF Lg!updateGlobalFees
  <2>2. CASE ~(amount <= 0) BY <1>1, <2>2, <1>3 DEF Lg!updateGlobalFees, Lg!Add
  <2>. QED  BY <2>1, <2>2
<1>5. PICK delta : delta = [x \in {c0} |-> amount] OBVIOUS
<1>6. DOMAIN delta = {c0} /\ delta[c0] = amount /\ AllIntegers(delta) BY <1>5 DEF AllIntegers
<1>7. PICK today : today = Lg!Day OBVIOUS
<1>8. PICK days : days = lgDaily' OBVIOUS
<1>9. days = AddTo(lgDaily, today, LgCounters, delta)
  BY <1>1, <1>5, <1>7, <1>8, LgAddTo, CounterOfEach DEF Lg!updateDailyFees
<1>10. CountersTyped(days, LgCounters) /\ TotalsRaised(days, lgDaily, LgCounters, delta)
  BY ONLY <1>3, <1>6, <1>9, TotalAddTo
<1>11. \A c \in LgCounters : Total(days, c) = Total(lgDaily, c) + (IF c = c0 THEN amount ELSE 0)
  BY <1>6, <1>10 DEF TotalsRaised
<1>12. ASSUME NEW kind2 \in Kinds, NEW dir2 \in Directions, NEW c, c = Lg!CounterOf(kind2, dir2)
       PROVE  /\ c \in LgCounters /\ c # dir
              /\ c = c0 <=> kind2 = kind /\ dir2 = dir
  BY <1>1, <1>12, CounterOfEach
<1>13. ASSUME NEW kind2 \in Kinds, NEW dir2 \in Directions
       PROVE  LET c == Lg!CounterOf(kind2, dir2)
                  more == IF kind2 = kind /\ dir2 = dir THEN amount ELSE 0
              IN  /\ lgGlobal'[c] = lgGlobal[c] + more
                  /\ Total(lgDaily', c) = Total(lgDaily, c) + more
  BY <1>12, <1>4, <1>8, <1>11
<1>14. ASSUME NEW dir2 \in Directions
       PROVE  lgGlobal'[dir2] = lgGlobal[dir2] + (IF dir2 = dir THEN amount ELSE 0)
  BY <1>2, <1>4 DEF LgCounters, Directions
<1>15. \A c \in LgCounters \cup Directions : lgGlobal'[c] \in Int BY <1>3, <1>4
<1>. QED  BY <1>4, <1>8, <1>10, <1>13, <1>14, <1>15 DEF TotalsPaid

\* The rows of the mechs have what was added to m's.
MechsAdded(m, delta) ==
    /\ CountersTyped(lgMech', LgFields) /\ DOMAIN lgMech' \subseteq Lg!Mechs
    /\ \A m2 \in DOMAIN lgMech' : lgMech'[m2].price \in Nat
    /\ \A kind \in Kinds, dir \in Directions :
          KeptSum(lgMech', OfLgKind(kind), dir) = KeptSum(lgMech, OfLgKind(kind), dir)
             + (IF Lg!Kind(m) = kind /\ dir \in DOMAIN delta THEN delta[dir] ELSE 0)
    /\ \A m2 \in Lg!Mechs, dir \in Directions :
          Shown(m2, dir)' = Shown(m2, dir)
             + (IF m2 = m /\ dir \in DOMAIN delta THEN delta[dir] ELSE 0)

\* Adding to the row of a mech, or to a new one at zero.
LEMMA MechsAreAdded ==
    ASSUME Lg!LegacyAssumption, LgInv, NEW m \in Lg!Mechs, NEW delta, AllIntegers(delta),
           lgMech' = AddTo(lgMech, m, LgFields, delta), lgMech'[m].price \in Nat
    PROVE  MechsAdded(m, delta)
<1>1. PICK f : f = lgMech OBVIOUS
<1>2. PICK g : g = lgMech' OBVIOUS
<1>3. CountersTyped(f, LgFields) /\ DOMAIN f \subseteq Lg!Mechs /\ \A x \in DOMAIN f : f[x].price \in Nat
  BY <1>1 DEF LgInv, LgTyped
<1>4. g = AddTo(f, m, LgFields, delta) BY <1>1, <1>2
<1>5. CountersTyped(g, LgFields) /\ DOMAIN g = DOMAIN f \cup {m}
  BY <1>3, <1>4, AllIntegers(delta), TotalAddTo DEF AddTo, Put
<1>6. /\ \A x \in DOMAIN f \ {m} : g[x] = f[x]
      /\ g[m] = Add(LoadOr(f, m, Zeros(LgFields)), delta)
  BY <1>4 DEF AddTo, Put
<1>7. PICK row : row = LoadOr(f, m, Zeros(LgFields)) OBVIOUS
<1>8. /\ DOMAIN row = LgFields
      /\ \A c \in LgFields : row[c] = (IF m \in DOMAIN f THEN f[m][c] ELSE 0) /\ row[c] \in Int
  BY <1>3, <1>7 DEF LoadOr, Zeros, CountersTyped
<1>9. \A c \in LgFields :
         g[m][c] = (IF m \in DOMAIN f THEN f[m][c] ELSE 0) + (IF c \in DOMAIN delta THEN delta[c] ELSE 0)
  BY <1>6, <1>7, <1>8 DEF Add, AllIntegers
<1>10. Directions \subseteq LgFields BY DEF Directions, LgFields
<1>11. \A x \in DOMAIN g : g[x].price \in Nat BY <1>2, <1>3, <1>5, <1>6
<1>12. ASSUME NEW kind \in Kinds, NEW dir \in Directions
       PROVE  KeptSum(g, OfLgKind(kind), dir) = KeptSum(f, OfLgKind(kind), dir)
                + (IF Lg!Kind(m) = kind /\ dir \in DOMAIN delta THEN delta[dir] ELSE 0)
  BY KindOfMech, <1>10, <1>3, <1>4, AllIntegers(delta), KeptAddTo
<1>13. ASSUME NEW m2 \in Lg!Mechs, NEW dir \in Directions
       PROVE  Shown(m2, dir)' = Shown(m2, dir)
                + (IF m2 = m /\ dir \in DOMAIN delta THEN delta[dir] ELSE 0)
  <2>1. /\ Shown(m2, dir) = (IF m2 \in DOMAIN f THEN f[m2][dir] ELSE 0)
        /\ Shown(m2, dir)' = (IF m2 \in DOMAIN g THEN g[m2][dir] ELSE 0)
    BY <1>1, <1>2 DEF Shown
  <2>2. dir \in LgFields BY <1>10
  <2>3. CASE m2 = m BY <1>5, <1>9, <2>1, <2>2, <2>3
  <2>4. CASE m2 # m BY <1>3, <2>2, <1>5, <1>6, <2>1, <2>4 DEF CountersTyped
  <2>. QED  BY <2>3, <2>4
<1>. QED  BY <1>1, <1>2, <1>3, <1>5, <1>11, <1>12, <1>13 DEF MechsAdded

\* The days of the mechs have what was paid.
DaysPaid(m, dir, amount) ==
    /\ CountersTyped(lgMechDaily', LgCounters)
    /\ DOMAIN lgMechDaily' \subseteq Lg!Mechs \X Nat
    /\ \A m2 \in Lg!Mechs, dir2 \in Directions :
          LET c == Lg!CounterOf(Lg!Kind(m2), dir2)
          IN  KeptSum(lgMechDaily', DaysOf(m2), c)
                 = KeptSum(lgMechDaily, DaysOf(m2), c) + (IF m2 = m /\ dir2 = dir THEN amount ELSE 0)

\* What updateMechDailyFees does to the days.
LEMMA DaysArePaid ==
    ASSUME Lg!LegacyAssumption, LgInv, NEW m \in Lg!Mechs, NEW dir \in Directions,
           NEW amount \in Nat, lgMechDaily' = Lg!updateMechDailyFees(m, dir, amount)
    PROVE  DaysPaid(m, dir, amount)
<1>1. PICK f : f = lgMechDaily OBVIOUS
<1>2. PICK g : g = lgMechDaily' OBVIOUS
<1>3. CountersTyped(f, LgCounters) /\ DOMAIN f \subseteq Lg!Mechs \X Nat
  BY <1>1 DEF LgInv, LgTyped
<1>4. PICK today : today = Lg!Day OBVIOUS
<1>5. today \in Nat BY <1>4 DEF LgInv, LgTyped, Lg!LegacyAssumption, Lg!Day
<1>6. PICK c0 : c0 = Lg!CounterOf(Lg!Kind(m), dir) OBVIOUS
<1>7. c0 \in LgCounters BY <1>6, CounterOfEach
<1>8. PICK delta : delta = [x \in {c0} |-> amount] OBVIOUS
<1>9. DOMAIN delta = {c0} /\ delta[c0] = amount /\ AllIntegers(delta) BY <1>8 DEF AllIntegers
<1>10. CASE amount <= 0
  <2>1. g = f /\ amount = 0 BY <1>1, <1>2, <1>10 DEF Lg!updateMechDailyFees
  <2>2. ASSUME NEW m2 \in Lg!Mechs, NEW dir2 \in Directions
        PROVE  KeptSum(f, DaysOf(m2), Lg!CounterOf(Lg!Kind(m2), dir2)) \in Int
    <3>1. PICK c : c = Lg!CounterOf(Lg!Kind(m2), dir2) OBVIOUS
    <3>2. c \in LgCounters BY <3>1, CounterOfEach
    <3>3. PICK h : h = AddTo(f, <<m, today>>, LgCounters, delta) OBVIOUS
    <3>4. PICK K : K = DaysOf(m2) OBVIOUS
    <3>5. KeptSum(f, K, c) \in Int BY ONLY <1>3, <1>9, <3>2, <3>3, KeptAddTo
    <3>. QED  BY <3>1, <3>4, <3>5
  <2>. QED  BY <1>1, <1>2, <1>3, <2>1, <2>2 DEF DaysPaid
<1>11. CASE ~(amount <= 0)
  <2>1. PICK k : k = <<m, today>> OBVIOUS
  <2>2. g = AddTo(f, k, LgCounters, delta)
    BY <1>1, <1>2, <1>4, <1>6, <1>8, <1>11, <2>1, LgAddTo, CounterOfEach DEF Lg!updateMechDailyFees
  <2>3. CountersTyped(g, LgCounters) /\ DOMAIN g = DOMAIN f \cup {k}
    <3>1. CountersTyped(f, LgCounters) /\ AllIntegers(delta) BY <1>3, <1>9
    <3>2. CountersTyped(g, LgCounters) BY ONLY <2>2, <3>1, TotalAddTo
    <3>. QED  BY <2>2, <3>2 DEF AddTo, Put
  <2>4. DOMAIN g \subseteq Lg!Mechs \X Nat BY <1>3, <1>5, <2>1, <2>3
  <2>5. ASSUME NEW m2 \in Lg!Mechs, NEW dir2 \in Directions, NEW c,
               c = Lg!CounterOf(Lg!Kind(m2), dir2)
        PROVE  KeptSum(g, DaysOf(m2), c)
                  = KeptSum(f, DaysOf(m2), c) + (IF m2 = m /\ dir2 = dir THEN amount ELSE 0)
    <3>1. c \in LgCounters BY <2>5, CounterOfEach
    <3>2. PICK K : K = DaysOf(m2) OBVIOUS
    <3>3. KeptSum(f, K, c) \in Int
          /\ KeptSum(g, K, c) = KeptSum(f, K, c) + (IF k \in K /\ c \in DOMAIN delta THEN delta[c] ELSE 0)
      BY ONLY <1>3, <1>9, <2>2, <3>1, KeptAddTo
    <3>4. k \in K <=> m2 = m BY <1>5, <2>1, <3>2 DEF DaysOf
    <3>5. m2 = m => (c = c0 <=> dir2 = dir) BY <1>6, <2>5, CounterOfEach
    <3>6. (k \in K /\ c \in DOMAIN delta) <=> (m2 = m /\ dir2 = dir) BY <1>9, <3>4, <3>5
    <3>7. c \in DOMAIN delta => delta[c] = amount BY <1>9
    <3>. QED  BY <3>2, <3>3, <3>6, <3>7
  <2>. QED  BY <1>1, <1>2, <2>3, <2>4, <2>5 DEF DaysPaid
<1>. QED  BY <1>10, <1>11

-----------------------------------------------------------------------------
(* The handlers. *)

\* Whatever was added to the tables adds up.
LEMMA LgAddsUp ==
    ASSUME Lg!LegacyAssumption, LgInv, LgTyped',
           NEW kind \in Kinds, NEW dir \in Directions, NEW amount \in Nat, NEW strays \in Nat,
           NEW paid \in Nat, amount = paid + strays, strays # 0 => kind = "lmm" /\ dir = "in",
           stray' = stray + strays, TotalsPaid(kind, dir, amount),
           \A kind2 \in Kinds, dir2 \in Directions :
              KeptSum(lgMech', OfLgKind(kind2), dir2) = KeptSum(lgMech, OfLgKind(kind2), dir2)
                 + (IF kind2 = kind /\ dir2 = dir THEN paid ELSE 0),
           \A m2 \in Lg!Mechs, dir2 \in Directions : LgDays(m2, dir2)'
    PROVE  LgInv'
<1>1. ASSUME NEW kind2 \in Kinds, NEW dir2 \in Directions PROVE LgTotals(kind2, dir2)'
  <2>1. PICK c : c = Lg!CounterOf(kind2, dir2) OBVIOUS
  <2>2. PICK more : more = IF kind2 = kind /\ dir2 = dir THEN amount ELSE 0 OBVIOUS
  <2>3. lgGlobal'[c] = lgGlobal[c] + more /\ Total(lgDaily', c) = Total(lgDaily, c) + more
    BY <2>1, <2>2 DEF TotalsPaid
  <2>4. PICK old : old = KeptSum(lgMech, OfLgKind(kind2), dir2) OBVIOUS
  <2>5. PICK new : new = KeptSum(lgMech', OfLgKind(kind2), dir2) OBVIOUS
  <2>6. new = old + (IF kind2 = kind /\ dir2 = dir THEN paid ELSE 0) BY <2>4, <2>5
  <2>7. /\ lgGlobal[c] = old + (IF c = "lmmIn" THEN stray ELSE 0)
        /\ lgGlobal[c] = Total(lgDaily, c)
    BY <2>1, <2>4 DEF LgInv, LgTotals
  <2>8. c = "lmmIn" <=> kind2 = "lmm" /\ dir2 = "in"
    BY <2>1, CounterOfEach DEF Kinds, Directions
  <2>9. old \in Int /\ stray \in Nat
    <3>1. CountersTyped(lgMech, LgFields) /\ stray \in Nat BY DEF LgInv, LgTyped
    <3>2. dir2 \in LgFields BY DEF Directions, LgFields
    <3>3. PICK f : f = lgMech OBVIOUS
    <3>4. PICK delta : delta = [x \in {} |-> 0] OBVIOUS
    <3>5. AllIntegers(delta) BY <3>4 DEF AllIntegers
    <3>6. PICK h : h = AddTo(f, 0, LgFields, delta) OBVIOUS
    <3>7. PICK K : K = OfLgKind(kind2) OBVIOUS
    <3>8. CountersTyped(f, LgFields) BY <3>1, <3>3
    <3>9. KeptSum(f, K, dir2) \in Int BY ONLY <3>2, <3>5, <3>6, <3>8, KeptAddTo
    <3>. QED  BY <2>4, <3>1, <3>3, <3>7, <3>9
  <2>10. lgGlobal'[c] = new + (IF c = "lmmIn" THEN stray' ELSE 0)
    BY <2>2, <2>3, <2>6, <2>7, <2>8, <2>9
  <2>11. lgGlobal'[c] = Total(lgDaily', c) BY <2>3, <2>7
  <2>. QED  BY <2>1, <2>5, <2>10, <2>11 DEF LgTotals
<1>2. ASSUME NEW dir2 \in Directions
      PROVE  lgGlobal'[dir2] = lgGlobal'[Lg!CounterOf("lm", dir2)] + lgGlobal'[Lg!CounterOf("lmm", dir2)]
  BY CounterOfEach DEF Kinds, LgInv, LgTyped, TotalsPaid
<1>. QED  BY <1>1, <1>2 DEF LgInv

\* A mech is paid, or pays out.
LEMMA LgAfterPaid ==
    ASSUME Lg!LegacyAssumption, LgInv, NEW m \in DOMAIN lgMech, NEW dir \in Directions,
           NEW amount \in Nat, Lg!Paid(m, dir, amount), UNCHANGED <<lgNow, lgPrice, stray>>
    PROVE  LgInv'
<1>1. m \in Lg!Mechs /\ CountersTyped(lgMech, LgFields) BY DEF LgInv, LgTyped
<1>2. PICK kind : kind = Lg!Kind(m) OBVIOUS
<1>3. kind \in Kinds BY <1>1, <1>2, CounterOfEach
<1>4. TotalsPaid(kind, dir, amount) BY <1>2, <1>3, TotalsArePaid DEF Lg!Paid
<1>5. DaysPaid(m, dir, amount) BY <1>1, DaysArePaid DEF Lg!Paid
<1>6. PICK delta : delta = [x \in {dir} |-> amount] OBVIOUS
<1>7. DOMAIN delta = {dir} /\ delta[dir] = amount /\ AllIntegers(delta) BY <1>6 DEF AllIntegers
<1>8. lgMech' = AddTo(lgMech, m, LgFields, delta)
  BY <1>6 DEF Lg!Paid, Lg!Add, Add, AddTo, LoadOr, Put
<1>9. lgMech'[m].price \in Nat
  <2>1. DOMAIN lgMech[m] = LgFields /\ lgMech[m].price \in Nat BY <1>1 DEF CountersTyped, LgInv, LgTyped
  <2>2. lgMech'[m] = Add(lgMech[m], delta) BY <1>8 DEF AddTo, Put, LoadOr
  <2>3. "price" \in LgFields /\ "price" \notin DOMAIN delta BY <1>7 DEF LgFields, Directions
  <2>. QED  BY <2>1, <2>2, <2>3 DEF Add
<1>10. MechsAdded(m, delta) BY <1>1, <1>7, <1>8, <1>9, MechsAreAdded
<1>11. LgTyped'
  BY <1>4, <1>5, <1>10 DEF LgInv, LgTyped, TotalsPaid, DaysPaid, MechsAdded, Lg!Mechs
<1>12. ASSUME NEW kind2 \in Kinds, NEW dir2 \in Directions
       PROVE  KeptSum(lgMech', OfLgKind(kind2), dir2) = KeptSum(lgMech, OfLgKind(kind2), dir2)
                + (IF kind2 = kind /\ dir2 = dir THEN amount ELSE 0)
  BY <1>2, <1>7, <1>10 DEF MechsAdded
<1>13. ASSUME NEW m2 \in Lg!Mechs, NEW dir2 \in Directions PROVE LgDays(m2, dir2)'
  BY <1>7, <1>10, <1>5 DEF MechsAdded, DaysPaid, LgInv, LgDays
<1>14. amount = amount + 0 /\ stray' = stray + 0 BY DEF LgInv, LgTyped
<1>. QED  BY <1>3, <1>4, <1>11, <1>12, <1>13, <1>14, LgAddsUp

\* A request to a mech nobody indexed.
LEMMA LgAfterStray ==
    ASSUME Lg!LegacyAssumption, LgInv, NEW amount \in Nat,
           lgGlobal' = Lg!updateGlobalFees("lmm", "in", amount),
           lgDaily' = Lg!updateDailyFees("lmm", "in", amount), stray' = stray + amount,
           UNCHANGED <<lgNow, lgPrice, lgMech, lgMechDaily>>
    PROVE  LgInv'
<1>1. "lmm" \in Kinds /\ "in" \in Directions BY DEF Kinds, Directions
<1>2. TotalsPaid("lmm", "in", amount) BY <1>1, TotalsArePaid
<1>3. LgTyped' BY <1>2 DEF LgInv, LgTyped, TotalsPaid, Lg!Mechs
<1>4. \A m2 \in Lg!Mechs, dir2 \in Directions : LgDays(m2, dir2)'
  BY DEF LgInv, LgDays, Shown, Lg!Mechs, Lg!Kind
<1>5. ASSUME NEW kind2 \in Kinds, NEW dir2 \in Directions
      PROVE  KeptSum(lgMech', OfLgKind(kind2), dir2) = KeptSum(lgMech, OfLgKind(kind2), dir2)
               + (IF kind2 = "lmm" /\ dir2 = "in" THEN 0 ELSE 0)
  <2>1. KeptSum(lgMech, OfLgKind(kind2), dir2) \in Int
    <3>1. PICK f : f = lgMech OBVIOUS
    <3>2. PICK K : K = OfLgKind(kind2) OBVIOUS
    <3>3. PICK delta : delta = [x \in {} |-> 0] OBVIOUS
    <3>4. AllIntegers(delta) /\ dir2 \in LgFields BY <3>3 DEF AllIntegers, Directions, LgFields
    <3>5. PICK h : h = AddTo(f, 0, LgFields, delta) OBVIOUS
    <3>6. CountersTyped(f, LgFields) BY <3>1 DEF LgInv, LgTyped
    <3>7. KeptSum(f, K, dir2) \in Int BY ONLY <3>4, <3>5, <3>6, KeptAddTo
    <3>. QED  BY <3>1, <3>2, <3>7
  <2>. QED  BY <2>1
<1>6. amount = 0 + amount OBVIOUS
<1>. QED  BY <1>1, <1>2, <1>3, <1>4, <1>5, <1>6, LgAddsUp

\* A mech's first log, its second, or a new price.
LEMMA LgAfterRow ==
    ASSUME Lg!LegacyAssumption, LgInv, NEW m \in Lg!Mechs, NEW p \in LgPrices,
           Lg!handleCreateMech(m, p) \/ Lg!handlePriceUpdate(m, p)
    PROVE  LgInv'
<1>1. /\ UNCHANGED <<lgNow, lgPrice, stray, lgGlobal, lgDaily, lgMechDaily>> /\ p \in Nat
  BY DEF Lg!handleCreateMech, Lg!handlePriceUpdate, Lg!Event, Lg!LegacyAssumption
<1>2. CASE lgMech' = lgMech
  BY <1>1, <1>2 DEF LgInv, LgTyped, LgTotals, LgDays, Shown, Lg!Mechs, Lg!Kind
<1>3. CountersTyped(lgMech, LgFields) /\ \A x \in DOMAIN lgMech : lgMech[x].price \in Nat
  BY DEF LgInv, LgTyped
<1>4. ASSUME NEW delta, DOMAIN delta = {"price"}, AllIntegers(delta),
             lgMech' = AddTo(lgMech, m, LgFields, delta), lgMech'[m].price \in Nat
      PROVE  LgInv'
  <2>1. MechsAdded(m, delta) BY <1>4, MechsAreAdded
  <2>2. LgTyped' BY <1>1, <2>1 DEF LgInv, LgTyped, MechsAdded, Lg!Mechs
  <2>3. \A dir \in Directions : dir \notin DOMAIN delta BY <1>4 DEF Directions
  <2>4. ASSUME NEW kind \in Kinds, NEW dir \in Directions PROVE LgTotals(kind, dir)'
    <3>1. PICK c : c = Lg!CounterOf(kind, dir) OBVIOUS
    <3>2. KeptSum(lgMech, OfLgKind(kind), dir) \in Int
      BY <1>3, <1>4, KeptAddTo DEF Directions, LgFields
    <3>3. KeptSum(lgMech', OfLgKind(kind), dir) = KeptSum(lgMech, OfLgKind(kind), dir)
      BY <2>1, <2>3, <3>2 DEF MechsAdded
    <3>4. LgTotals(kind, dir) BY DEF LgInv
    <3>. QED  BY <1>1, <3>3, <3>4 DEF LgTotals
  <2>5. ASSUME NEW m2 \in Lg!Mechs, NEW dir \in Directions PROVE LgDays(m2, dir)'
    BY <1>3, <2>1, <2>3, <1>1 DEF Shown, CountersTyped, Directions, LgFields, MechsAdded, LgInv,
        LgDays
  <2>. QED  BY <1>1, <2>2, <2>4, <2>5 DEF LgInv
<1>5. CASE Lg!handleCreateMech(m, p) /\ m \notin DOMAIN lgMech
  <2>1. PICK row : row = [in |-> 0, out |-> 0, price |-> p] OBVIOUS
  <2>2. DOMAIN row = LgFields /\ row.in = 0 /\ row.out = 0 /\ row.price = p
    BY <2>1 DEF LgFields
  <2>3. lgMech' = Put(lgMech, m, row)
    BY <1>5, <2>1 DEF Lg!handleCreateMech, Lg!Put, Put
  <2>4. PICK delta : delta = [x \in {"price"} |-> p] OBVIOUS
  <2>5. DOMAIN delta = {"price"} /\ delta.price = p BY <2>4
  <2>6. AllIntegers(delta) BY <1>1, <2>5 DEF AllIntegers
  <2>7. Add(Zeros(LgFields), delta) = row BY <1>1, <2>2, <2>5, <2>1 DEF Zeros, Add, LgFields
  <2>8. lgMech' = AddTo(lgMech, m, LgFields, delta) BY <1>5, <2>3, <2>7 DEF AddTo, LoadOr
  <2>9. lgMech'[m].price \in Nat BY <1>1, <2>2, <2>3 DEF Put
  <2>. QED  BY <1>4, <2>5, <2>6, <2>8, <2>9
<1>6. CASE Lg!handlePriceUpdate(m, p)
  <2>1. m \in DOMAIN lgMech BY <1>6 DEF Lg!handlePriceUpdate
  <2>2. PICK old : old = lgMech[m] OBVIOUS
  <2>3. DOMAIN old = LgFields /\ (\A c \in LgFields : old[c] \in Int)
    BY <1>3, <2>1, <2>2 DEF CountersTyped
  <2>4. PICK row : row = [old EXCEPT !.price = p] OBVIOUS
  <2>5. PICK delta : delta = [x \in {"price"} |-> p - old.price] OBVIOUS
  <2>6. old.price \in Int BY <2>3 DEF LgFields
  <2>7. DOMAIN delta = {"price"} /\ delta.price = p - old.price /\ AllIntegers(delta)
    BY <1>1, <2>5, <2>6 DEF AllIntegers
  <2>8. Add(old, delta) = row BY <1>1, <2>3, <2>4, <2>6, <2>7 DEF Add, LgFields
  <2>9. lgMech' = [lgMech EXCEPT ![m] = row]
    BY <1>6, <2>2, <2>4 DEF Lg!handlePriceUpdate
  <2>10. lgMech' = AddTo(lgMech, m, LgFields, delta)
    BY <2>1, <2>2, <2>8, <2>9 DEF AddTo, LoadOr, Put
  <2>11. lgMech'[m].price \in Nat BY <1>1, <2>1, <2>3, <2>4, <2>9 DEF LgFields
  <2>. QED  BY <1>4, <2>7, <2>10, <2>11
<1>. QED  BY <1>2, <1>5, <1>6 DEF Lg!handleCreateMech

\* Nothing of the store changes.
LEMMA LgSame ==
    ASSUME LgInv, UNCHANGED <<lgMech, lgGlobal, lgDaily, lgMechDaily, stray>>,
           lgNow' \in Nat, lgPrice' \in [Lg!Mechs \cup Strangers -> Nat]
    PROVE  LgInv'
BY DEF LgInv, LgTyped, LgTotals, LgDays, Shown, Lg!Mechs, Lg!Kind

\* A call of a mech, a request to one, and a request through the marketplace.
LEMMA LgAfterPayment ==
    ASSUME Lg!LegacyAssumption, LgInv,
           \/ \E m \in Lg!Mechs, amount \in LgAmounts, b \in BOOLEAN : Lg!handleExec(m, amount, b)
           \/ \E m \in Lms : Lg!handleRequest(m)
           \/ \E m \in Lg!Mechs \cup Strangers : Lg!handleMarketplaceRequest(m)
    PROVE  LgInv'
<1>1. /\ UNCHANGED <<lgNow, lgPrice>> /\ LgAmounts \subseteq Nat
      /\ lgNow \in Nat /\ lgPrice \in [Lg!Mechs \cup Strangers -> Nat]
      /\ \A m \in DOMAIN lgMech : lgMech[m].price \in Nat
      /\ "in" \in Directions /\ "out" \in Directions
  BY DEF Lg!handleExec, Lg!handleRequest, Lg!handleMarketplaceRequest, Lg!Event,
         Lg!LegacyAssumption, LgInv, LgTyped, Directions
<1>2. ASSUME NEW m \in Lg!Mechs, NEW amount \in LgAmounts, NEW b \in BOOLEAN,
             Lg!handleExec(m, amount, b)
      PROVE  LgInv'
  <2>1. CASE b \/ amount = 0 BY <1>1, <1>2, <2>1, LgSame DEF Lg!handleExec
  <2>2. CASE ~(b \/ amount = 0) BY <1>1, <1>2, <2>2, LgAfterPaid DEF Lg!handleExec
  <2>. QED  BY <2>1, <2>2
<1>3. ASSUME NEW m \in Lms, Lg!handleRequest(m) PROVE LgInv'
  BY <1>3, <1>1, LgAfterPaid DEF Lg!handleRequest
<1>4. ASSUME NEW m \in Lg!Mechs \cup Strangers, Lg!handleMarketplaceRequest(m) PROVE LgInv'
  <2>1. PICK amount : amount = Lg!getMechPrice(m) OBVIOUS
  <2>2. amount \in Nat BY <1>1, <2>1 DEF Lg!getMechPrice
  <2>3. CASE amount <= 0 BY <1>1, <1>4, <2>1, <2>3, LgSame DEF Lg!handleMarketplaceRequest
  <2>4. CASE ~(amount <= 0) /\ m \in Lmms \cap DOMAIN lgMech
    BY <1>4, <2>1, <2>4, <1>1, <2>2, LgAfterPaid DEF Lg!handleMarketplaceRequest
  <2>5. CASE ~(amount <= 0) /\ m \notin Lmms \cap DOMAIN lgMech
    BY <1>4, <2>1, <2>5, <1>1, <2>2, LgAfterStray DEF Lg!handleMarketplaceRequest
  <2>. QED  BY <2>3, <2>4, <2>5
<1>. QED  BY <1>2, <1>3, <1>4

\* Every step keeps the invariant.
LEMMA LgKept == ASSUME Lg!LegacyAssumption, LgInv, [Lg!Next]_(Lg!vars) PROVE LgInv'
<1>1. lgNow \in Nat /\ lgPrice \in [Lg!Mechs \cup Strangers -> Nat] /\ LgPrices \subseteq Nat
  BY DEF LgInv, LgTyped, Lg!LegacyAssumption
<1>2. CASE UNCHANGED Lg!vars BY <1>1, <1>2, LgSame DEF Lg!vars, Lg!chain
<1>3. CASE Lg!NextBlock
  <2>1. lgNow' \in Nat BY <1>1, <1>3 DEF Lg!NextBlock
  <2>2. lgPrice' \in [Lg!Mechs \cup Strangers -> Nat] BY <1>3, <1>1 DEF Lg!NextBlock
  <2>. QED  BY <1>3, <2>1, <2>2, LgSame DEF Lg!NextBlock
<1>4. CASE \E m \in Lg!Mechs, p \in LgPrices : Lg!handleCreateMech(m, p) \/ Lg!handlePriceUpdate(m, p)
  BY <1>4, LgAfterRow
<1>. QED  BY <1>2, <1>3, <1>4, LgAfterPayment DEF Lg!Next

\* It holds before the first log.
LEMMA LgInitInv == ASSUME Lg!LegacyAssumption, Lg!Init PROVE LgInv
<1>1. /\ lgNow = 0 /\ stray = 0 /\ lgPrice \in [Lg!Mechs \cup Strangers -> LgPrices]
      /\ DOMAIN lgMech = {} /\ DOMAIN lgDaily = {} /\ DOMAIN lgMechDaily = {}
      /\ lgGlobal = [x \in LgCounters \cup Directions |-> 0]
  BY DEF Lg!Init, Lg!NoRows, Lg!Zeros, Lg!KindCounters, LgCounters, Directions
<1>2. LgTyped
  <2>1. /\ CountersTyped(lgMech, LgFields) /\ CountersTyped(lgDaily, LgCounters)
        /\ CountersTyped(lgMechDaily, LgCounters)
    BY <1>1, TotalNone
  <2>2. lgPrice \in [Lg!Mechs \cup Strangers -> Nat] BY <1>1 DEF Lg!LegacyAssumption
  <2>. QED  BY <1>1, <2>1, <2>2 DEF LgTyped
<1>3. ASSUME NEW kind \in Kinds, NEW dir \in Directions PROVE LgTotals(kind, dir)
  BY CounterOfEach, <1>1, TotalNone, KeptNone DEF LgTotals
<1>4. ASSUME NEW dir \in Directions
      PROVE  lgGlobal[dir] = lgGlobal[Lg!CounterOf("lm", dir)] + lgGlobal[Lg!CounterOf("lmm", dir)]
  BY CounterOfEach, <1>1 DEF Kinds
<1>5. ASSUME NEW m \in Lg!Mechs, NEW dir \in Directions PROVE LgDays(m, dir)
  BY <1>1, KeptNone DEF LgDays, Shown
<1>. QED  BY <1>2, <1>3, <1>4, <1>5 DEF LgInv

\* The invariant says what the rows promise.
LEMMA LgShown == ASSUME Lg!LegacyAssumption, LgInv PROVE Lg!LegacyFeesAddUp
<1>. SUFFICES ASSUME NEW kind \in {"lm", "lmm"}, NEW dir \in {"in", "out"}
              PROVE  LET c == Lg!CounterOf(kind, dir)
                         ofMech(m) == lgMech[m][dir]
                         mechs == Lg!SumOver(Lg!OfKind(lgMech, kind), ofMech)
                         unknown == IF c = "lmmIn" THEN stray ELSE 0
                     IN  /\ lgGlobal[c] = mechs + unknown
                         /\ lgGlobal[c] = Lg!Total(lgDaily, c)
                         /\ lgGlobal[dir] = lgGlobal[Lg!CounterOf("lm", dir)]
                                              + lgGlobal[Lg!CounterOf("lmm", dir)]
                         /\ \A m \in Lg!OfKind(lgMech, kind) :
                               LET ofDay(k) == lgMechDaily[k][c]
                               IN  lgMech[m][dir]
                                      = Lg!SumOver({k \in DOMAIN lgMechDaily : k[1] = m}, ofDay)
  BY DEF Lg!LegacyFeesAddUp
<1>1. kind \in Kinds /\ dir \in Directions BY DEF Kinds, Directions
<1>2. DOMAIN lgMech \subseteq Lg!Mechs /\ DOMAIN lgMechDaily \subseteq Lg!Mechs \X Nat
  BY DEF LgInv, LgTyped
<1>3. LgTotals(kind, dir) BY <1>1 DEF LgInv
<1>4. LET ofMech(m) == lgMech[m][dir]
      IN  lgGlobal[Lg!CounterOf(kind, dir)] = Lg!SumOver(Lg!OfKind(lgMech, kind), ofMech)
             + (IF Lg!CounterOf(kind, dir) = "lmmIn" THEN stray ELSE 0)
  BY <1>1, <1>2, KindOfMech, LgSum, <1>3 DEF Lg!OfKind, KeptSum, LgTotals, Lg!SumOver
<1>5. ASSUME NEW m \in Lg!OfKind(lgMech, kind)
      PROVE  LET ofDay(k) == lgMechDaily[k][Lg!CounterOf(kind, dir)]
             IN  lgMech[m][dir] = Lg!SumOver({k \in DOMAIN lgMechDaily : k[1] = m}, ofDay)
  <2>1. m \in DOMAIN lgMech /\ m \in Lg!Mechs /\ Lg!Kind(m) = kind BY <1>2 DEF Lg!OfKind
  <2>2. LgDays(m, dir) BY <1>1, <2>1 DEF LgInv
  <2>3. lgMech[m][dir] = KeptSum(lgMechDaily, DaysOf(m), Lg!CounterOf(kind, dir))
    BY <2>1, <2>2 DEF LgDays, Shown
  <2>4. {j \in DOMAIN lgMechDaily : j[1] = m} = (DOMAIN lgMechDaily) \cap DaysOf(m)
    BY <1>2 DEF DaysOf
  <2>5. KeptSum(lgMechDaily, DaysOf(m), Lg!CounterOf(kind, dir))
           = Lg!SumFunction([k \in {j \in DOMAIN lgMechDaily : j[1] = m}
                                |-> lgMechDaily[k][Lg!CounterOf(kind, dir)]])
    BY <2>4, LgSum DEF KeptSum
  <2>. QED  BY <2>3, <2>5 DEF Lg!SumOver
<1>6. lgGlobal[Lg!CounterOf(kind, dir)] = Lg!Total(lgDaily, Lg!CounterOf(kind, dir))
  BY <1>3, LgTotal DEF LgTotals
<1>7. lgGlobal[dir] = lgGlobal[Lg!CounterOf("lm", dir)] + lgGlobal[Lg!CounterOf("lmm", dir)]
  BY <1>1 DEF LgInv
<1>. QED  BY <1>4, <1>5, <1>6, <1>7

\* For any mechs of either kind and mechs nobody indexed, any prices, amounts and length of a
\* day: each kind's totals are those of its mechs, of the days and of the mechs' days, and what
\* requests to unknown mechs paid is in the totals and in no mech.
THEOREM LegacyFeesAlwaysAddUp ==
    ASSUME Lg!LegacyAssumption PROVE Lg!Spec => []Lg!LegacyFeesAddUp
<1>1. Lg!Init => LgInv BY LgInitInv
<1>2. LgInv /\ [Lg!Next]_(Lg!vars) => LgInv' BY LgKept
<1>3. LgInv => Lg!LegacyFeesAddUp BY LgShown
<1>. QED  BY <1>1, <1>2, <1>3, PTL DEF Lg!Spec

-----------------------------------------------------------------------------
(* new-mech-fees: what mechs earn and collect.                             *)

CONSTANTS FeMechs, Burner, FeAmounts, FePrices, OneToOne, Ratio, FeWei, Dec, FeDayLength,
    FeMaxNow, FeMaxEvents
VARIABLES feNow, feEvents, owed, missed, feGlobal, feMech, mechModel, dailyTotals, feMechDaily,
    drainTotals, transaction

Fe == INSTANCE MechFees WITH
    Mechs <- FeMechs, Amounts <- FeAmounts, Prices <- FePrices, Wei <- FeWei,
    DayLength <- FeDayLength, MaxNow <- FeMaxNow, MaxEvents <- FeMaxEvents, now <- feNow,
    events <- feEvents, global <- feGlobal, mech <- feMech, mechDaily <- feMechDaily

\* The sums of MechFees are the library's.
LEMMA FeSum == ASSUME NEW f PROVE Fe!SumFunction(f) = SumFunction(f)
<1>1. ASSUME NEW g, NEW S PROVE Fe!SumFunctionOnSet(g, S) = (CHOOSE h : AddsUp(g, S, h))[S]
  BY DEF Fe!SumFunctionOnSet, Fe!FoldFunctionOnSet, Fe!MapThenFoldSet, AddsUp, FirstOf
<1>. QED  BY <1>1, SumIsFold DEF Fe!SumFunction, SumFunction

\* And so are its totals.
LEMMA FeTotal == ASSUME NEW f, NEW c PROVE Fe!Total(f, c) = Total(f, c)
BY FeSum DEF Fe!Total, Fe!SumOver, Total, SumOver

\* The module's rows of counters are those of Counters.
LEMMA FeAddTo ==
    ASSUME NEW f, NEW k, NEW fields, NEW delta
    PROVE  Fe!AddTo(f, k, fields, delta) = AddTo(f, k, fields, delta)
BY DEF Fe!AddTo, Fe!Put, Fe!Add, Fe!LoadOr, Fe!Zeros, AddTo, Put, Add, LoadOr, Zeros

FeModels == {"native", "nvm", "token-olas", "token-usdc"}
FeFields == {"inUSD", "outUSD", "inRaw", "outRaw"}
FeDirections == {"in", "out"}
FeUnits == {"USD", "Raw"}
FeGlobals == {"totalFeesInUSD", "totalFeesOutUSD", "totalDrainedFeesUSD",
              "totalOlasBurnedRaw", "totalOlasBurnedUSD"}

\* The direction and the unit a field of a fee is in.
TypeOf(c) == IF c \in {"inUSD", "inRaw"} THEN "in" ELSE "out"
UnitOf(c) == IF c \in {"inUSD", "outUSD"} THEN "USD" ELSE "Raw"

\* The rows that speak of a mech.
ModelsOf(m) == {m} \X FeModels
FeDaysOf(m) == {m} \X Nat
SentOf(m, type) == {m} \X FeModels \X {type} \X Nat

FeTyped ==
    /\ feNow \in Nat
    /\ CountersTyped(feMech, FeFields) /\ DOMAIN feMech \subseteq FeMechs
    /\ CountersTyped(mechModel, FeFields) /\ DOMAIN mechModel \subseteq FeMechs \X FeModels
    /\ CountersTyped(feMechDaily, FeFields) /\ DOMAIN feMechDaily \subseteq FeMechs \X Nat
    /\ CountersTyped(dailyTotals, FeDirections)
    /\ CountersTyped(transaction, FeUnits)
    /\ DOMAIN transaction \subseteq FeMechs \X FeModels \X FeDirections \X Nat
    /\ CountersTyped(drainTotals, FeUnits)
    /\ DOMAIN feGlobal = FeGlobals /\ \A c \in FeGlobals : feGlobal[c] \in Int

\* A mech's row, or zero, is what its models, days and transactions add up to.
MechShown(m, c) ==
    /\ RowOf(feMech, m, c) = KeptSum(mechModel, ModelsOf(m), c)
    /\ RowOf(feMech, m, c) = KeptSum(feMechDaily, FeDaysOf(m), c)
    /\ RowOf(feMech, m, c) = KeptSum(transaction, SentOf(m, TypeOf(c)), UnitOf(c))

\* The marketplace's totals of fees.
FeesShown ==
    /\ feGlobal.totalFeesInUSD = Total(feMech, "inUSD")
    /\ feGlobal.totalFeesOutUSD = Total(feMech, "outUSD")
    /\ feGlobal.totalFeesInUSD = Total(dailyTotals, "in")
    /\ feGlobal.totalFeesOutUSD = Total(dailyTotals, "out")

\* Its totals of drained fees.
DrainedShown ==
    /\ feGlobal.totalDrainedFeesUSD = Total(drainTotals, "USD")
    /\ feGlobal.totalOlasBurnedRaw = RowOf(drainTotals, "token-olas", "Raw")
    /\ feGlobal.totalOlasBurnedUSD = RowOf(drainTotals, "token-olas", "USD")

\* What a tracker owes a mech is what it earned and did not collect, but for what was dropped.
Owes ==
    /\ owed \in [FeMechs \X FeModels -> Int] /\ missed \in [FeMechs \X FeModels -> Int]
    /\ \A x \in FeMechs \X FeModels :
          x[2] # "nvm" =>
             RowOf(mechModel, x, "inRaw") - RowOf(mechModel, x, "outRaw") + missed[x] = owed[x]

FeBooks ==
    /\ FeTyped
    /\ \A m \in FeMechs, c \in FeFields : MechShown(m, c)
    /\ FeesShown /\ DrainedShown

FeInv == FeBooks /\ Owes

\* The parts of a fee: the fields of its direction, by their units.
LEMMA FeeParts ==
    ASSUME NEW dir \in FeDirections, NEW usd \in Nat, NEW raw \in Nat, NEW delta,
           delta = Fe!Fee(dir, usd, raw), NEW sent, sent = [USD |-> usd, Raw |-> raw]
    PROVE  /\ AllIntegers(delta) /\ AllIntegers(sent) /\ DOMAIN sent = FeUnits
           /\ DOMAIN delta \subseteq FeFields
           /\ \A c \in FeFields : /\ c \in DOMAIN delta <=> TypeOf(c) = dir
                                  /\ TypeOf(c) \in FeDirections /\ UnitOf(c) \in FeUnits
                                  /\ c \in DOMAIN delta => delta[c] = sent[UnitOf(c)]
           /\ (IF "inUSD" \in DOMAIN delta THEN delta["inUSD"] ELSE 0)
                 = (IF dir = "in" THEN usd ELSE 0)
           /\ (IF "outUSD" \in DOMAIN delta THEN delta["outUSD"] ELSE 0)
                 = (IF dir = "out" THEN usd ELSE 0)
           /\ (IF "inRaw" \in DOMAIN delta THEN delta["inRaw"] ELSE 0)
                 = (IF dir = "in" THEN raw ELSE 0)
           /\ (IF "outRaw" \in DOMAIN delta THEN delta["outRaw"] ELSE 0)
                 = (IF dir = "out" THEN raw ELSE 0)
<1>1. sent.USD = usd /\ sent.Raw = raw /\ DOMAIN sent = FeUnits BY DEF FeUnits
<1>2. CASE dir = "in"
  BY <1>2, <1>1 DEF Fe!Fee, AllIntegers, FeUnits, FeFields, FeDirections, TypeOf, UnitOf
<1>3. CASE dir = "out"
  BY <1>3, <1>1 DEF Fe!Fee, AllIntegers, FeUnits, FeFields, FeDirections, TypeOf, UnitOf
<1>. QED  BY <1>2, <1>3 DEF FeDirections

-----------------------------------------------------------------------------
(* The five levels of a fee. *)

\* The table g is f with these amounts added to its row k.
Level(g, f, k, fields, delta) ==
    /\ CountersTyped(g, fields) /\ DOMAIN g \subseteq DOMAIN f \cup {k}
    /\ \A c \in fields :
          /\ Total(f, c) \in Int
          /\ Total(g, c) = Total(f, c) + (IF c \in DOMAIN delta THEN delta[c] ELSE 0)
    /\ \A c \in fields : \A K :
          /\ KeptSum(f, K, c) \in Int
          /\ KeptSum(g, K, c) = KeptSum(f, K, c)
                + (IF k \in K /\ c \in DOMAIN delta THEN delta[c] ELSE 0)
    /\ \A c \in fields : \A j :
          /\ RowOf(f, j, c) \in Int
          /\ RowOf(g, j, c) = RowOf(f, j, c)
                + (IF j = k /\ c \in DOMAIN delta THEN delta[c] ELSE 0)

\* What AddTo does to every sum and every row.
LEMMA LevelAdded ==
    ASSUME NEW f, NEW fields, CountersTyped(f, fields), NEW k, NEW delta, AllIntegers(delta),
           NEW g, g = AddTo(f, k, fields, delta)
    PROVE  Level(g, f, k, fields, delta)
<1>1. CountersTyped(g, fields) /\ TotalsRaised(g, f, fields, delta) BY TotalAddTo
<1>2. DOMAIN g = DOMAIN f \cup {k} BY DEF AddTo, Put
<1>3. ASSUME NEW c \in fields, NEW K
      PROVE  /\ KeptSum(f, K, c) \in Int
             /\ KeptSum(g, K, c) = KeptSum(f, K, c)
                   + (IF k \in K /\ c \in DOMAIN delta THEN delta[c] ELSE 0)
  BY KeptAddTo
<1>4. ASSUME NEW c \in fields, NEW j
      PROVE  /\ RowOf(f, j, c) \in Int
             /\ RowOf(g, j, c) = RowOf(f, j, c)
                   + (IF j = k /\ c \in DOMAIN delta THEN delta[c] ELSE 0)
  BY RowAddTo
<1>. QED  BY <1>1, <1>2, <1>3, <1>4 DEF TotalsRaised, Level

\* Adding nothing but zeros, or nothing at all, is the same to them.
LEMMA LevelKept ==
    ASSUME NEW f, NEW fields, CountersTyped(f, fields), NEW k, NEW delta, AllIntegers(delta),
           \A c \in DOMAIN delta : delta[c] = 0
    PROVE  Level(f, f, k, fields, delta)
BY CountersTyped(f, fields), AllIntegers(delta), LevelAdded DEF Level

\* The handlers' five levels are such tables.
LEMMA BookedLevels ==
    ASSUME FeBooks, NEW m \in FeMechs, NEW model \in FeModels, NEW dir \in FeDirections,
           NEW usd \in Nat, NEW raw \in Nat, Fe!Booked(m, model, dir, usd, raw),
           NEW delta, delta = Fe!Fee(dir, usd, raw), NEW sent, sent = [USD |-> usd, Raw |-> raw],
           NEW today, today = Fe!Day, NEW one, one = [x \in {dir} |-> usd],
           NEW name, name = IF dir = "in" THEN "totalFeesInUSD" ELSE "totalFeesOutUSD"
    PROVE  /\ Level(feMech', feMech, m, FeFields, delta)
           /\ Level(mechModel', mechModel, <<m, model>>, FeFields, delta)
           /\ Level(feMechDaily', feMechDaily, <<m, today>>, FeFields, delta)
           /\ Level(transaction', transaction, <<m, model, dir, today>>, FeUnits, sent)
           /\ Level(dailyTotals', dailyTotals, today, FeDirections, one)
           /\ DOMAIN feGlobal' = FeGlobals
           /\ \A c \in FeGlobals : feGlobal'[c] = feGlobal[c] + (IF c = name THEN usd ELSE 0)
<1>1. /\ CountersTyped(feMech, FeFields) /\ CountersTyped(mechModel, FeFields)
      /\ CountersTyped(feMechDaily, FeFields) /\ CountersTyped(transaction, FeUnits)
      /\ CountersTyped(dailyTotals, FeDirections)
      /\ DOMAIN feGlobal = FeGlobals /\ \A c \in FeGlobals : feGlobal[c] \in Int
  BY DEF FeBooks, FeTyped
<1>2. AllIntegers(delta) /\ AllIntegers(sent) BY FeeParts
<1>3. /\ Fe!updateTotalFees(dir, usd) /\ Fe!updateMechFees(m, delta)
      /\ Fe!updateMechModel(m, model, delta) /\ Fe!updateDailyTotals(dir, usd)
      /\ Fe!updateMechDaily(m, delta, usd, raw) /\ Fe!createMechTransaction(m, model, dir, usd, raw)
  BY DEF Fe!Booked
<1>4. Level(feMech', feMech, m, FeFields, delta)
  BY <1>3, FeAddTo, <1>1, <1>2, LevelAdded DEF Fe!updateMechFees, Fe!FeeFields, FeFields
<1>5. Level(mechModel', mechModel, <<m, model>>, FeFields, delta)
  BY <1>3, FeAddTo, <1>1, <1>2, LevelAdded DEF Fe!updateMechModel, Fe!FeeFields, FeFields
<1>6. Level(feMechDaily', feMechDaily, <<m, today>>, FeFields, delta)
  <2>1. PICK f : f = feMechDaily OBVIOUS
  <2>2. PICK g : g = feMechDaily' OBVIOUS
  <2>3. PICK k : k = <<m, today>> OBVIOUS
  <2>4. CountersTyped(f, FeFields) /\ AllIntegers(delta) BY <1>1, <1>2, <2>1
  <2>5. CASE usd <= 0 /\ raw <= 0
    <3>1. g = f /\ usd = 0 /\ raw = 0 BY <1>3, <2>1, <2>2, <2>5 DEF Fe!updateMechDaily
    <3>2. \A c \in DOMAIN delta : delta[c] = 0 BY <3>1 DEF Fe!Fee
    <3>3. Level(f, f, k, FeFields, delta) BY ONLY <2>4, <3>2, LevelKept
    <3>. QED  BY <2>1, <2>2, <2>3, <3>1, <3>3
  <2>6. CASE ~(usd <= 0 /\ raw <= 0)
    <3>1. g = AddTo(f, k, FeFields, delta)
      BY <1>3, <2>1, <2>2, <2>3, <2>6, FeAddTo DEF Fe!updateMechDaily, Fe!FeeFields, FeFields
    <3>2. Level(g, f, k, FeFields, delta) BY ONLY <2>4, <3>1, LevelAdded
    <3>. QED  BY <2>1, <2>2, <2>3, <3>2
  <2>. QED  BY <2>5, <2>6
<1>7. Level(transaction', transaction, <<m, model, dir, today>>, FeUnits, sent)
  BY <1>3, FeAddTo, <1>1, <1>2, LevelAdded DEF Fe!createMechTransaction, Fe!SumFields, FeUnits
<1>8. Level(dailyTotals', dailyTotals, today, FeDirections, one)
  <2>1. PICK f : f = dailyTotals OBVIOUS
  <2>2. PICK g : g = dailyTotals' OBVIOUS
  <2>4. DOMAIN one = {dir} /\ one[dir] = usd /\ AllIntegers(one) BY DEF AllIntegers
  <2>5. CountersTyped(f, FeDirections) BY <1>1, <2>1
  <2>6. CASE usd <= 0 BY <1>3, <2>1, <2>2, <2>6, <2>4, <2>5, LevelKept DEF Fe!updateDailyTotals
  <2>7. CASE ~(usd <= 0)
    <3>1. g = AddTo(f, today, FeDirections, one)
      BY <1>3, <2>1, <2>2, <2>7, FeAddTo DEF Fe!updateDailyTotals, FeDirections
    <3>2. Level(g, f, today, FeDirections, one) BY ONLY <2>4, <2>5, <3>1, LevelAdded
    <3>. QED  BY <2>1, <2>2, <3>2
  <2>. QED  BY <2>6, <2>7
<1>9. PICK grow : grow = IF dir = "in" THEN [totalFeesInUSD |-> usd] ELSE [totalFeesOutUSD |-> usd]
  OBVIOUS
<1>10. feGlobal' = Fe!Add(feGlobal, grow) BY <1>3, <1>9 DEF Fe!updateTotalFees
<1>12. DOMAIN grow = {name} /\ grow[name] = usd BY <1>9
<1>13. /\ DOMAIN feGlobal' = FeGlobals
       /\ \A c \in FeGlobals : feGlobal'[c] = feGlobal[c] + (IF c = name THEN usd ELSE 0)
  BY <1>1, <1>10, <1>12 DEF Fe!Add
<1>. QED  BY <1>4, <1>5, <1>6, <1>7, <1>8, <1>13

\* The levels of a fee still agree.
LEMMA BookedKept ==
    ASSUME Fe!FeesAssumption, FeBooks, NEW m \in FeMechs, NEW model \in FeModels,
           NEW dir \in FeDirections, NEW usd \in Nat, NEW raw \in Nat,
           Fe!Booked(m, model, dir, usd, raw), UNCHANGED <<feNow, drainTotals>>
    PROVE  /\ FeBooks'
           /\ \A x : /\ RowOf(mechModel', x, "inRaw") = RowOf(mechModel, x, "inRaw")
                           + (IF x = <<m, model>> /\ dir = "in" THEN raw ELSE 0)
                     /\ RowOf(mechModel', x, "outRaw") = RowOf(mechModel, x, "outRaw")
                           + (IF x = <<m, model>> /\ dir = "out" THEN raw ELSE 0)
                     /\ RowOf(mechModel, x, "inRaw") \in Int /\ RowOf(mechModel, x, "outRaw") \in Int
<1>1. PICK delta : delta = Fe!Fee(dir, usd, raw) OBVIOUS
<1>2. PICK sent : sent = [USD |-> usd, Raw |-> raw] OBVIOUS
<1>3. PICK today : today = Fe!Day OBVIOUS
<1>4. today \in Nat BY <1>3 DEF FeBooks, FeTyped, Fe!FeesAssumption, Fe!Day
<1>4a. PICK one : one = [x \in {dir} |-> usd] OBVIOUS
<1>4b. PICK name : name = IF dir = "in" THEN "totalFeesInUSD" ELSE "totalFeesOutUSD" OBVIOUS
<1>5. /\ Level(feMech', feMech, m, FeFields, delta)
      /\ Level(mechModel', mechModel, <<m, model>>, FeFields, delta)
      /\ Level(feMechDaily', feMechDaily, <<m, today>>, FeFields, delta)
      /\ Level(transaction', transaction, <<m, model, dir, today>>, FeUnits, sent)
      /\ Level(dailyTotals', dailyTotals, today, FeDirections, one)
      /\ DOMAIN feGlobal' = FeGlobals
      /\ \A c \in FeGlobals : feGlobal'[c] = feGlobal[c] + (IF c = name THEN usd ELSE 0)
  BY <1>1, <1>2, <1>3, <1>4a, <1>4b, BookedLevels
<1>6. /\ DOMAIN sent = FeUnits /\ DOMAIN delta \subseteq FeFields
      /\ AllIntegers(delta)
      /\ \A c \in FeFields : /\ c \in DOMAIN delta <=> TypeOf(c) = dir
                             /\ TypeOf(c) \in FeDirections /\ UnitOf(c) \in FeUnits
                             /\ c \in DOMAIN delta => delta[c] = sent[UnitOf(c)]
      /\ (IF "inUSD" \in DOMAIN delta THEN delta["inUSD"] ELSE 0) = (IF dir = "in" THEN usd ELSE 0)
      /\ (IF "outUSD" \in DOMAIN delta THEN delta["outUSD"] ELSE 0) = (IF dir = "out" THEN usd ELSE 0)
      /\ (IF "inRaw" \in DOMAIN delta THEN delta["inRaw"] ELSE 0) = (IF dir = "in" THEN raw ELSE 0)
      /\ (IF "outRaw" \in DOMAIN delta THEN delta["outRaw"] ELSE 0) = (IF dir = "out" THEN raw ELSE 0)
  BY <1>1, <1>2, FeeParts
<1>7. FeTyped' BY <1>4, <1>5 DEF FeBooks, FeTyped, Level
<1>8. ASSUME NEW m2 \in FeMechs, NEW c \in FeFields PROVE MechShown(m2, c)'
  <2>1. MechShown(m2, c) BY DEF FeBooks
  <2>2. PICK more : more = IF c \in DOMAIN delta THEN delta[c] ELSE 0 OBVIOUS
  <2>3. more \in Int BY <1>6, <2>2 DEF AllIntegers
  <2>4. PICK here : here = IF m2 = m THEN more ELSE 0 OBVIOUS
  <2>5. RowOf(feMech', m2, c) = RowOf(feMech, m2, c) + here BY <1>5, <2>2, <2>4 DEF Level
  <2>6. KeptSum(mechModel', ModelsOf(m2), c) = KeptSum(mechModel, ModelsOf(m2), c) + here
    BY <1>5, <2>2, <2>4 DEF ModelsOf, Level
  <2>7. KeptSum(feMechDaily', FeDaysOf(m2), c) = KeptSum(feMechDaily, FeDaysOf(m2), c) + here
    BY <1>4, <1>5, <2>2, <2>4 DEF FeDaysOf, Level
  <2>8. KeptSum(transaction', SentOf(m2, TypeOf(c)), UnitOf(c))
           = KeptSum(transaction, SentOf(m2, TypeOf(c)), UnitOf(c)) + here
    BY <1>4, <1>6, <1>5, <2>2, <2>4 DEF SentOf, Level
  <2>. QED  BY <2>1, <2>5, <2>6, <2>7, <2>8 DEF MechShown
<1>9. FeesShown'
  BY <1>5, <1>6, <1>4a, <1>4b DEF Level, FeFields, FeDirections, FeGlobals, FeBooks, FeesShown
<1>10. DrainedShown' BY <1>4b, <1>5 DEF FeGlobals, FeBooks, FeTyped, DrainedShown
<1>11. ASSUME NEW x
       PROVE  /\ RowOf(mechModel', x, "inRaw") = RowOf(mechModel, x, "inRaw")
                    + (IF x = <<m, model>> /\ dir = "in" THEN raw ELSE 0)
              /\ RowOf(mechModel', x, "outRaw") = RowOf(mechModel, x, "outRaw")
                    + (IF x = <<m, model>> /\ dir = "out" THEN raw ELSE 0)
              /\ RowOf(mechModel, x, "inRaw") \in Int /\ RowOf(mechModel, x, "outRaw") \in Int
  BY <1>5, <1>6 DEF FeFields, Level
<1>. QED  BY <1>7, <1>8, <1>9, <1>10, <1>11 DEF FeBooks

-----------------------------------------------------------------------------
(* The handlers. *)

\* Natural numbers, multiplied and divided.
LEMMA NatQuotient ==
    ASSUME NEW a \in Nat, NEW b \in Nat, NEW d \in Nat \ {0}
    PROVE  a * b \in Nat /\ (a * b) \div d \in Nat
BY d \in Nat \ {0}

\* What an amount is worth is not negative, whatever the model.
LEMMA WorthNat ==
    ASSUME Fe!FeesAssumption, NEW model \in FeModels, NEW amount \in FeAmounts, NEW rate \in FePrices
    PROVE  /\ amount \in Nat /\ Fe!ToUsd(model, amount, rate) \in Nat
           /\ Fe!NvmUsd(Fe!NvmTokens(amount)) \in Nat /\ Fe!NvmCredits(Fe!NvmTokens(amount)) \in Nat
<1>1. /\ amount \in Nat /\ rate \in Nat /\ Ratio \in Nat \ {0} /\ FeWei \in Nat \ {0}
      /\ Dec \in Nat \ {0}
  BY DEF Fe!FeesAssumption
<1>2. FeWei * Dec \in Nat \ {0} BY <1>1
<1>3. amount * rate \in Nat BY <1>1, NatQuotient
<1>4. Fe!calculateNvmFeesIn(amount) \in Nat BY <1>2, <1>1, NatQuotient DEF Fe!calculateNvmFeesIn
<1>5. Fe!ToUsd(model, amount, rate) \in Nat
  BY <1>1, <1>3, <1>4 DEF Fe!ToUsd, Fe!convertNativeWeiToUsd, Fe!calculateOlasToUsd,
                          Fe!convertUsdcToUsd, FeModels
<1>6. PICK tokens : tokens = Fe!NvmTokens(amount) OBVIOUS
<1>7. tokens \in Nat BY <1>1, NatQuotient, <1>6 DEF Fe!NvmTokens
<1>8. Fe!NvmUsd(tokens) \in Nat BY <1>1, <1>7 DEF Fe!NvmUsd
<1>9. Fe!NvmCredits(tokens) \in Nat BY <1>1, <1>7, NatQuotient DEF Fe!NvmCredits
<1>. QED  BY <1>1, <1>5, <1>6, <1>8, <1>9

\* What is dropped is on the trackers' account.
LEMMA Dropped ==
    ASSUME FeInv, NEW m \in FeMechs, NEW model \in FeModels, NEW amount \in Int,
           owed' = [owed EXCEPT ![<<m, model>>] = @ + amount],
           missed' = [missed EXCEPT ![<<m, model>>] = @ + amount],
           UNCHANGED <<feNow, feGlobal, feMech, mechModel, dailyTotals, feMechDaily, drainTotals,
                       transaction>>
    PROVE  FeInv'
<1>1. FeBooks'
  BY DEF FeInv, FeBooks, FeTyped, MechShown, FeesShown, DrainedShown, RowOf
<1>2. PICK k : k = <<m, model>> OBVIOUS
<1>3. k \in FeMechs \X FeModels BY <1>2
<1>4. owed \in [FeMechs \X FeModels -> Int] /\ missed \in [FeMechs \X FeModels -> Int]
  BY DEF FeInv, Owes
<1>5. owed' = [owed EXCEPT ![k] = owed[k] + amount] /\ missed' = [missed EXCEPT ![k] = missed[k] + amount]
  BY <1>2
<1>6. owed[k] + amount \in Int /\ missed[k] + amount \in Int BY <1>3, <1>4
<1>7. owed' \in [FeMechs \X FeModels -> Int] /\ missed' \in [FeMechs \X FeModels -> Int]
  BY <1>4, <1>5, <1>6
<1>8. /\ owed'[k] = owed[k] + amount /\ missed'[k] = missed[k] + amount
      /\ \A x \in FeMechs \X FeModels : x # k => owed'[x] = owed[x] /\ missed'[x] = missed[x]
  BY <1>3, <1>4, <1>5
<1>9. ASSUME NEW x \in FeMechs \X FeModels, x[2] # "nvm"
      PROVE  RowOf(mechModel', x, "inRaw") - RowOf(mechModel', x, "outRaw") + missed'[x] = owed'[x]
  <2>1. PICK a : a = RowOf(mechModel, x, "inRaw") - RowOf(mechModel, x, "outRaw") OBVIOUS
  <2>2. a = RowOf(mechModel', x, "inRaw") - RowOf(mechModel', x, "outRaw") BY <2>1
  <2>3. a + missed[x] = owed[x] BY <1>9, <2>1 DEF FeInv, Owes
  <2>4. a \in Int BY <2>1 DEF FeInv, FeBooks, FeTyped, RowOf, CountersTyped, FeFields
  <2>5. missed[x] \in Int BY <1>4
  <2>6. a + missed'[x] = owed'[x] BY <1>6, <1>8, <2>3, <2>4, <2>5
  <2>. QED  BY <2>2, <2>6
<1>. QED  BY <1>1, <1>7, <1>9 DEF FeInv, Owes

\* What is booked is on the rows.
LEMMA AfterBooked ==
    ASSUME Fe!FeesAssumption, FeInv, NEW m \in FeMechs, NEW model \in FeModels,
           NEW dir \in FeDirections, NEW usd \in Nat, NEW raw \in Nat,
           Fe!Booked(m, model, dir, usd, raw), NEW amount \in Int,
           model # "nvm" => amount = (IF dir = "in" THEN raw ELSE -raw),
           owed' = [owed EXCEPT ![<<m, model>>] = @ + amount],
           UNCHANGED <<feNow, drainTotals, missed>>
    PROVE  FeInv'
<1>1. FeBooks BY DEF FeInv
<1>2. FeBooks' /\ \A x :
        /\ RowOf(mechModel', x, "inRaw") = RowOf(mechModel, x, "inRaw")
              + (IF x = <<m, model>> /\ dir = "in" THEN raw ELSE 0)
        /\ RowOf(mechModel', x, "outRaw") = RowOf(mechModel, x, "outRaw")
              + (IF x = <<m, model>> /\ dir = "out" THEN raw ELSE 0)
        /\ RowOf(mechModel, x, "inRaw") \in Int /\ RowOf(mechModel, x, "outRaw") \in Int
  BY <1>1, BookedKept
<1>3. PICK k : k = <<m, model>> OBVIOUS
<1>4. k \in FeMechs \X FeModels /\ k[2] = model BY <1>3
<1>5. owed \in [FeMechs \X FeModels -> Int] /\ missed \in [FeMechs \X FeModels -> Int]
  BY DEF FeInv, Owes
<1>6. owed' = [owed EXCEPT ![k] = owed[k] + amount] BY <1>3
<1>7. owed[k] + amount \in Int BY <1>4, <1>5
<1>8. owed' \in [FeMechs \X FeModels -> Int] BY <1>5, <1>6, <1>7
<1>9. /\ owed'[k] = owed[k] + amount
      /\ \A x \in FeMechs \X FeModels : x # k => owed'[x] = owed[x]
  BY <1>4, <1>5, <1>6
<1>10. ASSUME NEW x \in FeMechs \X FeModels, x[2] # "nvm"
       PROVE  RowOf(mechModel', x, "inRaw") - RowOf(mechModel', x, "outRaw") + missed'[x] = owed'[x]
  <2>1. PICK a : a = RowOf(mechModel, x, "inRaw") OBVIOUS
  <2>2. PICK b : b = RowOf(mechModel, x, "outRaw") OBVIOUS
  <2>3. a - b + missed[x] = owed[x] BY <1>10, <2>1, <2>2 DEF FeInv, Owes
  <2>4. a \in Int /\ b \in Int /\ missed[x] \in Int /\ owed[x] \in Int BY <1>2, <1>5, <2>1, <2>2
  <2>5. missed'[x] = missed[x] OBVIOUS
  <2>6. CASE x = k
    <3>1. model # "nvm" BY <1>4, <1>10, <2>6
    <3>2. amount = (IF dir = "in" THEN raw ELSE -raw) BY <3>1
    <3>3. /\ RowOf(mechModel', x, "inRaw") = a + (IF dir = "in" THEN raw ELSE 0)
          /\ RowOf(mechModel', x, "outRaw") = b + (IF dir = "out" THEN raw ELSE 0)
      BY <1>2, <1>3, <2>1, <2>2, <2>6
    <3>4. owed'[x] = owed[x] + amount BY <1>9, <2>6
    <3>5. CASE dir = "in" BY <2>3, <2>4, <2>5, <3>2, <3>3, <3>4, <3>5
    <3>6. CASE dir = "out" BY <2>3, <2>4, <2>5, <3>2, <3>3, <3>4, <3>6
    <3>. QED  BY <3>5, <3>6 DEF FeDirections
  <2>7. CASE x # k
    <3>1. RowOf(mechModel', x, "inRaw") = a /\ RowOf(mechModel', x, "outRaw") = b
      BY <1>2, <1>3, <2>1, <2>2, <2>4, <2>7
    <3>. QED  BY <1>9, <2>3, <2>5, <2>7, <3>1
  <2>. QED  BY <2>6, <2>7
<1>. QED  BY <1>2, <1>5, <1>8, <1>10 DEF FeInv, Owes

\* A balance is adjusted, or withdrawn.
LEMMA AfterFee ==
    ASSUME Fe!FeesAssumption, FeInv, NEW m \in FeMechs, NEW model \in FeModels,
           NEW amount \in FeAmounts, NEW rate \in FePrices,
           \/ Fe!handleMechBalanceAdjusted(m, model, amount, rate)
           \/ Fe!handleWithdraw(m, model, amount, rate)
    PROVE  FeInv'
<1>1. /\ amount \in Nat /\ Fe!ToUsd(model, amount, rate) \in Nat
      /\ Fe!NvmUsd(Fe!NvmTokens(amount)) \in Nat /\ Fe!NvmCredits(Fe!NvmTokens(amount)) \in Nat
  BY WorthNat
<1>2. "in" \in FeDirections /\ "out" \in FeDirections /\ amount \in Int /\ -amount \in Int
  BY <1>1 DEF FeDirections
<1>3. owed \in [FeMechs \X FeModels -> Int] /\ missed \in [FeMechs \X FeModels -> Int]
  BY DEF FeInv, Owes
<1>4. PICK usd : usd = Fe!ToUsd(model, amount, rate) OBVIOUS
<1>5. CASE Fe!handleMechBalanceAdjusted(m, model, amount, rate)
  <2>1. /\ owed' = [owed EXCEPT ![<<m, model>>] = @ + amount]
        /\ UNCHANGED <<feNow, drainTotals>>
    BY <1>5 DEF Fe!handleMechBalanceAdjusted, Fe!Move
  <2>2. CASE Fe!Skipped(model, amount, rate)
    BY <1>5, <2>2, <1>2, <2>1, Dropped DEF Fe!handleMechBalanceAdjusted, Fe!fees
  <2>3. CASE ~Fe!Skipped(model, amount, rate)
    BY <1>4, <1>5, <2>3, <1>1, <1>2, <2>1, AfterBooked DEF Fe!handleMechBalanceAdjusted
  <2>. QED  BY <2>2, <2>3
<1>6. CASE Fe!handleWithdraw(m, model, amount, rate)
  <2>1. PICK back : back = -amount OBVIOUS
  <2>2. back \in Int BY <1>2, <2>1
  <2>3. /\ owed' = [owed EXCEPT ![<<m, model>>] = @ + back]
        /\ UNCHANGED <<feNow, drainTotals>>
    BY <1>6, <2>1 DEF Fe!handleWithdraw, Fe!Move
  <2>4. CASE Fe!Skipped(model, amount, rate)
    <3>1. /\ missed' = [missed EXCEPT ![<<m, model>>] = @ - amount]
          /\ UNCHANGED <<feGlobal, feMech, mechModel, dailyTotals, feMechDaily, transaction>>
      BY <1>6, <2>4 DEF Fe!handleWithdraw, Fe!fees
    <3>2. missed[<<m, model>>] - amount = missed[<<m, model>>] + back BY <1>1, <1>3, <2>1
    <3>3. missed' = [missed EXCEPT ![<<m, model>>] = @ + back] BY <3>1, <3>2
    <3>. QED  BY <2>2, <2>3, <3>1, <3>3, Dropped
  <2>5. CASE ~Fe!Skipped(model, amount, rate)
    <3>1. Fe!Withdrawn(m, model, amount, rate) /\ missed' = missed
      BY <1>6, <2>5 DEF Fe!handleWithdraw
    <3>2. CASE model = "nvm" BY <3>1, <3>2, <1>1, <1>2, <2>2, <2>3, AfterBooked DEF Fe!Withdrawn
    <3>3. CASE model # "nvm"
      <4>1. Fe!Booked(m, model, "out", usd, amount) BY <1>4, <3>1, <3>3 DEF Fe!Withdrawn
      <4>2. back = (IF "out" = "in" THEN amount ELSE -amount) BY <2>1
      <4>3. usd \in Nat BY <1>1, <1>4
      <4>. QED  BY <1>1, <1>2, <2>2, <2>3, <3>1, <4>1, <4>2, <4>3, AfterBooked
    <3>. QED  BY <3>2, <3>3
  <2>. QED  BY <2>4, <2>5
<1>. QED  BY <1>5, <1>6

\* Protocol fees are drained.
LEMMA AfterDrained ==
    ASSUME Fe!FeesAssumption, FeInv, NEW model \in FeModels, NEW amount \in FeAmounts,
           NEW rate \in FePrices, Fe!handleDrained(model, amount, rate)
    PROVE  FeInv'
<1>1. PICK usd : usd = Fe!ToUsd(model, amount, rate) OBVIOUS
<1>2. usd \in Nat /\ amount \in Nat BY <1>1, WorthNat
<1>3. PICK sent : sent = [USD |-> usd, Raw |-> amount] OBVIOUS
<1>4. sent.USD = usd /\ sent.Raw = amount /\ DOMAIN sent = {"USD", "Raw"} BY <1>3
<1>5. AllIntegers(sent) BY <1>2, <1>4 DEF AllIntegers
<1>6. /\ UNCHANGED <<feNow, owed, missed, feMech, mechModel, dailyTotals, feMechDaily, transaction>>
      /\ drainTotals' = Fe!AddTo(drainTotals, model, Fe!SumFields, sent)
      /\ feGlobal' = Fe!Add(Fe!Add(feGlobal, [totalDrainedFeesUSD |-> usd]),
                            Fe!Burned(model, usd, amount))
  BY <1>1, <1>3 DEF Fe!handleDrained, Fe!fees
<1>7. /\ CountersTyped(drainTotals, FeUnits) /\ DOMAIN feGlobal = FeGlobals
      /\ \A c \in FeGlobals : feGlobal[c] \in Int
  BY DEF FeInv, FeBooks, FeTyped
<1>8. Level(drainTotals', drainTotals, model, FeUnits, sent)
  BY <1>6, FeAddTo, <1>7, <1>5, LevelAdded DEF Fe!SumFields, FeUnits
<1>9. PICK drain : drain = [totalDrainedFeesUSD |-> usd] OBVIOUS
<1>10. PICK between : between = Fe!Add(feGlobal, drain) OBVIOUS
<1>11. PICK burn : burn = Fe!Burned(model, usd, amount) OBVIOUS
<1>12. DOMAIN drain = {"totalDrainedFeesUSD"} /\ drain.totalDrainedFeesUSD = usd BY <1>9
<1>13. /\ DOMAIN between = FeGlobals
       /\ \A c \in FeGlobals :
             between[c] = feGlobal[c] + (IF c = "totalDrainedFeesUSD" THEN usd ELSE 0)
  BY <1>7, <1>10, <1>12 DEF Fe!Add
<1>14. /\ DOMAIN burn = {"totalOlasBurnedRaw", "totalOlasBurnedUSD"}
       /\ burn.totalOlasBurnedRaw = (IF model = "token-olas" THEN amount ELSE 0)
       /\ burn.totalOlasBurnedUSD = (IF model = "token-olas" THEN usd ELSE 0)
  <2>1. CASE model = "token-olas" BY <1>11, <2>1 DEF Fe!Burned
  <2>2. CASE model # "token-olas" BY <1>11, <2>2 DEF Fe!Burned
  <2>. QED  BY <2>1, <2>2
<1>15. feGlobal' = Fe!Add(between, burn) BY <1>6, <1>9, <1>10, <1>11
<1>16. /\ DOMAIN feGlobal' = FeGlobals
       /\ feGlobal'.totalDrainedFeesUSD = feGlobal.totalDrainedFeesUSD + usd
       /\ feGlobal'.totalOlasBurnedRaw
             = feGlobal.totalOlasBurnedRaw + (IF model = "token-olas" THEN amount ELSE 0)
       /\ feGlobal'.totalOlasBurnedUSD
             = feGlobal.totalOlasBurnedUSD + (IF model = "token-olas" THEN usd ELSE 0)
       /\ feGlobal'.totalFeesInUSD = feGlobal.totalFeesInUSD
       /\ feGlobal'.totalFeesOutUSD = feGlobal.totalFeesOutUSD
  BY <1>7, <1>13, <1>14, <1>15 DEF Fe!Add, FeGlobals
<1>17. DrainedShown' BY <1>4, <1>8, <1>16 DEF Level, FeUnits, FeInv, FeBooks, DrainedShown
<1>18. FeesShown' BY <1>6, <1>16 DEF FeInv, FeBooks, FeesShown
<1>19. FeTyped' BY <1>8, <1>2, <1>7, <1>16, <1>6 DEF Level, FeGlobals, FeInv, FeBooks, FeTyped
<1>20. \A m \in FeMechs, c \in FeFields : MechShown(m, c)'
  BY <1>6 DEF FeInv, FeBooks, MechShown, RowOf
<1>21. Owes' BY <1>6 DEF FeInv, Owes, RowOf
<1>. QED  BY <1>17, <1>18, <1>19, <1>20, <1>21 DEF FeInv, FeBooks

\* Every step keeps the invariant.
LEMMA FeKept == ASSUME Fe!FeesAssumption, FeInv, [Fe!Next]_(Fe!vars) PROVE FeInv'
<1>1. CASE UNCHANGED Fe!vars \/ Fe!Tick \/ Fe!handleWithdrawToBurner
  <2>1. /\ UNCHANGED <<owed, missed, feGlobal, feMech, mechModel, dailyTotals, feMechDaily,
                       drainTotals, transaction>>
        /\ feNow' \in Nat
    BY <1>1 DEF Fe!vars, Fe!chain, Fe!fees, Fe!Tick, Fe!handleWithdrawToBurner, FeInv, FeBooks, FeTyped
  <2>2. FeBooks'
    BY <2>1 DEF FeInv, FeBooks, FeTyped, MechShown, FeesShown, DrainedShown, RowOf
  <2>3. Owes' BY <2>1 DEF FeInv, Owes, RowOf
  <2>. QED  BY <2>2, <2>3 DEF FeInv
<1>. QED  BY <1>1, AfterFee, AfterDrained DEF Fe!Next, Fe!Models, FeModels

\* It holds before the first log.
LEMMA FeInitInv == ASSUME Fe!FeesAssumption, Fe!Init PROVE FeInv
<1>1. /\ feNow = 0 /\ owed = [x \in FeMechs \X FeModels |-> 0] /\ missed = owed
      /\ feGlobal = [x \in FeGlobals |-> 0]
      /\ DOMAIN feMech = {} /\ DOMAIN mechModel = {} /\ DOMAIN dailyTotals = {}
      /\ DOMAIN feMechDaily = {} /\ DOMAIN transaction = {} /\ DOMAIN drainTotals = {}
  BY DEF Fe!Init, Fe!NoRows, Fe!Zeros, Fe!GlobalFields, FeGlobals, Fe!Models, FeModels
<1>2. /\ CountersTyped(feMech, FeFields) /\ CountersTyped(mechModel, FeFields)
      /\ CountersTyped(feMechDaily, FeFields) /\ CountersTyped(transaction, FeUnits)
      /\ CountersTyped(dailyTotals, FeDirections) /\ CountersTyped(drainTotals, FeUnits)
  BY <1>1, TotalNone
<1>3. FeTyped BY <1>1, <1>2 DEF FeTyped
<1>4. ASSUME NEW m \in FeMechs, NEW c \in FeFields PROVE MechShown(m, c)
  BY <1>1, KeptNone DEF MechShown, RowOf
<1>5. FeesShown BY <1>1, TotalNone DEF FeesShown, FeGlobals
<1>6. DrainedShown BY <1>1, TotalNone DEF DrainedShown, RowOf, FeGlobals
<1>7. Owes BY <1>1 DEF Owes, RowOf
<1>. QED  BY <1>3, <1>4, <1>5, <1>6, <1>7 DEF FeInv, FeBooks

\* The rows of the mechs and their models, days and transactions agree.
LEMMA FeMechsShown == ASSUME FeInv PROVE Fe!MechTotalsAgree
<1>. SUFFICES ASSUME NEW m \in DOMAIN feMech, NEW c \in Fe!FeeFields
              PROVE  LET ofMech(k) == k[1] = m
                         type == IF c \in {"inUSD", "inRaw"} THEN "in" ELSE "out"
                         unit == IF c \in {"inUSD", "outUSD"} THEN "USD" ELSE "Raw"
                         ofType(k) == k[1] = m /\ k[3] = type
                     IN  /\ feMech[m][c] = Fe!FeesOf(mechModel, ofMech, c)
                         /\ feMech[m][c] = Fe!FeesOf(feMechDaily, ofMech, c)
                         /\ feMech[m][c] = Fe!FeesOf(transaction, ofType, unit)
  BY DEF Fe!MechTotalsAgree
<1>1. /\ m \in FeMechs /\ c \in FeFields
      /\ DOMAIN mechModel \subseteq FeMechs \X FeModels /\ DOMAIN feMechDaily \subseteq FeMechs \X Nat
      /\ DOMAIN transaction \subseteq FeMechs \X FeModels \X FeDirections \X Nat
  BY DEF FeInv, FeBooks, FeTyped, Fe!FeeFields, FeFields
<1>2. MechShown(m, c) /\ RowOf(feMech, m, c) = feMech[m][c]
  BY <1>1 DEF FeInv, FeBooks, RowOf
<1>3. LET ofMech(k) == k[1] = m IN feMech[m][c] = Fe!FeesOf(mechModel, ofMech, c)
  BY <1>1, FeSum, <1>2 DEF ModelsOf, KeptSum, MechShown, Fe!FeesOf, Fe!SumOver
<1>4. LET ofMech(k) == k[1] = m IN feMech[m][c] = Fe!FeesOf(feMechDaily, ofMech, c)
  BY <1>1, FeSum, <1>2 DEF FeDaysOf, KeptSum, MechShown, Fe!FeesOf, Fe!SumOver
<1>5. LET type == IF c \in {"inUSD", "inRaw"} THEN "in" ELSE "out"
          unit == IF c \in {"inUSD", "outUSD"} THEN "USD" ELSE "Raw"
          ofType(k) == k[1] = m /\ k[3] = type
      IN  feMech[m][c] = Fe!FeesOf(transaction, ofType, unit)
  BY <1>1, FeSum, <1>2 DEF SentOf, KeptSum, MechShown, Fe!FeesOf, Fe!SumOver, TypeOf, UnitOf
<1>. QED  BY <1>3, <1>4, <1>5

\* And so do the marketplace's.
LEMMA FeGlobalShown == ASSUME FeInv PROVE Fe!GlobalTotalsAgree
<1>1. FeesShown /\ DrainedShown BY DEF FeInv, FeBooks
<1>2. PICK olas : olas = Fe!LoadOr(drainTotals, "token-olas", Fe!Zeros(Fe!SumFields)) OBVIOUS
<1>3. olas.Raw = RowOf(drainTotals, "token-olas", "Raw") /\ olas.USD = RowOf(drainTotals, "token-olas", "USD")
  BY <1>2 DEF Fe!LoadOr, Fe!Zeros, Fe!SumFields, RowOf
<1>4. feGlobal.totalOlasBurnedRaw = olas.Raw /\ feGlobal.totalOlasBurnedUSD = olas.USD
  BY <1>1, <1>3 DEF DrainedShown
<1>. QED  BY <1>1, <1>2, <1>4, FeTotal DEF FeesShown, DrainedShown, Fe!GlobalTotalsAgree

\* A mech's balance on a tracker is what its row says.
LEMMA FeOwedShown == ASSUME FeInv PROVE Fe!EarningsCoverPayouts
<1>1. ASSUME NEW x \in DOMAIN mechModel, x[2] # "nvm"
      PROVE  mechModel[x].inRaw - mechModel[x].outRaw + missed[x] = owed[x]
  BY <1>1 DEF FeInv, FeBooks, FeTyped, Owes, RowOf
<1>. QED  BY <1>1 DEF Fe!EarningsCoverPayouts

\* For any mechs, amounts, prices, scales of the NVM credits and length of a day, and whether or
\* not the native token is a USD: what a mech earned and collected is the same in its row, its
\* models, its days and its transactions, the marketplace's totals are those of the mechs, of the
\* days and of the drains, and a mech earned less what it collected is what its tracker owes it,
\* up to what was dropped without a price.
THEOREM MechFeesAlwaysAddUp ==
    ASSUME Fe!FeesAssumption PROVE Fe!Spec => [](Fe!MechFeesAddUp /\ Fe!EarningsCoverPayouts)
<1>1. Fe!Init => FeInv BY FeInitInv
<1>2. FeInv /\ [Fe!Next]_(Fe!vars) => FeInv' BY FeKept
<1>3. FeInv => Fe!MechFeesAddUp /\ Fe!EarningsCoverPayouts
  BY FeMechsShown, FeGlobalShown, FeOwedShown DEF Fe!MechFeesAddUp
<1>. QED  BY <1>1, <1>2, <1>3, PTL DEF Fe!Spec
=============================================================================
