------------------------------- MODULE Staking -------------------------------
(***************************************************************************)
(* The staking subgraph (subgraphs/staking): the handlers of the staking   *)
(* factory and of the staking proxies, folded over the events the chain    *)
(* can emit.  The chain is external: epoch counters, who is staked where,  *)
(* accrued rewards and the block day.  The store is the state the handlers *)
(* build from the events, and what the GraphQL consumers read.             *)
(***************************************************************************)
EXTENDS Store, Functions, FiniteSetsExt

CONSTANTS
    Services,       \* service ids
    Contracts,      \* staking proxies the factory can create
    Allowed,        \* those whose implementation isAllowedImplementation accepts
    StakeOf,        \* contract -> minStakingDeposit * (numAgentInstances + 1)
    RewardAmounts,  \* what one service can earn at one checkpoint
    MaxEpoch,       \* bound: checkpoints stop when the epoch counter gets here
    MaxDay,         \* bound: the last day the chain reaches
    MaxStaked,      \* bound: no stake that would take the running total above it
    None            \* no staking contract (null)

ASSUME ServicesAssumption == IsFiniteSet(Services)
ASSUME NoneAssumption == None \notin Contracts
ASSUME AllowedAssumption == Allowed \subseteq Contracts
ASSUME StakeAssumption == StakeOf \in [Contracts -> Nat]
ASSUME RewardAssumption == RewardAmounts \subseteq Nat \ {0}

VARIABLES
    \* The chain (external).
    instances,      \* contracts the factory has created
    epoch,          \* contract -> epoch counter of the proxy
    stakedIn,       \* service -> contract that holds its NFT, or None
    pending,        \* service -> rewards accrued and not yet paid out
    day,            \* block.timestamp in days, never 0
    \* The store.
    stakingContract, \* ids of StakingContract rows; their templates are live
    service,         \* service id -> Service row
    history,         \* <<service, contract, epoch>> -> ServiceRewardsHistory row
    active,          \* <<contract, epoch>> -> activeServiceIds of ActiveServiceEpoch
    global,          \* the Global row
    snapshot,        \* day -> CumulativeDailyStakingGlobal row
    rewardUpdate     \* type -> sum of the RewardUpdate rows of that type

chain == <<instances, epoch, stakedIn, pending, day>>
store == <<stakingContract, service, history, active, global, snapshot, rewardUpdate>>
vars == <<chain, store>>

-----------------------------------------------------------------------------
(* Rows. *)

ServiceRow == [currentOlasStaked : Int, olasRewardsEarned : Nat,
               olasRewardsClaimed : Nat, totalEpochsParticipated : Nat,
               latestStakingContract : Contracts \cup {None}]

GlobalFields == {"cumulativeOlasStaked", "cumulativeOlasUnstaked",
                 "currentOlasStaked", "totalRewards", "lastActiveDayTimestamp"}

IsGlobalRow(g) ==
    /\ g = [f \in GlobalFields |-> g[f]]
    /\ g.cumulativeOlasStaked \in Nat /\ g.cumulativeOlasUnstaked \in Nat
    /\ g.currentOlasStaked \in Int /\ g.lastActiveDayTimestamp \in Nat

HistoryRow == [rewardAmount : Nat, checkpointed : BOOLEAN]

NewService == [currentOlasStaked |-> 0, olasRewardsEarned |-> 0,
               olasRewardsClaimed |-> 0, totalEpochsParticipated |-> 0,
               latestStakingContract |-> None]

NewHistory == [rewardAmount |-> 0, checkpointed |-> FALSE]

\* The stake a service locks in contract c: zero while no StakingContract row
\* has been created for it.
getOlasForStaking(c) == IF c \in stakingContract THEN StakeOf[c] ELSE 0

\* Seeded fault: the id of a history row without its epoch.
HistoryIdNoEpoch(s, c) == <<s, c, 0>>

historyId(s, c) == <<s, c, epoch[c]>>

\* Seeded fault: the bump is saved over by an older copy of the Service row.
ParticipationLost(row, key) == row

\* totalEpochsParticipated is bumped exactly when the history row is created.
Participation(row, key) ==
    [row EXCEPT !.totalEpochsParticipated = IF key \in DOMAIN history THEN @ ELSE @ + 1]

\* Seeded fault: the latest contract is only set on the first stake.
StakedRowKeepsFirst(row, c, olas) == [row EXCEPT !.currentOlasStaked = @ + olas]

StakedRow(row, c, olas) ==
    [row EXCEPT !.currentOlasStaked = @ + olas, !.latestStakingContract = c]

\* Seeded fault: the row still points at the contract the service left.
UnstakedRowStays(row, olas, reward) ==
    [row EXCEPT !.olasRewardsClaimed = @ + reward, !.currentOlasStaked = @ - olas]

UnstakedRow(row, olas, reward) ==
    [row EXCEPT !.latestStakingContract = None,
                !.olasRewardsClaimed = @ + reward,
                !.currentOlasStaked = @ - olas]

GlobalUnstake(g, olas) ==
    [g EXCEPT !.cumulativeOlasUnstaked = @ + olas, !.currentOlasStaked = @ - olas]

-----------------------------------------------------------------------------
(* The daily snapshot. *)

\* The k-th smallest value of f, counting repetitions (the sorted array's
\* element k - 1).
KthSmallest(f, k) ==
    CHOOSE v \in Range(f) :
        /\ Cardinality({x \in DOMAIN f : f[x] < v}) < k
        /\ Cardinality({x \in DOMAIN f : f[x] <= v}) >= k

\* Seeded fault: the first element of the sorted array instead of the middle.
ComputeFirst(f) == IF f = NoRows THEN 0 ELSE KthSmallest(f, 1)

\* Middle element, or the truncated mean of the two middle ones; 0 when there
\* is no service.
computeMedianOfAllServices(f) ==
    LET n == Cardinality(DOMAIN f) IN
    IF n = 0 THEN 0
    ELSE IF n % 2 = 1 THEN KthSmallest(f, n \div 2 + 1)
    ELSE (KthSmallest(f, n \div 2) + KthSmallest(f, n \div 2 + 1)) \div 2

\* The snapshot of the day, rebuilt from the Service rows after the checkpoint:
\* every field is overwritten, so the forward-filled values of a new row never
\* survive.
SnapshotRow(svc, total) ==
    [totalRewards |-> total,
     numServices |-> Cardinality(DOMAIN svc),
     medianCumulativeRewards |->
        computeMedianOfAllServices([s \in DOMAIN svc |-> svc[s].olasRewardsEarned])]

\* Seeded fault: the Global copy loaded before the rewards were added is saved.
GlobalAfterStale(g, total) == [g EXCEPT !.lastActiveDayTimestamp = day]

GlobalAfter(g, total) == [g EXCEPT !.totalRewards = total,
                                   !.lastActiveDayTimestamp = day]

upsertCumulativeDailyStakingGlobal(svc, total) ==
    /\ snapshot' = Put(snapshot, day, SnapshotRow(svc, total))
    /\ global' = GlobalAfter(global, total)

-----------------------------------------------------------------------------
(* The chain's clock. *)

AdvanceDay ==
    /\ day < MaxDay
    /\ day' = day + 1
    /\ UNCHANGED <<instances, epoch, stakedIn, pending, store>>

(* Factory. *)

\* The factory creates c; only an allow-listed implementation gets a
\* StakingContract row and a live template.
handleInstanceCreated(c) ==
    /\ c \notin instances
    /\ instances' = instances \cup {c}
    /\ stakingContract' = IF c \in Allowed THEN stakingContract \cup {c}
                                           ELSE stakingContract
    /\ UNCHANGED <<epoch, stakedIn, pending, day, service, history, active,
                   global, snapshot, rewardUpdate>>

\* A service enters or leaves a proxy without a template: no handler runs.
UnindexedStake(s, c) ==
    /\ c \in instances \ stakingContract
    /\ \/ stakedIn[s] = None /\ stakedIn' = [stakedIn EXCEPT ![s] = c]
       \/ stakedIn[s] = c /\ stakedIn' = [stakedIn EXCEPT ![s] = None]
    /\ UNCHANGED <<instances, epoch, pending, day, store>>

-----------------------------------------------------------------------------
(* Proxy handlers. *)

handleServiceStaked(s, c) ==
    LET key == historyId(s, c)
        slot == <<c, epoch[c]>>
        olasForStaking == getOlasForStaking(c)
    IN
    /\ c \in stakingContract /\ stakedIn[s] = None
    /\ global.cumulativeOlasStaked + olasForStaking <= MaxStaked
    /\ stakedIn' = [stakedIn EXCEPT ![s] = c]
    /\ service' = Put(service, s,
            Participation(StakedRow(LoadOr(service, s, NewService), c, olasForStaking), key))
    /\ active' = Put(active, slot, LoadOr(active, slot, {}) \cup {s})
    /\ history' = Put(history, key, LoadOr(history, key, NewHistory))
    /\ global' = [global EXCEPT !.cumulativeOlasStaked = @ + olasForStaking,
                                !.currentOlasStaked = @ + olasForStaking]
    /\ UNCHANGED <<instances, epoch, pending, day, stakingContract, snapshot,
                   rewardUpdate>>

\* Seeded faults of the zero-reward pass: it does not run, or it
\* ignores migrations.
ZeroRewardedNone(c, rewarded) == {}
ZeroRewardedMigrated(c, rewarded) == LoadOr(active, <<c, epoch[c]>>, {}) \ rewarded

\* Active services of the epoch that got no reward and have not moved to
\* another contract: they get a zero-reward entry.
ZeroRewarded(c, rewarded) ==
    {s \in LoadOr(active, <<c, epoch[c]>>, {}) \ rewarded :
        s \in DOMAIN service => service[s].latestStakingContract \in {None, c}}

\* Seeded fault: nobody is carried into the next epoch.
RollOverNone(c) == active

\* The tracker of the next epoch: the active services merged into whoever is
\* already there.  Without a tracker for this epoch nothing is rolled over.
RollOver(c) ==
    LET now == <<c, epoch[c]>>
        next == <<c, epoch[c] + 1>>
    IN IF now \in DOMAIN active
       THEN Put(active, next, LoadOr(active, next, {}) \cup active[now])
       ELSE active

\* The two passes over the services: rewarded first, zero-reward second.
CheckpointHistory(c, reward, zero) ==
    LET rewardKeys == {historyId(s, c) : s \in DOMAIN reward}
        zeroKeys == {historyId(s, c) : s \in zero}
    IN [k \in DOMAIN history \cup rewardKeys \cup zeroKeys |->
          IF k \in zeroKeys THEN [rewardAmount |-> 0, checkpointed |-> TRUE]
          ELSE IF k \in rewardKeys THEN [rewardAmount |-> reward[k[1]], checkpointed |-> TRUE]
          ELSE history[k]]

CheckpointServices(c, reward, zero) ==
    [s \in DOMAIN service |->
       LET earned == IF s \in DOMAIN reward
                     THEN [service[s] EXCEPT !.olasRewardsEarned = @ + reward[s]]
                     ELSE service[s]
       IN IF s \in DOMAIN reward \cup zero
          THEN Participation(earned, historyId(s, c)) ELSE earned]

\* reward: the rewarded services (a subset of those staked in c) and amounts.
handleCheckpoint(c, reward) ==
    LET zero == ZeroRewarded(c, DOMAIN reward)
        totalRewards == SumFunction(reward)
        svc == CheckpointServices(c, reward, zero)
    IN
    /\ c \in stakingContract /\ epoch[c] < MaxEpoch
    /\ epoch' = [epoch EXCEPT ![c] = @ + 1]
    /\ pending' = [s \in Services |->
                     IF s \in DOMAIN reward THEN pending[s] + reward[s] ELSE pending[s]]
    /\ service' = svc
    /\ history' = CheckpointHistory(c, reward, zero)
    /\ active' = RollOver(c)
    /\ upsertCumulativeDailyStakingGlobal(svc, global.totalRewards + totalRewards)
    /\ rewardUpdate' = [rewardUpdate EXCEPT !["Claimable"] = @ + totalRewards]
    /\ UNCHANGED <<instances, stakedIn, day, stakingContract>>

\* Only services staked in c can be rewarded by c.
Rewards(c) == UNION {[S -> RewardAmounts] : S \in SUBSET {s \in Services : stakedIn[s] = c}}

handleRewardClaimed(s, c) ==
    /\ c \in stakingContract /\ stakedIn[s] = c /\ pending[s] > 0
    /\ pending' = [pending EXCEPT ![s] = 0]
    /\ service' = IF s \in DOMAIN service
                  THEN [service EXCEPT ![s].olasRewardsClaimed = @ + pending[s]]
                  ELSE service
    /\ rewardUpdate' = [rewardUpdate EXCEPT !["Claimed"] = @ + pending[s]]
    /\ UNCHANGED <<instances, epoch, stakedIn, day, stakingContract, history, active,
                   global, snapshot>>

\* Shared by both unstake events; the tracker of the epoch keeps the service.
processUnstake(s, c, reward) ==
    LET key == historyId(s, c)
        olasForStaking == getOlasForStaking(c)
    IN
    /\ service' = IF s \in DOMAIN service
                  THEN [service EXCEPT ![s] =
                          Participation(UnstakedRow(@, olasForStaking, reward), key)]
                  ELSE service
    /\ history' = Put(history, key,
                      [LoadOr(history, key, NewHistory) EXCEPT !.rewardAmount = reward])
    /\ global' = GlobalUnstake(global, olasForStaking)
    /\ UNCHANGED <<stakingContract, active, snapshot>>

\* The service leaves c and its accrued reward is settled by the event.
Leaves(s, c) ==
    /\ c \in stakingContract /\ stakedIn[s] = c
    /\ stakedIn' = [stakedIn EXCEPT ![s] = None]
    /\ pending' = [pending EXCEPT ![s] = 0]
    /\ UNCHANGED <<instances, epoch, day>>

handleServiceUnstaked(s, c) ==
    /\ Leaves(s, c)
    /\ processUnstake(s, c, pending[s])
    /\ rewardUpdate' = [rewardUpdate EXCEPT !["Claimed"] = @ + pending[s]]

\* Same, without a RewardUpdate row.
handleServiceForceUnstaked(s, c) ==
    /\ Leaves(s, c)
    /\ processUnstake(s, c, pending[s])
    /\ UNCHANGED rewardUpdate

-----------------------------------------------------------------------------
Init ==
    /\ instances = {}
    /\ epoch = [c \in Contracts |-> 0]
    /\ stakedIn = [s \in Services |-> None]
    /\ pending = [s \in Services |-> 0]
    /\ day = 1
    /\ stakingContract = {}
    /\ service = NoRows
    /\ history = NoRows
    /\ active = NoRows
    /\ global = [cumulativeOlasStaked |-> 0, cumulativeOlasUnstaked |-> 0,
                 currentOlasStaked |-> 0, totalRewards |-> 0,
                 lastActiveDayTimestamp |-> 0]
    /\ snapshot = NoRows
    /\ rewardUpdate = [Claimable |-> 0, Claimed |-> 0]

Next ==
    \/ AdvanceDay
    \/ \E c \in Contracts :
        \/ handleInstanceCreated(c)
        \/ \E reward \in Rewards(c) : handleCheckpoint(c, reward)
        \/ \E s \in Services :
            \/ UnindexedStake(s, c)
            \/ handleServiceStaked(s, c)
            \/ handleRewardClaimed(s, c)
            \/ handleServiceUnstaked(s, c)
            \/ handleServiceForceUnstaked(s, c)

Spec == Init /\ [][Next]_vars

-----------------------------------------------------------------------------
(* Properties. *)

\* Rows, trackers and totals have their types.
TypeOK ==
    /\ instances \subseteq Contracts /\ stakingContract \subseteq Contracts
    /\ epoch \in [Contracts -> Nat] /\ day \in Nat
    /\ stakedIn \in [Services -> Contracts \cup {None}]
    /\ pending \in [Services -> Nat]
    /\ PartialFn(service, Services, ServiceRow)
    /\ PartialFn(history, Services \X Contracts \X Nat, HistoryRow)
    /\ PartialFn(active, Contracts \X Nat, SUBSET Services)
    /\ IsGlobalRow(global)

\* A Service row always tells where the service is staked among the indexed
\* contracts and exactly that contract's stake, after any number of restakes
\* and migrations (handleServiceStaked and processUnstake add and remove the
\* stake of the contract that fired the event).
StakeMirrorsChain ==
    \A s \in Services :
        LET at == IF stakedIn[s] \in stakingContract THEN stakedIn[s] ELSE None IN
        IF s \in DOMAIN service
        THEN /\ service[s].latestStakingContract = at
             /\ service[s].currentOlasStaked = (IF at = None THEN 0 ELSE StakeOf[at])
        ELSE at = None

\* The Global row is the sum of the Service rows, its current stake is the
\* difference of its two running totals, and the ecosystem's reward total, the
\* Claimable updates and the services' earnings agree although three code paths
\* of handleCheckpoint add to them: no handler updates one side only.
GlobalIsSumOfServices ==
    /\ global.currentOlasStaked =
         SumFunction([s \in DOMAIN service |-> service[s].currentOlasStaked])
    /\ global.currentOlasStaked =
         global.cumulativeOlasStaked - global.cumulativeOlasUnstaked
    /\ global.totalRewards = rewardUpdate["Claimable"]
    /\ global.totalRewards =
         SumFunction([s \in DOMAIN service |-> service[s].olasRewardsEarned])

\* Everything a service earned at checkpoints was either claimed (by a claim
\* or an unstake) or is still owed to it by the contract.
RewardsAccounted ==
    \A s \in Services :
        LET row == LoadOr(service, s, NewService)
        IN row.olasRewardsEarned = row.olasRewardsClaimed + pending[s]

\* The tracker of the running epoch holds every service staked in the contract,
\* so the next checkpoint cannot miss one that earned nothing.
ActiveCoversStaked ==
    \A s \in Services :
        stakedIn[s] \in stakingContract =>
            LET slot == <<stakedIn[s], epoch[stakedIn[s]]>>
            IN slot \in DOMAIN active /\ s \in active[slot]

\* A service's history adds up to its row: totalEpochsParticipated counts its
\* history rows (every row bumps it once, and no save of a stale Service row
\* loses a bump), and the settled ones add up to what it earned.
HistoryAddsUp ==
    \A s \in DOMAIN service :
        LET mine == {k \in DOMAIN history : k[1] = s}
        IN /\ service[s].totalEpochsParticipated = Cardinality(mine)
           /\ service[s].olasRewardsEarned =
                SumFunction([k \in {h \in mine : history[h].checkpointed}
                               |-> history[k].rewardAmount])

\* The truncated mean of the lower and the upper median: the smallest value
\* that half of the elements do not exceed, the largest that half reach.
MedianOf(f) ==
    LET n == Cardinality(DOMAIN f)
        atMost(v) == Cardinality({x \in DOMAIN f : f[x] <= v})
        atLeast(v) == Cardinality({x \in DOMAIN f : f[x] >= v})
    IN (Min({v \in Range(f) : 2 * atMost(v) >= n})
        + Max({v \in Range(f) : 2 * atLeast(v) >= n})) \div 2

\* The snapshot of the last active day carries the current ecosystem total and
\* the median of the services it counts, and later days never show less than
\* earlier ones.
SnapshotsAgree ==
    LET last == global.lastActiveDayTimestamp
        earned == [s \in DOMAIN service |-> service[s].olasRewardsEarned]
    IN /\ last # 0 =>
            /\ last \in DOMAIN snapshot
            /\ snapshot[last].totalRewards = global.totalRewards
            /\ earned # NoRows /\ snapshot[last].numServices = Cardinality(DOMAIN service) =>
                  snapshot[last].medianCumulativeRewards = MedianOf(earned)
       /\ \A d, e \in DOMAIN snapshot :
            /\ d <= last
            /\ d <= e => /\ snapshot[d].totalRewards <= snapshot[e].totalRewards
                         /\ snapshot[d].numServices <= snapshot[e].numServices

\* The global totals are the sums over the services, and a day's snapshot shows them.
TotalsAgree == GlobalIsSumOfServices /\ SnapshotsAgree

\* A history row settled by a checkpoint never changes again, whatever stakes,
\* unstakes and checkpoints follow.
SettledRowsFrozen ==
    [][\A k \in DOMAIN history :
         history[k].checkpointed => /\ k \in DOMAIN history'
                                    /\ history'[k] = history[k]]_vars

\* A checkpoint settles the epoch of every service staked in the contract,
\* rewarded or not.
CheckpointSettlesAll ==
    [][\A c \in stakingContract : epoch'[c] # epoch[c] =>
         \A s \in Services : stakedIn[s] = c =>
            LET k == <<s, c, epoch[c]>>
            IN k \in DOMAIN history' /\ history'[k].checkpointed]_vars

\* A contract writes no new history row for a service that has migrated to
\* another indexed contract.
MigratedGetsNoRow ==
    [][\A k \in DOMAIN history' \ DOMAIN history :
         stakedIn'[k[1]] \in stakingContract => stakedIn'[k[1]] = k[2]]_vars

\* utils.ts:284 "Close the history for this epoch": the reward written by an
\* unstake stays in the row.
ClosedHistoryKept ==
    [][\A k \in DOMAIN history :
         history[k].rewardAmount > 0 =>
            history'[k].rewardAmount = history[k].rewardAmount]_vars

\* A service can only be staked in a contract that exists, and rows exist only
\* for contracts of an allow-listed implementation that exist.
Placement ==
    /\ stakingContract = instances \cap Allowed
    /\ \A s \in Services : stakedIn[s] \in instances \cup {None}

\* Settled rows belong to finished epochs: no event can be about them any more.
SettledInPast ==
    \A k \in DOMAIN history : history[k].checkpointed => k[3] < epoch[k[2]]

\* Every service that a history row or a tracker names has a Service row.
RowsKnown ==
    /\ IsFiniteSet(DOMAIN history)
    /\ \A k \in DOMAIN history : k[1] \in DOMAIN service
    /\ \A slot \in DOMAIN active : active[slot] \subseteq DOMAIN service

\* Snapshots are of days that have come, count services that still have rows, and
\* hold, like the running totals, no negative amount.
SnapshotsInPast ==
    LET last == global.lastActiveDayTimestamp IN
    /\ day # 0 /\ last <= day
    /\ global.totalRewards \in Nat
    /\ rewardUpdate = [x \in {"Claimable", "Claimed"} |-> rewardUpdate[x]]
    /\ \A d \in DOMAIN snapshot : /\ d \in Nat \ {0}
                                 /\ snapshot[d].totalRewards \in Nat
                                 /\ snapshot[d].numServices \in Nat
    /\ last # 0 => /\ last \in DOMAIN snapshot
                   /\ snapshot[last].numServices <= Cardinality(DOMAIN service)

\* The inductive invariant of the proofs: every conjunct needs the others to be
\* kept by some handler.
IInv == /\ TypeOK
        /\ Placement
        /\ StakeMirrorsChain
        /\ RewardsAccounted
        /\ ActiveCoversStaked
        /\ SettledInPast
        /\ RowsKnown
        /\ SnapshotsInPast

\* The Service rows implement the abstract ledger of stakes and rewards.
HomeOf == [s \in Services |-> LoadOr(service, s, NewService).latestStakingContract]
EarnedOf == [s \in Services |-> LoadOr(service, s, NewService).olasRewardsEarned]
ClaimedOf == [s \in Services |-> LoadOr(service, s, NewService).olasRewardsClaimed]

Ledger == INSTANCE StakingLedger WITH
    home <- HomeOf, earned <- EarnedOf, claimed <- ClaimedOf

\* Every step of the subgraph is a step of the ledger or leaves it alone.
LedgerSpec == Ledger!Spec
=============================================================================
