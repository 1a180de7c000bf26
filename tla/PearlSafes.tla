----------------------------- MODULE PearlSafes -----------------------------
(***************************************************************************)
(* The structural half of the pearl-transactions subgraph: which addresses *)
(* are Master Safes, Agent Safes, operators and staking proxies, and which *)
(* service belongs to whom.  Every later classification of a transfer      *)
(* reads these tables, and most of them are write-once.                    *)
(*                                                                         *)
(* The chain is external: the service registry's NFT and multisigs, the    *)
(* Safes' owner lists and the staking proxies.  A chain action emits its   *)
(* logs in order: the first is handled in the same step, the one that      *)
(* follows in the same transaction is left in `due`.  Owner changes leave  *)
(* their logs in ownerLog, where the eth_call getOwners() of an earlier    *)
(* log of the block already sees the new list.                             *)
(***************************************************************************)
EXTENDS Store, SequencesExt

CONSTANTS
    Services, Eoas, Safes, Proxies,
    Indexable,      \* proxies whose implementation is allow-listed and answers the config calls
    Operators,      \* addresses that may register agent instances
    PreExisting,    \* services minted before the registry's start block
    RewardAmounts,  \* what a claim or an unstake can pay
    InitialOwners,  \* Safe -> its owner list when first deployed
    MaxPaid,        \* bound: total rewards paid per service
    MaxDay,         \* bound: the last day
    MaxOwnerLogs,   \* bound: owner changes of the whole run
    None

Holders == Eoas \cup Safes
Addresses == Holders \cup Proxies

ASSUME PearlNone == None \notin Addresses
ASSUME PearlKinds == /\ Safes \cap Eoas = {} /\ Proxies \cap Holders = {}
                     /\ Indexable \subseteq Proxies /\ Operators \subseteq Holders
ASSUME PearlOwners == InitialOwners \in [Safes -> Seq(Eoas) \ {<<>>}]   \* a Safe has an owner
ASSUME PearlDistinct == \A m \in Safes : IsInjective(InitialOwners[m])  \* and no owner twice
ASSUME PearlAmounts == RewardAmounts \subseteq Nat /\ MaxDay \in Nat

VARIABLES
    \* The chain (external).
    created,        \* staking proxies that exist
    nft,            \* service -> holder of its NFT, None before the mint
    stakedBy,       \* service -> who staked it (receives the NFT back), or None
    multisig,       \* service -> its Safe while deployed, or None
    owners,         \* Safe -> what getOwners() returns
    changes,        \* owner changes so far
    day,
    opsEmitted,     \* service -> operators of all RegisterInstance logs so far
    paid,           \* service -> OLAS rewards paid out so far
    \* Logs of the current transaction or block that are still to be handled.
    due, ownerLog,
    \* The store.
    stakingContract, masterSafe, agentSafe, service, pendingRegistration,
    serviceIndex, tracked, templates, daily

chain == <<created, nft, stakedBy, multisig, owners, changes, day, opsEmitted, paid>>
logs == <<due, ownerLog>>
store == <<stakingContract, masterSafe, agentSafe, service, pendingRegistration,
           serviceIndex, tracked, templates, daily>>
vars == <<chain, logs, store>>

-----------------------------------------------------------------------------
\* No log of the transaction is left.
NoLog == [kind |-> "none"]

(* Rows. *)

Roles == {"MASTER", "AGENT", "MASTER_EOA", "AGENT_EOA", "STAKING"}
TrackedRow == [role : Roles, masterSafe : Safes \cup {None}, service : Services \cup {None}]
MasterRow == [owners : Seq(Eoas), masterEoa : Eoas]
AgentRow == [service : Services, masterSafe : Safes \cup {None}]
States == {"REGISTERED", "DEPLOYED", "STAKED", "UNSTAKED", "TERMINATED"}
ServiceRow == [masterSafe : Safes \cup {None}, agentSafe : Safes \cup {None},
               operators : SUBSET Operators, state : States,
               nftCustodian : Addresses \cup {None},
               currentStakingContract : Proxies \cup {None},
               totalOlasRewardsClaimed : Nat]
DailyRow == [olasRewardsClaimed : Nat, cumulativeOlasRewardsClaimed : Nat]

NewService == [masterSafe |-> None, agentSafe |-> None, operators |-> {},
               state |-> "REGISTERED", nftCustodian |-> None,
               currentStakingContract |-> None, totalOlasRewardsClaimed |-> 0]

getOrCreateService(s) == LoadOr(service, s, NewService)

\* Seeded fault: a later sighting overwrites the role.
TrackOverwrites(tr, a, role, master, s) ==
    Put(tr, a, [role |-> role, masterSafe |-> master, service |-> s])

\* Write-once: the first role of an address is its role for good.
upsertTrackedAddress(tr, a, role, master, s) ==
    IF a \in DOMAIN tr THEN tr
    ELSE Put(tr, a, [role |-> role, masterSafe |-> master, service |-> s])

\* The Safe template is spawned once per address, whichever of the two Safe
\* entities comes first.
SpawnTemplate(a, known) == IF known THEN templates ELSE [templates EXCEPT ![a] = @ + 1]

-----------------------------------------------------------------------------
(* getOrCreateMasterSafe and getOrCreateAgentSafe, table by table. *)

\* getOwners() answers with at least one owner.
AnswersGetOwners(a) == a \in Safes /\ owners[a] # <<>>

NewMaster(a) == a \notin DOMAIN masterSafe /\ AnswersGetOwners(a)

\* The Master Safe the call resolves to, or None.
MasterOf(a) == IF a \in DOMAIN masterSafe \/ AnswersGetOwners(a) THEN a ELSE None

MasterSafeTable(a) ==
    IF NewMaster(a) THEN Put(masterSafe, a, [owners |-> owners[a], masterEoa |-> owners[a][1]])
                    ELSE masterSafe

MasterTracked(a) ==
    IF NewMaster(a)
    THEN LET self == upsertTrackedAddress(tracked, a, "MASTER", a, None)
         IN upsertTrackedAddress(self, owners[a][1], "MASTER_EOA", a, None)
    ELSE tracked

MasterTemplates(a) ==
    IF NewMaster(a) THEN SpawnTemplate(a, a \in DOMAIN agentSafe) ELSE templates

AgentSafeTable(a, s, row) ==
    IF a \in DOMAIN agentSafe THEN agentSafe
    ELSE Put(agentSafe, a, [service |-> s, masterSafe |-> row.masterSafe])

\* Seeded fault: masterless services claim addresses, and the Master Safe that
\* operates its own service is claimed as an agent's EOA.
AgentTrackedUnguarded(tr, a, s, row) ==
    [x \in DOMAIN tr \cup {a} \cup row.operators |->
        IF x \in DOMAIN tr THEN tr[x]
        ELSE [role |-> IF x = a THEN "AGENT" ELSE "AGENT_EOA",
              masterSafe |-> row.masterSafe, service |-> s]]

\* Only a service with a Master Safe claims addresses: its Agent Safe, then the
\* operators known so far, never the Master Safe itself.
AgentTracked(tr, a, s, row) ==
    IF a \in DOMAIN agentSafe \/ row.masterSafe = None THEN tr
    ELSE LET self == upsertTrackedAddress(tr, a, "AGENT", row.masterSafe, s)
             claimed == row.operators \ (DOMAIN self \cup {row.masterSafe})
         IN [x \in DOMAIN self \cup claimed |->
               IF x \in claimed
               THEN [role |-> "AGENT_EOA", masterSafe |-> row.masterSafe, service |-> s]
               ELSE self[x]]

AgentTemplates(tpl, masters, a) ==
    IF a \in DOMAIN agentSafe \cup DOMAIN masters THEN tpl ELSE [tpl EXCEPT ![a] = @ + 1]

-----------------------------------------------------------------------------
(* Service registry. *)

\* Seeded faults: no getOwners() probe; the first link is kept for good.
LinkUnprobed(row, to) ==
    [row EXCEPT !.nftCustodian = to, !.masterSafe = IF to \in stakingContract THEN @ ELSE to]
LinkFirst(row, to) ==
    [row EXCEPT !.nftCustodian = to,
                !.masterSafe = IF @ # None \/ to \in stakingContract THEN @ ELSE MasterOf(to)]

\* The link only changes when the recipient resolves to a Master Safe.
LinkAfterTransfer(row, to) ==
    [row EXCEPT !.nftCustodian = to,
                !.masterSafe = IF to \in stakingContract \/ MasterOf(to) = None
                               THEN @ ELSE MasterOf(to)]

handleServiceNftTransfer(s, to) ==
    /\ service' = Put(service, s, LinkAfterTransfer(getOrCreateService(s), to))
    /\ IF to \in stakingContract
       THEN UNCHANGED <<masterSafe, tracked, templates>>
       ELSE /\ masterSafe' = MasterSafeTable(to)
            /\ tracked' = MasterTracked(to)
            /\ templates' = MasterTemplates(to)
    /\ UNCHANGED <<stakingContract, agentSafe, pendingRegistration, serviceIndex, daily>>

\* The NFT is minted to, or moves between, holders.
TransferNft(s, to) ==
    /\ due = NoLog /\ nft[s] \notin Proxies /\ nft[s] # to
    /\ nft' = [nft EXCEPT ![s] = to]
    /\ handleServiceNftTransfer(s, to)
    /\ UNCHANGED <<created, stakedBy, multisig, owners, changes, day, opsEmitted, paid, logs>>

\* Seeded fault: the buffer is overwritten by the last registration.
BufferLast(s, op) == Put(pendingRegistration, s, {op})

\* Buffered while the service has no row, appended to the row otherwise.
bufferPendingRegistration(s, op) ==
    Put(pendingRegistration, s, LoadOr(pendingRegistration, s, {}) \cup {op})

handleRegisterInstance(s, op) ==
    /\ due = NoLog /\ nft[s] \in Holders /\ multisig[s] = None
    /\ opsEmitted' = [opsEmitted EXCEPT ![s] = @ \cup {op}]
    /\ IF s \in DOMAIN service
       THEN /\ service' = [service EXCEPT ![s].operators = @ \cup {op}]
            /\ UNCHANGED pendingRegistration
       ELSE /\ pendingRegistration' = bufferPendingRegistration(s, op)
            /\ UNCHANGED service
    /\ UNCHANGED <<created, nft, stakedBy, multisig, owners, changes, day, paid, logs,
                   stakingContract, masterSafe, agentSafe, serviceIndex, tracked,
                   templates, daily>>

\* drainPendingRegistration merges the buffer into the row; it stays buffered.
Deployed(s) ==
    [getOrCreateService(s) EXCEPT !.state = "DEPLOYED",
                                  !.operators = @ \cup LoadOr(pendingRegistration, s, {})]

handleCreateMultisigWithAgents(s, m) ==
    LET row == Deployed(s) IN
    /\ due = NoLog /\ nft[s] \in Holders /\ multisig[s] = None /\ opsEmitted[s] # {}
    /\ multisig' = [multisig EXCEPT ![s] = m]
    /\ service' = Put(service, s, [row EXCEPT !.agentSafe = m])
    /\ agentSafe' = AgentSafeTable(m, s, row)
    /\ tracked' = AgentTracked(tracked, m, s, row)
    /\ templates' = AgentTemplates(templates, masterSafe, m)
    /\ serviceIndex' = Put(serviceIndex, s, m)
    /\ UNCHANGED <<created, nft, stakedBy, owners, changes, day, opsEmitted, paid, logs,
                   stakingContract, masterSafe, pendingRegistration, daily>>

\* The service is undeployed; its operators unbond before it is deployed again.
handleTerminateService(s) ==
    /\ due = NoLog /\ nft[s] \in Holders /\ multisig[s] # None
    /\ multisig' = [multisig EXCEPT ![s] = None]
    /\ service' = Put(service, s, [getOrCreateService(s) EXCEPT !.state = "TERMINATED"])
    /\ UNCHANGED <<created, nft, stakedBy, owners, changes, day, opsEmitted, paid, logs,
                   stakingContract, masterSafe, agentSafe, pendingRegistration,
                   serviceIndex, tracked, templates, daily>>

-----------------------------------------------------------------------------
(* Staking factory and proxies. *)

handleInstanceCreated(p) ==
    /\ due = NoLog /\ p \notin created
    /\ created' = created \cup {p}
    /\ IF p \in Indexable
       THEN /\ stakingContract' = stakingContract \cup {p}
            /\ tracked' = upsertTrackedAddress(tracked, p, "STAKING", None, None)
       ELSE UNCHANGED <<stakingContract, tracked>>
    /\ UNCHANGED <<nft, stakedBy, multisig, owners, changes, day, opsEmitted, paid, logs,
                   masterSafe, agentSafe, service, pendingRegistration, serviceIndex,
                   templates, daily>>

\* stake(): the NFT log first, then the ServiceStaked log of an indexed proxy.
Stake(s, p) ==
    /\ due = NoLog /\ nft[s] \in Holders /\ multisig[s] # None /\ p \in created
    /\ nft' = [nft EXCEPT ![s] = p]
    /\ stakedBy' = [stakedBy EXCEPT ![s] = nft[s]]
    /\ handleServiceNftTransfer(s, p)
    /\ due' = IF p \in stakingContract
              THEN [kind |-> "staked", service |-> s, owner |-> nft[s], proxy |-> p] ELSE NoLog
    /\ UNCHANGED <<created, multisig, owners, changes, day, opsEmitted, paid, ownerLog>>

\* The canonical discovery path: the owner, then the multisig.
handleServiceStaked ==
    LET s == due.service
        owner == due.owner
        m == multisig[s]
        linked == [getOrCreateService(s) EXCEPT
                     !.state = "STAKED", !.currentStakingContract = due.proxy,
                     !.masterSafe = IF MasterOf(owner) = None THEN @ ELSE owner]
        masters == MasterSafeTable(owner)
    IN
    /\ due.kind = "staked"
    /\ masterSafe' = masters
    /\ agentSafe' = AgentSafeTable(m, s, linked)
    /\ tracked' = AgentTracked(MasterTracked(owner), m, s, linked)
    /\ templates' = AgentTemplates(MasterTemplates(owner), masters, m)
    /\ service' = Put(service, s, [linked EXCEPT !.agentSafe = m])
    /\ due' = NoLog
    /\ UNCHANGED <<chain, ownerLog, stakingContract, pendingRegistration, serviceIndex, daily>>

\* Seeded fault: the day's bucket starts its cumulative value at the day's claim.
DailyRowFresh(s, amount) ==
    LET old == LoadOr(daily, <<s, day>>, [olasRewardsClaimed |-> 0,
                                          cumulativeOlasRewardsClaimed |-> 0])
    IN [olasRewardsClaimed |-> old.olasRewardsClaimed + amount,
        cumulativeOlasRewardsClaimed |-> old.cumulativeOlasRewardsClaimed + amount]

\* The bucket of the day, with the service's running total.
DailyRowAfter(s, amount) ==
    LET old == LoadOr(daily, <<s, day>>, [olasRewardsClaimed |-> 0,
                                          cumulativeOlasRewardsClaimed |-> 0])
    IN [olasRewardsClaimed |-> old.olasRewardsClaimed + amount,
        cumulativeOlasRewardsClaimed |->
            getOrCreateService(s).totalOlasRewardsClaimed + amount]

addDailyOlasReward(s, amount) == daily' = Put(daily, <<s, day>>, DailyRowAfter(s, amount))

handleRewardClaimed(s, amount) ==
    /\ due = NoLog /\ nft[s] \in stakingContract /\ paid[s] + amount <= MaxPaid
    /\ paid' = [paid EXCEPT ![s] = @ + amount]
    /\ addDailyOlasReward(s, amount)
    /\ service' = Put(service, s, [getOrCreateService(s) EXCEPT
                                     !.totalOlasRewardsClaimed = @ + amount])
    /\ UNCHANGED <<created, nft, stakedBy, multisig, owners, changes, day, opsEmitted, logs,
                   stakingContract, masterSafe, agentSafe, pendingRegistration,
                   serviceIndex, tracked, templates>>

\* unstake(): the NFT goes back to who staked it, then the ServiceUnstaked (or
\* ServiceForceUnstaked) log of an indexed proxy.
Unstake(s, amount) ==
    /\ due = NoLog /\ nft[s] \in Proxies /\ paid[s] + amount <= MaxPaid
    /\ nft' = [nft EXCEPT ![s] = stakedBy[s]]
    /\ stakedBy' = [stakedBy EXCEPT ![s] = None]
    /\ handleServiceNftTransfer(s, stakedBy[s])
    /\ due' = IF nft[s] \in stakingContract
              THEN [kind |-> "unstaked", service |-> s, reward |-> amount] ELSE NoLog
    /\ UNCHANGED <<created, multisig, owners, changes, day, opsEmitted, paid, ownerLog>>

Unstaked(row, amount) ==
    [row EXCEPT !.state = "UNSTAKED", !.currentStakingContract = None,
                !.totalOlasRewardsClaimed = @ + amount]

handleAnyUnstake ==
    LET s == due.service
        amount == due.reward
    IN
    /\ due.kind = "unstaked"
    /\ paid' = [paid EXCEPT ![s] = @ + amount]
    /\ IF amount > 0 THEN addDailyOlasReward(s, amount) ELSE UNCHANGED daily
    /\ service' = Put(service, s, Unstaked(getOrCreateService(s), amount))
    /\ due' = NoLog
    /\ UNCHANGED <<created, nft, stakedBy, multisig, owners, changes, day, opsEmitted,
                   ownerLog, stakingContract, masterSafe, agentSafe, pendingRegistration,
                   serviceIndex, tracked, templates>>

-----------------------------------------------------------------------------
(* Owner lists.  New owners are put in front of the list, as the Safe does. *)

\* The filter's loop: what it has kept after i owners.
Without(list, o) ==
    LET kept[i \in 0 .. Len(list)] ==
            IF i = 0 THEN <<>>
            ELSE IF list[i] = o THEN kept[i - 1] ELSE Append(kept[i - 1], list[i])
    IN  kept[Len(list)]

ChangeOwners(m, list, events) ==
    /\ due = NoLog /\ changes < MaxOwnerLogs
    /\ changes' = changes + 1
    /\ owners' = [owners EXCEPT ![m] = list]
    /\ ownerLog' = ownerLog \o events
    /\ UNCHANGED <<created, nft, stakedBy, multisig, day, opsEmitted, paid, due, store>>

AddOwner(m, o) ==
    /\ o \notin Range(owners[m])
    /\ ChangeOwners(m, <<o>> \o owners[m], <<[safe |-> m, kind |-> "added", owner |-> o]>>)

\* A Safe never loses its last owner by removal.
RemoveOwner(m, o) ==
    /\ Len(owners[m]) > 1
    /\ \E i \in DOMAIN owners[m] :
          /\ owners[m][i] = o
          /\ ChangeOwners(m, RemoveAt(owners[m], i),
                          <<[safe |-> m, kind |-> "removed", owner |-> o]>>)

\* swapOwner keeps the place of the old owner and logs the removal first.
SwapOwner(m, o, new) ==
    /\ o \in Range(owners[m]) /\ new \notin Range(owners[m])
    /\ ChangeOwners(m, [i \in DOMAIN owners[m] |-> IF owners[m][i] = o THEN new ELSE owners[m][i]],
                    <<[safe |-> m, kind |-> "removed", owner |-> o],
                      [safe |-> m, kind |-> "added", owner |-> new]>>)

\* Seeded fault: no deduplication against what getOwners() already returned.
AddedOwnerTwice(row, o) == [row EXCEPT !.owners = Append(@, o)]

AddedOwner(row, o) ==
    IF o \in Range(row.owners) THEN row ELSE [row EXCEPT !.owners = Append(@, o)]

RemovedOwner(row, o) ==
    LET filtered == Without(row.owners, o) IN
    [row EXCEPT !.owners = filtered,
                !.masterEoa = IF filtered # <<>> /\ @ = o THEN filtered[1] ELSE @]

\* The Safe template delivers owner logs of spawned Safes; only Master Safes
\* keep an owner list.
handleSafeOwnerChange ==
    LET log == Head(ownerLog)
        m == log.safe
    IN
    /\ ownerLog # <<>>
    /\ ownerLog' = Tail(ownerLog)
    /\ masterSafe' = IF m \notin DOMAIN masterSafe \/ templates[m] = 0 THEN masterSafe
                     ELSE [masterSafe EXCEPT ![m] = IF log.kind = "added"
                                                    THEN AddedOwner(@, log.owner)
                                                    ELSE RemovedOwner(@, log.owner)]
    /\ UNCHANGED <<chain, due, stakingContract, agentSafe, service, pendingRegistration,
                   serviceIndex, tracked, templates, daily>>

AdvanceDay ==
    /\ logs = <<NoLog, <<>>>> /\ day < MaxDay /\ day' = day + 1
    /\ UNCHANGED <<created, nft, stakedBy, multisig, owners, changes, opsEmitted, paid,
                   logs, store>>

-----------------------------------------------------------------------------
Init ==
    /\ created = {} /\ changes = 0 /\ day = 0
    /\ nft \in {f \in [Services -> Holders \cup {None}] :
                  \A s \in Services : (f[s] = None) = (s \notin PreExisting)}
    /\ stakedBy = [s \in Services |-> None]
    /\ multisig = [s \in Services |-> None]
    /\ owners = InitialOwners
    /\ opsEmitted = [s \in Services |-> {}]
    /\ paid = [s \in Services |-> 0]
    /\ due = NoLog /\ ownerLog = <<>>
    /\ stakingContract = {} /\ masterSafe = NoRows /\ agentSafe = NoRows
    /\ service = NoRows /\ pendingRegistration = NoRows /\ serviceIndex = NoRows
    /\ tracked = NoRows /\ daily = NoRows
    /\ templates = [a \in Safes |-> 0]

Next ==
    \/ AdvanceDay
    \/ handleServiceStaked
    \/ handleAnyUnstake
    \/ handleSafeOwnerChange
    \/ \E p \in Proxies : handleInstanceCreated(p)
    \/ \E s \in Services :
        \/ \E to \in Holders : TransferNft(s, to)
        \/ \E op \in Operators : handleRegisterInstance(s, op)
        \/ \E m \in Safes : handleCreateMultisigWithAgents(s, m)
        \/ handleTerminateService(s)
        \/ \E p \in Proxies : Stake(s, p)
        \/ \E amount \in RewardAmounts : handleRewardClaimed(s, amount)
        \/ \E amount \in RewardAmounts \cup {0} : Unstake(s, amount)
    \/ \E m \in Safes, o \in Eoas :
        \/ AddOwner(m, o)
        \/ RemoveOwner(m, o)
        \/ \E new \in Eoas : SwapOwner(m, o, new)

Spec == Init /\ [][Next]_vars

-----------------------------------------------------------------------------
(* Properties. *)

\* Types of the store's tables (schema.graphql, structural entities).
TypeOK ==
    /\ stakingContract \subseteq Proxies
    /\ PartialFn(masterSafe, Safes, MasterRow)
    /\ PartialFn(agentSafe, Safes, AgentRow)
    /\ PartialFn(service, Services, ServiceRow)
    /\ PartialFn(pendingRegistration, Services, SUBSET Operators)
    /\ PartialFn(serviceIndex, Services, Safes)
    /\ PartialFn(tracked, Addresses, TrackedRow)
    /\ PartialFn(daily, Services \X (0 .. MaxDay), DailyRow)
    /\ PartialFn(templates, Safes, Nat)

\* What an address is tracked as is decided once: the table is immutable
\* (utils.ts 636-662, schema.graphql TrackedAddress).
TrackedStay == \A a \in DOMAIN tracked : a \in DOMAIN tracked' /\ tracked'[a] = tracked[a]

RolesFrozen == [][TrackedStay]_vars

\* A tracked address leads to the rows that the classification follows from it.
Leads(a, row) ==
    \/ row.role = "STAKING" /\ a \in stakingContract
    \/ row.role = "MASTER" /\ a \in DOMAIN masterSafe /\ row.masterSafe = a
    \/ row.role = "MASTER_EOA" /\ row.masterSafe \in DOMAIN masterSafe
    \/ /\ row.role = "AGENT" /\ a \in DOMAIN agentSafe /\ row.masterSafe \in DOMAIN masterSafe
       /\ agentSafe[a] = [service |-> row.service, masterSafe |-> row.masterSafe]
    \/ /\ row.role = "AGENT_EOA" /\ row.masterSafe \in DOMAIN masterSafe \ {a}
       /\ row.service \in DOMAIN service /\ a \in service[row.service].operators

\* The table of tracked addresses and the entities agree.  Every tracked row
\* leads to the rows the transfer classification follows from it, a service
\* without a Master Safe claims no address, and a Master Safe is never tracked
\* as the operator of its own service (utils.ts 279-286); and every Master
\* Safe, every Agent Safe that knows its Master Safe and every staking proxy is
\* tracked, so no transfer of theirs is dropped.  A Safe has one template
\* instance as soon as it has a MasterSafe or an AgentSafe row, whichever came
\* first: a second one would process its logs twice (utils.ts 191-197).
TrackedComplete ==
    /\ \A a \in DOMAIN templates :
        templates[a] = IF a \in DOMAIN masterSafe \cup DOMAIN agentSafe THEN 1 ELSE 0
    /\ \A a \in DOMAIN tracked : Leads(a, tracked[a])
    /\ DOMAIN masterSafe \cup stakingContract \subseteq DOMAIN tracked
    /\ \A a \in DOMAIN agentSafe : agentSafe[a].masterSafe # None => a \in DOMAIN tracked

\* The service row follows the chain: the custodian is the NFT's holder, the
\* Agent Safe is the multisig of the deployment, also through the reverse
\* index, and a service is staked in an indexed proxy exactly when the proxy
\* holds its NFT.  Its Master Safe is the Safe that holds the NFT or staked it
\* in such a proxy.  Between the logs of a stake or an unstake the row lags.
ServiceMirrorsChain ==
    \A s \in DOMAIN service :
        LET row == service[s] IN
        /\ row.nftCustodian # None => row.nftCustodian = nft[s]
        /\ multisig[s] # None => row.agentSafe = multisig[s] /\ serviceIndex[s] = multisig[s]
        /\ due = NoLog =>
            /\ \A p \in stakingContract : row.currentStakingContract = p <=> nft[s] = p
            /\ row.state = "STAKED" <=> row.currentStakingContract # None
            /\ nft[s] \in stakingContract /\ stakedBy[s] \in Safes => row.masterSafe = stakedBy[s]
        /\ row.nftCustodian \in Safes => row.masterSafe = nft[s]

\* No registration is lost, whichever of the service's first NFT log, its
\* RegisterInstance logs and its deployment comes first.
OperatorsComplete ==
    \A s \in DOMAIN opsEmitted :
        LET row == getOrCreateService(s) IN
        /\ row.operators \cup LoadOr(pendingRegistration, s, {}) = opsEmitted[s]
        /\ s \in DOMAIN serviceIndex => row.operators = opsEmitted[s]

\* The tables of Safes, services and tracked addresses are complete and mirror
\* the chain, in any order of the logs that fill them.
TablesMirrorChain == TrackedComplete /\ ServiceMirrorsChain /\ OperatorsComplete

\* Per service the day buckets add up to the total, which is what the chain
\* paid, and a bucket's cumulative value is the sum of the buckets up to it.
DailyAddsUp ==
    \A s \in DOMAIN service :
        LET days == {d \in 0 .. MaxDay : <<s, d>> \in DOMAIN daily}
            ClaimedUpTo(d) == SumFunction([e \in {e \in days : e <= d}
                                             |-> daily[<<s, e>>].olasRewardsClaimed])
        IN /\ service[s].totalOlasRewardsClaimed = paid[s]
           /\ ClaimedUpTo(MaxDay) = paid[s]
           /\ \A d \in days : daily[<<s, d>>].cumulativeOlasRewardsClaimed = ClaimedUpTo(d)

\* Once the logs are handled a Master Safe's owner list holds the owners of
\* the Safe, each once, even when getOwners() ran between two owner logs.
OwnersMirrored ==
    \A m \in DOMAIN masterSafe :
        /\ IsInjective(masterSafe[m].owners)
        /\ ownerLog = <<>> => Range(masterSafe[m].owners) = Range(owners[m])

\* Rows have their types; a Master Safe's owner list is the Safe's once its logs are
\* handled, and rewards add up per day, in total and to what the proxies paid
\* (schema.graphql, safe.ts, staking-proxy.ts).
RowsSound == TypeOK /\ OwnersMirrored /\ DailyAddsUp
=============================================================================
