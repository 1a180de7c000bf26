-------------------------- MODULE PearlSafesProofs --------------------------
(***************************************************************************)
(* pearl-transactions, for any services, Safes, operators and proxies: the *)
(* tables of Safes and tracked addresses are complete and write-once, the  *)
(* Service rows mirror the chain, the Master Safes' owner lists follow the *)
(* Safes' owners in any order of the logs, and rewards add up.             *)
(***************************************************************************)
EXTENDS PearlSafes, StoreTheorems, SequenceTheorems

ServiceFields == {"masterSafe", "agentSafe", "operators", "state", "nftCustodian",
                  "currentStakingContract", "totalOlasRewardsClaimed"}

-----------------------------------------------------------------------------
(* The chain, and what the rows have to be for a handler to read them. *)

Chain ==
    /\ created \subseteq Proxies
    /\ nft \in [Services -> Addresses \cup {None}]
    /\ stakedBy \in [Services -> Holders \cup {None}]
    /\ multisig \in [Services -> Safes \cup {None}]
    /\ owners \in [Safes -> Seq(Eoas) \ {<<>>}]
    /\ opsEmitted \in [Services -> SUBSET Operators]
    /\ \A s \in Services : nft[s] \in Proxies => nft[s] \in created /\ stakedBy[s] \in Holders

\* A staked or deployed service has its row.
Known ==
    \A s \in Services : /\ nft[s] \in Proxies => s \in DOMAIN service
                        /\ multisig[s] # None => s \in DOMAIN service \cap DOMAIN serviceIndex

Rows ==
    /\ stakingContract = created \cap Indexable
    /\ DOMAIN masterSafe \subseteq Safes /\ DOMAIN agentSafe \subseteq Safes
    /\ templates \in [Safes -> Nat]
    /\ DOMAIN serviceIndex \subseteq DOMAIN service /\ DOMAIN service \subseteq Services
    /\ \A s \in DOMAIN service :
          /\ DOMAIN service[s] = ServiceFields
          /\ service[s].masterSafe \in DOMAIN masterSafe \cup {None}
          /\ service[s].currentStakingContract \in stakingContract \cup {None}

\* The log still to be handled tells of the stake or the unstake under way.
DueStake ==
    /\ due = [kind |-> "staked", service |-> due.service, owner |-> due.owner, proxy |-> due.proxy]
    /\ due.proxy \in stakingContract
    /\ due.service \in Services /\ nft[due.service] = due.proxy
    /\ due.owner = stakedBy[due.service] /\ multisig[due.service] \in Safes

DueUnstake ==
    /\ due = [kind |-> "unstaked", service |-> due.service, reward |-> due.reward]
    /\ due.service \in DOMAIN service /\ nft[due.service] \in Holders

Due == due = NoLog \/ DueStake \/ DueUnstake

\* The rows that do not lag behind the chain.
Settled(s) ==
    LET row == service[s] IN
    /\ \A p \in stakingContract : row.currentStakingContract = p <=> nft[s] = p
    /\ row.state = "STAKED" <=> row.currentStakingContract # None
    /\ nft[s] \in stakingContract /\ stakedBy[s] \in Safes => row.masterSafe = stakedBy[s]

Mirror(s) ==
    LET row == service[s] IN
    /\ row.nftCustodian # None => row.nftCustodian = nft[s]
    /\ multisig[s] # None => row.agentSafe = multisig[s] /\ serviceIndex[s] = multisig[s]
    /\ due = NoLog \/ due.service # s => Settled(s)
    /\ row.nftCustodian \in Safes => row.masterSafe = nft[s]

Mirrored == \A s \in DOMAIN service : Mirror(s)

IInv == Chain /\ Known /\ Rows /\ Due /\ Mirrored /\ TrackedComplete /\ OperatorsComplete

Assumptions == PearlNone /\ PearlKinds /\ PearlOwners

\* The invariant says what the run checks.
LEMMA Implies == ASSUME IInv PROVE TablesMirrorChain
<1>2. ServiceMirrorsChain
  BY DEF IInv, Mirrored, Mirror, Settled, ServiceMirrorsChain
<1>. QED  BY <1>2 DEF IInv, TablesMirrorChain

LEMMA InitIInv == ASSUME Init PROVE IInv
<1>. USE PearlNone, PearlKinds, PearlOwners
<1>1. Chain
  BY DEF Init, Chain, Addresses, Holders
<1>2. Known /\ Rows /\ Due /\ Mirrored
  BY DEF Init, Known, Rows, Due, Mirrored, NoRows, Addresses, Holders
<1>3. TrackedComplete
  BY DEF Init, TrackedComplete, NoRows
<1>4. OperatorsComplete
  BY DEF Init, OperatorsComplete, getOrCreateService, NewService, LoadOr, NoRows
<1>. QED  BY <1>1, <1>2, <1>3, <1>4 DEF IInv

-----------------------------------------------------------------------------
(* The tables, one helper at a time. *)

\* Every row of f is a row of g.
Keeps(f, g) == \A a \in DOMAIN f : a \in DOMAIN g /\ g[a] = f[a]

\* What a Master Safe's first sighting adds to the tracked addresses: itself
\* and its first owner.
LEMMA MasterTrackedAdds ==
    ASSUME NEW a
    PROVE  LET next == MasterTracked(a)
           IN  /\ Keeps(tracked, next)
               /\ NewMaster(a) => a \in DOMAIN next
               /\ \A x \in DOMAIN next \ DOMAIN tracked :
                     /\ NewMaster(a) /\ next[x].masterSafe = a
                     /\ \/ x = a /\ next[x].role = "MASTER"
                        \/ next[x].role = "MASTER_EOA"
<1>1. CASE ~ NewMaster(a)
  BY <1>1 DEF MasterTracked, Keeps
<1>2. CASE NewMaster(a)
  <2>. DEFINE self == upsertTrackedAddress(tracked, a, "MASTER", a, None)
              next == upsertTrackedAddress(self, owners[a][1], "MASTER_EOA", a, None)
  <2>3. MasterTracked(a) = next
    BY <1>2 DEF MasterTracked
  <2>1. /\ Keeps(tracked, self) /\ DOMAIN self = DOMAIN tracked \cup {a}
        /\ a \notin DOMAIN tracked =>
              self[a] = [role |-> "MASTER", masterSafe |-> a, service |-> None]
    BY DEF upsertTrackedAddress, Put, Keeps
  <2>. HIDE DEF self
  <2>2. /\ Keeps(self, next) /\ DOMAIN next = DOMAIN self \cup {owners[a][1]}
        /\ owners[a][1] \notin DOMAIN self =>
              next[owners[a][1]] = [role |-> "MASTER_EOA", masterSafe |-> a, service |-> None]
    BY DEF upsertTrackedAddress, Put, Keeps
  <2>. HIDE DEF next
  <2>4. a \in DOMAIN next /\ Keeps(tracked, next)
    BY <2>1, <2>2 DEF Keeps
  <2>5. ASSUME NEW x \in DOMAIN next \ DOMAIN tracked
        PROVE  /\ next[x].masterSafe = a
               /\ \/ x = a /\ next[x].role = "MASTER"
                  \/ next[x].role = "MASTER_EOA"
    <3>1. CASE x = a
      BY <2>1, <2>2, <3>1 DEF Keeps
    <3>2. CASE x # a
      <4>1. x = owners[a][1] /\ x \notin DOMAIN self BY <2>1, <2>2, <3>2
      <4>. QED  BY <2>2, <4>1
    <3>. QED  BY <3>1, <3>2
  <2>. QED  BY <1>2, <2>3, <2>4, <2>5
<1>. QED  BY <1>1, <1>2

\* The Master Safe table grows by the Safe asked for, which the call resolves to.
LEMMA MasterTableAdds ==
    ASSUME NEW a
    PROVE  /\ DOMAIN MasterSafeTable(a) = DOMAIN masterSafe \cup {x \in {a} : NewMaster(a)}
           /\ MasterOf(a) # None => a \in DOMAIN MasterSafeTable(a) /\ MasterOf(a) = a
BY DEF MasterSafeTable, MasterOf, NewMaster, Put

\* What a new Agent Safe adds to the tracked addresses.
LEMMA AgentTrackedAdds ==
    ASSUME NEW tr, NEW a, NEW s, NEW row
    PROVE  LET next == AgentTracked(tr, a, s, row)
           IN  /\ Keeps(tr, next)
               /\ a \notin DOMAIN agentSafe /\ row.masterSafe # None => a \in DOMAIN next
               /\ \A x \in DOMAIN next \ DOMAIN tr :
                     /\ a \notin DOMAIN agentSafe /\ row.masterSafe # None
                     /\ next[x].masterSafe = row.masterSafe /\ next[x].service = s
                     /\ \/ x = a /\ next[x].role = "AGENT"
                        \/ /\ next[x].role = "AGENT_EOA" /\ x # row.masterSafe
                           /\ x \in row.operators
<1>1. CASE a \in DOMAIN agentSafe \/ row.masterSafe = None
  BY <1>1 DEF AgentTracked, Keeps
<1>2. CASE ~ (a \in DOMAIN agentSafe \/ row.masterSafe = None)
  <2>. DEFINE self == upsertTrackedAddress(tr, a, "AGENT", row.masterSafe, s)
              claimed == row.operators \ (DOMAIN self \cup {row.masterSafe})
              next == [x \in DOMAIN self \cup claimed |->
                         IF x \in claimed
                         THEN [role |-> "AGENT_EOA", masterSafe |-> row.masterSafe, service |-> s]
                         ELSE self[x]]
  <2>1. /\ Keeps(tr, self) /\ DOMAIN self = DOMAIN tr \cup {a}
        /\ a \notin DOMAIN tr =>
              self[a] = [role |-> "AGENT", masterSafe |-> row.masterSafe, service |-> s]
    BY DEF upsertTrackedAddress, Put, Keeps
  <2>2. AgentTracked(tr, a, s, row) = next
    BY <1>2 DEF AgentTracked
  <2>. HIDE DEF self
  <2>3. Keeps(self, next) /\ DOMAIN next = DOMAIN self \cup claimed
    BY DEF Keeps
  <2>4. \A x \in claimed :
           next[x] = [role |-> "AGENT_EOA", masterSafe |-> row.masterSafe, service |-> s]
    OBVIOUS
  <2>5. \A x \in claimed : x \in row.operators /\ x # row.masterSafe
    OBVIOUS
  <2>. HIDE DEF next, claimed
  <2>6. a \in DOMAIN next /\ Keeps(tr, next)
    BY <2>1, <2>3 DEF Keeps
  <2>7. ASSUME NEW x \in DOMAIN next \ DOMAIN tr
        PROVE  /\ next[x].masterSafe = row.masterSafe /\ next[x].service = s
               /\ \/ x = a /\ next[x].role = "AGENT"
                  \/ /\ next[x].role = "AGENT_EOA" /\ x # row.masterSafe
                     /\ x \in row.operators
    <3>1. CASE x = a
      BY <2>1, <2>3, <3>1 DEF Keeps
    <3>2. CASE x # a
      <4>1. x \in claimed BY <2>1, <2>3, <3>2
      <4>. QED  BY <2>4, <2>5, <4>1
    <3>. QED  BY <3>1, <3>2
  <2>. QED  BY <1>2, <2>2, <2>6, <2>7
<1>. QED  BY <1>1, <1>2

\* A new service's row, and a service's row after its NFT moved.
LEMMA RowFields ==
    ASSUME Rows, NEW s
    PROVE  LET row == getOrCreateService(s)
           IN  /\ DOMAIN row = ServiceFields
               /\ row.masterSafe \in DOMAIN masterSafe \cup {None}
               /\ row.currentStakingContract \in stakingContract \cup {None}
               /\ s \in DOMAIN service => row = service[s]
               /\ s \notin DOMAIN service =>
                     /\ row.operators = {} /\ row.state = "REGISTERED"
                     /\ row.currentStakingContract = None /\ row.nftCustodian = None
BY DEF Rows, getOrCreateService, NewService, LoadOr, ServiceFields

LEMMA LinkKeeps ==
    ASSUME NEW row, DOMAIN row = ServiceFields, NEW to
    PROVE  LET next == LinkAfterTransfer(row, to)
           IN  /\ DOMAIN next = ServiceFields
               /\ next.nftCustodian = to
               /\ next.masterSafe = IF to \in stakingContract \/ MasterOf(to) = None
                                    THEN row.masterSafe ELSE MasterOf(to)
               /\ \A x \in ServiceFields \ {"nftCustodian", "masterSafe"} : next[x] = row[x]
BY DEF LinkAfterTransfer, ServiceFields
\* One template for each Safe with a row.
Counted(tpl, known) ==
    tpl \in [Safes -> Nat] /\ \A x \in Safes : tpl[x] = IF x \in known THEN 1 ELSE 0

LEMMA TemplatesCounted ==
    ASSUME Rows, TrackedComplete
    PROVE  Counted(templates, DOMAIN masterSafe \cup DOMAIN agentSafe)
BY DEF Rows, TrackedComplete, Counted

LEMMA MasterTemplatesCounted ==
    ASSUME Rows, TrackedComplete, NEW a
    PROVE  Counted(MasterTemplates(a), DOMAIN MasterSafeTable(a) \cup DOMAIN agentSafe)
<1>1. Counted(templates, DOMAIN masterSafe \cup DOMAIN agentSafe)
  BY TemplatesCounted
<1>2. DOMAIN MasterSafeTable(a) = DOMAIN masterSafe \cup {x \in {a} : NewMaster(a)}
  BY MasterTableAdds
<1>3. CASE ~ NewMaster(a)
  BY <1>1, <1>2, <1>3 DEF MasterTemplates
<1>4. CASE NewMaster(a)
  <2>1. a \in Safes /\ a \notin DOMAIN masterSafe
    BY <1>4 DEF NewMaster, AnswersGetOwners
  <2>2. MasterTemplates(a) = IF a \in DOMAIN agentSafe THEN templates
                             ELSE [templates EXCEPT ![a] = @ + 1]
    BY <1>4 DEF MasterTemplates, SpawnTemplate
  <2>. QED  BY <1>1, <1>2, <1>4, <2>1, <2>2 DEF Counted
<1>. QED  BY <1>3, <1>4

LEMMA AgentTemplatesCounted ==
    ASSUME NEW tpl, NEW masters, NEW a \in Safes,
           Counted(tpl, DOMAIN masters \cup DOMAIN agentSafe)
    PROVE  Counted(AgentTemplates(tpl, masters, a),
                   DOMAIN masters \cup DOMAIN agentSafe \cup {a})
BY DEF Counted, AgentTemplates

-----------------------------------------------------------------------------
(* What every step does to the tables. *)

\* Rows are added and never taken away.
Grown ==
    /\ Keeps(tracked, tracked') /\ Keeps(agentSafe, agentSafe')
    /\ DOMAIN masterSafe \subseteq DOMAIN masterSafe'
    /\ stakingContract \subseteq stakingContract'
    /\ DOMAIN service \subseteq DOMAIN service'
    /\ \A s \in DOMAIN service : service[s].operators \subseteq service'[s].operators

\* Where a row led, it still leads.
LEMMA StillLeads ==
    ASSUME Grown, NEW a, NEW row, Leads(a, row)
    PROVE  Leads(a, row)'
BY DEF Grown, Keeps, Leads

\* The tracked addresses stay complete if the new ones lead somewhere.
LEMMA StillComplete ==
    ASSUME TrackedComplete, Grown,
           \A x \in DOMAIN tracked' \ DOMAIN tracked : Leads(x, tracked[x])',
           Counted(templates', DOMAIN masterSafe' \cup DOMAIN agentSafe'),
           DOMAIN masterSafe' \cup stakingContract' \subseteq DOMAIN tracked',
           \A a \in DOMAIN agentSafe' \ DOMAIN agentSafe :
              agentSafe'[a].masterSafe # None => a \in DOMAIN tracked'
    PROVE  TrackedComplete'
<1>1. \A a \in DOMAIN tracked' : Leads(a, tracked[a])'
  <2>1. ASSUME NEW a \in DOMAIN tracked PROVE Leads(a, tracked[a])'
    <3>. DEFINE row == tracked[a]
    <3>1. Leads(a, row) BY DEF TrackedComplete
    <3>2. tracked'[a] = row BY DEF Grown, Keeps
    <3>. HIDE DEF row
    <3>3. \A r : Leads(a, r) => Leads(a, r)' BY DEF Grown, Keeps, Leads
    <3>. QED  BY <3>1, <3>2, <3>3 DEF Leads
  <2>. QED  BY <2>1
<1>2. DOMAIN templates' = Safes
  BY DEF Counted
<1>. QED  BY <1>1, <1>2 DEF TrackedComplete, Counted, Grown, Keeps

\* The NFT of a service moves and its first log is handled: what becomes of the tables,
\* and of the row.
LEMMA NftMoves ==
    ASSUME Assumptions, IInv, NEW s \in Services, NEW to \in Addresses,
           handleServiceNftTransfer(s, to), UNCHANGED <<created, opsEmitted>>
    PROVE  /\ Rows' /\ TrackedComplete' /\ OperatorsComplete'
           /\ DOMAIN service' = DOMAIN service \cup {s}
           /\ \A x \in DOMAIN service : x # s => service'[x] = service[x]
           /\ service'[s].nftCustodian = to
           /\ to \in Safes => service'[s].masterSafe = to
           /\ service'[s].agentSafe = getOrCreateService(s).agentSafe
           /\ service'[s].state = getOrCreateService(s).state
           /\ service'[s].currentStakingContract = getOrCreateService(s).currentStakingContract
           /\ UNCHANGED <<stakingContract, serviceIndex>>
<1>. DEFINE old == getOrCreateService(s)  new == LinkAfterTransfer(old, to)
<1>0. Rows /\ TrackedComplete
  BY DEF IInv
<1>1. /\ DOMAIN old = ServiceFields
      /\ old.masterSafe \in DOMAIN masterSafe \cup {None}
      /\ old.currentStakingContract \in stakingContract \cup {None}
      /\ s \in DOMAIN service => old = service[s]
      /\ s \notin DOMAIN service => old.operators = {}
  BY <1>0, RowFields
<1>2. /\ DOMAIN new = ServiceFields /\ new.nftCustodian = to
      /\ new.masterSafe = IF to \in stakingContract \/ MasterOf(to) = None
                          THEN old.masterSafe ELSE MasterOf(to)
      /\ \A x \in ServiceFields \ {"nftCustodian", "masterSafe"} : new[x] = old[x]
  BY <1>1, LinkKeeps
<1>3. /\ DOMAIN service' = DOMAIN service \cup {s}
      /\ \A x \in DOMAIN service : x # s => service'[x] = service[x]
      /\ service'[s] = new
      /\ UNCHANGED <<stakingContract, agentSafe, pendingRegistration, serviceIndex>>
  BY DEF handleServiceNftTransfer, Put
<1>. HIDE DEF new, old
<1>4. to \in stakingContract => ~ NewMaster(to)
  BY <1>0 DEF Rows, NewMaster, AnswersGetOwners, IInv, Chain, Assumptions, PearlKinds, Holders
<1>5. /\ masterSafe' = MasterSafeTable(to) /\ tracked' = MasterTracked(to)
      /\ templates' = MasterTemplates(to)
  <2>1. CASE to \in stakingContract
    BY <1>4, <2>1 DEF handleServiceNftTransfer, MasterSafeTable, MasterTracked, MasterTemplates
  <2>2. CASE to \notin stakingContract
    BY <2>2 DEF handleServiceNftTransfer
  <2>. QED  BY <2>1, <2>2
<1>6. /\ DOMAIN masterSafe' = DOMAIN masterSafe \cup {x \in {to} : NewMaster(to)}
      /\ MasterOf(to) # None => to \in DOMAIN masterSafe' /\ MasterOf(to) = to
  BY <1>5, MasterTableAdds
<1>7. /\ Keeps(tracked, tracked')
      /\ NewMaster(to) => to \in DOMAIN tracked'
      /\ \A x \in DOMAIN tracked' \ DOMAIN tracked :
            /\ NewMaster(to) /\ tracked'[x].masterSafe = to
            /\ (x = to /\ tracked'[x].role = "MASTER") \/ tracked'[x].role = "MASTER_EOA"
  BY <1>5, MasterTrackedAdds
<1>8. Counted(templates', DOMAIN masterSafe' \cup DOMAIN agentSafe')
  BY <1>0, <1>3, <1>5, MasterTemplatesCounted
<1>9. new.operators = old.operators /\ new.currentStakingContract = old.currentStakingContract
  BY <1>2 DEF ServiceFields
<1>10. Grown
  BY <1>1, <1>3, <1>6, <1>7, <1>9 DEF Grown, Keeps
<1>11. TrackedComplete'
  <2>1. \A x \in DOMAIN tracked' \ DOMAIN tracked : Leads(x, tracked[x])'
    BY <1>6, <1>7 DEF Leads
  <2>2. DOMAIN masterSafe' \cup stakingContract' \subseteq DOMAIN tracked'
    BY <1>0, <1>3, <1>6, <1>7 DEF TrackedComplete, Keeps
  <2>. QED  BY <1>0, <1>3, <1>8, <1>10, <2>1, <2>2, StillComplete
<1>12. Rows'
  <2>1. DOMAIN masterSafe' \subseteq Safes
    BY <1>0, <1>6 DEF Rows, NewMaster, AnswersGetOwners
  <2>2. \A x \in DOMAIN service' :
           /\ DOMAIN service'[x] = ServiceFields
           /\ service'[x].masterSafe \in DOMAIN masterSafe' \cup {None}
           /\ service'[x].currentStakingContract \in stakingContract' \cup {None}
    BY <1>0, <1>1, <1>2, <1>3, <1>6, <1>9 DEF Rows
  <2>. QED  BY <1>0, <1>3, <1>8, <2>1, <2>2 DEF Rows, Counted
<1>13. OperatorsComplete'
  <2>1. \A x \in Services : getOrCreateService(x).operators = getOrCreateService(x).operators'
    BY <1>1, <1>3, <1>9 DEF getOrCreateService, LoadOr, NewService
  <2>2. \A x : x \in DOMAIN serviceIndex => x \in DOMAIN service
    BY <1>0 DEF Rows
  <2>. QED  BY <1>3, <2>1 DEF IInv, Chain, OperatorsComplete, LoadOr
<1>14. to \in Safes => new.masterSafe = to
  <2>1. to \in Safes => to \notin stakingContract /\ MasterOf(to) = to /\ to # None
    BY <1>0 DEF IInv, Chain, Rows, Assumptions, PearlNone, PearlKinds, Addresses, Holders,
                MasterOf, AnswersGetOwners
  <2>. QED  BY <1>2, <2>1
<1>15. new.agentSafe = old.agentSafe /\ new.state = old.state
  BY <1>2 DEF ServiceFields
<1>. QED  BY <1>2, <1>3, <1>9, <1>11, <1>12, <1>13, <1>14, <1>15 DEF old

\* An Agent Safe is seen, after the Master Safe of its service if that one is new.
LEMMA AgentSeen ==
    ASSUME IInv, NEW tr, NEW s, NEW m, NEW row,
           Keeps(tracked, tr),
           \A x \in DOMAIN tr \ DOMAIN tracked :
              /\ tr[x].masterSafe \in DOMAIN masterSafe'
              /\ (tr[x].masterSafe = x /\ tr[x].role = "MASTER") \/ tr[x].role = "MASTER_EOA",
           DOMAIN masterSafe \subseteq DOMAIN masterSafe', DOMAIN masterSafe' \subseteq DOMAIN tr,
           agentSafe' = AgentSafeTable(m, s, row), tracked' = AgentTracked(tr, m, s, row),
           Counted(templates', DOMAIN masterSafe' \cup DOMAIN agentSafe'),
           UNCHANGED stakingContract,
           DOMAIN service' = DOMAIN service \cup {s},
           \A x \in DOMAIN service : x # s => service'[x] = service[x],
           s \in DOMAIN service => service[s].operators \subseteq row.operators,
           row.operators \subseteq service'[s].operators,
           row.masterSafe \in DOMAIN masterSafe' \cup {None}
    PROVE  TrackedComplete'
<1>1. /\ Keeps(agentSafe, agentSafe') /\ DOMAIN agentSafe' = DOMAIN agentSafe \cup {m}
      /\ m \notin DOMAIN agentSafe =>
            agentSafe'[m] = [service |-> s, masterSafe |-> row.masterSafe]
  BY DEF AgentSafeTable, Put, Keeps
<1>2. /\ Keeps(tr, tracked')
      /\ m \notin DOMAIN agentSafe /\ row.masterSafe # None => m \in DOMAIN tracked'
      /\ \A x \in DOMAIN tracked' \ DOMAIN tr :
            /\ m \notin DOMAIN agentSafe /\ row.masterSafe # None
            /\ tracked'[x].masterSafe = row.masterSafe /\ tracked'[x].service = s
            /\ \/ x = m /\ tracked'[x].role = "AGENT"
               \/ /\ tracked'[x].role = "AGENT_EOA" /\ x # row.masterSafe
                  /\ x \in row.operators
  BY AgentTrackedAdds
<1>3. Keeps(tracked, tracked')
  BY <1>2 DEF Keeps
<1>4. Grown
  BY <1>1, <1>3 DEF Grown
<1>5. ASSUME NEW x \in DOMAIN tracked' \ DOMAIN tracked PROVE Leads(x, tracked[x])'
  <2>1. CASE x \in DOMAIN tr
    BY <1>2, <2>1 DEF Leads, Keeps
  <2>2. CASE x \notin DOMAIN tr
    <3>1. x = m /\ tracked'[x].role = "AGENT" => Leads(x, tracked[x])'
      BY <1>1, <1>2, <2>2 DEF Leads
    <3>2. /\ tracked'[x].role = "AGENT_EOA" /\ x # row.masterSafe /\ x \in row.operators
          => Leads(x, tracked[x])'
      BY <1>2, <2>2 DEF Leads
    <3>. QED  BY <1>2, <2>2, <3>1, <3>2
  <2>. QED  BY <2>1, <2>2
<1>6. DOMAIN masterSafe' \cup stakingContract' \subseteq DOMAIN tracked'
  BY <1>2, <1>3 DEF Keeps, IInv, TrackedComplete
<1>7. \A a \in DOMAIN agentSafe' \ DOMAIN agentSafe :
         agentSafe'[a].masterSafe # None => a \in DOMAIN tracked'
  BY <1>1, <1>2
<1>. QED  BY <1>4, <1>5, <1>6, <1>7, StillComplete DEF IInv

-----------------------------------------------------------------------------
(* One lemma per step. *)

\* Everything the invariant reads but the owner lists.
seen == <<created, nft, stakedBy, multisig, opsEmitted, due, stakingContract, masterSafe, agentSafe,
          service, pendingRegistration, serviceIndex, tracked, templates>>

\* Steps that only touch what the invariant does not read.
LEMMA Untouched == ASSUME IInv, UNCHANGED <<seen, owners>> PROVE IInv'
BY DEF IInv, seen, Chain, Known, Rows, Due, DueStake, DueUnstake, Mirrored, Mirror, Settled,
       TrackedComplete, Leads, OperatorsComplete, getOrCreateService, LoadOr, NewService

\* The owners of a Safe change: it keeps one.
LEMMA OwnersStep ==
    ASSUME Assumptions, IInv, NEW m \in Safes, NEW o \in Eoas,
           \/ AddOwner(m, o) \/ RemoveOwner(m, o) \/ \E new \in Eoas : SwapOwner(m, o, new)
    PROVE  IInv'
<1>1. owners[m] \in Seq(Eoas) /\ owners[m] # <<>>
  BY DEF IInv, Chain
<1>2. PICK list, events : ChangeOwners(m, list, events) /\ list \in Seq(Eoas) \ {<<>>}
  <2>1. CASE AddOwner(m, o)
    <3>1. <<o>> \o owners[m] \in Seq(Eoas) \ {<<>>} BY <1>1
    <3>. QED  BY <2>1, <3>1 DEF AddOwner
  <2>2. CASE RemoveOwner(m, o)
    <3>1. ASSUME NEW i \in DOMAIN owners[m], Len(owners[m]) > 1
          PROVE  RemoveAt(owners[m], i) \in Seq(Eoas) \ {<<>>}
      <4>. DEFINE before == SubSeq(owners[m], 1, i - 1)
                  after == SubSeq(owners[m], i + 1, Len(owners[m]))
      <4>0. i \in 1 .. Len(owners[m]) /\ Len(owners[m]) \in Nat
        BY <1>1
      <4>1. before \in Seq(Eoas) /\ Len(before) = i - 1
        BY <1>1, <4>0
      <4>2. after \in Seq(Eoas) /\ Len(after) = Len(owners[m]) - i
        BY <1>1, <4>0
      <4>. HIDE DEF before, after
      <4>3. before \o after \in Seq(Eoas) /\ Len(before \o after) > 0
        BY <3>1, <4>0, <4>1, <4>2
      <4>4. before \o after # <<>>
        BY <4>3
      <4>. QED  BY <4>3, <4>4 DEF RemoveAt, before, after
    <3>. QED  BY <2>2, <3>1 DEF RemoveOwner
  <2>3. ASSUME NEW new \in Eoas, SwapOwner(m, o, new)
        PROVE  \E list, events : ChangeOwners(m, list, events) /\ list \in Seq(Eoas) \ {<<>>}
    <3>. DEFINE list == [i \in DOMAIN owners[m] |-> IF owners[m][i] = o THEN new ELSE owners[m][i]]
    <3>1. list \in Seq(Eoas) \ {<<>>} BY <1>1
    <3>. QED  BY <2>3, <3>1 DEF SwapOwner
  <2>. QED  BY <2>1, <2>2, <2>3
<1>3. owners' \in [Safes -> Seq(Eoas) \ {<<>>}] /\ UNCHANGED seen
  BY <1>2 DEF ChangeOwners, store, seen, IInv, Chain
<1>. QED
  BY <1>3 DEF IInv, seen, Chain, Known, Rows, Due, DueStake, DueUnstake, Mirrored, Mirror, Settled,
       TrackedComplete, Leads, OperatorsComplete, getOrCreateService, LoadOr, NewService

\* A log of an owner change writes no other table than the Master Safes' own rows.
LEMMA OwnerLogStep == ASSUME IInv, handleSafeOwnerChange PROVE IInv'
<1>1. DOMAIN masterSafe' = DOMAIN masterSafe
  BY DEF handleSafeOwnerChange
<1>2. UNCHANGED <<created, nft, stakedBy, multisig, opsEmitted, due, stakingContract, agentSafe,
                  service, pendingRegistration, serviceIndex, tracked, templates, owners>>
  BY DEF handleSafeOwnerChange, chain
<1>. QED
  BY <1>1, <1>2 DEF IInv, Chain, Known, Rows, Due, DueStake, DueUnstake, Mirrored, Mirror, Settled,
       TrackedComplete, Leads, OperatorsComplete, getOrCreateService, LoadOr, NewService

\* A staking proxy is new, so no service is in it.
LEMMA InstanceStep ==
    ASSUME Assumptions, IInv, NEW p \in Proxies, handleInstanceCreated(p) PROVE IInv'
<1>1. stakingContract' = created' \cap Indexable /\ created' = created \cup {p} /\ p \notin created
  BY DEF handleInstanceCreated, IInv, Rows
<1>2. UNCHANGED <<nft, stakedBy, multisig, opsEmitted, due, masterSafe, agentSafe,
                  service, pendingRegistration, serviceIndex, templates, owners>>
  BY DEF handleInstanceCreated, logs
<1>3. Keeps(tracked, tracked')
  BY DEF handleInstanceCreated, upsertTrackedAddress, Put, Keeps
<1>4. due = NoLog
  BY DEF handleInstanceCreated
<1>5. Chain' /\ Known' /\ Due'
  BY <1>1, <1>2, <1>4 DEF IInv, Chain, Known, Due
<1>6. Rows'
  BY <1>1, <1>2 DEF IInv, Rows
<1>7. Mirrored'
  BY <1>1, <1>2, <1>4 DEF IInv, Mirrored, Mirror, Settled, Chain, Rows, Assumptions, PearlNone,
                           PearlKinds, Addresses
<1>8. TrackedComplete'
  <2>1. Grown
    BY <1>1, <1>2, <1>3 DEF Grown, Keeps, IInv, Rows
  <2>2. Counted(templates', DOMAIN masterSafe' \cup DOMAIN agentSafe')
    BY <1>2, TemplatesCounted DEF IInv
  <2>3. \A x \in DOMAIN tracked' \ DOMAIN tracked : Leads(x, tracked[x])'
    BY <1>1 DEF handleInstanceCreated, upsertTrackedAddress, Put, Leads
  <2>4. DOMAIN masterSafe' \cup stakingContract' \subseteq DOMAIN tracked'
    BY <1>2 DEF handleInstanceCreated, upsertTrackedAddress, Put, IInv, TrackedComplete
  <2>. QED  BY <1>2, <2>1, <2>2, <2>3, <2>4, StillComplete DEF IInv
<1>9. OperatorsComplete'
  BY <1>2 DEF IInv, OperatorsComplete, getOrCreateService, LoadOr, NewService
<1>. QED  BY <1>5, <1>6, <1>7, <1>8, <1>9 DEF IInv

\* A handler that only writes a service's row, and takes no operator from it.
LEMMA RowWritten ==
    ASSUME IInv, UNCHANGED <<tracked, agentSafe, masterSafe, stakingContract, templates>>,
           DOMAIN service \subseteq DOMAIN service',
           \A s \in DOMAIN service : service[s].operators \subseteq service'[s].operators
    PROVE  TrackedComplete'
<1>1. Grown
  BY DEF Grown, Keeps
<1>2. Counted(templates', DOMAIN masterSafe' \cup DOMAIN agentSafe')
  BY TemplatesCounted DEF IInv
<1>. QED  BY <1>1, <1>2, StillComplete DEF IInv, TrackedComplete

\* An operator goes to the row, or into the buffer.
LEMMA RegisterStep ==
    ASSUME Assumptions, IInv, NEW s \in Services, NEW op \in Operators,
           handleRegisterInstance(s, op)
    PROVE  IInv'
<1>1. UNCHANGED <<created, nft, stakedBy, multisig, due, owners, stakingContract, masterSafe,
                  agentSafe, serviceIndex, tracked, templates>>
  BY DEF handleRegisterInstance, logs
<1>2. due = NoLog
  BY DEF handleRegisterInstance
<1>3. opsEmitted' = [opsEmitted EXCEPT ![s] = @ \cup {op}]
  BY DEF handleRegisterInstance
<1>4. /\ DOMAIN service' = DOMAIN service
      /\ \A x \in DOMAIN service :
            /\ DOMAIN service'[x] = ServiceFields
            /\ \A f \in ServiceFields \ {"operators"} : service'[x][f] = service[x][f]
            /\ service'[x].operators = service[x].operators \cup {o \in {op} : x = s}
  <2>1. CASE s \in DOMAIN service
    BY <2>1 DEF handleRegisterInstance, IInv, Rows, ServiceFields
  <2>2. CASE s \notin DOMAIN service
    BY <2>2 DEF handleRegisterInstance, IInv, Rows, ServiceFields
  <2>. QED  BY <2>1, <2>2
<1>5. \A x \in DOMAIN service :
         /\ service'[x].masterSafe = service[x].masterSafe
         /\ service'[x].agentSafe = service[x].agentSafe
         /\ service'[x].state = service[x].state
         /\ service'[x].nftCustodian = service[x].nftCustodian
         /\ service'[x].currentStakingContract = service[x].currentStakingContract
  BY <1>4 DEF ServiceFields
<1>6. Chain' /\ Known' /\ Due' /\ Rows'
  BY <1>1, <1>2, <1>3, <1>4, <1>5 DEF IInv, Chain, Known, Due, Rows
<1>7. Mirrored'
  BY <1>1, <1>4, <1>5 DEF IInv, Mirrored, Mirror, Settled
<1>8. TrackedComplete'
  BY <1>1, <1>4, RowWritten
<1>9. OperatorsComplete'
  <2>1. CASE s \in DOMAIN service
    <3>1. UNCHANGED pendingRegistration BY <2>1 DEF handleRegisterInstance
    <3>2. \A x : getOrCreateService(x)'.operators
                 = getOrCreateService(x).operators \cup {o \in {op} : x = s}
      BY <1>4, <2>1 DEF getOrCreateService, LoadOr, NewService
    <3>3. \A x \in DOMAIN serviceIndex : x \in DOMAIN service
      BY DEF IInv, Rows
    <3>. QED  BY <1>1, <1>3, <2>1, <3>1, <3>2, <3>3 DEF IInv, Chain, OperatorsComplete, LoadOr
  <2>2. CASE s \notin DOMAIN service
    <3>1. /\ UNCHANGED service
          /\ LoadOr(pendingRegistration', s, {}) = LoadOr(pendingRegistration, s, {}) \cup {op}
          /\ \A x : x # s => LoadOr(pendingRegistration', x, {})
                             = LoadOr(pendingRegistration, x, {})
      BY <2>2 DEF handleRegisterInstance, bufferPendingRegistration, LoadOr, Put
    <3>2. \A x : getOrCreateService(x)' = getOrCreateService(x)
      BY <3>1 DEF getOrCreateService, LoadOr, NewService
    <3>. QED  BY <1>1, <1>3, <2>2, <3>1, <3>2 DEF IInv, Chain, Rows, OperatorsComplete
  <2>. QED  BY <2>1, <2>2
<1>. QED  BY <1>6, <1>7, <1>8, <1>9 DEF IInv

\* Rewards are in no table of addresses.
LEMMA RewardStep ==
    ASSUME Assumptions, IInv, NEW s \in Services, NEW amount, handleRewardClaimed(s, amount)
    PROVE  IInv'
<1>1. UNCHANGED <<created, nft, stakedBy, multisig, opsEmitted, due, owners, stakingContract,
                  masterSafe, agentSafe, pendingRegistration, serviceIndex, tracked, templates>>
  BY DEF handleRewardClaimed, logs
<1>2. s \in DOMAIN service
  <2>1. nft[s] \in Proxies BY DEF handleRewardClaimed, IInv, Rows, Chain
  <2>. QED  BY <2>1 DEF IInv, Known
<1>3. /\ DOMAIN service' = DOMAIN service
      /\ \A x \in DOMAIN service :
            /\ DOMAIN service'[x] = ServiceFields
            /\ \A f \in ServiceFields \ {"totalOlasRewardsClaimed"} : service'[x][f] = service[x][f]
  BY <1>2 DEF handleRewardClaimed, getOrCreateService, LoadOr, Put, IInv, Rows, ServiceFields
<1>4. \A x \in DOMAIN service :
         /\ service'[x].operators = service[x].operators
         /\ service'[x].masterSafe = service[x].masterSafe
         /\ service'[x].agentSafe = service[x].agentSafe
         /\ service'[x].state = service[x].state
         /\ service'[x].nftCustodian = service[x].nftCustodian
         /\ service'[x].currentStakingContract = service[x].currentStakingContract
  BY <1>3 DEF ServiceFields
<1>5. Chain' /\ Known' /\ Due' /\ Rows'
  BY <1>1, <1>3, <1>4 DEF IInv, Chain, Known, Due, DueStake, DueUnstake, Rows
<1>6. Mirrored'
  BY <1>1, <1>3, <1>4 DEF IInv, Mirrored, Mirror, Settled
<1>7. TrackedComplete'
  BY <1>1, <1>3, <1>4, RowWritten
<1>8. OperatorsComplete'
  <2>1. \A x : getOrCreateService(x)'.operators = getOrCreateService(x).operators
    BY <1>3, <1>4 DEF getOrCreateService, LoadOr, NewService
  <2>. QED  BY <1>1, <1>3, <1>4, <2>1 DEF IInv, Rows, OperatorsComplete
<1>. QED  BY <1>5, <1>6, <1>7, <1>8 DEF IInv

\* A terminated service keeps its row, and is in no staking proxy.
LEMMA TerminateStep ==
    ASSUME Assumptions, IInv, NEW s \in Services, handleTerminateService(s) PROVE IInv'
<1>1. /\ UNCHANGED <<created, nft, stakedBy, opsEmitted, due, owners, stakingContract, masterSafe,
                     agentSafe, pendingRegistration, serviceIndex, tracked, templates>>
      /\ multisig' = [multisig EXCEPT ![s] = None]
      /\ nft[s] \in Holders /\ due = NoLog
  BY DEF handleTerminateService, logs
<1>2. s \in DOMAIN service
  BY DEF handleTerminateService, IInv, Known
<1>3. /\ DOMAIN service' = DOMAIN service
      /\ \A x \in DOMAIN service :
            /\ DOMAIN service'[x] = ServiceFields
            /\ \A f \in ServiceFields \ {"state"} : service'[x][f] = service[x][f]
            /\ service'[x].state = IF x = s THEN "TERMINATED" ELSE service[x].state
  BY <1>2 DEF handleTerminateService, getOrCreateService, LoadOr, Put, IInv, Rows, ServiceFields
<1>4. \A x \in DOMAIN service :
         /\ service'[x].operators = service[x].operators
         /\ service'[x].masterSafe = service[x].masterSafe
         /\ service'[x].agentSafe = service[x].agentSafe
         /\ service'[x].nftCustodian = service[x].nftCustodian
         /\ service'[x].currentStakingContract = service[x].currentStakingContract
  BY <1>3 DEF ServiceFields
<1>5. Chain' /\ Known' /\ Due' /\ Rows'
  BY <1>1, <1>3, <1>4 DEF IInv, Chain, Known, Due, Rows
<1>6. Mirrored'
  <2>1. service[s].currentStakingContract = None
    BY <1>1, <1>2 DEF IInv, Mirrored, Mirror, Settled, Rows, Chain, Assumptions, PearlKinds
  <2>. QED  BY <1>1, <1>2, <1>3, <1>4, <2>1 DEF IInv, Mirrored, Mirror, Settled, Chain, Rows
<1>7. TrackedComplete'
  BY <1>1, <1>3, <1>4, RowWritten
<1>8. OperatorsComplete'
  <2>1. \A x : getOrCreateService(x)'.operators = getOrCreateService(x).operators
    BY <1>3, <1>4 DEF getOrCreateService, LoadOr, NewService
  <2>. QED  BY <1>1, <1>3, <1>4, <2>1 DEF IInv, Rows, OperatorsComplete
<1>. QED  BY <1>5, <1>6, <1>7, <1>8 DEF IInv

\* A service that is in no indexed proxy has no staking contract in its row.
LEMMA NotStaked ==
    ASSUME IInv, NEW s \in Services, due = NoLog, nft[s] \notin stakingContract
    PROVE  LET row == getOrCreateService(s)
           IN  row.currentStakingContract = None /\ row.state # "STAKED"
<1>1. CASE s \in DOMAIN service
  BY <1>1 DEF getOrCreateService, LoadOr, IInv, Rows, Mirrored, Mirror, Settled
<1>2. CASE s \notin DOMAIN service
  BY <1>2 DEF getOrCreateService, LoadOr, NewService
<1>. QED  BY <1>1, <1>2

\* The NFT comes to a holder.
LEMMA TransferStep ==
    ASSUME Assumptions, IInv, NEW s \in Services, NEW to \in Holders, TransferNft(s, to)
    PROVE  IInv'
<1>0. /\ due = NoLog /\ nft[s] \notin Proxies /\ nft' = [nft EXCEPT ![s] = to]
      /\ handleServiceNftTransfer(s, to) /\ to \in Addresses
      /\ UNCHANGED <<created, stakedBy, multisig, owners, opsEmitted, due>>
  BY DEF TransferNft, logs, Addresses
<1>1. /\ Rows' /\ TrackedComplete' /\ OperatorsComplete'
      /\ DOMAIN service' = DOMAIN service \cup {s}
      /\ \A x \in DOMAIN service : x # s => service'[x] = service[x]
      /\ service'[s].nftCustodian = to
      /\ to \in Safes => service'[s].masterSafe = to
      /\ service'[s].agentSafe = getOrCreateService(s).agentSafe
      /\ service'[s].state = getOrCreateService(s).state
      /\ service'[s].currentStakingContract = getOrCreateService(s).currentStakingContract
      /\ UNCHANGED <<stakingContract, serviceIndex>>
  BY <1>0, NftMoves
<1>2. to \notin Proxies /\ stakingContract \subseteq Proxies
  BY DEF Assumptions, PearlKinds, IInv, Rows, Chain
<1>3. Chain' /\ Known' /\ Due'
  BY <1>0, <1>1, <1>2 DEF IInv, Chain, Known, Due
<1>4. Mirrored'
  <2>1. ASSUME NEW x \in DOMAIN service, x # s PROVE Mirror(x)'
    <3>1. x \in Services BY DEF IInv, Rows
    <3>. QED  BY <1>0, <1>1, <2>1, <3>1 DEF IInv, Chain, Mirrored, Mirror, Settled
  <2>2. Mirror(s)'
    <3>1. nft'[s] = to
      BY <1>0 DEF IInv, Chain
    <3>2. service'[s].currentStakingContract = None /\ service'[s].state # "STAKED"
      BY <1>0, <1>1, <1>2, NotStaked
    <3>3. None \notin stakingContract
      BY <1>2 DEF Assumptions, PearlNone, Addresses
    <3>4. multisig[s] # None =>
             service'[s].agentSafe = multisig[s] /\ serviceIndex[s] = multisig[s]
      BY <1>1 DEF IInv, Known, Mirrored, Mirror, getOrCreateService, LoadOr
    <3>. QED  BY <1>0, <1>1, <1>2, <3>1, <3>2, <3>3, <3>4 DEF Mirror, Settled
  <2>. QED  BY <1>1, <2>1, <2>2 DEF Mirrored
<1>. QED  BY <1>1, <1>3, <1>4 DEF IInv

\* The NFT goes into a proxy; the row lags until the proxy's own log is handled.
LEMMA StakeStep ==
    ASSUME Assumptions, IInv, NEW s \in Services, NEW p \in Proxies, Stake(s, p)
    PROVE  IInv'
<1>0. /\ due = NoLog /\ nft[s] \in Holders /\ nft' = [nft EXCEPT ![s] = p]
      /\ multisig[s] # None /\ p \in created /\ stakedBy' = [stakedBy EXCEPT ![s] = nft[s]]
      /\ handleServiceNftTransfer(s, p) /\ p \in Addresses
      /\ UNCHANGED <<created, multisig, owners, opsEmitted>>
      /\ due' = IF p \in stakingContract
                THEN [kind |-> "staked", service |-> s, owner |-> nft[s], proxy |-> p] ELSE NoLog
  BY DEF Stake, Addresses
<1>1. /\ Rows' /\ TrackedComplete' /\ OperatorsComplete'
      /\ DOMAIN service' = DOMAIN service \cup {s}
      /\ \A x \in DOMAIN service : x # s => service'[x] = service[x]
      /\ service'[s].nftCustodian = p
      /\ service'[s].agentSafe = getOrCreateService(s).agentSafe
      /\ service'[s].state = getOrCreateService(s).state
      /\ service'[s].currentStakingContract = getOrCreateService(s).currentStakingContract
      /\ UNCHANGED <<stakingContract, serviceIndex>>
  BY <1>0, NftMoves
<1>2. /\ nft[s] \notin Proxies /\ stakingContract \subseteq Proxies
      /\ p \notin Safes /\ None \notin stakingContract
  BY <1>0 DEF Assumptions, PearlKinds, PearlNone, Addresses, Holders, IInv, Rows, Chain
<1>3. nft'[s] = p /\ stakedBy'[s] = nft[s]
  BY <1>0 DEF IInv, Chain
<1>4. Chain' /\ Known'
  BY <1>0, <1>1 DEF IInv, Chain, Known
<1>5. Due'
  BY <1>0, <1>1, <1>3 DEF Due, DueStake, IInv, Chain
<1>6. Mirrored'
  <2>1. ASSUME NEW x \in DOMAIN service, x # s PROVE Mirror(x)'
    <3>1. x \in Services BY DEF IInv, Rows
    <3>. QED  BY <1>0, <1>1, <2>1, <3>1 DEF IInv, Chain, Mirrored, Mirror, Settled
  <2>2. Mirror(s)'
    <3>1. service'[s].currentStakingContract = None /\ service'[s].state # "STAKED"
      BY <1>0, <1>1, <1>2, NotStaked
    <3>2. multisig[s] # None =>
             service'[s].agentSafe = multisig[s] /\ serviceIndex[s] = multisig[s]
      BY <1>1 DEF IInv, Known, Mirrored, Mirror, getOrCreateService, LoadOr
    <3>3. p \in stakingContract => due'.service = s
      BY <1>0
    <3>4. p \in stakingContract \/ Settled(s)'
      BY <1>1, <1>2, <1>3, <3>1 DEF Settled
    <3>5. p \in stakingContract => due' # NoLog
      <4>1. p \in stakingContract => due'.kind = "staked" BY <1>0
      <4>. QED  BY <4>1 DEF NoLog
    <3>. QED  BY <1>0, <1>1, <1>2, <1>3, <3>2, <3>3, <3>4, <3>5 DEF Mirror
  <2>. QED  BY <1>1, <2>1, <2>2 DEF Mirrored
<1>. QED  BY <1>1, <1>4, <1>5, <1>6 DEF IInv

\* The NFT goes back to who staked it.
LEMMA UnstakeStep ==
    ASSUME Assumptions, IInv, NEW s \in Services, NEW amount, Unstake(s, amount)
    PROVE  IInv'
<1>. DEFINE to == stakedBy[s]
<1>0. /\ due = NoLog /\ nft[s] \in Proxies /\ nft' = [nft EXCEPT ![s] = to]
      /\ stakedBy' = [stakedBy EXCEPT ![s] = None]
      /\ handleServiceNftTransfer(s, to)
      /\ UNCHANGED <<created, multisig, owners, opsEmitted>>
      /\ due' = IF nft[s] \in stakingContract
                THEN [kind |-> "unstaked", service |-> s, reward |-> amount] ELSE NoLog
  BY DEF Unstake
<1>1. to \in Holders /\ to \in Addresses
  BY <1>0 DEF IInv, Chain, Addresses
<1>. HIDE DEF to
<1>2. /\ Rows' /\ TrackedComplete' /\ OperatorsComplete'
      /\ DOMAIN service' = DOMAIN service \cup {s}
      /\ \A x \in DOMAIN service : x # s => service'[x] = service[x]
      /\ service'[s].nftCustodian = to
      /\ to \in Safes => service'[s].masterSafe = to
      /\ service'[s].agentSafe = getOrCreateService(s).agentSafe
      /\ service'[s].state = getOrCreateService(s).state
      /\ service'[s].currentStakingContract = getOrCreateService(s).currentStakingContract
      /\ UNCHANGED <<stakingContract, serviceIndex>>
  BY <1>0, <1>1, NftMoves
<1>3. /\ to \notin Proxies /\ stakingContract \subseteq Proxies /\ None \notin stakingContract
      /\ None \notin Safes
  BY <1>1 DEF Assumptions, PearlKinds, PearlNone, Addresses, Holders, IInv, Rows, Chain
<1>4. nft'[s] = to
  BY <1>0 DEF IInv, Chain
<1>5. Chain' /\ Known'
  BY <1>0, <1>1, <1>2, <1>3 DEF IInv, Chain, Known
<1>6. Due'
  BY <1>0, <1>1, <1>2, <1>4 DEF Due, DueUnstake
<1>7. Mirrored'
  <2>1. ASSUME NEW x \in DOMAIN service, x # s PROVE Mirror(x)'
    <3>1. x \in Services BY DEF IInv, Rows
    <3>. QED  BY <1>0, <1>2, <2>1, <3>1 DEF IInv, Chain, Mirrored, Mirror, Settled
  <2>2. Mirror(s)'
    <3>1. multisig[s] # None =>
             service'[s].agentSafe = multisig[s] /\ serviceIndex[s] = multisig[s]
      BY <1>2 DEF IInv, Known, Mirrored, Mirror, getOrCreateService, LoadOr
    <3>2. CASE nft[s] \in stakingContract
      <4>1. due'.service = s BY <1>0, <3>2
      <4>2. due'.kind = "unstaked" BY <1>0, <3>2
      <4>3. due' # NoLog BY <4>2 DEF NoLog
      <4>. QED  BY <1>0, <1>2, <1>4, <3>1, <4>1, <4>3 DEF Mirror
    <3>3. CASE nft[s] \notin stakingContract
      <4>1. service'[s].currentStakingContract = None /\ service'[s].state # "STAKED"
        BY <1>0, <1>2, <3>3, NotStaked
      <4>. QED  BY <1>0, <1>2, <1>3, <1>4, <3>1, <4>1 DEF Mirror, Settled
    <3>. QED  BY <3>2, <3>3
  <2>. QED  BY <1>2, <2>1, <2>2 DEF Mirrored
<1>. QED  BY <1>2, <1>5, <1>6, <1>7 DEF IInv

\* The row of a service that is deployed: the buffered operators are in it.
LEMMA DeployedRow ==
    ASSUME Rows, NEW s
    PROVE  LET old == getOrCreateService(s)
               row == Deployed(s)
           IN  /\ DOMAIN row = ServiceFields
               /\ row.operators = old.operators \cup LoadOr(pendingRegistration, s, {})
               /\ row.state = "DEPLOYED"
               /\ row.masterSafe = old.masterSafe /\ row.nftCustodian = old.nftCustodian
               /\ row.currentStakingContract = old.currentStakingContract
<1>1. DOMAIN getOrCreateService(s) = ServiceFields
  BY RowFields
<1>. QED  BY <1>1 DEF Deployed, ServiceFields

\* A deployment brings the Agent Safe, and the operators known so far.
LEMMA CreateStep ==
    ASSUME Assumptions, IInv, NEW s \in Services, NEW m \in Safes,
           handleCreateMultisigWithAgents(s, m)
    PROVE  IInv'
<1>. DEFINE old == getOrCreateService(s)  row == Deployed(s)
<1>0. /\ due = NoLog /\ nft[s] \in Holders /\ multisig' = [multisig EXCEPT ![s] = m]
      /\ service' = Put(service, s, [row EXCEPT !.agentSafe = m])
      /\ agentSafe' = AgentSafeTable(m, s, row)
      /\ tracked' = AgentTracked(tracked, m, s, row)
      /\ templates' = AgentTemplates(templates, masterSafe, m)
      /\ serviceIndex' = Put(serviceIndex, s, m)
      /\ UNCHANGED <<created, nft, stakedBy, owners, opsEmitted, due, stakingContract,
                     masterSafe, pendingRegistration>>
  BY DEF handleCreateMultisigWithAgents, logs
<1>1. /\ DOMAIN old = ServiceFields /\ old.masterSafe \in DOMAIN masterSafe \cup {None}
      /\ s \in DOMAIN service => old = service[s]
      /\ s \notin DOMAIN service => old.operators = {} /\ old.nftCustodian = None
  BY RowFields DEF IInv
<1>2. /\ DOMAIN row = ServiceFields
      /\ row.operators = old.operators \cup LoadOr(pendingRegistration, s, {})
      /\ row.state = "DEPLOYED"
      /\ row.masterSafe = old.masterSafe /\ row.nftCustodian = old.nftCustodian
      /\ row.currentStakingContract = old.currentStakingContract
  BY DeployedRow DEF IInv
<1>3. nft[s] \notin stakingContract /\ None \notin stakingContract /\ m # None
  BY <1>0 DEF Assumptions, PearlKinds, PearlNone, Addresses, Holders, IInv, Rows, Chain
<1>4. old.currentStakingContract = None
  BY <1>0, <1>3, NotStaked
<1>. HIDE DEF row, old
<1>5. /\ DOMAIN service' = DOMAIN service \cup {s}
      /\ \A x \in DOMAIN service : x # s => service'[x] = service[x]
      /\ DOMAIN service'[s] = ServiceFields /\ service'[s].agentSafe = m
      /\ service'[s].operators = row.operators /\ service'[s].state = row.state
      /\ service'[s].masterSafe = row.masterSafe
      /\ service'[s].nftCustodian = row.nftCustodian
      /\ service'[s].currentStakingContract = row.currentStakingContract
  BY <1>0, <1>2 DEF Put, ServiceFields
<1>6. /\ DOMAIN serviceIndex' = DOMAIN serviceIndex \cup {s} /\ serviceIndex'[s] = m
      /\ \A x \in DOMAIN serviceIndex : x # s => serviceIndex'[x] = serviceIndex[x]
  BY <1>0 DEF Put
<1>7. DOMAIN agentSafe' = DOMAIN agentSafe \cup {m}
  BY <1>0 DEF AgentSafeTable, Put
<1>8. Counted(templates', DOMAIN masterSafe' \cup DOMAIN agentSafe')
  <2>1. Counted(templates, DOMAIN masterSafe \cup DOMAIN agentSafe)
    BY TemplatesCounted DEF IInv
  <2>2. Counted(templates', DOMAIN masterSafe \cup DOMAIN agentSafe \cup {m})
    BY <1>0, <2>1, AgentTemplatesCounted
  <2>3. DOMAIN masterSafe' \cup DOMAIN agentSafe' = DOMAIN masterSafe \cup DOMAIN agentSafe \cup {m}
    BY <1>0, <1>7
  <2>. QED  BY <2>2, <2>3
<1>9. TrackedComplete'
  <2>1. Keeps(tracked, tracked) BY DEF Keeps
  <2>2. DOMAIN masterSafe' \subseteq DOMAIN tracked
    BY <1>0 DEF IInv, TrackedComplete
  <2>3. s \in DOMAIN service => service[s].operators \subseteq row.operators
    BY <1>1, <1>2
  <2>. QED  BY <1>0, <1>1, <1>2, <1>5, <1>8, <2>1, <2>2, <2>3, AgentSeen
<1>10. Rows'
  BY <1>0, <1>1, <1>2, <1>4, <1>5, <1>6, <1>7, <1>8 DEF IInv, Rows, Counted
<1>11. Chain' /\ Known' /\ Due'
  BY <1>0, <1>5, <1>6 DEF IInv, Chain, Known, Due
<1>12. Mirrored'
  <2>1. ASSUME NEW x \in DOMAIN service, x # s PROVE Mirror(x)'
    <3>1. x \in Services /\ (multisig[x] # None => x \in DOMAIN serviceIndex)
      BY DEF IInv, Rows, Known
    <3>2. multisig'[x] = multisig[x]
      BY <1>0, <2>1, <3>1 DEF IInv, Chain
    <3>3. Mirror(x)
      BY DEF IInv, Mirrored
    <3>4. service'[x] = service[x] /\ (multisig[x] # None => serviceIndex'[x] = serviceIndex[x])
      BY <1>5, <1>6, <2>1, <3>1
    <3>. QED  BY <1>0, <3>2, <3>3, <3>4 DEF Mirror, Settled
  <2>2. Mirror(s)'
    <3>1. multisig'[s] = m BY <1>0 DEF IInv, Chain
    <3>2. row.nftCustodian # None => s \in DOMAIN service BY <1>1, <1>2
    <3>3. s \in DOMAIN service => Mirror(s) BY DEF IInv, Mirrored
    <3>4. None \notin Safes BY DEF Assumptions, PearlNone, Addresses, Holders
    <3>. QED  BY <1>0, <1>1, <1>2, <1>3, <1>4, <1>5, <1>6, <3>1, <3>2, <3>3, <3>4
              DEF Mirror, Settled
  <2>. QED  BY <1>5, <2>1, <2>2 DEF Mirrored
<1>13. OperatorsComplete'
  <2>1. \A x : x # s => getOrCreateService(x)' = getOrCreateService(x)
    BY <1>5 DEF getOrCreateService, LoadOr, NewService
  <2>2. getOrCreateService(s)'.operators = old.operators \cup LoadOr(pendingRegistration, s, {})
    BY <1>2, <1>5 DEF getOrCreateService, LoadOr
  <2>3. LoadOr(pendingRegistration, s, {})' = LoadOr(pendingRegistration, s, {})
    BY <1>0 DEF LoadOr
  <2>4. /\ s \in DOMAIN opsEmitted
        /\ old.operators \cup LoadOr(pendingRegistration, s, {}) = opsEmitted[s]
    BY DEF IInv, Chain, OperatorsComplete, old
  <2>. QED  BY <1>0, <1>6, <2>1, <2>2, <2>3, <2>4 DEF IInv, OperatorsComplete, LoadOr
<1>. QED  BY <1>9, <1>10, <1>11, <1>12, <1>13 DEF IInv

\* The reward of an unstake, and the end of the staking.
LEMMA AnyUnstakeStep == ASSUME Assumptions, IInv, handleAnyUnstake PROVE IInv'
<1>. PICK s, amount : s = due.service /\ amount = due.reward
  OBVIOUS
<1>0. /\ due.kind = "unstaked" /\ due' = NoLog
      /\ service' = Put(service, s, Unstaked(getOrCreateService(s), amount))
      /\ UNCHANGED <<created, nft, stakedBy, multisig, owners, opsEmitted, stakingContract,
                     masterSafe, agentSafe, pendingRegistration, serviceIndex, tracked, templates>>
  BY DEF handleAnyUnstake
<1>1. DueUnstake
  BY <1>0 DEF IInv, Due, DueStake, NoLog
<1>2. s \in DOMAIN service /\ nft[s] \in Holders
  BY <1>1 DEF DueUnstake
<1>3. /\ DOMAIN service' = DOMAIN service
      /\ \A x \in DOMAIN service : x # s => service'[x] = service[x]
      /\ service'[s] = Unstaked(service[s], amount)
  BY <1>0, <1>2 DEF Put, getOrCreateService, LoadOr
<1>4. /\ DOMAIN service'[s] = ServiceFields
      /\ service'[s].state = "UNSTAKED" /\ service'[s].currentStakingContract = None
      /\ service'[s].operators = service[s].operators
      /\ service'[s].masterSafe = service[s].masterSafe
      /\ service'[s].agentSafe = service[s].agentSafe
      /\ service'[s].nftCustodian = service[s].nftCustodian
  BY <1>2, <1>3 DEF Unstaked, IInv, Rows, ServiceFields
<1>5. Chain' /\ Known' /\ Due'
  BY <1>0, <1>3 DEF IInv, Chain, Known, Due
<1>6. Rows'
  BY <1>0, <1>3, <1>4 DEF IInv, Rows
<1>7. Mirrored'
  <2>1. /\ nft[s] \notin stakingContract /\ None \notin stakingContract
    BY <1>2 DEF Assumptions, PearlKinds, PearlNone, Addresses, Holders, IInv, Rows, Chain
  <2>2. ASSUME NEW x \in DOMAIN service, x # s PROVE Mirror(x)'
    BY <1>0, <1>3, <2>2 DEF IInv, Mirrored, Mirror, Settled
  <2>3. Mirror(s)'
    BY <1>0, <1>2, <1>4, <2>1 DEF IInv, Mirrored, Mirror, Settled
  <2>. QED  BY <1>3, <2>2, <2>3 DEF Mirrored
<1>8. TrackedComplete'
  BY <1>0, <1>3, <1>4, RowWritten
<1>9. OperatorsComplete'
  <2>1. \A x : getOrCreateService(x)'.operators = getOrCreateService(x).operators
    BY <1>2, <1>3, <1>4 DEF getOrCreateService, LoadOr, NewService
  <2>. QED  BY <1>0, <1>3, <1>4, <2>1 DEF IInv, Rows, OperatorsComplete
<1>. QED  BY <1>5, <1>6, <1>7, <1>8, <1>9 DEF IInv

\* The row of a service that is staked in proxy p by owner.
StakedRow(s, owner, p) ==
    [getOrCreateService(s) EXCEPT
       !.state = "STAKED", !.currentStakingContract = p,
       !.masterSafe = IF MasterOf(owner) = None THEN @ ELSE owner]

\* The proxy's log links the owner, then the Agent Safe.
LEMMA StakedStep == ASSUME Assumptions, IInv, handleServiceStaked PROVE IInv'
<1>. PICK s, owner, p, m : s = due.service /\ owner = due.owner /\ p = due.proxy /\ m = multisig[s]
  OBVIOUS
<1>. DEFINE old == service[s]  row == StakedRow(s, owner, p)
<1>0. /\ due.kind = "staked" /\ due' = NoLog
      /\ masterSafe' = MasterSafeTable(owner)
      /\ agentSafe' = AgentSafeTable(m, s, row)
      /\ tracked' = AgentTracked(MasterTracked(owner), m, s, row)
      /\ templates' = AgentTemplates(MasterTemplates(owner), masterSafe', m)
      /\ service' = Put(service, s, [row EXCEPT !.agentSafe = m])
      /\ UNCHANGED <<created, nft, stakedBy, multisig, owners, opsEmitted, stakingContract,
                     pendingRegistration, serviceIndex>>
  BY DEF handleServiceStaked, StakedRow, chain
<1>1. DueStake
  BY <1>0 DEF IInv, Due, DueUnstake, NoLog
<1>2. /\ s \in Services /\ p \in stakingContract /\ nft[s] = p /\ owner = stakedBy[s]
      /\ m \in Safes /\ p \in Proxies
  BY <1>1 DEF DueStake, IInv, Rows, Chain
<1>3. s \in DOMAIN service /\ owner \in Holders
  BY <1>2 DEF IInv, Known, Chain
<1>4. /\ DOMAIN old = ServiceFields /\ old.masterSafe \in DOMAIN masterSafe \cup {None}
      /\ getOrCreateService(s) = old
  BY <1>3 DEF IInv, Rows, getOrCreateService, LoadOr
<1>5. /\ DOMAIN row = ServiceFields
      /\ row.state = "STAKED" /\ row.currentStakingContract = p
      /\ row.masterSafe = IF MasterOf(owner) = None THEN old.masterSafe ELSE owner
      /\ row.operators = old.operators /\ row.nftCustodian = old.nftCustodian
  BY <1>4 DEF StakedRow, ServiceFields
<1>6. /\ DOMAIN masterSafe' = DOMAIN masterSafe \cup {x \in {owner} : NewMaster(owner)}
      /\ MasterOf(owner) # None => owner \in DOMAIN masterSafe'
  BY <1>0, MasterTableAdds
<1>7. row.masterSafe \in DOMAIN masterSafe' \cup {None}
  BY <1>4, <1>5, <1>6
<1>. HIDE DEF row, old
<1>8. /\ DOMAIN service' = DOMAIN service
      /\ \A x \in DOMAIN service : x # s => service'[x] = service[x]
      /\ DOMAIN service'[s] = ServiceFields /\ service'[s].agentSafe = m
      /\ service'[s].operators = row.operators /\ service'[s].state = row.state
      /\ service'[s].masterSafe = row.masterSafe
      /\ service'[s].nftCustodian = row.nftCustodian
      /\ service'[s].currentStakingContract = row.currentStakingContract
  BY <1>0, <1>3, <1>5 DEF Put, ServiceFields
<1>9. DOMAIN agentSafe' = DOMAIN agentSafe \cup {m}
  BY <1>0 DEF AgentSafeTable, Put
<1>10. Counted(templates', DOMAIN masterSafe' \cup DOMAIN agentSafe')
  <2>1. Counted(MasterTemplates(owner), DOMAIN masterSafe' \cup DOMAIN agentSafe)
    BY <1>0, MasterTemplatesCounted DEF IInv
  <2>2. Counted(templates', DOMAIN masterSafe' \cup DOMAIN agentSafe \cup {m})
    BY <1>0, <1>2, <2>1, AgentTemplatesCounted
  <2>3. DOMAIN masterSafe' \cup DOMAIN agentSafe'
        = DOMAIN masterSafe' \cup DOMAIN agentSafe \cup {m}
    BY <1>9
  <2>. QED  BY <2>2, <2>3
<1>11. TrackedComplete'
  <2>. PICK tr : tr = MasterTracked(owner)
    OBVIOUS
  <2>1. /\ Keeps(tracked, tr)
        /\ NewMaster(owner) => owner \in DOMAIN tr
        /\ \A x \in DOMAIN tr \ DOMAIN tracked :
              /\ NewMaster(owner) /\ tr[x].masterSafe = owner
              /\ (x = owner /\ tr[x].role = "MASTER") \/ tr[x].role = "MASTER_EOA"
    BY MasterTrackedAdds
  <2>2. tracked' = AgentTracked(tr, m, s, row) BY <1>0
  <2>3. DOMAIN masterSafe' \subseteq DOMAIN tr
    BY <1>6, <2>1 DEF Keeps, IInv, TrackedComplete
  <2>4. \A x \in DOMAIN tr \ DOMAIN tracked :
           /\ tr[x].masterSafe \in DOMAIN masterSafe'
           /\ (tr[x].masterSafe = x /\ tr[x].role = "MASTER") \/ tr[x].role = "MASTER_EOA"
    BY <1>6, <2>1
  <2>5. /\ DOMAIN service' = DOMAIN service \cup {s}
        /\ service[s].operators \subseteq row.operators
        /\ row.operators \subseteq service'[s].operators
    BY <1>3, <1>5, <1>8 DEF old
  <2>6. DOMAIN masterSafe \subseteq DOMAIN masterSafe' /\ UNCHANGED stakingContract
    BY <1>0, <1>6
  <2>7. agentSafe' = AgentSafeTable(m, s, row) BY <1>0
  <2>8. \A x \in DOMAIN service : x # s => service'[x] = service[x] BY <1>8
  <2>. QED  BY <1>7, <1>10, <2>1, <2>2, <2>3, <2>4, <2>5, <2>6, <2>7, <2>8, AgentSeen
<1>12. Rows'
  <2>1. DOMAIN masterSafe' \subseteq Safes /\ DOMAIN agentSafe' \subseteq Safes
    BY <1>2, <1>6, <1>9 DEF IInv, Rows, NewMaster, AnswersGetOwners
  <2>. QED  BY <1>0, <1>2, <1>5, <1>6, <1>7, <1>8, <1>10, <2>1 DEF IInv, Rows, Counted
<1>13. Chain' /\ Known' /\ Due'
  BY <1>0, <1>8 DEF IInv, Chain, Known, Due
<1>14. Mirrored'
  <2>1. ASSUME NEW x \in DOMAIN service, x # s PROVE Mirror(x)'
    BY <1>0, <1>8, <2>1 DEF IInv, Mirrored, Mirror, Settled
  <2>2. Mirror(s)'
    <3>1. Mirror(s)
      BY <1>3 DEF IInv, Mirrored
    <3>2. p \notin Safes /\ None \notin Safes /\ None \notin stakingContract
      BY <1>2 DEF Assumptions, PearlNone, PearlKinds, Addresses, Holders, IInv, Rows, Chain
    <3>3. owner \in Safes => row.masterSafe = owner
      <4>1. owner \in Safes => MasterOf(owner) = owner
        BY DEF MasterOf, AnswersGetOwners, IInv, Chain
      <4>. QED  BY <1>5, <3>2, <4>1
    <3>4. service'[s].nftCustodian \in {None, p}
      BY <1>2, <1>5, <1>8, <3>1 DEF Mirror, old
    <3>5. Settled(s)'
      BY <1>0, <1>2, <1>5, <1>8, <3>2, <3>3 DEF Settled
    <3>6. m # None => serviceIndex[s] = m
      BY <3>1 DEF Mirror
    <3>. QED  BY <1>0, <1>2, <1>8, <3>2, <3>4, <3>5, <3>6 DEF Mirror
  <2>. QED  BY <1>8, <2>1, <2>2 DEF Mirrored
<1>15. OperatorsComplete'
  <2>1. \A x : getOrCreateService(x)'.operators = getOrCreateService(x).operators
    BY <1>3, <1>5, <1>8 DEF getOrCreateService, LoadOr, NewService, old
  <2>. QED  BY <1>0, <1>8, <2>1 DEF IInv, Rows, OperatorsComplete
<1>. QED  BY <1>11, <1>12, <1>13, <1>14, <1>15 DEF IInv

-----------------------------------------------------------------------------
(* The theorems about the tables. *)

\* Every step keeps the invariant.
LEMMA Inductive == ASSUME Assumptions, IInv, [Next]_vars PROVE IInv'
<1>1. CASE AdvanceDay
  BY <1>1, Untouched DEF AdvanceDay, logs, store, seen
<1>2. CASE handleServiceStaked
  BY <1>2, StakedStep
<1>3. CASE handleAnyUnstake
  BY <1>3, AnyUnstakeStep
<1>4. CASE handleSafeOwnerChange
  BY <1>4, OwnerLogStep
<1>5. CASE \E p \in Proxies : handleInstanceCreated(p)
  BY <1>5, InstanceStep
<1>6. CASE \E s \in Services :
              \/ \E to \in Holders : TransferNft(s, to)
              \/ \E op \in Operators : handleRegisterInstance(s, op)
              \/ \E m \in Safes : handleCreateMultisigWithAgents(s, m)
              \/ handleTerminateService(s)
              \/ \E p \in Proxies : Stake(s, p)
              \/ \E amount \in RewardAmounts : handleRewardClaimed(s, amount)
              \/ \E amount \in RewardAmounts \cup {0} : Unstake(s, amount)
  BY <1>6, TransferStep, RegisterStep, CreateStep, TerminateStep, StakeStep, RewardStep,
     UnstakeStep
<1>7. CASE \E m \in Safes, o \in Eoas :
              \/ AddOwner(m, o) \/ RemoveOwner(m, o)
              \/ \E new \in Eoas : SwapOwner(m, o, new)
  BY <1>7, OwnersStep
<1>8. CASE UNCHANGED vars
  BY <1>8, Untouched DEF vars, chain, logs, store, seen
<1>. QED  BY <1>1, <1>2, <1>3, <1>4, <1>5, <1>6, <1>7, <1>8 DEF Next

\* Every transfer's ends are found: whatever is tracked leads to its rows, every Safe the
\* subgraph knows is tracked and watched once, no operator is lost, and the Service rows
\* mirror the registry and the staking proxies (utils.ts, service-registry.ts, staking-proxy.ts).
THEOREM TablesAlwaysMirrorChain == Spec => []TablesMirrorChain
<1>1. Assumptions
  BY PearlNone, PearlKinds, PearlOwners DEF Assumptions
<1>2. Init => IInv
  BY InitIInv
<1>3. IInv /\ [Next]_vars => IInv'
  BY <1>1, Inductive
<1>4. IInv => TablesMirrorChain
  BY Implies
<1>. QED  BY <1>2, <1>3, <1>4, PTL DEF Spec

\* The first role of an address is its role for good (utils.ts 647-662).
THEOREM RolesStayFrozen == Spec => RolesFrozen
<1>1. ASSUME [Next]_vars PROVE [TrackedStay]_vars
  <2>1. Keeps(tracked, tracked')
    <3>1. ASSUME NEW s, NEW to, handleServiceNftTransfer(s, to) PROVE Keeps(tracked, tracked')
      BY <3>1, MasterTrackedAdds DEF handleServiceNftTransfer, Keeps
    <3>2. CASE handleServiceStaked
      <4>1. PICK m, s, row : tracked' = AgentTracked(MasterTracked(due.owner), m, s, row)
        BY <3>2 DEF handleServiceStaked
      <4>2. Keeps(MasterTracked(due.owner), tracked')
        BY <4>1, AgentTrackedAdds
      <4>3. Keeps(tracked, MasterTracked(due.owner))
        BY MasterTrackedAdds
      <4>. QED  BY <4>2, <4>3 DEF Keeps
    <3>3. ASSUME NEW p, handleInstanceCreated(p) PROVE Keeps(tracked, tracked')
      BY <3>3 DEF handleInstanceCreated, upsertTrackedAddress, Put, Keeps
    <3>4. ASSUME NEW s, NEW m, handleCreateMultisigWithAgents(s, m)
          PROVE  Keeps(tracked, tracked')
      BY <3>4, AgentTrackedAdds DEF handleCreateMultisigWithAgents
    <3>5. UNCHANGED tracked => Keeps(tracked, tracked')
      BY DEF Keeps
    <3>6. CASE UNCHANGED vars \/ AdvanceDay \/ handleAnyUnstake \/ handleSafeOwnerChange
      BY <3>5, <3>6 DEF vars, store, AdvanceDay, handleAnyUnstake, handleSafeOwnerChange
    <3>7. ASSUME NEW s \in Services,
                 \/ \E to \in Holders : TransferNft(s, to)
                 \/ \E op \in Operators : handleRegisterInstance(s, op)
                 \/ \E m \in Safes : handleCreateMultisigWithAgents(s, m)
                 \/ handleTerminateService(s)
                 \/ \E p \in Proxies : Stake(s, p)
                 \/ \E amount \in RewardAmounts : handleRewardClaimed(s, amount)
                 \/ \E amount \in RewardAmounts \cup {0} : Unstake(s, amount)
          PROVE  Keeps(tracked, tracked')
      BY <3>1, <3>4, <3>5, <3>7 DEF TransferNft, Stake, Unstake, handleRegisterInstance,
                                    handleTerminateService, handleRewardClaimed
    <3>8. ASSUME NEW m \in Safes, NEW o \in Eoas,
                 \/ AddOwner(m, o) \/ RemoveOwner(m, o) \/ \E new \in Eoas : SwapOwner(m, o, new)
          PROVE  Keeps(tracked, tracked')
      BY <3>5, <3>8 DEF AddOwner, RemoveOwner, SwapOwner, ChangeOwners, store
    <3>. QED  BY <1>1, <3>2, <3>3, <3>6, <3>7, <3>8 DEF Next
  <2>. QED  BY <2>1 DEF TrackedStay, Keeps
<1>. QED  BY <1>1, PTL DEF Spec, RolesFrozen

-----------------------------------------------------------------------------
(* Owner lists: without an owner, with a new one, with another in its place. *)

\* What a loop's invariant says of its first state, and keeps from one state to the
\* next, it says of all.
LEMMA LoopInduction ==
    ASSUME NEW n \in Nat, NEW G, 0 \in G, \A i \in 0 .. n - 1 : i \in G => i + 1 \in G
    PROVE  0 .. n \subseteq G
<1>. DEFINE Bad == {i \in 0 .. n : i \notin G}
<1>1. SUFFICES ASSUME Bad # {} PROVE FALSE
  OBVIOUS
<1>2. IsFiniteSet(Bad) /\ Bad \subseteq Int
  <2>1. IsFiniteSet(0 .. n) BY FS_Interval
  <2>2. Bad \subseteq 0 .. n OBVIOUS
  <2>. HIDE DEF Bad
  <2>3. IsFiniteSet(Bad) BY <2>1, <2>2, FS_Subset
  <2>. QED  BY <2>2, <2>3
<1>3. PICK i \in Bad : \A j \in Bad : i <= j
  <2>. HIDE DEF Bad
  <2>. QED  BY <1>1, <1>2, FiniteIntExtremes
<1>4. i \in 1 .. n
  BY <1>3
<1>5. i - 1 \in G
  BY <1>3, <1>4
<1>6. (i - 1) + 1 = i
  BY <1>4
<1>. QED  BY <1>3, <1>4, <1>5, <1>6

\* k holds what the filter's loop has kept after each of the first n owners.
Kept(k, list, o, n) ==
    k = [i \in 0 .. n |-> IF i = 0 THEN <<>>
                          ELSE IF list[i] = o THEN k[i - 1] ELSE Append(k[i - 1], list[i])]

LEMMA KeptExists == ASSUME NEW list, NEW o, NEW n \in Nat PROVE \E k : Kept(k, list, o, n)
<1>. DEFINE G == {m \in 0 .. n : \E k : Kept(k, list, o, m)}
<1>1. 0 \in G
  <2>1. Kept([i \in 0 .. 0 |-> <<>>], list, o, 0) BY DEF Kept
  <2>. QED  BY <2>1
<1>2. ASSUME NEW m \in 0 .. n - 1, m \in G PROVE m + 1 \in G
  <2>1. PICK k : Kept(k, list, o, m)
    BY <1>2
  <2>. DEFINE g == [i \in 0 .. m + 1 |-> IF i <= m THEN k[i]
                        ELSE IF list[i] = o THEN k[i - 1] ELSE Append(k[i - 1], list[i])]
  <2>2. \A i \in 0 .. m : k[i] = IF i = 0 THEN <<>>
                                ELSE IF list[i] = o THEN k[i - 1] ELSE Append(k[i - 1], list[i])
    BY <2>1 DEF Kept
  <2>3. \A i \in 0 .. m : g[i] = k[i]
    OBVIOUS
  <2>4. \A i \in 1 .. m + 1 : i - 1 \in 0 .. m
    OBVIOUS
  <2>5. \A i \in 0 .. m + 1 : g[i] = IF i = 0 THEN <<>>
                                ELSE IF list[i] = o THEN g[i - 1] ELSE Append(g[i - 1], list[i])
    <3>1. ASSUME NEW i \in 0 .. m PROVE g[i] = IF i = 0 THEN <<>>
                                ELSE IF list[i] = o THEN g[i - 1] ELSE Append(g[i - 1], list[i])
      <4>1. i # 0 => g[i - 1] = k[i - 1]
        BY <2>3
      <4>. QED  BY <2>2, <2>3, <4>1
    <3>2. g[m + 1] = IF list[m + 1] = o THEN k[m] ELSE Append(k[m], list[m + 1])
      OBVIOUS
    <3>3. g[m] = k[m] /\ (m + 1) - 1 = m /\ m + 1 # 0
      BY <2>3
    <3>4. \A i \in 0 .. m + 1 : i \in 0 .. m \/ i = m + 1
      OBVIOUS
    <3>. HIDE DEF g
    <3>. QED  BY <3>1, <3>2, <3>3, <3>4
  <2>6. g = [i \in 0 .. m + 1 |-> g[i]]
    OBVIOUS
  <2>. HIDE DEF g
  <2>7. Kept(g, list, o, m + 1)
    BY <2>5, <2>6 DEF Kept
  <2>. QED  BY <2>7
<1>3. 0 .. n \subseteq G
  <2>. HIDE DEF G
  <2>. QED  BY <1>1, <1>2, LoopInduction
<1>. QED  BY <1>3

LEMMA WithoutIsKept ==
    ASSUME NEW list, NEW o
    PROVE  Without(list, o) = (CHOOSE k : Kept(k, list, o, Len(list)))[Len(list)]
BY DEF Without, Kept

\* An owner list without o: an owner's place is another, but none is lost or doubled.
LEMMA WithoutOwner ==
    ASSUME NEW S, NEW list \in Seq(S), NEW o
    PROVE  /\ Without(list, o) \in Seq(S)
           /\ Range(Without(list, o)) = Range(list) \ {o}
           /\ IsInjective(list) => IsInjective(Without(list, o))
<1>. DEFINE n == Len(list)
            k == CHOOSE f : Kept(f, list, o, n)
            upTo(i) == {list[j] : j \in 1 .. i}
            good(l, i) == /\ l \in Seq(S) /\ Range(l) = upTo(i) \ {o}
                          /\ IsInjective(list) => IsInjective(l)
            G == {i \in 0 .. n : good(k[i], i)}
<1>1. n \in Nat /\ DOMAIN list = 1 .. n
  OBVIOUS
<1>2. Kept(k, list, o, n)
  BY <1>1, KeptExists
<1>3. \A i \in 0 .. n : k[i] = IF i = 0 THEN <<>>
                              ELSE IF list[i] = o THEN k[i - 1] ELSE Append(k[i - 1], list[i])
  BY <1>2 DEF Kept
<1>. HIDE DEF k
<1>4. 0 \in G
  <2>1. k[0] = <<>> BY <1>1, <1>3
  <2>2. upTo(0) = {} /\ <<>> \in Seq(S) OBVIOUS
  <2>3. Range(<<>>) = {} /\ IsInjective(<<>>) BY DEF Range, IsInjective
  <2>4. good(k[0], 0) /\ 0 \in 0 .. n
    BY <1>1, <2>1, <2>2, <2>3
  <2>. QED  BY <2>4
<1>5. ASSUME NEW i \in 0 .. n - 1, i \in G PROVE i + 1 \in G
  <2>1. /\ k[i + 1] = IF list[i + 1] = o THEN k[i] ELSE Append(k[i], list[i + 1])
        /\ i + 1 \in 0 .. n /\ i + 1 \in DOMAIN list /\ list[i + 1] \in S
    <3>1. i + 1 \in 0 .. n /\ i + 1 # 0 /\ (i + 1) - 1 = i /\ i + 1 \in 1 .. n
      BY <1>1
    <3>. QED  BY <1>1, <1>3, <3>1
  <2>2. upTo(i + 1) = upTo(i) \cup {list[i + 1]}
    <3>1. 1 .. i + 1 = (1 .. i) \cup {i + 1} OBVIOUS
    <3>. QED  BY <3>1
  <2>3. good(k[i], i)
    BY <1>5
  <2>4. CASE list[i + 1] = o
    BY <2>1, <2>2, <2>3, <2>4
  <2>5. CASE list[i + 1] # o
    <3>. PICK l, x : l = k[i] /\ x = list[i + 1]
      OBVIOUS
    <3>1. l \in Seq(S) /\ x \in S /\ k[i + 1] = Append(l, x)
      BY <2>1, <2>3, <2>5
    <3>2. /\ Append(l, x) \in Seq(S) /\ DOMAIN l = 1 .. Len(l) /\ Len(l) \in Nat
          /\ DOMAIN Append(l, x) = 1 .. Len(l) + 1
          /\ \A j \in 1 .. Len(l) : Append(l, x)[j] = l[j]
          /\ Append(l, x)[Len(l) + 1] = x
      BY <3>1
    <3>3. Range(Append(l, x)) = Range(l) \cup {x}
      <4>1. 1 .. Len(l) + 1 = (1 .. Len(l)) \cup {Len(l) + 1} BY <3>2
      <4>. QED  BY <3>2, <4>1 DEF Range
    <3>4. Range(l) = upTo(i) \ {o} BY <2>3
    <3>5. ASSUME IsInjective(list) PROVE IsInjective(Append(l, x))
      <4>1. IsInjective(l) BY <2>3, <3>5
      <4>2. x \notin upTo(i)
        <5>1. ASSUME NEW j \in 1 .. i PROVE list[j] # x
          <6>1. j \in DOMAIN list /\ i + 1 \in DOMAIN list /\ j # i + 1 BY <1>1
          <6>. QED  BY <3>5, <6>1 DEF IsInjective
        <5>. QED  BY <5>1
      <4>3. x \notin Range(l) BY <3>4, <4>2
      <4>4. \A j \in 1 .. Len(l) : l[j] # x BY <3>2, <4>3 DEF Range
      <4>5. \A a, b \in 1 .. Len(l) : l[a] = l[b] => a = b BY <3>2, <4>1 DEF IsInjective
      <4>6. \A a \in 1 .. Len(l) + 1 : a \in 1 .. Len(l) \/ a = Len(l) + 1 BY <3>2
      <4>. QED  BY <3>2, <4>4, <4>5, <4>6 DEF IsInjective
    <3>6. Range(Append(l, x)) = upTo(i + 1) \ {o}
      BY <2>2, <2>5, <3>3, <3>4
    <3>7. good(Append(l, x), i + 1)
      BY <3>2, <3>5, <3>6
    <3>. QED  BY <2>1, <3>1, <3>7
  <2>. QED  BY <2>4, <2>5
<1>6. n \in G
  <2>. HIDE DEF G
  <2>1. 0 .. n \subseteq G BY <1>1, <1>4, <1>5, LoopInduction
  <2>. QED  BY <1>1, <2>1
<1>7. upTo(n) = Range(list)
  BY <1>1 DEF Range
<1>8. Without(list, o) = k[n]
  BY WithoutIsKept DEF k
<1>. QED  BY <1>6, <1>7, <1>8

\* The owners of a Safe after each kind of change.
LEMMA AddedFirst ==
    ASSUME NEW S, NEW list \in Seq(S), NEW o \in S, o \notin Range(list), IsInjective(list)
    PROVE  LET next == <<o>> \o list
           IN  next \in Seq(S) /\ IsInjective(next) /\ Range(next) = Range(list) \cup {o}
<1>. PICK next : next = <<o>> \o list
  OBVIOUS
<1>1. /\ next \in Seq(S) /\ Len(list) \in Nat /\ DOMAIN list = 1 .. Len(list)
      /\ DOMAIN next = 1 .. Len(list) + 1 /\ next[1] = o
      /\ \A i \in 2 .. Len(list) + 1 : next[i] = list[i - 1]
  OBVIOUS
<1>2. Range(next) = Range(list) \cup {o}
  <2>1. ASSUME NEW i \in 1 .. Len(list) + 1 PROVE next[i] \in Range(list) \cup {o}
    <3>1. CASE i = 1
      BY <1>1, <3>1
    <3>2. CASE i # 1
      <4>1. i \in 2 .. Len(list) + 1 /\ i - 1 \in DOMAIN list BY <1>1, <3>2
      <4>. QED  BY <1>1, <4>1 DEF Range
    <3>. QED  BY <3>1, <3>2
  <2>2. ASSUME NEW i \in DOMAIN list PROVE list[i] \in Range(next)
    <3>1. i + 1 \in 2 .. Len(list) + 1 /\ (i + 1) - 1 = i /\ i + 1 \in DOMAIN next BY <1>1
    <3>2. next[i + 1] = list[i] BY <1>1, <3>1
    <3>. QED  BY <3>1, <3>2 DEF Range
  <2>3. o \in Range(next)
    <3>1. 1 \in DOMAIN next BY <1>1
    <3>. QED  BY <1>1, <3>1 DEF Range
  <2>4. \A x \in Range(next) : x \in Range(list) \cup {o}
    BY <1>1, <2>1 DEF Range
  <2>5. \A x \in Range(list) : x \in Range(next)
    BY <2>2 DEF Range
  <2>. QED  BY ONLY <2>3, <2>4, <2>5
<1>3. IsInjective(next)
  <2>. SUFFICES ASSUME NEW a \in DOMAIN next, NEW b \in DOMAIN next, next[a] = next[b]
                PROVE  a = b
    BY DEF IsInjective
  <2>1. \A i \in DOMAIN list : list[i] # o
    BY DEF Range
  <2>2. \A i \in DOMAIN next : i = 1 \/ (i \in 2 .. Len(list) + 1 /\ i - 1 \in DOMAIN list)
    BY <1>1
  <2>3. CASE a = 1 /\ b # 1
    BY <1>1, <2>1, <2>2, <2>3
  <2>4. CASE a # 1 /\ b = 1
    BY <1>1, <2>1, <2>2, <2>4
  <2>5. CASE a # 1 /\ b # 1
    <3>1. a - 1 \in DOMAIN list /\ b - 1 \in DOMAIN list /\ list[a - 1] = list[b - 1]
      BY <1>1, <2>2, <2>5
    <3>2. a - 1 = b - 1 BY <3>1 DEF IsInjective
    <3>. QED  BY <1>1, <2>2, <2>5, <3>2
  <2>. QED  BY <2>3, <2>4, <2>5
<1>. QED  BY <1>1, <1>2, <1>3

LEMMA RemovedOne ==
    ASSUME NEW S, NEW list \in Seq(S), NEW i \in DOMAIN list, IsInjective(list)
    PROVE  LET next == RemoveAt(list, i)
           IN  next \in Seq(S) /\ IsInjective(next) /\ Range(next) = Range(list) \ {list[i]}
<1>0. PICK n, next, before, after :
         /\ n = Len(list) /\ next = RemoveAt(list, i)
         /\ before = SubSeq(list, 1, i - 1) /\ after = SubSeq(list, i + 1, n)
  OBVIOUS
<1>1. n \in Nat /\ DOMAIN list = 1 .. n /\ i \in 1 .. n
  BY <1>0
<1>2. /\ before \in Seq(S) /\ Len(before) = i - 1
      /\ \A j \in 1 .. i - 1 : before[j] = list[j]
  BY <1>0, <1>1
<1>3. /\ after \in Seq(S) /\ Len(after) = n - i
      /\ \A j \in 1 .. n - i : after[j] = list[j + i]
  <2>1. /\ i + 1 \in Int /\ n \in Int /\ \A j \in i + 1 .. n : list[j] \in S
    BY <1>1
  <2>2. /\ after \in Seq(S) /\ Len(after) = IF i + 1 <= n THEN n - (i + 1) + 1 ELSE 0
        /\ \A j \in 1 .. n - (i + 1) + 1 : after[j] = list[(i + 1) + j - 1]
    BY <1>0, <2>1, SubSeqProperties
  <2>3. Len(after) = n - i /\ n - (i + 1) + 1 = n - i
    BY <1>1, <2>2
  <2>4. \A j \in 1 .. n - i : (i + 1) + j - 1 = j + i
    BY <1>1
  <2>. QED  BY <2>2, <2>3, <2>4
<1>4. next = before \o after
  BY <1>0 DEF RemoveAt
<1>5. /\ next \in Seq(S) /\ DOMAIN next = 1 .. n - 1
      /\ \A j \in 1 .. n - 1 : next[j] = IF j < i THEN list[j] ELSE list[j + 1]
  <2>1. /\ next \in Seq(S) /\ Len(next) = Len(before) + Len(after)
        /\ \A j \in 1 .. Len(before) + Len(after) : next[j] =
              IF j <= Len(before) THEN before[j] ELSE after[j - Len(before)]
    BY <1>2, <1>3, <1>4, ConcatProperties
  <2>2. Len(before) + Len(after) = n - 1
    BY <1>1, <1>2, <1>3
  <2>3. DOMAIN next = 1 .. n - 1
    BY <2>1, <2>2
  <2>4. ASSUME NEW j \in 1 .. n - 1 PROVE next[j] = IF j < i THEN list[j] ELSE list[j + 1]
    <3>0. next[j] = IF j <= i - 1 THEN before[j] ELSE after[j - (i - 1)]
      BY <1>2, <2>1, <2>2
    <3>1. CASE j < i
      <4>1. j \in 1 .. i - 1 BY <1>1, <3>1
      <4>. QED  BY <1>2, <3>0, <3>1, <4>1
    <3>2. CASE ~(j < i)
      <4>1. j - (i - 1) \in 1 .. n - i /\ (j - (i - 1)) + i = j + 1 /\ ~(j <= i - 1)
        BY <1>1, <3>2
      <4>2. after[j - (i - 1)] = list[j + 1] BY <1>3, <4>1
      <4>. QED  BY <3>0, <3>2, <4>1, <4>2
    <3>. QED  BY <3>1, <3>2
  <2>. QED  BY <2>1, <2>3, <2>4
<1>6. Range(next) = Range(list) \ {list[i]}
  <2>1. ASSUME NEW j \in 1 .. n - 1 PROVE next[j] \in Range(list) \ {list[i]}
    <3>1. /\ j \in DOMAIN list /\ j + 1 \in DOMAIN list
          /\ j < i => j # i
          /\ ~(j < i) => j + 1 # i
      BY <1>1
    <3>. QED  BY <1>1, <1>5, <3>1 DEF Range, IsInjective
  <2>2. ASSUME NEW j \in DOMAIN list, list[j] # list[i] PROVE list[j] \in Range(next)
    <3>1. CASE j < i
      <4>1. j \in 1 .. n - 1 BY <1>1, <3>1
      <4>. QED  BY <1>5, <3>1, <4>1 DEF Range
    <3>2. CASE ~(j < i)
      <4>1. j # i /\ j - 1 \in 1 .. n - 1 /\ ~(j - 1 < i) /\ (j - 1) + 1 = j
        BY <1>1, <2>2, <3>2
      <4>. QED  BY <1>5, <4>1 DEF Range
    <3>. QED  BY <3>1, <3>2
  <2>. QED  BY <1>5, <2>1, <2>2 DEF Range
<1>7. IsInjective(next)
  <2>. SUFFICES ASSUME NEW a \in DOMAIN next, NEW b \in DOMAIN next, next[a] = next[b]
                PROVE  a = b
    BY DEF IsInjective
  <2>. PICK x, y : /\ x = IF a < i THEN a ELSE a + 1
                   /\ y = IF b < i THEN b ELSE b + 1
    OBVIOUS
  <2>1. a \in 1 .. n - 1 /\ b \in 1 .. n - 1
    BY <1>5
  <2>2. x \in DOMAIN list /\ y \in DOMAIN list
    BY <1>1, <2>1
  <2>3. list[x] = list[y]
    BY <1>5, <2>1
  <2>4. x = y
    BY <2>2, <2>3 DEF IsInjective
  <2>. QED  BY <1>1, <2>1, <2>4
<1>. QED  BY <1>0, <1>5, <1>6, <1>7

LEMMA SwappedOne ==
    ASSUME NEW S, NEW list \in Seq(S), NEW o \in Range(list), NEW new \in S,
           new \notin Range(list), IsInjective(list), NEW next,
           next = [i \in DOMAIN list |-> IF list[i] = o THEN new ELSE list[i]]
    PROVE  /\ next \in Seq(S) /\ IsInjective(next)
           /\ Range(next) = (Range(list) \ {o}) \cup {new}
<1>1. next \in Seq(S)
  OBVIOUS
<1>2. IsInjective(next)
  BY DEF IsInjective, Range
<1>3. Range(next) = (Range(list) \ {o}) \cup {new}
  <2>1. DOMAIN next = DOMAIN list OBVIOUS
  <2>2. \A i \in DOMAIN list : next[i] = IF list[i] = o THEN new ELSE list[i] OBVIOUS
  <2>. QED  BY <2>1, <2>2 DEF Range
<1>. QED  BY <1>1, <1>2, <1>3

-----------------------------------------------------------------------------
(* The types. *)

Typed ==
    /\ TypeOK
    /\ day \in 0 .. MaxDay /\ paid \in [Services -> Nat]
    /\ due.kind = "unstaked" => due.reward \in Nat

LEMMA InitTyped == ASSUME Init PROVE Typed
<1>1. /\ PartialFn(masterSafe, Safes, MasterRow) /\ PartialFn(agentSafe, Safes, AgentRow)
      /\ PartialFn(service, Services, ServiceRow)
      /\ PartialFn(pendingRegistration, Services, SUBSET Operators)
      /\ PartialFn(serviceIndex, Services, Safes) /\ PartialFn(tracked, Addresses, TrackedRow)
      /\ PartialFn(daily, Services \X (0 .. MaxDay), DailyRow)
  BY NoRowsPartialFn DEF Init
<1>2. PartialFn(templates, Safes, Nat)
  BY DEF Init, PartialFn
<1>3. TypeOK
  BY <1>1, <1>2 DEF Init, TypeOK
<1>4. due.kind # "unstaked"
  BY DEF Init, NoLog
<1>. QED  BY <1>3, <1>4, PearlAmounts DEF Init, Typed

\* The row of a service, and what a handler may set in it.
LEMMA ServiceRowSet ==
    ASSUME NEW row \in ServiceRow
    PROVE  /\ \A m \in Safes \cup {None} : /\ [row EXCEPT !.masterSafe = m] \in ServiceRow
                                           /\ [row EXCEPT !.agentSafe = m] \in ServiceRow
           /\ \A ops \in SUBSET Operators : [row EXCEPT !.operators = ops] \in ServiceRow
           /\ \A x \in States : [row EXCEPT !.state = x] \in ServiceRow
           /\ \A a \in Addresses \cup {None} : [row EXCEPT !.nftCustodian = a] \in ServiceRow
           /\ \A p \in Proxies \cup {None} : [row EXCEPT !.currentStakingContract = p] \in ServiceRow
           /\ \A n \in Nat : [row EXCEPT !.totalOlasRewardsClaimed = n] \in ServiceRow
           /\ row.operators \in SUBSET Operators /\ row.totalOlasRewardsClaimed \in Nat
           /\ row.masterSafe \in Safes \cup {None} /\ row.agentSafe \in Safes \cup {None}
BY DEF ServiceRow

LEMMA LoadedService == ASSUME Typed, NEW s PROVE getOrCreateService(s) \in ServiceRow
<1>1. NewService \in ServiceRow
  BY DEF NewService, ServiceRow, States
<1>. QED  BY <1>1, LoadOrType DEF Typed, TypeOK, getOrCreateService

LEMMA MasterOfType ==
    ASSUME Typed, NEW a PROVE MasterOf(a) \in Safes \cup {None}
BY DEF MasterOf, AnswersGetOwners, Typed, TypeOK, PartialFn

\* The link of a moved NFT.
LEMMA LinkType ==
    ASSUME Typed, NEW row \in ServiceRow, NEW to \in Addresses
    PROVE  LinkAfterTransfer(row, to) \in ServiceRow
<1>. PICK m : m = IF to \in stakingContract \/ MasterOf(to) = None THEN row.masterSafe
                  ELSE MasterOf(to)
  OBVIOUS
<1>1. m \in Safes \cup {None}
  BY MasterOfType, ServiceRowSet
<1>. PICK moved : moved = [row EXCEPT !.nftCustodian = to]
  OBVIOUS
<1>2. moved \in ServiceRow
  BY ServiceRowSet
<1>3. [moved EXCEPT !.masterSafe = m] \in ServiceRow
  BY <1>1, <1>2, ServiceRowSet
<1>4. LinkAfterTransfer(row, to) = [moved EXCEPT !.masterSafe = m]
  BY DEF LinkAfterTransfer, ServiceRow
<1>. QED  BY <1>3, <1>4

\* The Master Safe's row and its tracked addresses.
LEMMA FirstOwner == ASSUME IInv, NEW a, NewMaster(a)
                    PROVE  a \in Safes /\ owners[a] \in Seq(Eoas) /\ owners[a][1] \in Eoas
<1>1. a \in Safes /\ owners[a] \in Seq(Eoas) /\ owners[a] # <<>>
  BY DEF NewMaster, AnswersGetOwners, IInv, Chain
<1>2. Len(owners[a]) \in Nat /\ Len(owners[a]) > 0
  BY <1>1, EmptySeq
<1>3. 1 \in 1 .. Len(owners[a])
  BY <1>2
<1>. QED  BY <1>1, <1>3, ElementOfSeq

LEMMA MasterTableType ==
    ASSUME IInv, Typed, NEW a PROVE PartialFn(MasterSafeTable(a), Safes, MasterRow)
<1>1. CASE NewMaster(a)
  <2>1. [owners |-> owners[a], masterEoa |-> owners[a][1]] \in MasterRow
    BY <1>1, FirstOwner DEF MasterRow
  <2>. QED  BY <1>1, <2>1, FirstOwner, PutPartialFn DEF MasterSafeTable, Typed, TypeOK
<1>2. CASE ~NewMaster(a)
  BY <1>2 DEF MasterSafeTable, Typed, TypeOK
<1>. QED  BY <1>1, <1>2

LEMMA UpsertType ==
    ASSUME NEW tr, PartialFn(tr, Addresses, TrackedRow), NEW a \in Addresses, NEW role \in Roles,
           NEW m \in Safes \cup {None}, NEW s \in Services \cup {None}
    PROVE  PartialFn(upsertTrackedAddress(tr, a, role, m, s), Addresses, TrackedRow)
<1>1. [role |-> role, masterSafe |-> m, service |-> s] \in TrackedRow
  BY DEF TrackedRow
<1>. QED  BY <1>1, PutPartialFn DEF upsertTrackedAddress

LEMMA MasterTrackedType ==
    ASSUME IInv, Typed, NEW a PROVE PartialFn(MasterTracked(a), Addresses, TrackedRow)
<1>0. PartialFn(tracked, Addresses, TrackedRow)
  BY DEF Typed, TypeOK
<1>1. CASE NewMaster(a)
  <2>1. a \in Safes /\ owners[a][1] \in Eoas
    BY <1>1, FirstOwner
  <2>2. a \in Addresses /\ owners[a][1] \in Addresses /\ "MASTER" \in Roles /\ "MASTER_EOA" \in Roles
    BY <2>1 DEF Addresses, Holders, Roles
  <2>. PICK self : self = upsertTrackedAddress(tracked, a, "MASTER", a, None)
    OBVIOUS
  <2>3. PartialFn(self, Addresses, TrackedRow)
    BY <1>0, <2>1, <2>2, UpsertType
  <2>4. PartialFn(upsertTrackedAddress(self, owners[a][1], "MASTER_EOA", a, None),
                  Addresses, TrackedRow)
    BY <2>1, <2>2, <2>3, UpsertType
  <2>. QED  BY <1>1, <2>4 DEF MasterTracked
<1>2. CASE ~NewMaster(a)
  BY <1>0, <1>2 DEF MasterTracked
<1>. QED  BY <1>1, <1>2

LEMMA AgentTrackedType ==
    ASSUME PearlKinds, NEW tr, PartialFn(tr, Addresses, TrackedRow), NEW a \in Safes,
           NEW s \in Services, NEW row \in ServiceRow
    PROVE  PartialFn(AgentTracked(tr, a, s, row), Addresses, TrackedRow)
<1>1. CASE a \in DOMAIN agentSafe \/ row.masterSafe = None
  BY <1>1 DEF AgentTracked
<1>2. CASE ~(a \in DOMAIN agentSafe \/ row.masterSafe = None)
  <2>1. row.masterSafe \in Safes /\ row.operators \subseteq Addresses
    BY <1>2, ServiceRowSet, PearlKinds DEF Addresses
  <2>2. a \in Addresses /\ "AGENT" \in Roles
    BY DEF Addresses, Holders, Roles
  <2>. PICK self : self = upsertTrackedAddress(tr, a, "AGENT", row.masterSafe, s)
    OBVIOUS
  <2>3. PartialFn(self, Addresses, TrackedRow)
    BY <2>1, <2>2, UpsertType
  <2>. PICK claimed : claimed = row.operators \ (DOMAIN self \cup {row.masterSafe})
    OBVIOUS
  <2>. PICK fresh : fresh = [role |-> "AGENT_EOA", masterSafe |-> row.masterSafe, service |-> s]
    OBVIOUS
  <2>4. fresh \in TrackedRow
    BY <2>1 DEF TrackedRow, Roles
  <2>5. PartialFn([x \in DOMAIN self \cup claimed |-> IF x \in claimed THEN fresh ELSE self[x]],
                  Addresses, TrackedRow)
    BY <2>1, <2>3, <2>4 DEF PartialFn
  <2>. QED  BY <1>2, <2>5 DEF AgentTracked
<1>. QED  BY <1>1, <1>2

LEMMA AgentTableType ==
    ASSUME Typed, NEW a \in Safes, NEW s \in Services, NEW row \in ServiceRow
    PROVE  PartialFn(AgentSafeTable(a, s, row), Safes, AgentRow)
<1>1. [service |-> s, masterSafe |-> row.masterSafe] \in AgentRow
  BY ServiceRowSet DEF AgentRow
<1>. QED  BY <1>1, PutPartialFn DEF AgentSafeTable, Typed, TypeOK

LEMMA TemplatesType ==
    ASSUME IInv' PROVE PartialFn(templates', Safes, Nat)
BY DEF IInv, Rows, PartialFn

LEMMA StakingType == ASSUME IInv PROVE stakingContract \subseteq Proxies
BY DEF IInv, Rows, Chain

\* What is left to show of a step that keeps IInv.
StoreTyped ==
    /\ PartialFn(masterSafe, Safes, MasterRow) /\ PartialFn(agentSafe, Safes, AgentRow)
    /\ PartialFn(service, Services, ServiceRow)
    /\ PartialFn(pendingRegistration, Services, SUBSET Operators)
    /\ PartialFn(serviceIndex, Services, Safes)
    /\ PartialFn(tracked, Addresses, TrackedRow)
    /\ PartialFn(daily, Services \X (0 .. MaxDay), DailyRow)

LEMMA TypeFromStore == ASSUME IInv', StoreTyped' PROVE TypeOK'
<1>1. PartialFn(templates, Safes, Nat)'
  BY TemplatesType
<1>2. (stakingContract \subseteq Proxies)'
  BY StakingType, PTL
<1>. QED  BY <1>1, <1>2 DEF StoreTyped, TypeOK

LEMMA StoreUntouched ==
    ASSUME Typed, UNCHANGED <<masterSafe, agentSafe, service, pendingRegistration, serviceIndex,
                              tracked, daily>>
    PROVE  StoreTyped'
BY DEF Typed, TypeOK, StoreTyped, PartialFn

\* The NFT moves.
LEMMA NftTyped ==
    ASSUME IInv, Typed, NEW s \in Services, NEW to \in Addresses, handleServiceNftTransfer(s, to)
    PROVE  StoreTyped'
<1>. PICK row : row = LinkAfterTransfer(getOrCreateService(s), to)
  OBVIOUS
<1>1. row \in ServiceRow
  BY LoadedService, LinkType
<1>2. PartialFn(service', Services, ServiceRow)
  <2>1. service' = Put(service, s, row) BY DEF handleServiceNftTransfer
  <2>. QED  BY <1>1, <2>1, PutPartialFn DEF Typed, TypeOK
<1>3. PartialFn(masterSafe', Safes, MasterRow) /\ PartialFn(tracked', Addresses, TrackedRow)
  <2>1. CASE to \in stakingContract
    BY <2>1 DEF handleServiceNftTransfer, Typed, TypeOK
  <2>2. CASE to \notin stakingContract
    <3>1. masterSafe' = MasterSafeTable(to) /\ tracked' = MasterTracked(to)
      BY <2>2 DEF handleServiceNftTransfer
    <3>. QED  BY <3>1, MasterTableType, MasterTrackedType
  <2>. QED  BY <2>1, <2>2
<1>4. UNCHANGED <<agentSafe, pendingRegistration, serviceIndex, daily>>
  BY DEF handleServiceNftTransfer
<1>. QED  BY <1>2, <1>3, <1>4 DEF StoreTyped, Typed, TypeOK

\* The other tables' rows.
LEMMA RegisterTyped ==
    ASSUME Typed, NEW s \in Services, NEW op \in Operators, handleRegisterInstance(s, op)
    PROVE  StoreTyped'
<1>1. PartialFn(service', Services, ServiceRow)
  <2>1. CASE s \in DOMAIN service
    <3>1. service' = [service EXCEPT ![s].operators = @ \cup {op}]
      BY <2>1 DEF handleRegisterInstance
    <3>2. service[s] \in ServiceRow
      BY <2>1 DEF Typed, TypeOK, PartialFn
    <3>3. service[s].operators \cup {op} \in SUBSET Operators
      BY <3>2, ServiceRowSet
    <3>. PICK row : row = [service[s] EXCEPT !.operators = service[s].operators \cup {op}]
      OBVIOUS
    <3>4. row \in ServiceRow
      BY <3>2, <3>3, ServiceRowSet
    <3>5. service' = [x \in DOMAIN service |-> IF x = s THEN row ELSE service[x]]
      BY <2>1, <3>1
    <3>. QED  BY <3>4, <3>5 DEF PartialFn, Typed, TypeOK
  <2>2. CASE s \notin DOMAIN service
    BY <2>2 DEF handleRegisterInstance, Typed, TypeOK
  <2>. QED  BY <2>1, <2>2
<1>2. PartialFn(pendingRegistration', Services, SUBSET Operators)
  <2>1. CASE s \in DOMAIN service
    BY <2>1 DEF handleRegisterInstance, Typed, TypeOK
  <2>2. CASE s \notin DOMAIN service
    <3>0. {} \in SUBSET Operators
      OBVIOUS
    <3>1. LoadOr(pendingRegistration, s, {}) \in SUBSET Operators
      BY <3>0, LoadOrType DEF Typed, TypeOK
    <3>2. LoadOr(pendingRegistration, s, {}) \cup {op} \in SUBSET Operators
      BY <3>1
    <3>3. pendingRegistration' =
             Put(pendingRegistration, s, LoadOr(pendingRegistration, s, {}) \cup {op})
      BY <2>2 DEF handleRegisterInstance, bufferPendingRegistration
    <3>. QED  BY <3>2, <3>3, PutPartialFn DEF Typed, TypeOK
  <2>. QED  BY <2>1, <2>2
<1>3. UNCHANGED <<masterSafe, agentSafe, serviceIndex, tracked, daily>>
  BY DEF handleRegisterInstance
<1>. QED  BY <1>1, <1>2, <1>3 DEF StoreTyped, Typed, TypeOK

LEMMA CreateTyped ==
    ASSUME Assumptions, Typed, NEW s \in Services, NEW m \in Safes,
           handleCreateMultisigWithAgents(s, m)
    PROVE  StoreTyped'
<1>. PICK old, row : old = getOrCreateService(s) /\ row = Deployed(s)
  OBVIOUS
<1>1. old \in ServiceRow
  BY LoadedService
<1>2. row \in ServiceRow
  <2>0. {} \in SUBSET Operators
    OBVIOUS
  <2>1. LoadOr(pendingRegistration, s, {}) \in SUBSET Operators
    BY <2>0, LoadOrType DEF Typed, TypeOK
  <2>2. old.operators \cup LoadOr(pendingRegistration, s, {}) \in SUBSET Operators
    BY <1>1, <2>1, ServiceRowSet
  <2>. PICK ops : ops = old.operators \cup LoadOr(pendingRegistration, s, {})
    OBVIOUS
  <2>. PICK first : first = [old EXCEPT !.state = "DEPLOYED"]
    OBVIOUS
  <2>3. first \in ServiceRow
    BY <1>1, ServiceRowSet DEF States
  <2>4. [first EXCEPT !.operators = ops] \in ServiceRow
    BY <2>2, <2>3, ServiceRowSet
  <2>5. row = [first EXCEPT !.operators = ops]
    BY <1>1 DEF Deployed, ServiceRow
  <2>. QED  BY <2>4, <2>5
<1>3. PartialFn(service', Services, ServiceRow)
  <2>1. [row EXCEPT !.agentSafe = m] \in ServiceRow
    BY <1>2, ServiceRowSet
  <2>2. service' = Put(service, s, [row EXCEPT !.agentSafe = m])
    BY DEF handleCreateMultisigWithAgents
  <2>. QED  BY <2>1, <2>2, PutPartialFn DEF Typed, TypeOK
<1>4. PartialFn(agentSafe', Safes, AgentRow)
  BY <1>2, AgentTableType DEF handleCreateMultisigWithAgents
<1>5. PartialFn(tracked', Addresses, TrackedRow)
  BY <1>2, AgentTrackedType DEF handleCreateMultisigWithAgents, Typed, TypeOK, Assumptions
<1>6. PartialFn(serviceIndex', Services, Safes)
  BY PutPartialFn DEF handleCreateMultisigWithAgents, Typed, TypeOK
<1>7. UNCHANGED <<masterSafe, pendingRegistration, daily>>
  BY DEF handleCreateMultisigWithAgents
<1>. QED  BY <1>3, <1>4, <1>5, <1>6, <1>7 DEF StoreTyped, Typed, TypeOK

LEMMA TerminateTyped ==
    ASSUME Typed, NEW s \in Services, handleTerminateService(s) PROVE StoreTyped'
<1>1. [getOrCreateService(s) EXCEPT !.state = "TERMINATED"] \in ServiceRow
  BY LoadedService, ServiceRowSet DEF States
<1>2. PartialFn(service', Services, ServiceRow)
  BY <1>1, PutPartialFn DEF handleTerminateService, Typed, TypeOK
<1>3. UNCHANGED <<masterSafe, agentSafe, pendingRegistration, serviceIndex, tracked, daily>>
  BY DEF handleTerminateService
<1>. QED  BY <1>2, <1>3 DEF StoreTyped, Typed, TypeOK

LEMMA InstanceTyped ==
    ASSUME Typed, NEW p \in Proxies, handleInstanceCreated(p) PROVE StoreTyped'
<1>1. PartialFn(tracked', Addresses, TrackedRow)
  <2>1. p \in Addresses /\ "STAKING" \in Roles
    BY DEF Addresses, Roles
  <2>2. PartialFn(tracked, Addresses, TrackedRow)
    BY DEF Typed, TypeOK
  <2>3. PartialFn(upsertTrackedAddress(tracked, p, "STAKING", None, None), Addresses, TrackedRow)
    BY <2>1, <2>2, UpsertType
  <2>. QED  BY <2>2, <2>3 DEF handleInstanceCreated
<1>2. UNCHANGED <<masterSafe, agentSafe, service, pendingRegistration, serviceIndex, daily>>
  BY DEF handleInstanceCreated
<1>. QED  BY <1>1, <1>2 DEF StoreTyped, Typed, TypeOK

LEMMA StakedTyped == ASSUME Assumptions, IInv, Typed, handleServiceStaked PROVE StoreTyped'
<1>. PICK s, owner, p, m : s = due.service /\ owner = due.owner /\ p = due.proxy /\ m = multisig[s]
  OBVIOUS
<1>. PICK old, row : old = getOrCreateService(s) /\ row = StakedRow(s, owner, p)
  OBVIOUS
<1>0. /\ due.kind = "staked"
      /\ masterSafe' = MasterSafeTable(owner)
      /\ agentSafe' = AgentSafeTable(m, s, row)
      /\ tracked' = AgentTracked(MasterTracked(owner), m, s, row)
      /\ service' = Put(service, s, [row EXCEPT !.agentSafe = m])
      /\ UNCHANGED <<pendingRegistration, serviceIndex, daily>>
  BY DEF handleServiceStaked, StakedRow, chain
<1>1. DueStake
  BY <1>0 DEF IInv, Due, DueUnstake, NoLog
<1>2. /\ s \in Services /\ p \in Proxies /\ m \in Safes
  BY <1>1 DEF DueStake, IInv, Rows, Chain
<1>3. old \in ServiceRow
  BY LoadedService
<1>4. MasterOf(owner) # None => owner \in Safes
  BY MasterOfType DEF MasterOf
<1>5. row \in ServiceRow
  <2>. PICK x : x = IF MasterOf(owner) = None THEN old.masterSafe ELSE owner
    OBVIOUS
  <2>. PICK first : first = [old EXCEPT !.state = "STAKED"]
    OBVIOUS
  <2>. PICK second : second = [first EXCEPT !.currentStakingContract = p]
    OBVIOUS
  <2>1. x \in Safes \cup {None}
    BY <1>3, <1>4, ServiceRowSet
  <2>2. first \in ServiceRow
    BY <1>3, ServiceRowSet DEF States
  <2>3. second \in ServiceRow
    BY <1>2, <2>2, ServiceRowSet
  <2>4. [second EXCEPT !.masterSafe = x] \in ServiceRow
    BY <2>1, <2>3, ServiceRowSet
  <2>5. row = [second EXCEPT !.masterSafe = x]
    BY <1>3 DEF StakedRow, ServiceRow
  <2>. QED  BY <2>4, <2>5
<1>6. PartialFn(service', Services, ServiceRow)
  <2>1. [row EXCEPT !.agentSafe = m] \in ServiceRow
    BY <1>2, <1>5, ServiceRowSet
  <2>. QED  BY <1>0, <1>2, <2>1, PutPartialFn DEF Typed, TypeOK
<1>7. PartialFn(masterSafe', Safes, MasterRow)
  BY <1>0, MasterTableType
<1>8. PartialFn(agentSafe', Safes, AgentRow)
  BY <1>0, <1>2, <1>5, AgentTableType
<1>9. PartialFn(tracked', Addresses, TrackedRow)
  <2>1. PartialFn(MasterTracked(owner), Addresses, TrackedRow)
    BY MasterTrackedType
  <2>. QED  BY <1>0, <1>2, <1>5, <2>1, AgentTrackedType DEF Assumptions
<1>. QED  BY <1>0, <1>6, <1>7, <1>8, <1>9 DEF StoreTyped, Typed, TypeOK

\* Rewards.
LEMMA DailyType ==
    ASSUME Typed, NEW s \in Services, NEW amount \in Nat, addDailyOlasReward(s, amount)
    PROVE  PartialFn(daily', Services \X (0 .. MaxDay), DailyRow)
<1>. PICK old, total : /\ old = LoadOr(daily, <<s, day>>, [olasRewardsClaimed |-> 0,
                                                  cumulativeOlasRewardsClaimed |-> 0])
                       /\ total = getOrCreateService(s).totalOlasRewardsClaimed
  OBVIOUS
<1>1. [olasRewardsClaimed |-> 0, cumulativeOlasRewardsClaimed |-> 0] \in DailyRow
  BY DEF DailyRow
<1>2. old \in DailyRow
  BY <1>1, LoadOrType DEF Typed, TypeOK
<1>3. total \in Nat /\ old.olasRewardsClaimed \in Nat
  BY <1>2, LoadedService, ServiceRowSet DEF DailyRow
<1>4. DailyRowAfter(s, amount) \in DailyRow
  BY <1>3 DEF DailyRowAfter, DailyRow
<1>5. <<s, day>> \in Services \X (0 .. MaxDay)
  BY DEF Typed
<1>. QED  BY <1>4, <1>5, PutPartialFn DEF addDailyOlasReward, Typed, TypeOK

LEMMA RewardTyped ==
    ASSUME Typed, NEW s \in Services, NEW amount \in Nat, handleRewardClaimed(s, amount)
    PROVE  StoreTyped'
<1>1. PartialFn(daily', Services \X (0 .. MaxDay), DailyRow)
  BY DailyType DEF handleRewardClaimed
<1>2. getOrCreateService(s) \in ServiceRow
  BY LoadedService
<1>3. [getOrCreateService(s) EXCEPT !.totalOlasRewardsClaimed = @ + amount] \in ServiceRow
  BY <1>2, ServiceRowSet
<1>4. PartialFn(service', Services, ServiceRow)
  BY <1>3, PutPartialFn DEF handleRewardClaimed, Typed, TypeOK
<1>5. UNCHANGED <<masterSafe, agentSafe, pendingRegistration, serviceIndex, tracked>>
  BY DEF handleRewardClaimed
<1>. QED  BY <1>1, <1>4, <1>5 DEF StoreTyped, Typed, TypeOK

LEMMA AnyUnstakeTyped == ASSUME IInv, Typed, handleAnyUnstake PROVE StoreTyped'
<1>. PICK s, amount, old : s = due.service /\ amount = due.reward /\ old = getOrCreateService(s)
  OBVIOUS
<1>0. /\ due.kind = "unstaked"
      /\ service' = Put(service, s, Unstaked(old, amount))
      /\ IF amount > 0 THEN addDailyOlasReward(s, amount) ELSE UNCHANGED daily
      /\ UNCHANGED <<masterSafe, agentSafe, pendingRegistration, serviceIndex, tracked>>
  BY DEF handleAnyUnstake
<1>1. DueUnstake
  BY <1>0 DEF IInv, Due, DueStake, NoLog
<1>2. s \in Services /\ amount \in Nat
  BY <1>0, <1>1 DEF DueUnstake, Typed, IInv, Rows
<1>3. old \in ServiceRow
  BY LoadedService
<1>4. Unstaked(old, amount) \in ServiceRow
  <2>. PICK n : n = old.totalOlasRewardsClaimed + amount
    OBVIOUS
  <2>1. n \in Nat
    BY <1>2, <1>3, ServiceRowSet
  <2>. PICK first : first = [old EXCEPT !.state = "UNSTAKED"]
    OBVIOUS
  <2>. PICK second : second = [first EXCEPT !.currentStakingContract = None]
    OBVIOUS
  <2>2. first \in ServiceRow
    BY <1>3, ServiceRowSet DEF States
  <2>3. second \in ServiceRow
    BY <2>2, ServiceRowSet
  <2>4. [second EXCEPT !.totalOlasRewardsClaimed = n] \in ServiceRow
    BY <2>1, <2>3, ServiceRowSet
  <2>5. Unstaked(old, amount) = [second EXCEPT !.totalOlasRewardsClaimed = n]
    BY <1>3 DEF Unstaked, ServiceRow
  <2>. QED  BY <2>4, <2>5
<1>5. PartialFn(service', Services, ServiceRow)
  BY <1>0, <1>2, <1>4, PutPartialFn DEF Typed, TypeOK
<1>6. PartialFn(daily', Services \X (0 .. MaxDay), DailyRow)
  <2>1. CASE amount > 0
    BY <1>0, <1>2, <2>1, DailyType
  <2>2. CASE ~(amount > 0)
    BY <1>0, <2>2 DEF Typed, TypeOK
  <2>. QED  BY <2>1, <2>2
<1>. QED  BY <1>0, <1>5, <1>6 DEF StoreTyped, Typed, TypeOK

\* An owner list after a log.
LEMMA OwnerLogTyped ==
    ASSUME Typed, handleSafeOwnerChange, Head(ownerLog).owner \in Eoas PROVE StoreTyped'
<1>. PICK m, o, kind : m = Head(ownerLog).safe /\ o = Head(ownerLog).owner
                       /\ kind = Head(ownerLog).kind
  OBVIOUS
<1>1. UNCHANGED <<agentSafe, service, pendingRegistration, serviceIndex, tracked, daily>>
  BY DEF handleSafeOwnerChange
<1>2. PartialFn(masterSafe', Safes, MasterRow)
  <2>1. CASE m \notin DOMAIN masterSafe \/ templates[m] = 0
    BY <2>1 DEF handleSafeOwnerChange, Typed, TypeOK
  <2>2. CASE ~(m \notin DOMAIN masterSafe \/ templates[m] = 0)
    <3>. PICK row, next : /\ row = masterSafe[m]
                          /\ next = IF kind = "added" THEN AddedOwner(row, o)
                                    ELSE RemovedOwner(row, o)
      OBVIOUS
    <3>1. row \in MasterRow
      BY <2>2 DEF Typed, TypeOK, PartialFn
    <3>2. /\ row.owners \in Seq(Eoas) /\ row.masterEoa \in Eoas
          /\ \A l \in Seq(Eoas) : [row EXCEPT !.owners = l] \in MasterRow
          /\ \A l \in Seq(Eoas), e \in Eoas : [row EXCEPT !.owners = l, !.masterEoa = e] \in MasterRow
      BY <3>1 DEF MasterRow
    <3>3. AddedOwner(row, o) \in MasterRow
      <4>1. Append(row.owners, o) \in Seq(Eoas)
        BY <3>2, AppendProperties
      <4>. QED  BY <3>1, <3>2, <4>1 DEF AddedOwner
    <3>4. RemovedOwner(row, o) \in MasterRow
      <4>. PICK l : l = Without(row.owners, o)
        OBVIOUS
      <4>1. l \in Seq(Eoas)
        BY <3>2, WithoutOwner
      <4>2. l # <<>> => l[1] \in Eoas
        <5>1. l # <<>> => Len(l) \in Nat \ {0}
          BY <4>1, EmptySeq
        <5>2. l # <<>> => 1 \in 1 .. Len(l)
          BY <5>1
        <5>. QED  BY <4>1, <5>2, ElementOfSeq
      <4>. PICK e : e = IF l # <<>> /\ row.masterEoa = o THEN l[1] ELSE row.masterEoa
        OBVIOUS
      <4>3. e \in Eoas
        BY <3>2, <4>2
      <4>4. RemovedOwner(row, o) = [row EXCEPT !.owners = l, !.masterEoa = e]
        BY DEF RemovedOwner
      <4>5. [row EXCEPT !.owners = l, !.masterEoa = e] \in MasterRow
        BY <3>1, <4>1, <4>3 DEF MasterRow
      <4>. QED  BY <4>4, <4>5
    <3>5. masterSafe' = [x \in DOMAIN masterSafe |-> IF x = m THEN next ELSE masterSafe[x]]
      BY <2>2 DEF handleSafeOwnerChange
    <3>. QED  BY <3>3, <3>4, <3>5 DEF Typed, TypeOK, PartialFn
  <2>. QED  BY <2>1, <2>2
<1>. QED  BY <1>1, <1>2 DEF StoreTyped, Typed, TypeOK

\* An owner log.
OwnerLog == [safe : Safes, kind : {"added", "removed"}, owner : Eoas]
LogTyped == ownerLog \in Seq(OwnerLog)

\* The store, the day and the pending reward are all there is to type.
LEMMA RestTyped ==
    ASSUME IInv', StoreTyped', day' \in 0 .. MaxDay, paid' \in [Services -> Nat],
           due'.kind = "unstaked" => due'.reward \in Nat
    PROVE  Typed'
BY TypeFromStore DEF Typed

LEMMA TypedStep ==
    ASSUME Assumptions, PearlAmounts, IInv, LogTyped, Typed, [Next]_vars PROVE Typed'
<1>0. IInv'
  BY Inductive
<1>1. /\ day \in 0 .. MaxDay /\ paid \in [Services -> Nat]
      /\ due.kind = "unstaked" => due.reward \in Nat
  BY DEF Typed
<1>. DEFINE kept == UNCHANGED <<day, paid, due>>
<1>2. CASE AdvanceDay
  <2>1. day' = day + 1 /\ day < MaxDay /\ UNCHANGED <<paid, due>>
    BY <1>2 DEF AdvanceDay, logs
  <2>2. StoreTyped'
    BY <1>2, StoreUntouched DEF AdvanceDay, store
  <2>3. day' \in 0 .. MaxDay
    BY <1>1, <2>1, PearlAmounts
  <2>. QED  BY <1>0, <1>1, <2>1, <2>2, <2>3, RestTyped
<1>3. CASE handleServiceStaked
  <2>1. UNCHANGED <<day, paid>> /\ due'.kind # "unstaked"
    BY <1>3 DEF handleServiceStaked, chain, NoLog
  <2>2. StoreTyped'
    BY <1>3, StakedTyped
  <2>. QED  BY <1>0, <1>1, <2>1, <2>2, RestTyped
<1>4. CASE handleAnyUnstake
  <2>1. UNCHANGED day /\ due'.kind # "unstaked"
    BY <1>4 DEF handleAnyUnstake, NoLog
  <2>2. StoreTyped'
    BY <1>4, AnyUnstakeTyped
  <2>3. paid' \in [Services -> Nat]
    <3>. PICK s, amount : s = due.service /\ amount = due.reward
      OBVIOUS
    <3>1. paid' = [paid EXCEPT ![s] = @ + amount] /\ amount \in Nat
      BY <1>1, <1>4 DEF handleAnyUnstake
    <3>. HIDE DEF kept
    <3>2. ASSUME NEW x \in Services PROVE paid'[x] \in Nat
      BY <1>1, <3>1
    <3>3. DOMAIN paid' = Services /\ paid' = [x \in DOMAIN paid' |-> paid'[x]]
      BY <1>1, <3>1
    <3>. QED  BY <3>2, <3>3
  <2>. QED  BY <1>0, <1>1, <2>1, <2>2, <2>3, RestTyped
<1>5. CASE handleSafeOwnerChange
  <2>1. kept
    BY <1>5 DEF handleSafeOwnerChange, chain
  <2>2. Head(ownerLog).owner \in Eoas
    <3>1. Head(ownerLog) \in OwnerLog
      BY <1>5, HeadTailProperties DEF LogTyped, handleSafeOwnerChange
    <3>. QED  BY <3>1 DEF OwnerLog
  <2>3. StoreTyped'
    BY <1>5, <2>2, OwnerLogTyped
  <2>. QED  BY <1>0, <1>1, <2>1, <2>3, RestTyped
<1>6. ASSUME NEW p \in Proxies, handleInstanceCreated(p) PROVE Typed'
  <2>1. kept
    BY <1>6 DEF handleInstanceCreated, logs
  <2>2. StoreTyped'
    BY <1>6, InstanceTyped
  <2>. QED  BY <1>0, <1>1, <2>1, <2>2, RestTyped
<1>7. ASSUME NEW s \in Services, NEW to \in Holders, TransferNft(s, to) PROVE Typed'
  <2>1. kept
    BY <1>7 DEF TransferNft, logs
  <2>2. StoreTyped'
    BY <1>7, NftTyped DEF TransferNft, Addresses
  <2>. QED  BY <1>0, <1>1, <2>1, <2>2, RestTyped
<1>8. ASSUME NEW s \in Services, NEW op \in Operators, handleRegisterInstance(s, op) PROVE Typed'
  <2>1. kept
    BY <1>8 DEF handleRegisterInstance, logs
  <2>2. StoreTyped'
    BY <1>8, RegisterTyped
  <2>. QED  BY <1>0, <1>1, <2>1, <2>2, RestTyped
<1>9. ASSUME NEW s \in Services, NEW m \in Safes, handleCreateMultisigWithAgents(s, m)
      PROVE  Typed'
  <2>1. kept
    BY <1>9 DEF handleCreateMultisigWithAgents, logs
  <2>2. StoreTyped'
    BY <1>9, CreateTyped
  <2>. QED  BY <1>0, <1>1, <2>1, <2>2, RestTyped
<1>10. ASSUME NEW s \in Services, handleTerminateService(s) PROVE Typed'
  <2>1. kept
    BY <1>10 DEF handleTerminateService, logs
  <2>2. StoreTyped'
    BY <1>10, TerminateTyped
  <2>. QED  BY <1>0, <1>1, <2>1, <2>2, RestTyped
<1>11. ASSUME NEW s \in Services, NEW p \in Proxies, Stake(s, p) PROVE Typed'
  <2>1. UNCHANGED <<day, paid>> /\ due'.kind # "unstaked"
    BY <1>11 DEF Stake, NoLog
  <2>2. StoreTyped'
    BY <1>11, NftTyped DEF Stake, Addresses
  <2>. QED  BY <1>0, <1>1, <2>1, <2>2, RestTyped
<1>12. ASSUME NEW s \in Services, NEW amount \in RewardAmounts, handleRewardClaimed(s, amount)
       PROVE  Typed'
  <2>0. amount \in Nat
    BY PearlAmounts
  <2>1. UNCHANGED <<day, due>> /\ paid' = [paid EXCEPT ![s] = @ + amount]
    BY <1>12 DEF handleRewardClaimed, logs
  <2>2. StoreTyped'
    BY <1>12, <2>0, RewardTyped
  <2>3. paid' \in [Services -> Nat]
    BY <1>1, <2>0, <2>1
  <2>. QED  BY <1>0, <1>1, <2>1, <2>2, <2>3, RestTyped
<1>13. ASSUME NEW s \in Services, NEW amount \in RewardAmounts \cup {0}, Unstake(s, amount)
       PROVE  Typed'
  <2>0. amount \in Nat
    BY PearlAmounts
  <2>1. UNCHANGED <<day, paid>> /\ (due'.kind = "unstaked" => due'.reward \in Nat)
    BY <1>13, <2>0 DEF Unstake, NoLog
  <2>2. stakedBy[s] \in Addresses
    BY <1>13 DEF Unstake, IInv, Chain, Addresses
  <2>3. StoreTyped'
    BY <1>13, <2>2, NftTyped DEF Unstake
  <2>. QED  BY <1>0, <1>1, <2>1, <2>3, RestTyped
<1>14. ASSUME NEW m \in Safes, NEW o \in Eoas,
              \/ AddOwner(m, o) \/ RemoveOwner(m, o) \/ \E new \in Eoas : SwapOwner(m, o, new)
       PROVE  Typed'
  <2>1. kept /\ UNCHANGED store
    BY <1>14 DEF AddOwner, RemoveOwner, SwapOwner, ChangeOwners
  <2>2. StoreTyped'
    BY <2>1, StoreUntouched DEF store
  <2>. QED  BY <1>0, <1>1, <2>1, <2>2, RestTyped
<1>15. CASE UNCHANGED vars
  <2>1. kept /\ UNCHANGED store
    BY <1>15 DEF vars, chain, logs
  <2>2. StoreTyped'
    BY <2>1, StoreUntouched DEF store
  <2>. QED  BY <1>0, <1>1, <2>1, <2>2, RestTyped
<1>. QED
  BY <1>2, <1>3, <1>4, <1>5, <1>6, <1>7, <1>8, <1>9, <1>10, <1>11, <1>12, <1>13, <1>14, <1>15
  DEF Next

-----------------------------------------------------------------------------
(* Owner lists and the logs that are still to be handled. *)

\* The i-th pending log of l tells of owner o of Safe m; none does; it is the last that does.
About(l, i, m, o) == l[i].safe = m /\ l[i].owner = o
Silent(l, m, o) == \A i \in 1 .. Len(l) : ~About(l, i, m, o)
LastAbout(l, i, m, o) == /\ i \in 1 .. Len(l) /\ About(l, i, m, o)
                         /\ \A j \in 1 .. Len(l) : j > i => ~About(l, j, m, o)

\* What the last pending log about an owner says of it is what getOwners() says.
Right(l, m, o, owns) == \A i \in 1 .. Len(l) : LastAbout(l, i, m, o) => (l[i].kind = "added" <=> owns)

LEMMA LogAppended ==
    ASSUME NEW l \in Seq(OwnerLog), NEW e \in OwnerLog, NEW k, k = Append(l, e), NEW m, NEW o
    PROVE  /\ k \in Seq(OwnerLog)
           /\ Silent(k, m, o) => Silent(l, m, o) /\ ~(e.safe = m /\ e.owner = o)
           /\ e.safe = m /\ e.owner = o => Right(k, m, o, e.kind = "added")
           /\ \A A, B :
                 /\ Right(l, m, o, o \in A) /\ ~(e.safe = m /\ e.owner = o)
                 /\ (o \in B <=> o \in A)
                 => Right(k, m, o, o \in B)
<1>. PICK n : n = Len(l)
  OBVIOUS
<1>1. /\ k \in Seq(OwnerLog) /\ n \in Nat /\ Len(k) = n + 1
      /\ \A i \in 1 .. n : k[i] = l[i]
      /\ k[n + 1] = e
  BY AppendProperties, LenProperties
<1>2. ASSUME Silent(k, m, o) PROVE Silent(l, m, o) /\ ~(e.safe = m /\ e.owner = o)
  <2>1. n + 1 \in 1 .. n + 1 /\ \A i \in 1 .. n : i \in 1 .. n + 1
    BY <1>1
  <2>. QED  BY <1>1, <1>2, <2>1 DEF Silent, About
<1>3. ASSUME e.safe = m, e.owner = o PROVE Right(k, m, o, e.kind = "added")
  <2>1. SUFFICES ASSUME NEW i \in 1 .. n + 1, LastAbout(k, i, m, o)
                 PROVE  k[i].kind = "added" <=> e.kind = "added"
    BY <1>1 DEF Right
  <2>2. About(k, n + 1, m, o)
    BY <1>1, <1>3 DEF About
  <2>3. i = n + 1
    BY <1>1, <2>1, <2>2 DEF LastAbout
  <2>. QED  BY <1>1, <2>3
<1>4. ASSUME NEW A, NEW B, Right(l, m, o, o \in A), ~(e.safe = m /\ e.owner = o),
             o \in B <=> o \in A
      PROVE  Right(k, m, o, o \in B)
  <2>1. SUFFICES ASSUME NEW i \in 1 .. n + 1, LastAbout(k, i, m, o)
                 PROVE  k[i].kind = "added" <=> o \in B
    BY <1>1 DEF Right
  <2>2. i # n + 1
    BY <1>1, <1>4, <2>1 DEF LastAbout, About
  <2>3. i \in 1 .. n /\ \A j \in 1 .. n : j \in 1 .. n + 1
    BY <1>1, <2>2
  <2>4. LastAbout(l, i, m, o)
    BY <1>1, <2>1, <2>3 DEF LastAbout, About
  <2>. QED  BY <1>1, <1>4, <2>3, <2>4 DEF Right
<1>. QED  BY <1>1, <1>2, <1>3, <1>4

LEMMA LogHandled ==
    ASSUME NEW l \in Seq(OwnerLog), l # <<>>, NEW e, e = Head(l), NEW k, k = Tail(l), NEW m, NEW o,
           NEW A, Right(l, m, o, o \in A)
    PROVE  /\ k \in Seq(OwnerLog) /\ e \in OwnerLog
           /\ Right(k, m, o, o \in A)
           /\ Silent(k, m, o) /\ ~(e.safe = m /\ e.owner = o) => Silent(l, m, o)
           /\ Silent(k, m, o) /\ e.safe = m /\ e.owner = o => (e.kind = "added" <=> o \in A)
<1>. PICK n : n = Len(l)
  OBVIOUS
<1>1. /\ k \in Seq(OwnerLog) /\ e \in OwnerLog /\ n \in Nat \ {0} /\ Len(k) = n - 1
      /\ \A i \in 1 .. n - 1 : k[i] = l[i + 1]
      /\ e = l[1]
  BY HeadTailProperties, LenProperties, EmptySeq
<1>2. \A i \in 2 .. n : i - 1 \in 1 .. n - 1 /\ l[i] = k[i - 1]
  BY <1>1
<1>3. Right(k, m, o, o \in A)
  <2>1. SUFFICES ASSUME NEW i \in 1 .. n - 1, LastAbout(k, i, m, o)
                 PROVE  k[i].kind = "added" <=> o \in A
    BY <1>1 DEF Right
  <2>2. i + 1 \in 1 .. n /\ k[i] = l[i + 1]
    BY <1>1
  <2>3. About(l, i + 1, m, o)
    BY <2>1, <2>2 DEF LastAbout, About
  <2>4. ASSUME NEW j \in 1 .. n, j > i + 1 PROVE ~About(l, j, m, o)
    <3>1. j - 1 \in 1 .. n - 1 /\ j - 1 > i /\ l[j] = k[j - 1]
      BY <1>1, <1>2, <2>4
    <3>2. ~About(k, j - 1, m, o)
      BY <1>1, <2>1, <3>1 DEF LastAbout
    <3>. QED  BY <3>1, <3>2 DEF About
  <2>5. LastAbout(l, i + 1, m, o)
    BY <2>2, <2>3, <2>4 DEF LastAbout
  <2>. QED  BY <2>2, <2>5 DEF Right
<1>4. ASSUME Silent(k, m, o), NEW j \in 2 .. n PROVE ~About(l, j, m, o)
  <2>1. ~About(k, j - 1, m, o) /\ l[j] = k[j - 1]
    BY <1>1, <1>2, <1>4 DEF Silent
  <2>. QED  BY <2>1 DEF About
<1>5. ASSUME Silent(k, m, o), ~(e.safe = m /\ e.owner = o) PROVE Silent(l, m, o)
  <2>1. \A j \in 1 .. n : j = 1 \/ j \in 2 .. n
    BY <1>1
  <2>2. ~About(l, 1, m, o)
    BY <1>1, <1>5 DEF About
  <2>. QED  BY <1>4, <1>5, <2>1, <2>2 DEF Silent
<1>6. ASSUME Silent(k, m, o), e.safe = m, e.owner = o PROVE e.kind = "added" <=> o \in A
  <2>1. 1 \in 1 .. n /\ \A j \in 1 .. n : j > 1 => j \in 2 .. n
    BY <1>1
  <2>2. About(l, 1, m, o)
    BY <1>1, <1>6 DEF About
  <2>3. LastAbout(l, 1, m, o)
    BY <1>4, <1>6, <2>1, <2>2 DEF LastAbout
  <2>. QED  BY <1>1, <2>1, <2>3 DEF Right
<1>. QED  BY <1>1, <1>3, <1>5, <1>6

-----------------------------------------------------------------------------
OwnersDistinct ==
    /\ \A m \in Safes : IsInjective(owners[m])
    /\ \A m \in DOMAIN masterSafe : IsInjective(masterSafe[m].owners)

LogRight == \A m \in Safes, o \in Eoas : Right(ownerLog, m, o, o \in Range(owners[m]))

\* An owner that no pending log tells of is listed exactly when it owns the Safe.
ListRight ==
    \A m \in DOMAIN masterSafe, o \in Eoas :
        Silent(ownerLog, m, o) => (o \in Range(masterSafe[m].owners) <=> o \in Range(owners[m]))

OwnersInv == LogTyped /\ OwnersDistinct /\ LogRight /\ ListRight

LEMMA RangeIn == ASSUME NEW S, NEW l \in Seq(S) PROVE Range(l) \subseteq S
BY LenProperties DEF Range

LEMMA OwnersImplies == ASSUME IInv, Typed, OwnersInv PROVE OwnersMirrored
<1>1. ASSUME NEW m \in DOMAIN masterSafe, ownerLog = <<>>
      PROVE  Range(masterSafe[m].owners) = Range(owners[m])
  <2>1. \A o : Silent(ownerLog, m, o)
    <3>1. Len(ownerLog) = 0
      BY <1>1
    <3>. QED  BY <3>1 DEF Silent
  <2>2. Range(masterSafe[m].owners) \subseteq Eoas
    <3>1. masterSafe[m] \in MasterRow
      BY DEF Typed, TypeOK, PartialFn
    <3>2. masterSafe[m].owners \in Seq(Eoas)
      BY <3>1 DEF MasterRow
    <3>. QED  BY <3>2, RangeIn
  <2>3. Range(owners[m]) \subseteq Eoas
    <3>1. owners[m] \in Seq(Eoas)
      BY DEF IInv, Rows, Chain
    <3>. QED  BY <3>1, RangeIn
  <2>. QED  BY <2>1, <2>2, <2>3 DEF OwnersInv, ListRight
<1>. QED  BY <1>1 DEF OwnersInv, OwnersDistinct, OwnersMirrored

LEMMA InitOwners == ASSUME Init PROVE OwnersInv
<1>1. ownerLog = <<>> /\ masterSafe = NoRows /\ owners = InitialOwners
  BY DEF Init
<1>2. Len(ownerLog) = 0 /\ DOMAIN masterSafe = {}
  BY <1>1 DEF NoRows
<1>3. LogTyped
  BY <1>1, EmptySeq DEF LogTyped
<1>4. LogRight
  BY <1>2 DEF LogRight, Right
<1>. QED  BY <1>1, <1>2, <1>3, <1>4, PearlDistinct DEF OwnersInv, OwnersDistinct, ListRight

\* Rows keep their lists, and a new row has the list of getOwners().
LEMMA OwnersUntouched ==
    ASSUME OwnersInv, UNCHANGED <<owners, ownerLog>>, DOMAIN masterSafe' \subseteq Safes,
           \A m \in DOMAIN masterSafe' :
              \/ m \in DOMAIN masterSafe /\ masterSafe'[m] = masterSafe[m]
              \/ masterSafe'[m].owners = owners[m]
    PROVE  OwnersInv'
BY DEF OwnersInv, OwnersDistinct, LogTyped, LogRight, ListRight

LEMMA MasterTableKeeps ==
    ASSUME NEW a, NEW table, table = MasterSafeTable(a)
    PROVE  \A m \in DOMAIN table :
              \/ m \in DOMAIN masterSafe /\ table[m] = masterSafe[m]
              \/ table[m].owners = owners[m]
BY DEF MasterSafeTable, Put

\* The last pending log about an owner of a Safe agrees with the owners f gives to the Safe.
LogAgrees(l, f) == \A m \in Safes, o \in Eoas : Right(l, m, o, o \in f[m])

\* The owners become g by the change that e tells of.
OneChange(e, f, g) ==
    \A m \in Safes, o \in Eoas :
        (o \in g[m]) <=> IF m = e.safe /\ o = e.owner THEN e.kind = "added" ELSE o \in f[m]

\* An owner no log of k tells of is none that l tells of, and one as before.
Follows(l, k, f, g) ==
    \A m \in Safes, o \in Eoas : Silent(k, m, o) => Silent(l, m, o) /\ (o \in g[m] <=> o \in f[m])

\* A change of one owner and its log.
LEMMA OneLog ==
    ASSUME NEW l \in Seq(OwnerLog), NEW e \in OwnerLog, NEW k, k = Append(l, e), NEW f, NEW g,
           LogAgrees(l, f), OneChange(e, f, g)
    PROVE  k \in Seq(OwnerLog) /\ LogAgrees(k, g) /\ Follows(l, k, f, g)
<1>1. k \in Seq(OwnerLog)
  BY AppendProperties
<1>2. ASSUME NEW m \in Safes, NEW o \in Eoas
      PROVE  /\ Right(k, m, o, o \in g[m])
             /\ Silent(k, m, o) => Silent(l, m, o) /\ (o \in g[m] <=> o \in f[m])
  <2>1. CASE e.safe = m /\ e.owner = o
    <3>1. Right(k, m, o, e.kind = "added") /\ ~Silent(k, m, o)
      BY <2>1, LogAppended
    <3>2. (o \in g[m]) <=> e.kind = "added"
      BY <2>1 DEF OneChange
    <3>. QED  BY <3>1, <3>2 DEF Right
  <2>2. CASE ~(e.safe = m /\ e.owner = o)
    <3>. PICK A, B : A = f[m] /\ B = g[m]
      OBVIOUS
    <3>1. o \in B <=> o \in A
      BY <2>2 DEF OneChange
    <3>2. Right(l, m, o, o \in A)
      BY DEF LogAgrees
    <3>3. Right(k, m, o, o \in B) /\ (Silent(k, m, o) => Silent(l, m, o))
      BY <2>2, <3>1, <3>2, LogAppended
    <3>. QED  BY <3>1, <3>3
  <2>. QED  BY <2>1, <2>2
<1>. QED  BY <1>1, <1>2 DEF LogAgrees, Follows

\* The owners of the Safes, as sets.
OwnerSets == [m \in Safes |-> Range(owners[m])]

LEMMA ListChanged ==
    ASSUME IInv, OwnersInv, Typed, NEW m \in Safes, NEW list \in Seq(Eoas), IsInjective(list),
           owners' = [owners EXCEPT ![m] = list], ownerLog' \in Seq(OwnerLog),
           UNCHANGED masterSafe,
           LogAgrees(ownerLog', OwnerSets'), Follows(ownerLog, ownerLog', OwnerSets, OwnerSets')
    PROVE  OwnersInv'
<1>0. DOMAIN masterSafe \subseteq Safes /\ DOMAIN owners = Safes
  BY DEF IInv, Rows, Chain
<1>1. OwnersDistinct'
  BY <1>0 DEF OwnersInv, OwnersDistinct
<1>2. LogRight'
  BY DEF LogRight, LogAgrees, OwnerSets
<1>3. \A x \in Safes : OwnerSets[x] = Range(owners[x]) /\ OwnerSets'[x] = Range(owners'[x])
  BY DEF OwnerSets
<1>4. ListRight'
  BY <1>0, <1>3 DEF OwnersInv, ListRight, Follows
<1>. QED  BY <1>1, <1>2, <1>4 DEF OwnersInv, LogTyped

LEMMA LogAsConcat ==
    ASSUME NEW S, NEW l \in Seq(S), NEW a \in S, NEW b \in S
    PROVE  l \o <<a>> = Append(l, a) /\ l \o <<a, b>> = Append(Append(l, a), b)
<1>1. l \o <<a, b>> = Append(Append(l, a), b)
  OBVIOUS
<1>. QED  BY <1>1, AppendIsConcat

LEMMA OwnersChanged ==
    ASSUME IInv, OwnersInv, Typed, NEW m \in Safes, NEW o \in Eoas,
           \/ AddOwner(m, o) \/ RemoveOwner(m, o) \/ \E new \in Eoas : SwapOwner(m, o, new)
    PROVE  OwnersInv'
<1>. PICK f : f = OwnerSets
  OBVIOUS
<1>. PICK l : l = ownerLog
  OBVIOUS
<1>1. /\ l \in Seq(OwnerLog) /\ owners \in [Safes -> Seq(Eoas) \ {<<>>}]
      /\ IsInjective(owners[m]) /\ LogAgrees(l, f)
      /\ \A x \in Safes : f[x] = Range(owners[x])
  BY DEF OwnersInv, LogTyped, OwnersDistinct, LogRight, LogAgrees, OwnerSets, IInv, Chain
<1>. PICK list : list = owners[m]
  OBVIOUS
<1>2. list \in Seq(Eoas) /\ IsInjective(list) /\ f[m] = Range(list)
  BY <1>1
<1>3. ASSUME NEW next \in Seq(Eoas), owners' = [owners EXCEPT ![m] = next]
      PROVE  /\ OwnerSets'[m] = Range(next)
             /\ \A x \in Safes : x # m => OwnerSets'[x] = f[x]
  BY <1>1, <1>3 DEF OwnerSets
<1>4. ASSUME NEW next \in Seq(Eoas), IsInjective(next), owners' = [owners EXCEPT ![m] = next],
             UNCHANGED masterSafe, NEW e \in OwnerLog, ownerLog' = l \o <<e>>, e.safe = m,
             Range(next) = IF e.kind = "added" THEN Range(list) \cup {e.owner}
                           ELSE Range(list) \ {e.owner}
      PROVE  OwnersInv'
  <2>. PICK g, k : g = OwnerSets' /\ k = ownerLog'
    OBVIOUS
  <2>1. k = Append(l, e)
    BY <1>1, <1>4, LogAsConcat
  <2>2. g[m] = Range(next) /\ \A x \in Safes : x # m => g[x] = f[x]
    BY <1>3, <1>4
  <2>. PICK A, B : A = Range(list) /\ B = Range(next)
    OBVIOUS
  <2>4. /\ f[m] = A /\ g[m] = B /\ e.safe = m
        /\ B = IF e.kind = "added" THEN A \cup {e.owner} ELSE A \ {e.owner}
    BY <1>2, <1>4, <2>2
  <2>5. OneChange(e, f, g)
    BY ONLY <2>2, <2>4 DEF OneChange
  <2>3. k \in Seq(OwnerLog) /\ LogAgrees(k, g) /\ Follows(l, k, f, g)
    BY <1>1, <1>4, <2>1, <2>5, OneLog
  <2>. QED  BY <1>4, <2>3, ListChanged
<1>5. CASE AddOwner(m, o)
  <2>. PICK next, e : next = <<o>> \o list /\ e = [safe |-> m, kind |-> "added", owner |-> o]
    OBVIOUS
  <2>1. /\ o \notin Range(list) /\ owners' = [owners EXCEPT ![m] = next]
        /\ ownerLog' = l \o <<e>> /\ UNCHANGED masterSafe
    BY <1>5 DEF AddOwner, ChangeOwners, store
  <2>2. next \in Seq(Eoas) /\ IsInjective(next) /\ Range(next) = Range(list) \cup {o}
    BY <1>2, <2>1, AddedFirst
  <2>3. e \in OwnerLog /\ e.safe = m /\ e.kind = "added" /\ e.owner = o
    BY DEF OwnerLog
  <2>. QED  BY <1>4, <2>1, <2>2, <2>3
<1>6. CASE RemoveOwner(m, o)
  <2>. PICK e : e = [safe |-> m, kind |-> "removed", owner |-> o]
    OBVIOUS
  <2>0. PICK i \in DOMAIN list : list[i] = o /\ ChangeOwners(m, RemoveAt(list, i), <<e>>)
    BY <1>6 DEF RemoveOwner
  <2>. PICK next : next = RemoveAt(list, i)
    OBVIOUS
  <2>1. /\ owners' = [owners EXCEPT ![m] = next]
        /\ ownerLog' = l \o <<e>> /\ UNCHANGED masterSafe
    BY <2>0 DEF ChangeOwners, store
  <2>2. next \in Seq(Eoas) /\ IsInjective(next) /\ Range(next) = Range(list) \ {o}
    BY <1>2, <2>0, RemovedOne
  <2>3. e \in OwnerLog /\ e.safe = m /\ e.kind = "removed" /\ e.owner = o
    BY DEF OwnerLog
  <2>. QED  BY <1>4, <2>1, <2>2, <2>3
<1>7. ASSUME NEW new \in Eoas, SwapOwner(m, o, new) PROVE OwnersInv'
  <2>a. PICK next : next = [i \in DOMAIN list |-> IF list[i] = o THEN new ELSE list[i]]
    OBVIOUS
  <2>c. PICK a, b : /\ a = [safe |-> m, kind |-> "removed", owner |-> o]
                    /\ b = [safe |-> m, kind |-> "added", owner |-> new]
    OBVIOUS
  <2>d. PICK mid : mid = [x \in Safes |-> IF x = m THEN f[m] \ {o} ELSE f[x]]
    OBVIOUS
  <2>b. PICK g, k, j : g = OwnerSets' /\ k = ownerLog' /\ j = Append(l, a)
    OBVIOUS
  <2>0. o \in Range(list) /\ new \notin Range(list)
    BY <1>7 DEF SwapOwner
  <2>1. owners' = [owners EXCEPT ![m] = next] /\ k = l \o <<a, b>> /\ UNCHANGED masterSafe
    BY <1>7, <2>a, <2>b, <2>c DEF SwapOwner, ChangeOwners, store
  <2>2. /\ next \in Seq(Eoas) /\ IsInjective(next)
        /\ Range(next) = (Range(list) \ {o}) \cup {new}
    BY <1>2, <2>0, <2>a, SwappedOne
  <2>3. /\ a \in OwnerLog /\ a.safe = m /\ a.kind = "removed" /\ a.owner = o
        /\ b \in OwnerLog /\ b.safe = m /\ b.kind = "added" /\ b.owner = new
    BY <2>c DEF OwnerLog
  <2>4. k = Append(j, b)
    BY <1>1, <2>1, <2>3, <2>b, LogAsConcat
  <2>5. OneChange(a, f, mid)
    BY <2>3, <2>d DEF OneChange
  <2>6. j \in Seq(OwnerLog) /\ LogAgrees(j, mid) /\ Follows(l, j, f, mid)
    BY <1>1, <2>3, <2>5, <2>b, OneLog
  <2>7. g[m] = Range(next) /\ \A x \in Safes : x # m => g[x] = f[x]
    BY <1>3, <2>1, <2>2, <2>b
  <2>. PICK A, B : A = Range(list) /\ B = Range(next)
    OBVIOUS
  <2>10. o \in A /\ new \notin A /\ B = (A \ {o}) \cup {new} /\ f[m] = A /\ g[m] = B
    BY <1>2, <2>0, <2>2, <2>7
  <2>11. mid[m] = A \ {o} /\ \A x \in Safes : x # m => mid[x] = f[x]
    BY <2>10, <2>d
  <2>8. OneChange(b, mid, g)
    BY ONLY <2>3, <2>7, <2>10, <2>11, m \in Safes DEF OneChange
  <2>9. k \in Seq(OwnerLog) /\ LogAgrees(k, g) /\ Follows(j, k, mid, g)
    BY <2>3, <2>4, <2>6, <2>8, OneLog
  <2>12. Follows(l, k, f, g)
    BY ONLY <2>6, <2>9 DEF Follows
  <2>. QED  BY <2>1, <2>2, <2>9, <2>12, <2>b, ListChanged
<1>. QED  BY <1>5, <1>6, <1>7

\* A log of a spawned Master Safe is handled.
LEMMA OwnerLogHandled ==
    ASSUME IInv, Typed, OwnersInv, handleSafeOwnerChange PROVE OwnersInv'
<1>. PICK l, k, e : l = ownerLog /\ k = ownerLog' /\ e = Head(l)
  OBVIOUS
<1>. PICK m, o : m = e.safe /\ o = e.owner
  OBVIOUS
<1>0. /\ l \in Seq(OwnerLog) /\ l # <<>> /\ k = Tail(l) /\ UNCHANGED owners
      /\ \A x \in Safes, y \in Eoas : Right(l, x, y, y \in Range(owners[x]))
  BY DEF OwnersInv, LogTyped, LogRight, handleSafeOwnerChange, chain
<1>1. /\ k \in Seq(OwnerLog) /\ e \in OwnerLog
      /\ \A x \in Safes, y \in Eoas :
            /\ Right(k, x, y, y \in Range(owners[x]))
            /\ Silent(k, x, y) /\ ~(m = x /\ o = y) => Silent(l, x, y)
            /\ Silent(k, x, y) /\ m = x /\ o = y => (e.kind = "added" <=> y \in Range(owners[x]))
  <2>1. ASSUME NEW x \in Safes, NEW y \in Eoas
        PROVE  /\ k \in Seq(OwnerLog) /\ e \in OwnerLog
               /\ Right(k, x, y, y \in Range(owners[x]))
               /\ Silent(k, x, y) /\ ~(e.safe = x /\ e.owner = y) => Silent(l, x, y)
               /\ Silent(k, x, y) /\ e.safe = x /\ e.owner = y =>
                     (e.kind = "added" <=> y \in Range(owners[x]))
    <3>. PICK A : A = Range(owners[x])
      OBVIOUS
    <3>1. Right(l, x, y, y \in A)
      BY <1>0
    <3>2. /\ Right(k, x, y, y \in A)
          /\ Silent(k, x, y) /\ ~(e.safe = x /\ e.owner = y) => Silent(l, x, y)
          /\ Silent(k, x, y) /\ e.safe = x /\ e.owner = y => (e.kind = "added" <=> y \in A)
      <4>1. l \in Seq(OwnerLog) /\ l # <<>> /\ k = Tail(l) /\ e = Head(l)
        BY <1>0
      <4>. QED  BY ONLY <4>1, <3>1, LogHandled
    <3>3. k \in Seq(OwnerLog) /\ e \in OwnerLog
      BY <1>0, HeadTailProperties
    <3>. QED  BY <3>2, <3>3
  <2>2. k \in Seq(OwnerLog) /\ e \in OwnerLog
    BY <1>0, HeadTailProperties
  <2>. QED  BY <2>1, <2>2
<1>2. m \in Safes /\ o \in Eoas
  BY <1>1 DEF OwnerLog
<1>3. DOMAIN masterSafe \subseteq Safes
  BY DEF IInv, Rows
<1>4. LogTyped' /\ LogRight'
  BY <1>0, <1>1 DEF LogTyped, LogRight
<1>5. CASE m \notin DOMAIN masterSafe
  <2>1. UNCHANGED masterSafe
    BY <1>5 DEF handleSafeOwnerChange
  <2>2. ListRight'
    BY <1>0, <1>1, <1>3, <1>5, <2>1 DEF OwnersInv, ListRight
  <2>3. OwnersDistinct'
    BY <1>0, <2>1 DEF OwnersInv, OwnersDistinct
  <2>. QED  BY <1>4, <2>2, <2>3 DEF OwnersInv
<1>6. CASE m \in DOMAIN masterSafe
  <2>. PICK row : row = masterSafe[m]
    OBVIOUS
  <2>. PICK next : next = IF e.kind = "added" THEN AddedOwner(row, o) ELSE RemovedOwner(row, o)
    OBVIOUS
  <2>1. templates[m] # 0
    BY <1>2, <1>6 DEF IInv, TrackedComplete, Rows
  <2>2. /\ DOMAIN masterSafe' = DOMAIN masterSafe /\ masterSafe'[m] = next
        /\ \A x \in DOMAIN masterSafe : x # m => masterSafe'[x] = masterSafe[x]
    BY <1>6, <2>1 DEF handleSafeOwnerChange
  <2>3. row \in MasterRow /\ IsInjective(row.owners)
    BY <1>6 DEF Typed, TypeOK, PartialFn, OwnersInv, OwnersDistinct
  <2>4. row.owners \in Seq(Eoas)
    BY <2>3 DEF MasterRow
  <2>5. /\ IsInjective(next.owners)
        /\ \A y \in Eoas : (y \in Range(next.owners))
                           <=> IF y = o THEN e.kind = "added" ELSE y \in Range(row.owners)
    <3>1. CASE e.kind = "added" /\ o \in Range(row.owners)
      BY <2>3, <3>1 DEF AddedOwner
    <3>2. CASE e.kind = "added" /\ o \notin Range(row.owners)
      <4>. PICK list : list = Append(row.owners, o)
        OBVIOUS
      <4>. PICK old : old = row.owners
        OBVIOUS
      <4>. PICK n : n = Len(old)
        OBVIOUS
      <4>1. next.owners = list
        BY <2>3, <3>2 DEF AddedOwner, MasterRow
      <4>2. /\ n \in Nat /\ DOMAIN old = 1 .. n /\ DOMAIN list = 1 .. n + 1
            /\ \A i \in 1 .. n : list[i] = old[i]
            /\ list[n + 1] = o
        BY <1>2, <2>4, AppendProperties, LenProperties
      <4>3. o \notin Range(old) /\ IsInjective(old)
        BY <2>3, <3>2
      <4>4. IsInjective(list) /\ Range(list) = Range(old) \cup {o}
        <5>1. \A i \in 1 .. n + 1 : i \in 1 .. n \/ i = n + 1
          BY <4>2
        <5>2. n + 1 \in 1 .. n + 1 /\ \A i \in 1 .. n : i \in 1 .. n + 1
          BY <4>2
        <5>3. \A i \in 1 .. n : old[i] # o
          BY ONLY <4>2, <4>3 DEF Range
        <5>4. IsInjective(list)
          BY ONLY <4>2, <4>3, <5>1, <5>3 DEF IsInjective
        <5>5. Range(list) = Range(old) \cup {o}
          BY ONLY <4>2, <5>1, <5>2 DEF Range
        <5>. QED  BY <5>4, <5>5
      <4>. QED  BY <3>2, <4>1, <4>4
    <3>3. CASE e.kind # "added"
      <4>. PICK list : list = Without(row.owners, o)
        OBVIOUS
      <4>1. next.owners = list
        BY <2>3, <3>3 DEF RemovedOwner, MasterRow
      <4>2. IsInjective(list) /\ Range(list) = Range(row.owners) \ {o}
        BY <2>3, <2>4, WithoutOwner
      <4>. QED  BY <3>3, <4>1, <4>2
    <3>. QED  BY <3>1, <3>2, <3>3
  <2>6. OwnersDistinct'
    BY <1>0, <2>2, <2>5 DEF OwnersInv, OwnersDistinct
  <2>7. ASSUME NEW x \in DOMAIN masterSafe, NEW y \in Eoas, Silent(k, x, y)
        PROVE  y \in Range(masterSafe'[x].owners) <=> y \in Range(owners[x])
    <3>0. x \in Safes
      BY <1>3
    <3>1. CASE x = m /\ y = o
      <4>1. e.kind = "added" <=> y \in Range(owners[x])
        BY <1>1, <2>7, <3>0, <3>1
      <4>. QED  BY <2>2, <2>5, <3>1, <4>1
    <3>2. CASE ~(x = m /\ y = o)
      <4>1. Silent(l, x, y)
        BY <1>1, <2>7, <3>0, <3>2
      <4>2. y \in Range(masterSafe[x].owners) <=> y \in Range(owners[x])
        BY <4>1 DEF OwnersInv, ListRight
      <4>3. y \in Range(masterSafe'[x].owners) <=> y \in Range(masterSafe[x].owners)
        BY <2>2, <2>5, <3>2
      <4>. QED  BY <4>2, <4>3
    <3>. QED  BY <3>1, <3>2
  <2>8. ListRight'
    BY <1>0, <2>2, <2>7 DEF ListRight
  <2>. QED  BY <1>4, <2>6, <2>8 DEF OwnersInv
<1>. QED  BY <1>5, <1>6

LEMMA OwnersStays ==
    ASSUME Assumptions, IInv, Typed, OwnersInv, [Next]_vars PROVE OwnersInv'
<1>0. DOMAIN masterSafe' \subseteq Safes
  BY Inductive DEF IInv, Rows
<1>1. ASSUME UNCHANGED <<owners, ownerLog, masterSafe>> PROVE OwnersInv'
  BY <1>0, <1>1, OwnersUntouched
<1>2. ASSUME UNCHANGED <<owners, ownerLog>>, NEW a, masterSafe' = MasterSafeTable(a)
      PROVE  OwnersInv'
  BY <1>0, <1>2, MasterTableKeeps, OwnersUntouched
<1>3. ASSUME NEW s, NEW to, handleServiceNftTransfer(s, to), UNCHANGED <<owners, ownerLog>>
      PROVE  OwnersInv'
  BY <1>1, <1>2, <1>3 DEF handleServiceNftTransfer
<1>4. CASE AdvanceDay
  BY <1>1, <1>4 DEF AdvanceDay, logs, store
<1>5. CASE handleServiceStaked
  <2>. PICK owner : owner = due.owner
    OBVIOUS
  <2>1. masterSafe' = MasterSafeTable(owner) /\ UNCHANGED <<owners, ownerLog>>
    BY <1>5 DEF handleServiceStaked, chain
  <2>. QED  BY <1>2, <2>1
<1>6. CASE handleAnyUnstake
  BY <1>1, <1>6 DEF handleAnyUnstake
<1>7. CASE handleSafeOwnerChange
  BY <1>7, OwnerLogHandled
<1>8. CASE \E p \in Proxies : handleInstanceCreated(p)
  BY <1>1, <1>8 DEF handleInstanceCreated, logs
<1>9. ASSUME NEW s \in Services,
              \/ \E to \in Holders : TransferNft(s, to)
              \/ \E op \in Operators : handleRegisterInstance(s, op)
              \/ \E m \in Safes : handleCreateMultisigWithAgents(s, m)
              \/ handleTerminateService(s)
              \/ \E p \in Proxies : Stake(s, p)
              \/ \E amount \in RewardAmounts : handleRewardClaimed(s, amount)
              \/ \E amount \in RewardAmounts \cup {0} : Unstake(s, amount)
      PROVE  OwnersInv'
  <2>1. ASSUME NEW to, TransferNft(s, to) PROVE OwnersInv'
    BY <1>3, <2>1 DEF TransferNft, logs
  <2>2. ASSUME NEW op, handleRegisterInstance(s, op) PROVE OwnersInv'
    BY <1>1, <2>2 DEF handleRegisterInstance, logs
  <2>3. ASSUME NEW m, handleCreateMultisigWithAgents(s, m) PROVE OwnersInv'
    BY <1>1, <2>3 DEF handleCreateMultisigWithAgents, logs
  <2>4. CASE handleTerminateService(s)
    BY <1>1, <2>4 DEF handleTerminateService, logs
  <2>5. ASSUME NEW p, Stake(s, p) PROVE OwnersInv'
    BY <1>3, <2>5 DEF Stake
  <2>6. ASSUME NEW amount, handleRewardClaimed(s, amount) PROVE OwnersInv'
    BY <1>1, <2>6 DEF handleRewardClaimed, logs
  <2>7. ASSUME NEW amount, Unstake(s, amount) PROVE OwnersInv'
    BY <1>3, <2>7 DEF Unstake
  <2>. QED  BY <1>9, <2>1, <2>2, <2>3, <2>4, <2>5, <2>6, <2>7
<1>10. CASE \E m \in Safes, o \in Eoas :
              \/ AddOwner(m, o) \/ RemoveOwner(m, o)
              \/ \E new \in Eoas : SwapOwner(m, o, new)
  BY <1>10, OwnersChanged
<1>11. CASE UNCHANGED vars
  BY <1>1, <1>11 DEF vars, chain, logs, store
<1>. QED  BY <1>4, <1>5, <1>6, <1>7, <1>8, <1>9, <1>10, <1>11 DEF Next

-----------------------------------------------------------------------------
(* Rewards per day and in total. *)

RewardTotal(s) == getOrCreateService(s).totalOlasRewardsClaimed

\* The buckets of a service up to a day, and their sum.
BucketDays(t, s) == {d \in 0 .. MaxDay : <<s, d>> \in DOMAIN t}
Buckets(t, s, d) == [e \in {e \in BucketDays(t, s) : e <= d} |-> t[<<s, e>>].olasRewardsClaimed]
UpTo(t, s, d) == SumFunction(Buckets(t, s, d))

BucketsRight(s, t, total, p) ==
    /\ total = p /\ UpTo(t, s, MaxDay) = p
    /\ \A d \in BucketDays(t, s) : t[<<s, d>>].cumulativeOlasRewardsClaimed = UpTo(t, s, d)

\* No bucket is of a later day.
RewardsInv ==
    /\ \A s \in Services : BucketsRight(s, daily, RewardTotal(s), paid[s])
    /\ \A s \in Services : \A d \in BucketDays(daily, s) : d <= day

LEMMA RewardsImplies == ASSUME IInv, RewardsInv PROVE DailyAddsUp
<1>1. ASSUME NEW s \in DOMAIN service PROVE BucketsRight(s, daily, service[s].totalOlasRewardsClaimed, paid[s])
  <2>1. s \in Services /\ RewardTotal(s) = service[s].totalOlasRewardsClaimed
    BY DEF IInv, Rows, RewardTotal, getOrCreateService, LoadOr
  <2>. QED  BY <2>1 DEF RewardsInv
<1>. QED  BY <1>1 DEF DailyAddsUp, BucketsRight, UpTo, Buckets, BucketDays

LEMMA InitRewards == ASSUME Init PROVE RewardsInv
<1>1. DOMAIN daily = {} /\ DOMAIN service = {} /\ \A s \in Services : paid[s] = 0
  BY DEF Init, NoRows
<1>2. ASSUME NEW s \in Services PROVE BucketsRight(s, daily, RewardTotal(s), paid[s])
  <2>1. RewardTotal(s) = 0
    BY <1>1 DEF RewardTotal, getOrCreateService, LoadOr, NewService
  <2>2. BucketDays(daily, s) = {}
    BY <1>1 DEF BucketDays
  <2>. PICK f : f = Buckets(daily, s, MaxDay)
    OBVIOUS
  <2>3. DOMAIN f = {}
    BY <2>2 DEF Buckets
  <2>4. UpTo(daily, s, MaxDay) = 0
    BY <2>3, SumOfNone DEF UpTo
  <2>. QED  BY <1>1, <2>1, <2>2, <2>4 DEF BucketsRight
<1>3. \A s \in Services : BucketDays(daily, s) = {}
  BY <1>1 DEF BucketDays
<1>. QED  BY <1>2, <1>3 DEF RewardsInv

\* A step that pays nothing.
LEMMA NothingPaid ==
    ASSUME RewardsInv, UNCHANGED <<daily, paid>>, day' \in Int, day \in Int, day <= day', MaxDay \in Nat,
           \A s \in Services : RewardTotal(s)' = RewardTotal(s)
    PROVE  RewardsInv'
<1>1. \A s \in Services : BucketsRight(s, daily', RewardTotal(s)', paid'[s])
  <2>. SUFFICES ASSUME NEW s \in Services PROVE BucketsRight(s, daily', RewardTotal(s)', paid'[s])
    OBVIOUS
  <2>1. RewardTotal(s)' = RewardTotal(s)
    OBVIOUS
  <2>2. BucketsRight(s, daily, RewardTotal(s), paid[s]) /\ daily' = daily /\ paid' = paid
    BY DEF RewardsInv
  <2>. QED  BY ONLY <2>1, <2>2
<1>2. \A s \in Services : \A d \in BucketDays(daily', s) : d <= day'
  <2>1. \A s \in Services : \A d \in BucketDays(daily, s) : d <= day /\ d \in Nat
    BY DEF RewardsInv, BucketDays
  <2>. QED  BY <2>1
<1>. QED  BY <1>1, <1>2 DEF RewardsInv

\* A reward is booked in the day's bucket.
LEMMA BucketAdded ==
    ASSUME NEW t, NEW d \in 0 .. MaxDay, NEW s, NEW amount \in Nat, NEW total \in Nat, NEW row,
           NEW t2, t2 = Put(t, <<s, d>>, row), MaxDay \in Nat,
           \A k \in DOMAIN t : t[k].olasRewardsClaimed \in Nat,
           row.olasRewardsClaimed =
              (IF <<s, d>> \in DOMAIN t THEN t[<<s, d>>].olasRewardsClaimed ELSE 0) + amount,
           row.cumulativeOlasRewardsClaimed = total + amount,
           \A e \in BucketDays(t, s) : e <= d,
           BucketsRight(s, t, total, total)
    PROVE  /\ BucketsRight(s, t2, total + amount, total + amount)
           /\ \A e \in BucketDays(t2, s) : e <= d
<1>1. /\ DOMAIN t2 = DOMAIN t \cup {<<s, d>>} /\ t2[<<s, d>>] = row
      /\ \A k \in DOMAIN t : k # <<s, d>> => t2[k] = t[k]
  BY DEF Put
<1>2. BucketDays(t2, s) = BucketDays(t, s) \cup {d}
  BY <1>1 DEF BucketDays
<1>3. \A e \in BucketDays(t2, s) : e <= d /\ e \in 0 .. MaxDay
  BY <1>2 DEF BucketDays
<1>4. ASSUME NEW e \in 0 .. MaxDay, d <= e PROVE UpTo(t2, s, e) = total + amount
  <2>. PICK f, g : f = Buckets(t, s, MaxDay) /\ g = Buckets(t2, s, e)
    OBVIOUS
  <2>1. /\ DOMAIN f = BucketDays(t, s)
        /\ \A x \in DOMAIN f : f[x] = t[<<s, x>>].olasRewardsClaimed /\ f[x] \in Nat
    BY DEF Buckets, BucketDays
  <2>2. /\ DOMAIN g = BucketDays(t, s) \cup {d}
        /\ \A x \in DOMAIN g : g[x] = t2[<<s, x>>].olasRewardsClaimed
    BY <1>2, <1>3, <1>4 DEF Buckets
  <2>3. g[d] = (IF d \in DOMAIN f THEN f[d] ELSE 0) + amount
    BY <1>1, <2>1, <2>2 DEF BucketDays
  <2>4. \A x \in DOMAIN f \ {d} : g[x] = f[x]
    <3>1. \A x : x # d => <<s, x>> # <<s, d>>
      OBVIOUS
    <3>2. \A x \in BucketDays(t, s) : <<s, x>> \in DOMAIN t
      BY DEF BucketDays
    <3>3. \A x \in BucketDays(t, s) : x # d => t2[<<s, x>>] = t[<<s, x>>]
      BY <1>1, <3>1, <3>2
    <3>. QED  BY ONLY <2>1, <2>2, <3>3
  <2>5. IsFiniteSet(DOMAIN f)
    <3>1. IsFiniteSet(0 .. MaxDay)
      BY FS_Interval
    <3>2. DOMAIN f \subseteq 0 .. MaxDay
      BY <2>1 DEF BucketDays
    <3>. QED  BY ONLY <3>1, <3>2, FS_Subset
  <2>6. g[d] \in Int /\ (d \in DOMAIN f => f[d] \in Int) /\ \A x \in DOMAIN f : f[x] \in Int
    <3>1. \A x \in DOMAIN f : f[x] \in Nat
      BY <2>1
    <3>2. d \in DOMAIN f => f[d] \in Nat
      BY <3>1
    <3>3. g[d] \in Int
      BY ONLY <2>3, <3>2, amount \in Nat
    <3>. QED  BY ONLY <3>1, <3>2, <3>3
  <2>7. /\ SumFunction(g) = SumFunction(f) + g[d] - (IF d \in DOMAIN f THEN f[d] ELSE 0)
        /\ SumFunction(f) \in Int
    <3>1. DOMAIN g = DOMAIN f \cup {d}
      BY <2>1, <2>2
    <3>2. g[d] \in Int /\ \A x \in DOMAIN f : f[x] \in Int
      BY <2>6
    <3>. QED  BY ONLY <2>4, <2>5, <3>1, <3>2, SumPut
  <2>8. SumFunction(f) = total
    <3>1. UpTo(t, s, MaxDay) = total
      BY DEF BucketsRight
    <3>. QED  BY <3>1 DEF UpTo
  <2>. QED  BY <2>3, <2>6, <2>7, <2>8 DEF UpTo
<1>5. ASSUME NEW e \in BucketDays(t2, s), e # d
      PROVE  t2[<<s, e>>].cumulativeOlasRewardsClaimed = UpTo(t2, s, e)
  <2>1. e \in BucketDays(t, s) /\ e < d /\ <<s, e>> \in DOMAIN t /\ <<s, e>> # <<s, d>>
    BY <1>2, <1>3, <1>5 DEF BucketDays
  <2>2. t2[<<s, e>>] = t[<<s, e>>]
    BY <1>1, <2>1
  <2>3. {x \in BucketDays(t2, s) : x <= e} = {x \in BucketDays(t, s) : x <= e}
    BY <1>2, <1>3, <2>1
  <2>4. \A x \in {x \in BucketDays(t, s) : x <= e} : t2[<<s, x>>] = t[<<s, x>>]
    <3>1. SUFFICES ASSUME NEW x \in BucketDays(t, s), x <= e PROVE t2[<<s, x>>] = t[<<s, x>>]
      OBVIOUS
    <3>2. x # d /\ <<s, x>> \in DOMAIN t
      BY <1>2, <1>3, <2>1, <3>1 DEF BucketDays
    <3>. QED  BY <1>1, <3>2
  <2>5. Buckets(t2, s, e) = Buckets(t, s, e)
    BY <2>3, <2>4 DEF Buckets
  <2>. QED  BY <2>1, <2>2, <2>5 DEF BucketsRight, UpTo
<1>6. UpTo(t2, s, MaxDay) = total + amount /\ UpTo(t2, s, d) = total + amount
  BY <1>4
<1>. QED  BY <1>1, <1>3, <1>5, <1>6 DEF BucketsRight

\* The other services' buckets are as they were.
LEMMA BucketOfOther ==
    ASSUME NEW t, NEW d, NEW s, NEW row, NEW t2, t2 = Put(t, <<s, d>>, row), NEW x, x # s,
           NEW total, NEW p, BucketsRight(x, t, total, p)
    PROVE  BucketsRight(x, t2, total, p) /\ BucketDays(t2, x) = BucketDays(t, x)
<1>1. /\ DOMAIN t2 = DOMAIN t \cup {<<s, d>>}
      /\ \A k \in DOMAIN t : k # <<s, d>> => t2[k] = t[k]
  BY DEF Put
<1>2. \A e : <<x, e>> # <<s, d>>
  OBVIOUS
<1>3. BucketDays(t2, x) = BucketDays(t, x)
  BY <1>1, <1>2 DEF BucketDays
<1>4. \A e \in BucketDays(t, x) : t2[<<x, e>>] = t[<<x, e>>]
  BY <1>1, <1>2 DEF BucketDays
<1>5. \A e : Buckets(t2, x, e) = Buckets(t, x, e)
  BY <1>3, <1>4 DEF Buckets
<1>. QED  BY <1>3, <1>4, <1>5 DEF BucketsRight, UpTo

\* A row of the service table is written.
LEMMA TotalsAfterPut ==
    ASSUME NEW s, NEW row, service' = Put(service, s, row)
    PROVE  /\ RewardTotal(s)' = row.totalOlasRewardsClaimed
           /\ \A x : x # s => RewardTotal(x)' = RewardTotal(x)
BY DEF RewardTotal, getOrCreateService, LoadOr, Put, NewService

\* No log but a reward's changes a total.
LEMMA NftKeepsTotals ==
    ASSUME IInv, NEW s, NEW to, handleServiceNftTransfer(s, to)
    PROVE  \A x : RewardTotal(x)' = RewardTotal(x)
<1>. PICK row, old : old = getOrCreateService(s) /\ row = LinkAfterTransfer(old, to)
  OBVIOUS
<1>1. DOMAIN old = ServiceFields
  BY RowFields DEF IInv
<1>2. row.totalOlasRewardsClaimed = old.totalOlasRewardsClaimed
  BY <1>1, LinkKeeps DEF ServiceFields
<1>3. service' = Put(service, s, row)
  BY DEF handleServiceNftTransfer
<1>. QED  BY <1>2, <1>3, TotalsAfterPut DEF RewardTotal

LEMMA RegisterKeepsTotals ==
    ASSUME Typed, NEW s, NEW op, handleRegisterInstance(s, op) PROVE \A x : RewardTotal(x)' = RewardTotal(x)
<1>1. CASE s \in DOMAIN service
  <2>1. service' = [service EXCEPT ![s].operators = @ \cup {op}]
    BY <1>1 DEF handleRegisterInstance
  <2>2. service[s] \in ServiceRow
    BY <1>1 DEF Typed, TypeOK, PartialFn
  <2>3. DOMAIN service' = DOMAIN service /\ \A x \in DOMAIN service : x # s => service'[x] = service[x]
    BY <2>1
  <2>4. service'[s].totalOlasRewardsClaimed = service[s].totalOlasRewardsClaimed
    BY <1>1, <2>1, <2>2 DEF ServiceRow
  <2>. QED  BY <1>1, <2>3, <2>4 DEF RewardTotal, getOrCreateService, LoadOr, NewService
<1>2. CASE s \notin DOMAIN service
  BY <1>2 DEF handleRegisterInstance, RewardTotal, getOrCreateService, LoadOr, NewService
<1>. QED  BY <1>1, <1>2

LEMMA CreateKeepsTotals ==
    ASSUME Typed, NEW s, NEW m, handleCreateMultisigWithAgents(s, m)
    PROVE  \A x : RewardTotal(x)' = RewardTotal(x)
<1>. PICK old, row : old = getOrCreateService(s) /\ row = Deployed(s)
  OBVIOUS
<1>. PICK next : next = [row EXCEPT !.agentSafe = m]
  OBVIOUS
<1>1. old \in ServiceRow
  BY LoadedService
<1>2. /\ row.totalOlasRewardsClaimed = old.totalOlasRewardsClaimed
      /\ "totalOlasRewardsClaimed" \in DOMAIN row
  BY <1>1 DEF Deployed, ServiceRow
<1>3. next.totalOlasRewardsClaimed = row.totalOlasRewardsClaimed
  BY <1>2
<1>4. service' = Put(service, s, next)
  BY DEF handleCreateMultisigWithAgents
<1>. QED  BY <1>2, <1>3, <1>4, TotalsAfterPut DEF RewardTotal

LEMMA TerminateKeepsTotals ==
    ASSUME Typed, NEW s, handleTerminateService(s) PROVE \A x : RewardTotal(x)' = RewardTotal(x)
<1>. PICK old : old = getOrCreateService(s)
  OBVIOUS
<1>. PICK next : next = [old EXCEPT !.state = "TERMINATED"]
  OBVIOUS
<1>1. old \in ServiceRow
  BY LoadedService
<1>2. next.totalOlasRewardsClaimed = old.totalOlasRewardsClaimed
  BY <1>1 DEF ServiceRow
<1>3. service' = Put(service, s, next)
  BY DEF handleTerminateService
<1>. QED  BY <1>2, <1>3, TotalsAfterPut DEF RewardTotal

LEMMA StakedKeepsTotals ==
    ASSUME Typed, handleServiceStaked PROVE \A x : RewardTotal(x)' = RewardTotal(x)
<1>. PICK s, owner, p, m : s = due.service /\ owner = due.owner /\ p = due.proxy /\ m = multisig[s]
  OBVIOUS
<1>. PICK old, row : old = getOrCreateService(s) /\ row = StakedRow(s, owner, p)
  OBVIOUS
<1>. PICK next : next = [row EXCEPT !.agentSafe = m]
  OBVIOUS
<1>1. old \in ServiceRow
  BY LoadedService
<1>2. /\ row.totalOlasRewardsClaimed = old.totalOlasRewardsClaimed
      /\ "totalOlasRewardsClaimed" \in DOMAIN row
  BY <1>1 DEF StakedRow, ServiceRow
<1>3. next.totalOlasRewardsClaimed = row.totalOlasRewardsClaimed
  BY <1>2
<1>4. service' = Put(service, s, next)
  BY DEF handleServiceStaked, StakedRow
<1>. QED  BY <1>2, <1>3, <1>4, TotalsAfterPut DEF RewardTotal

\* A reward is paid to a service and booked.
LEMMA RewardPaid ==
    ASSUME Typed, RewardsInv, PearlAmounts, NEW s \in Services, NEW amount \in Nat, NEW row,
           service' = Put(service, s, row), row.totalOlasRewardsClaimed = RewardTotal(s) + amount,
           paid' = [paid EXCEPT ![s] = @ + amount], UNCHANGED day,
           addDailyOlasReward(s, amount) \/ (amount = 0 /\ UNCHANGED daily)
    PROVE  RewardsInv'
<1>0. /\ day \in 0 .. MaxDay /\ paid \in [Services -> Nat] /\ MaxDay \in Nat
      /\ PartialFn(daily, Services \X (0 .. MaxDay), DailyRow)
  BY PearlAmounts DEF Typed, TypeOK
<1>1. RewardTotal(s)' = RewardTotal(s) + amount /\ \A x : x # s => RewardTotal(x)' = RewardTotal(x)
  BY TotalsAfterPut
<1>2. paid'[s] = paid[s] + amount /\ \A x \in Services : x # s => paid'[x] = paid[x]
  BY <1>0
<1>3. /\ \A x \in Services : BucketsRight(x, daily, RewardTotal(x), paid[x])
      /\ \A x \in Services : \A d \in BucketDays(daily, x) : d <= day
  BY DEF RewardsInv
<1>4. RewardTotal(s) = paid[s] /\ RewardTotal(s) \in Nat
  BY <1>0, <1>3 DEF BucketsRight
<1>5. CASE addDailyOlasReward(s, amount)
  <2>. PICK row2, t, t2, total, d : /\ row2 = DailyRowAfter(s, amount) /\ t = daily /\ t2 = daily'
                                    /\ total = RewardTotal(s) /\ d = day
    OBVIOUS
  <2>1. t2 = Put(t, <<s, d>>, row2)
    BY <1>5 DEF addDailyOlasReward
  <2>2. \A k \in DOMAIN t : t[k].olasRewardsClaimed \in Nat
    BY <1>0 DEF PartialFn, DailyRow
  <2>3. /\ row2.olasRewardsClaimed =
              (IF <<s, d>> \in DOMAIN t THEN t[<<s, d>>].olasRewardsClaimed ELSE 0) + amount
        /\ row2.cumulativeOlasRewardsClaimed = total + amount
    BY DEF DailyRowAfter, LoadOr, RewardTotal
  <2>4. BucketsRight(s, t, total, total) /\ \A e \in BucketDays(t, s) : e <= d
    BY <1>3, <1>4
  <2>5. /\ BucketsRight(s, t2, total + amount, total + amount)
        /\ \A e \in BucketDays(t2, s) : e <= d
    BY <1>0, <1>4, <2>1, <2>2, <2>3, <2>4, BucketAdded
  <2>6. ASSUME NEW x \in Services, x # s
        PROVE  BucketsRight(x, t2, RewardTotal(x), paid[x]) /\ BucketDays(t2, x) = BucketDays(t, x)
    BY <1>3, <2>1, <2>6, BucketOfOther
  <2>7. ASSUME NEW x \in Services
        PROVE  BucketsRight(x, daily', RewardTotal(x)', paid'[x])
    <3>1. CASE x = s
      BY <1>1, <1>2, <1>4, <2>5, <3>1
    <3>2. CASE x # s
      BY <1>1, <1>2, <2>6, <3>2
    <3>. QED  BY <3>1, <3>2
  <2>8. \A x \in Services : \A e \in BucketDays(daily', x) : e <= day'
    BY <1>3, <2>5, <2>6
  <2>. QED  BY <2>7, <2>8 DEF RewardsInv
<1>6. CASE amount = 0 /\ UNCHANGED daily
  <2>1. \A x \in Services : RewardTotal(x)' = RewardTotal(x) /\ paid'[x] = paid[x]
    BY <1>0, <1>1, <1>2, <1>4, <1>6
  <2>2. ASSUME NEW x \in Services
        PROVE  BucketsRight(x, daily', RewardTotal(x)', paid'[x])
    BY <1>3, <1>6, <2>1
  <2>3. \A x \in Services : \A e \in BucketDays(daily', x) : e <= day'
    BY <1>3, <1>6
  <2>. QED  BY <2>2, <2>3 DEF RewardsInv
<1>. QED  BY <1>5, <1>6

LEMMA RewardsStay ==
    ASSUME PearlAmounts, IInv, Typed, RewardsInv, [Next]_vars PROVE RewardsInv'
<1>0. day \in Int /\ MaxDay \in Nat
  BY PearlAmounts DEF Typed
<1>1. ASSUME UNCHANGED <<daily, paid, day>>, \A x : RewardTotal(x)' = RewardTotal(x) PROVE RewardsInv'
  BY <1>0, <1>1, NothingPaid
<1>2. ASSUME UNCHANGED service PROVE \A x : RewardTotal(x)' = RewardTotal(x)
  BY <1>2 DEF RewardTotal, getOrCreateService, LoadOr, NewService
<1>3. CASE AdvanceDay
  <2>1. day' = day + 1 /\ UNCHANGED <<daily, paid, service>>
    BY <1>3 DEF AdvanceDay, store
  <2>2. \A x : RewardTotal(x)' = RewardTotal(x)
    BY <1>2, <2>1
  <2>3. day' \in Int /\ day <= day'
    BY <1>0, <2>1
  <2>. QED  BY <1>0, <2>1, <2>2, <2>3, NothingPaid
<1>4. CASE handleServiceStaked
  BY <1>1, <1>4, StakedKeepsTotals DEF handleServiceStaked, chain
<1>5. CASE handleAnyUnstake
  <2>. PICK s, amount, old : s = due.service /\ amount = due.reward /\ old = getOrCreateService(s)
    OBVIOUS
  <2>. PICK row : row = Unstaked(old, amount)
    OBVIOUS
  <2>0. /\ due.kind = "unstaked" /\ service' = Put(service, s, row)
        /\ IF amount > 0 THEN addDailyOlasReward(s, amount) ELSE UNCHANGED daily
        /\ paid' = [paid EXCEPT ![s] = @ + amount] /\ UNCHANGED day
    BY <1>5 DEF handleAnyUnstake
  <2>1. DueUnstake
    BY <2>0 DEF IInv, Due, DueStake, NoLog
  <2>2. s \in Services /\ amount \in Nat
    BY <2>0, <2>1 DEF DueUnstake, Typed, IInv, Rows
  <2>3. old \in ServiceRow
    BY LoadedService
  <2>4. row.totalOlasRewardsClaimed = RewardTotal(s) + amount
    BY <2>3 DEF Unstaked, ServiceRow, RewardTotal
  <2>5. addDailyOlasReward(s, amount) \/ (amount = 0 /\ UNCHANGED daily)
    BY <2>0, <2>2
  <2>. QED  BY <2>0, <2>2, <2>4, <2>5, RewardPaid
<1>6. CASE handleSafeOwnerChange
  BY <1>1, <1>2, <1>6 DEF handleSafeOwnerChange, chain
<1>7. CASE \E p \in Proxies : handleInstanceCreated(p)
  BY <1>1, <1>2, <1>7 DEF handleInstanceCreated, logs
<1>8. ASSUME NEW s \in Services,
              \/ \E to \in Holders : TransferNft(s, to)
              \/ \E op \in Operators : handleRegisterInstance(s, op)
              \/ \E m \in Safes : handleCreateMultisigWithAgents(s, m)
              \/ handleTerminateService(s)
              \/ \E p \in Proxies : Stake(s, p)
              \/ \E amount \in RewardAmounts : handleRewardClaimed(s, amount)
              \/ \E amount \in RewardAmounts \cup {0} : Unstake(s, amount)
      PROVE  RewardsInv'
  <2>1. ASSUME NEW to, handleServiceNftTransfer(s, to), UNCHANGED <<paid, day>> PROVE RewardsInv'
    <3>1. UNCHANGED daily
      BY <2>1 DEF handleServiceNftTransfer
    <3>2. \A x : RewardTotal(x)' = RewardTotal(x)
      BY <2>1, NftKeepsTotals
    <3>. QED  BY <1>1, <2>1, <3>1, <3>2
  <2>2. ASSUME NEW to, TransferNft(s, to) PROVE RewardsInv'
    BY <2>1, <2>2 DEF TransferNft
  <2>3. ASSUME NEW op, handleRegisterInstance(s, op) PROVE RewardsInv'
    BY <1>1, <2>3, RegisterKeepsTotals DEF handleRegisterInstance
  <2>4. ASSUME NEW m, handleCreateMultisigWithAgents(s, m) PROVE RewardsInv'
    BY <1>1, <2>4, CreateKeepsTotals DEF handleCreateMultisigWithAgents
  <2>5. CASE handleTerminateService(s)
    BY <1>1, <2>5, TerminateKeepsTotals DEF handleTerminateService
  <2>6. ASSUME NEW p, Stake(s, p) PROVE RewardsInv'
    BY <2>1, <2>6 DEF Stake
  <2>7. ASSUME NEW amount \in RewardAmounts, handleRewardClaimed(s, amount) PROVE RewardsInv'
    <3>. PICK old : old = getOrCreateService(s)
      OBVIOUS
    <3>. PICK row : row = [old EXCEPT !.totalOlasRewardsClaimed = @ + amount]
      OBVIOUS
    <3>0. amount \in Nat
      BY PearlAmounts
    <3>1. /\ service' = Put(service, s, row) /\ paid' = [paid EXCEPT ![s] = @ + amount]
          /\ addDailyOlasReward(s, amount) /\ UNCHANGED day
      BY <2>7 DEF handleRewardClaimed
    <3>2. old \in ServiceRow
      BY LoadedService
    <3>3. row.totalOlasRewardsClaimed = RewardTotal(s) + amount
      BY <3>2 DEF ServiceRow, RewardTotal
    <3>. QED  BY <3>0, <3>1, <3>3, RewardPaid
  <2>8. ASSUME NEW amount, Unstake(s, amount) PROVE RewardsInv'
    BY <2>1, <2>8 DEF Unstake
  <2>. QED  BY <1>8, <2>2, <2>3, <2>4, <2>5, <2>6, <2>7, <2>8
<1>9. CASE \E m \in Safes, o \in Eoas :
              \/ AddOwner(m, o) \/ RemoveOwner(m, o)
              \/ \E new \in Eoas : SwapOwner(m, o, new)
  BY <1>1, <1>2, <1>9 DEF AddOwner, RemoveOwner, SwapOwner, ChangeOwners, store
<1>10. CASE UNCHANGED vars
  BY <1>1, <1>2, <1>10 DEF vars, chain, store
<1>. QED  BY <1>3, <1>4, <1>5, <1>6, <1>7, <1>8, <1>9, <1>10 DEF Next

-----------------------------------------------------------------------------
(* The theorem about the rows. *)

\* Rows have their types, a Master Safe's owner list is the Safe's once its logs are handled,
\* and the rewards of a service add up per day, in total and to what the staking proxies paid
\* (schema.graphql, safe.ts 25-67, staking-proxy.ts).
THEOREM RowsAlwaysSound == Spec => []RowsSound
<1>. DEFINE Inv == IInv /\ Typed /\ OwnersInv /\ RewardsInv
<1>1. Assumptions
  BY PearlNone, PearlKinds, PearlOwners DEF Assumptions
<1>2. Init => Inv
  BY InitIInv, InitTyped, InitOwners, InitRewards
<1>3. Inv /\ [Next]_vars => Inv'
  <2>1. ASSUME Inv, [Next]_vars PROVE IInv' /\ Typed' /\ OwnersInv' /\ RewardsInv'
    <3>1. LogTyped
      BY <2>1 DEF OwnersInv
    <3>2. IInv'
      BY <1>1, <2>1, Inductive
    <3>3. Typed'
      BY <1>1, <2>1, <3>1, PearlAmounts, TypedStep
    <3>4. OwnersInv'
      BY <1>1, <2>1, OwnersStays
    <3>5. RewardsInv'
      BY <2>1, PearlAmounts, RewardsStay
    <3>. QED  BY <3>2, <3>3, <3>4, <3>5
  <2>. QED  BY <2>1
<1>4. Inv => RowsSound
  BY OwnersImplies, RewardsImplies DEF RowsSound, Typed
<1>. QED  BY <1>2, <1>3, <1>4, PTL DEF Spec
=============================================================================
