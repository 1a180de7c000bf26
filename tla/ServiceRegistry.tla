--------------------------- MODULE ServiceRegistry ---------------------------
(***************************************************************************)
(* service-registry: services, the agents registered in them, the Safes    *)
(* they are deployed with, the executions of those Safes counted per agent *)
(* and per day, and the ERC-8004 identities linked to services.            *)
(*                                                                         *)
(* The registry contracts and the Safes are external.  A service goes from *)
(* registration of agent instances to deployment with a Safe, can be       *)
(* terminated, and starts over; services in Early were registered before   *)
(* the first indexed block.                                                *)
(***************************************************************************)
EXTENDS Counters, Sequences, SequencesExt

CONSTANTS
    Services, Early, Safes, Agents, Operators,
    Identities,         \* ids of ERC-8004 agents
    Keys, Values,       \* what MetadataSet may set, and to what
    DayLength,          \* ticks
    MaxNow, MaxSlots, MaxTerms, MaxTx,  \* bounds: clock, instances, terminations, executions
    None

\* What the constants must satisfy (MCLedgers assumes it of its instances).
RegistryAssumption == /\ Early \subseteq Services /\ None \notin Services \cup Safes \cup Agents \cup Identities
                      /\ DayLength \in Nat \ {0} /\ MaxNow \in Nat

VARIABLES
    \* The chain (external).
    now, stage, slots, safeOf,
    terms,              \* how often a service was terminated
    deployedBy,         \* Safe -> service and latest agents of its last deployment, and
                        \*         whether that service was indexed
    \* The store.
    service, registration, multisig, operator,
    activity,           \* DailyServiceActivity
    uniqueAgents,       \* DailyUniqueAgents, with the DailyUniqueAgent rows as links
    agentDay,           \* DailyAgentPerformance, with the DailyAgentMultisig rows
    activeMultisigs,    \* DailyActiveMultisigs, with the DailyActiveMultisig rows
    performance,        \* AgentPerformance
    global,
    identity, metadata  \* ERC8004Agent, ERC8004Metadata

chain == <<now, stage, slots, safeOf, terms, deployedBy>>
daily == <<activity, uniqueAgents, agentDay, activeMultisigs, performance>>
erc8004 == <<identity, metadata>>
vars == <<chain, service, registration, multisig, operator, daily, global, erc8004>>

Day(t) == t \div DayLength

NewService == [agentIds |-> <<>>, multisig |-> None, erc8004Agent |-> None]

-----------------------------------------------------------------------------
(* Services and their agents. *)

getOrCreateService(s) == LoadOr(service, s, NewService)

handleCreateService(s) ==
    /\ stage[s] = "none"
    /\ stage' = [stage EXCEPT ![s] = "open"]
    /\ service' = Put(service, s, getOrCreateService(s))
    /\ UNCHANGED <<now, slots, safeOf, terms, deployedBy, registration, multisig, operator,
                   daily, global, erc8004>>

\* Seeded fault: a registration that exists keeps its timestamp.
FirstRegistration(s, a) == LoadOr(registration, <<s, a>>, now)

createOrUpdateAgentRegistration(s, a) == now

WithAgent(agentIds, a) == IF Contains(agentIds, a) THEN agentIds ELSE Append(agentIds, a)

updateUniqueOperators(o) ==
    /\ operator' = operator \cup {o}
    /\ global' = IF o \in operator THEN global ELSE Add(global, [totalOperators |-> 1])

handleRegisterInstance(s, a, o) ==
    /\ stage[s] = "open" /\ Cardinality(slots[s]) < MaxSlots
    /\ slots' = [slots EXCEPT ![s] = @ \cup {[agent |-> a, at |-> now]}]
    /\ registration' = Put(registration, <<s, a>>, createOrUpdateAgentRegistration(s, a))
    /\ service' = Put(service, s, [getOrCreateService(s) EXCEPT !.agentIds = WithAgent(@, a)])
    /\ updateUniqueOperators(o)
    /\ UNCHANGED <<now, stage, safeOf, terms, deployedBy, multisig, daily, erc8004>>

-----------------------------------------------------------------------------
(* Deployment and termination. *)

\* The first of agentIds whose registration is the latest; None if there is none.
getMostRecentAgentId(s, agentIds) ==
    LET known == {i \in DOMAIN agentIds : /\ <<s, agentIds[i]>> \in DOMAIN registration
                                          /\ registration[<<s, agentIds[i]>>] \in 1..now}
        at(i) == registration[<<s, agentIds[i]>>]
        latest == {i \in known : \A j \in known : at(j) <= at(i)}
    IN  IF known = {} THEN None ELSE agentIds[CHOOSE i \in latest : \A j \in latest : i <= j]

\* Seeded fault: the Safe stands for every agent of the service.
AllAgents(s, agentIds) == agentIds

CreditedAgents(s, agentIds) ==
    IF getMostRecentAgentId(s, agentIds) = None
    THEN agentIds ELSE <<getMostRecentAgentId(s, agentIds)>>

\* The agents a deployment may be credited to: those registered last.
LatestOf(S) == {r.agent : r \in {x \in S : \A y \in S : y.at <= x.at}}

\* A Safe of no deployed service: a new one, or one the owners deploy again.
handleCreateMultisig(s, safe) ==
    /\ stage[s] = "open" /\ slots[s] # {}
    /\ \A t \in Services : stage[t] = "deployed" => safeOf[t] # safe
    /\ stage' = [stage EXCEPT ![s] = "deployed"]
    /\ safeOf' = [safeOf EXCEPT ![s] = safe]
    /\ deployedBy' = [deployedBy EXCEPT ![safe] = [service |-> s, agents |-> LatestOf(slots[s]),
                                                indexed |-> s \in DOMAIN service]]
    /\ IF s \in DOMAIN service
       THEN /\ service' = [service EXCEPT ![s].multisig = safe]
            /\ multisig' = Put(multisig, safe,
                               [serviceId |-> s,
                                agentIds |-> CreditedAgents(s, service[s].agentIds)])
       ELSE UNCHANGED <<service, multisig>>
    /\ UNCHANGED <<now, slots, terms, registration, operator, daily, global, erc8004>>

handleTerminateService(s) ==
    /\ stage[s] \in {"open", "deployed"} /\ terms < MaxTerms
    /\ terms' = terms + 1
    /\ stage' = [stage EXCEPT ![s] = "open"]
    /\ slots' = [slots EXCEPT ![s] = {}]
    /\ service' = IF s \in DOMAIN service
                  THEN [service EXCEPT ![s].agentIds = <<>>, ![s].multisig = None]
                  ELSE service
    /\ UNCHANGED <<now, safeOf, deployedBy, registration, multisig, operator, daily, global,
                   erc8004>>

-----------------------------------------------------------------------------
(* Executions.  A row of a day holds its count and the links that make it. *)

NewDay == [count |-> 0, links |-> {}]
NewAgentDay == [txCount |-> 0, activeMultisigCount |-> 0, links |-> {}]

Linked(row, counter, x) ==
    IF x \in row.links THEN row
    ELSE [Add(row, counter) EXCEPT !.links = @ \cup {x}]

updateDailyActivity(s, agentIds) == activity' = Put(activity, <<Day(now), s>>, agentIds)

updateDailyUniqueAgents(agentIds) ==
    LET row == LoadOr(uniqueAgents, Day(now), NewDay)
        new == ToSet(agentIds) \ row.links
    IN  uniqueAgents' = Put(uniqueAgents, Day(now), [count |-> row.count + Cardinality(new),
                                                     links |-> row.links \cup new])

updateDailyAgentPerformance(agentIds, safe) ==
    LET row(k) == Add(LoadOr(agentDay, k, NewAgentDay), [txCount |-> 1])
        agents == ToSet(agentIds)
        today == {<<Day(now), a>> : a \in agents}
    IN  /\ agentDay' = [k \in DOMAIN agentDay \cup today |->
                           IF k \in today THEN Linked(row(k), [activeMultisigCount |-> 1], safe)
                           ELSE agentDay[k]]
        /\ performance' = [a \in DOMAIN performance \cup agents |->
                              LoadOr(performance, a, 0) + IF a \in agents THEN 1 ELSE 0]

\* Seeded fault: the day's count grows with every execution.
CountedAgain(safe) ==
    activeMultisigs' = Put(activeMultisigs, Day(now),
                           [Add(LoadOr(activeMultisigs, Day(now), NewDay), [count |-> 1])
                               EXCEPT !.links = @ \cup {safe}])

updateDailyActiveMultisigs(safe) ==
    activeMultisigs' = Put(activeMultisigs, Day(now),
                           Linked(LoadOr(activeMultisigs, Day(now), NewDay), [count |-> 1], safe))

updateGlobalMetrics == global' = [Add(global, [txCount |-> 1]) EXCEPT !.lastUpdated = now]

\* The template watches the Safes of handleCreateMultisig and no others.
Executed(safe) ==
    /\ global.txCount < MaxTx
    /\ safe \in DOMAIN multisig
    /\ multisig[safe].serviceId \in DOMAIN service
    /\ updateDailyActivity(multisig[safe].serviceId, multisig[safe].agentIds)
    /\ updateDailyUniqueAgents(multisig[safe].agentIds)
    /\ updateDailyAgentPerformance(multisig[safe].agentIds, safe)
    /\ updateDailyActiveMultisigs(safe)
    /\ updateGlobalMetrics
    /\ UNCHANGED <<chain, service, registration, multisig, operator, erc8004>>

handleExecutionSuccess(safe) == Executed(safe)

handleExecutionFromModuleSuccess(safe) == Executed(safe)

-----------------------------------------------------------------------------
(* ERC-8004 identities. *)

\* Seeded fault: an identity that has metadata keeps it as it is.
DefaultsOnceForAll(i, s) ==
    metadata' = IF \E k \in DOMAIN metadata : k[1] = i THEN metadata
                ELSE Put(Put(metadata, <<i, "serviceRegistry">>, s), <<i, "ecosystem">>, "Olas")

initializeERC8004DefaultMetadata(i, s) ==
    metadata' = Put(Put(metadata, <<i, "serviceRegistry">>, s), <<i, "ecosystem">>, "Olas")

handleServiceAgentLinked(s, i) ==
    /\ stage[s] # "none"
    /\ s \in DOMAIN service
    /\ identity' = Put(identity, i, LoadOr(identity, i, None))
    /\ service' = [service EXCEPT ![s].erc8004Agent = i]
    /\ initializeERC8004DefaultMetadata(i, s)
    /\ UNCHANGED <<chain, registration, multisig, operator, daily, global>>

handleAgentWalletSet(i, safe) ==
    /\ identity' = Put(identity, i, safe)
    /\ UNCHANGED <<chain, service, registration, multisig, operator, daily, global, metadata>>

handleMetadataSet(i, key, value) ==
    /\ metadata' = Put(metadata, <<i, key>>, value)
    /\ UNCHANGED <<chain, service, registration, multisig, operator, daily, global, identity>>

-----------------------------------------------------------------------------
Tick ==
    /\ now < MaxNow
    /\ now' = now + 1
    /\ UNCHANGED <<stage, slots, safeOf, terms, deployedBy, service, registration, multisig, operator,
                   daily, global, erc8004>>

Init ==
    /\ now = 1
    /\ stage = [s \in Services |-> IF s \in Early THEN "open" ELSE "none"]
    /\ slots \in [Services -> {{}} \cup {{[agent |-> a, at |-> 0]} : a \in Agents}]
    /\ \A s \in Services : slots[s] = {} <=> s \notin Early
    /\ safeOf = [s \in Services |-> None]
    /\ terms = 0 /\ deployedBy = [x \in Safes |-> None]
    /\ service = NoRows /\ registration = NoRows /\ multisig = NoRows /\ operator = {}
    /\ activity = NoRows /\ uniqueAgents = NoRows /\ agentDay = NoRows
    /\ activeMultisigs = NoRows /\ performance = NoRows
    /\ global = [txCount |-> 0, lastUpdated |-> 0, totalOperators |-> 0]
    /\ identity = NoRows /\ metadata = NoRows

Next ==
    \/ Tick
    \/ \E s \in Services :
          \/ handleCreateService(s)
          \/ \E a \in Agents, o \in Operators : handleRegisterInstance(s, a, o)
          \/ \E x \in Safes : handleCreateMultisig(s, x)
          \/ handleTerminateService(s)
          \/ \E i \in Identities : handleServiceAgentLinked(s, i)
    \/ \E x \in Safes : handleExecutionSuccess(x) \/ handleExecutionFromModuleSuccess(x)
    \/ \E i \in Identities, x \in Safes : handleAgentWalletSet(i, x)
    \/ \E i \in Identities, k \in Keys, v \in Values : handleMetadataSet(i, k, v)

Spec == Init /\ [][Next]_vars

-----------------------------------------------------------------------------
(* Properties. *)

\* Every counter is what the rows under it say: a day's counts are its links, an
\* agent's transactions are those of its days, the system's are those of its agents
\* (an execution is credited to one agent, "to prevent double counting").
CountsMatchLinks ==
    /\ \A d \in DOMAIN uniqueAgents :
          /\ uniqueAgents[d].count = Cardinality(uniqueAgents[d].links)
          /\ uniqueAgents[d].links = {k[2] : k \in {x \in DOMAIN agentDay : x[1] = d}}
    /\ \A d \in DOMAIN activeMultisigs :
          /\ activeMultisigs[d].count = Cardinality(activeMultisigs[d].links)
          /\ activeMultisigs[d].links =
                 UNION {agentDay[k].links : k \in {x \in DOMAIN agentDay : x[1] = d}}
    /\ \A k \in DOMAIN agentDay :
          agentDay[k].activeMultisigCount = Cardinality(agentDay[k].links)

TransactionsAddUp ==
    LET perf(a) == performance[a]
        tx(k) == agentDay[k].txCount
    IN  /\ global.txCount = SumOver(DOMAIN performance, perf)
        /\ \A a \in DOMAIN performance :
              performance[a] = SumOver({k \in DOMAIN agentDay : k[2] = a}, tx)
        /\ global.totalOperators = Cardinality(operator)

ActivityAddsUp == CountsMatchLinks /\ TransactionsAddUp

\* A Safe counts for the service of its last deployment and for one agent, of those
\* registered last for that deployment: also after the service is terminated, when
\* its own row forgets Safe and agents, and after the Safe went to another service.
CreditGoesToLatest ==
    \A x \in DOMAIN multisig :
       LET last == deployedBy[x]
       IN  last.indexed =>
              /\ multisig[x].serviceId = last.service
              /\ Len(multisig[x].agentIds) = 1 /\ multisig[x].agentIds[1] \in last.agents
              /\ (stage[last.service] = "deployed" /\ safeOf[last.service] = x) =>
                     service[last.service].multisig = x

\* Whoever links an identity finds it: its row and its default metadata exist.
IdentitiesResolve ==
    \A s \in DOMAIN service :
       LET i == service[s].erc8004Agent
       IN  i # None => /\ i \in DOMAIN identity
                       /\ {<<i, "ecosystem">>, <<i, "serviceRegistry">>} \subseteq DOMAIN metadata
=============================================================================
