-------------------------- MODULE BabydegenPortfolio --------------------------
(***************************************************************************)
(* babydegen (Base): the trading agents' Safes, what was put into them and *)
(* taken out, their token balances, the portfolio of each, its snapshot at *)
(* the first polled block of every UTC day, and the metrics of the whole   *)
(* population made from a day's snapshots.                                 *)
(*                                                                         *)
(* The registry contract, the Safes and the tokens are external: `real' is *)
(* what the Safes hold.  So are the rows of the positions, which           *)
(* BabydegenPositions models: here a position is worth one ETH, and its    *)
(* row shows the price it was last valued at.  A tick is the distance of   *)
(* two polled blocks.                                                      *)
(***************************************************************************)
EXTENDS Counters, Sequences, SequencesExt

CONSTANTS
    Ids, Excluded, OtherIds,    \* service ids; EXCLUDED_SERVICE_IDS; ids of other agents
    Safes, Operators, Outsiders,
    Contracts,                  \* of the operators and outsiders, those that have code
    USDC, WETH, ETH,            \* tokens; ETH is the native currency
    Prices,                     \* of one ETH in USD
    DayLength, Window, LifetimePositions,   \* ticks; days; positions
    MaxNow, MaxFlows, MaxPositions, MaxDeployments,    \* bounds
    None

\* Operators and outsiders are no Safes of the agents; the tokens are three addresses.
ASSUME PortfolioAssumption ==
    /\ Safes \cap (Operators \cup Outsiders) = {}
    /\ USDC # WETH /\ USDC # ETH /\ WETH # ETH
    /\ Excluded \subseteq Ids /\ OtherIds \subseteq Ids /\ None \notin Safes \cup Operators
    /\ DayLength \in Nat \ {0} /\ Window \in Nat \ {0} /\ Prices \subseteq Nat

VARIABLES
    \* The chain (external).
    now, price,
    operatorOf, safeOf,     \* service id -> operator of its instances, its Safe while deployed
    real,                   \* Safe -> token -> what it holds
    early,                  \* Safe -> token -> what it held when its first service was made
    flow,                   \* Safe -> USD from and to its operator and EOAs since then
    flows, deployments,     \* how many of each there were
    \* The store.
    registration, serviceIndex, service,
    registry,               \* ServiceRegistry.serviceAddresses
    watched,                \* the Safes of the template
    balance, funding, portfolio, snapshot, metric,
    position                \* Safe -> rows of its positions (BabydegenPositions)

chain == <<now, price, operatorOf, safeOf, real, early, flow, flows, deployments>>
services == <<registration, serviceIndex, service, registry, watched>>
vars == <<chain, services, balance, funding, portfolio, snapshot, metric, position>>

Tokens == {USDC, WETH, ETH}
Accounts == Safes \cup Operators \cup Outsiders
Day(t) == t \div DayLength
PriceOf(token, p) == IF token = USDC THEN 1 ELSE p

-----------------------------------------------------------------------------
(* Portfolios. *)

NewPortfolio ==
    [firstTradingTimestamp |-> 0, firstFundingEthPrice |-> 0, lastSnapshotTimestamp |-> 0,
     initialValue |-> 0, uninvestedValue |-> 0, totalWithdrawnUsd |-> 0, positionsValue |-> 0,
     totalPositions |-> 0, totalClosedPositions |-> 0]
NewFunding == [totalInUsd |-> 0, totalOutUsd |-> 0, totalWithdrawnUsd |-> 0, netUsd |-> 0]
NewBalance == [balance |-> 0, balanceUSD |-> 0]

ensureAgentPortfolio(x) == LoadOr(portfolio, x, NewPortfolio)

calculateUninvestedValue(rows, x) ==
    LET usd(token) == LoadOr(rows, <<x, token>>, NewBalance).balanceUSD IN SumOver(Tokens, usd)

\* The row of the portfolio from the rows of balances and positions.
Measured(row, x, balances, positions) ==
    LET fb == LoadOr(funding, x, NewFunding)
    IN  [row EXCEPT !.initialValue = fb.netUsd, !.totalWithdrawnUsd = fb.totalWithdrawnUsd,
                    !.uninvestedValue = calculateUninvestedValue(balances, x),
                    !.positionsValue = positions[x].usd,
                    !.totalPositions = positions[x].active,
                    !.totalClosedPositions = positions[x].closed]

FinalValue(row) == row.positionsValue + row.uninvestedValue + row.totalWithdrawnUsd

calculatePortfolioMetrics(x, balances) ==
    Put(portfolio, x, Measured(ensureAgentPortfolio(x), x, balances, position))

-----------------------------------------------------------------------------
(* Services. *)

isServiceExcluded(id) == id \in Excluded

registerServiceForSnapshots(x) == IF Contains(registry, x) THEN registry ELSE Append(registry, x)

handleRegisterInstance(id, o) ==
    /\ safeOf[id] = None
    /\ operatorOf' = [operatorOf EXCEPT ![id] = o]
    /\ IF id \in OtherIds \/ isServiceExcluded(id)
       THEN UNCHANGED <<registration, service>>
       ELSE /\ registration' = Put(registration, id, o)
            /\ service' = IF id \in DOMAIN serviceIndex
                          THEN [service EXCEPT ![serviceIndex[id]].operatorSafe = o]
                          ELSE service
    /\ UNCHANGED <<now, price, safeOf, real, early, flow, flows, deployments, serviceIndex,
                   registry, watched, balance, funding, portfolio, snapshot, metric, position>>

\* A Safe that is known, deployed for the service of any id.
Redeployed(id, x) ==
    /\ x \in DOMAIN service
    /\ service' = [service EXCEPT ![x].operatorSafe = registration[id]]
    /\ serviceIndex' = IF id \in DOMAIN serviceIndex THEN Put(serviceIndex, id, x) ELSE serviceIndex
    /\ UNCHANGED <<early, registration, registry, watched, portfolio>>

\* A new Safe: its portfolio counts the time from here.
FirstDeployed(id, x) ==
    LET row == ensureAgentPortfolio(x)
        timed == IF row.firstTradingTimestamp = 0
                 THEN [row EXCEPT !.firstTradingTimestamp = now, !.firstFundingEthPrice = price]
                 ELSE row
    IN  /\ x \notin DOMAIN service
        /\ early' = [early EXCEPT ![x] = real[x]]
        /\ service' = Put(service, x, [serviceId |-> id, operatorSafe |-> registration[id],
                                       createdAt |-> now])
        /\ serviceIndex' = Put(serviceIndex, id, x)
        /\ portfolio' = Put(portfolio, x, timed)
        /\ registry' = registerServiceForSnapshots(x)
        /\ watched' = watched \cup {x, registration[id]}
        /\ UNCHANGED registration

handleCreateMultisigWithAgents(id, x) ==
    /\ operatorOf[id] # None /\ safeOf[id] = None /\ deployments < MaxDeployments
    /\ \A i \in Ids : safeOf[i] # x
    /\ safeOf' = [safeOf EXCEPT ![id] = x]
    /\ deployments' = deployments + 1
    /\ IF isServiceExcluded(id) \/ id \notin DOMAIN registration
       THEN UNCHANGED <<early, services, portfolio>>
       ELSE Redeployed(id, x) \/ FirstDeployed(id, x)
    /\ UNCHANGED <<now, price, operatorOf, real, flow, flows, balance, funding, snapshot, metric,
                   position>>

\* The owner ends a deployment, to start another: nothing of this subgraph hears of it.
Terminate(id) ==
    /\ safeOf[id] # None /\ deployments < MaxDeployments
    /\ safeOf' = [safeOf EXCEPT ![id] = None] /\ operatorOf' = [operatorOf EXCEPT ![id] = None]
    /\ UNCHANGED <<now, price, real, early, flow, flows, deployments, services, balance, funding,
                   portfolio, snapshot, metric, position>>

-----------------------------------------------------------------------------
(* Balances and funding. *)

\* No account without code has code later; the cached answer is the chain's.
isEOACached(a) == a \notin Contracts \cup Safes

isFundingSource(a, x) == a = service[x].operatorSafe \/ isEOACached(a)

\* Seeded fault: more can leave than is known to be there.
UpdatedUnclamped(rows, x, token, delta) ==
    LET sum == LoadOr(rows, <<x, token>>, NewBalance).balance + delta
    IN  Put(rows, <<x, token>>, [balance |-> sum, balanceUSD |-> sum * PriceOf(token, price)])

Updated(rows, x, token, delta) ==
    LET sum == LoadOr(rows, <<x, token>>, NewBalance).balance + delta
        kept == IF sum < 0 THEN 0 ELSE sum
    IN  Put(rows, <<x, token>>, [balance |-> kept, balanceUSD |-> kept * PriceOf(token, price)])

\* updateETHBalance and updateTokenBalance, of a Safe that has a service.
updateBalance(rows, x, token, delta) ==
    IF x \in DOMAIN service THEN Updated(rows, x, token, delta) ELSE rows

\* Seeded fault: a withdrawal reduces what was put in.
WithdrawnFromNet(fb, usd) == Add(fb, [totalWithdrawnUsd |-> usd, netUsd |-> -usd])

updateWithdrawalBalance(fb, usd) == Add(fb, [totalWithdrawnUsd |-> usd])

updateFundingBalance(fb, usd, deposit) ==
    IF deposit THEN Add(fb, [totalInUsd |-> usd, netUsd |-> usd])
    ELSE Add(fb, [totalOutUsd |-> usd, netUsd |-> -usd])

Funded(rows, x, usd) == Put(rows, x, updateFundingBalance(LoadOr(rows, x, NewFunding), usd, TRUE))

\* A watched account with code logs the ETH it receives.
Hears(to) == to \in watched /\ ~isEOACached(to)

\* What moves on the chain, and whether it counts as put in, returned or withdrawn.
Moves(token, from, to, v) ==
    LET has(x) == x \in DOMAIN service
        usd == v * PriceOf(token, price)
        in(x) == IF has(x) /\ x = to /\ token # WETH /\ isFundingSource(from, x) THEN usd ELSE 0
        out(x) == has(x) /\ x = from /\ isFundingSource(to, x)
        delta(x) == (IF x = to THEN v ELSE 0) - (IF x = from THEN v ELSE 0)
    IN  /\ flows < MaxFlows /\ flows' = flows + 1
        /\ from \in Safes => real[from][token] >= v
        /\ real' = [x \in Safes |-> [real[x] EXCEPT ![token] = @ + delta(x)]]
        /\ flow' = [x \in Safes |-> Add(flow[x],
                      [deposited |-> in(x),
                       returned |-> IF token = ETH /\ out(x) THEN usd ELSE 0,
                       seen |-> IF token = ETH /\ out(x) /\ Hears(to) THEN usd ELSE 0,
                       withdrawn |-> IF token = USDC /\ out(x) THEN usd ELSE 0])]
        /\ UNCHANGED <<now, price, operatorOf, safeOf, early, deployments>>

\* Seeded fault: a transfer is an arrival or a departure, never both.
ArrivalOrDeparture(token, from, to, v) ==
    IF to \in DOMAIN service THEN updateBalance(balance, to, token, v)
    ELSE updateBalance(balance, from, token, -v)

Transferred(token, from, to, v) ==
    updateBalance(updateBalance(balance, to, token, v), from, token, -v)

\* The portfolio is measured before the deposit is booked, and not at all when
\* tokens leave.
handleERC20Transfer(token, from, to, v) ==
    LET usd == v * PriceOf(token, price)
        arrives == to \in DOMAIN service
        deposits == arrives /\ token = USDC /\ isFundingSource(from, to)
        withdraws == from \in DOMAIN service /\ token = USDC /\ isFundingSource(to, from)
        paidIn == IF deposits THEN Funded(funding, to, usd) ELSE funding
    IN  /\ Moves(token, from, to, v)
        /\ balance' = Transferred(token, from, to, v)
        /\ portfolio' = IF arrives
                        THEN calculatePortfolioMetrics(to, updateBalance(balance, to, token, v))
                        ELSE portfolio
        /\ funding' = IF withdraws
                      THEN Put(paidIn, from, updateWithdrawalBalance(LoadOr(paidIn, from, NewFunding), usd))
                      ELSE paidIn
        /\ UNCHANGED <<services, snapshot, metric, position>>

\* ETH arrives at a Safe of the template: a service's own, or its operator's.
handleSafeReceived(from, to, v) ==
    LET usd == v * price
        returns == /\ to \notin DOMAIN service /\ from \in DOMAIN service
                   /\ to = service[from].operatorSafe
    IN  /\ funding' = IF to \in DOMAIN service /\ isFundingSource(from, to)
                      THEN Funded(funding, to, usd)
                      ELSE IF returns
                      THEN Put(funding, from,
                               updateFundingBalance(LoadOr(funding, from, NewFunding), usd, FALSE))
                      ELSE funding
        /\ balance' = IF to \in DOMAIN service THEN updateBalance(balance, to, ETH, v)
                      ELSE updateBalance(balance, from, ETH, -v)

\* ETH sent with a Safe's execution leaves inside the transaction: only a watched
\* Safe that receives it makes a log that a handler looks at.
SendETH(from, to, v) ==
    /\ Moves(ETH, from, to, v)
    /\ IF Hears(to) THEN handleSafeReceived(from, to, v) ELSE UNCHANGED <<funding, balance>>
    /\ UNCHANGED <<services, portfolio, snapshot, metric, position>>

\* An execution whose outer transaction carries v to account `to'; when that is
\* the Safe itself, the Safe receives it (external).
handleSafeEthTransfer(x, to, v) ==
    /\ flows < MaxFlows /\ flows' = flows + 1
    /\ x \in watched
    /\ real' = IF to = x THEN [real EXCEPT ![x][ETH] = @ + v] ELSE real
    /\ balance' = updateBalance(balance, x, ETH, -v)
    /\ funding' = IF x \in DOMAIN service /\ isFundingSource(to, x)
                  THEN Put(funding, x, updateFundingBalance(LoadOr(funding, x, NewFunding),
                                                            v * price, FALSE))
                  ELSE funding
    /\ UNCHANGED <<now, price, operatorOf, safeOf, early, flow, deployments, services, portfolio,
                   snapshot, metric, position>>

\* The position handlers open, close or revalue a position (external, see
\* BabydegenPositions); refreshPortfolio follows.
PositionChanged(x, row) ==
    /\ x \in DOMAIN service
    /\ position' = [position EXCEPT ![x] = row]
    /\ portfolio' = Put(portfolio, x, Measured(portfolio[x], x, balance, position'))
    /\ UNCHANGED <<chain, services, balance, funding, snapshot, metric>>

Opened(row) == [active |-> row.active + 1, closed |-> row.closed, usd |-> (row.active + 1) * price]
Closed(row) == [active |-> row.active - 1, closed |-> row.closed + 1, usd |-> (row.active - 1) * price]
-----------------------------------------------------------------------------
(* Snapshots: at the block of tick t, with its price p. *)

\* Seeded fault: the first snapshot waits for a day after an earlier one.
DueAfterFirst(x, t) ==
    /\ portfolio[x].lastSnapshotTimestamp > 0
    /\ Day(t) > Day(portfolio[x].lastSnapshotTimestamp)

\* Seeded fault: a snapshot is taken a day's length after the last one.
DueAfterADay(x, t) ==
    \/ portfolio[x].lastSnapshotTimestamp = 0
    \/ t > portfolio[x].lastSnapshotTimestamp + DayLength

isSnapshotDue(x, t) ==
    /\ x \in DOMAIN portfolio
    /\ \/ portfolio[x].lastSnapshotTimestamp = 0
       \/ Day(t) > Day(portfolio[x].lastSnapshotTimestamp)

\* Seeded fault: tokens keep the value of their last transfer.
NotRefreshed(due, p) == balance

refreshTokenBalanceUSDValues(due, p) ==
    [k \in DOMAIN balance |->
        IF k[1] \in due THEN [balance[k] EXCEPT !.balanceUSD = balance[k].balance * PriceOf(k[2], p)]
        ELSE balance[k]]

refreshAllActivePositions(due, p) ==
    [x \in Safes |-> IF x \in due THEN [position[x] EXCEPT !.usd = position[x].active * p]
                     ELSE position[x]]

UnrealisedPnL(row) ==
    IF row.initialValue > 0
    THEN ((FinalValue(row) - row.initialValue) * 100) \div row.initialValue ELSE 0

createPortfolioSnapshot(row) ==
    [initialValue |-> row.initialValue, finalValue |-> FinalValue(row),
     unrealisedPnL |-> UnrealisedPnL(row),
     positions |-> row.totalPositions + row.totalClosedPositions]

-----------------------------------------------------------------------------
(* The population of a day, from the snapshots of the Safes in `agents'. *)

\* Twice the median of the values of function v; zero when there is none.
calculateMedian(v) ==
    LET n == Cardinality(DOMAIN v)
        nth(k) == CHOOSE m \in {v[x] : x \in DOMAIN v} :
                     /\ Cardinality({x \in DOMAIN v : v[x] < m}) < k
                     /\ Cardinality({x \in DOMAIN v : v[x] <= m}) >= k
    IN  IF n = 0 THEN 0 ELSE nth((n + 1) \div 2) + nth(n \div 2 + 1)

calculate7DaysSMA(history) ==
    IF history = <<>> \/ Len(history) > Window THEN 0
    ELSE FoldLeft(+, 0, history) \div Len(history)

\* Seeded fault: the window lets one more day in.
WindowOfOneMore(history, median) ==
    LET longer == Append(history, median)
    IN  IF Len(longer) > Window + 1 THEN Tail(longer) ELSE longer

updateHistoricalArrays(history, median) ==
    LET longer == Append(history, median)
    IN  IF Len(longer) > Window THEN Tail(longer) ELSE longer

\* The day before has a row, or the history starts over.
getPreviousDailyPopulationMetric(d, field) ==
    IF d - 1 \in DOMAIN metric THEN metric[d - 1][field] ELSE <<>>

shouldExcludeFromProjectedROI(shot) == shot.initialValue < 1 /\ shot.finalValue = 0

getAllAgentSnapshotsForDay(rows, t) ==
    {x \in ToSet(registry) : /\ rows[x].lastSnapshotTimestamp > 0
                             /\ Day(rows[x].lastSnapshotTimestamp) = Day(t)}

getLifetimeActiveAgentSnapshots(agents, shot) ==
    {x \in agents : shot[x].positions > LifetimePositions}

calculateMedianAUM(agents) ==
    calculateMedian([x \in agents \cap DOMAIN funding |-> funding[x].netUsd])

calculateTotalFundedAUM(agents) ==
    LET net(x) == LoadOr(funding, x, NewFunding).netUsd IN SumOver(agents, net)

\* Whole ticks instead of days; Safes that started in this block do not count.
calculateAverageAgentDaysActive(rows, t) ==
    LET started == {x \in ToSet(registry) : rows[x].firstTradingTimestamp \in 1..(t - 1)}
        age(x) == t - rows[x].firstTradingTimestamp
    IN  IF started = {} THEN 0 ELSE SumOver(started, age) \div Cardinality(started)

MetricRow(rows, shot, agents, t) ==
    LET counted == {x \in agents : ~shouldExcludeFromProjectedROI(shot[x])}
        lifetime == getLifetimeActiveAgentSnapshots(agents, shot)
        medianPnL == calculateMedian([x \in counted |-> shot[x].unrealisedPnL])
        medianAUM == calculateMedianAUM(agents)
        historyOfPnL == updateHistoricalArrays(
            getPreviousDailyPopulationMetric(Day(t), "historicalMedianUnrealisedPnL"), medianPnL)
        historyOfAUM == updateHistoricalArrays(
            getPreviousDailyPopulationMetric(Day(t), "historicalMedianAUM"), medianAUM)
    IN  [totalAgents |-> Cardinality(agents), totalLifetimeActiveAgents |-> Cardinality(lifetime),
         medianUnrealisedPnL |-> medianPnL, medianAUM |-> medianAUM,
         medianLifetimeActiveAUM |-> calculateMedianAUM(lifetime),
         totalLifetimeActiveFundedAUM |-> calculateTotalFundedAUM(lifetime),
         totalFundedAUM |-> calculateTotalFundedAUM(ToSet(registry)),
         averageAgentDaysActive |-> calculateAverageAgentDaysActive(rows, t),
         historicalMedianUnrealisedPnL |-> historyOfPnL,
         sma7dUnrealisedPnL |-> calculate7DaysSMA(historyOfPnL),
         historicalMedianAUM |-> historyOfAUM, sma7dAUM |-> calculate7DaysSMA(historyOfAUM)]

\* Seeded fault: every snapshot of a day makes its row anew.
MetricReplaced(rows, shots, t) ==
    LET agents == getAllAgentSnapshotsForDay(rows, t)
        shot == [x \in agents |-> shots[<<x, rows[x].lastSnapshotTimestamp>>]]
    IN  Put(metric, Day(t), MetricRow(rows, shot, agents, t))

\* updateDailyPopulationMetricEntityWithEthAdjusted leaves a row that exists alone.
calculateGlobalMetrics(rows, shots, t) ==
    LET agents == getAllAgentSnapshotsForDay(rows, t)
        shot == [x \in agents |-> shots[<<x, rows[x].lastSnapshotTimestamp>>]]
    IN  IF agents = {} \/ Day(t) \in DOMAIN metric THEN metric
        ELSE Put(metric, Day(t), MetricRow(rows, shot, agents, t))

checkServicesForSnapshot(t, p) ==
    LET due == {x \in ToSet(registry) : isSnapshotDue(x, t)}
        measured(x) == Measured(portfolio[x], x, balance', position')
    IN  /\ balance' = refreshTokenBalanceUSDValues(due, p)
        /\ position' = refreshAllActivePositions(due, p)
        /\ portfolio' = [x \in DOMAIN portfolio |->
               IF x \in due THEN [measured(x) EXCEPT !.lastSnapshotTimestamp = t] ELSE portfolio[x]]
        /\ snapshot' = [k \in DOMAIN snapshot \cup {<<x, t>> : x \in due} |->
               IF k[1] \in due /\ k[2] = t THEN createPortfolioSnapshot(measured(k[1]))
               ELSE snapshot[k]]
        /\ metric' = IF due = {} THEN metric ELSE calculateGlobalMetrics(portfolio', snapshot', t)

\* The next polled block; the price of ETH may have changed by then.
handleBlock ==
    /\ now < MaxNow
    /\ now' = now + 1
    /\ price' \in Prices
    /\ checkServicesForSnapshot(now', price')
    /\ UNCHANGED <<operatorOf, safeOf, real, early, flow, flows, deployments, services, funding>>

-----------------------------------------------------------------------------
Init ==
    /\ now = 1 /\ price \in Prices
    /\ operatorOf = [i \in Ids |-> None] /\ safeOf = [i \in Ids |-> None]
    /\ real = [x \in Safes |-> [k \in Tokens |-> 0]] /\ early = real
    /\ flow = [x \in Safes |-> [deposited |-> 0, returned |-> 0, seen |-> 0, withdrawn |-> 0]]
    /\ flows = 0 /\ deployments = 0
    /\ registration = NoRows /\ serviceIndex = NoRows /\ service = NoRows
    /\ registry = <<>> /\ watched = {}
    /\ balance = NoRows /\ funding = NoRows /\ portfolio = NoRows
    /\ snapshot = NoRows /\ metric = NoRows
    /\ position = [x \in Safes |-> [active |-> 0, closed |-> 0, usd |-> 0]]

Next ==
    \/ handleBlock
    \/ \E id \in Ids : \/ \E o \in Operators : handleRegisterInstance(id, o)
                        \/ \E x \in Safes : handleCreateMultisigWithAgents(id, x)
                        \/ Terminate(id)
    \/ \E from, to \in Accounts :
          /\ from # to /\ (from \in Safes \/ to \in Safes)
          /\ \/ \E token \in {USDC, WETH} : handleERC20Transfer(token, from, to, 1)
             \/ SendETH(from, to, 1)
    \/ \E x \in Safes : handleSafeEthTransfer(x, x, 1)
    \/ \E x \in Safes :
          \/ /\ Total(position, "active") + Total(position, "closed") < MaxPositions
             /\ PositionChanged(x, Opened(position[x]))
          \/ /\ position[x].active > 0
             /\ PositionChanged(x, Closed(position[x]))

Spec == Init /\ [][Next]_vars

\* Blocks keep being made and graph-node calls the handler for each polled one; no other
\* step moves the clock, and the handler can always run.
BlocksGoOn == WF_now(now < MaxNow /\ now' = now + 1)

LiveSpec == Spec /\ BlocksGoOn

-----------------------------------------------------------------------------
(* Properties. *)

SnapshotTimes(x) == {k[2] : k \in {j \in DOMAIN snapshot : j[1] = x}}
FirstOfDay(d) ==
    LET times == {k[2] : k \in {j \in DOMAIN snapshot : Day(j[2]) = d}}
    IN  CHOOSE t \in times : \A u \in times : t <= u

\* Every Safe has one snapshot for every day from the first block polled after its
\* creation on, whatever happens to its service ("it now takes one snapshot per day
\* at UTC midnight").
SnapshottedDaily ==
    \A x \in DOMAIN service :
       /\ \A t \in SnapshotTimes(x) : t > service[x].createdAt
       /\ \A d \in 0..Day(now) :
             Cardinality({t \in SnapshotTimes(x) : Day(t) = d}) =
                IF now > service[x].createdAt /\ d >= Day(service[x].createdAt + 1) THEN 1 ELSE 0

\* Every day with snapshots has one population row, of the snapshots of the day's
\* first block that took any, and its history is the medians of the last days of the
\* window, none missing.
PopulationOfDay ==
    /\ DOMAIN metric = {Day(k[2]) : k \in DOMAIN snapshot}
    /\ \A d \in DOMAIN metric :
          LET agents == {x \in Safes : <<x, FirstOfDay(d)>> \in DOMAIN snapshot}
              since == {e \in DOMAIN metric : e <= d /\ e > d - Window}
              n == Cardinality(since)
          IN  /\ metric[d].totalAgents = Cardinality(agents)
              /\ metric[d].historicalMedianUnrealisedPnL =
                     [i \in 1..n |-> metric[d - n + i].medianUnrealisedPnL]
              /\ metric[d].historicalMedianAUM = [i \in 1..n |-> metric[d - n + i].medianAUM]

\* A snapshot shows its own moment: tokens and positions at the price of the block,
\* with what was put in and taken out until then.
ShownAtItsMoment ==
    \A k \in DOMAIN snapshot' \ DOMAIN snapshot :
       LET x == k[1]
           usd(token) == LoadOr(balance, <<x, token>>, NewBalance).balance * PriceOf(token, price')
       IN  /\ snapshot'[k].initialValue = flow[x].deposited - flow[x].seen
           /\ snapshot'[k].finalValue =
                  SumOver(Tokens, usd) + position[x].active * price' + flow[x].withdrawn

SnapshotsShowTheirMoment == [][ShownAtItsMoment]_vars

\* What is booked as put in, returned and withdrawn is what moved between the Safe
\* and its operator or EOAs at the prices of the moment, ETH returned counting when
\* it reaches a Safe that is watched.
FundingMirrorsChain ==
    \A x \in DOMAIN service :
       LET fb == LoadOr(funding, x, NewFunding)
       IN  /\ fb.totalInUsd = flow[x].deposited /\ fb.totalOutUsd = flow[x].seen
           /\ fb.totalWithdrawnUsd = flow[x].withdrawn
           /\ fb.netUsd = fb.totalInUsd - fb.totalOutUsd

\* The recorded balance of a token is never more than the Safe holds, and less by no
\* more than it held when its service was made; every move of a token is seen.
BalancesMirrorChain ==
    \A x \in DOMAIN service, token \in {USDC, WETH} :
       LET b == LoadOr(balance, <<x, token>>, NewBalance).balance
       IN  b \in (real[x][token] - early[x][token])..real[x][token] /\ b >= 0

MoneyMirrorsChain == FundingMirrorsChain /\ BalancesMirrorChain

\* A Safe known to the subgraph is snapshotted again and again, as long as blocks are.
EventuallySnapshotted ==
    \A x \in Safes : (x \in DOMAIN service /\ now < MaxNow) ~>
                      (x \in DOMAIN portfolio /\ portfolio[x].lastSnapshotTimestamp > 0
                         /\ Day(portfolio[x].lastSnapshotTimestamp) = Day(MaxNow))

\* "ETH transfers out (through ExecutionSuccess and ExecutionFromModuleSuccess events)
\* are now tracked for funding metrics" (safe.ts).
ReturnsTracked ==
    \A x \in DOMAIN service :
       LoadOr(funding, x, NewFunding).totalOutUsd = flow[x].returned

\* "Trigger portfolio recalculation for any token balance change" (tokenBalances.ts).
PortfolioFollowsBalances ==
    \A x \in DOMAIN portfolio :
       portfolio[x].uninvestedValue = calculateUninvestedValue(balance, x)
=============================================================================
