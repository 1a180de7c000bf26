-------------------------- MODULE PredictPolymarket --------------------------
(***************************************************************************)
(* predict-polymarket: the fills of the trader agents' orders, settled     *)
(* once when the question of their condition is resolved, and the claims,  *)
(* which arrive along three paths of contracts.                            *)
(*                                                                         *)
(* A condition is prepared for a question; its two outcome tokens become   *)
(* known from the preparation or from the old exchange.  A question id may *)
(* be prepared again for another condition.  The exchanges, the oracles,   *)
(* the conditional tokens and the service registry are external.           *)
(***************************************************************************)
EXTENDS PredictLedger, TLC, Sequences

CONSTANTS
    Safes, Services, AgentIds,
    Conditions, Questions,
    Fills,          \* what a fill may be: [amount, shares], both negative for a sell
    Adapters,       \* contracts that redeem for an agent
    MaxNow, DayLength, MaxBets, MaxRedemptions, MaxResolutions,    \* bounds
    None

Outcomes == {0, 1}
Draw == 2           \* stands for the winning index -1

ASSUME PolySorts == None \notin Conditions \cup Services \cup Safes /\ Adapters \cap Safes = {}
ASSUME PolyFills == \A x \in Fills : x.amount \in Int /\ x.shares \in Int
ASSUME PolyTime == DayLength \in Nat \ {0} /\ MaxNow \in Nat

VARIABLES
    \* The chain (external): time, conditions and their questions, questions
    \* announced, resolutions logged, registrations and deployments, the logs
    \* of a redemption that are still to be handled, what an agent was paid for
    \* the positions it is known to hold.
    now, prepared, announced, resolved, registered, deployed, logs, paid, redemptions,
    \* The store.
    traderService, traderAgent, bridge, tokenRegistry, question, resolution,
    marketParticipated, bet, participant, daily, global

chain == <<now, prepared, announced, resolved, registered, deployed>>
claims == <<logs, paid, redemptions>>
agents == <<traderService, traderAgent>>
markets == <<bridge, tokenRegistry, question, resolution>>
ledger == <<bet, participant, daily, global, marketParticipated>>
vars == <<chain, claims, agents, markets, ledger>>

Day(t) == t \div DayLength

\* The logs of a redemption are handled before anything else happens.
Quiet == logs = <<>>

-----------------------------------------------------------------------------
(* New rows. *)

NoTotals == [totalBets |-> 0, totalTraded |-> 0, totalTradedSettled |-> 0, totalPayout |-> 0]

NewService == [agentIds |-> {}, traderAgent |-> None]

NewAgent(s) == [traderService |-> s, active |-> FALSE, totalExpectedPayout |-> 0, totalBets |-> 0,
                totalTraded |-> 0, totalTradedSettled |-> 0, totalPayout |-> 0]

NewParticipant == [shares |-> [o \in Outcomes |-> 0], expectedPayout |-> 0, settled |-> FALSE,
                   bets |-> {}, createdAt |-> now, totalBets |-> 0, totalTraded |-> 0,
                   totalTradedSettled |-> 0, totalPayout |-> 0]

NewDay == [totalBets |-> 0, totalTraded |-> 0, totalPayout |-> 0, dailyTradedSettled |-> 0,
           dailyProfit |-> 0, profitParticipants |-> {}]

NewGlobal == [totalTraderAgents |-> 0, totalActiveTraderAgents |-> 0, totalExpectedPayout |-> 0,
              totalMarketsParticipated |-> 0, totalBets |-> 0, totalTraded |-> 0,
              totalTradedSettled |-> 0, totalPayout |-> 0]

-----------------------------------------------------------------------------
(* Services and agents. *)

ensureTraderService(s) == LoadOr(traderService, s, NewService)

handleRegisterInstance(s, id) ==
    /\ Quiet
    /\ registered' = registered \cup {<<s, id>>}
    /\ traderService' = Put(traderService, s, [ensureTraderService(s) EXCEPT !.agentIds = @ \cup {id}])
    /\ UNCHANGED <<now, prepared, announced, resolved, deployed, claims, traderAgent, markets,
                   ledger>>

\* Seeded fault: the service is linked only together with a new agent row.
LinkedWithAgent(s, safe) ==
    LET row == ensureTraderService(s) IN
    IF safe \in DOMAIN traderAgent THEN row ELSE [row EXCEPT !.traderAgent = safe]

\* The service keeps the first Safe it was deployed with.
LinkedService(s, safe) ==
    LET row == ensureTraderService(s) IN
    IF row.traderAgent # None THEN row ELSE [row EXCEPT !.traderAgent = safe]

handleCreateMultisigWithAgents(s, safe) ==
    /\ Quiet
    /\ deployed' = deployed \cup {<<s, safe>>}
    /\ traderService' = Put(traderService, s, LinkedService(s, safe))
    /\ IF safe \in DOMAIN traderAgent THEN UNCHANGED <<traderAgent, global>>
       ELSE /\ traderAgent' = Put(traderAgent, safe, NewAgent(s))
            /\ global' = Add(global, [totalTraderAgents |-> 1])
    /\ UNCHANGED <<now, prepared, announced, resolved, registered, claims, markets, bet,
                   participant, daily, marketParticipated>>

-----------------------------------------------------------------------------
(* Conditions, tokens, questions. *)

BothTokens(c) == [t \in {c} \X Outcomes |-> [condition |-> c, outcome |-> t[2]]]

\* The rows of tokens that have none yet.
WithTokens(c) == [t \in DOMAIN tokenRegistry \cup DOMAIN BothTokens(c) |->
                    LoadOr(tokenRegistry, t, BothTokens(c)[t])]

\* derives: the two calls that compute the token ids answer.
handleConditionPreparation(c, q, derives) ==
    /\ Quiet /\ c \notin DOMAIN prepared
    /\ prepared' = Put(prepared, c, q)
    /\ IF q \in DOMAIN bridge THEN UNCHANGED <<bridge, tokenRegistry>>
       ELSE /\ bridge' = Put(bridge, q, c)
            /\ tokenRegistry' = IF derives THEN WithTokens(c) ELSE tokenRegistry
    /\ UNCHANGED <<now, announced, resolved, registered, deployed, claims, agents, question,
                   resolution, ledger>>

\* The old exchange logs the pair of tokens, outcome 0 first.
handleTokenRegistered(c) ==
    /\ Quiet /\ c \in DOMAIN prepared
    /\ tokenRegistry' = IF <<c, 0>> \in DOMAIN tokenRegistry THEN tokenRegistry ELSE WithTokens(c)
    /\ UNCHANGED <<chain, claims, agents, bridge, question, resolution, ledger>>

\* known: the announced data names two outcomes.
Announce(q, known) ==
    /\ Quiet /\ q \notin announced /\ \E c \in DOMAIN prepared : prepared[c] = q
    /\ announced' = announced \cup {q}
    /\ question' = IF known /\ q \in DOMAIN bridge
                   THEN Put(question, bridge[q], [question |-> q, createdAt |-> now]) ELSE question
    /\ UNCHANGED <<now, prepared, resolved, registered, deployed, claims, agents, bridge,
                   tokenRegistry, resolution, ledger>>

handleQuestionInitialization(q, binary) == Announce(q, binary)

\* The questions of neg-risk markets have two outcomes.
handleQuestionPrepared(q) == Announce(q, TRUE)

-----------------------------------------------------------------------------
(* Fills: one order of an agent. *)

\* Seeded fault: a market is counted for every agent that enters it.
NewMarketsPerAgent(c) == 1

NewMarkets(c) == IF c \in marketParticipated THEN 0 ELSE 1

processTradeActivity(a, c, b, fill, outcome) ==
    LET k == <<a, c>>
        day == <<a, Day(now)>>
        traded == [totalBets |-> 1, totalTraded |-> fill.amount]
        row == Add(LoadOr(participant, k, NewParticipant), traded)
        counted == [totalActiveTraderAgents |-> IF traderAgent[a].active THEN 0 ELSE 1,
                    totalMarketsParticipated |->
                        IF k \in DOMAIN participant THEN 0 ELSE NewMarkets(c)]
    IN /\ global' = Add(Add(global, traded), counted)
       /\ traderAgent' = [traderAgent EXCEPT ![a] = [Add(@, traded) EXCEPT !.active = TRUE]]
       /\ participant' = Put(participant, k, [row EXCEPT !.bets = @ \cup {b},
                                                         !.shares[outcome] = @ + fill.shares])
       /\ marketParticipated' = marketParticipated \cup {c}
       /\ daily' = Put(daily, day, Add(LoadOr(daily, day, NewDay), traded))

Filled(a, c, outcome, fill) ==
    LET token == tokenRegistry[<<c, outcome>>]
        b == Cardinality(DOMAIN bet)
    IN /\ Quiet /\ a \in DOMAIN traderAgent /\ b < MaxBets
       /\ <<c, outcome>> \in DOMAIN tokenRegistry
       /\ bet' = Put(bet, b, [bettor |-> a, condition |-> token.condition,
                              outcome |-> token.outcome, amount |-> fill.amount,
                              shares |-> fill.shares, countedInProfit |-> FALSE])
       /\ processTradeActivity(a, token.condition, b, fill, token.outcome)
       /\ UNCHANGED <<chain, claims, traderService, markets>>

\* The old exchange tells a buy from a sell by the asset given, the new one by
\* a field; the rest is the same.
handleOrderFilled(a, c, outcome, fill) == Filled(a, c, outcome, fill)

handleOrderFilledV2(a, c, outcome, fill) == Filled(a, c, outcome, fill)

-----------------------------------------------------------------------------
(* Resolution. *)

\* Seeded fault: the winner is taken for the other outcome.
SettledSwapped(p, winner) ==
    [p EXCEPT !.expectedPayout = ExpectedPayout(p.shares, IF winner = Draw THEN Draw ELSE 1 - winner),
              !.totalTradedSettled = p.totalTraded, !.settled = TRUE]

Settled(p, winner) ==
    [p EXCEPT !.expectedPayout = ExpectedPayout(p.shares, winner),
              !.totalTradedSettled = p.totalTraded, !.settled = TRUE]

\* What a participant settled under the winner adds to its agent's totals.
SettlementDelta(p, winner) ==
    [totalTradedSettled |-> p.totalTraded - p.totalTradedSettled,
     totalExpectedPayout |-> ExpectedPayout(p.shares, winner)]

DayShare(p, winner) ==
    LET amount == p.totalTraded - p.totalTradedSettled IN
    [dailyTradedSettled |-> amount, dailyProfit |-> ExpectedPayout(p.shares, winner) - amount]

\* Seeded fault: the loop stops before the last participant.
ToSettleButOne(c) ==
    LET all == {k \in DOMAIN participant : k[2] = c} IN
    IF all = {} THEN {} ELSE all \ {CHOOSE k \in all : TRUE}

ToSettle(c) == {k \in DOMAIN participant : k[2] = c /\ ~participant[k].settled}

\* What the settlement of all of them adds to the global totals.
SettledTotals(due, winner) ==
    LET delta(k) == SettlementDelta(participant[k], winner)
    IN  [x \in {"totalTradedSettled", "totalExpectedPayout"} |->
            SumOver(due, LAMBDA k : delta(k)[x])]

SettleParticipants(c, winner) ==
    LET due == ToSettle(c)
        delta(k) == SettlementDelta(participant[k], winner)
        today(k) == <<k[1], Day(now)>>
        days == {today(k) : k \in due}
        credited(k) == [Add(LoadOr(daily, today(k), NewDay), DayShare(participant[k], winner))
                            EXCEPT !.profitParticipants = @ \cup {c}]
    IN /\ participant' = [k \in DOMAIN participant |->
                            IF k \in due THEN Settled(participant[k], winner) ELSE participant[k]]
       /\ traderAgent' = [a \in DOMAIN traderAgent |->
                            IF <<a, c>> \in due THEN Add(traderAgent[a], delta(<<a, c>>))
                            ELSE traderAgent[a]]
       /\ daily' = [d \in DOMAIN daily \cup days |->
                      IF d \in days THEN credited(<<d[1], c>>) ELSE daily[d]]
       /\ global' = Add(global, SettledTotals(due, winner))
       /\ bet' = [b \in DOMAIN bet |->
                    IF b \in UNION {participant[k].bets : k \in due}
                    THEN [bet[b] EXCEPT !.countedInProfit = TRUE] ELSE bet[b]]

\* Seeded fault: a second resolution is processed like the first.
IsResolvedNever(c) == FALSE

IsResolved(c) == c \in DOMAIN resolution

processMarketResolution(c, winner) ==
    IF IsResolved(c) THEN UNCHANGED <<resolution, traderAgent, bet, participant, daily, global>>
    ELSE /\ resolution' = Put(resolution, c, [winner |-> winner, at |-> now])
         /\ IF c \in DOMAIN question THEN SettleParticipants(c, winner)
            ELSE UNCHANGED <<traderAgent, bet, participant, daily, global>>

\* The same question may be logged as resolved more than once.
Resolve(q, winner) ==
    /\ Quiet /\ q \in announced /\ resolved[q] < MaxResolutions
    /\ resolved' = [resolved EXCEPT ![q] = @ + 1]
    /\ IF q \in DOMAIN bridge THEN processMarketResolution(bridge[q], winner)
       ELSE UNCHANGED <<resolution, traderAgent, bet, participant, daily, global>>
    /\ UNCHANGED <<now, prepared, announced, registered, deployed, claims, traderService, bridge,
                   tokenRegistry, question, marketParticipated>>

handleQuestionResolution(q, winner) == Resolve(q, winner)

\* Neg-risk markets resolve to yes, which is outcome 0, or to no.
handleOutcomeReported(q, isYes) == Resolve(q, IF isYes THEN 0 ELSE 1)

-----------------------------------------------------------------------------
(* Claims.  An agent redeems directly, through the neg-risk adapter or      *)
(* through a collateral adapter; the contracts on the way log it too, with  *)
(* the next contract as redeemer.                                           *)

Redeemers(a, adapters) == {<<a>>} \cup {<<x, a>> : x \in adapters}

Redeem(a, c, by) ==
    /\ Quiet /\ c \in DOMAIN prepared /\ resolved[prepared[c]] > 0
    /\ a \in DOMAIN traderAgent /\ redemptions < MaxRedemptions
    /\ redemptions' = redemptions + 1
    /\ logs' = [i \in DOMAIN by |-> [redeemer |-> by[i], condition |-> c]]
    /\ paid' = IF <<a, c>> \in DOMAIN participant /\ c \in DOMAIN question
               THEN [paid EXCEPT ![<<a, c>>] = @ + 1] ELSE paid
    /\ UNCHANGED <<chain, agents, markets, ledger>>

\* Seeded fault: the claim of an unknown redeemer goes to whoever holds shares.
ClaimantHolder(redeemer, c) ==
    IF redeemer \in Adapters
    THEN {a \in DOMAIN traderAgent : <<a, c>> \in DOMAIN participant}
    ELSE {redeemer} \cap DOMAIN traderAgent

\* The agent a log speaks of, if any.
Claimant(redeemer, c) ==
    {a \in {redeemer} \cap DOMAIN traderAgent :
        c \in DOMAIN question /\ <<a, c>> \in DOMAIN participant}

processRedemption ==
    LET c == logs[1].condition
        claimants == Claimant(logs[1].redeemer, c)
        payout == [totalPayout |-> 1]
    IN /\ ~Quiet
       /\ logs' = Tail(logs)
       /\ \/ claimants = {} /\ UNCHANGED <<traderAgent, participant, global, daily>>
          \/ \E a \in claimants :
                LET day == <<a, Day(now)>>
                IN /\ traderAgent' = [traderAgent EXCEPT ![a] = Add(@, payout)]
                   /\ participant' = [participant EXCEPT ![<<a, c>>] = Add(@, payout)]
                   /\ global' = Add(global, payout)
                   /\ daily' = Put(daily, day, Add(LoadOr(daily, day, NewDay), payout))
       /\ UNCHANGED <<chain, paid, redemptions, traderService, markets, bet, marketParticipated>>

Tick ==
    /\ Quiet /\ now < MaxNow /\ now' = now + 1
    /\ UNCHANGED <<prepared, announced, resolved, registered, deployed, claims, agents, markets,
                   ledger>>

Init ==
    /\ now = 0 /\ prepared = NoRows /\ announced = {}
    /\ resolved = [q \in Questions |-> 0]
    /\ registered = {} /\ deployed = {}
    /\ logs = <<>> /\ paid = [k \in Safes \X Conditions |-> 0] /\ redemptions = 0
    /\ traderService = NoRows /\ traderAgent = NoRows
    /\ bridge = NoRows /\ tokenRegistry = NoRows /\ question = NoRows /\ resolution = NoRows
    /\ marketParticipated = {} /\ bet = NoRows /\ participant = NoRows /\ daily = NoRows
    /\ global = NewGlobal

Next ==
    \/ \E s \in Services, i \in AgentIds : handleRegisterInstance(s, i)
    \/ \E s \in Services, a \in Safes : handleCreateMultisigWithAgents(s, a)
    \/ \E c \in Conditions, q \in Questions, b \in BOOLEAN : handleConditionPreparation(c, q, b)
    \/ \E c \in Conditions : handleTokenRegistered(c)
    \/ \E q \in Questions, b \in BOOLEAN : handleQuestionInitialization(q, b)
    \/ \E q \in Questions : handleQuestionPrepared(q)
    \/ \E a \in Safes, c \in Conditions, o \in Outcomes, x \in Fills :
          handleOrderFilled(a, c, o, x) \/ handleOrderFilledV2(a, c, o, x)
    \/ \E q \in Questions, w \in Outcomes \cup {Draw} : handleQuestionResolution(q, w)
    \/ \E q \in Questions, y \in BOOLEAN : handleOutcomeReported(q, y)
    \/ \E a \in Safes, c \in Conditions : \E by \in Redeemers(a, Adapters) : Redeem(a, c, by)
    \/ processRedemption
    \/ Tick

Spec == Init /\ [][Next]_vars

-----------------------------------------------------------------------------
(* Properties. *)

Totals == DOMAIN NoTotals
Times == 0 .. MaxNow
DaysRun == 0 .. Day(MaxNow)

\* Types of the rows.
TypeOK ==
    /\ now \in Times
    /\ PartialFn(traderService, Services, [agentIds : SUBSET AgentIds, traderAgent : Safes \cup {None}])
    /\ DOMAIN traderAgent \subseteq Safes
    /\ \A a \in DOMAIN traderAgent : traderAgent[a].traderService \in DOMAIN traderService
    /\ PartialFn(bridge, Questions, Conditions)
    /\ PartialFn(tokenRegistry, Conditions \X Outcomes, [condition : Conditions, outcome : Outcomes])
    /\ PartialFn(question, Conditions, [question : Questions, createdAt : Times])
    /\ PartialFn(resolution, Conditions, [winner : Outcomes \cup {Draw}, at : Times])
    /\ DOMAIN participant \subseteq (DOMAIN traderAgent) \X marketParticipated
    /\ DOMAIN daily \subseteq (DOMAIN traderAgent) \X DaysRun

Of(a, table) == {k \in DOMAIN table : k[1] = a}

\* The rows are well typed, the counters of an agent are the sums over its
\* participants and over its days, those of the global row the sums over the
\* agents, and every market, agent and active agent is counted once.
TotalsAgree ==
    /\ TypeOK
    /\ \A x \in Totals \cup {"totalExpectedPayout"} :
          global[x] = SumOver(DOMAIN traderAgent, LAMBDA a : traderAgent[a][x])
    /\ global.totalTraderAgents = Cardinality(DOMAIN traderAgent)
    /\ global.totalActiveTraderAgents =
          Cardinality({a \in DOMAIN traderAgent : traderAgent[a].active})
    /\ global.totalMarketsParticipated = Cardinality({k[2] : k \in DOMAIN participant})
    /\ \A a \in DOMAIN traderAgent :
          /\ \A x \in Totals :
                traderAgent[a][x] = SumOver(Of(a, participant), LAMBDA k : participant[k][x])
          /\ traderAgent[a].totalExpectedPayout =
                SumOver(Of(a, participant), LAMBDA k : participant[k].expectedPayout)
          /\ \A x \in {"totalBets", "totalTraded", "totalPayout"} :
                traderAgent[a][x] = SumOver(Of(a, daily), LAMBDA d : daily[d][x])
          /\ traderAgent[a].totalTradedSettled =
                SumOver(Of(a, daily), LAMBDA d : daily[d].dailyTradedSettled)

\* A participant is settled once, at the winner of the recorded resolution and
\* for exactly the bets that are counted; its profit is on the day of the
\* resolution.
SettlementExact ==
    \A k \in DOMAIN participant :
        LET p == participant[k]
            counted == {b \in p.bets : bet[b].countedInProfit}
            held(o) == SumOver({b \in counted : bet[b].outcome = o}, LAMBDA b : bet[b].shares)
        IN /\ p.settled <=> counted # {}
           /\ p.totalTradedSettled = SumOver(counted, LAMBDA b : bet[b].amount)
           /\ p.settled =>
                /\ k[2] \in DOMAIN resolution
                /\ p.expectedPayout = ExpectedPayout([o \in Outcomes |-> held(o)],
                                                     resolution[k[2]].winner)
                /\ k[2] \in daily[<<k[1], Day(resolution[k[2]].at)>>].profitParticipants

\* Everyone who traded a question's condition before it was resolved is
\* settled by the resolution.
NobodyForgotten ==
    \A k \in DOMAIN participant :
        LET c == k[2] IN
        /\ c \in DOMAIN resolution /\ c \in DOMAIN question
        /\ question[c].createdAt < resolution[c].at /\ participant[k].createdAt < resolution[c].at
        => participant[k].settled

\* A resolution is final: no later one, no fill and no claim changes what a
\* settled participant was settled at, nor the recorded winner.
ResolutionKept ==
    /\ \A c \in DOMAIN resolution : resolution'[c] = resolution[c]
    /\ \A k \in DOMAIN participant :
          participant[k].settled =>
             /\ participant'[k].expectedPayout = participant[k].expectedPayout
             /\ participant'[k].totalTradedSettled = participant[k].totalTradedSettled

ResolutionFinal == [][ResolutionKept]_vars

\* A claim is counted once, whatever path it took and however many contracts
\* logged it, and only for the agent that was paid.
PaidOnce ==
    Quiet => \A k \in DOMAIN participant : participant[k].totalPayout = paid[k]

\* The counters of bets, participants, agents, days and the global row agree, a participant
\* is settled once and exactly for what it traded, and a claim that up to three contracts
\* log is counted once (predict-polymarket/src/utils.ts).
CountersAgree == TotalsAgree /\ SettlementExact /\ PaidOnce

\* Every service has what the registry logged for it: all agent ids, and as
\* its agent the Safe of one of its own deployments.
CohortComplete ==
    /\ \A x \in registered : x[1] \in DOMAIN traderService /\ x[2] \in traderService[x[1]].agentIds
    /\ \A x \in deployed : /\ x[1] \in DOMAIN traderService
                           /\ x[2] \in DOMAIN traderAgent
                           /\ <<x[1], traderService[x[1]].traderAgent>> \in deployed
    /\ \A a \in DOMAIN traderAgent : <<traderAgent[a].traderService, a>> \in deployed

=============================================================================
