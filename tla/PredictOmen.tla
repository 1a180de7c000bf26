----------------------------- MODULE PredictOmen -----------------------------
(***************************************************************************)
(* predict-omen: bets of the trader agents on the markets of known         *)
(* creators, their settlement whenever the oracle of the market's question *)
(* is answered, the reversal of that settlement when another answer        *)
(* follows, and the payouts claimed in the end.                            *)
(*                                                                         *)
(* Reality.eth, the conditional tokens, the market maker factory and the   *)
(* service registry are external: they are the chain variables and the     *)
(* guards that order their logs.                                           *)
(***************************************************************************)
EXTENDS PredictLedger

CONSTANTS
    Safes, Services,
    Questions, Markets,
    Answers,            \* the oracle's answers; 0 and 1 name an outcome
    Buys,               \* what a buy may be: [amount, fee, tokens]
    Sells,              \* what a sell may be: [amount, fee, tokens]
    Payouts,            \* what a redemption may pay
    Scale,              \* probability 1 in fixed point, even
    Timeout, DayLength, \* ticks
    SameAnswerAgain,    \* may the best answer be given again, with a higher bond?
    Commitments,        \* may answers be committed to and revealed later?
    SharedQuestions,    \* may a question have several markets?
    MaxNow, MaxBets, MaxRedemptions,    \* bounds
    None

Outcomes == {0, 1}

ASSUME OmenSorts == None \notin Answers \cup Markets \cup Services /\ Outcomes \subseteq Answers
ASSUME OmenTime == Timeout \in Nat \ {0} /\ DayLength \in Nat \ {0} /\ MaxNow \in Nat
                   /\ None \notin Nat
ASSUME OmenTrades == /\ Buys \cup Sells \subseteq [amount : Nat, fee : Nat, tokens : Nat]
                     /\ Payouts \subseteq Nat /\ Scale \in Nat \ {0} /\ MaxRedemptions \in Nat

VARIABLES
    \* The chain (external).
    now, asked, prepared, market, oracle,
    \* The store.
    traderService, traderAgent, question, condition, fpmm, totalQuestions,
    bet, participant, daily, global, redemptions

chain == <<now, asked, prepared, market, oracle>>
agents == <<traderService, traderAgent>>
markets == <<question, condition, fpmm, totalQuestions>>
ledger == <<bet, participant, daily, global>>
vars == <<chain, agents, markets, ledger, redemptions>>

Day(t) == t \div DayLength

-----------------------------------------------------------------------------
(* New rows.  Two fields are not in the store: creditedOn remembers the day  *)
(* a participant was last settled on, repeated that a market's best answer   *)
(* was given again while another one could still follow.                     *)

NoTotals == [totalBets |-> 0, totalTraded |-> 0, totalFees |-> 0, totalPayout |-> 0,
             totalTradedSettled |-> 0, totalFeesSettled |-> 0]

NewAgent(s) == [serviceId |-> s, active |-> FALSE, totalExpectedPayout |-> 0,
                totalBets |-> 0, totalTraded |-> 0, totalFees |-> 0, totalPayout |-> 0,
                totalTradedSettled |-> 0, totalFeesSettled |-> 0]

NewParticipant == [balance |-> [o \in Outcomes |-> 0], expectedPayout |-> 0, brierSum |-> 0,
                   brierCount |-> 0, settled |-> FALSE, bets |-> {}, creditedOn |-> None,
                   totalBets |-> 0, totalTraded |-> 0, totalFees |-> 0, totalPayout |-> 0,
                   totalTradedSettled |-> 0, totalFeesSettled |-> 0]

NewDay == [totalBets |-> 0, totalTraded |-> 0, totalFees |-> 0, totalPayout |-> 0,
           dailyTradedSettled |-> 0, dailyFeesSettled |-> 0, dailyProfit |-> 0,
           brierSum |-> 0, brierCount |-> 0, profitParticipants |-> {}]

NewGlobal == [totalTraderAgents |-> 0, totalActiveTraderAgents |-> 0,
              totalExpectedPayout |-> 0, totalBets |-> 0, totalTraded |-> 0,
              totalFees |-> 0, totalPayout |-> 0, totalTradedSettled |-> 0,
              totalFeesSettled |-> 0]

-----------------------------------------------------------------------------
(* Agents. *)

\* An instance of one of the trader agents is registered for the service.
handleRegisterInstance(s) ==
    /\ traderService' = traderService \cup {s}
    /\ UNCHANGED <<chain, traderAgent, markets, ledger, redemptions>>

\* Seeded fault: a Safe that is deployed again starts anew.
MultisigAgain(s, safe) ==
    /\ traderAgent' = Put(traderAgent, safe, NewAgent(s))
    /\ global' = Add(global, [totalTraderAgents |-> 1])

MultisigDeployed(s, safe) ==
    IF safe \in DOMAIN traderAgent THEN UNCHANGED <<traderAgent, global>>
    ELSE /\ traderAgent' = Put(traderAgent, safe, NewAgent(s))
         /\ global' = Add(global, [totalTraderAgents |-> 1])

handleCreateMultisigWithAgents(s, safe) ==
    /\ s \in traderService
    /\ MultisigDeployed(s, safe)
    /\ UNCHANGED <<chain, traderService, markets, bet, participant, daily, redemptions>>

-----------------------------------------------------------------------------
(* Questions, conditions, markets. *)

\* byCreator: the asker is one of the known creators.
handleLogNewQuestion(q, byCreator) ==
    /\ q \notin asked
    /\ asked' = asked \cup {q}
    /\ question' = IF byCreator THEN Put(question, q, [market |-> None]) ELSE question
    /\ UNCHANGED <<now, prepared, market, oracle, agents, condition, fpmm, totalQuestions,
                   ledger, redemptions>>

ConditionsWith(q) == IF q \in DOMAIN question THEN condition \cup {q} ELSE condition

handleConditionPreparation(q) ==
    /\ q \in asked \ prepared
    /\ prepared' = prepared \cup {q}
    /\ condition' = ConditionsWith(q)
    /\ UNCHANGED <<now, asked, market, oracle, agents, question, fpmm, totalQuestions,
                   ledger, redemptions>>

\* listed: made by a known creator and not blacklisted.
handleFixedProductMarketMakerCreation(f, q, listed) ==
    /\ f \notin DOMAIN market /\ q \in prepared
    /\ ~SharedQuestions => \A g \in DOMAIN market : market[g].question # q
    /\ market' = Put(market, f, [question |-> q, listed |-> listed])
    /\ IF listed
       THEN /\ fpmm' = Put(fpmm, f, [currentAnswer |-> None, answeredAt |-> None,
                                     finalizedAt |-> None, createdAt |-> now,
                                     repeated |-> FALSE])
            /\ question' = IF q \in condition
                           THEN [question EXCEPT ![q].market = f] ELSE question
            /\ totalQuestions' = totalQuestions + 1
       ELSE UNCHANGED <<fpmm, question, totalQuestions>>
    /\ UNCHANGED <<now, asked, prepared, oracle, agents, condition, ledger, redemptions>>

-----------------------------------------------------------------------------
(* Trades. *)

\* Price of a trade in fixed point; 0 when there are no tokens.
computeImpliedProbability(amount, tokens) ==
    IF tokens = 0 THEN 0 ELSE (amount * Scale) \div tokens

processTradeActivity(a, f, b, amount, fee, outcome, tokens) ==
    LET k == <<a, f>>
        traded == [totalBets |-> 1, totalTraded |-> amount, totalFees |-> fee]
        row == Add(LoadOr(participant, k, NewParticipant), traded)
        counted == [totalActiveTraderAgents |-> IF traderAgent[a].active THEN 0 ELSE 1]
    IN /\ global' = Add(Add(global, traded), counted)
       /\ traderAgent' = [traderAgent EXCEPT ![a] = [Add(@, traded) EXCEPT !.active = TRUE]]
       /\ participant' = Put(participant, k, [row EXCEPT !.bets = @ \cup {b},
                                                         !.balance[outcome] = @ + tokens])
       /\ daily' = Put(daily, <<a, Day(now)>>,
                       Add(LoadOr(daily, <<a, Day(now)>>, NewDay), traded))

\* A trade of a Safe that is an agent, in a market whose template is running.
Trade(a, f, amount, fee, outcome, tokens, price) ==
    LET b == Cardinality(DOMAIN bet) IN
    /\ a \in DOMAIN traderAgent /\ f \in DOMAIN fpmm
    /\ b < MaxBets
    /\ processTradeActivity(a, f, b, amount, fee, outcome, tokens)
    /\ bet' = Put(bet, b, [bettor |-> a, market |-> f, outcome |-> outcome, amount |-> amount,
                           fee |-> fee, tokens |-> tokens, impliedProbability |-> price,
                           day |-> Day(now), countedInProfit |-> FALSE])
    /\ UNCHANGED <<chain, traderService, markets, redemptions>>

handleBuy(a, f, outcome, buy) ==
    Trade(a, f, buy.amount, buy.fee, outcome, buy.tokens,
          computeImpliedProbability(buy.amount, buy.tokens))

handleSell(a, f, outcome, sell) ==
    Trade(a, f, -sell.amount, sell.fee, outcome, -sell.tokens,
          computeImpliedProbability(sell.amount, sell.tokens))

-----------------------------------------------------------------------------
(* Settlement. *)

actualForOutcome(outcome, answer) ==
    IF IsInvalid(answer) THEN Scale \div 2 ELSE IF outcome = answer THEN Scale ELSE 0

brierContribution(price, actual) == ((price - actual) * (price - actual)) \div Scale

\* Only buys at a recorded price are forecasts.
Forecasts(bets) == {b \in bets : bet[b].impliedProbability > 0 /\ bet[b].amount > 0}

BrierSum(bets, answer) ==
    SumOver(Forecasts(bets), LAMBDA b : brierContribution(bet[b].impliedProbability,
                                          actualForOutcome(bet[b].outcome, answer)))

\* Seeded fault: the sum of a settlement before is kept.
SettledKeepsBrier(p, answer) ==
    [p EXCEPT !.expectedPayout = ExpectedPayout(p.balance, answer),
              !.totalTradedSettled = p.totalTraded, !.totalFeesSettled = p.totalFees,
              !.brierSum = IF p.settled THEN @ ELSE BrierSum(p.bets, answer),
              !.brierCount = Cardinality(Forecasts(p.bets)), !.settled = TRUE,
              !.creditedOn = Day(now)]

\* The participant, settled or settled anew under the answer.
Settled(p, answer) ==
    [p EXCEPT !.expectedPayout = ExpectedPayout(p.balance, answer),
              !.totalTradedSettled = p.totalTraded, !.totalFeesSettled = p.totalFees,
              !.brierSum = BrierSum(p.bets, answer),
              !.brierCount = Cardinality(Forecasts(p.bets)), !.settled = TRUE,
              !.creditedOn = Day(now)]

\* What the settlement adds to the totals of the agent and of everyone.
SettlementDelta(p, answer) ==
    [totalTradedSettled |-> p.totalTraded - p.totalTradedSettled,
     totalFeesSettled |-> p.totalFees - p.totalFeesSettled,
     totalExpectedPayout |-> ExpectedPayout(p.balance, answer) - p.expectedPayout]

\* What a settled participant contributes to the statistics of one day.
DayShare(p) ==
    [dailyProfit |-> p.expectedPayout - p.totalTradedSettled - p.totalFeesSettled,
     dailyTradedSettled |-> p.totalTradedSettled, dailyFeesSettled |-> p.totalFeesSettled,
     brierSum |-> p.brierSum, brierCount |-> p.brierCount]

Reversed(row, p, f) == [Add(row, Negated(DayShare(p))) EXCEPT !.profitParticipants = @ \ {f}]

Credited(row, p, f) == [Add(row, DayShare(p)) EXCEPT !.profitParticipants = @ \cup {f}]

\* Seeded fault: the same answer again counts as another one.
IsReAnswerAlways(f, answer) == fpmm[f].currentAnswer # None

IsReAnswer(f, answer) == fpmm[f].currentAnswer \notin {None, answer}

\* The participants of the market that an answer settles, and those among
\* them whose earlier settlement it reverses.
Touched(f, answer) ==
    {k \in DOMAIN participant : k[2] = f /\ (participant[k].settled => IsReAnswer(f, answer))}
Redone(f, answer) == {k \in Touched(f, answer) : participant[k].settled}

\* Seeded fault: the reversal looks for the day of the new answer.
DayReversedNow(f) == Day(now)

\* The day the previous settlement is looked for.
DayReversed(f) == IF fpmm[f].answeredAt # None THEN Day(fpmm[f].answeredAt) ELSE Day(now)

DailyAfterAnswer(f, answer) ==
    LET row(d) ==
            LET k == <<d[1], f>>
                old == LoadOr(daily, d, NewDay)
                reversed == IF k \in Redone(f, answer) /\ d[2] = DayReversed(f)
                            THEN Reversed(old, participant[k], f) ELSE old
            IN IF k \in Touched(f, answer) /\ d[2] = Day(now)
               THEN Credited(reversed, Settled(participant[k], answer), f) ELSE reversed
    IN [d \in DOMAIN daily \cup {<<k[1], Day(now)>> : k \in Touched(f, answer)}
                           \cup {<<k[1], DayReversed(f)>> : k \in Redone(f, answer)} |-> row(d)]

\* What the settlement of all of them adds to the global totals.
SettledTotals(touched, answer) ==
    LET delta(k) == SettlementDelta(participant[k], answer)
    IN  [x \in {"totalTradedSettled", "totalFeesSettled", "totalExpectedPayout"} |->
            SumOver(touched, LAMBDA k : delta(k)[x])]

SettleMarket(f, answer) ==
    LET touched == Touched(f, answer)
        delta(k) == SettlementDelta(participant[k], answer)
    IN /\ participant' = [k \in DOMAIN participant |->
                            IF k \in touched THEN Settled(participant[k], answer)
                            ELSE participant[k]]
       /\ traderAgent' = [a \in DOMAIN traderAgent |->
                            IF <<a, f>> \in touched THEN Add(traderAgent[a], delta(<<a, f>>))
                            ELSE traderAgent[a]]
       /\ daily' = DailyAfterAnswer(f, answer)
       /\ global' = Add(global, SettledTotals(touched, answer))
       /\ bet' = [b \in DOMAIN bet |->
                    IF b \in UNION {participant[k].bets : k \in touched}
                    THEN [bet[b] EXCEPT !.countedInProfit = TRUE] ELSE bet[b]]

\* The market that an answer to the question reaches.
LinkedMarket(q) == IF q \in DOMAIN question THEN question[q].market ELSE None

\* finalAt: when the answer becomes final as things stand.
RecordAnswer(q, answer, finalAt) ==
    LET f == LinkedMarket(q) IN
    IF f = None THEN UNCHANGED <<traderAgent, fpmm, ledger>>
    ELSE /\ fpmm' = [fpmm EXCEPT ![f].currentAnswer = answer, ![f].answeredAt = now,
                                 ![f].finalizedAt = finalAt,
                                 ![f].repeated = @ \/ (finalAt > now /\ fpmm[f].currentAnswer = answer)]
         /\ SettleMarket(f, answer)

-----------------------------------------------------------------------------
(* Reality.eth (external) and the handlers of its logs. *)

IsFinal(q) == ~oracle[q].pending /\ oracle[q].finalAt # None /\ oracle[q].finalAt <= now

Open(q) == q \in asked /\ ~IsFinal(q) /\ ~oracle[q].pending

OnlyAnswer == UNCHANGED <<now, asked, prepared, market, traderService, question, condition,
                          totalQuestions, redemptions>>

\* Seeded fault: the timeout counts from the first answer.
FinalAtFirst(q) == IF oracle[q].finalAt # None THEN oracle[q].finalAt ELSE now + Timeout

FinalAt(q) == now + Timeout

\* An answer is given in the open.
handleLogNewAnswer(q, answer) ==
    /\ Open(q)
    /\ answer = oracle[q].best => SameAnswerAgain
    /\ oracle' = [oracle EXCEPT ![q] = [best |-> answer, at |-> now, finalAt |-> now + Timeout,
                                        pending |-> FALSE, committed |-> FALSE]]
    /\ RecordAnswer(q, answer, FinalAt(q))
    /\ OnlyAnswer

\* The log of a commitment is ignored, and nothing listens to its revelation.
CommitAnswer(q) ==
    /\ Commitments /\ Open(q)
    /\ oracle' = [oracle EXCEPT ![q].committed = TRUE]
    /\ UNCHANGED <<traderAgent, fpmm, ledger>> /\ OnlyAnswer

RevealAnswer(q, answer) ==
    /\ oracle[q].committed /\ ~IsFinal(q)
    /\ oracle' = [oracle EXCEPT ![q] = [best |-> answer, at |-> now, finalAt |-> now + Timeout,
                                        pending |-> @.pending, committed |-> FALSE]]
    /\ UNCHANGED <<traderAgent, fpmm, ledger>> /\ OnlyAnswer

handleLogNotifyOfArbitrationRequest(q) ==
    /\ Open(q) /\ oracle[q].best # None
    /\ oracle' = [oracle EXCEPT ![q].pending = TRUE]
    /\ fpmm' = LET f == LinkedMarket(q) IN
               IF f = None THEN fpmm ELSE [fpmm EXCEPT ![f].finalizedAt = None]
    /\ UNCHANGED <<traderAgent, ledger>> /\ OnlyAnswer

\* Seeded fault: the finalization is not handled.
FinalAtAsAnswered(q) == now + Timeout

FinalAtArbitration(q) == now

\* The arbitrator's transaction logs the answer and its finalization: both
\* handlers run, so the second's finalizedAt is the one that stays.
handleLogFinalize(q, answer) ==
    /\ oracle[q].pending
    /\ oracle' = [oracle EXCEPT ![q] = [best |-> answer, at |-> now, finalAt |-> now,
                                        pending |-> FALSE, committed |-> FALSE]]
    /\ RecordAnswer(q, answer, FinalAtArbitration(q))
    /\ OnlyAnswer

-----------------------------------------------------------------------------
(* Claims. *)

handlePayoutRedemption(a, q, payout) ==
    LET f == IF q \in condition THEN LinkedMarket(q) ELSE None
        paid == [totalPayout |-> payout]
        day == <<a, Day(now)>>
    IN /\ IsFinal(q) /\ redemptions < MaxRedemptions
       /\ f # None
       /\ redemptions' = redemptions + 1
       /\ IF <<a, f>> \in DOMAIN participant
          THEN /\ traderAgent' = [traderAgent EXCEPT ![a] = Add(@, paid)]
               /\ participant' = [participant EXCEPT ![<<a, f>>] = Add(@, paid)]
               /\ global' = Add(global, paid)
               /\ daily' = Put(daily, day, Add(LoadOr(daily, day, NewDay), paid))
          ELSE UNCHANGED <<traderAgent, participant, global, daily>>
       /\ UNCHANGED <<chain, traderService, markets, bet>>

Tick ==
    /\ now < MaxNow /\ now' = now + 1
    /\ UNCHANGED <<asked, prepared, market, oracle, agents, markets, ledger, redemptions>>

Init ==
    /\ now = 0 /\ asked = {} /\ prepared = {} /\ market = NoRows
    /\ oracle = [q \in Questions |-> [best |-> None, at |-> None, finalAt |-> None,
                                      pending |-> FALSE, committed |-> FALSE]]
    /\ traderService = {} /\ traderAgent = NoRows
    /\ question = NoRows /\ condition = {} /\ fpmm = NoRows /\ totalQuestions = 0
    /\ bet = NoRows /\ participant = NoRows /\ daily = NoRows
    /\ global = NewGlobal /\ redemptions = 0

Next ==
    \/ \E s \in Services : handleRegisterInstance(s)
    \/ \E s \in Services, a \in Safes : handleCreateMultisigWithAgents(s, a)
    \/ \E q \in Questions, b \in BOOLEAN : handleLogNewQuestion(q, b)
    \/ \E q \in Questions : handleConditionPreparation(q)
    \/ \E f \in Markets, q \in Questions, b \in BOOLEAN :
          handleFixedProductMarketMakerCreation(f, q, b)
    \/ \E a \in Safes, f \in Markets, o \in Outcomes, x \in Buys : handleBuy(a, f, o, x)
    \/ \E a \in Safes, f \in Markets, o \in Outcomes, x \in Sells : handleSell(a, f, o, x)
    \/ \E q \in Questions, x \in Answers :
          handleLogNewAnswer(q, x) \/ RevealAnswer(q, x) \/ handleLogFinalize(q, x)
    \/ \E q \in Questions : CommitAnswer(q) \/ handleLogNotifyOfArbitrationRequest(q)
    \/ \E a \in Safes, q \in Questions, x \in Payouts : handlePayoutRedemption(a, q, x)
    \/ Tick

Spec == Init /\ [][Next]_vars

-----------------------------------------------------------------------------
(* Properties. *)

Totals == DOMAIN NoTotals
Times == 0 .. MaxNow
DaysRun == 0 .. Day(MaxNow)

IsCounters(row, fields) == \A x \in fields : row[x] \in Int

\* Types of the rows and of the chain.
TypeOK ==
    /\ now \in Times /\ prepared \subseteq asked /\ asked \subseteq Questions
    /\ PartialFn(market, Markets, [question : Questions, listed : BOOLEAN])
    /\ PartialFn(oracle, Questions, [best : Answers \cup {None}, at : Times \cup {None},
                                     finalAt : Nat \cup {None}, pending : BOOLEAN,
                                     committed : BOOLEAN])
    /\ traderService \subseteq Services
    /\ DOMAIN traderAgent \subseteq Safes
    /\ \A a \in DOMAIN traderAgent : /\ traderAgent[a].serviceId \in Services
                                     /\ IsCounters(traderAgent[a], Totals)
    /\ PartialFn(question, Questions, [market : Markets \cup {None}])
    /\ condition \subseteq DOMAIN question
    /\ PartialFn(fpmm, Markets, [currentAnswer : Answers \cup {None},
                                 answeredAt : Times \cup {None},
                                 finalizedAt : Nat \cup {None}, createdAt : Times,
                                 repeated : BOOLEAN])
    /\ DOMAIN participant \subseteq (DOMAIN traderAgent) \X (DOMAIN fpmm)
    /\ DOMAIN daily \subseteq (DOMAIN traderAgent) \X DaysRun
    /\ totalQuestions = Cardinality(DOMAIN fpmm)
    /\ redemptions \in 0 .. MaxRedemptions

Of(a, table) == {k \in DOMAIN table : k[1] = a}

ShareFields == {"dailyProfit", "dailyTradedSettled", "dailyFeesSettled", "brierSum", "brierCount"}

\* The rows are well typed, the counters of an agent are the sums over its
\* participants, those of the global row the sums over the agents, and agents
\* are counted once, active ones too.  What is counted per day of activity sums
\* up to the same, and over all days an agent's profit, settled cost and
\* forecast score are those of its settled participants: no reversal takes back
\* more or less than was credited.
TotalsAgree ==
    /\ TypeOK
    /\ \A x \in Totals \cup {"totalExpectedPayout"} :
          global[x] = SumOver(DOMAIN traderAgent, LAMBDA a : traderAgent[a][x])
    /\ global.totalTraderAgents = Cardinality(DOMAIN traderAgent)
    /\ global.totalActiveTraderAgents =
          Cardinality({a \in DOMAIN traderAgent : traderAgent[a].active})
    /\ \A a \in DOMAIN traderAgent :
          /\ \A x \in Totals :
                traderAgent[a][x] = SumOver(Of(a, participant), LAMBDA k : participant[k][x])
          /\ traderAgent[a].totalExpectedPayout =
                SumOver(Of(a, participant), LAMBDA k : participant[k].expectedPayout)
          /\ \A x \in {"totalBets", "totalTraded", "totalFees", "totalPayout"} :
                traderAgent[a][x] = SumOver(Of(a, daily), LAMBDA d : daily[d][x])
          /\ \A x \in ShareFields :
                SumOver(Of(a, daily), LAMBDA d : daily[d][x])
                    = SumOver(Of(a, participant), LAMBDA k : DayShare(participant[k])[x])

\* What a participant is settled at is exactly its counted bets under the
\* market's present answer, however often the answer changed and whatever
\* was traded in between: cost, fees, payout and forecast score.
SettlementExact ==
    \A k \in DOMAIN participant :
        LET p == participant[k]
            counted == {b \in p.bets : bet[b].countedInProfit}
            held(o) == SumOver({b \in counted : bet[b].outcome = o}, LAMBDA b : bet[b].tokens)
            answer == fpmm[k[2]].currentAnswer
        IN /\ p.bets = {b \in DOMAIN bet : bet[b].bettor = k[1] /\ bet[b].market = k[2]}
           /\ p.totalTradedSettled = SumOver(counted, LAMBDA b : bet[b].amount)
           /\ p.totalFeesSettled = SumOver(counted, LAMBDA b : bet[b].fee)
           /\ p.settled <=> counted # {}
           /\ p.settled => /\ p.expectedPayout = ExpectedPayout([o \in Outcomes |-> held(o)], answer)
                           /\ p.brierSum = BrierSum(counted, answer)
                           /\ p.brierCount = Cardinality(Forecasts(counted))

\* The agent's days hold exactly the shares of the participants last settled on
\* them, and list exactly their markets.
DaysExactFor(a) ==
    \A d \in DaysRun :
        LET mine == {k \in Of(a, participant) : participant[k].creditedOn = d}
            row == LoadOr(daily, <<a, d>>, NewDay)
        IN /\ row.profitParticipants = {k[2] : k \in mine}
           /\ \A x \in ShareFields :
                 row[x] = SumOver(mine, LAMBDA k : DayShare(participant[k])[x])

\* A reversal always finds the day it must take the old share from.
DaysExact == \A a \in DOMAIN traderAgent : DaysExactFor(a)

\* The agent is in a market whose best answer was given again in the open.
MetRepetition(a) == \E k \in Of(a, participant) : fpmm[k[2]].repeated

\* The counters of bets, participants, agents, days and the global row agree, a settled
\* participant is settled exactly for the present answer, and, unless an answer is given
\* again in the open, every reversal is booked on the day that holds what it takes back
\* (predict-omen/src/utils.ts, realitio.ts 94-329).
CountersExact ==
    /\ TotalsAgree /\ SettlementExact
    /\ \A a \in DOMAIN traderAgent : MetRepetition(a) \/ DaysExactFor(a)

\* An answer that the market's row shows as final is the oracle's, for good.
AnswerFinal ==
    \A f \in DOMAIN fpmm :
        fpmm[f].finalizedAt # None /\ fpmm[f].finalizedAt <= now =>
            LET q == market[f].question IN
            IsFinal(q) /\ oracle[q].best = fpmm[f].currentAnswer

\* The other way round: once the oracle is final about an answer given after
\* the market was made, the market's row shows that answer as final.
AnswersReachMarkets ==
    \A f \in DOMAIN fpmm :
        LET q == market[f].question IN
        IsFinal(q) /\ q \in condition /\ oracle[q].at > fpmm[f].createdAt =>
            /\ fpmm[f].currentAnswer = oracle[q].best
            /\ fpmm[f].finalizedAt = oracle[q].finalAt

\* A market's row shows an answer as final exactly when the oracle is final about it, and
\* every answer reaches the question's market (realitio.ts 30-64, 332-363).
AnswersShown == AnswerFinal /\ AnswersReachMarkets

\* A settlement is only ever redone by another answer for the market: not by
\* the same answer again, by trades, by claims or by the arbitration.
SettlementStable ==
    [][\A k \in DOMAIN participant :
          /\ participant[k].settled
          /\ fpmm'[k[2]].currentAnswer = fpmm[k[2]].currentAnswer
          => DayShare(participant'[k]) = DayShare(participant[k])]_vars

=============================================================================
