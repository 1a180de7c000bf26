-------------------------- MODULE PredictOmenProofs --------------------------
(***************************************************************************)
(* predict-omen, for any questions, markets, answers and times.            *)
(*                                                                         *)
(* The answers: what a market's row shows as final is the oracle's final   *)
(* answer, every final answer reaches the question's market, and a         *)
(* settlement changes only with the answer (IInv, ParticipantRows).        *)
(*                                                                         *)
(* The ledger: bets, participants, agents, days and the global row agree,  *)
(* a settled participant is settled for exactly its counted bets under the *)
(* present answer, and a reversal finds the day of what it takes back      *)
(* unless an answer was given again in the open (LedgerInv).               *)
(***************************************************************************)
EXTENDS PredictOmen, StoreTheorems

OracleRow == [best : Answers \cup {None}, at : Nat \cup {None}, finalAt : Nat \cup {None},
              pending : BOOLEAN, committed : BOOLEAN]
MarketRow == [currentAnswer : Answers \cup {None}, answeredAt : Nat \cup {None},
              finalizedAt : Nat \cup {None}, createdAt : Nat, repeated : BOOLEAN]

\* Rows of the kinds the finality of an answer depends on.
Rows ==
    /\ now \in Nat
    /\ condition \subseteq prepared /\ prepared \subseteq asked /\ asked \subseteq Questions
    /\ condition \subseteq DOMAIN question /\ DOMAIN question \subseteq asked
    /\ \A q \in DOMAIN question : question[q] \in [market : Markets \cup {None}]
    /\ DOMAIN fpmm \subseteq DOMAIN market /\ DOMAIN market \subseteq Markets
    /\ \A f \in DOMAIN fpmm : fpmm[f] \in MarketRow
    /\ \A f \in DOMAIN market : market[f].question \in prepared
    /\ oracle \in [Questions -> OracleRow]

\* A question has one market at most. The link of a question leads to its market, and
\* the market of a question whose condition is known is linked.
Links ==
    /\ \A f, g \in DOMAIN market : market[f].question = market[g].question => f = g
    /\ \A q \in DOMAIN question : question[q].market # None =>
          /\ question[q].market \in DOMAIN fpmm
          /\ market[question[q].market].question = q
    /\ \A f \in DOMAIN fpmm : market[f].question \in condition =>
          question[market[f].question].market = f

\* An answer was given in the past and in the open.
InTheOpen ==
    \A q \in Questions : /\ ~oracle[q].committed
                         /\ oracle[q].finalAt # None => oracle[q].at \in 0 .. now

\* The row of a linked market follows the oracle from the first answer after
\* it was made; until an arbitration ends it shows no finalization.
Follows ==
    \A f \in DOMAIN fpmm :
        LET q == market[f].question IN
        /\ fpmm[f].createdAt <= now
        /\ fpmm[f].finalizedAt # None =>
              /\ LinkedMarket(q) = f
              /\ ~oracle[q].pending
              /\ oracle[q].finalAt = fpmm[f].finalizedAt
              /\ oracle[q].best = fpmm[f].currentAnswer
        /\ /\ LinkedMarket(q) = f
           /\ ~oracle[q].pending /\ oracle[q].finalAt # None
           /\ oracle[q].at > fpmm[f].createdAt
           => /\ fpmm[f].currentAnswer = oracle[q].best
              /\ fpmm[f].finalizedAt = oracle[q].finalAt

IInv == Rows /\ Links /\ InTheOpen /\ Follows

-----------------------------------------------------------------------------

\* The link of a question is its market or nothing.
LEMMA LinkRight ==
    ASSUME IInv, NEW q, LinkedMarket(q) # None
    PROVE  /\ q \in DOMAIN question /\ q \in Questions
           /\ LinkedMarket(q) \in DOMAIN fpmm
           /\ market[LinkedMarket(q)].question = q
BY DEF IInv, Rows, Links, LinkedMarket

\* A market is the only one of its question.
LEMMA OnlyMarket ==
    ASSUME IInv, NEW q, LinkedMarket(q) # None, NEW f \in DOMAIN fpmm, market[f].question = q
    PROVE  f = LinkedMarket(q)
BY LinkRight DEF IInv, Rows, Links

\* Time alone changes nothing.
LEMMA QuietStep ==
    ASSUME IInv, UNCHANGED <<asked, prepared, market, oracle, question, condition, fpmm>>,
           now' \in {now, now + 1}
    PROVE  IInv'
<1>1. now \in Nat /\ now' \in Nat /\ now <= now'
  BY DEF IInv, Rows
<1>2. Rows' /\ Links'
  BY <1>1 DEF IInv, Rows, Links
<1>3. InTheOpen'
  BY <1>1 DEF IInv, InTheOpen
<1>4. \A q : LinkedMarket(q)' = LinkedMarket(q)
  BY DEF LinkedMarket
<1>5. Follows'
  <2>. SUFFICES ASSUME NEW f \in DOMAIN fpmm
                PROVE  fpmm[f].createdAt <= now'
    BY <1>4 DEF IInv, Follows
  <2>1. fpmm[f].createdAt \in Nat /\ fpmm[f].createdAt <= now
    BY DEF IInv, Rows, MarketRow, Follows
  <2>. QED  BY <1>1, <2>1
<1>. QED  BY <1>2, <1>3, <1>5 DEF IInv

\* A new question is linked to no market.
LEMMA QuestionStep ==
    ASSUME IInv, NEW q \in Questions, NEW byCreator \in BOOLEAN,
           handleLogNewQuestion(q, byCreator)
    PROVE  IInv'
<1>1. /\ q \notin asked /\ asked' = asked \cup {q}
      /\ question' = IF byCreator THEN Put(question, q, [market |-> None]) ELSE question
      /\ UNCHANGED <<now, prepared, market, oracle, condition, fpmm>>
  BY DEF handleLogNewQuestion
<1>2. q \notin DOMAIN question /\ q \notin prepared
  BY <1>1 DEF IInv, Rows
<1>3. /\ DOMAIN question' \subseteq DOMAIN question \cup {q}
      /\ DOMAIN question \subseteq DOMAIN question'
      /\ \A r \in DOMAIN question : question'[r] = question[r]
      /\ q \in DOMAIN question' => question'[q] = [market |-> None]
  BY <1>1, <1>2 DEF Put
<1>4. Rows' /\ InTheOpen'
  BY <1>1, <1>2, <1>3 DEF IInv, Rows, InTheOpen
<1>5. Links'
  BY <1>1, <1>2, <1>3 DEF IInv, Rows, Links
<1>6. \A r : LinkedMarket(r)' = LinkedMarket(r) BY <1>2, <1>3 DEF LinkedMarket
<1>7. Follows'
  BY <1>1, <1>6 DEF IInv, Follows
<1>. QED  BY <1>4, <1>5, <1>7 DEF IInv

\* A condition is prepared before its question has a market.
LEMMA ConditionStep ==
    ASSUME IInv, NEW q \in Questions, handleConditionPreparation(q)
    PROVE  IInv'
<1>1. /\ q \in asked \ prepared /\ prepared' = prepared \cup {q}
      /\ condition' = ConditionsWith(q)
      /\ UNCHANGED <<now, asked, market, oracle, question, fpmm>>
  BY DEF handleConditionPreparation
<1>2. /\ condition \subseteq condition' /\ condition' \subseteq condition \cup {q}
      /\ condition' \subseteq DOMAIN question
  BY <1>1 DEF ConditionsWith, IInv, Rows
<1>3. \A f \in DOMAIN market : market[f].question # q
  BY <1>1 DEF IInv, Rows
<1>4. Rows'
  BY <1>1, <1>2 DEF IInv, Rows
<1>5. InTheOpen'
  BY <1>1 DEF IInv, InTheOpen
<1>6. Links'
  <2>1. ASSUME NEW f \in DOMAIN fpmm, market[f].question \in condition'
        PROVE  question[market[f].question].market = f
    BY <2>1, <1>2, <1>3 DEF IInv, Rows, Links
  <2>. QED  BY <1>1, <2>1 DEF IInv, Links
<1>7. Follows'
  BY <1>1 DEF IInv, Follows, LinkedMarket
<1>. QED  BY <1>4, <1>5, <1>6, <1>7 DEF IInv

\* A market made now has seen no answer.
LEMMA MarketStep ==
    ASSUME IInv, ~SharedQuestions, NEW m \in Markets, NEW q \in Questions, NEW listed \in BOOLEAN,
           handleFixedProductMarketMakerCreation(m, q, listed)
    PROVE  IInv'
<1>. DEFINE row == [currentAnswer |-> None, answeredAt |-> None, finalizedAt |-> None,
                    createdAt |-> now, repeated |-> FALSE]
<1>1. /\ m \notin DOMAIN market /\ q \in prepared
      /\ \A g \in DOMAIN market : market[g].question # q
      /\ market' = Put(market, m, [question |-> q, listed |-> listed])
      /\ UNCHANGED <<now, asked, prepared, oracle, condition>>
  BY DEF handleFixedProductMarketMakerCreation
<1>2. /\ fpmm' = IF listed THEN Put(fpmm, m, row) ELSE fpmm
      /\ question' = IF listed /\ q \in condition THEN [question EXCEPT ![q].market = m]
                     ELSE question
  BY DEF handleFixedProductMarketMakerCreation
<1>3. m \notin DOMAIN fpmm /\ m # None /\ now \in Nat
  BY <1>1, OmenSorts DEF IInv, Rows
<1>4. /\ DOMAIN market' = DOMAIN market \cup {m} /\ market'[m].question = q
      /\ \A g \in DOMAIN market : market'[g] = market[g]
  BY <1>1 DEF Put
<1>5. /\ DOMAIN fpmm' = IF listed THEN DOMAIN fpmm \cup {m} ELSE DOMAIN fpmm
      /\ listed => fpmm'[m] = row
      /\ \A g \in DOMAIN fpmm : fpmm'[g] = fpmm[g]
  BY <1>2, <1>3 DEF Put
<1>6. row \in MarketRow
  BY <1>3 DEF MarketRow
<1>7. LinkedMarket(q) = None
  BY <1>1, LinkRight DEF IInv, Rows
<1>8. /\ DOMAIN question' = DOMAIN question
      /\ \A r \in DOMAIN question \ {q} : question'[r] = question[r]
      /\ listed /\ q \in condition =>
            q \in DOMAIN question /\ question'[q] = [question[q] EXCEPT !.market = m]
      /\ ~(listed /\ q \in condition) => question' = question
  BY <1>2 DEF IInv, Rows
<1>9. /\ \A r \in DOMAIN question' : question'[r] \in [market : Markets \cup {None}]
      /\ listed /\ q \in condition => question'[q].market = m
  BY <1>8 DEF IInv, Rows
<1>10. Rows'
  BY <1>1, <1>4, <1>5, <1>6, <1>8, <1>9 DEF IInv, Rows
<1>11. Links'
  <2>1. \A f, g \in DOMAIN market' : market'[f].question = market'[g].question => f = g
    BY <1>1, <1>4 DEF IInv, Links
  <2>2. ASSUME NEW r \in DOMAIN question', question'[r].market # None
        PROVE  /\ question'[r].market \in DOMAIN fpmm'
               /\ market'[question'[r].market].question = r
    <3>1. CASE r = q BY <2>2, <3>1, <1>7, <1>8, <1>4, <1>5, <1>9 DEF LinkedMarket
    <3>2. CASE r # q
      BY <2>2, <3>2, <1>4, <1>5, <1>8 DEF IInv, Links, Rows
    <3>. QED  BY <3>1, <3>2
  <2>3. ASSUME NEW f \in DOMAIN fpmm', market'[f].question \in condition
        PROVE  question'[market'[f].question].market = f
    <3>1. CASE f = m
      BY <2>3, <3>1, <1>3, <1>4, <1>5, <1>9
    <3>2. CASE f # m BY <2>3, <3>2, <1>4, <1>5, <1>1, <1>8 DEF IInv, Rows, Links
    <3>. QED  BY <3>1, <3>2
  <2>. QED  BY <1>1, <2>1, <2>2, <2>3 DEF Links
<1>12. InTheOpen'
  BY <1>1 DEF IInv, InTheOpen
<1>13. ASSUME NEW r, r # q PROVE LinkedMarket(r)' = LinkedMarket(r)
  BY <1>13, <1>8 DEF LinkedMarket
<1>14. Follows'
  <2>1. ASSUME NEW f \in DOMAIN fpmm
        PROVE  /\ market'[f] = market[f] /\ fpmm'[f] = fpmm[f]
               /\ LinkedMarket(market[f].question)' = LinkedMarket(market[f].question)
    BY <1>1, <1>4, <1>5, <1>13 DEF IInv, Rows
  <2>2. q \in Questions /\ (oracle[q].finalAt # None => oracle[q].at \in 0 .. now)
    BY DEF IInv, InTheOpen
  <2>3. ASSUME NEW f \in DOMAIN fpmm', f \notin DOMAIN fpmm
        PROVE  /\ market'[f].question = q /\ fpmm'[f].createdAt = now
               /\ fpmm'[f].finalizedAt = None
    BY <2>3, <1>4, <1>5
  <2>4. ASSUME NEW f \in DOMAIN fpmm', f \notin DOMAIN fpmm
        PROVE  ~(oracle[q].finalAt # None /\ oracle[q].at > now)
    BY <2>2, <1>3
  <2>. QED  BY <1>1, <1>3, <2>1, <2>3, <2>4 DEF IInv, Follows
<1>. QED  BY <1>10, <1>11, <1>12, <1>14 DEF IInv

\* An answer, given in the open or by the arbitrator, is written to the oracle
\* and to the linked market at once.
LEMMA AnswerStep ==
    ASSUME IInv, NEW q \in Questions, NEW answer \in Answers, NEW at \in Nat,
           oracle' = [oracle EXCEPT ![q] = [best |-> answer, at |-> now, finalAt |-> at,
                                            pending |-> FALSE, committed |-> FALSE]],
           RecordAnswer(q, answer, at), OnlyAnswer
    PROVE  IInv'
<1>. DEFINE m == LinkedMarket(q)
            again == at > now /\ fpmm[m].currentAnswer = answer
            row == [fpmm[m] EXCEPT !.currentAnswer = answer, !.answeredAt = now,
                                   !.finalizedAt = at, !.repeated = @ \/ again]
<1>1. UNCHANGED <<now, asked, prepared, market, question, condition>> /\ now \in Nat
  BY DEF OnlyAnswer, IInv, Rows
<1>2. /\ \A r : LinkedMarket(r)' = LinkedMarket(r)
  BY <1>1 DEF LinkedMarket
<1>3. at # None /\ now # None
  BY <1>1, OmenTime
<1>4. /\ oracle' \in [Questions -> OracleRow]
      /\ oracle'[q] = [best |-> answer, at |-> now, finalAt |-> at, pending |-> FALSE,
                       committed |-> FALSE]
      /\ \A r \in Questions \ {q} : oracle'[r] = oracle[r]
  BY <1>1 DEF OracleRow, IInv, Rows
<1>5. /\ m = None => fpmm' = fpmm
      /\ m # None => fpmm' = [fpmm EXCEPT ![m].currentAnswer = answer, ![m].answeredAt = now,
                                          ![m].finalizedAt = at, ![m].repeated = @ \/ again]
  BY DEF RecordAnswer
<1>6. ASSUME m # None
      PROVE  /\ m \in DOMAIN fpmm /\ market[m].question = q /\ fpmm[m] \in MarketRow
             /\ DOMAIN fpmm' = DOMAIN fpmm /\ fpmm'[m] = row
             /\ \A g \in DOMAIN fpmm \ {m} : fpmm'[g] = fpmm[g]
  <2>1. m \in DOMAIN fpmm /\ market[m].question = q /\ fpmm[m] \in MarketRow
    BY <1>6, LinkRight DEF IInv, Rows
  <2>. HIDE DEF m
  <2>. QED  BY <1>5, <1>6, <2>1
<1>7. ASSUME m # None
      PROVE  /\ row \in MarketRow /\ row.createdAt = fpmm[m].createdAt
             /\ row.currentAnswer = answer /\ row.finalizedAt = at
  <2>1. fpmm[m] \in MarketRow
    BY <1>6, <1>7
  <2>. HIDE DEF m
  <2>. QED  BY <1>1, <2>1 DEF MarketRow
<1>. HIDE DEF row
<1>8. Rows'
  BY <1>1, <1>4, <1>5, <1>6, <1>7 DEF IInv, Rows
<1>9. Links'
  BY <1>1, <1>5, <1>6 DEF IInv, Links
<1>10. InTheOpen'
  BY <1>1, <1>4 DEF IInv, InTheOpen
<1>11. Follows'
  <2>. SUFFICES ASSUME NEW f \in DOMAIN fpmm'
                PROVE  LET r == market[f].question IN
                       /\ fpmm'[f].createdAt <= now
                       /\ fpmm'[f].finalizedAt # None =>
                             /\ LinkedMarket(r) = f
                             /\ ~oracle'[r].pending
                             /\ oracle'[r].finalAt = fpmm'[f].finalizedAt
                             /\ oracle'[r].best = fpmm'[f].currentAnswer
                       /\ /\ LinkedMarket(r) = f
                          /\ ~oracle'[r].pending /\ oracle'[r].finalAt # None
                          /\ oracle'[r].at > fpmm'[f].createdAt
                          => /\ fpmm'[f].currentAnswer = oracle'[r].best
                             /\ fpmm'[f].finalizedAt = oracle'[r].finalAt
    BY <1>1, <1>2 DEF Follows
  <2>1. f \in DOMAIN fpmm /\ f # None /\ market[f].question \in Questions
    BY <1>5, <1>6, OmenSorts DEF IInv, Rows
  <2>2. CASE m # None /\ f = m
    BY <2>1, <2>2, <1>4, <1>6, <1>7 DEF IInv, Follows
  <2>3. CASE f # m /\ market[f].question # q BY <2>1, <2>3, <1>4, <1>5, <1>6 DEF IInv, Follows
  <2>4. CASE f # m /\ market[f].question = q BY <2>1, <2>4, OnlyMarket, <1>5 DEF IInv, Follows
  <2>5. CASE f = m
    BY <2>1, <2>2, <2>5
  <2>. QED  BY <2>3, <2>4, <2>5
<1>. QED  BY <1>8, <1>9, <1>10, <1>11 DEF IInv

\* A request for arbitration suspends the question and its market.
LEMMA ArbitrationStep ==
    ASSUME IInv, NEW q \in Questions, handleLogNotifyOfArbitrationRequest(q)
    PROVE  IInv'
<1>. DEFINE m == LinkedMarket(q)
            row == [fpmm[m] EXCEPT !.finalizedAt = None]
<1>1. UNCHANGED <<now, asked, prepared, market, question, condition>>
  BY DEF handleLogNotifyOfArbitrationRequest, OnlyAnswer
<1>2. \A r : LinkedMarket(r)' = LinkedMarket(r)
  BY <1>1 DEF LinkedMarket
<1>3. oracle' = [oracle EXCEPT ![q].pending = TRUE]
  BY DEF handleLogNotifyOfArbitrationRequest
<1>4. /\ oracle' \in [Questions -> OracleRow]
      /\ oracle'[q].pending /\ oracle'[q].committed = oracle[q].committed
      /\ oracle'[q].finalAt = oracle[q].finalAt /\ oracle'[q].at = oracle[q].at
      /\ \A r \in Questions \ {q} : oracle'[r] = oracle[r]
  BY <1>3 DEF IInv, Rows, OracleRow
<1>5. fpmm' = IF m = None THEN fpmm ELSE [fpmm EXCEPT ![m].finalizedAt = None]
  BY DEF handleLogNotifyOfArbitrationRequest
<1>6. ASSUME m # None
      PROVE  /\ m \in DOMAIN fpmm /\ DOMAIN fpmm' = DOMAIN fpmm /\ fpmm'[m] = row
             /\ \A g \in DOMAIN fpmm \ {m} : fpmm'[g] = fpmm[g]
             /\ row \in MarketRow /\ row.createdAt = fpmm[m].createdAt /\ row.finalizedAt = None
             /\ market[m].question = q
  <2>1. m \in DOMAIN fpmm /\ fpmm[m] \in MarketRow /\ market[m].question = q
    BY <1>6, LinkRight DEF IInv, Rows
  <2>2. row \in MarketRow /\ row.createdAt = fpmm[m].createdAt /\ row.finalizedAt = None
    <3>. HIDE DEF m
    <3>. QED  BY <2>1 DEF MarketRow
  <2>. HIDE DEF m
  <2>. QED  BY <1>5, <1>6, <2>1, <2>2
<1>. HIDE DEF row
<1>7. Rows'
  BY <1>1, <1>4, <1>5, <1>6 DEF IInv, Rows
<1>8. Links'
  BY <1>1, <1>5, <1>6 DEF IInv, Links
<1>9. InTheOpen'
  BY <1>1, <1>4 DEF IInv, InTheOpen
<1>10. Follows'
  <2>. SUFFICES ASSUME NEW f \in DOMAIN fpmm'
                PROVE  LET r == market[f].question IN
                       /\ fpmm'[f].createdAt <= now
                       /\ fpmm'[f].finalizedAt # None =>
                             /\ LinkedMarket(r) = f
                             /\ ~oracle'[r].pending
                             /\ oracle'[r].finalAt = fpmm'[f].finalizedAt
                             /\ oracle'[r].best = fpmm'[f].currentAnswer
                       /\ /\ LinkedMarket(r) = f
                          /\ ~oracle'[r].pending /\ oracle'[r].finalAt # None
                          /\ oracle'[r].at > fpmm'[f].createdAt
                          => /\ fpmm'[f].currentAnswer = oracle'[r].best
                             /\ fpmm'[f].finalizedAt = oracle'[r].finalAt
    BY <1>1, <1>2 DEF Follows
  <2>1. f \in DOMAIN fpmm /\ f # None /\ market[f].question \in Questions
    BY <1>5, <1>6, OmenSorts DEF IInv, Rows
  <2>2. CASE market[f].question = q
    <3>1. oracle'[q].pending
      BY <1>4
    <3>2. fpmm'[f].finalizedAt = None /\ fpmm'[f].createdAt <= now
      <4>1. CASE f = m
        BY <2>1, <4>1, <1>6 DEF IInv, Follows
      <4>2. CASE f # m BY <2>1, <2>2, <4>2, OnlyMarket, <1>5 DEF IInv, Follows
      <4>. QED  BY <4>1, <4>2
    <3>. QED  BY <2>2, <3>1, <3>2
  <2>3. CASE market[f].question # q BY <2>1, <2>3, <1>4, <1>5, <1>6 DEF IInv, Follows
  <2>. QED  BY <2>2, <2>3
<1>. QED  BY <1>7, <1>8, <1>9, <1>10 DEF IInv

LEMMA IInvStep == ~Commitments /\ ~SharedQuestions /\ IInv /\ [Next]_vars => IInv'
<1>. SUFFICES ASSUME ~Commitments, ~SharedQuestions, IInv, [Next]_vars PROVE IInv'
  OBVIOUS
<1>1. ASSUME NEW q \in Questions, NEW x \in Answers, handleLogNewAnswer(q, x) PROVE IInv'
  <2>1. now + Timeout \in Nat
    BY OmenTime DEF IInv, Rows
  <2>. QED  BY <1>1, <2>1, AnswerStep DEF handleLogNewAnswer, FinalAt
<1>2. ASSUME NEW q \in Questions, NEW x \in Answers, handleLogFinalize(q, x) PROVE IInv'
  BY <1>2, AnswerStep DEF IInv, Rows, handleLogFinalize, FinalAtArbitration
<1>3. ASSUME NEW q \in Questions, NEW x \in Answers, RevealAnswer(q, x) PROVE IInv'
  BY <1>3 DEF RevealAnswer, IInv, InTheOpen
<1>4. ASSUME NEW q \in Questions, CommitAnswer(q) PROVE IInv'
  BY <1>4 DEF CommitAnswer
<1>5. ASSUME NEW a, NEW f, NEW amount, NEW fee, NEW outcome, NEW tokens, NEW price,
             Trade(a, f, amount, fee, outcome, tokens, price)
      PROVE  IInv'
  BY <1>5, QuietStep DEF Trade, chain, markets
<1>6. ASSUME NEW a, NEW q, NEW payout, handlePayoutRedemption(a, q, payout) PROVE IInv'
  BY <1>6, QuietStep DEF handlePayoutRedemption, chain, markets
<1>7. ASSUME NEW s, NEW a, handleRegisterInstance(s) \/ handleCreateMultisigWithAgents(s, a)
      PROVE  IInv'
  BY <1>7, QuietStep DEF handleRegisterInstance, handleCreateMultisigWithAgents, chain, markets
<1>8. CASE Tick \/ UNCHANGED vars
  BY <1>8, QuietStep DEF Tick, vars, chain, markets
<1>. QED
  BY <1>1, <1>2, <1>3, <1>4, <1>5, <1>6, <1>7, <1>8, QuestionStep, ConditionStep, MarketStep,
     ArbitrationStep
  DEF Next, handleBuy, handleSell

LEMMA InitIInv == Init => IInv
<1>. SUFFICES ASSUME Init PROVE IInv
  OBVIOUS
<1>1. /\ now = 0 /\ asked = {} /\ prepared = {} /\ condition = {}
      /\ DOMAIN market = {} /\ DOMAIN question = {} /\ DOMAIN fpmm = {}
  BY DEF Init, NoRows
<1>2. oracle \in [Questions -> OracleRow]
      /\ \A q \in Questions : oracle[q].finalAt = None /\ ~oracle[q].committed
  BY DEF Init, OracleRow
<1>. QED  BY <1>1, <1>2 DEF IInv, Rows, Links, InTheOpen, Follows

\* When no answer is committed to and no two markets share a question, a market's
\* row shows an answer as final exactly when the oracle is final about it, through
\* any answers, repetitions, suspensions and arbitrations.
THEOREM AnswersAlwaysShown == ASSUME ~Commitments, ~SharedQuestions PROVE Spec => []AnswersShown
<1>1. IInv /\ [Next]_vars => IInv'
  BY IInvStep
<1>2. IInv => AnswersShown
  <2>. SUFFICES ASSUME IInv, NEW f \in DOMAIN fpmm
                PROVE  LET q == market[f].question IN
                       /\ fpmm[f].finalizedAt # None /\ fpmm[f].finalizedAt <= now =>
                             IsFinal(q) /\ oracle[q].best = fpmm[f].currentAnswer
                       /\ IsFinal(q) /\ q \in condition /\ oracle[q].at > fpmm[f].createdAt =>
                             /\ fpmm[f].currentAnswer = oracle[q].best
                             /\ fpmm[f].finalizedAt = oracle[q].finalAt
    BY DEF AnswersShown, AnswerFinal, AnswersReachMarkets
  <2>1. market[f].question \in condition => LinkedMarket(market[f].question) = f
    BY DEF IInv, Links, Rows, LinkedMarket
  <2>. QED  BY <2>1 DEF IInv, Follows, IsFinal
<1>. QED  BY <1>1, <1>2, InitIInv, PTL DEF Spec

-----------------------------------------------------------------------------
(* Settlements. *)

ParticipantFields == {"balance", "expectedPayout", "brierSum", "brierCount", "settled", "bets",
                      "creditedOn", "totalBets", "totalTraded", "totalFees", "totalPayout",
                      "totalTradedSettled", "totalFeesSettled"}

\* A participant has its fields and its market a row.
ParticipantRows ==
    /\ \A f \in DOMAIN fpmm : "currentAnswer" \in DOMAIN fpmm[f]
    /\ \A k \in DOMAIN participant : /\ k[2] \in DOMAIN fpmm
                                     /\ DOMAIN participant[k] = ParticipantFields

\* Every participant stays, with its fields and what it was settled at.
SharesKept ==
    \A k \in DOMAIN participant :
        /\ k \in DOMAIN participant' /\ DOMAIN participant'[k] = ParticipantFields
        /\ DayShare(participant'[k]) = DayShare(participant[k])

\* A trade's row: the bet is in it, the settlement is untouched.
TradedRow(row, amount, fee, b, outcome, tokens) ==
    [Add(row, [totalBets |-> 1, totalTraded |-> amount, totalFees |-> fee])
        EXCEPT !.bets = @ \cup {b}, !.balance[outcome] = @ + tokens]

LEMMA TradeKeeps ==
    ASSUME NEW row, DOMAIN row = ParticipantFields,
           NEW amount, NEW fee, NEW b, NEW outcome, NEW tokens
    PROVE  LET next == TradedRow(row, amount, fee, b, outcome, tokens)
           IN  DOMAIN next = ParticipantFields /\ DayShare(next) = DayShare(row)
BY DEF TradedRow, Add, ParticipantFields, DayShare

LEMMA PayoutKeeps ==
    ASSUME NEW row, DOMAIN row = ParticipantFields, NEW payout
    PROVE  LET next == Add(row, [totalPayout |-> payout])
           IN  DOMAIN next = ParticipantFields /\ DayShare(next) = DayShare(row)
BY DEF Add, ParticipantFields, DayShare

LEMMA SettledFields ==
    ASSUME NEW row, DOMAIN row = ParticipantFields, NEW answer
    PROVE  DOMAIN Settled(row, answer) = ParticipantFields
BY DEF Settled, ParticipantFields

\* A trade keeps every settlement and makes at most one participant.
LEMMA TradeStep ==
    ASSUME ParticipantRows, NEW a, NEW f, NEW amount, NEW fee, NEW outcome, NEW tokens, NEW price,
           Trade(a, f, amount, fee, outcome, tokens, price)
    PROVE  SharesKept /\ ParticipantRows'
<1>. DEFINE k == <<a, f>>
            b == Cardinality(DOMAIN bet)
            old == LoadOr(participant, k, NewParticipant)
            row == TradedRow(old, amount, fee, b, outcome, tokens)
<1>1. f \in DOMAIN fpmm /\ fpmm' = fpmm
  BY DEF Trade, markets
<1>2. participant' = Put(participant, k, row)
  BY DEF Trade, processTradeActivity, TradedRow
<1>3. DOMAIN old = ParticipantFields
  BY DEF LoadOr, NewParticipant, ParticipantRows, ParticipantFields
<1>4. DOMAIN row = ParticipantFields /\ DayShare(row) = DayShare(old)
  <2>. HIDE DEF old, b
  <2>. QED  BY <1>3, TradeKeeps
<1>5. k \in DOMAIN participant => old = participant[k]
  BY DEF LoadOr
<1>6. k[2] = f
  OBVIOUS
<1>. HIDE DEF row, old, k
<1>7. /\ DOMAIN participant' = DOMAIN participant \cup {k} /\ participant'[k] = row
      /\ \A x \in DOMAIN participant \ {k} : participant'[x] = participant[x]
  BY <1>2 DEF Put
<1>. QED  BY <1>1, <1>4, <1>5, <1>6, <1>7 DEF SharesKept, ParticipantRows

\* A claim keeps every settlement.
LEMMA RedemptionStep ==
    ASSUME ParticipantRows, NEW a, NEW q, NEW payout, handlePayoutRedemption(a, q, payout)
    PROVE  SharesKept /\ ParticipantRows'
<1>. DEFINE m == IF q \in condition THEN LinkedMarket(q) ELSE None
            k == <<a, m>>
<1>1. /\ fpmm' = fpmm
      /\ \/ participant' = participant
         \/ /\ k \in DOMAIN participant
            /\ participant' = [participant EXCEPT ![k] = Add(@, [totalPayout |-> payout])]
  BY DEF handlePayoutRedemption, markets
<1>. HIDE DEF k
<1>2. CASE participant' = participant
  BY <1>1, <1>2 DEF SharesKept, ParticipantRows
<1>3. CASE k \in DOMAIN participant
           /\ participant' = [participant EXCEPT ![k] = Add(@, [totalPayout |-> payout])]
  BY <1>3, PayoutKeeps, <1>1 DEF ParticipantRows, SharesKept
<1>. QED  BY <1>1, <1>2, <1>3

\* What a step may do to a settlement: redo it only under another answer.
Stable ==
    \A k \in DOMAIN participant :
        /\ participant[k].settled
        /\ fpmm'[k[2]].currentAnswer = fpmm[k[2]].currentAnswer
        => DayShare(participant'[k]) = DayShare(participant[k])

\* An answer settles anew only when it is another one.
LEMMA RecordStep ==
    ASSUME ParticipantRows, NEW q, NEW answer, NEW at, RecordAnswer(q, answer, at)
    PROVE  Stable /\ ParticipantRows'
<1>. DEFINE f == LinkedMarket(q)
<1>1. CASE f = None
  BY <1>1 DEF RecordAnswer, ledger, Stable, ParticipantRows
<1>2. CASE f # None
  <2>1. /\ fpmm' = [fpmm EXCEPT ![f].currentAnswer = answer, ![f].answeredAt = now,
                                ![f].finalizedAt = at,
                                ![f].repeated = @ \/ (at > now /\ fpmm[f].currentAnswer = answer)]
        /\ participant' = [k \in DOMAIN participant |->
                             IF k \in Touched(f, answer) THEN Settled(participant[k], answer)
                             ELSE participant[k]]
    BY <1>2 DEF RecordAnswer, SettleMarket
  <2>. HIDE DEF f
  <2>2. /\ DOMAIN fpmm' = DOMAIN fpmm
        /\ \A g \in DOMAIN fpmm : "currentAnswer" \in DOMAIN fpmm'[g]
        /\ f \in DOMAIN fpmm => fpmm'[f].currentAnswer = answer
    BY <2>1 DEF ParticipantRows
  <2>3. ParticipantRows'
    BY <2>1, <2>2, SettledFields DEF ParticipantRows
  <2>4. ASSUME NEW k \in DOMAIN participant, participant[k].settled, k \in Touched(f, answer)
        PROVE  fpmm'[k[2]].currentAnswer # fpmm[k[2]].currentAnswer
    BY <2>2, <2>4 DEF Touched, IsReAnswer, ParticipantRows
  <2>. QED  BY <2>1, <2>3, <2>4 DEF Stable
<1>. QED  BY <1>1, <1>2

\* A market that is made starts with its fields, under an id of its own.
LEMMA CreationStep ==
    ASSUME ParticipantRows, NEW m, NEW q, NEW listed,
           handleFixedProductMarketMakerCreation(m, q, listed)
    PROVE  SharesKept /\ ParticipantRows'
<1>. DEFINE row == [currentAnswer |-> None, answeredAt |-> None, finalizedAt |-> None,
                    createdAt |-> now, repeated |-> FALSE]
<1>1. participant' = participant /\ (fpmm' = fpmm \/ fpmm' = Put(fpmm, m, row))
  BY DEF handleFixedProductMarketMakerCreation, ledger
<1>2. "currentAnswer" \in DOMAIN row
  OBVIOUS
<1>. HIDE DEF row
<1>. QED  BY <1>1, <1>2 DEF SharesKept, ParticipantRows, Put

LEMMA SettlementStep == ParticipantRows /\ [Next]_vars => ParticipantRows' /\ (Stable \/ UNCHANGED vars)
<1>. SUFFICES ASSUME ParticipantRows, [Next]_vars
              PROVE  ParticipantRows' /\ (Stable \/ UNCHANGED vars)
  OBVIOUS
<1>1. SharesKept => Stable
  BY DEF SharesKept, Stable
<1>2. ASSUME UNCHANGED <<participant, fpmm>> PROVE ParticipantRows' /\ SharesKept
  BY <1>2 DEF ParticipantRows, SharesKept
<1>3. ASSUME NEW q, NEW x, handleLogNewAnswer(q, x) \/ handleLogFinalize(q, x)
      PROVE  ParticipantRows' /\ Stable
  BY <1>3, RecordStep DEF handleLogNewAnswer, handleLogFinalize
<1>4. ASSUME NEW q, handleLogNotifyOfArbitrationRequest(q)
      PROVE  ParticipantRows' /\ SharesKept
  BY <1>4 DEF handleLogNotifyOfArbitrationRequest, ledger, ParticipantRows, SharesKept
<1>5. ASSUME NEW q, NEW x, RevealAnswer(q, x) \/ CommitAnswer(q)
      PROVE  ParticipantRows' /\ SharesKept
  BY <1>2, <1>5 DEF RevealAnswer, CommitAnswer, ledger
<1>6. ASSUME NEW s, NEW a, handleRegisterInstance(s) \/ handleCreateMultisigWithAgents(s, a)
      PROVE  ParticipantRows' /\ SharesKept
  BY <1>2, <1>6 DEF handleRegisterInstance, handleCreateMultisigWithAgents, markets, ledger
<1>7. ASSUME NEW q, NEW byCreator, handleLogNewQuestion(q, byCreator) \/ handleConditionPreparation(q)
      PROVE  ParticipantRows' /\ SharesKept
  BY <1>2, <1>7 DEF handleLogNewQuestion, handleConditionPreparation, ledger
<1>8. CASE Tick
  BY <1>1, <1>2, <1>8 DEF Tick, markets, ledger
<1>9. CASE UNCHANGED vars
  BY <1>2, <1>9 DEF vars, markets, ledger
<1>. QED
  BY <1>1, <1>3, <1>4, <1>5, <1>6, <1>7, <1>8, <1>9, TradeStep, RedemptionStep, CreationStep
  DEF Next, handleBuy, handleSell

\* What a settled participant counts for changes only with the answer of its
\* market, whatever is traded, claimed, repeated or arbitrated.
THEOREM SettlementsStable == Spec => SettlementStable
<1>1. Init => ParticipantRows
  BY DEF Init, NoRows, ParticipantRows
<1>2. ParticipantRows /\ [Next]_vars => ParticipantRows'
  BY SettlementStep
<1>3. ParticipantRows /\ [Next]_vars => [Stable]_vars
  BY SettlementStep
<1>. QED  BY <1>1, <1>2, <1>3, PTL DEF Spec, SettlementStable, Stable

-----------------------------------------------------------------------------
(* The ledger. *)

Activity == {"totalBets", "totalTraded", "totalFees", "totalPayout"}
AgentCounters == Activity \cup {"totalTradedSettled", "totalFeesSettled", "totalExpectedPayout"}
DayCounters == Activity \cup ShareFields
FaceFields == AgentCounters \cup ShareFields

AgentFields == AgentCounters \cup {"serviceId", "active"}
GlobalFields == AgentCounters \cup {"totalTraderAgents", "totalActiveTraderAgents"}
DayFields == DayCounters \cup {"profitParticipants"}
BetFields == {"bettor", "market", "outcome", "amount", "fee", "tokens", "impliedProbability",
              "day", "countedInProfit"}

\* What a participant counts for: in its agent's counters, and on the day it is settled on.
Face(p) == [x \in FaceFields |-> IF x \in ShareFields THEN DayShare(p)[x]
                                 ELSE IF x = "totalExpectedPayout" THEN p.expectedPayout ELSE p[x]]

Faces == [k \in DOMAIN participant |-> Face(participant[k])]

\* What it counts for on the day d.
Credit(p, d, x) == IF p.creditedOn = d THEN DayShare(p)[x] ELSE 0
Credits(d, x) == [k \in DOMAIN participant |-> Credit(participant[k], d, x)]

MarketRows == [currentAnswer : Answers \cup {None}, answeredAt : Times \cup {None},
               finalizedAt : Nat \cup {None}, createdAt : Times, repeated : BOOLEAN]
OracleRows == [best : Answers \cup {None}, at : Times \cup {None}, finalAt : Nat \cup {None},
               pending : BOOLEAN, committed : BOOLEAN]

\* The chain, and the rows that follow it: a link leads to a market of the question.
Followed ==
    /\ now \in Times /\ prepared \subseteq asked /\ asked \subseteq Questions
    /\ PartialFn(market, Markets, [question : Questions, listed : BOOLEAN])
    /\ oracle \in [Questions -> OracleRows]
    /\ traderService \subseteq Services /\ DOMAIN traderAgent \subseteq Safes
    /\ PartialFn(question, Questions, [market : Markets \cup {None}])
    /\ condition \subseteq DOMAIN question
    /\ PartialFn(fpmm, Markets, MarketRows) /\ DOMAIN fpmm \subseteq DOMAIN market
    /\ IsFiniteSet(DOMAIN fpmm) /\ totalQuestions = Cardinality(DOMAIN fpmm)
    /\ redemptions \in 0 .. MaxRedemptions
    /\ \A q \in DOMAIN question : question[q].market # None =>
          question[q].market \in DOMAIN fpmm /\ market[question[q].market].question = q

\* Tables are finite, rows have their fields.
LedgerShape ==
    /\ DOMAIN global = GlobalFields
    /\ IsFiniteSet(DOMAIN traderAgent) /\ IsFiniteSet(DOMAIN participant)
    /\ IsFiniteSet(DOMAIN daily)
    /\ \A a \in DOMAIN traderAgent :
          /\ DOMAIN traderAgent[a] = AgentFields /\ traderAgent[a].serviceId \in Services
          /\ traderAgent[a].active \in BOOLEAN
    /\ DOMAIN participant \subseteq (DOMAIN traderAgent) \X (DOMAIN fpmm)
    /\ \A k \in DOMAIN participant :
          /\ DOMAIN participant[k] = ParticipantFields
          /\ participant[k].balance \in [Outcomes -> Int] /\ participant[k].settled \in BOOLEAN
    /\ DOMAIN daily \subseteq (DOMAIN traderAgent) \X DaysRun
    /\ \A d \in DOMAIN daily : DOMAIN daily[d] = DayFields

\* Counters are integers.
LedgerNumbers ==
    /\ \A a \in DOMAIN traderAgent, x \in AgentCounters : traderAgent[a][x] \in Int
    /\ \A k \in DOMAIN participant, x \in FaceFields : Face(participant[k])[x] \in Int
    /\ \A d \in DOMAIN daily, x \in DayCounters : daily[d][x] \in Int

LedgerRows == LedgerShape /\ LedgerNumbers

\* The sums of an agent's participants are its counters, and those of its days.
AgentSums(a) ==
    /\ \A x \in AgentCounters : traderAgent[a][x] = GroupSum(Column(Faces, x), a)
    /\ \A x \in DayCounters : GroupSum(Column(daily, x), a) = GroupSum(Column(Faces, x), a)

GlobalSums == \A x \in AgentCounters : global[x] = SumFunction(Column(traderAgent, x))

\* The markets the agent was last settled on the day d in, and what the day lists.
SettledIn(a, d) == {k[2] : k \in {j \in DOMAIN participant : j[1] = a /\ participant[j].creditedOn = d}}
Entry(table, k, x) == IF k \in DOMAIN table THEN table[k][x] ELSE 0
ListedOn(k) == IF k \in DOMAIN daily THEN daily[k].profitParticipants ELSE {}

DaySums(a) ==
    \A d \in DaysRun :
        /\ ListedOn(<<a, d>>) = SettledIn(a, d)
        /\ \A x \in ShareFields : Entry(daily, <<a, d>>, x) = GroupSum(Credits(d, x), a)

Counts ==
    /\ global.totalTraderAgents = Cardinality(DOMAIN traderAgent)
    /\ global.totalActiveTraderAgents =
          Cardinality({a \in DOMAIN traderAgent : traderAgent[a].active})

\* What is not settled counts for nothing; what is settled was settled on the day of its
\* market's answer, unless that answer was given again or is final.
Standing ==
    \A k \in DOMAIN participant :
        LET p == participant[k] IN
        /\ ~p.settled => p.creditedOn = None /\ p.expectedPayout = 0
                         /\ \A x \in ShareFields : DayShare(p)[x] = 0
        /\ p.settled => /\ fpmm[k[2]].currentAnswer # None /\ fpmm[k[2]].answeredAt # None
                        /\ p.creditedOn \in DaysRun
                        /\ \/ fpmm[k[2]].repeated \/ IsFinal(market[k[2]].question)
                           \/ p.creditedOn = Day(fpmm[k[2]].answeredAt)

\* The amounts of the bets of S under y, and the tokens of an outcome they hold.
FieldSum(table, S, y) == SumFunction([b \in S |-> table[b][y]])
TokenSum(table, S, o) == FieldSum(table, {b \in S : table[b].outcome = o}, "tokens")
CountedIn(table, S) == {b \in S : table[b].countedInProfit}
ForecastsIn(table, S) == {b \in S : table[b].impliedProbability > 0 /\ table[b].amount > 0}
ScoreIn(table, S, answer) ==
    SumFunction([b \in ForecastsIn(table, S) |->
                    brierContribution(table[b].impliedProbability,
                                      actualForOutcome(table[b].outcome, answer))])

\* Bets are numbered, and typed.
BetRows ==
    /\ IsFiniteSet(DOMAIN bet) /\ DOMAIN bet = 0 .. Cardinality(DOMAIN bet) - 1
    /\ \A b \in DOMAIN bet :
          /\ DOMAIN bet[b] = BetFields /\ bet[b].outcome \in Outcomes
          /\ bet[b].amount \in Int /\ bet[b].fee \in Int /\ bet[b].tokens \in Int
          /\ bet[b].impliedProbability \in Int /\ bet[b].countedInProfit \in BOOLEAN
          /\ <<bet[b].bettor, bet[b].market>> \in DOMAIN participant

BetsOf(k, table) == {b \in DOMAIN table : table[b].bettor = k[1] /\ table[b].market = k[2]}

\* All its bets add up to what the participant p holds.
HeldExactly(p, table, S) ==
    /\ S # {} /\ p.totalTraded = FieldSum(table, S, "amount")
    /\ p.totalFees = FieldSum(table, S, "fee")
    /\ \A o \in Outcomes : p.balance[o] = TokenSum(table, S, o)

\* The counted ones add up to what it was settled at.
SettledExactly(p, answer, table, S) ==
    LET T == CountedIn(table, S) IN
    /\ p.settled <=> T # {}
    /\ p.totalTradedSettled = FieldSum(table, T, "amount")
    /\ p.totalFeesSettled = FieldSum(table, T, "fee")
    /\ p.settled => /\ p.expectedPayout = ExpectedPayout([o \in Outcomes |-> TokenSum(table, T, o)], answer)
                    /\ p.brierSum = ScoreIn(table, T, answer)
                    /\ p.brierCount = Cardinality(ForecastsIn(table, T))

Bets ==
    /\ BetRows
    /\ \A k \in DOMAIN participant :
          LET p == participant[k] IN
          /\ p.bets = BetsOf(k, bet) /\ HeldExactly(p, bet, p.bets)
          /\ SettledExactly(p, fpmm[k[2]].currentAnswer, bet, p.bets)

Books ==
    /\ LedgerRows /\ GlobalSums /\ Counts /\ Standing /\ Bets
    /\ \A a \in DOMAIN traderAgent : AgentSums(a) /\ (MetRepetition(a) \/ DaySums(a))

LedgerInv == Followed /\ Books

-----------------------------------------------------------------------------
(* How the counters move. *)

\* What a handler changes of the agent a: its participant in c by m, and its days t and r,
\* to which plus is added and from which minus is taken.
Shift(a, c, t, r, m, plus, minus) ==
    /\ \A x \in FaceFields : m[x] \in Int
    /\ \A x \in DayCounters : plus[x] \in Int /\ minus[x] \in Int /\ m[x] = plus[x] - minus[x]
    /\ \A x \in AgentCounters : traderAgent'[a][x] = traderAgent[a][x] + m[x]
    /\ \A k : k[1] = a => (k \in DOMAIN participant' <=> k \in DOMAIN participant \/ k = <<a, c>>)
    /\ \A k \in DOMAIN participant : k[1] = a /\ k # <<a, c>> => participant'[k] = participant[k]
    /\ \A x \in FaceFields : Face(participant'[<<a, c>>])[x] = Entry(Faces, <<a, c>>, x) + m[x]
    /\ \A k : k[1] = a =>
          (k \in DOMAIN daily' <=> k \in DOMAIN daily \/ k = <<a, t>> \/ k = <<a, r>>)
    /\ \A k \in DOMAIN daily' : k[1] = a => \A x \in DayCounters :
          daily'[k][x] = Entry(daily, k, x) + (IF k = <<a, t>> THEN plus[x] ELSE 0)
                                            - (IF k = <<a, r>> THEN minus[x] ELSE 0)

\* The sums follow.
LEMMA ShiftKeepsSums ==
    ASSUME LedgerRows, NEW a \in DOMAIN traderAgent, AgentSums(a),
           NEW c, NEW t, NEW r, NEW m, NEW plus, NEW minus, Shift(a, c, t, r, m, plus, minus)
    PROVE  AgentSums(a)'
<1>1. ASSUME NEW x \in FaceFields
      PROVE  /\ GroupSum(Column(Faces', x), a) = GroupSum(Column(Faces, x), a) + m[x]
             /\ GroupSum(Column(Faces, x), a) \in Int
  <2>. DEFINE f == Column(Faces, x)  g == Column(Faces', x)
  <2>1. /\ DOMAIN f = DOMAIN participant /\ DOMAIN g = DOMAIN participant'
        /\ \A k \in DOMAIN f : f[k] = Face(participant[k])[x]
        /\ \A k \in DOMAIN g : g[k] = Face(participant'[k])[x]
    BY DEF Column, Faces
  <2>2. IsFiniteSet(DOMAIN f) /\ AllIntegers(f) /\ m[x] \in Int
    BY <2>1 DEF AllIntegers, LedgerRows, LedgerShape, LedgerNumbers, Shift
  <2>3. Before(f, <<a, c>>) = Entry(Faces, <<a, c>>, x)
    BY <2>1 DEF Before, Entry, Faces, Column
  <2>. HIDE DEF f, g
  <2>4. /\ \A k : k[1] = a => (k \in DOMAIN g <=> k \in DOMAIN f \/ k = <<a, c>>)
        /\ \A k \in DOMAIN f : k[1] = a /\ k # <<a, c>> => g[k] = f[k]
        /\ g[<<a, c>>] = Before(f, <<a, c>>) + m[x]
    BY <2>1, <2>3 DEF Shift
  <2>5. GroupSum(g, a) = GroupSum(f, a) + m[x] /\ GroupSum(f, a) \in Int
    BY <2>2, <2>4, GroupPut
  <2>. QED  BY <2>5 DEF f, g
<1>2. ASSUME NEW x \in DayCounters
      PROVE  GroupSum(Column(daily', x), a) = GroupSum(Column(daily, x), a) + plus[x] - minus[x]
  <2>. DEFINE f == Column(daily, x)  g == Column(daily', x)  p == plus[x]  n == minus[x]
  <2>1. /\ DOMAIN f = DOMAIN daily /\ DOMAIN g = DOMAIN daily'
        /\ \A k \in DOMAIN f : f[k] = daily[k][x]
        /\ \A k \in DOMAIN g : g[k] = daily'[k][x]
        /\ \A k : Before(f, k) = Entry(daily, k, x)
    BY DEF Column, Before, Entry
  <2>2. IsFiniteSet(DOMAIN f) /\ AllIntegers(f) /\ p \in Int /\ n \in Int
    BY <2>1 DEF AllIntegers, LedgerRows, LedgerShape, LedgerNumbers, Shift
  <2>3. \A k \in DOMAIN daily' : k[1] = a =>
              daily'[k][x] = Entry(daily, k, x) + (IF k = <<a, t>> THEN p ELSE 0)
                                                - (IF k = <<a, r>> THEN n ELSE 0)
    BY DEF Shift
  <2>. HIDE DEF f, g, p, n
  <2>4. GroupMove(f, g, a, t, r, p, n)
    BY <2>1, <2>3 DEF Shift, GroupMove
  <2>5. GroupSum(g, a) = GroupSum(f, a) + p - n /\ GroupSum(f, a) \in Int
    BY ONLY <2>2, <2>4, GroupMoved
  <2>. QED  BY <2>5 DEF f, g, p, n
<1>3. AgentCounters \subseteq FaceFields /\ DayCounters \subseteq FaceFields
  BY DEF FaceFields, DayCounters, AgentCounters
<1>4. ASSUME NEW x \in AgentCounters PROVE traderAgent'[a][x] = GroupSum(Column(Faces', x), a)
  BY <1>1, <1>3 DEF AgentSums, Shift
<1>5. ASSUME NEW x \in DayCounters
      PROVE  GroupSum(Column(daily', x), a) = GroupSum(Column(Faces', x), a)
  BY <1>1, <1>2, <1>3 DEF AgentSums, Shift
<1>. QED  BY <1>4, <1>5 DEF AgentSums

\* How the credits of the agent a follow: its participant in c leaves the day r and enters t.
Recredited(a, c, t, r, plus, minus) ==
    \A d \in DaysRun :
        /\ \A x \in ShareFields :
              Credit(participant'[<<a, c>>], d, x) =
                  Before(Credits(d, x), <<a, c>>) + (IF d = t THEN plus[x] ELSE 0)
                                                  - (IF d = r THEN minus[x] ELSE 0)
        /\ ListedOn(<<a, d>>)' = SettledIn(a, d)'

\* The days follow, when what the participant is credited with does.
LEMMA ShiftKeepsDays ==
    ASSUME LedgerRows, NEW a \in DOMAIN traderAgent, DaySums(a),
           NEW c, NEW t, NEW r, NEW m, NEW plus, NEW minus, Shift(a, c, t, r, m, plus, minus),
           Recredited(a, c, t, r, plus, minus),
           \A k \in DOMAIN participant, d \in DaysRun, x \in ShareFields : Credits(d, x)[k] \in Int
    PROVE  DaySums(a)'
<1>. SUFFICES ASSUME NEW d \in DaysRun, NEW x \in ShareFields
              PROVE  Entry(daily', <<a, d>>, x) = GroupSum(Credits(d, x)', a)
  BY DEF DaySums, Recredited, Entry, GroupSum, Group, DaysRun, Day
<1>. DEFINE f == Credits(d, x)  g == Credits(d, x)'  k0 == <<a, c>>
            n == (IF d = t THEN plus[x] ELSE 0) - (IF d = r THEN minus[x] ELSE 0)
<1>0. x \in DayCounters
  BY DEF DayCounters
<1>1. plus[x] \in Int /\ minus[x] \in Int /\ n \in Int
  BY <1>0 DEF Shift
<1>2. /\ DOMAIN f = DOMAIN participant /\ DOMAIN g = DOMAIN participant'
      /\ \A k \in DOMAIN f : f[k] = Credit(participant[k], d, x)
      /\ \A k \in DOMAIN g : g[k] = Credit(participant'[k], d, x)
  BY DEF Credits, Credit, DayShare
<1>3. IsFiniteSet(DOMAIN f) /\ AllIntegers(f)
  BY <1>2 DEF LedgerRows, LedgerShape, LedgerNumbers, AllIntegers
<1>4. Credit(participant'[k0], d, x) = Before(f, k0) + (IF d = t THEN plus[x] ELSE 0)
                                                     - (IF d = r THEN minus[x] ELSE 0)
  BY DEF Recredited
<1>5. Before(f, k0) \in Int
  BY <1>3 DEF Before, AllIntegers
<1>. HIDE DEF f, g
<1>6. /\ \A k : k[1] = a => (k \in DOMAIN g <=> k \in DOMAIN f \/ k = k0)
      /\ \A k \in DOMAIN f : k[1] = a /\ k # k0 => g[k] = f[k]
      /\ g[k0] = Credit(participant'[k0], d, x)
  BY <1>2 DEF Shift
<1>7. g[k0] = Before(f, k0) + n
  <2>. HIDE DEF k0
  <2>. QED  BY <1>1, <1>4, <1>5, <1>6
<1>. HIDE DEF n
<1>8. GroupSum(g, a) = GroupSum(f, a) + n /\ GroupSum(f, a) \in Int
  BY <1>1, <1>3, <1>6, <1>7, GroupPut
<1>9. Entry(daily, <<a, d>>, x) = GroupSum(f, a)
  BY DEF DaySums, f
<1>10. Entry(daily', <<a, d>>, x) = Entry(daily, <<a, d>>, x) + n
  <2>. DEFINE k == <<a, d>>
  <2>1. (k = <<a, t>> <=> d = t) /\ (k = <<a, r>> <=> d = r) /\ k[1] = a
    OBVIOUS
  <2>. HIDE DEF k
  <2>2. CASE k \in DOMAIN daily' BY <1>0, <2>1, <2>2, <1>8, <1>9, <1>1 DEF Shift, k, Entry, n
  <2>3. CASE k \notin DOMAIN daily' BY <2>1, <2>3 DEF Shift, Entry, n, k
  <2>. QED  BY <2>2, <2>3
<1>. QED  BY <1>8, <1>9, <1>10 DEF g

\* The rows of the agent a in a table stay.
SameOf(f, g, a) == /\ \A k : k[1] = a => (k \in DOMAIN g <=> k \in DOMAIN f)
                   /\ \A k \in DOMAIN f : k[1] = a => g[k] = f[k]

\* A step does not touch the agent a.
Untouched(a) == /\ traderAgent'[a] = traderAgent[a]
                /\ SameOf(participant, participant', a) /\ SameOf(daily, daily', a)

\* Then its counters stay the sums,
LEMMA UntouchedSums ==
    ASSUME LedgerRows, NEW a, AgentSums(a), Untouched(a)
    PROVE  AgentSums(a)'
<1>1. ASSUME NEW x PROVE GroupSum(Column(Faces', x), a) = GroupSum(Column(Faces, x), a)
  <2>. DEFINE f == Column(Faces, x)  g == Column(Faces', x)
  <2>1. /\ DOMAIN f = DOMAIN participant /\ DOMAIN g = DOMAIN participant'
        /\ \A k \in DOMAIN f : f[k] = Face(participant[k])[x]
        /\ \A k \in DOMAIN g : g[k] = Face(participant'[k])[x]
    BY DEF Column, Faces
  <2>2. IsFiniteSet(DOMAIN f)
    BY <2>1 DEF LedgerRows, LedgerShape
  <2>. HIDE DEF f, g
  <2>3. /\ \A k : k[1] = a => (k \in DOMAIN g <=> k \in DOMAIN f)
        /\ \A k \in DOMAIN f : k[1] = a => g[k] = f[k]
    BY <2>1 DEF Untouched, SameOf
  <2>4. GroupSum(g, a) = GroupSum(f, a)
    BY <2>2, <2>3, GroupSame
  <2>. QED  BY <2>4 DEF f, g
<1>2. ASSUME NEW x PROVE GroupSum(Column(daily', x), a) = GroupSum(Column(daily, x), a)
  <2>. DEFINE f == Column(daily, x)  g == Column(daily', x)
  <2>1. /\ DOMAIN f = DOMAIN daily /\ DOMAIN g = DOMAIN daily'
        /\ \A k \in DOMAIN f : f[k] = daily[k][x]
        /\ \A k \in DOMAIN g : g[k] = daily'[k][x]
    BY DEF Column
  <2>2. IsFiniteSet(DOMAIN f)
    BY <2>1 DEF LedgerRows, LedgerShape
  <2>. HIDE DEF f, g
  <2>3. /\ \A k : k[1] = a => (k \in DOMAIN g <=> k \in DOMAIN f)
        /\ \A k \in DOMAIN f : k[1] = a => g[k] = f[k]
    BY <2>1 DEF Untouched, SameOf
  <2>4. GroupSum(g, a) = GroupSum(f, a)
    BY <2>2, <2>3, GroupSame
  <2>. QED  BY <2>4 DEF f, g
<1>. QED  BY <1>1, <1>2 DEF AgentSums, Untouched

\* and its days stay the credits of its participants.
LEMMA UntouchedDays ==
    ASSUME LedgerRows, NEW a, DaySums(a), Untouched(a)
    PROVE  DaySums(a)'
<1>1. ASSUME NEW d PROVE /\ ListedOn(<<a, d>>)' = ListedOn(<<a, d>>)
                         /\ \A x : Entry(daily', <<a, d>>, x) = Entry(daily, <<a, d>>, x)
  <2>. DEFINE k == <<a, d>>
  <2>1. /\ k[1] = a
        /\ k \in DOMAIN daily' <=> k \in DOMAIN daily
        /\ k \in DOMAIN daily => daily'[k] = daily[k]
    BY DEF Untouched, SameOf
  <2>. HIDE DEF k
  <2>. QED  BY <2>1 DEF ListedOn, Entry, k
<1>2. ASSUME NEW d PROVE SettledIn(a, d)' = SettledIn(a, d) BY DEF Untouched, SameOf, SettledIn
<1>3. ASSUME NEW d, NEW x \in ShareFields
      PROVE  GroupSum(Credits(d, x)', a) = GroupSum(Credits(d, x), a)
  <2>. DEFINE f == Credits(d, x)  g == Credits(d, x)'
  <2>1. /\ DOMAIN f = DOMAIN participant /\ DOMAIN g = DOMAIN participant'
        /\ \A k \in DOMAIN f : f[k] = Credit(participant[k], d, x)
        /\ \A k \in DOMAIN g : g[k] = Credit(participant'[k], d, x)
    BY DEF Credits, Credit, DayShare
  <2>2. IsFiniteSet(DOMAIN f)
    BY <2>1 DEF LedgerRows, LedgerShape
  <2>. HIDE DEF f, g
  <2>3. /\ \A k : k[1] = a => (k \in DOMAIN g <=> k \in DOMAIN f)
        /\ \A k \in DOMAIN f : k[1] = a => g[k] = f[k]
    BY <2>1 DEF Untouched, SameOf
  <2>4. GroupSum(g, a) = GroupSum(f, a)
    BY <2>2, <2>3, GroupSame
  <2>. QED  BY <2>4 DEF f, g
<1>. SUFFICES ASSUME NEW d \in DaysRun
              PROVE  /\ ListedOn(<<a, d>>)' = SettledIn(a, d)'
                     /\ \A x \in ShareFields :
                           Entry(daily', <<a, d>>, x) = GroupSum(Credits(d, x)', a)
  BY DEF DaySums, DaysRun, Day, Entry, GroupSum, Group
<1>. QED  BY <1>1, <1>2, <1>3 DEF DaySums

\* A step books amounts for the agents of T: m[a] for the participant in c and in the
\* totals, plus[a] on the day t, and takes minus[a] from the day r[a].
Movement(T, c, t, r, m, plus, minus) ==
    /\ T \subseteq DOMAIN traderAgent /\ DOMAIN m = T
    /\ DOMAIN traderAgent' = DOMAIN traderAgent
    /\ \A a \in T : Shift(a, c, t, r[a], m[a], plus[a], minus[a])
    /\ \A a \in DOMAIN traderAgent \ T : Untouched(a)
    /\ \A x \in AgentCounters : global'[x] = global[x] + SumFunction(Column(m, x))

\* The totals follow.
LEMMA MovementKeepsTotals ==
    ASSUME LedgerRows, GlobalSums, NEW T, NEW c, NEW t, NEW r, NEW m, NEW plus, NEW minus,
           Movement(T, c, t, r, m, plus, minus)
    PROVE  GlobalSums'
<1>. SUFFICES ASSUME NEW x \in AgentCounters
              PROVE  global'[x] = SumFunction(Column(traderAgent', x))
  BY DEF GlobalSums
<1>. DEFINE f == Column(traderAgent, x)  g == Column(traderAgent', x)  e == Column(m, x)
<1>1. /\ DOMAIN f = DOMAIN traderAgent /\ DOMAIN g = DOMAIN traderAgent' /\ DOMAIN e = T
      /\ \A a \in DOMAIN f : f[a] = traderAgent[a][x]
      /\ \A a \in DOMAIN g : g[a] = traderAgent'[a][x]
      /\ \A a \in DOMAIN e : e[a] = m[a][x]
  BY DEF Column, Movement
<1>2. x \in FaceFields
  BY DEF FaceFields
<1>4. global[x] = SumFunction(f) /\ global'[x] = global[x] + SumFunction(e)
  BY DEF GlobalSums, Movement
<1>. HIDE DEF f, g, e
<1>3. ASSUME NEW a \in DOMAIN traderAgent
      PROVE  /\ f[a] \in Int
             /\ a \in T => e[a] \in Int /\ g[a] = f[a] + e[a]
             /\ a \notin T => g[a] = f[a]
  <2>1. traderAgent[a][x] \in Int
    BY DEF LedgerRows, LedgerNumbers
  <2>2. ASSUME a \in T PROVE m[a][x] \in Int /\ traderAgent'[a][x] = traderAgent[a][x] + m[a][x]
    BY <2>2, <1>2 DEF Movement, Shift
  <2>3. ASSUME a \notin T PROVE traderAgent'[a] = traderAgent[a]
    BY <2>3 DEF Movement, Untouched
  <2>. QED  BY <1>1, <2>1, <2>2, <2>3 DEF Movement
<1>6. /\ IsFiniteSet(DOMAIN f) /\ DOMAIN g = DOMAIN f /\ DOMAIN e \subseteq DOMAIN f
      /\ \A a \in DOMAIN f : f[a] \in Int
      /\ \A a \in DOMAIN e : e[a] \in Int
      /\ \A a \in DOMAIN f : g[a] = IF a \in DOMAIN e THEN f[a] + e[a] ELSE f[a]
  BY <1>1, <1>3 DEF Movement, LedgerRows, LedgerShape
<1>5. SumFunction(g) = SumFunction(f) + SumFunction(e)
  BY <1>6, SumRaise
<1>. QED  BY <1>4, <1>5 DEF g

\* So do the sums of every agent.
LEMMA MovementKeepsSums ==
    ASSUME LedgerRows, \A a \in DOMAIN traderAgent : AgentSums(a),
           NEW T, NEW c, NEW t, NEW r, NEW m, NEW plus, NEW minus,
           Movement(T, c, t, r, m, plus, minus)
    PROVE  \A a \in DOMAIN traderAgent' : AgentSums(a)'
<1>. SUFFICES ASSUME NEW a \in DOMAIN traderAgent PROVE AgentSums(a)'
  BY DEF Movement
<1>1. CASE a \in T BY <1>1, ShiftKeepsSums DEF Movement
<1>2. CASE a \notin T BY <1>2, UntouchedSums DEF Movement
<1>. QED  BY <1>1, <1>2

\* What is added to integers leaves integers.
LEMMA ShiftKeepsNumbers ==
    ASSUME LedgerRows, NEW a \in DOMAIN traderAgent, NEW c, NEW t, NEW r, NEW m, NEW plus, NEW minus,
           Shift(a, c, t, r, m, plus, minus)
    PROVE  /\ \A x \in AgentCounters : traderAgent'[a][x] \in Int
           /\ \A k \in DOMAIN participant' : k[1] = a =>
                 \A x \in FaceFields : Face(participant'[k])[x] \in Int
           /\ \A k \in DOMAIN daily' : k[1] = a => \A x \in DayCounters : daily'[k][x] \in Int
<1>1. ASSUME NEW x \in AgentCounters PROVE traderAgent'[a][x] \in Int
  BY DEF FaceFields, LedgerRows, LedgerNumbers, Shift
<1>2. ASSUME NEW k \in DOMAIN participant', k[1] = a, NEW x \in FaceFields
      PROVE  Face(participant'[k])[x] \in Int
  <2>1. CASE k = <<a, c>>
    <3>. DEFINE n == m[x]  e == Entry(Faces, <<a, c>>, x)
    <3>1. e \in Int
      BY DEF Entry, Faces, LedgerRows, LedgerNumbers
    <3>2. Face(participant'[k])[x] = e + n /\ n \in Int
      BY <2>1 DEF Shift
    <3>. HIDE DEF n, e
    <3>. QED  BY <3>1, <3>2
  <2>2. CASE k # <<a, c>>
    BY <1>2, <2>2 DEF Shift, LedgerRows, LedgerNumbers
  <2>. QED  BY <2>1, <2>2
<1>3. ASSUME NEW k \in DOMAIN daily', k[1] = a, NEW x \in DayCounters
      PROVE  daily'[k][x] \in Int
  <2>. DEFINE p == plus[x]  n == minus[x]  e == Entry(daily, k, x)
  <2>1. e \in Int
    BY DEF Entry, LedgerRows, LedgerNumbers
  <2>2. /\ daily'[k][x] = e + (IF k = <<a, t>> THEN p ELSE 0) - (IF k = <<a, r>> THEN n ELSE 0)
        /\ p \in Int /\ n \in Int
    BY <1>3 DEF Shift
  <2>. HIDE DEF p, n, e
  <2>. QED  BY <2>1, <2>2
<1>. QED  BY <1>1, <1>2, <1>3

\* No counter stops being an integer, of all rows.
LEMMA MovementKeepsNumbers ==
    ASSUME LedgerRows, NEW T, NEW c, NEW t, NEW r, NEW m, NEW plus, NEW minus,
           Movement(T, c, t, r, m, plus, minus), LedgerShape'
    PROVE  LedgerNumbers'
<1>1. ASSUME NEW a \in DOMAIN traderAgent
      PROVE  /\ \A x \in AgentCounters : traderAgent'[a][x] \in Int
             /\ \A k \in DOMAIN participant' : k[1] = a =>
                   \A x \in FaceFields : Face(participant'[k])[x] \in Int
             /\ \A k \in DOMAIN daily' : k[1] = a => \A x \in DayCounters : daily'[k][x] \in Int
  <2>1. CASE a \in T BY <2>1, ShiftKeepsNumbers DEF Movement
  <2>2. CASE a \notin T BY <2>2 DEF Movement, Untouched, SameOf, LedgerRows, LedgerNumbers
  <2>. QED  BY <2>1, <2>2
<1>2. DOMAIN traderAgent' = DOMAIN traderAgent
  BY DEF Movement
<1>3. /\ \A k \in DOMAIN participant' : k[1] \in DOMAIN traderAgent
      /\ \A k \in DOMAIN daily' : k[1] \in DOMAIN traderAgent
  BY <1>2 DEF LedgerShape
<1>. QED  BY <1>1, <1>2, <1>3 DEF LedgerNumbers

-----------------------------------------------------------------------------
(* Trades and claims. *)

\* The kinds of fields.
LEMMA Fields ==
    /\ Activity \subseteq AgentCounters /\ Activity \subseteq DayCounters
    /\ Activity \subseteq ParticipantFields \ {"bets", "balance", "settled", "creditedOn"}
    /\ Activity \cap ShareFields = {}
    /\ AgentCounters \cap ShareFields = {}
    /\ AgentCounters \subseteq FaceFields /\ DayCounters \subseteq FaceFields
    /\ AgentCounters \subseteq AgentFields \ {"active"} /\ AgentCounters \subseteq GlobalFields
    /\ DayCounters \subseteq DayFields \ {"profitParticipants"} /\ ShareFields \subseteq DayCounters
    /\ AgentCounters \ {"totalExpectedPayout"} \subseteq
          ParticipantFields \ {"bets", "balance", "settled", "creditedOn"}
    /\ FaceFields = AgentCounters \cup ShareFields
    /\ "totalExpectedPayout" \notin Activity
BY DEF Activity, AgentCounters, DayCounters, FaceFields, ShareFields, ParticipantFields,
       AgentFields, GlobalFields, DayFields

\* What a participant counts for, field by field.
LEMMA FaceValues ==
    ASSUME NEW p
    PROVE  /\ \A x \in ShareFields : Face(p)[x] = DayShare(p)[x]
           /\ Face(p)["totalExpectedPayout"] = p.expectedPayout
           /\ \A x \in AgentCounters \ {"totalExpectedPayout"} : Face(p)[x] = p[x]
BY Fields DEF Face, FaceFields, ShareFields, AgentCounters, Activity

\* A participant that is made counts for nothing.
LEMMA NewFace ==
    /\ DOMAIN NewParticipant = ParticipantFields
    /\ \A x \in FaceFields : Face(NewParticipant)[x] = 0
    /\ \A d \in DaysRun, x \in ShareFields : Credit(NewParticipant, d, x) = 0
    /\ NewParticipant.creditedOn \notin DaysRun /\ NewParticipant.settled = FALSE
    /\ NewParticipant.balance \in [Outcomes -> Int]
<1>1. DOMAIN NewParticipant = ParticipantFields
  BY DEF NewParticipant, ParticipantFields
<1>2. /\ \A x \in AgentCounters \ {"totalExpectedPayout"} : NewParticipant[x] = 0
      /\ NewParticipant.expectedPayout = 0
  BY DEF NewParticipant, AgentCounters, Activity
<1>3. \A x \in ShareFields : DayShare(NewParticipant)[x] = 0
  BY DEF NewParticipant, DayShare, ShareFields
<1>4. \A x \in FaceFields : Face(NewParticipant)[x] = 0
  BY <1>2, <1>3, Fields, FaceValues
<1>5. NewParticipant.creditedOn = None /\ NewParticipant.settled = FALSE
      /\ NewParticipant.balance = [o \in Outcomes |-> 0]
  BY DEF NewParticipant
<1>6. DaysRun \subseteq Int /\ None \notin DaysRun BY OmenTime DEF DaysRun, Day
<1>7. NewParticipant.balance \in [Outcomes -> Int]
  BY <1>5
<1>. QED  BY <1>1, <1>3, <1>4, <1>5, <1>6, <1>7 DEF Credit

\* The participant that is loaded or made.
LEMMA LoadedFace ==
    ASSUME LedgerRows, NEW k, NEW old, old = LoadOr(participant, k, NewParticipant)
    PROVE  /\ DOMAIN old = ParticipantFields
           /\ \A x \in FaceFields : Face(old)[x] = Entry(Faces, k, x) /\ Entry(Faces, k, x) \in Int
           /\ \A d \in DaysRun, x \in ShareFields :
                 Credit(old, d, x) = Before(Credits(d, x), k) /\ Credit(old, d, x) \in Int
           /\ old.balance \in [Outcomes -> Int] /\ old.settled \in BOOLEAN
<1>1. CASE k \in DOMAIN participant
  <2>0. old = participant[k]
    BY <1>1 DEF LoadOr
  <2>1. /\ DOMAIN old = ParticipantFields /\ \A x \in FaceFields : Face(old)[x] \in Int
        /\ old.balance \in [Outcomes -> Int] /\ old.settled \in BOOLEAN
    BY <1>1, <2>0 DEF LedgerRows, LedgerShape, LedgerNumbers
  <2>2. \A x \in FaceFields : Entry(Faces, k, x) = Face(old)[x]
    BY <1>1, <2>0 DEF Entry, Faces
  <2>3. \A d, x : Before(Credits(d, x), k) = Credit(old, d, x)
    BY <1>1, <2>0 DEF Before, Credits
  <2>4. ASSUME NEW d, NEW x \in ShareFields PROVE Credit(old, d, x) \in Int
    <3>1. DayShare(old)[x] \in Int
      BY <2>1, Fields, FaceValues
    <3>. QED  BY <3>1 DEF Credit
  <2>. QED  BY <2>1, <2>2, <2>3, <2>4
<1>2. CASE k \notin DOMAIN participant
  <2>0. old = NewParticipant
    BY <1>2 DEF LoadOr
  <2>1. \A x \in FaceFields : Entry(Faces, k, x) = 0
    BY <1>2 DEF Entry, Faces
  <2>2. \A d, x : Before(Credits(d, x), k) = 0
    BY <1>2 DEF Before, Credits
  <2>3. old.settled \in BOOLEAN
    BY <2>0, NewFace
  <2>4. /\ DOMAIN old = ParticipantFields /\ old.balance \in [Outcomes -> Int]
        /\ \A x \in FaceFields : Face(old)[x] = 0
        /\ \A d \in DaysRun, x \in ShareFields : Credit(old, d, x) = 0
    BY <2>0, NewFace
  <2>. QED  BY <2>1, <2>2, <2>3, <2>4
<1>. QED  BY <1>1, <1>2

\* The day that is loaded or made.
LEMMA LoadedDay ==
    ASSUME LedgerRows, NEW k
    PROVE  LET old == LoadOr(daily, k, NewDay) IN
           /\ DOMAIN old = DayFields /\ old.profitParticipants = ListedOn(k)
           /\ \A x \in DayCounters : old[x] = Entry(daily, k, x) /\ Entry(daily, k, x) \in Int
<1>1. CASE k \in DOMAIN daily
  BY <1>1 DEF LoadOr, Entry, ListedOn, LedgerRows, LedgerShape, LedgerNumbers
<1>2. CASE k \notin DOMAIN daily
  <2>1. /\ DOMAIN NewDay = DayFields /\ NewDay.profitParticipants = {}
        /\ \A x \in DayCounters : NewDay[x] = 0
    BY DEF NewDay, DayFields, DayCounters, Activity, ShareFields
  <2>. QED  BY <1>2, <2>1 DEF LoadOr, Entry, ListedOn
<1>. QED  BY <1>1, <1>2

\* The amounts of delta, and no other.
Amounts(delta) == [x \in FaceFields |-> IF x \in DOMAIN delta THEN delta[x] ELSE 0]
Nothing == [x \in DayCounters |-> 0]

\* What adding amounts to a row does to its fields.
LEMMA AddValues ==
    ASSUME NEW row, NEW delta
    PROVE  /\ DOMAIN Add(row, delta) = DOMAIN row
           /\ \A x \in DOMAIN row \ DOMAIN delta : Add(row, delta)[x] = row[x]
           /\ \A x \in (DOMAIN row) \cap (DOMAIN delta) : Add(row, delta)[x] = row[x] + delta[x]
BY DEF Add

\* Field by field, an amount that is not given counts as zero.
LEMMA AddAmounts ==
    ASSUME NEW row, NEW delta, NEW x \in FaceFields, x \in DOMAIN row, row[x] \in Int,
           \A y \in DOMAIN delta : delta[y] \in Int
    PROVE  Add(row, delta)[x] = row[x] + Amounts(delta)[x] /\ Amounts(delta)[x] \in Int
BY AddValues DEF Amounts

\* A trade or a claim books the amounts of delta for the agent a in c, today.
ActivityStep(a, c, delta, new, agent) ==
    /\ a \in DOMAIN traderAgent
    /\ DOMAIN delta \subseteq Activity /\ \A x \in DOMAIN delta : delta[x] \in Int
    /\ DOMAIN new = ParticipantFields
    /\ \A x \in ParticipantFields \ {"bets", "balance"} :
          new[x] = Add(LoadOr(participant, <<a, c>>, NewParticipant), delta)[x]
    /\ DOMAIN agent = AgentFields
    /\ \A x \in AgentFields \ {"active"} : agent[x] = Add(traderAgent[a], delta)[x]
    /\ traderAgent' = Put(traderAgent, a, agent)
    /\ participant' = Put(participant, <<a, c>>, new)
    /\ daily' = Put(daily, <<a, Day(now)>>, Add(LoadOr(daily, <<a, Day(now)>>, NewDay), delta))
    /\ \A x \in AgentCounters : global'[x] = Add(global, delta)[x]

\* The participant it writes.
LEMMA ActivityFace ==
    ASSUME LedgerRows, NEW a, NEW c, NEW delta, NEW new, NEW agent,
           ActivityStep(a, c, delta, new, agent)
    PROVE  LET old == LoadOr(participant, <<a, c>>, NewParticipant) IN
           /\ \A x \in FaceFields : Face(new)[x] = Entry(Faces, <<a, c>>, x) + Amounts(delta)[x]
           /\ \A x \in ShareFields : DayShare(new)[x] = DayShare(old)[x]
           /\ new.creditedOn = old.creditedOn /\ new.settled = old.settled
           /\ new.expectedPayout = old.expectedPayout
<1>. DEFINE old == LoadOr(participant, <<a, c>>, NewParticipant)
<1>1. /\ DOMAIN old = ParticipantFields
      /\ \A x \in FaceFields : Face(old)[x] = Entry(Faces, <<a, c>>, x)
                               /\ Entry(Faces, <<a, c>>, x) \in Int
  BY LoadedFace
<1>2. /\ \A x \in ParticipantFields \ {"bets", "balance"} : new[x] = Add(old, delta)[x]
      /\ DOMAIN delta \subseteq Activity /\ \A x \in DOMAIN delta : delta[x] \in Int
  BY DEF ActivityStep
<1>. HIDE DEF old
<1>3. \A x \in ParticipantFields \ ({"bets", "balance"} \cup Activity) : new[x] = old[x]
  BY <1>1, <1>2, AddValues
<1>4. /\ new.expectedPayout = old.expectedPayout /\ new.creditedOn = old.creditedOn
      /\ new.totalTradedSettled = old.totalTradedSettled
      /\ new.totalFeesSettled = old.totalFeesSettled
      /\ new.brierSum = old.brierSum /\ new.brierCount = old.brierCount
      /\ new.settled = old.settled
  BY <1>3 DEF ParticipantFields, Activity
<1>5. DayShare(new) = DayShare(old)
  BY <1>4 DEF DayShare
<1>6. ASSUME NEW x \in FaceFields PROVE Face(new)[x] = Face(old)[x] + Amounts(delta)[x]
  <2>1. Face(old)[x] \in Int
    BY <1>1
  <2>2. CASE x \in ShareFields \cup {"totalExpectedPayout"}
    <3>1. Face(new)[x] = Face(old)[x]
        <4>1. CASE x \in ShareFields
        <5>1. Face(new)[x] = DayShare(new)[x] /\ Face(old)[x] = DayShare(old)[x]
          BY <4>1, FaceValues
        <5>. QED  BY <1>5, <5>1
      <4>2. CASE x = "totalExpectedPayout"
        BY <1>4, <4>2, FaceValues
      <4>. QED  BY <2>2, <4>1, <4>2
    <3>2. x \notin DOMAIN delta
      BY <1>2, <2>2, Fields
    <3>3. Amounts(delta)[x] = 0
      BY <3>2 DEF Amounts
    <3>. QED  BY <2>1, <3>1, <3>3
  <2>3. CASE x \notin ShareFields \cup {"totalExpectedPayout"}
    BY <2>3, Fields, FaceValues, <1>2, <1>1, <2>1, AddAmounts
  <2>. QED  BY <2>2, <2>3
<1>. QED  BY <1>1, <1>4, <1>5, <1>6 DEF old

\* It moves the amounts of one agent.
LEMMA ActivityMoves ==
    ASSUME LedgerRows, GlobalSums, NEW a, NEW c, NEW delta, NEW new, NEW agent,
           ActivityStep(a, c, delta, new, agent)
    PROVE  Movement({a}, c, Day(now), [i \in {a} |-> Day(now)], [i \in {a} |-> Amounts(delta)],
                    [i \in {a} |-> Amounts(delta)], [i \in {a} |-> Nothing])
<1>. DEFINE t == Day(now)  k == <<a, c>>  day == <<a, t>>  m == Amounts(delta)
            dayOf == LoadOr(daily, day, NewDay)
<1>1. /\ a \in DOMAIN traderAgent
      /\ DOMAIN delta \subseteq Activity /\ \A x \in DOMAIN delta : delta[x] \in Int
      /\ DOMAIN new = ParticipantFields
      /\ \A x \in AgentFields \ {"active"} : agent[x] = Add(traderAgent[a], delta)[x]
      /\ traderAgent' = Put(traderAgent, a, agent) /\ participant' = Put(participant, k, new)
      /\ daily' = Put(daily, day, Add(dayOf, delta))
      /\ \A x \in AgentCounters : global'[x] = Add(global, delta)[x]
  BY DEF ActivityStep
<1>2. \A x \in FaceFields : m[x] \in Int
  BY <1>1 DEF Amounts
<1>3. /\ DOMAIN traderAgent' = DOMAIN traderAgent /\ traderAgent'[a] = agent
      /\ \A i \in DOMAIN traderAgent \ {a} : traderAgent'[i] = traderAgent[i]
  BY <1>1 DEF Put
<1>4. ASSUME NEW x \in AgentCounters PROVE traderAgent'[a][x] = traderAgent[a][x] + m[x]
  BY Fields, <1>1, AddAmounts, <1>3 DEF LedgerRows, LedgerShape, LedgerNumbers
<1>5. \A x \in FaceFields : Face(new)[x] = Entry(Faces, k, x) + m[x]
  BY ActivityFace
<1>6. /\ DOMAIN participant' = DOMAIN participant \cup {k} /\ participant'[k] = new
      /\ \A j \in DOMAIN participant \ {k} : participant'[j] = participant[j]
  <2>. HIDE DEF k
  <2>. QED  BY <1>1 DEF Put
<1>7. /\ DOMAIN dayOf = DayFields
      /\ \A x \in DayCounters : dayOf[x] = Entry(daily, day, x) /\ Entry(daily, day, x) \in Int
  BY LoadedDay
<1>8. /\ DOMAIN daily' = DOMAIN daily \cup {day} /\ daily'[day] = Add(dayOf, delta)
      /\ \A j \in DOMAIN daily \ {day} : daily'[j] = daily[j]
  <2>. HIDE DEF day
  <2>. QED  BY <1>1 DEF Put
<1>. HIDE DEF m, dayOf
<1>9. ASSUME NEW x \in DayCounters
      PROVE  daily'[day][x] = Entry(daily, day, x) + m[x] /\ m[x] \in Int
  BY <1>7, Fields, <1>1, AddAmounts, <1>2, <1>8 DEF m
<1>10. ASSUME NEW j \in DOMAIN daily', j[1] = a, NEW x \in DayCounters
       PROVE  daily'[j][x] = Entry(daily, j, x) + (IF j = <<a, t>> THEN m[x] ELSE 0)
                                                - (IF j = <<a, t>> THEN Nothing[x] ELSE 0)
  <2>. DEFINE n == m[x]
  <2>1. Nothing[x] = 0 /\ n \in Int
    BY <1>9 DEF Nothing
  <2>2. Entry(daily, j, x) \in Int
    BY DEF Entry, LedgerRows, LedgerNumbers
  <2>3. CASE j = day
    <3>1. daily'[j][x] = Entry(daily, j, x) + n
      BY <1>9, <2>3
    <3>. HIDE DEF n
    <3>. QED  BY <2>1, <2>2, <2>3, <3>1 DEF n
  <2>4. CASE j # day
    <3>1. j \in DOMAIN daily /\ daily'[j] = daily[j]
      BY <1>8, <2>4
    <3>2. daily'[j][x] = Entry(daily, j, x)
      BY <3>1 DEF Entry
    <3>. HIDE DEF n
    <3>. QED  BY <2>1, <2>2, <2>4, <3>2
  <2>. QED  BY <2>3, <2>4
<1>11. Shift(a, c, t, t, m, m, Nothing)
  BY <1>9, <1>6, <1>8, <1>2, <1>4, <1>5, <1>10 DEF Nothing, Shift
<1>12. ASSUME NEW i \in DOMAIN traderAgent \ {a} PROVE Untouched(i)
  <2>1. \A j : j[1] = i => j # k /\ j # day
    OBVIOUS
  <2>. HIDE DEF k, day
  <2>. QED  BY <1>3, <1>6, <1>8, <2>1 DEF Untouched, SameOf
<1>13. ASSUME NEW x \in AgentCounters
       PROVE  global'[x] = global[x] + SumFunction(Column([i \in {a} |-> m], x))
  <2>. DEFINE e == Column([i \in {a} |-> m], x)
  <2>1. x \in FaceFields /\ x \in GlobalFields
    BY Fields
  <2>2. DOMAIN e = {a} /\ e[a] = m[x] /\ m[x] \in Int
    BY <1>2, <2>1 DEF Column
  <2>. HIDE DEF e
  <2>3. SumFunction(e) = m[x]
    BY <2>2, SumOfOne
  <2>4. global[x] \in Int
    <3>. DEFINE f == Column(traderAgent, x)
    <3>1. IsFiniteSet(DOMAIN f) /\ \A i \in DOMAIN f : f[i] \in Int
      BY DEF Column, LedgerRows, LedgerShape, LedgerNumbers
    <3>. HIDE DEF f
    <3>2. SumFunction(f) \in Int
      BY <3>1, SumFunctionType
    <3>. QED  BY <3>2 DEF GlobalSums, f
  <2>5. Add(global, delta)[x] = global[x] + m[x]
    BY <1>1, <2>1, <2>4, AddAmounts DEF m, LedgerRows, LedgerShape
  <2>. QED  BY <1>1, <2>3, <2>5 DEF e
<1>. HIDE DEF t
<1>. QED  BY <1>1, <1>3, <1>11, <1>12, <1>13 DEF Movement, m, t

\* What a participant counts for on a day is an integer.
LEMMA CreditIntegers ==
    ASSUME LedgerRows
    PROVE  \A k \in DOMAIN participant, d \in DaysRun, x \in ShareFields : Credits(d, x)[k] \in Int
<1>. SUFFICES ASSUME NEW k \in DOMAIN participant, NEW d \in DaysRun, NEW x \in ShareFields
              PROVE  Credits(d, x)[k] \in Int
  OBVIOUS
<1>1. x \in FaceFields /\ Face(participant[k])[x] \in Int
  BY Fields DEF LedgerRows, LedgerNumbers
<1>2. DayShare(participant[k])[x] \in Int
  BY <1>1, FaceValues
<1>. QED  BY <1>2 DEF Credits, Credit

\* Trades and claims leave what the days hold of the settlements.
LEMMA ActivityKeepsDays ==
    ASSUME LedgerRows, GlobalSums, NEW a, NEW c, NEW delta, NEW new, NEW agent,
           ActivityStep(a, c, delta, new, agent), NEW i \in DOMAIN traderAgent, DaySums(i)
    PROVE  DaySums(i)'
<1>. DEFINE t == Day(now)  k == <<a, c>>  day == <<a, t>>
<1>1. Movement({a}, c, t, [j \in {a} |-> t], [j \in {a} |-> Amounts(delta)],
               [j \in {a} |-> Amounts(delta)], [j \in {a} |-> Nothing])
  BY ActivityMoves
<1>2. CASE i # a BY <1>1, <1>2, UntouchedDays DEF Movement
<1>3. CASE i = a
  <2>1. Shift(a, c, t, t, Amounts(delta), Amounts(delta), Nothing)
    BY <1>1 DEF Movement
  <2>2. PICK old : old = LoadOr(participant, k, NewParticipant)
    OBVIOUS
  <2>3. /\ \A x \in ShareFields : DayShare(new)[x] = DayShare(old)[x]
        /\ new.creditedOn = old.creditedOn
    BY <2>2, ActivityFace
  <2>4. /\ DOMAIN participant' = DOMAIN participant \cup {k} /\ participant'[k] = new
        /\ \A j \in DOMAIN participant \ {k} : participant'[j] = participant[j]
    <3>. HIDE DEF k
    <3>. QED  BY DEF ActivityStep, Put, k
  <2>5. /\ DOMAIN delta \subseteq Activity
        /\ DOMAIN daily' = DOMAIN daily \cup {day}
        /\ daily'[day] = Add(LoadOr(daily, day, NewDay), delta)
        /\ \A j \in DOMAIN daily \ {day} : daily'[j] = daily[j]
    <3>. HIDE DEF day
    <3>. QED  BY DEF ActivityStep, Put, day
  <2>6. ASSUME NEW d \in DaysRun, NEW x \in ShareFields
        PROVE  Credit(participant'[k], d, x) =
                   Before(Credits(d, x), k) + (IF d = t THEN Amounts(delta)[x] ELSE 0)
                                            - (IF d = t THEN Nothing[x] ELSE 0)
    <3>1. Amounts(delta)[x] = 0 /\ Nothing[x] = 0
      BY <2>5, Fields DEF Amounts, Nothing
    <3>2. Credit(old, d, x) = Before(Credits(d, x), k) /\ Credit(old, d, x) \in Int
      BY <2>2, LoadedFace
    <3>3. Credit(new, d, x) = Credit(old, d, x)
      BY <2>3 DEF Credit
    <3>. HIDE DEF k, t
    <3>. QED  BY <2>4, <3>1, <3>2, <3>3
  <2>7. ASSUME NEW d \in DaysRun PROVE ListedOn(<<a, d>>)' = SettledIn(a, d)'
    <3>1. SettledIn(a, d)' = SettledIn(a, d)
      <4>1. k \in DOMAIN participant => old = participant[k]
        BY <2>2 DEF LoadOr
      <4>2. k \notin DOMAIN participant => old.creditedOn \notin DaysRun
        BY <2>2, NewFace DEF LoadOr
      <4>. HIDE DEF k
      <4>3. {j \in DOMAIN participant' : j[1] = a /\ participant'[j].creditedOn = d}
                = {j \in DOMAIN participant : j[1] = a /\ participant[j].creditedOn = d}
        BY <2>3, <2>4, <4>1, <4>2
      <4>. QED  BY <4>3 DEF SettledIn
    <3>2. ListedOn(<<a, d>>)' = ListedOn(<<a, d>>)
      <4>. DEFINE j == <<a, d>>  row == LoadOr(daily, j, NewDay)
      <4>1. /\ DOMAIN row = DayFields /\ row.profitParticipants = ListedOn(j)
        BY LoadedDay
      <4>2. "profitParticipants" \in DayFields \ Activity
        BY DEF DayFields, Activity
      <4>. HIDE DEF row
      <4>3. Add(row, delta).profitParticipants = row.profitParticipants
        BY <2>5, <4>1, <4>2, AddValues
      <4>4. j = day => daily'[j] = Add(row, delta)
        BY <2>5 DEF row
      <4>. HIDE DEF j, day
      <4>. QED  BY <2>5, <4>1, <4>3, <4>4 DEF ListedOn, j
    <3>. QED  BY <3>1, <3>2, <1>3 DEF DaySums
  <2>8. Recredited(a, c, t, t, Amounts(delta), Nothing)
    BY <2>6, <2>7 DEF Recredited
  <2>. QED  BY <1>3, <2>1, <2>8, CreditIntegers, ShiftKeepsDays
<1>. QED  BY <1>2, <1>3

\* A time of the run lies on a day of the run.
LEMMA DayInRun == ASSUME NEW t \in Times PROVE Day(t) \in DaysRun
BY OmenTime, DivOrdered DEF Times, DaysRun, Day

\* A row that is there is saved by EXCEPT as by Put.
LEMMA PutThere ==
    ASSUME NEW f, NEW k \in DOMAIN f, NEW v
    PROVE  [f EXCEPT ![k] = v] = Put(f, k, v)
BY DEF Put

\* What a trade counts, and its agent.
Traded(amount, fee) == [totalBets |-> 1, totalTraded |-> amount, totalFees |-> fee]
TradingAgent(a, amount, fee) == [Add(traderAgent[a], Traded(amount, fee)) EXCEPT !.active = TRUE]

\* What a trade's row says.
TradedSays(row, amount, fee, b, outcome, tokens) ==
    LET next == TradedRow(row, amount, fee, b, outcome, tokens) IN
    /\ DOMAIN next = ParticipantFields
    /\ \A x \in ParticipantFields \ {"bets", "balance"} :
          next[x] = Add(row, Traded(amount, fee))[x]
    /\ next.bets = row.bets \cup {b}
    /\ next.balance \in [Outcomes -> Int]
    /\ \A i \in Outcomes : next.balance[i] = IF i = outcome THEN row.balance[i] + tokens
                                             ELSE row.balance[i]

\* It says so.
LEMMA TradedValues ==
    ASSUME NEW row, NEW amount, NEW fee, NEW b, NEW outcome, NEW tokens,
           DOMAIN row = ParticipantFields, row.balance \in [Outcomes -> Int],
           outcome \in Outcomes, tokens \in Int
    PROVE  TradedSays(row, amount, fee, b, outcome, tokens)
<1>. DEFINE sum == Add(row, Traded(amount, fee))
            next == TradedRow(row, amount, fee, b, outcome, tokens)
<1>1. DOMAIN sum = ParticipantFields /\ sum.balance = row.balance /\ sum.bets = row.bets
  BY DEF Add, Traded, ParticipantFields
<1>2. next = [sum EXCEPT !.bets = @ \cup {b}, !.balance[outcome] = @ + tokens]
  BY DEF TradedRow, Traded
<1>3. "balance" \in ParticipantFields /\ "bets" \in ParticipantFields
  BY DEF ParticipantFields
<1>. HIDE DEF sum, next
<1>4. next.balance = [sum.balance EXCEPT ![outcome] = @ + tokens]
  BY <1>1, <1>2, <1>3
<1>5. next.balance \in [Outcomes -> Int]
  BY <1>1, <1>4
<1>6. \A i \in Outcomes : next.balance[i] = IF i = outcome THEN row.balance[i] + tokens
                                            ELSE row.balance[i]
  BY <1>1, <1>4
<1>7. /\ DOMAIN next = ParticipantFields /\ next.bets = row.bets \cup {b}
      /\ \A x \in ParticipantFields \ {"bets", "balance"} : next[x] = sum[x]
  BY <1>1, <1>2, <1>3
<1>. QED  BY <1>5, <1>6, <1>7 DEF sum, next, TradedSays

\* A trade is such a step.
LEMMA TradeActivity ==
    ASSUME LedgerRows, NEW a, NEW f, NEW amount \in Int, NEW fee \in Int,
           NEW outcome \in Outcomes, NEW tokens \in Int, NEW price,
           Trade(a, f, amount, fee, outcome, tokens, price),
           NEW old, old = LoadOr(participant, <<a, f>>, NewParticipant),
           NEW new, new = TradedRow(old, amount, fee, Cardinality(DOMAIN bet), outcome, tokens)
    PROVE  /\ ActivityStep(a, f, Traded(amount, fee), new, TradingAgent(a, amount, fee))
           /\ DOMAIN global' = GlobalFields
           /\ global'.totalTraderAgents = global.totalTraderAgents
           /\ global'.totalActiveTraderAgents =
                 global.totalActiveTraderAgents + IF traderAgent[a].active THEN 0 ELSE 1
<1>. DEFINE delta == Traded(amount, fee)
            counted == [totalActiveTraderAgents |-> IF traderAgent[a].active THEN 0 ELSE 1]
            agent == TradingAgent(a, amount, fee)
            sum == Add(global, delta)
<1>1. /\ a \in DOMAIN traderAgent /\ participant' = Put(participant, <<a, f>>, new)
      /\ traderAgent' = [traderAgent EXCEPT ![a] = [Add(@, delta) EXCEPT !.active = TRUE]]
      /\ daily' = Put(daily, <<a, Day(now)>>, Add(LoadOr(daily, <<a, Day(now)>>, NewDay), delta))
      /\ global' = Add(sum, counted)
  BY DEF Trade, processTradeActivity, TradedRow, Traded
<1>2. DOMAIN delta \subseteq Activity /\ \A x \in DOMAIN delta : delta[x] \in Int
  BY DEF Traded, Activity
<1>3. /\ DOMAIN old = ParticipantFields /\ old.balance \in [Outcomes -> Int]
  BY LoadedFace
<1>4. /\ DOMAIN new = ParticipantFields
      /\ \A x \in ParticipantFields \ {"bets", "balance"} : new[x] = Add(old, delta)[x]
  <2>. DEFINE b == Cardinality(DOMAIN bet)
  <2>. HIDE DEF b
  <2>1. TradedSays(old, amount, fee, b, outcome, tokens)
    BY <1>3, TradedValues
  <2>. QED  BY <2>1 DEF TradedSays, b
<1>5. traderAgent' = Put(traderAgent, a, agent)
  <2>1. traderAgent' = [traderAgent EXCEPT ![a] = agent]
    BY <1>1 DEF TradingAgent
  <2>. HIDE DEF agent
  <2>. QED  BY <1>1, <2>1, PutThere
<1>6. DOMAIN agent = AgentFields /\ \A x \in AgentFields \ {"active"} :
          agent[x] = Add(traderAgent[a], delta)[x]
  <2>. DEFINE row == Add(traderAgent[a], delta)
  <2>1. DOMAIN row = AgentFields
    BY <1>1, AddValues DEF LedgerRows, LedgerShape
  <2>2. agent = [row EXCEPT !.active = TRUE]
    BY DEF TradingAgent
  <2>. HIDE DEF row, agent
  <2>. QED  BY <2>1, <2>2 DEF row
<1>7. DOMAIN global = GlobalFields
  BY DEF LedgerRows, LedgerShape
<1>8. /\ DOMAIN sum = GlobalFields /\ sum.totalTraderAgents = global.totalTraderAgents
      /\ sum.totalActiveTraderAgents = global.totalActiveTraderAgents
  BY <1>7 DEF Add, Traded, GlobalFields
<1>9. "totalActiveTraderAgents" \notin AgentCounters
      /\ {"totalActiveTraderAgents", "totalTraderAgents"} \subseteq GlobalFields
      /\ AgentCounters \subseteq GlobalFields
  BY DEF AgentCounters, Activity, GlobalFields
<1>. HIDE DEF sum, delta
<1>10. /\ DOMAIN global' = GlobalFields /\ \A x \in AgentCounters : global'[x] = sum[x]
       /\ global'.totalTraderAgents = sum.totalTraderAgents
       /\ global'.totalActiveTraderAgents =
             sum.totalActiveTraderAgents + IF traderAgent[a].active THEN 0 ELSE 1
  BY <1>1, <1>8, <1>9 DEF Add
<1>. HIDE DEF agent
<1>11. ActivityStep(a, f, delta, new, agent)
  BY <1>1, <1>2, <1>4, <1>5, <1>6, <1>10 DEF ActivityStep, sum
<1>. QED  BY <1>8, <1>10, <1>11 DEF agent, delta

\* So is a claim of a participant.
LEMMA RedemptionActivity ==
    ASSUME LedgerRows, NEW a, NEW q, NEW payout \in Int, handlePayoutRedemption(a, q, payout),
           NEW f, f = (IF q \in condition THEN LinkedMarket(q) ELSE None),
           NEW k, k = <<a, f>>, k \in DOMAIN participant, NEW paid, paid = [totalPayout |-> payout]
    PROVE  /\ ActivityStep(a, f, paid, Add(participant[k], paid), Add(traderAgent[a], paid))
           /\ participant' = Put(participant, k, Add(participant[k], paid))
           /\ traderAgent' = Put(traderAgent, a, Add(traderAgent[a], paid))
           /\ DOMAIN global' = GlobalFields
           /\ global'.totalTraderAgents = global.totalTraderAgents
           /\ global'.totalActiveTraderAgents = global.totalActiveTraderAgents
<1>. DEFINE new == Add(participant[k], paid)  agent == Add(traderAgent[a], paid)
<1>1. /\ traderAgent' = [traderAgent EXCEPT ![a] = agent]
      /\ participant' = [participant EXCEPT ![k] = new]
      /\ global' = Add(global, paid)
      /\ daily' = Put(daily, <<a, Day(now)>>, Add(LoadOr(daily, <<a, Day(now)>>, NewDay), paid))
  BY DEF handlePayoutRedemption
<1>2. a \in DOMAIN traderAgent
  BY DEF LedgerRows, LedgerShape
<1>3. DOMAIN paid \subseteq Activity /\ \A x \in DOMAIN paid : paid[x] \in Int
  BY DEF Activity
<1>4. participant[k] = LoadOr(participant, k, NewParticipant)
  BY DEF LoadOr
<1>5. DOMAIN participant[k] = ParticipantFields /\ DOMAIN traderAgent[a] = AgentFields
      /\ DOMAIN global = GlobalFields
  BY <1>2 DEF LedgerRows, LedgerShape
<1>6. DOMAIN new = ParticipantFields /\ DOMAIN agent = AgentFields /\ DOMAIN global' = GlobalFields
  BY <1>1, <1>5, AddValues
<1>7. /\ global'.totalTraderAgents = global.totalTraderAgents
      /\ global'.totalActiveTraderAgents = global.totalActiveTraderAgents
  BY <1>1, <1>5 DEF Add, GlobalFields
<1>. HIDE DEF new, agent
<1>8. participant' = Put(participant, k, new) /\ traderAgent' = Put(traderAgent, a, agent)
  BY <1>1, <1>2, PutThere
<1>9. ActivityStep(a, f, paid, new, agent)
  BY <1>1, <1>2, <1>3, <1>4, <1>6, <1>8 DEF ActivityStep, new, agent
<1>. QED  BY <1>6, <1>7, <1>8, <1>9 DEF new, agent

\* The tables keep their shape.
LEMMA ActivityKeepsShape ==
    ASSUME LedgerRows, NEW a, NEW c \in DOMAIN fpmm, NEW delta, NEW new, NEW agent,
           ActivityStep(a, c, delta, new, agent), UNCHANGED fpmm, now \in Times,
           DOMAIN global' = GlobalFields, new.balance \in [Outcomes -> Int],
           agent.active \in BOOLEAN
    PROVE  LedgerShape'
<1>. DEFINE k == <<a, c>>  day == <<a, Day(now)>>  old == LoadOr(participant, k, NewParticipant)
            oldDay == LoadOr(daily, day, NewDay)
<1>1. /\ a \in DOMAIN traderAgent /\ DOMAIN delta \subseteq Activity
      /\ DOMAIN new = ParticipantFields /\ DOMAIN agent = AgentFields
      /\ \A x \in AgentFields \ {"active"} : agent[x] = Add(traderAgent[a], delta)[x]
      /\ traderAgent' = Put(traderAgent, a, agent) /\ participant' = Put(participant, k, new)
      /\ daily' = Put(daily, day, Add(oldDay, delta))
  BY DEF ActivityStep
<1>2. Day(now) \in DaysRun
  BY DayInRun
<1>3. DOMAIN oldDay = DayFields
  BY LoadedDay
<1>4. new.settled \in BOOLEAN
  <2>1. new.settled = old.settled
    BY ActivityFace
  <2>2. old.settled \in BOOLEAN
    BY LoadedFace
  <2>. QED  BY <2>1, <2>2
<1>5. agent.serviceId = traderAgent[a].serviceId
  BY <1>1, AddValues DEF AgentFields, Activity, LedgerRows, LedgerShape
<1>6. DOMAIN Add(oldDay, delta) = DayFields
  BY <1>3, AddValues
<1>. HIDE DEF k, day, oldDay
<1>7. /\ DOMAIN traderAgent' = DOMAIN traderAgent /\ traderAgent'[a] = agent
      /\ \A i \in DOMAIN traderAgent \ {a} : traderAgent'[i] = traderAgent[i]
      /\ DOMAIN participant' = DOMAIN participant \cup {k} /\ participant'[k] = new
      /\ \A j \in DOMAIN participant \ {k} : participant'[j] = participant[j]
      /\ DOMAIN daily' = DOMAIN daily \cup {day} /\ daily'[day] = Add(oldDay, delta)
      /\ \A j \in DOMAIN daily \ {day} : daily'[j] = daily[j]
  BY <1>1 DEF Put
<1>8. /\ IsFiniteSet(DOMAIN traderAgent') /\ IsFiniteSet(DOMAIN participant')
      /\ IsFiniteSet(DOMAIN daily')
  BY <1>7, FS_AddElement DEF LedgerRows, LedgerShape
<1>9. ASSUME NEW i \in DOMAIN traderAgent'
      PROVE  /\ DOMAIN traderAgent'[i] = AgentFields /\ traderAgent'[i].serviceId \in Services
             /\ traderAgent'[i].active \in BOOLEAN
  BY <1>1, <1>5, <1>7 DEF LedgerRows, LedgerShape
<1>10. /\ DOMAIN participant' \subseteq (DOMAIN traderAgent') \X (DOMAIN fpmm')
       /\ DOMAIN daily' \subseteq (DOMAIN traderAgent') \X DaysRun
  BY <1>1, <1>2, <1>7 DEF k, day, LedgerRows, LedgerShape
<1>11. ASSUME NEW j \in DOMAIN participant'
       PROVE  /\ DOMAIN participant'[j] = ParticipantFields
              /\ participant'[j].balance \in [Outcomes -> Int]
              /\ participant'[j].settled \in BOOLEAN
  BY <1>1, <1>4, <1>7 DEF LedgerRows, LedgerShape
<1>12. \A d \in DOMAIN daily' : DOMAIN daily'[d] = DayFields
  BY <1>6, <1>7 DEF LedgerRows, LedgerShape
<1>. QED  BY <1>8, <1>9, <1>10, <1>11, <1>12 DEF LedgerShape, DaysRun, Day

\* And the numbers, the sums and the totals.
LEMMA ActivityKeepsSums ==
    ASSUME LedgerRows, GlobalSums, \A i \in DOMAIN traderAgent : AgentSums(i),
           NEW a, NEW c, NEW delta, NEW new, NEW agent,
           ActivityStep(a, c, delta, new, agent), LedgerShape'
    PROVE  /\ LedgerRows' /\ GlobalSums' /\ DOMAIN traderAgent' = DOMAIN traderAgent
           /\ \A i \in DOMAIN traderAgent' : AgentSums(i)'
<1>1. Movement({a}, c, Day(now), [j \in {a} |-> Day(now)], [j \in {a} |-> Amounts(delta)],
               [j \in {a} |-> Amounts(delta)], [j \in {a} |-> Nothing])
  BY ActivityMoves
<1>2. LedgerRows'
  BY <1>1, MovementKeepsNumbers DEF LedgerRows
<1>3. GlobalSums'
  BY <1>1, MovementKeepsTotals
<1>4. \A i \in DOMAIN traderAgent' : AgentSums(i)'
  BY <1>1, MovementKeepsSums
<1>. QED  BY <1>1, <1>2, <1>3, <1>4 DEF Movement

-----------------------------------------------------------------------------
(* Bets. *)

\* Tables that agree about the bets of a set.
SameBets(table, other, S) == \A b \in S : other[b] = table[b]

\* Tables in which those bets are the same, counted or not.
SameAmounts(table, other, S) ==
    \A b \in S : /\ other[b].amount = table[b].amount /\ other[b].fee = table[b].fee
                 /\ other[b].tokens = table[b].tokens /\ other[b].outcome = table[b].outcome
                 /\ other[b].impliedProbability = table[b].impliedProbability

\* A column that is the same has the same sum.
LEMMA FieldSumSame ==
    ASSUME NEW table, NEW other, NEW S, NEW y, IsFiniteSet(S), \A b \in S : other[b][y] = table[b][y]
    PROVE  FieldSum(other, S, y) = FieldSum(table, S, y)
<1>. DEFINE f == [b \in S |-> table[b][y]]  g == [b \in S |-> other[b][y]]
<1>1. DOMAIN f = S /\ DOMAIN g = S /\ \A b \in S : g[b] = f[b]
  OBVIOUS
<1>. HIDE DEF f, g
<1>2. SumFunction(g) = SumFunction(f)
  BY <1>1, SumsAgree
<1>. QED  BY <1>2 DEF f, g, FieldSum

\* They have the same sums and the same scores.
LEMMA SumsOfSameAmounts ==
    ASSUME NEW table, NEW other, NEW S, IsFiniteSet(S), SameAmounts(table, other, S)
    PROVE  /\ FieldSum(other, S, "amount") = FieldSum(table, S, "amount")
           /\ FieldSum(other, S, "fee") = FieldSum(table, S, "fee")
           /\ \A o : TokenSum(other, S, o) = TokenSum(table, S, o)
           /\ ForecastsIn(other, S) = ForecastsIn(table, S)
           /\ \A answer : ScoreIn(other, S, answer) = ScoreIn(table, S, answer)
<1>1. /\ FieldSum(other, S, "amount") = FieldSum(table, S, "amount")
      /\ FieldSum(other, S, "fee") = FieldSum(table, S, "fee")
  BY FieldSumSame DEF SameAmounts
<1>2. ASSUME NEW o PROVE TokenSum(other, S, o) = TokenSum(table, S, o)
  <2>. DEFINE T == {b \in S : table[b].outcome = o}
  <2>1. T = {b \in S : other[b].outcome = o}
    BY DEF SameAmounts
  <2>2. IsFiniteSet(T) /\ \A b \in T : other[b].tokens = table[b].tokens
    BY FS_Subset DEF SameAmounts
  <2>. HIDE DEF T
  <2>3. FieldSum(other, T, "tokens") = FieldSum(table, T, "tokens")
    BY <2>2, FieldSumSame
  <2>. QED  BY <2>1, <2>3 DEF T, TokenSum
<1>3. ForecastsIn(other, S) = ForecastsIn(table, S)
  BY DEF ForecastsIn, SameAmounts
<1>4. ASSUME NEW answer PROVE ScoreIn(other, S, answer) = ScoreIn(table, S, answer)
  <2>. DEFINE T == ForecastsIn(table, S)
              f == [b \in T |-> brierContribution(table[b].impliedProbability,
                                                  actualForOutcome(table[b].outcome, answer))]
              g == [b \in ForecastsIn(other, S) |->
                      brierContribution(other[b].impliedProbability,
                                        actualForOutcome(other[b].outcome, answer))]
  <2>1. T \subseteq S /\ IsFiniteSet(T)
    BY FS_Subset DEF ForecastsIn
  <2>2. DOMAIN f = T /\ DOMAIN g = T /\ \A b \in T : g[b] = f[b]
    <3>1. \A b \in T : /\ other[b].impliedProbability = table[b].impliedProbability
                       /\ other[b].outcome = table[b].outcome
      BY <2>1 DEF SameAmounts
    <3>. HIDE DEF T
    <3>. QED  BY <1>3, <3>1 DEF T
  <2>. HIDE DEF f, g, T
  <2>3. SumFunction(g) = SumFunction(f)
    BY <2>1, <2>2, SumsAgree
  <2>. QED  BY <2>3 DEF f, g, T, ScoreIn
<1>. QED  BY <1>1, <1>2, <1>3, <1>4

\* Tables that agree say the same of a participant.
LEMMA SameBetsAddUp ==
    ASSUME NEW p, NEW w, NEW table, NEW other, NEW S, IsFiniteSet(S), SameBets(table, other, S)
    PROVE  /\ HeldExactly(p, table, S) => HeldExactly(p, other, S)
           /\ SettledExactly(p, w, table, S) => SettledExactly(p, w, other, S)
<1>. DEFINE T == CountedIn(table, S)
<1>1. SameAmounts(table, other, S)
  BY DEF SameAmounts, SameBets
<1>2. /\ FieldSum(other, S, "amount") = FieldSum(table, S, "amount")
      /\ FieldSum(other, S, "fee") = FieldSum(table, S, "fee")
      /\ \A o : TokenSum(other, S, o) = TokenSum(table, S, o)
  BY <1>1, SumsOfSameAmounts
<1>3. HeldExactly(p, table, S) => HeldExactly(p, other, S)
  BY <1>2 DEF HeldExactly
<1>4. CountedIn(other, S) = T
  BY DEF CountedIn, SameBets
<1>5. IsFiniteSet(T) /\ SameAmounts(table, other, T)
  <2>1. T \subseteq S
    BY DEF CountedIn
  <2>. HIDE DEF T
  <2>. QED  BY <1>1, <2>1, FS_Subset DEF SameAmounts
<1>. HIDE DEF T
<1>6. /\ FieldSum(other, T, "amount") = FieldSum(table, T, "amount")
      /\ FieldSum(other, T, "fee") = FieldSum(table, T, "fee")
      /\ \A o : TokenSum(other, T, o) = TokenSum(table, T, o)
      /\ ForecastsIn(other, T) = ForecastsIn(table, T)
      /\ ScoreIn(other, T, w) = ScoreIn(table, T, w)
  BY <1>5, SumsOfSameAmounts
<1>7. [o \in Outcomes |-> TokenSum(other, T, o)] = [o \in Outcomes |-> TokenSum(table, T, o)]
  BY <1>6
<1>8. SettledExactly(p, w, table, S) => SettledExactly(p, w, other, S)
  BY <1>4, <1>6, <1>7 DEF SettledExactly, T
<1>. QED  BY <1>3, <1>8

\* A column with one bet more.
LEMMA FieldSumMore ==
    ASSUME NEW table, NEW S, NEW y, IsFiniteSet(S), NEW b, b \notin S,
           \A i \in S \cup {b} : table[i][y] \in Int
    PROVE  FieldSum(table, S \cup {b}, y) = FieldSum(table, S, y) + table[b][y]
<1>. DEFINE f == [i \in S |-> table[i][y]]  g == [i \in S \cup {b} |-> table[i][y]]
<1>1. /\ DOMAIN f = S /\ DOMAIN g = DOMAIN f \cup {b} /\ b \notin DOMAIN f
      /\ \A i \in DOMAIN f : f[i] \in Int
      /\ g[b] = table[b][y] /\ g[b] \in Int
      /\ \A i \in DOMAIN f \ {b} : g[i] = f[i]
  OBVIOUS
<1>. HIDE DEF f, g
<1>2. /\ SumFunction(g) = SumFunction(f) + g[b] - (IF b \in DOMAIN f THEN f[b] ELSE 0)
      /\ SumFunction(f) \in Int
  BY <1>1, SumPut
<1>3. SumFunction(g) = SumFunction(f) + g[b]
  BY <1>1, <1>2
<1>. QED  BY <1>1, <1>3 DEF f, g, FieldSum

\* Columns of integers add up to integers.
LEMMA FieldSumInt ==
    ASSUME NEW table, NEW S, NEW y, IsFiniteSet(S), \A i \in S : table[i][y] \in Int
    PROVE  FieldSum(table, S, y) \in Int
<1>. DEFINE f == [i \in S |-> table[i][y]]
<1>1. DOMAIN f = S /\ \A i \in DOMAIN f : f[i] \in Int
  OBVIOUS
<1>. HIDE DEF f
<1>2. SumFunction(f) \in Int
  BY <1>1, SumFunctionType
<1>. QED  BY <1>2 DEF f, FieldSum

\* One bet more, not counted.
NewBet(table, S, b) ==
    /\ IsFiniteSet(S) /\ b \notin S /\ ~table[b].countedInProfit
    /\ \A i \in S \cup {b} : /\ table[i].amount \in Int /\ table[i].fee \in Int
                             /\ table[i].tokens \in Int
AddsBet(table, S, b) ==
    /\ FieldSum(table, S \cup {b}, "amount") = FieldSum(table, S, "amount") + table[b].amount
    /\ FieldSum(table, S \cup {b}, "fee") = FieldSum(table, S, "fee") + table[b].fee
    /\ \A o : TokenSum(table, S \cup {b}, o) =
                 TokenSum(table, S, o) + IF table[b].outcome = o THEN table[b].tokens ELSE 0
    /\ CountedIn(table, S \cup {b}) = CountedIn(table, S)

\* They are larger by the amounts of the bet.
LEMMA OneBetMore ==
    ASSUME NEW table, NEW S, NEW b, NewBet(table, S, b)
    PROVE  AddsBet(table, S, b)
<1>0. /\ IsFiniteSet(S) /\ b \notin S /\ ~table[b].countedInProfit
      /\ \A i \in S \cup {b} : /\ table[i].amount \in Int /\ table[i].fee \in Int
                               /\ table[i].tokens \in Int
  BY DEF NewBet
<1>1. /\ FieldSum(table, S \cup {b}, "amount") = FieldSum(table, S, "amount") + table[b].amount
      /\ FieldSum(table, S \cup {b}, "fee") = FieldSum(table, S, "fee") + table[b].fee
  BY <1>0, FieldSumMore
<1>2. ASSUME NEW o
      PROVE  TokenSum(table, S \cup {b}, o) =
                 TokenSum(table, S, o) + IF table[b].outcome = o THEN table[b].tokens ELSE 0
  <2>. DEFINE T == {i \in S : table[i].outcome = o}
              U == {i \in S \cup {b} : table[i].outcome = o}
  <2>1. /\ IsFiniteSet(T) /\ b \notin T /\ \A i \in T : table[i].tokens \in Int
        /\ table[b].tokens \in Int
        /\ table[b].outcome = o => U = T \cup {b}
        /\ table[b].outcome # o => U = T
    BY <1>0, FS_Subset
  <2>. HIDE DEF T, U
  <2>2. FieldSum(table, T, "tokens") \in Int
    BY <2>1, FieldSumInt
  <2>3. CASE table[b].outcome = o BY <2>1, FieldSumMore, <2>3 DEF T, U, TokenSum
  <2>4. CASE table[b].outcome # o
    <3>1. FieldSum(table, U, "tokens") = FieldSum(table, T, "tokens") + 0
      BY <2>1, <2>2, <2>4
    <3>. QED  BY <2>4, <3>1 DEF T, U, TokenSum
  <2>. QED  BY <2>3, <2>4
<1>3. CountedIn(table, S \cup {b}) = CountedIn(table, S)
  BY <1>0 DEF CountedIn
<1>. QED  BY <1>1, <1>2, <1>3 DEF AddsBet

\* No bets add up to nothing.
LEMMA NoBets ==
    ASSUME NEW table
    PROVE  /\ \A y : FieldSum(table, {}, y) = 0
           /\ CountedIn(table, {}) = {} /\ \A o : TokenSum(table, {}, o) = 0
<1>1. ASSUME NEW y PROVE FieldSum(table, {}, y) = 0
  <2>. DEFINE f == [b \in {} |-> table[b][y]]
  <2>1. DOMAIN f = {}
    OBVIOUS
  <2>. HIDE DEF f
  <2>2. SumFunction(f) = 0
    BY <2>1, SumOfNone
  <2>. QED  BY <2>2 DEF f, FieldSum
<1>2. ASSUME NEW o PROVE TokenSum(table, {}, o) = 0 BY <1>1 DEF TokenSum
<1>. QED  BY <1>1, <1>2 DEF CountedIn

\* What a participant's row, or the new one, says of its bets.
RowOfBets(k, row) ==
    /\ row.bets = BetsOf(k, bet)
    /\ row.totalTraded = FieldSum(bet, row.bets, "amount")
    /\ row.totalFees = FieldSum(bet, row.bets, "fee")
    /\ \A o \in Outcomes : row.balance[o] = TokenSum(bet, row.bets, o)
    /\ SettledExactly(row, fpmm[k[2]].currentAnswer, bet, row.bets)

\* A loaded row says it of its bets, a new one of none.
LEMMA LoadedBets ==
    ASSUME Bets, NEW k, NEW a, NEW f, k = <<a, f>>, NEW old, old = LoadOr(participant, k, NewParticipant)
    PROVE  RowOfBets(k, old)
<1>1. CASE k \in DOMAIN participant
  BY <1>1 DEF LoadOr, Bets, HeldExactly, RowOfBets
<1>2. CASE k \notin DOMAIN participant
  <2>1. /\ old.balance = [o \in Outcomes |-> 0] /\ old.settled = FALSE /\ old.bets = {}
        /\ old.totalTradedSettled = 0 /\ old.totalFeesSettled = 0
        /\ old.totalTraded = 0 /\ old.totalFees = 0
    BY <1>2 DEF LoadOr, NewParticipant
  <2>2. BetsOf(k, bet) = {}
    <3>. SUFFICES ASSUME NEW b \in DOMAIN bet, bet[b].bettor = k[1], bet[b].market = k[2]
                  PROVE  FALSE
      BY DEF BetsOf
    <3>1. <<bet[b].bettor, bet[b].market>> \in DOMAIN participant
      BY DEF Bets, BetRows
    <3>2. <<bet[b].bettor, bet[b].market>> = k
      OBVIOUS
    <3>. QED  BY <1>2, <3>1, <3>2
  <2>3. /\ \A y : FieldSum(bet, {}, y) = 0
        /\ CountedIn(bet, {}) = {} /\ \A o : TokenSum(bet, {}, o) = 0
    BY NoBets
  <2>4. SettledExactly(old, fpmm[k[2]].currentAnswer, bet, {})
    BY <2>1, <2>3 DEF SettledExactly
  <2>. QED  BY <2>1, <2>2, <2>3, <2>4 DEF RowOfBets
<1>. QED  BY <1>1, <1>2

\* A participant that a step does not touch, nor its bets, keeps what is said of them.
LEMMA ParticipantKept ==
    ASSUME Bets, NEW k \in DOMAIN participant, participant'[k] = participant[k],
           BetsOf(k, bet') = BetsOf(k, bet), SameBets(bet, bet', participant[k].bets),
           NEW w, participant[k].settled => w = fpmm[k[2]].currentAnswer
    PROVE  LET p == participant'[k] IN
           /\ p.bets = BetsOf(k, bet') /\ HeldExactly(p, bet', p.bets)
           /\ SettledExactly(p, w, bet', p.bets)
<1>. DEFINE p == participant[k]  S == p.bets  v == fpmm[k[2]].currentAnswer
<1>1. /\ S = BetsOf(k, bet) /\ HeldExactly(p, bet, S) /\ SettledExactly(p, v, bet, S)
  BY DEF Bets
<1>2. IsFiniteSet(S) BY <1>1, FS_Subset DEF BetsOf, Bets, BetRows
<1>3. p.settled => w = v
  OBVIOUS
<1>. HIDE DEF p, S, v
<1>4. SameBets(bet, bet', S)
  BY DEF S, p
<1>5. HeldExactly(p, bet', S) /\ SettledExactly(p, v, bet', S)
  BY <1>1, <1>2, <1>4, SameBetsAddUp
<1>6. SettledExactly(p, w, bet', S)
  BY <1>3, <1>5 DEF SettledExactly
<1>. QED  BY <1>1, <1>5, <1>6 DEF p, S

\* A trade adds its bet to the trader's participant, and to nobody's settlement.
LEMMA TradeKeepsBets ==
    ASSUME LedgerRows, Bets, NEW a, NEW f, NEW amount \in Int, NEW fee \in Int,
           NEW outcome \in Outcomes, NEW tokens \in Int, NEW price \in Int,
           Trade(a, f, amount, fee, outcome, tokens, price)
    PROVE  Bets'
<1>. DEFINE k == <<a, f>>
            made == [bettor |-> a, market |-> f, outcome |-> outcome, amount |-> amount,
                     fee |-> fee, tokens |-> tokens, impliedProbability |-> price,
                     day |-> Day(now), countedInProfit |-> FALSE]
            w == fpmm[f].currentAnswer
<1>0. PICK b, old, new : /\ b = Cardinality(DOMAIN bet)
                         /\ old = LoadOr(participant, k, NewParticipant)
                         /\ new = TradedRow(old, amount, fee, b, outcome, tokens)
  OBVIOUS
<1>. DEFINE S == old.bets
<1>1. /\ bet' = Put(bet, b, made) /\ participant' = Put(participant, k, new)
      /\ UNCHANGED fpmm
  BY <1>0 DEF Trade, processTradeActivity, TradedRow, markets
<1>2. IsFiniteSet(DOMAIN bet) /\ b \in Nat /\ DOMAIN bet = 0 .. b - 1 /\ b \notin DOMAIN bet
  BY <1>0, FS_CardinalityType DEF Bets, BetRows
<1>3. /\ DOMAIN bet' = DOMAIN bet \cup {b} /\ bet'[b] = made
      /\ \A i \in DOMAIN bet : bet'[i] = bet[i]
  <2>. HIDE DEF made
  <2>. QED  BY <1>1, <1>2 DEF Put
<1>4. /\ DOMAIN participant' = DOMAIN participant \cup {k} /\ participant'[k] = new
      /\ \A j \in DOMAIN participant \ {k} : participant'[j] = participant[j]
  <2>. HIDE DEF k
  <2>. QED  BY <1>1 DEF Put
<1>5. BetRows'
  <2>1. IsFiniteSet(DOMAIN bet') /\ Cardinality(DOMAIN bet') = b + 1
    <3>1. /\ IsFiniteSet(DOMAIN bet \cup {b})
          /\ Cardinality(DOMAIN bet \cup {b}) = Cardinality(DOMAIN bet) + 1
      BY ONLY <1>2, FS_AddElement
    <3>. HIDE DEF made
    <3>. QED  BY <1>0, <1>3, <3>1
  <2>2. DOMAIN bet' = 0 .. (b + 1) - 1
    BY <1>2, <1>3
  <2>3. /\ DOMAIN made = BetFields /\ made.outcome \in Outcomes /\ made.amount \in Int
        /\ made.fee \in Int /\ made.tokens \in Int /\ made.impliedProbability \in Int
        /\ made.countedInProfit \in BOOLEAN /\ <<made.bettor, made.market>> = k
    BY DEF BetFields
  <2>. HIDE DEF made, k
  <2>4. ASSUME NEW i \in DOMAIN bet'
        PROVE  /\ DOMAIN bet'[i] = BetFields /\ bet'[i].outcome \in Outcomes
               /\ bet'[i].amount \in Int /\ bet'[i].fee \in Int /\ bet'[i].tokens \in Int
               /\ bet'[i].impliedProbability \in Int /\ bet'[i].countedInProfit \in BOOLEAN
               /\ <<bet'[i].bettor, bet'[i].market>> \in DOMAIN participant'
    BY <1>3, <1>4, <2>3 DEF Bets, BetRows
  <2>. QED  BY <2>1, <2>2, <2>4 DEF BetRows
<1>6. RowOfBets(k, old)
  BY <1>0, LoadedBets
<1>7. DOMAIN old = ParticipantFields /\ old.balance \in [Outcomes -> Int]
  BY <1>0, LoadedFace
<1>8. /\ new.bets = S \cup {b}
      /\ \A i \in Outcomes : new.balance[i] = IF i = outcome THEN old.balance[i] + tokens
                                              ELSE old.balance[i]
      /\ \A x \in ParticipantFields \ {"bets", "balance"} : new[x] = Add(old, Traded(amount, fee))[x]
  BY <1>7, TradedValues, <1>0 DEF TradedSays
<1>9. /\ new.settled = old.settled /\ new.expectedPayout = old.expectedPayout
      /\ new.totalTradedSettled = old.totalTradedSettled
      /\ new.totalFeesSettled = old.totalFeesSettled
      /\ new.brierSum = old.brierSum /\ new.brierCount = old.brierCount
      /\ new.totalTraded = old.totalTraded + amount /\ new.totalFees = old.totalFees + fee
  <2>. DEFINE sum == Add(old, Traded(amount, fee))
  <2>1. /\ sum.settled = old.settled /\ sum.expectedPayout = old.expectedPayout
        /\ sum.totalTradedSettled = old.totalTradedSettled
        /\ sum.totalFeesSettled = old.totalFeesSettled
        /\ sum.brierSum = old.brierSum /\ sum.brierCount = old.brierCount
        /\ sum.totalTraded = old.totalTraded + amount /\ sum.totalFees = old.totalFees + fee
    BY <1>7 DEF Add, Traded, ParticipantFields
  <2>2. {"settled", "expectedPayout", "totalTradedSettled", "totalFeesSettled", "brierSum",
         "brierCount", "totalTraded", "totalFees"} \subseteq ParticipantFields \ {"bets", "balance"}
    BY DEF ParticipantFields
  <2>. HIDE DEF sum
  <2>3. /\ new["settled"] = sum["settled"] /\ new["expectedPayout"] = sum["expectedPayout"]
        /\ new["totalTradedSettled"] = sum["totalTradedSettled"]
        /\ new["totalFeesSettled"] = sum["totalFeesSettled"]
        /\ new["brierSum"] = sum["brierSum"] /\ new["brierCount"] = sum["brierCount"]
        /\ new["totalTraded"] = sum["totalTraded"] /\ new["totalFees"] = sum["totalFees"]
    BY <1>8, <2>2 DEF sum
  <2>. QED  BY <2>1, <2>3
<1>10. S = BetsOf(k, bet) /\ S \subseteq DOMAIN bet /\ IsFiniteSet(S) /\ b \notin S
       /\ SameBets(bet, bet', S)
  <2>1. S = BetsOf(k, bet) /\ S \subseteq DOMAIN bet
    BY <1>6 DEF RowOfBets, BetsOf
  <2>. HIDE DEF S
  <2>. QED  BY <1>2, <1>3, <2>1, FS_Subset DEF SameBets
<1>11. BetsOf(k, bet') = S \cup {b}
  <2>1. bet'[b].bettor = k[1] /\ bet'[b].market = k[2]
    BY <1>3
  <2>. HIDE DEF S, made, k
  <2>. QED  BY <1>3, <1>10, <2>1 DEF BetsOf
<1>12. /\ FieldSum(bet', S \cup {b}, "amount") = FieldSum(bet, S, "amount") + amount
       /\ FieldSum(bet', S \cup {b}, "fee") = FieldSum(bet, S, "fee") + fee
       /\ \A i \in Outcomes : TokenSum(bet', S \cup {b}, i) =
                               TokenSum(bet, S, i) + IF outcome = i THEN tokens ELSE 0
       /\ CountedIn(bet', S \cup {b}) = CountedIn(bet', S)
  <2>1. /\ bet'[b].amount = amount /\ bet'[b].fee = fee /\ bet'[b].tokens = tokens
        /\ bet'[b].outcome = outcome /\ bet'[b].countedInProfit = FALSE
    BY <1>3
  <2>. HIDE DEF S
  <2>2. \A i \in S \cup {b} : /\ bet'[i].amount \in Int /\ bet'[i].fee \in Int
                              /\ bet'[i].tokens \in Int
    BY <1>3, <1>5, <1>10 DEF BetRows
  <2>3. /\ FieldSum(bet', S, "amount") = FieldSum(bet, S, "amount")
        /\ FieldSum(bet', S, "fee") = FieldSum(bet, S, "fee")
        /\ \A i : TokenSum(bet', S, i) = TokenSum(bet, S, i)
    BY <1>10, SumsOfSameAmounts DEF SameBets, SameAmounts
  <2>4. ~bet'[b].countedInProfit
    BY <2>1
  <2>5. /\ FieldSum(bet', S \cup {b}, "amount") = FieldSum(bet', S, "amount") + bet'[b].amount
        /\ FieldSum(bet', S \cup {b}, "fee") = FieldSum(bet', S, "fee") + bet'[b].fee
        /\ \A i : TokenSum(bet', S \cup {b}, i) =
                     TokenSum(bet', S, i) + IF bet'[b].outcome = i THEN bet'[b].tokens ELSE 0
        /\ CountedIn(bet', S \cup {b}) = CountedIn(bet', S)
    <3>1. NewBet(bet', S, b)
      BY <1>10, <2>2, <2>4 DEF NewBet
    <3>. QED  BY <3>1, OneBetMore DEF AddsBet
  <2>. QED  BY <2>1, <2>3, <2>5
<1>13. SettledExactly(new, w, bet', S \cup {b})
  <2>1. SettledExactly(old, w, bet, S)
    BY <1>6 DEF RowOfBets
  <2>. HIDE DEF S, w
  <2>2. SettledExactly(old, w, bet', S)
    BY <1>10, <2>1, SameBetsAddUp
  <2>. QED  BY <1>9, <1>12, <2>2 DEF SettledExactly
<1>14. HeldExactly(new, bet', S \cup {b})
  <2>1. /\ old.totalTraded = FieldSum(bet, S, "amount") /\ old.totalFees = FieldSum(bet, S, "fee")
        /\ \A i \in Outcomes : old.balance[i] = TokenSum(bet, S, i) /\ old.balance[i] \in Int
    BY <1>6, <1>7 DEF RowOfBets
  <2>. HIDE DEF S
  <2>2. ASSUME NEW i \in Outcomes PROVE new.balance[i] = TokenSum(bet', S \cup {b}, i)
    <3>1. old.balance[i] \in Int /\ old.balance[i] = TokenSum(bet, S, i)
      BY <2>1
    <3>2. CASE i = outcome
      BY <1>8, <1>12, <3>1, <3>2
    <3>3. CASE i # outcome
      <4>1. TokenSum(bet', S \cup {b}, i) = TokenSum(bet, S, i) + 0
        BY <1>12, <3>3
      <4>. QED  BY <1>8, <3>1, <3>3, <4>1
    <3>. QED  BY <3>2, <3>3
  <2>. QED  BY <1>9, <1>12, <2>1, <2>2 DEF HeldExactly
<1>15. ASSUME NEW j \in DOMAIN participant', NEW p, p = participant'[j]
       PROVE  /\ p.bets = BetsOf(j, bet') /\ HeldExactly(p, bet', p.bets)
              /\ SettledExactly(p, fpmm'[j[2]].currentAnswer, bet', p.bets)
  <2>1. CASE j = k
    <3>1. p = new /\ fpmm'[j[2]].currentAnswer = w /\ p.bets = S \cup {b}
      BY <1>1, <1>4, <1>8, <1>15, <2>1
    <3>. HIDE DEF S, k, w
    <3>. QED  BY <1>11, <1>13, <1>14, <2>1, <3>1
  <2>2. CASE j # k
    <3>1. j \in DOMAIN participant /\ participant'[j] = participant[j]
      BY <1>4, <2>2
    <3>2. SameBets(bet, bet', participant[j].bets)
      BY <1>3, <3>1 DEF SameBets, Bets, BetsOf
    <3>3. BetsOf(j, bet') = BetsOf(j, bet)
      <4>1. j = <<j[1], j[2]>>
        BY <3>1 DEF LedgerRows, LedgerShape
      <4>2. bet'[b].bettor = a /\ bet'[b].market = f
        BY <1>3
      <4>3. ~(bet'[b].bettor = j[1] /\ bet'[b].market = j[2])
        BY <2>2, <4>1, <4>2
      <4>. HIDE DEF made
      <4>. QED  BY <1>3, <4>3 DEF BetsOf
    <3>. DEFINE v == fpmm'[j[2]].currentAnswer
    <3>4. v = fpmm[j[2]].currentAnswer
      BY <1>1
    <3>. HIDE DEF v
    <3>5. LET q == participant'[j] IN
           /\ q.bets = BetsOf(j, bet') /\ HeldExactly(q, bet', q.bets)
           /\ SettledExactly(q, v, bet', q.bets)
      BY <3>1, <3>2, <3>3, <3>4, ParticipantKept
    <3>. QED  BY <1>15, <3>5 DEF v
  <2>. QED  BY <2>1, <2>2
<1>. QED  BY <1>5, <1>15 DEF Bets

BetsFields == {"balance", "bets", "settled", "expectedPayout", "brierSum", "brierCount",
               "totalTraded", "totalFees", "totalTradedSettled", "totalFeesSettled"}

\* Steps that change no bet, and nothing of what bets say.
LEMMA UntouchedBets ==
    ASSUME LedgerRows, Bets, bet' = bet,
           \A g \in DOMAIN fpmm : fpmm'[g].currentAnswer = fpmm[g].currentAnswer,
           DOMAIN participant' = DOMAIN participant,
           \A k \in DOMAIN participant, x \in BetsFields : participant'[k][x] = participant[k][x]
    PROVE  Bets'
<1>1. ASSUME NEW k \in DOMAIN participant, NEW p, p = participant'[k]
      PROVE  /\ p.bets = BetsOf(k, bet) /\ HeldExactly(p, bet, p.bets)
             /\ SettledExactly(p, fpmm'[k[2]].currentAnswer, bet, p.bets)
  <2>1. PICK q : q = participant[k]
    OBVIOUS
  <2>2. /\ p.balance = q.balance /\ p.bets = q.bets /\ p.settled = q.settled
        /\ p.expectedPayout = q.expectedPayout /\ p.brierSum = q.brierSum
        /\ p.brierCount = q.brierCount /\ p.totalTraded = q.totalTraded
        /\ p.totalFees = q.totalFees /\ p.totalTradedSettled = q.totalTradedSettled
        /\ p.totalFeesSettled = q.totalFeesSettled
    BY <1>1, <2>1 DEF BetsFields
  <2>3. /\ q.bets = BetsOf(k, bet) /\ HeldExactly(q, bet, q.bets)
        /\ SettledExactly(q, fpmm[k[2]].currentAnswer, bet, q.bets)
    BY <2>1 DEF Bets
  <2>4. fpmm'[k[2]].currentAnswer = fpmm[k[2]].currentAnswer
    BY DEF LedgerRows, LedgerShape
  <2>. QED  BY <2>2, <2>3, <2>4 DEF HeldExactly, SettledExactly
<1>2. BetRows'
  BY DEF Bets, BetRows
<1>. QED  BY <1>1, <1>2 DEF Bets

-----------------------------------------------------------------------------
(* An answer settles a market. *)

\* The expected payout is an integer.
LEMMA PayoutIsInteger ==
    ASSUME NEW balance \in [Outcomes -> Int], NEW answer
    PROVE  ExpectedPayout(balance, answer) \in Int
BY DEF Positive, ExpectedPayout, IsInvalid, Outcomes

\* So is the score of a forecast.
LEMMA ContributionIsInteger ==
    ASSUME NEW price \in Int, NEW outcome, NEW answer
    PROVE  brierContribution(price, actualForOutcome(outcome, answer)) \in Int
<1>. DEFINE actual == actualForOutcome(outcome, answer)
<1>1. Scale \in Nat /\ Scale # 0
  BY OmenTrades
<1>2. actual \in Int BY <1>1 DEF actualForOutcome
<1>. HIDE DEF actual
<1>3. PICK n : n = (price - actual) * (price - actual)
  OBVIOUS
<1>4. n \in Int
  BY <1>2, <1>3
<1>5. n \div Scale \in Int
  BY ONLY <1>1, <1>4
<1>. QED  BY <1>3, <1>5 DEF brierContribution, actual

\* And the score of the bets of a participant.
LEMMA ScoreIsInteger ==
    ASSUME Bets, NEW S, S \subseteq DOMAIN bet, NEW answer
    PROVE  /\ ForecastsIn(bet, S) = Forecasts(S) /\ BrierSum(S, answer) = ScoreIn(bet, S, answer)
           /\ BrierSum(S, answer) \in Int /\ Cardinality(Forecasts(S)) \in Int
<1>1. ForecastsIn(bet, S) = Forecasts(S)
  BY DEF ForecastsIn, Forecasts
<1>2. BrierSum(S, answer) = ScoreIn(bet, S, answer)
  BY <1>1 DEF BrierSum, ScoreIn, SumOver
<1>3. Forecasts(S) \subseteq DOMAIN bet /\ IsFiniteSet(Forecasts(S))
  BY FS_Subset DEF Forecasts, Bets, BetRows
<1>4. Cardinality(Forecasts(S)) \in Int
  BY <1>3, FS_CardinalityType
<1>5. ScoreIn(bet, S, answer) \in Int
  <2>. DEFINE T == Forecasts(S)
              g == [b \in T |-> brierContribution(bet[b].impliedProbability,
                                                  actualForOutcome(bet[b].outcome, answer))]
  <2>1. ASSUME NEW b \in T PROVE g[b] \in Int BY <1>3, ContributionIsInteger DEF Bets, BetRows
  <2>2. DOMAIN g = T /\ IsFiniteSet(T)
    BY <1>3
  <2>3. ScoreIn(bet, S, answer) = SumFunction(g)
    BY <1>1 DEF ScoreIn
  <2>. HIDE DEF g, T
  <2>4. SumFunction(g) \in Int
    BY <2>1, <2>2, SumFunctionType
  <2>. QED  BY <2>3, <2>4
<1>. QED  BY <1>1, <1>2, <1>4, <1>5

\* The row a settlement writes.
SettlesAt(p, answer) ==
    LET s == Settled(p, answer) IN
    /\ DOMAIN s = ParticipantFields
    /\ s.expectedPayout = ExpectedPayout(p.balance, answer)
    /\ s.totalTradedSettled = p.totalTraded /\ s.totalFeesSettled = p.totalFees
    /\ s.brierSum = BrierSum(p.bets, answer)
    /\ s.brierCount = Cardinality(Forecasts(p.bets))
    /\ s.settled = TRUE /\ s.creditedOn = Day(now)
    /\ s.balance = p.balance /\ s.bets = p.bets
    /\ s.totalTraded = p.totalTraded /\ s.totalFees = p.totalFees
    /\ \A x \in Activity : s[x] = p[x]

\* It does.
LEMMA SettledValues ==
    ASSUME NEW p, NEW answer, DOMAIN p = ParticipantFields
    PROVE  SettlesAt(p, answer)
BY DEF Settled, ParticipantFields, Activity, SettlesAt

\* What it moves, what it takes back and what it credits.
SettledMove(p, answer) == [x \in FaceFields |-> Face(Settled(p, answer))[x] - Face(p)[x]]
SettledShare(p, answer) ==
    [x \in DayCounters |-> IF x \in ShareFields THEN DayShare(Settled(p, answer))[x] ELSE 0]
ReversedShare(p) == [x \in DayCounters |-> IF x \in ShareFields THEN DayShare(p)[x] ELSE 0]

\* They are integers, and match.
MovesAt(p, answer) ==
    LET m == SettledMove(p, answer) s == Settled(p, answer) IN
    /\ \A x \in FaceFields : /\ m[x] \in Int /\ Face(p)[x] \in Int /\ Face(s)[x] \in Int
                             /\ Face(s)[x] = Face(p)[x] + m[x]
    /\ \A x \in DayCounters : /\ SettledShare(p, answer)[x] \in Int
                              /\ ReversedShare(p)[x] \in Int
                              /\ m[x] = SettledShare(p, answer)[x] - ReversedShare(p)[x]
    /\ \A x \in Activity : m[x] = 0
    /\ \A x \in DOMAIN SettlementDelta(p, answer) : m[x] = SettlementDelta(p, answer)[x]

\* They are so for every participant of the ledger.
LEMMA SettledMoves ==
    ASSUME LedgerRows, Bets, NEW k \in DOMAIN participant, NEW answer,
           NEW p, p = participant[k]
    PROVE  MovesAt(p, answer)
<1>. DEFINE m == SettledMove(p, answer)  s == Settled(p, answer)
<1>1. /\ DOMAIN p = ParticipantFields /\ p.balance \in [Outcomes -> Int]
      /\ \A x \in FaceFields : Face(p)[x] \in Int
  BY DEF LedgerRows, LedgerShape, LedgerNumbers
<1>2. p.bets \subseteq DOMAIN bet
  BY DEF Bets, BetsOf
<1>3. /\ DOMAIN s = ParticipantFields
      /\ s.expectedPayout = ExpectedPayout(p.balance, answer)
      /\ s.totalTradedSettled = p.totalTraded /\ s.totalFeesSettled = p.totalFees
      /\ s.brierSum = BrierSum(p.bets, answer)
      /\ s.brierCount = Cardinality(Forecasts(p.bets))
      /\ \A x \in Activity : s[x] = p[x]
  <2>1. SettlesAt(p, answer)
    BY <1>1, SettledValues
  <2>. QED  BY <2>1 DEF SettlesAt
<1>. HIDE DEF s
<1>4. /\ s.expectedPayout \in Int /\ s.brierSum \in Int /\ s.brierCount \in Int
  BY <1>1, <1>2, <1>3, PayoutIsInteger, ScoreIsInteger
<1>5. \A x \in AgentCounters \ {"totalExpectedPayout"} : p[x] \in Int
  BY <1>1, Fields, FaceValues
<1>6. p.totalTraded \in Int /\ p.totalFees \in Int
  BY <1>5 DEF AgentCounters, Activity
<1>7. s.totalTradedSettled \in Int /\ s.totalFeesSettled \in Int
  BY <1>3, <1>6
<1>8. \A x \in ShareFields : DayShare(s)[x] \in Int
  BY <1>4, <1>7 DEF DayShare, ShareFields
<1>9. ASSUME NEW x \in FaceFields PROVE Face(s)[x] \in Int
  <2>1. CASE x \in ShareFields
    BY <1>8, <2>1, FaceValues
  <2>2. CASE x = "totalExpectedPayout"
    BY <1>4, <2>2, FaceValues
  <2>3. CASE x \in {"totalTradedSettled", "totalFeesSettled"}
    BY <2>3, FaceValues, <1>7 DEF AgentCounters
  <2>4. CASE x \in Activity BY <2>4, Fields, <1>3, <1>5, FaceValues
  <2>. QED  BY <2>1, <2>2, <2>3, <2>4 DEF FaceFields, AgentCounters
<1>10. ASSUME NEW x \in FaceFields
       PROVE  m[x] = Face(s)[x] - Face(p)[x] /\ m[x] \in Int /\ Face(s)[x] = Face(p)[x] + m[x]
  <2>1. m[x] = Face(s)[x] - Face(p)[x]
    BY DEF s, SettledMove
  <2>2. Face(s)[x] \in Int /\ Face(p)[x] \in Int
    BY <1>1, <1>9
  <2>. HIDE DEF m
  <2>. QED  BY <2>1, <2>2
<1>. HIDE DEF m
<1>11. ASSUME NEW x \in Activity PROVE m[x] = 0 BY Fields, FaceValues, <1>1, <1>3, <1>10
<1>12. ASSUME NEW x \in DayCounters
       PROVE  /\ SettledShare(p, answer)[x] \in Int /\ ReversedShare(p)[x] \in Int
              /\ m[x] = SettledShare(p, answer)[x] - ReversedShare(p)[x]
  <2>1. x \in FaceFields
    BY Fields
  <2>2. CASE x \in ShareFields
    BY <2>2, FaceValues, <1>1, <1>9, <1>10, <2>1 DEF SettledShare, ReversedShare, s
  <2>3. CASE x \notin ShareFields BY <2>3, <1>11 DEF SettledShare, ReversedShare, DayCounters
  <2>. QED  BY <2>2, <2>3
<1>13. ASSUME NEW x \in DOMAIN SettlementDelta(p, answer)
       PROVE  m[x] = SettlementDelta(p, answer)[x]
  <2>1. x \in {"totalTradedSettled", "totalFeesSettled", "totalExpectedPayout"} /\ x \in FaceFields
    BY DEF SettlementDelta, FaceFields, AgentCounters
  <2>2. m[x] = Face(s)[x] - Face(p)[x]
    BY <1>10, <2>1
  <2>3. CASE x = "totalExpectedPayout" BY <2>3, FaceValues, <1>3, <2>2 DEF SettlementDelta
  <2>4. CASE x = "totalTradedSettled"
    BY <2>4, FaceValues, <1>3, <2>2 DEF AgentCounters, SettlementDelta
  <2>5. CASE x = "totalFeesSettled"
    BY <2>5, FaceValues, <1>3, <2>2 DEF AgentCounters, SettlementDelta
  <2>. QED  BY <2>1, <2>3, <2>4, <2>5
<1>. QED  BY <1>1, <1>9, <1>10, <1>11, <1>12, <1>13 DEF m, s, MovesAt

\* A day's row after an answer.
DayAfter(d, f, answer) ==
    LET k == <<d[1], f>>
        old == LoadOr(daily, d, NewDay)
        reversed == IF k \in Redone(f, answer) /\ d[2] = DayReversed(f)
                    THEN Reversed(old, participant[k], f) ELSE old
    IN IF k \in Touched(f, answer) /\ d[2] = Day(now)
       THEN Credited(reversed, Settled(participant[k], answer), f) ELSE reversed

\* The amounts of a row of a day.
DayRow(row) == DOMAIN row = DayFields /\ \A x \in DayCounters : row[x] \in Int

\* What a reversal leaves of a day, and what a settlement makes of it.
ReversedDay(old, new, p, f) ==
    /\ DayRow(new) /\ new.profitParticipants = old.profitParticipants \ {f}
    /\ \A x \in DayCounters : new[x] = old[x] - ReversedShare(p)[x]
CreditedDay(old, new, p, answer, f) ==
    /\ DayRow(new) /\ new.profitParticipants = old.profitParticipants \cup {f}
    /\ \A x \in DayCounters : new[x] = old[x] + SettledShare(p, answer)[x]

\* The fields of a share, and of a share that is taken back.
LEMMA ShareDomain ==
    ASSUME NEW p
    PROVE  DOMAIN DayShare(p) = ShareFields /\ DOMAIN Negated(DayShare(p)) = ShareFields
           /\ \A x \in ShareFields : Negated(DayShare(p))[x] = -DayShare(p)[x]
BY DEF DayShare, ShareFields, Negated

\* The list of a day is none of its counters.
LEMMA DayFieldsApart ==
    /\ "profitParticipants" \in DayFields /\ "profitParticipants" \notin DayCounters
    /\ "profitParticipants" \notin ShareFields /\ DayCounters \subseteq DayFields
    /\ ShareFields \subseteq DayCounters
BY DEF DayFields, DayCounters, Activity, ShareFields

\* A reversal takes back the share.
LEMMA ReversedValues ==
    ASSUME NEW row, NEW p, NEW f, DayRow(row), \A x \in ShareFields : DayShare(p)[x] \in Int
    PROVE  ReversedDay(row, Reversed(row, p, f), p, f)
<1>. DEFINE delta == Negated(DayShare(p))  sum == Add(row, delta)  new == Reversed(row, p, f)
<1>1. DOMAIN delta = ShareFields /\ \A x \in ShareFields : delta[x] = -DayShare(p)[x]
  BY ShareDomain
<1>2. new = [sum EXCEPT !.profitParticipants = @ \ {f}]
  BY DEF Reversed
<1>3. DOMAIN row = DayFields /\ \A x \in DayCounters : row[x] \in Int
  BY DEF DayRow
<1>. HIDE DEF delta
<1>4. /\ DOMAIN sum = DayFields /\ sum["profitParticipants"] = row["profitParticipants"]
      /\ \A x \in DayCounters : x \in ShareFields => sum[x] = row[x] + delta[x]
      /\ \A x \in DayCounters : x \notin ShareFields => sum[x] = row[x]
  BY <1>1, <1>3, AddValues, DayFieldsApart
<1>. HIDE DEF sum, new
<1>5. /\ DOMAIN new = DayFields /\ new.profitParticipants = row.profitParticipants \ {f}
      /\ \A x \in DayCounters : new[x] = sum[x]
  BY <1>2, <1>4, DayFieldsApart
<1>6. ASSUME NEW x \in DayCounters PROVE new[x] = row[x] - ReversedShare(p)[x] /\ new[x] \in Int
  <2>1. CASE x \in ShareFields BY <2>1, <1>1, <1>4, <1>5, <1>3 DEF ReversedShare
  <2>2. CASE x \notin ShareFields BY <2>2, <1>3, <1>4, <1>5 DEF ReversedShare
  <2>. QED  BY <2>1, <2>2
<1>. QED  BY <1>5, <1>6 DEF ReversedDay, DayRow, new

\* A settlement adds the share.
LEMMA CreditedValues ==
    ASSUME NEW row, NEW p, NEW answer, NEW f, DayRow(row),
           \A x \in ShareFields : DayShare(Settled(p, answer))[x] \in Int
    PROVE  CreditedDay(row, Credited(row, Settled(p, answer), f), p, answer, f)
<1>. DEFINE s == Settled(p, answer)  delta == DayShare(s)
            sum == Add(row, delta)  new == Credited(row, s, f)
<1>1. DOMAIN delta = ShareFields
  BY ShareDomain
<1>2. new = [sum EXCEPT !.profitParticipants = @ \cup {f}]
  BY DEF Credited
<1>3. /\ DOMAIN row = DayFields /\ \A x \in DayCounters : row[x] \in Int
      /\ \A x \in ShareFields : delta[x] \in Int
  BY DEF DayRow
<1>0. \A x \in DayCounters : SettledShare(p, answer)[x] = IF x \in ShareFields THEN delta[x] ELSE 0
  BY DEF SettledShare
<1>. HIDE DEF delta, s
<1>4. /\ DOMAIN sum = DayFields /\ sum["profitParticipants"] = row["profitParticipants"]
      /\ \A x \in DayCounters : x \in ShareFields => sum[x] = row[x] + delta[x]
      /\ \A x \in DayCounters : x \notin ShareFields => sum[x] = row[x]
  BY <1>1, <1>3, AddValues, DayFieldsApart
<1>. HIDE DEF sum, new
<1>5. /\ DOMAIN new = DayFields /\ new.profitParticipants = row.profitParticipants \cup {f}
      /\ \A x \in DayCounters : new[x] = sum[x]
  BY <1>2, <1>4, DayFieldsApart
<1>6. ASSUME NEW x \in DayCounters
      PROVE  new[x] = row[x] + SettledShare(p, answer)[x] /\ new[x] \in Int
  BY <1>0, <1>3, <1>4, <1>5
<1>. QED  BY <1>5, <1>6 DEF CreditedDay, DayRow, new, s

\* The day that a settlement of the agent's participant takes from.
DayLeft(a, f) == IF participant[<<a, f>>].settled THEN DayReversed(f) ELSE Day(now)

\* What a settlement makes of the row of the day e.
DayMoved(old, new, p, answer, f, e, t, r) ==
    /\ DayRow(new)
    /\ \A x \in DayCounters :
          new[x] = old[x] + (IF e = t THEN SettledShare(p, answer)[x] ELSE 0)
                          - (IF e = r THEN ReversedShare(p)[x] ELSE 0)
    /\ new.profitParticipants = (old.profitParticipants \ (IF p.settled /\ e = r THEN {f} ELSE {}))
                                    \cup (IF e = t THEN {f} ELSE {})

\* An unsettled participant has nothing to take back.
LEMMA NothingToReverse ==
    ASSUME Standing, NEW k \in DOMAIN participant, NEW p, p = participant[k], ~p.settled
    PROVE  \A x \in DayCounters : ReversedShare(p)[x] = 0
BY DEF Standing, ReversedShare

\* A day of a settled agent gains the new share if it is today, and loses the old one if it is
\* the day the settlement before is looked for.
LEMMA DayAfterValues ==
    ASSUME LedgerRows, Bets, Standing, NEW f, NEW answer, NEW d, NEW k, k = <<d[1], f>>,
           k \in Touched(f, answer), NEW old, old = LoadOr(daily, d, NewDay),
           NEW p, p = participant[k], NEW new, new = DayAfter(d, f, answer)
    PROVE  DayMoved(old, new, p, answer, f, d[2], Day(now), DayLeft(d[1], f))
<1>. DEFINE t == Day(now)  r == DayLeft(d[1], f)  e == d[2]
            left == p.settled /\ e = r
            mid == IF left THEN Reversed(old, p, f) ELSE old
<1>1. k \in DOMAIN participant /\ (k \in Redone(f, answer) <=> p.settled)
      /\ (p.settled => r = DayReversed(f))
  BY DEF Touched, Redone, DayLeft
<1>2. new = IF e = t THEN Credited(mid, Settled(p, answer), f) ELSE mid
  BY <1>1 DEF DayAfter
<1>3. MovesAt(p, answer)
  BY <1>1, SettledMoves
<1>4. /\ \A x \in ShareFields : DayShare(p)[x] \in Int /\ DayShare(Settled(p, answer))[x] \in Int
      /\ \A x \in DayCounters : SettledShare(p, answer)[x] \in Int /\ ReversedShare(p)[x] \in Int
  <2>. DEFINE s == Settled(p, answer)
  <2>1. \A x \in FaceFields : Face(p)[x] \in Int /\ Face(s)[x] \in Int
    BY <1>3 DEF MovesAt
  <2>2. \A x \in DayCounters : SettledShare(p, answer)[x] \in Int /\ ReversedShare(p)[x] \in Int
    BY <1>3 DEF MovesAt
  <2>. HIDE DEF s
  <2>3. \A x \in ShareFields : DayShare(p)[x] = Face(p)[x] /\ DayShare(s)[x] = Face(s)[x]
    BY FaceValues
  <2>4. \A x \in ShareFields : DayShare(p)[x] \in Int /\ DayShare(s)[x] \in Int
    BY <2>1, <2>3, Fields
  <2>. QED  BY <2>2, <2>4 DEF s
<1>5. DayRow(old)
  BY LoadedDay DEF DayRow
<1>6. ~p.settled => \A x \in DayCounters : ReversedShare(p)[x] = 0
  BY <1>1, NothingToReverse
<1>. HIDE DEF t, r, e
<1>7. /\ DayRow(mid)
      /\ \A x \in DayCounters : mid[x] = old[x] - (IF e = r THEN ReversedShare(p)[x] ELSE 0)
      /\ mid.profitParticipants = old.profitParticipants \ (IF left THEN {f} ELSE {})
  <2>1. \A x \in DayCounters : old[x] \in Int
    BY <1>5 DEF DayRow
  <2>2. CASE left BY <1>4, <1>5, ReversedValues, <2>2 DEF ReversedDay
  <2>3. CASE ~left
    <3>1. \A x \in DayCounters : (IF e = r THEN ReversedShare(p)[x] ELSE 0) = 0
      BY <1>6, <2>3
    <3>. HIDE DEF left
    <3>. QED  BY <1>5, <2>1, <2>3, <3>1
  <2>. QED  BY <2>2, <2>3
<1>. HIDE DEF mid
<1>8. CASE e = t
  <2>1. CreditedDay(mid, Credited(mid, Settled(p, answer), f), p, answer, f)
    BY <1>4, <1>7, CreditedValues
  <2>2. ASSUME NEW x \in DayCounters
        PROVE  new[x] = old[x] + (IF e = t THEN SettledShare(p, answer)[x] ELSE 0)
                               - (IF e = r THEN ReversedShare(p)[x] ELSE 0)
    BY <1>2, <1>4, <1>5, <1>7, <1>8, <2>1 DEF CreditedDay, DayRow
  <2>. QED  BY <1>2, <1>7, <1>8, <2>1, <2>2 DEF CreditedDay, DayMoved, t, r, e, left
<1>9. CASE e # t
  <2>2. ASSUME NEW x \in DayCounters
        PROVE  new[x] = old[x] + (IF e = t THEN SettledShare(p, answer)[x] ELSE 0)
                               - (IF e = r THEN ReversedShare(p)[x] ELSE 0)
    BY <1>2, <1>4, <1>5, <1>7, <1>9 DEF DayRow
  <2>. QED  BY <1>2, <1>7, <1>9, <2>2 DEF DayMoved, t, r, e, left
<1>. QED  BY <1>8, <1>9

\* An agent without a participant to settle keeps its days.
LEMMA DayAfterUntouched ==
    ASSUME NEW f, NEW answer, NEW d \in DOMAIN daily, <<d[1], f>> \notin Touched(f, answer)
    PROVE  DayAfter(d, f, answer) = daily[d]
BY DEF DayAfter, Redone, LoadOr

\* The tables after a settlement.
SettledTables(f, answer) ==
    /\ DOMAIN traderAgent' = DOMAIN traderAgent /\ DOMAIN participant' = DOMAIN participant
    /\ \A a \in DOMAIN traderAgent :
          traderAgent'[a] = IF <<a, f>> \in Touched(f, answer)
                            THEN Add(traderAgent[a], SettlementDelta(participant[<<a, f>>], answer))
                            ELSE traderAgent[a]
    /\ \A k \in DOMAIN participant :
          participant'[k] = IF k \in Touched(f, answer) THEN Settled(participant[k], answer)
                            ELSE participant[k]
    /\ \A j : j \in DOMAIN daily' <=> \/ j \in DOMAIN daily
                                      \/ \E k \in Touched(f, answer) : j = <<k[1], Day(now)>>
                                      \/ \E k \in Redone(f, answer) : j = <<k[1], DayReversed(f)>>
    /\ \A d \in DOMAIN daily' : daily'[d] = DayAfter(d, f, answer)

\* They are what the settlement writes.
LEMMA SettlementTables ==
    ASSUME NEW f, NEW answer, SettleMarket(f, answer) PROVE SettledTables(f, answer)
BY DEF SettleMarket, DailyAfterAnswer, DayAfter, SettledTables

\* Whose days a settlement adds.
LEMMA TouchedPairs ==
    ASSUME LedgerRows, NEW f, NEW answer, NEW k \in Touched(f, answer)
    PROVE  k \in DOMAIN participant /\ k = <<k[1], f>> /\ k[1] \in DOMAIN traderAgent
           /\ f \in DOMAIN fpmm
BY DEF Touched, LedgerRows, LedgerShape

\* An agent gains at most two days, and none when it is not settled.
LEMMA DaysAdded ==
    ASSUME LedgerRows, NEW f, NEW answer, SettledTables(f, answer), NEW j, NEW a, j[1] = a,
           NEW k, k = <<a, f>>
    PROVE  /\ k \notin Touched(f, answer) => (j \in DOMAIN daily' <=> j \in DOMAIN daily)
           /\ k \in Touched(f, answer) =>
                (j \in DOMAIN daily' <=> j \in DOMAIN daily \/ j = <<a, Day(now)>>
                                         \/ j = <<a, DayLeft(a, f)>>)
<1>1. /\ j \in DOMAIN daily' <=> \/ j \in DOMAIN daily
                                 \/ \E i \in Touched(f, answer) : j = <<i[1], Day(now)>>
                                 \/ \E i \in Redone(f, answer) : j = <<i[1], DayReversed(f)>>
      /\ Redone(f, answer) \subseteq Touched(f, answer)
      /\ k \in Touched(f, answer) => (k \in Redone(f, answer) <=> participant[k].settled)
  BY DEF SettledTables, Redone
<1>2. \A i \in Touched(f, answer) : i = <<i[1], f>>
  BY TouchedPairs
<1>3. \A e : \A i \in Touched(f, answer) : j = <<i[1], e>> => i = k /\ j = <<a, e>>
  BY <1>2
<1>4. /\ (\E i \in Touched(f, answer) : j = <<i[1], Day(now)>>)
             <=> k \in Touched(f, answer) /\ j = <<a, Day(now)>>
      /\ (\E i \in Redone(f, answer) : j = <<i[1], DayReversed(f)>>)
             <=> k \in Redone(f, answer) /\ j = <<a, DayReversed(f)>>
  BY <1>1, <1>3
<1>. QED  BY <1>1, <1>4 DEF DayLeft

\* What a settlement changes of an agent it touches.
LEMMA SettlementShift ==
    ASSUME LedgerRows, Bets, Standing, NEW f, NEW answer, SettledTables(f, answer),
           NEW a, NEW k, k = <<a, f>>, k \in Touched(f, answer), NEW p, p = participant[k]
    PROVE  Shift(a, f, Day(now), DayLeft(a, f), SettledMove(p, answer), SettledShare(p, answer),
                 ReversedShare(p))
<1>. DEFINE m == SettledMove(p, answer)  plus == SettledShare(p, answer)
            minus == ReversedShare(p)  t == Day(now)  r == DayLeft(a, f)
            s == Settled(p, answer)
<1>1. k \in DOMAIN participant /\ a \in DOMAIN traderAgent /\ k[1] = a /\ k[2] = f
  BY TouchedPairs
<1>2. MovesAt(p, answer)
  BY <1>1, SettledMoves
<1>3. /\ \A x \in FaceFields : /\ m[x] \in Int /\ Face(p)[x] \in Int
                               /\ Face(s)[x] = Face(p)[x] + m[x]
      /\ \A x \in DayCounters : plus[x] \in Int /\ minus[x] \in Int /\ m[x] = plus[x] - minus[x]
      /\ \A x \in Activity : m[x] = 0
      /\ \A x \in DOMAIN SettlementDelta(p, answer) : m[x] = SettlementDelta(p, answer)[x]
  BY <1>2 DEF MovesAt
<1>4. /\ traderAgent'[a] = Add(traderAgent[a], SettlementDelta(p, answer))
      /\ participant'[k] = s
  BY <1>1 DEF SettledTables
<1>. HIDE DEF m, plus, minus, t, r, s
<1>5. ASSUME NEW x \in AgentCounters PROVE traderAgent'[a][x] = traderAgent[a][x] + m[x]
  <2>. DEFINE row == traderAgent[a]  delta == SettlementDelta(p, answer)
  <2>1. /\ DOMAIN delta = {"totalTradedSettled", "totalFeesSettled", "totalExpectedPayout"}
    BY DEF SettlementDelta
  <2>2. DOMAIN row = AgentFields /\ row[x] \in Int /\ x \in AgentFields
    BY <1>1, Fields DEF LedgerRows, LedgerShape, LedgerNumbers
  <2>. HIDE DEF row, delta
  <2>3. CASE x \in DOMAIN delta BY <1>3, <2>3, <2>2, AddValues, <1>4 DEF delta, row
  <2>4. CASE x \notin DOMAIN delta
    BY <1>3, <2>1, <2>4, <2>2, AddValues, <1>4 DEF AgentCounters, row, delta
  <2>. QED  BY <2>3, <2>4
<1>6. ASSUME NEW j \in DOMAIN participant, j[1] = a, j # k PROVE participant'[j] = participant[j]
  <2>1. j \notin Touched(f, answer) BY TouchedPairs, <1>6
  <2>. QED  BY <2>1 DEF SettledTables
<1>7. ASSUME NEW x \in FaceFields PROVE Face(participant'[k])[x] = Entry(Faces, k, x) + m[x]
  BY <1>1, <1>3, <1>4 DEF Entry, Faces
<1>8. ASSUME NEW j, j[1] = a
      PROVE  j \in DOMAIN daily' <=> j \in DOMAIN daily \/ j = <<a, t>> \/ j = <<a, r>>
  BY <1>8, DaysAdded DEF t, r
<1>9. ASSUME NEW j \in DOMAIN daily', j[1] = a, NEW x \in DayCounters
      PROVE  daily'[j][x] = Entry(daily, j, x) + (IF j = <<a, t>> THEN plus[x] ELSE 0)
                                               - (IF j = <<a, r>> THEN minus[x] ELSE 0)
  <2>1. PICK old, new : old = LoadOr(daily, j, NewDay) /\ new = DayAfter(j, f, answer)
    OBVIOUS
  <2>2. DayMoved(old, new, p, answer, f, j[2], t, r)
    BY <1>9, <2>1, DayAfterValues DEF t, r
  <2>3. old[x] = Entry(daily, j, x)
    BY <2>1, LoadedDay
  <2>4. daily'[j] = new
    BY <2>1 DEF SettledTables
  <2>5. (j = <<a, t>> <=> j[2] = t) /\ (j = <<a, r>> <=> j[2] = r)
    <3>1. j = <<j[1], j[2]>> BY <1>8, <1>9 DEF LedgerRows, LedgerShape
    <3>. QED  BY <1>9, <3>1
  <2>6. new[x] = old[x] + (IF j[2] = t THEN plus[x] ELSE 0) - (IF j[2] = r THEN minus[x] ELSE 0)
    BY <2>2 DEF DayMoved, plus, minus
  <2>. QED  BY <2>3, <2>4, <2>5, <2>6
<1>10. \A j : j[1] = a => (j \in DOMAIN participant' <=> j \in DOMAIN participant \/ j = k)
  BY <1>1 DEF SettledTables
<1>11. Shift(a, f, t, r, m, plus, minus)
  BY <1>3, <1>5, <1>6, <1>7, <1>8, <1>9, <1>10 DEF Shift
<1>. QED  BY <1>11 DEF m, plus, minus, t, r

\* And of the others nothing.
LEMMA SettlementLeaves ==
    ASSUME LedgerRows, NEW f, NEW answer, SettledTables(f, answer),
           NEW a \in DOMAIN traderAgent, NEW k, k = <<a, f>>, k \notin Touched(f, answer)
    PROVE  Untouched(a)
<1>1. traderAgent'[a] = traderAgent[a]
  BY DEF SettledTables
<1>2. ASSUME NEW j \in DOMAIN participant, j[1] = a PROVE participant'[j] = participant[j]
  <2>1. j \notin Touched(f, answer) BY TouchedPairs, <1>2
  <2>. QED  BY <2>1 DEF SettledTables
<1>3. ASSUME NEW j, j[1] = a
      PROVE  /\ j \in DOMAIN daily' <=> j \in DOMAIN daily
             /\ j \in DOMAIN daily => daily'[j] = daily[j]
  BY <1>3, DaysAdded, DayAfterUntouched DEF SettledTables
<1>. QED  BY <1>1, <1>2, <1>3 DEF Untouched, SameOf, SettledTables

\* The agents an answer settles, and what it moves for them.
SettledAgents(f, answer) == {a \in DOMAIN traderAgent : <<a, f>> \in Touched(f, answer)}
LeftDays(f, answer) == [a \in SettledAgents(f, answer) |-> DayLeft(a, f)]
SettledMovesOf(f, answer) ==
    [a \in SettledAgents(f, answer) |-> SettledMove(participant[<<a, f>>], answer)]
SettledSharesOf(f, answer) ==
    [a \in SettledAgents(f, answer) |-> SettledShare(participant[<<a, f>>], answer)]
ReversedSharesOf(f, answer) ==
    [a \in SettledAgents(f, answer) |-> ReversedShare(participant[<<a, f>>])]

\* The totals are integers.
LEMMA TotalsAreIntegers ==
    ASSUME LedgerRows, GlobalSums PROVE \A x \in AgentCounters : global[x] \in Int
<1>. SUFFICES ASSUME NEW x \in AgentCounters PROVE global[x] \in Int
  OBVIOUS
<1>. DEFINE g == Column(traderAgent, x)
<1>1. /\ IsFiniteSet(DOMAIN g) /\ \A a \in DOMAIN g : g[a] \in Int
      /\ global[x] = SumFunction(g)
  BY DEF Column, LedgerRows, LedgerShape, LedgerNumbers, GlobalSums
<1>. HIDE DEF g
<1>. QED  BY <1>1, SumFunctionType

\* What a settlement adds to the totals.
LEMMA SettlementTotals ==
    ASSUME LedgerRows, Bets, GlobalSums, NEW f, NEW answer, SettleMarket(f, answer),
           NEW m, m = SettledMovesOf(f, answer)
    PROVE  /\ DOMAIN global' = GlobalFields
           /\ global'.totalTraderAgents = global.totalTraderAgents
           /\ global'.totalActiveTraderAgents = global.totalActiveTraderAgents
           /\ \A x \in AgentCounters : global'[x] = global[x] + SumFunction(Column(m, x))
<1>. DEFINE T == SettledAgents(f, answer)  due == Touched(f, answer)
            F == {"totalTradedSettled", "totalFeesSettled", "totalExpectedPayout"}
            amount(x) == [k \in due |-> SettlementDelta(participant[k], answer)[x]]
            totals == [x \in F |-> SumFunction(amount(x))]
<1>1. due = T \X {f} /\ T \subseteq DOMAIN traderAgent /\ IsFiniteSet(T) /\ DOMAIN m = T
  <2>1. T \subseteq DOMAIN traderAgent /\ IsFiniteSet(DOMAIN traderAgent)
    BY DEF SettledAgents, LedgerRows, LedgerShape
  <2>2. due = T \X {f}
    <3>1. ASSUME NEW k \in due PROVE k \in T \X {f}
      <4>1. k = <<k[1], f>> /\ k[1] \in DOMAIN traderAgent
        BY TouchedPairs
      <4>2. k[1] \in T
        BY <4>1 DEF SettledAgents
      <4>. QED  BY <4>1, <4>2
    <3>2. ASSUME NEW a \in T PROVE <<a, f>> \in due
      BY DEF SettledAgents
    <3>. QED  BY <3>1, <3>2
  <2>3. DOMAIN m = T
    BY DEF SettledMovesOf
  <2>. QED  BY <2>1, <2>2, <2>3, FS_Subset
<1>2. ASSUME NEW a \in T
      PROVE  /\ \A x \in F : /\ m[a][x] = SettlementDelta(participant[<<a, f>>], answer)[x]
                             /\ m[a][x] \in Int
             /\ \A x \in Activity : m[a][x] = 0
  <2>1. PICK p : p = participant[<<a, f>>]
    OBVIOUS
  <2>2. <<a, f>> \in DOMAIN participant
    BY DEF SettledAgents, Touched
  <2>3. MovesAt(p, answer)
    <3>. DEFINE k == <<a, f>>
    <3>. HIDE DEF k
    <3>. QED  BY <2>1, <2>2, SettledMoves DEF k
  <2>4. m[a] = SettledMove(p, answer)
    BY <2>1 DEF SettledMovesOf
  <2>5. F \subseteq FaceFields /\ F = DOMAIN SettlementDelta(p, answer)
    BY DEF FaceFields, AgentCounters, SettlementDelta
  <2>. QED  BY <2>1, <2>3, <2>4, <2>5 DEF MovesAt
<1>3. SettledTotals(due, answer) = totals
  BY DEF SettledTotals, SumOver
<1>4. DOMAIN global = GlobalFields /\ \A x \in AgentCounters : global[x] \in Int
  BY TotalsAreIntegers DEF LedgerRows, LedgerShape
<1>5. ASSUME NEW x \in F PROVE SumFunction(amount(x)) = SumFunction(Column(m, x))
  <2>. DEFINE u == amount(x)  v == Column(m, x)
  <2>1. DOMAIN v = T /\ DOMAIN u = T \X {f} /\ \A a \in T : v[a] = m[a][x]
    BY <1>1 DEF Column
  <2>2. AllIntegers(v)
    BY <1>2, <2>1 DEF AllIntegers
  <2>3. ASSUME NEW a \in T PROVE u[<<a, f>>] = v[a]
    <3>1. u[<<a, f>>] = SettlementDelta(participant[<<a, f>>], answer)[x]
      BY <1>1
    <3>. HIDE DEF u, v
    <3>. QED  BY <1>2, <2>1, <3>1
  <2>. HIDE DEF u, v, T
  <2>4. SumFunction(u) = SumFunction(v)
    <3>1. PairsOf(u, v, f) /\ IsFiniteSet(DOMAIN v)
      BY <1>1, <2>1, <2>3 DEF PairsOf
    <3>. QED  BY <2>2, <3>1, SumOfPairs
  <2>. QED  BY <2>4 DEF u, v
<1>6. ASSUME NEW x \in AgentCounters \ F PROVE SumFunction(Column(m, x)) = 0
  <2>. DEFINE v == Column(m, x)
  <2>1. x \in Activity
    BY DEF AgentCounters
  <2>2. DOMAIN v = T /\ \A a \in T : v[a] = 0
    BY <1>1, <1>2, <2>1 DEF Column
  <2>. HIDE DEF v, T
  <2>3. SumFunction(v) = 0
    BY <1>1, <2>2, SumOfZeros
  <2>. QED  BY <2>3 DEF v
<1>7. /\ DOMAIN global' = DOMAIN global
      /\ \A x \in GlobalFields :
           global'[x] = IF x \in F THEN global[x] + SumFunction(amount(x)) ELSE global[x]
  <2>1. global' = Add(global, totals)
    BY <1>3 DEF SettleMarket
  <2>. HIDE DEF amount
  <2>. QED  BY <1>4, <2>1 DEF Add
<1>8. AgentCounters \subseteq GlobalFields /\ F \subseteq AgentCounters
      /\ {"totalTraderAgents", "totalActiveTraderAgents"} \subseteq GlobalFields \ F
  BY DEF GlobalFields, AgentCounters, Activity
<1>. HIDE DEF F, amount
<1>9. \A x \in AgentCounters : global'[x] = global[x] + SumFunction(Column(m, x))
  BY <1>4, <1>5, <1>6, <1>7, <1>8
<1>. QED  BY <1>4, <1>7, <1>8, <1>9

\* A settlement is a movement for the agents it settles.
LEMMA SettlementMoves ==
    ASSUME LedgerRows, Bets, Standing, GlobalSums, NEW f, NEW answer, SettleMarket(f, answer)
    PROVE  Movement(SettledAgents(f, answer), f, Day(now), LeftDays(f, answer),
                    SettledMovesOf(f, answer), SettledSharesOf(f, answer),
                    ReversedSharesOf(f, answer))
<1>. DEFINE T == SettledAgents(f, answer)  r == LeftDays(f, answer)
            m == SettledMovesOf(f, answer)  plus == SettledSharesOf(f, answer)
            minus == ReversedSharesOf(f, answer)
<1>1. SettledTables(f, answer)
  BY SettlementTables
<1>2. ASSUME NEW a \in T PROVE Shift(a, f, Day(now), r[a], m[a], plus[a], minus[a])
  <2>1. PICK k, p : k = <<a, f>> /\ p = participant[k]
    OBVIOUS
  <2>2. k \in Touched(f, answer)
    BY <2>1 DEF SettledAgents
  <2>3. Shift(a, f, Day(now), DayLeft(a, f), SettledMove(p, answer), SettledShare(p, answer),
              ReversedShare(p))
    BY <1>1, <2>1, <2>2, SettlementShift
  <2>4. /\ r[a] = DayLeft(a, f) /\ m[a] = SettledMove(p, answer)
        /\ plus[a] = SettledShare(p, answer) /\ minus[a] = ReversedShare(p)
    BY <2>1 DEF LeftDays, SettledMovesOf, SettledSharesOf, ReversedSharesOf
  <2>. HIDE DEF r, m, plus, minus
  <2>. QED  BY <2>3, <2>4
<1>3. ASSUME NEW a \in DOMAIN traderAgent \ T PROVE Untouched(a)
  BY <1>1, SettlementLeaves DEF SettledAgents
<1>4. T \subseteq DOMAIN traderAgent /\ DOMAIN m = T
  BY DEF SettledAgents, SettledMovesOf
<1>5. \A x \in AgentCounters : global'[x] = global[x] + SumFunction(Column(m, x))
  BY SettlementTotals
<1>6. DOMAIN traderAgent' = DOMAIN traderAgent
  BY <1>1 DEF SettledTables
<1>. HIDE DEF T, r, m, plus, minus
<1>7. Movement(T, f, Day(now), r, m, plus, minus)
  BY <1>2, <1>3, <1>4, <1>5, <1>6 DEF Movement
<1>. QED  BY <1>7 DEF T, r, m, plus, minus

\* An answer to the question q reaches its market f, and is final at the time at.
MarketAnswered(f, answer, at) ==
    /\ DOMAIN fpmm' = DOMAIN fpmm /\ fpmm'[f] \in MarketRows
    /\ fpmm'[f].currentAnswer = answer /\ fpmm'[f].answeredAt = now
    /\ fpmm[f].repeated => fpmm'[f].repeated
    /\ at > now /\ fpmm[f].currentAnswer = answer => fpmm'[f].repeated
    /\ \A g \in DOMAIN fpmm \ {f} : fpmm'[g] = fpmm[g]

Answered(q, f, answer, at) ==
    /\ q \in Questions /\ answer \in Answers
    /\ f \in DOMAIN fpmm /\ market[f].question = q /\ ~IsFinal(q)
    /\ MarketAnswered(f, answer, at) /\ SettleMarket(f, answer)
    /\ now' = now /\ market' = market
    /\ at > now \/ IsFinal(q)'
    /\ \A r \in Questions \ {q} : IsFinal(r) => IsFinal(r)'

\* So do the days that a settlement leaves.
LEMMA LeftInRun ==
    ASSUME Followed, NEW f \in DOMAIN fpmm PROVE Day(now) \in DaysRun /\ DayReversed(f) \in DaysRun
BY DayInRun DEF Followed, PartialFn, MarketRows, DayReversed

\* A settlement keeps the shape of the tables.
LEMMA SettlementKeepsShape ==
    ASSUME Followed, LedgerRows, Bets, GlobalSums, Standing, NEW q, NEW f, NEW answer, NEW at,
           Answered(q, f, answer, at)
    PROVE  LedgerShape'
<1>1. /\ SettleMarket(f, answer) /\ f \in DOMAIN fpmm /\ DOMAIN fpmm' = DOMAIN fpmm
  BY DEF Answered, MarketAnswered
<1>2. SettledTables(f, answer)
  BY <1>1, SettlementTables
<1>3. DOMAIN global' = GlobalFields BY <1>1, SettlementTotals
<1>4. Day(now) \in DaysRun /\ DayReversed(f) \in DaysRun
  BY <1>1, LeftInRun
<1>5. DOMAIN daily' \subseteq (DOMAIN traderAgent) \X DaysRun
  <2>1. SUFFICES ASSUME NEW j \in DOMAIN daily' PROVE j \in (DOMAIN traderAgent) \X DaysRun
    OBVIOUS
  <2>2. CASE j \in DOMAIN daily
    BY <2>2 DEF LedgerRows, LedgerShape
  <2>3. ASSUME NEW k \in Touched(f, answer), NEW d, d \in {Day(now), DayReversed(f)},
               j = <<k[1], d>>
        PROVE  j \in (DOMAIN traderAgent) \X DaysRun
    BY TouchedPairs, <1>4, <2>3
  <2>4. \A k \in Redone(f, answer) : k \in Touched(f, answer)
    BY DEF Redone
  <2>. QED  BY <1>2, <2>2, <2>3, <2>4 DEF SettledTables
<1>6. IsFiniteSet(DOMAIN daily')
  <2>1. IsFiniteSet(DaysRun)
    <3>1. 0 \in Int /\ Day(MaxNow) \in Int BY OmenTime DEF Day
    <3>. QED  BY <3>1, FS_Interval DEF DaysRun
  <2>2. IsFiniteSet((DOMAIN traderAgent) \X DaysRun)
    BY <2>1, FS_Product DEF LedgerRows, LedgerShape
  <2>. QED  BY <1>5, <2>2, FS_Subset
<1>7. ASSUME NEW a \in DOMAIN traderAgent
      PROVE  /\ DOMAIN traderAgent'[a] = AgentFields /\ traderAgent'[a].serviceId \in Services
             /\ traderAgent'[a].active \in BOOLEAN
  <2>1. PICK row, delta : row = traderAgent[a]
                          /\ delta = SettlementDelta(participant[<<a, f>>], answer)
    OBVIOUS
  <2>2. /\ DOMAIN row = AgentFields /\ row.serviceId \in Services /\ row.active \in BOOLEAN
    BY <2>1 DEF LedgerRows, LedgerShape
  <2>3. traderAgent'[a] = row \/ traderAgent'[a] = Add(row, delta)
    BY <1>2, <2>1 DEF SettledTables
  <2>4. {"serviceId", "active"} \subseteq AgentFields \ DOMAIN delta
    BY <2>1 DEF SettlementDelta, AgentFields
  <2>5. /\ DOMAIN Add(row, delta) = AgentFields
        /\ Add(row, delta)["serviceId"] = row["serviceId"]
        /\ Add(row, delta)["active"] = row["active"]
    BY <2>2, <2>4, AddValues
  <2>. QED  BY <2>2, <2>3, <2>5
<1>8. ASSUME NEW k \in DOMAIN participant
      PROVE  /\ DOMAIN participant'[k] = ParticipantFields
             /\ participant'[k].balance \in [Outcomes -> Int]
             /\ participant'[k].settled \in BOOLEAN
  <2>1. PICK p, s : p = participant[k] /\ s = Settled(p, answer)
    OBVIOUS
  <2>2. /\ DOMAIN p = ParticipantFields /\ p.balance \in [Outcomes -> Int]
        /\ p.settled \in BOOLEAN
    BY <2>1 DEF LedgerRows, LedgerShape
  <2>3. SettlesAt(p, answer)
    BY <2>2, SettledValues
  <2>4. DOMAIN s = ParticipantFields /\ s.balance = p.balance /\ s.settled = TRUE
    BY <2>1, <2>3 DEF SettlesAt
  <2>5. participant'[k] = p \/ participant'[k] = s
    BY <1>2, <2>1 DEF SettledTables
  <2>. QED  BY <2>2, <2>4, <2>5
<1>9. ASSUME NEW d \in DOMAIN daily' PROVE DOMAIN daily'[d] = DayFields
  <2>1. PICK k, p, old, new : /\ k = <<d[1], f>> /\ p = participant[k]
                              /\ old = LoadOr(daily, d, NewDay) /\ new = DayAfter(d, f, answer)
    OBVIOUS
  <2>2. daily'[d] = new
    BY <1>2, <2>1 DEF SettledTables
  <2>3. CASE k \in Touched(f, answer) BY <2>1, <2>3, DayAfterValues, <2>2 DEF DayMoved, DayRow
  <2>4. CASE k \notin Touched(f, answer)
    <3>1. d \in DOMAIN daily BY <1>2, <2>1, <2>4, DaysAdded
    <3>2. daily'[d] = daily[d]
      BY <2>1, <2>2, <2>4, <3>1, DayAfterUntouched
    <3>. QED  BY <3>1, <3>2 DEF LedgerRows, LedgerShape
  <2>. QED  BY <2>3, <2>4
<1>10. DOMAIN traderAgent' = DOMAIN traderAgent /\ DOMAIN participant' = DOMAIN participant
  BY <1>2 DEF SettledTables
<1>. QED  BY <1>1, <1>3, <1>5, <1>6, <1>7, <1>8, <1>9, <1>10
         DEF LedgerShape, LedgerRows, DaysRun, Day

\* What stands stands after an answer.
LEMMA SettlementStands ==
    ASSUME Followed, LedgerRows, Bets, Standing, NEW q, NEW f, NEW answer, NEW at,
           Answered(q, f, answer, at)
    PROVE  Standing'
<1>1. /\ SettleMarket(f, answer) /\ f \in DOMAIN fpmm /\ MarketAnswered(f, answer, at)
      /\ answer # None /\ now # None /\ market' = market /\ now \in Times
      /\ market[f].question = q /\ ~IsFinal(q) /\ (at > now \/ IsFinal(q)')
      /\ \A r \in Questions \ {q} : IsFinal(r) => IsFinal(r)'
  BY OmenTime, OmenSorts DEF Followed, Times, Answered
<1>2. SettledTables(f, answer)
  BY <1>1, SettlementTables
<1>3. SUFFICES ASSUME NEW k \in DOMAIN participant, NEW p, p = participant'[k]
      PROVE  /\ ~p.settled => p.creditedOn = None /\ p.expectedPayout = 0
                              /\ \A x \in ShareFields : DayShare(p)[x] = 0
             /\ p.settled => /\ fpmm'[k[2]].currentAnswer # None
                             /\ fpmm'[k[2]].answeredAt # None
                             /\ p.creditedOn \in DaysRun
                             /\ \/ fpmm'[k[2]].repeated \/ IsFinal(market[k[2]].question)'
                                \/ p.creditedOn = Day(fpmm'[k[2]].answeredAt)
  BY <1>1, <1>2 DEF Standing, SettledTables, DaysRun, Day, DayShare
<1>4. PICK o : o = participant[k]
  OBVIOUS
<1>5. CASE k \in Touched(f, answer)
  <2>1. p = Settled(o, answer) /\ k[2] = f
    BY <1>2, <1>3, <1>4, <1>5 DEF SettledTables, Touched
  <2>2. SettlesAt(o, answer)
    BY <1>4, SettledValues DEF LedgerRows, LedgerShape
  <2>3. p.settled = TRUE /\ p.creditedOn = Day(now)
    BY <2>1, <2>2 DEF SettlesAt
  <2>. QED  BY <1>1, <2>1, <2>3, DayInRun DEF MarketAnswered
<1>6. CASE k \notin Touched(f, answer)
  <2>1. p = o
    BY <1>2, <1>3, <1>4, <1>6 DEF SettledTables
  <2>2. /\ ~o.settled => o.creditedOn = None /\ o.expectedPayout = 0
                         /\ \A x \in ShareFields : DayShare(o)[x] = 0
        /\ o.settled => /\ fpmm[k[2]].currentAnswer # None /\ fpmm[k[2]].answeredAt # None
                        /\ o.creditedOn \in DaysRun
                        /\ \/ fpmm[k[2]].repeated \/ IsFinal(market[k[2]].question)
                           \/ o.creditedOn = Day(fpmm[k[2]].answeredAt)
    BY <1>4 DEF Standing
  <2>3. CASE k[2] = f BY <1>4, <1>6, <2>3, <2>2, <1>1, <2>1 DEF Touched, IsReAnswer, MarketAnswered
  <2>4. CASE k[2] # f
    BY <1>1, <2>4, <2>1, <2>2 DEF LedgerRows, LedgerShape, MarketAnswered, Followed, PartialFn
  <2>. QED  BY <2>3, <2>4
<1>. QED  BY <1>5, <1>6

\* A settled participant that met no repetition is counted on the day its settlement is
\* taken from; an unsettled one on no day.
LEMMA CreditedOnLeft ==
    ASSUME Standing, NEW q, NEW f, NEW answer, NEW at, Answered(q, f, answer, at),
           NEW a, NEW k, k = <<a, f>>, k \in DOMAIN participant, NEW p, p = participant[k],
           DOMAIN participant' = DOMAIN participant, ~MetRepetition(a)'
    PROVE  /\ p.settled => p.creditedOn = DayLeft(a, f)
           /\ ~p.settled => p.creditedOn = None
<1>1. ~fpmm'[f].repeated BY DEF Of, MetRepetition
<1>2. ~fpmm[f].repeated /\ market[f].question = q /\ ~IsFinal(q)
  BY <1>1 DEF Answered, MarketAnswered
<1>3. ~p.settled => p.creditedOn = None
  BY DEF Standing
<1>4. p.settled => fpmm[f].answeredAt # None /\ p.creditedOn = Day(fpmm[f].answeredAt)
  BY <1>2 DEF Standing
<1>. QED  BY <1>3, <1>4 DEF DayLeft, DayReversed

\* The days of an agent that is settled follow.
LEMMA SettlementRecredits ==
    ASSUME Followed, LedgerRows, Bets, Standing, NEW q, NEW f, NEW answer, NEW at,
           Answered(q, f, answer, at), NEW a, NEW k, k = <<a, f>>, k \in Touched(f, answer),
           NEW p, p = participant[k], DaySums(a), ~MetRepetition(a)'
    PROVE  Recredited(a, f, Day(now), DayLeft(a, f), SettledShare(p, answer), ReversedShare(p))
<1>. DEFINE t == Day(now)  r == DayLeft(a, f)  plus == SettledShare(p, answer)
            minus == ReversedShare(p)
<1>1. SettledTables(f, answer)
  BY SettlementTables DEF Answered
<1>2. /\ k \in DOMAIN participant /\ k[1] = a /\ k[2] = f
      /\ DOMAIN participant' = DOMAIN participant
  BY <1>1, TouchedPairs DEF SettledTables
<1>3. PICK s : s = Settled(p, answer)
  OBVIOUS
<1>4. participant'[k] = s
  BY <1>1, <1>2, <1>3 DEF SettledTables
<1>5. s.settled = TRUE /\ s.creditedOn = t
  <2>1. SettlesAt(p, answer)
    BY <1>2, SettledValues DEF LedgerRows, LedgerShape
  <2>. QED  BY <1>3, <2>1 DEF SettlesAt
<1>6. /\ p.settled => p.creditedOn = r
      /\ ~p.settled => p.creditedOn = None
  BY <1>2, CreditedOnLeft
<1>7. None \notin DaysRun
  <2>1. MaxNow \div DayLength \in Int BY OmenTime
  <2>2. DaysRun \subseteq Nat
    BY <2>1 DEF DaysRun, Day
  <2>. QED  BY <2>2, OmenTime
<1>8. MovesAt(p, answer)
  BY <1>2, SettledMoves
<1>9. ~p.settled => \A x \in DayCounters : minus[x] = 0
  BY <1>2, NothingToReverse
<1>10. ASSUME NEW x \in ShareFields
       PROVE  /\ plus[x] = DayShare(s)[x] /\ minus[x] = DayShare(p)[x]
              /\ plus[x] \in Int /\ minus[x] \in Int /\ x \in DayCounters
  BY Fields, <1>8, <1>3 DEF MovesAt, SettledShare, ReversedShare
<1>11. ASSUME NEW d \in DaysRun, NEW x \in ShareFields
       PROVE  Credit(participant'[k], d, x) =
                  Before(Credits(d, x), k) + (IF d = t THEN plus[x] ELSE 0)
                                           - (IF d = r THEN minus[x] ELSE 0)
  <2>1. Before(Credits(d, x), k) = Credit(p, d, x)
    BY <1>2 DEF Before, Credits
  <2>. HIDE DEF t, r, plus, minus
  <2>2. Credit(s, d, x) = IF d = t THEN plus[x] ELSE 0
    BY <1>5, <1>10 DEF Credit
  <2>3. Credit(p, d, x) = IF d = r THEN minus[x] ELSE 0
    <3>1. CASE p.settled
      BY <1>6, <1>10, <3>1 DEF Credit
    <3>2. CASE ~p.settled BY <1>6, <1>7, <3>2, <1>9, <1>10 DEF minus, Credit
    <3>. QED  BY <3>1, <3>2
  <2>4. plus[x] \in Int /\ minus[x] \in Int
    BY <1>10
  <2>. QED  BY <1>4, <2>1, <2>2, <2>3, <2>4
<1>12. ASSUME NEW j \in DOMAIN participant, j[1] = a, j # k
       PROVE  participant'[j] = participant[j] /\ j[2] # f
  BY <1>12, <1>1 DEF LedgerRows, LedgerShape, Touched, SettledTables
<1>13. ASSUME NEW d \in DaysRun PROVE ListedOn(<<a, d>>)' = SettledIn(a, d)'
  <2>. DEFINE R == IF p.settled /\ d = r THEN {f} ELSE {}
              P == IF d = t THEN {f} ELSE {}
  <2>1. SettledIn(a, d)' = (SettledIn(a, d) \ R) \cup P
    <3>. DEFINE I == {j \in DOMAIN participant : j[1] = a /\ participant[j].creditedOn = d}
                J == {j \in DOMAIN participant' : j[1] = a /\ participant'[j].creditedOn = d}
    <3>1. \A j : j # k => (j \in J <=> j \in I)
      BY <1>2, <1>12
    <3>2. /\ k \in J <=> d = t
          /\ k \in I <=> p.settled /\ d = r
      BY <1>2, <1>4, <1>5, <1>6, <1>7
    <3>3. \A j \in I \cup J : j # k => j[2] # f
      BY <1>2, <1>12
    <3>4. SettledIn(a, d) = {j[2] : j \in I} /\ SettledIn(a, d)' = {j[2] : j \in J}
      BY DEF SettledIn
    <3>. HIDE DEF I, J
    <3>5. \A g : (\E j \in J : g = j[2]) <=>
                    (((\E j \in I : g = j[2]) /\ g \notin R) \/ g \in P)
      <4>. SUFFICES ASSUME NEW g
                    PROVE  (\E j \in J : g = j[2]) <=>
                              (((\E j \in I : g = j[2]) /\ g \notin R) \/ g \in P)
        OBVIOUS
      <4>1. CASE g = f BY <1>2, <3>2, <3>3, <4>1
      <4>2. CASE g # f BY <1>2, <3>1, <4>2
      <4>. QED  BY <4>1, <4>2
    <3>. QED  BY <3>4, <3>5
  <2>2. ListedOn(<<a, d>>)' = (ListedOn(<<a, d>>) \ R) \cup P
    <3>. DEFINE j == <<a, d>>
    <3>0. j[1] = a /\ j[2] = d /\ (j = <<a, t>> <=> d = t) /\ (j = <<a, r>> <=> d = r)
      OBVIOUS
    <3>. HIDE DEF j
    <3>1. j \in DOMAIN daily' <=> j \in DOMAIN daily \/ d = t \/ d = r
      BY <1>1, <3>0, DaysAdded
    <3>2. CASE j \in DOMAIN daily'
      BY <3>0, DayAfterValues, LoadedDay, <1>1, <3>2 DEF SettledTables, DayMoved, ListedOn, j
    <3>3. CASE j \notin DOMAIN daily'
      BY <3>1, <3>3 DEF ListedOn, j
    <3>. QED  BY <3>2, <3>3
  <2>3. ListedOn(<<a, d>>) = SettledIn(a, d)
    BY DEF DaySums
  <2>. QED  BY <2>1, <2>2, <2>3
<1>. QED  BY <1>11, <1>13 DEF Recredited

\* A settlement keeps the days of every agent that met no repetition.
LEMMA SettlementKeepsDays ==
    ASSUME Followed, LedgerRows, Bets, Standing, NEW q, NEW f, NEW answer, NEW at,
           Answered(q, f, answer, at), NEW a \in DOMAIN traderAgent,
           MetRepetition(a) \/ DaySums(a)
    PROVE  MetRepetition(a)' \/ DaySums(a)'
<1>1. SettledTables(f, answer) /\ MarketAnswered(f, answer, at)
  BY SettlementTables DEF Answered
<1>2. MetRepetition(a) => MetRepetition(a)'
  <2>1. SUFFICES ASSUME NEW k \in DOMAIN participant, k[1] = a, fpmm[k[2]].repeated
                 PROVE  \E j \in Of(a, participant') : fpmm'[j[2]].repeated
    BY DEF MetRepetition, Of
  <2>2. k \in Of(a, participant')
    BY <1>1, <2>1 DEF SettledTables, Of
  <2>3. k[2] \in DOMAIN fpmm
    BY DEF LedgerRows, LedgerShape
  <2>4. fpmm'[k[2]].repeated
    BY <1>1, <2>1, <2>3 DEF MarketAnswered
  <2>. QED  BY <2>2, <2>4
<1>3. SUFFICES ASSUME DaySums(a), ~MetRepetition(a)' PROVE DaySums(a)'
  BY <1>2
<1>4. PICK k, p : k = <<a, f>> /\ p = participant[k]
  OBVIOUS
<1>5. CASE k \in Touched(f, answer)
  <2>1. Shift(a, f, Day(now), DayLeft(a, f), SettledMove(p, answer), SettledShare(p, answer),
              ReversedShare(p))
    BY <1>1, <1>4, <1>5, SettlementShift
  <2>2. Recredited(a, f, Day(now), DayLeft(a, f), SettledShare(p, answer), ReversedShare(p))
    BY <1>3, <1>4, <1>5, SettlementRecredits
  <2>. QED  BY <1>3, <2>1, <2>2, CreditIntegers, ShiftKeepsDays
<1>6. CASE k \notin Touched(f, answer) BY <1>1, <1>4, <1>6, SettlementLeaves, <1>3, UntouchedDays
<1>. QED  BY <1>5, <1>6

\* The bets of the participants that an answer settles are counted, nothing else changes.
BetsCounted(chosen) ==
    /\ DOMAIN bet' = DOMAIN bet
    /\ \A b \in DOMAIN bet :
          /\ DOMAIN bet'[b] = BetFields
          /\ bet'[b].bettor = bet[b].bettor /\ bet'[b].market = bet[b].market
          /\ bet'[b].outcome = bet[b].outcome /\ bet'[b].amount = bet[b].amount
          /\ bet'[b].fee = bet[b].fee /\ bet'[b].tokens = bet[b].tokens
          /\ bet'[b].impliedProbability = bet[b].impliedProbability
          /\ b \in chosen => bet'[b].countedInProfit = TRUE
          /\ b \notin chosen => bet'[b] = bet[b]

ChosenBets(f, answer) == UNION {participant[k].bets : k \in Touched(f, answer)}

\* They are counted.
LEMMA SettlementCounts ==
    ASSUME Bets, NEW f, NEW answer, SettleMarket(f, answer)
    PROVE  BetsCounted(ChosenBets(f, answer))
<1>. DEFINE chosen == ChosenBets(f, answer)
<1>1. bet' = [b \in DOMAIN bet |-> IF b \in chosen THEN [bet[b] EXCEPT !.countedInProfit = TRUE]
                                   ELSE bet[b]]
  BY DEF SettleMarket, ChosenBets
<1>. HIDE DEF chosen
<1>2. DOMAIN bet' = DOMAIN bet
  BY <1>1
<1>3. ASSUME NEW b \in DOMAIN bet
      PROVE  /\ DOMAIN bet'[b] = BetFields
             /\ bet'[b].bettor = bet[b].bettor /\ bet'[b].market = bet[b].market
             /\ bet'[b].outcome = bet[b].outcome /\ bet'[b].amount = bet[b].amount
             /\ bet'[b].fee = bet[b].fee /\ bet'[b].tokens = bet[b].tokens
             /\ bet'[b].impliedProbability = bet[b].impliedProbability
             /\ b \in chosen => bet'[b].countedInProfit = TRUE
             /\ b \notin chosen => bet'[b] = bet[b]
  <2>. DEFINE row == bet[b]  more == [row EXCEPT !.countedInProfit = TRUE]
  <2>1. DOMAIN row = BetFields
    BY DEF Bets, BetRows
  <2>2. bet'[b] = IF b \in chosen THEN more ELSE row
    BY <1>1
  <2>. HIDE DEF row
  <2>3. /\ DOMAIN more = BetFields /\ more.bettor = row.bettor /\ more.market = row.market
        /\ more.outcome = row.outcome /\ more.amount = row.amount /\ more.fee = row.fee
        /\ more.tokens = row.tokens /\ more.impliedProbability = row.impliedProbability
        /\ more.countedInProfit = TRUE
    BY <2>1 DEF BetFields
  <2>. HIDE DEF more
  <2>4. CASE b \in chosen BY <2>2, <2>4, <2>3 DEF row
  <2>5. CASE b \notin chosen BY <2>2, <2>5, <2>1 DEF row
  <2>. QED  BY <2>4, <2>5
<1>. QED  BY <1>2, <1>3 DEF BetsCounted, chosen

\* A settlement counts all the bets of those it settles, at the market's new answer.
LEMMA SettlementKeepsBets ==
    ASSUME LedgerRows, Bets, NEW q, NEW f, NEW answer, NEW at, Answered(q, f, answer, at),
           \A k \in DOMAIN participant : participant[k].settled => fpmm[k[2]].currentAnswer # None
    PROVE  Bets'
<1>. DEFINE chosen == ChosenBets(f, answer)
<1>1. /\ SettleMarket(f, answer) /\ MarketAnswered(f, answer, at)
      /\ SettledTables(f, answer) /\ BetsCounted(chosen)
  BY SettlementTables, SettlementCounts DEF Answered
<1>2. DOMAIN bet' = DOMAIN bet /\ DOMAIN participant' = DOMAIN participant
  BY <1>1 DEF BetsCounted, SettledTables
<1>3. BetRows'
  <2>. HIDE DEF chosen
  <2>1. /\ IsFiniteSet(DOMAIN bet') /\ DOMAIN bet' = 0 .. Cardinality(DOMAIN bet') - 1
    BY <1>2 DEF Bets, BetRows
  <2>2. ASSUME NEW b \in DOMAIN bet
        PROVE  /\ DOMAIN bet'[b] = BetFields /\ bet'[b].outcome \in Outcomes
               /\ bet'[b].amount \in Int /\ bet'[b].fee \in Int /\ bet'[b].tokens \in Int
               /\ bet'[b].impliedProbability \in Int /\ bet'[b].countedInProfit \in BOOLEAN
               /\ <<bet'[b].bettor, bet'[b].market>> \in DOMAIN participant'
    BY <1>1, <1>2 DEF Bets, BetRows, BetsCounted
  <2>. QED  BY <1>2, <2>1, <2>2 DEF BetRows
<1>4. \A k : BetsOf(k, bet') = BetsOf(k, bet)
  BY <1>1, <1>2 DEF BetsOf, BetsCounted
<1>5. ASSUME NEW k \in Touched(f, answer), NEW p, p = participant'[k]
      PROVE  /\ p.bets = BetsOf(k, bet') /\ HeldExactly(p, bet', p.bets)
             /\ SettledExactly(p, fpmm'[k[2]].currentAnswer, bet', p.bets)
  <2>1. PICK o : o = participant[k]
    OBVIOUS
  <2>2. /\ k \in DOMAIN participant /\ k[2] = f /\ p = Settled(o, answer)
        /\ DOMAIN o = ParticipantFields /\ o.balance \in [Outcomes -> Int]
    BY <1>1, <1>5, <2>1 DEF Touched, SettledTables, LedgerRows, LedgerShape
  <2>3. SettlesAt(o, answer)
    BY <2>2, SettledValues
  <2>4. /\ p.expectedPayout = ExpectedPayout(o.balance, answer)
        /\ p.totalTradedSettled = o.totalTraded /\ p.totalFeesSettled = o.totalFees
        /\ p.brierSum = BrierSum(o.bets, answer)
        /\ p.brierCount = Cardinality(Forecasts(o.bets))
        /\ p.settled = TRUE /\ p.balance = o.balance /\ p.bets = o.bets
        /\ p.totalTraded = o.totalTraded /\ p.totalFees = o.totalFees
    BY <2>2, <2>3 DEF SettlesAt
  <2>5. PICK S : S = o.bets
    OBVIOUS
  <2>6. S = BetsOf(k, bet) /\ HeldExactly(o, bet, S)
    BY <2>1, <2>2, <2>5 DEF Bets
  <2>7. S \subseteq DOMAIN bet /\ IsFiniteSet(S) /\ S # {} /\ S \subseteq chosen
    BY <2>6, <2>1, <2>5, FS_Subset DEF BetsOf, HeldExactly, Bets, BetRows, ChosenBets
  <2>8. CountedIn(bet', S) = S
    BY <1>1, <2>7 DEF CountedIn, BetsCounted
  <2>9. SameAmounts(bet, bet', S)
    BY <1>1, <2>7 DEF SameAmounts, BetsCounted
  <2>10. /\ FieldSum(bet', S, "amount") = FieldSum(bet, S, "amount")
         /\ FieldSum(bet', S, "fee") = FieldSum(bet, S, "fee")
         /\ \A i : TokenSum(bet', S, i) = TokenSum(bet, S, i)
         /\ ForecastsIn(bet', S) = ForecastsIn(bet, S)
         /\ ScoreIn(bet', S, answer) = ScoreIn(bet, S, answer)
    BY <2>7, <2>9, SumsOfSameAmounts
  <2>11. /\ ForecastsIn(bet, S) = Forecasts(S) /\ BrierSum(S, answer) = ScoreIn(bet, S, answer)
    BY <2>7, ScoreIsInteger
  <2>12. /\ o.totalTraded = FieldSum(bet, S, "amount") /\ o.totalFees = FieldSum(bet, S, "fee")
         /\ \A i \in Outcomes : o.balance[i] = TokenSum(bet, S, i)
    BY <2>6 DEF HeldExactly
  <2>13. HeldExactly(p, bet', S)
    BY <2>4, <2>7, <2>10, <2>12 DEF HeldExactly
  <2>14. [i \in Outcomes |-> TokenSum(bet', S, i)] = o.balance BY <2>10, <2>12, <2>2
  <2>15. SettledExactly(p, answer, bet', S)
    <3>1. p.totalTradedSettled = FieldSum(bet', S, "amount")
          /\ p.totalFeesSettled = FieldSum(bet', S, "fee")
      BY <2>4, <2>10, <2>12
    <3>2. /\ p.expectedPayout = ExpectedPayout([i \in Outcomes |-> TokenSum(bet', S, i)], answer)
          /\ p.brierSum = ScoreIn(bet', S, answer)
          /\ p.brierCount = Cardinality(ForecastsIn(bet', S))
      BY <2>4, <2>5, <2>10, <2>11, <2>14
    <3>. QED  BY <2>4, <2>7, <2>8, <3>1, <3>2 DEF SettledExactly
  <2>16. fpmm'[k[2]].currentAnswer = answer
    BY <1>1, <2>2 DEF MarketAnswered
  <2>. QED  BY <1>4, <2>4, <2>5, <2>6, <2>13, <2>15, <2>16
<1>6. ASSUME NEW k \in DOMAIN participant, k \notin Touched(f, answer), NEW p, p = participant'[k]
      PROVE  /\ p.bets = BetsOf(k, bet') /\ HeldExactly(p, bet', p.bets)
             /\ SettledExactly(p, fpmm'[k[2]].currentAnswer, bet', p.bets)
  <2>1. participant'[k] = participant[k]
    BY <1>1, <1>6 DEF SettledTables
  <2>2. ASSUME NEW b \in participant[k].bets PROVE b \notin chosen
    <3>1. SUFFICES ASSUME NEW j \in Touched(f, answer), b \in participant[j].bets PROVE FALSE
      BY DEF ChosenBets
    <3>2. j \in DOMAIN participant
      BY DEF Touched
    <3>3. /\ bet[b].bettor = k[1] /\ bet[b].market = k[2]
          /\ bet[b].bettor = j[1] /\ bet[b].market = j[2]
      BY <3>1, <3>2 DEF Bets, BetsOf
    <3>4. k = <<k[1], k[2]>> /\ j = <<j[1], j[2]>>
      BY <3>2 DEF LedgerRows, LedgerShape
    <3>5. k[1] = j[1] /\ k[2] = j[2]
      BY <3>3
    <3>6. k = j
      BY <3>4, <3>5
    <3>. QED  BY <1>6, <3>6
  <2>3. SameBets(bet, bet', participant[k].bets)
    <3>1. participant[k].bets \subseteq DOMAIN bet
      BY DEF Bets, BetsOf
    <3>. HIDE DEF chosen
    <3>. QED  BY <1>1, <2>2, <3>1 DEF SameBets, BetsCounted
  <2>4. PICK w : w = fpmm'[k[2]].currentAnswer
    OBVIOUS
  <2>5. participant[k].settled => w = fpmm[k[2]].currentAnswer
    <3>1. SUFFICES ASSUME participant[k].settled PROVE w = fpmm[k[2]].currentAnswer
      OBVIOUS
    <3>2. CASE k[2] = f BY <1>6, <3>1, <3>2, <1>1, <2>4 DEF Touched, IsReAnswer, MarketAnswered
    <3>3. CASE k[2] # f BY <1>1, <2>4, <3>3 DEF LedgerRows, LedgerShape, MarketAnswered
    <3>. QED  BY <3>2, <3>3
  <2>6. BetsOf(k, bet') = BetsOf(k, bet)
    BY <1>4
  <2>7. LET o == participant'[k] IN
           /\ o.bets = BetsOf(k, bet') /\ HeldExactly(o, bet', o.bets)
           /\ SettledExactly(o, w, bet', o.bets)
    BY <2>1, <2>3, <2>5, <2>6, ParticipantKept
  <2>. QED  BY <1>6, <2>4, <2>7
<1>7. ASSUME NEW k \in DOMAIN participant, NEW p, p = participant'[k]
      PROVE  /\ p.bets = BetsOf(k, bet') /\ HeldExactly(p, bet', p.bets)
             /\ SettledExactly(p, fpmm'[k[2]].currentAnswer, bet', p.bets)
  BY <1>5, <1>6, <1>7
<1>. QED  BY <1>2, <1>3, <1>7 DEF Bets

-----------------------------------------------------------------------------
(* The books, handler by handler. *)

\* Where no agent is added and none becomes active, the counts stay.
LEMMA CountsKept ==
    ASSUME Counts, DOMAIN traderAgent' = DOMAIN traderAgent,
           \A a \in DOMAIN traderAgent : traderAgent'[a].active = traderAgent[a].active,
           global'.totalTraderAgents = global.totalTraderAgents,
           global'.totalActiveTraderAgents = global.totalActiveTraderAgents
    PROVE  Counts'
BY DEF Counts

\* A settlement keeps the books.
LEMMA AnsweredKeepsBooks ==
    ASSUME Followed, Books, NEW q, NEW f, NEW answer, NEW at, Answered(q, f, answer, at)
    PROVE  Books'
<1>1. LedgerRows /\ GlobalSums /\ Counts /\ Standing /\ Bets
      /\ \A a \in DOMAIN traderAgent : AgentSums(a)
  BY DEF Books
<1>2. SettleMarket(f, answer)
  BY DEF Answered
<1>3. LedgerShape'
  BY <1>1, SettlementKeepsShape
<1>4. Movement(SettledAgents(f, answer), f, Day(now), LeftDays(f, answer),
               SettledMovesOf(f, answer), SettledSharesOf(f, answer), ReversedSharesOf(f, answer))
  BY <1>1, <1>2, SettlementMoves
<1>5. GlobalSums'
  BY <1>1, <1>4, MovementKeepsTotals
<1>6. \A a \in DOMAIN traderAgent' : AgentSums(a)'
  BY <1>1, <1>4, MovementKeepsSums
<1>7. LedgerNumbers'
  BY <1>1, <1>3, <1>4, MovementKeepsNumbers
<1>8. Standing'
  BY <1>1, SettlementStands
<1>9. Bets' BY <1>1, SettlementKeepsBets DEF Standing
<1>10. SettledTables(f, answer)
  BY <1>2, SettlementTables
<1>11. Counts'
  <2>1. /\ global'.totalTraderAgents = global.totalTraderAgents
        /\ global'.totalActiveTraderAgents = global.totalActiveTraderAgents
    BY <1>1, <1>2, SettlementTotals
  <2>2. DOMAIN traderAgent' = DOMAIN traderAgent
    BY <1>10 DEF SettledTables
  <2>3. ASSUME NEW a \in DOMAIN traderAgent PROVE traderAgent'[a].active = traderAgent[a].active
    <3>1. CASE <<a, f>> \in Touched(f, answer)
      <4>1. PICK delta : delta = SettlementDelta(participant[<<a, f>>], answer)
        OBVIOUS
      <4>2. "active" \notin DOMAIN delta
        BY <4>1 DEF SettlementDelta
      <4>3. traderAgent'[a] = Add(traderAgent[a], delta)
        BY <3>1, <4>1, <1>10 DEF SettledTables
      <4>4. "active" \in DOMAIN traderAgent[a]
        BY <1>1 DEF LedgerRows, LedgerShape, AgentFields
      <4>. QED  BY <4>2, <4>3, <4>4, AddValues
    <3>2. CASE <<a, f>> \notin Touched(f, answer)
      BY <3>2, <1>10 DEF SettledTables
    <3>. QED  BY <3>1, <3>2
  <2>. QED  BY <1>1, <2>1, <2>2, <2>3, CountsKept
<1>12. ASSUME NEW a \in DOMAIN traderAgent' PROVE MetRepetition(a)' \/ DaySums(a)'
  BY <1>10, <1>1, SettlementKeepsDays DEF SettledTables, Books
<1>. QED  BY <1>3, <1>5, <1>6, <1>7, <1>8, <1>9, <1>11, <1>12 DEF Books, LedgerRows

\* A row that is traded in or paid to stands as it stood.
LEMMA ActivityStands ==
    ASSUME Standing, UNCHANGED <<now, market, oracle, fpmm>>,
           NEW k, NEW new, NEW old, old = LoadOr(participant, k, NewParticipant),
           participant' = Put(participant, k, new), new.settled = old.settled,
           new.creditedOn = old.creditedOn, new.expectedPayout = old.expectedPayout,
           \A x \in ShareFields : DayShare(new)[x] = DayShare(old)[x]
    PROVE  Standing'
<1>1. /\ DOMAIN participant' = DOMAIN participant \cup {k} /\ participant'[k] = new
      /\ \A j \in DOMAIN participant \ {k} : participant'[j] = participant[j]
  BY DEF Put
<1>2. \A r : IsFinal(r)' = IsFinal(r)
  BY DEF IsFinal
<1>3. /\ NewParticipant.settled = FALSE /\ NewParticipant.creditedOn = None
      /\ NewParticipant.expectedPayout = 0
      /\ \A x \in ShareFields : DayShare(NewParticipant)[x] = 0
  <2>1. \A x \in ShareFields : DayShare(NewParticipant)[x] = 0
    BY NewFace, FaceValues, Fields
  <2>. QED  BY <2>1 DEF NewParticipant
<1>4. k \in DOMAIN participant => old = participant[k]
  BY DEF LoadOr
<1>5. k \notin DOMAIN participant => old = NewParticipant
  BY DEF LoadOr
<1>. SUFFICES ASSUME NEW j \in DOMAIN participant'
              PROVE  LET p == participant'[j] IN
                     /\ ~p.settled => p.creditedOn = None /\ p.expectedPayout = 0
                                      /\ \A x \in ShareFields : DayShare(p)[x] = 0
                     /\ p.settled =>
                           /\ fpmm[j[2]].currentAnswer # None /\ fpmm[j[2]].answeredAt # None
                           /\ p.creditedOn \in DaysRun
                           /\ \/ fpmm[j[2]].repeated \/ IsFinal(market[j[2]].question)
                              \/ p.creditedOn = Day(fpmm[j[2]].answeredAt)
  BY <1>2 DEF Standing
<1>6. CASE j # k
  BY <1>1, <1>6 DEF Standing
<1>7. CASE j = k /\ k \in DOMAIN participant
  BY <1>1, <1>4, <1>7 DEF Standing
<1>8. CASE j = k /\ k \notin DOMAIN participant
  BY <1>1, <1>3, <1>5, <1>8
<1>. QED  BY <1>6, <1>7, <1>8

\* What counts for an agent and its day alike keeps the books.
LEMMA ActivityKeepsBooks ==
    ASSUME Followed, Books, NEW a, NEW c \in DOMAIN fpmm, NEW delta, NEW new, NEW agent,
           ActivityStep(a, c, delta, new, agent), UNCHANGED <<now, market, oracle, fpmm>>,
           DOMAIN global' = GlobalFields, new.balance \in [Outcomes -> Int],
           agent.active \in BOOLEAN, Bets', Counts'
    PROVE  Books'
<1>1. LedgerRows /\ GlobalSums /\ Standing /\ \A i \in DOMAIN traderAgent : AgentSums(i)
  BY DEF Books
<1>2. LedgerShape' BY <1>1, ActivityKeepsShape DEF Followed
<1>3. /\ LedgerRows' /\ GlobalSums' /\ DOMAIN traderAgent' = DOMAIN traderAgent
      /\ \A i \in DOMAIN traderAgent' : AgentSums(i)'
  BY <1>1, <1>2, ActivityKeepsSums
<1>4. PICK k : k = <<a, c>>
  OBVIOUS
<1>5. participant' = Put(participant, k, new)
  BY <1>4 DEF ActivityStep
<1>6. Standing' BY <1>1, <1>4, ActivityFace, <1>5, ActivityStands
<1>7. ASSUME NEW i \in DOMAIN traderAgent' PROVE MetRepetition(i)' \/ DaySums(i)'
  <2>1. i \in DOMAIN traderAgent
    BY <1>3
  <2>2. CASE MetRepetition(i)
    <3>1. Of(i, participant) \subseteq Of(i, participant')
      BY <1>5 DEF Of, Put
    <3>2. PICK j \in Of(i, participant) : fpmm[j[2]].repeated
      BY <2>2 DEF MetRepetition
    <3>3. MetRepetition(i)'
      BY <3>1, <3>2 DEF MetRepetition
    <3>. QED  BY <3>3
  <2>3. CASE DaySums(i) BY <1>1, <2>1, <2>3, ActivityKeepsDays
  <2>. QED  BY <2>1, <2>2, <2>3 DEF Books
<1>. QED  BY <1>3, <1>6, <1>7 DEF Books

\* A trade makes its agent an active one.
LEMMA TradeCounts ==
    ASSUME LedgerRows, Counts, NEW a \in DOMAIN traderAgent, NEW agent, agent.active = TRUE,
           traderAgent' = Put(traderAgent, a, agent),
           global'.totalTraderAgents = global.totalTraderAgents,
           global'.totalActiveTraderAgents =
               global.totalActiveTraderAgents + IF traderAgent[a].active THEN 0 ELSE 1
    PROVE  Counts'
<1>. DEFINE S == {i \in DOMAIN traderAgent : traderAgent[i].active}
            W == {i \in DOMAIN traderAgent' : traderAgent'[i].active}
<1>1. /\ DOMAIN traderAgent' = DOMAIN traderAgent /\ traderAgent'[a] = agent
      /\ \A i \in DOMAIN traderAgent \ {a} : traderAgent'[i] = traderAgent[i]
  BY DEF Put
<1>2. W = S \cup {a}
  BY <1>1
<1>3. IsFiniteSet(S)
  <2>1. IsFiniteSet(DOMAIN traderAgent) /\ S \subseteq DOMAIN traderAgent
    BY DEF LedgerRows, LedgerShape
  <2>. HIDE DEF S
  <2>. QED  BY <2>1, FS_Subset
<1>4. a \in S <=> traderAgent[a].active
  OBVIOUS
<1>5. global.totalActiveTraderAgents = Cardinality(S)
      /\ global.totalTraderAgents = Cardinality(DOMAIN traderAgent)
  BY DEF Counts
<1>6. global'.totalActiveTraderAgents = Cardinality(W)
  <2>1. Cardinality(S \cup {a}) = IF a \in S THEN Cardinality(S) ELSE Cardinality(S) + 1
    <3>. HIDE DEF S
    <3>. QED  BY ONLY <1>3, FS_AddElement
  <2>2. Cardinality(S) \in Nat
    <3>. HIDE DEF S
    <3>. QED  BY <1>3, FS_CardinalityType
  <2>. HIDE DEF S, W
  <2>. QED  BY <1>2, <1>4, <1>5, <2>1, <2>2
<1>. QED  BY <1>1, <1>5, <1>6 DEF Counts

\* A trade keeps the books.
LEMMA TradeKeepsBooks ==
    ASSUME Followed, Books, NEW a, NEW f, NEW amount \in Int, NEW fee \in Int,
           NEW outcome \in Outcomes, NEW tokens \in Int, NEW price \in Int,
           Trade(a, f, amount, fee, outcome, tokens, price)
    PROVE  Books'
<1>1. LedgerRows /\ Counts /\ Bets
  BY DEF Books
<1>2. PICK old : old = LoadOr(participant, <<a, f>>, NewParticipant)
  OBVIOUS
<1>3. PICK new : new = TradedRow(old, amount, fee, Cardinality(DOMAIN bet), outcome, tokens)
  OBVIOUS
<1>4. /\ ActivityStep(a, f, Traded(amount, fee), new, TradingAgent(a, amount, fee))
      /\ DOMAIN global' = GlobalFields
      /\ global'.totalTraderAgents = global.totalTraderAgents
      /\ global'.totalActiveTraderAgents =
            global.totalActiveTraderAgents + IF traderAgent[a].active THEN 0 ELSE 1
  BY <1>1, <1>2, <1>3, TradeActivity
<1>5. PICK agent : agent = TradingAgent(a, amount, fee)
  OBVIOUS
<1>6. PICK delta : delta = Traded(amount, fee)
  OBVIOUS
<1>7. ActivityStep(a, f, delta, new, agent)
  BY <1>4, <1>5, <1>6
<1>8. a \in DOMAIN traderAgent /\ f \in DOMAIN fpmm /\ UNCHANGED <<now, market, oracle, fpmm>>
  BY DEF Trade, chain, markets
<1>9. agent.active = TRUE
  BY <1>1, <1>8, AddValues, <1>5, <1>6 DEF LedgerRows, LedgerShape, TradingAgent, AgentFields
<1>10. new.balance \in [Outcomes -> Int]
  BY <1>1, <1>2, LoadedFace, TradedValues, <1>3 DEF TradedSays
<1>11. traderAgent' = Put(traderAgent, a, agent)
  BY <1>7 DEF ActivityStep
<1>12. Counts'
  BY <1>1, <1>4, <1>8, <1>9, <1>11, TradeCounts
<1>13. Bets'
  BY <1>1, TradeKeepsBets
<1>. QED  BY <1>4, <1>7, <1>8, <1>9, <1>10, <1>12, <1>13, ActivityKeepsBooks

\* Steps that leave the ledger alone: markets only grow, and stay as they are answered.
Quiet ==
    /\ UNCHANGED <<traderAgent, ledger>>
    /\ \A g \in DOMAIN fpmm :
          /\ g \in DOMAIN fpmm' /\ market'[g].question = market[g].question
          /\ fpmm'[g].currentAnswer = fpmm[g].currentAnswer
          /\ fpmm'[g].answeredAt = fpmm[g].answeredAt
          /\ fpmm'[g].repeated = fpmm[g].repeated
          /\ IsFinal(market[g].question) => IsFinal(market[g].question)'

\* They keep the books.
LEMMA QuietKeepsBooks == ASSUME Books, Quiet PROVE Books'
<1>1. /\ LedgerRows /\ GlobalSums /\ Counts /\ Standing /\ Bets
      /\ \A i \in DOMAIN traderAgent : AgentSums(i) /\ (MetRepetition(i) \/ DaySums(i))
  BY DEF Books
<1>2. /\ traderAgent' = traderAgent /\ participant' = participant /\ daily' = daily
      /\ global' = global /\ bet' = bet
  BY DEF Quiet, ledger
<1>3. \A k \in DOMAIN participant : k[2] \in DOMAIN fpmm
  BY <1>1 DEF LedgerRows, LedgerShape
<1>4. LedgerShape'
  <2>1. DOMAIN participant \subseteq (DOMAIN traderAgent) \X (DOMAIN fpmm')
    BY <1>1 DEF LedgerRows, LedgerShape, Quiet
  <2>. QED  BY <1>1, <1>2, <2>1 DEF LedgerRows, LedgerShape
<1>5. LedgerNumbers'
  BY <1>1, <1>2 DEF LedgerRows, LedgerNumbers
<1>6. GlobalSums' /\ Counts'
  BY <1>1, <1>2 DEF GlobalSums, Counts
<1>7. Standing'
  <2>. SUFFICES ASSUME NEW j \in DOMAIN participant
                PROVE  LET p == participant[j] IN
                       /\ ~p.settled => p.creditedOn = None /\ p.expectedPayout = 0
                                        /\ \A x \in ShareFields : DayShare(p)[x] = 0
                       /\ p.settled =>
                             /\ fpmm'[j[2]].currentAnswer # None /\ fpmm'[j[2]].answeredAt # None
                             /\ p.creditedOn \in DaysRun
                             /\ \/ fpmm'[j[2]].repeated \/ IsFinal(market[j[2]].question)'
                                \/ p.creditedOn = Day(fpmm'[j[2]].answeredAt)
    BY <1>3, <1>2 DEF Quiet, Standing, IsFinal
  <2>1. /\ j[2] \in DOMAIN fpmm /\ fpmm'[j[2]].currentAnswer = fpmm[j[2]].currentAnswer
        /\ fpmm'[j[2]].answeredAt = fpmm[j[2]].answeredAt
        /\ fpmm'[j[2]].repeated = fpmm[j[2]].repeated
        /\ IsFinal(market[j[2]].question) => IsFinal(market[j[2]].question)'
    BY <1>3 DEF Quiet
  <2>. QED  BY <1>1, <2>1 DEF Standing
<1>8. Bets' BY <1>1, <1>2, UntouchedBets DEF Quiet
<1>9. ASSUME NEW i \in DOMAIN traderAgent PROVE AgentSums(i)' BY <1>1, <1>2 DEF AgentSums, Faces
<1>10. ASSUME NEW i \in DOMAIN traderAgent PROVE MetRepetition(i)' \/ DaySums(i)'
  <2>1. CASE MetRepetition(i)
    <3>1. PICK j \in Of(i, participant) : fpmm[j[2]].repeated
      BY <2>1 DEF MetRepetition
    <3>2. j[2] \in DOMAIN fpmm
      BY <1>3, <3>1 DEF Of
    <3>3. MetRepetition(i)'
      BY <1>2, <3>1, <3>2 DEF MetRepetition, Quiet
    <3>. QED  BY <3>3
  <2>2. CASE DaySums(i) BY <1>2, <2>2 DEF DaySums, SettledIn, Credits, ListedOn
  <2>. QED  BY <1>1, <2>1, <2>2
<1>. QED  BY <1>2, <1>4, <1>5, <1>6, <1>7, <1>8, <1>9, <1>10 DEF Books, LedgerRows

\* A claim keeps the books.
LEMMA ClaimKeepsBooks ==
    ASSUME Followed, Books, NEW a, NEW q, NEW payout \in Int, handlePayoutRedemption(a, q, payout)
    PROVE  Books'
<1>1. LedgerRows /\ Counts /\ Bets
  BY DEF Books
<1>2. PICK f : f = (IF q \in condition THEN LinkedMarket(q) ELSE None)
  OBVIOUS
<1>3. PICK k : k = <<a, f>>
  OBVIOUS
<1>4. PICK paid : paid = [totalPayout |-> payout]
  OBVIOUS
<1>5. UNCHANGED <<chain, markets, bet>>
  BY DEF handlePayoutRedemption
<1>6. UNCHANGED <<now, market, oracle, fpmm>>
  BY <1>5 DEF chain, markets
<1>7. CASE k \notin DOMAIN participant
  BY <1>2, <1>3, <1>5, <1>7, <1>6, QuietKeepsBooks DEF handlePayoutRedemption, ledger, Quiet,
      IsFinal
<1>8. CASE k \in DOMAIN participant
  <2>1. PICK new : new = Add(participant[k], paid)
    OBVIOUS
  <2>2. PICK agent : agent = Add(traderAgent[a], paid)
    OBVIOUS
  <2>3. /\ ActivityStep(a, f, paid, new, agent)
        /\ participant' = Put(participant, k, new) /\ traderAgent' = Put(traderAgent, a, agent)
        /\ DOMAIN global' = GlobalFields
        /\ global'.totalTraderAgents = global.totalTraderAgents
        /\ global'.totalActiveTraderAgents = global.totalActiveTraderAgents
    BY <1>1, <1>2, <1>3, <1>4, <1>8, <2>1, <2>2, RedemptionActivity
  <2>4. f \in DOMAIN fpmm /\ a \in DOMAIN traderAgent
    BY <1>1, <1>3, <1>8 DEF LedgerRows, LedgerShape
  <2>5. /\ DOMAIN participant[k] = ParticipantFields /\ DOMAIN traderAgent[a] = AgentFields
        /\ participant[k].balance \in [Outcomes -> Int] /\ traderAgent[a].active \in BOOLEAN
    BY <1>1, <1>8, <2>4 DEF LedgerRows, LedgerShape
  <2>6. DOMAIN paid = {"totalPayout"}
    BY <1>4
  <2>7. \A x \in ParticipantFields \ {"totalPayout"} : new[x] = participant[k][x]
    BY <2>1, <2>5, <2>6, AddValues
  <2>8. agent.active = traderAgent[a].active BY <2>2, <2>5, <2>6, AddValues DEF AgentFields
  <2>9. new.balance \in [Outcomes -> Int] /\ agent.active \in BOOLEAN
    BY <2>5, <2>7, <2>8 DEF ParticipantFields
  <2>10. /\ DOMAIN traderAgent' = DOMAIN traderAgent /\ traderAgent'[a] = agent
         /\ \A i \in DOMAIN traderAgent \ {a} : traderAgent'[i] = traderAgent[i]
    BY <2>3, <2>4 DEF Put
  <2>11. /\ DOMAIN participant' = DOMAIN participant /\ participant'[k] = new
         /\ \A i \in DOMAIN participant \ {k} : participant'[i] = participant[i]
    BY <2>3, <1>8 DEF Put
  <2>12. Counts' BY <2>8, <2>10, <1>1, <2>3, CountsKept
  <2>13. Bets' BY <2>7, <2>11, <1>1, <1>5, <1>6, UntouchedBets DEF BetsFields, ParticipantFields
  <2>. QED  BY <1>6, <2>3, <2>4, <2>9, <2>12, <2>13, ActivityKeepsBooks
<1>. QED  BY <1>7, <1>8

\* An agent that has done nothing adds up to nothing.
LEMMA NewAgentSums ==
    ASSUME LedgerRows, NEW a, a \notin DOMAIN traderAgent, NEW agent,
           \A x \in AgentCounters : agent[x] = 0,
           traderAgent' = Put(traderAgent, a, agent), UNCHANGED <<participant, daily>>
    PROVE  AgentSums(a)' /\ DaySums(a)'
<1>1. traderAgent'[a] = agent
  BY DEF Put
<1>2. /\ \A k \in DOMAIN participant : k[1] # a
      /\ \A k \in DOMAIN daily : k[1] # a
  BY DEF LedgerRows, LedgerShape
<1>3. ASSUME NEW x PROVE GroupSum(Column(Faces, x), a) = 0 BY <1>2, GroupEmpty DEF Column, Faces
<1>4. ASSUME NEW x PROVE GroupSum(Column(daily, x), a) = 0 BY <1>2, GroupEmpty DEF Column
<1>5. ASSUME NEW d, NEW x PROVE GroupSum(Credits(d, x), a) = 0 BY <1>2, GroupEmpty DEF Credits
<1>6. AgentSums(a)'
  BY <1>1, <1>3, <1>4 DEF AgentSums, Faces
<1>7. DaySums(a)'
  <2>1. ASSUME NEW d PROVE <<a, d>> \notin DOMAIN daily /\ SettledIn(a, d) = {}
    BY <1>2 DEF SettledIn
  <2>2. ASSUME NEW d \in DaysRun
        PROVE  /\ ListedOn(<<a, d>>) = SettledIn(a, d)
               /\ \A x \in ShareFields : Entry(daily, <<a, d>>, x) = GroupSum(Credits(d, x), a)
    BY <1>5, <2>1 DEF ListedOn, Entry
  <2>. QED  BY <2>2 DEF DaySums, SettledIn, Credits, ListedOn
<1>. QED  BY <1>6, <1>7

\* A Safe that becomes an agent keeps the books.
LEMMA NewAgentKeepsBooks ==
    ASSUME Books, NEW s \in Services, NEW safe, safe \notin DOMAIN traderAgent,
           MultisigDeployed(s, safe), UNCHANGED <<market, oracle, now, fpmm, bet, participant, daily>>
    PROVE  Books'
<1>1. /\ LedgerRows /\ GlobalSums /\ Counts /\ Standing /\ Bets
      /\ \A i \in DOMAIN traderAgent : AgentSums(i) /\ (MetRepetition(i) \/ DaySums(i))
  BY DEF Books
<1>2. PICK agent : agent = NewAgent(s)
  OBVIOUS
<1>3. /\ DOMAIN agent = AgentFields /\ agent.serviceId \in Services /\ agent.active = FALSE
      /\ \A x \in AgentCounters : agent[x] = 0
  BY <1>2 DEF NewAgent, AgentFields, AgentCounters, Activity
<1>4. /\ traderAgent' = Put(traderAgent, safe, agent)
      /\ global' = Add(global, [totalTraderAgents |-> 1])
  BY <1>2 DEF MultisigDeployed
<1>5. /\ DOMAIN traderAgent' = DOMAIN traderAgent \cup {safe} /\ traderAgent'[safe] = agent
      /\ \A i \in DOMAIN traderAgent : traderAgent'[i] = traderAgent[i]
  BY <1>4 DEF Put
<1>6. /\ DOMAIN global' = GlobalFields
      /\ global'.totalTraderAgents = global.totalTraderAgents + 1
      /\ global'.totalActiveTraderAgents = global.totalActiveTraderAgents
      /\ \A x \in AgentCounters : global'[x] = global[x]
  BY <1>1, <1>4, AddValues DEF LedgerRows, LedgerShape, GlobalFields, AgentCounters, Activity
<1>7. IsFiniteSet(DOMAIN traderAgent) /\ IsFiniteSet(DOMAIN traderAgent')
      /\ Cardinality(DOMAIN traderAgent') = Cardinality(DOMAIN traderAgent) + 1
  BY <1>1, <1>5, FS_AddElement DEF LedgerRows, LedgerShape
<1>8. LedgerShape'
  <2>1. DOMAIN participant \subseteq (DOMAIN traderAgent') \X (DOMAIN fpmm)
    BY <1>1, <1>5 DEF LedgerRows, LedgerShape
  <2>2. DOMAIN daily \subseteq (DOMAIN traderAgent') \X DaysRun
    BY <1>1, <1>5 DEF LedgerRows, LedgerShape
  <2>3. \A i \in DOMAIN traderAgent' :
           /\ DOMAIN traderAgent'[i] = AgentFields /\ traderAgent'[i].serviceId \in Services
           /\ traderAgent'[i].active \in BOOLEAN
    BY <1>1, <1>3, <1>5 DEF LedgerRows, LedgerShape
  <2>. QED  BY <1>1, <1>6, <1>7, <2>1, <2>2, <2>3 DEF LedgerRows, LedgerShape
<1>9. LedgerNumbers'
  BY <1>1, <1>3, <1>5 DEF LedgerRows, LedgerNumbers
<1>10. GlobalSums'
  <2>. SUFFICES ASSUME NEW x \in AgentCounters
                PROVE  global'[x] = SumFunction(Column(traderAgent', x))
    BY DEF GlobalSums
  <2>. DEFINE v == Column(traderAgent, x)  w == Column(traderAgent', x)
  <2>1. /\ IsFiniteSet(DOMAIN v) /\ DOMAIN w = DOMAIN v \cup {safe} /\ w[safe] \in Int
        /\ \A i \in DOMAIN v : v[i] \in Int
        /\ \A i \in DOMAIN v \ {safe} : w[i] = v[i]
    BY <1>1, <1>3, <1>5, <1>7 DEF Column, LedgerRows, LedgerNumbers
  <2>2. safe \notin DOMAIN v /\ w[safe] = 0
    BY <1>3, <1>5 DEF Column
  <2>3. global[x] = SumFunction(v)
    BY <1>1 DEF GlobalSums
  <2>. HIDE DEF v, w
  <2>4. /\ SumFunction(w) = SumFunction(v) + w[safe] - (IF safe \in DOMAIN v THEN v[safe] ELSE 0)
        /\ SumFunction(v) \in Int
    BY ONLY <2>1, SumPut
  <2>5. SumFunction(w) = SumFunction(v)
    BY <2>2, <2>4
  <2>. QED  BY <1>6, <2>3, <2>5 DEF w
<1>11. Counts' BY <1>3, <1>5, <1>1, <1>6, <1>7 DEF Counts
<1>12. Standing'
  BY <1>1 DEF Standing, IsFinal
<1>13. Bets'
  BY <1>1, UntouchedBets
<1>14. ASSUME NEW i \in DOMAIN traderAgent'
       PROVE  AgentSums(i)' /\ (MetRepetition(i)' \/ DaySums(i)')
  <2>1. CASE i = safe BY <1>1, <1>3, <1>4, NewAgentSums, <2>1
  <2>2. CASE i \in DOMAIN traderAgent
    <3>1. AgentSums(i)
      BY <1>1, <2>2
    <3>2. AgentSums(i)'
      BY <1>5, <2>2, <3>1 DEF AgentSums, Faces
    <3>3. CASE MetRepetition(i) BY <3>3, <3>2 DEF MetRepetition
    <3>4. CASE DaySums(i) BY <3>4, <3>2 DEF DaySums, SettledIn, Credits, ListedOn
    <3>. QED  BY <1>1, <2>2, <3>3, <3>4
  <2>. QED  BY <1>5, <2>1, <2>2
<1>. QED  BY <1>8, <1>9, <1>10, <1>11, <1>12, <1>13, <1>14 DEF Books, LedgerRows

-----------------------------------------------------------------------------
(* The chain and the ledger, handler by handler. *)

\* Where the chain and the markets stay, the rest of what follows them is well typed.
LEMMA FollowedKept ==
    ASSUME Followed, UNCHANGED <<asked, prepared, market, oracle, markets>>, now' \in Times,
           traderService' \subseteq Services, DOMAIN traderAgent' \subseteq Safes,
           redemptions' \in 0 .. MaxRedemptions
    PROVE  Followed'
BY DEF Followed, markets

\* A question that is asked has no market.
LEMMA AskedKeeps ==
    ASSUME LedgerInv, NEW q \in Questions, NEW byCreator \in BOOLEAN,
           handleLogNewQuestion(q, byCreator)
    PROVE  LedgerInv'
<1>1. /\ q \notin asked /\ asked' = asked \cup {q}
      /\ question' = IF byCreator THEN Put(question, q, [market |-> None]) ELSE question
      /\ UNCHANGED <<now, prepared, market, oracle, agents, condition, fpmm, totalQuestions,
                     ledger, redemptions>>
  BY DEF handleLogNewQuestion
<1>2. traderService' = traderService /\ traderAgent' = traderAgent
  BY <1>1 DEF agents
<1>3. /\ DOMAIN question' \subseteq DOMAIN question \cup {q}
      /\ DOMAIN question \subseteq DOMAIN question'
      /\ \A r \in DOMAIN question \ {q} : question'[r] = question[r]
      /\ q \in DOMAIN question' /\ question'[q] # question[q] => question'[q] = [market |-> None]
      /\ q \in DOMAIN question' /\ q \notin DOMAIN question => question'[q] = [market |-> None]
  BY <1>1 DEF Put
<1>4. [market |-> None].market = None /\ [market |-> None] \in [market : Markets \cup {None}]
  OBVIOUS
<1>5. PartialFn(question', Questions, [market : Markets \cup {None}])
  BY <1>1, <1>4, PutPartialFn DEF Followed, LedgerInv
<1>6. \A r \in DOMAIN question' : question'[r].market # None =>
          question'[r].market \in DOMAIN fpmm /\ market[question'[r].market].question = r
  BY <1>3, <1>4 DEF LedgerInv, Followed
<1>7. Followed'
  BY <1>1, <1>2, <1>3, <1>5, <1>6 DEF LedgerInv, Followed
<1>8. Quiet
  BY <1>1, <1>2 DEF Quiet, IsFinal
<1>. QED  BY <1>7, <1>8, QuietKeepsBooks DEF LedgerInv

\* A condition that is prepared changes no row.
LEMMA PreparedKeeps ==
    ASSUME LedgerInv, NEW q \in Questions, handleConditionPreparation(q)
    PROVE  LedgerInv'
BY QuietKeepsBooks DEF handleConditionPreparation, agents, ConditionsWith, LedgerInv, Followed,
    Quiet, IsFinal

\* A market that is made is another one, of its question.
LEMMA MadeKeeps ==
    ASSUME LedgerInv, NEW m \in Markets, NEW q \in Questions, NEW listed \in BOOLEAN,
           handleFixedProductMarketMakerCreation(m, q, listed)
    PROVE  LedgerInv'
<1>. DEFINE row == [currentAnswer |-> None, answeredAt |-> None, finalizedAt |-> None,
                    createdAt |-> now, repeated |-> FALSE]
<1>1. /\ m \notin DOMAIN market /\ q \in prepared
      /\ market' = Put(market, m, [question |-> q, listed |-> listed])
      /\ UNCHANGED <<now, asked, prepared, oracle, agents, condition, ledger, redemptions>>
  BY DEF handleFixedProductMarketMakerCreation
<1>2. /\ fpmm' = IF listed THEN Put(fpmm, m, row) ELSE fpmm
      /\ question' = IF listed /\ q \in condition THEN [question EXCEPT ![q].market = m]
                     ELSE question
      /\ totalQuestions' = IF listed THEN totalQuestions + 1 ELSE totalQuestions
  BY DEF handleFixedProductMarketMakerCreation
<1>3. m \notin DOMAIN fpmm /\ m # None /\ now \in Times
  BY <1>1, OmenSorts DEF LedgerInv, Followed
<1>4. /\ DOMAIN market' = DOMAIN market \cup {m} /\ market'[m].question = q
      /\ \A g \in DOMAIN market : market'[g] = market[g]
  BY <1>1 DEF Put
<1>5. /\ DOMAIN fpmm' = IF listed THEN DOMAIN fpmm \cup {m} ELSE DOMAIN fpmm
      /\ listed => fpmm'[m] = row
      /\ \A g \in DOMAIN fpmm : fpmm'[g] = fpmm[g]
  BY <1>2, <1>3 DEF Put
<1>6. row \in MarketRows
  BY <1>3 DEF MarketRows
<1>. HIDE DEF row
<1>7. PartialFn(market', Markets, [question : Questions, listed : BOOLEAN])
  BY <1>1, PutPartialFn DEF LedgerInv, Followed
<1>8. PartialFn(fpmm', Markets, MarketRows)
  BY <1>2, <1>6, PutPartialFn DEF LedgerInv, Followed
<1>9. /\ DOMAIN question' = DOMAIN question
      /\ \A r \in DOMAIN question \ {q} : question'[r] = question[r]
      /\ listed /\ q \in condition =>
            q \in DOMAIN question /\ question'[q] = [question[q] EXCEPT !.market = m]
      /\ ~(listed /\ q \in condition) => question' = question
  BY <1>2 DEF LedgerInv, Followed
<1>10. /\ PartialFn(question', Questions, [market : Markets \cup {None}])
       /\ listed /\ q \in condition => question'[q].market = m
  <2>1. PartialFn(question, Questions, [market : Markets \cup {None}])
    BY DEF LedgerInv, Followed
  <2>2. question' = [r \in DOMAIN question' |-> question'[r]]
    BY <1>2, <2>1 DEF PartialFn
  <2>3. ASSUME NEW r \in DOMAIN question' PROVE question'[r] \in [market : Markets \cup {None}]
    BY <1>9, <2>1 DEF PartialFn
  <2>4. listed /\ q \in condition => question'[q].market = m BY <1>9, <2>1 DEF PartialFn
  <2>. QED  BY <1>9, <2>1, <2>2, <2>3, <2>4 DEF PartialFn
<1>11. \A r \in DOMAIN question' : question'[r].market # None =>
          question'[r].market \in DOMAIN fpmm' /\ market'[question'[r].market].question = r
  <2>. SUFFICES ASSUME NEW r \in DOMAIN question', question'[r].market # None
                PROVE  question'[r].market \in DOMAIN fpmm'
                       /\ market'[question'[r].market].question = r
    OBVIOUS
  <2>1. CASE r = q /\ listed /\ q \in condition
    BY <2>1, <1>4, <1>5, <1>10
  <2>2. CASE ~(r = q /\ listed /\ q \in condition)
    BY <2>2, <1>9, <1>4, <1>5 DEF LedgerInv, Followed
  <2>. QED  BY <2>1, <2>2
<1>12. IsFiniteSet(DOMAIN fpmm') /\ totalQuestions' = Cardinality(DOMAIN fpmm')
  BY <1>3, FS_AddElement, <1>2, <1>5 DEF LedgerInv, Followed
<1>13. traderService' = traderService /\ traderAgent' = traderAgent
  BY <1>1 DEF agents
<1>14. DOMAIN fpmm' \subseteq DOMAIN market'
  BY <1>4, <1>5 DEF LedgerInv, Followed
<1>15. Followed'
  BY <1>1, <1>7, <1>8, <1>9, <1>10, <1>11, <1>12, <1>13, <1>14 DEF LedgerInv, Followed
<1>16. Quiet BY <1>4, <1>5, <1>1, <1>13 DEF LedgerInv, Followed, Quiet, IsFinal
<1>. QED  BY <1>15, <1>16, QuietKeepsBooks DEF LedgerInv

\* The link of a question is its market or nothing.
LEMMA LinkFollows ==
    ASSUME Followed, NEW q, LinkedMarket(q) # None
    PROVE  /\ LinkedMarket(q) \in DOMAIN fpmm /\ market[LinkedMarket(q)].question = q
           /\ LinkedMarket(q) \in Markets /\ LinkedMarket(q) # None
BY DEF Followed, LinkedMarket, PartialFn

\* An answer settles the linked market, or reaches none.
LEMMA AnswerKeeps ==
    ASSUME LedgerInv, NEW q \in Questions, NEW answer \in Answers, NEW at \in Nat,
           ~IsFinal(q), at >= now,
           oracle' = [oracle EXCEPT ![q] = [best |-> answer, at |-> now, finalAt |-> at,
                                            pending |-> FALSE, committed |-> FALSE]],
           RecordAnswer(q, answer, at), OnlyAnswer
    PROVE  LedgerInv'
<1>. DEFINE m == LinkedMarket(q)
            row == [fpmm[m] EXCEPT !.currentAnswer = answer, !.answeredAt = now,
                       !.finalizedAt = at,
                       !.repeated = @ \/ (at > now /\ fpmm[m].currentAnswer = answer)]
<1>1. /\ UNCHANGED <<now, asked, prepared, market, traderService, question, condition,
                     totalQuestions, redemptions>>
      /\ now \in Times /\ now \in Nat /\ Followed /\ Books
  BY OmenTime DEF OnlyAnswer, LedgerInv, Followed, Times
<1>2. at # None /\ now # None
  BY <1>1, OmenTime
<1>3. /\ oracle' \in [Questions -> OracleRows]
      /\ oracle'[q] = [best |-> answer, at |-> now, finalAt |-> at, pending |-> FALSE,
                       committed |-> FALSE]
      /\ \A r \in Questions \ {q} : oracle'[r] = oracle[r]
  BY <1>1 DEF OracleRows, Followed
<1>4. \A r \in Questions \ {q} : IsFinal(r) => IsFinal(r)'
  BY <1>1, <1>3 DEF IsFinal
<1>5. at > now \/ IsFinal(q)'
  BY <1>1, <1>2, <1>3 DEF IsFinal
<1>6. CASE m = None
  <2>1. UNCHANGED <<traderAgent, fpmm, ledger>>
    BY <1>6 DEF RecordAnswer
  <2>2. Followed'
    BY <1>1, <1>3, <2>1 DEF Followed
  <2>3. Quiet BY <1>1, <1>4, <2>1 DEF Followed, PartialFn, Quiet
  <2>. QED  BY <1>1, <2>2, <2>3, QuietKeepsBooks DEF LedgerInv
<1>7. CASE m # None
  <2>1. /\ m \in DOMAIN fpmm /\ market[m].question = q /\ fpmm[m] \in MarketRows
    BY <1>1, <1>7, LinkFollows DEF Followed, PartialFn
  <2>2. /\ fpmm' = [fpmm EXCEPT ![m].currentAnswer = answer, ![m].answeredAt = now,
                       ![m].finalizedAt = at,
                       ![m].repeated = @ \/ (at > now /\ fpmm[m].currentAnswer = answer)]
        /\ SettleMarket(m, answer)
    BY <1>7 DEF RecordAnswer
  <2>. HIDE DEF m
  <2>3. /\ DOMAIN fpmm' = DOMAIN fpmm /\ fpmm'[m] = row
        /\ \A g \in DOMAIN fpmm \ {m} : fpmm'[g] = fpmm[g]
    BY <2>1, <2>2
  <2>4. /\ row \in MarketRows /\ row.currentAnswer = answer /\ row.answeredAt = now
        /\ fpmm[m].repeated => row.repeated
        /\ at > now /\ fpmm[m].currentAnswer = answer => row.repeated
    BY <1>1, <2>1 DEF MarketRows
  <2>. HIDE DEF row
  <2>5. MarketAnswered(m, answer, at)
    BY <2>3, <2>4 DEF MarketAnswered
  <2>6. Answered(q, m, answer, at)
    BY <1>1, <1>4, <1>5, <2>1, <2>2, <2>5 DEF Answered
  <2>7. Books'
    BY <1>1, <2>6, AnsweredKeepsBooks
  <2>8. DOMAIN traderAgent' = DOMAIN traderAgent
    BY <2>2, SettlementTables DEF SettledTables
  <2>9. PartialFn(fpmm', Markets, MarketRows)
    <3>1. PartialFn(fpmm, Markets, MarketRows)
      BY <1>1 DEF Followed
    <3>2. fpmm' = [g \in DOMAIN fpmm' |-> fpmm'[g]]
      BY <2>2, <3>1 DEF PartialFn
    <3>. QED  BY <2>3, <2>4, <3>1, <3>2 DEF PartialFn
  <2>10. Followed'
    BY <1>1, <1>3, <2>3, <2>8, <2>9 DEF Followed
  <2>. QED  BY <2>7, <2>10 DEF LedgerInv
<1>. QED  BY <1>6, <1>7

\* An arbitration that is asked for suspends the market.
LEMMA RequestKeeps ==
    ASSUME LedgerInv, NEW q \in Questions, handleLogNotifyOfArbitrationRequest(q)
    PROVE  LedgerInv'
<1>. DEFINE m == LinkedMarket(q)
<1>1. /\ UNCHANGED <<now, asked, prepared, market, traderService, traderAgent, question,
                     condition, totalQuestions, redemptions, ledger>>
      /\ ~IsFinal(q) /\ oracle' = [oracle EXCEPT ![q].pending = TRUE]
      /\ Followed /\ Books
  BY DEF OnlyAnswer, LedgerInv, handleLogNotifyOfArbitrationRequest, Open
<1>2. /\ oracle' \in [Questions -> OracleRows]
      /\ \A r \in Questions \ {q} : oracle'[r] = oracle[r]
  <2>1. oracle \in [Questions -> OracleRows]
    BY <1>1 DEF Followed
  <2>2. [oracle[q] EXCEPT !.pending = TRUE] \in OracleRows
    BY <2>1 DEF OracleRows
  <2>. QED  BY <1>1, <2>1, <2>2
<1>3. ASSUME NEW r \in Questions, IsFinal(r) PROVE IsFinal(r)'
  BY <1>1, <1>2, <1>3 DEF IsFinal
<1>4. fpmm' = IF m = None THEN fpmm ELSE [fpmm EXCEPT ![m].finalizedAt = None]
  BY DEF handleLogNotifyOfArbitrationRequest
<1>5. m # None => m \in DOMAIN fpmm
  BY <1>1, LinkFollows
<1>. HIDE DEF m
<1>6. PartialFn(fpmm, Markets, MarketRows)
  BY <1>1 DEF Followed
<1>7. /\ DOMAIN fpmm' = DOMAIN fpmm
      /\ \A g \in DOMAIN fpmm : \/ fpmm'[g] = fpmm[g]
                                \/ fpmm'[g] = [fpmm[g] EXCEPT !.finalizedAt = None]
  BY <1>4, <1>5
<1>8. \A g \in DOMAIN fpmm : /\ fpmm'[g] \in MarketRows
                             /\ fpmm'[g].currentAnswer = fpmm[g].currentAnswer
                             /\ fpmm'[g].answeredAt = fpmm[g].answeredAt
                             /\ fpmm'[g].repeated = fpmm[g].repeated
  BY <1>6, <1>7 DEF MarketRows, PartialFn
<1>9. fpmm' = [g \in DOMAIN fpmm' |-> fpmm'[g]]
  BY <1>4, <1>6 DEF PartialFn
<1>10. PartialFn(fpmm', Markets, MarketRows)
  BY <1>6, <1>7, <1>8, <1>9 DEF PartialFn
<1>11. Followed'
  BY <1>1, <1>2, <1>7, <1>10 DEF Followed
<1>12. Quiet BY <1>1, <1>3, <1>7, <1>8 DEF Followed, PartialFn, Quiet
<1>. QED  BY <1>1, <1>11, <1>12, QuietKeepsBooks DEF LedgerInv

\* A commitment, and what is revealed, reach no market.
LEMMA UnheardKeeps ==
    ASSUME LedgerInv, NEW q \in Questions,
           CommitAnswer(q) \/ \E x \in Answers : RevealAnswer(q, x)
    PROVE  LedgerInv'
<1>1. /\ UNCHANGED <<now, asked, prepared, market, traderService, traderAgent, question, fpmm,
                     condition, totalQuestions, redemptions, ledger>>
      /\ ~IsFinal(q) /\ Followed /\ Books
  BY DEF OnlyAnswer, LedgerInv, CommitAnswer, RevealAnswer, Open
<1>2. oracle \in [Questions -> OracleRows] /\ now \in Times /\ now + Timeout \in Nat
  BY <1>1, OmenTime DEF Followed, Times
<1>3. /\ oracle' \in [Questions -> OracleRows]
      /\ \A r \in Questions \ {q} : oracle'[r] = oracle[r]
  <2>1. CASE CommitAnswer(q) BY <2>1, <1>2 DEF CommitAnswer, OracleRows
  <2>2. ASSUME NEW x \in Answers, RevealAnswer(q, x)
        PROVE  /\ oracle' \in [Questions -> OracleRows]
               /\ \A r \in Questions \ {q} : oracle'[r] = oracle[r]
    BY <1>2, <2>2 DEF RevealAnswer, OracleRows
  <2>. QED  BY <2>1, <2>2
<1>4. ASSUME NEW r \in Questions, IsFinal(r) PROVE IsFinal(r)'
  BY <1>1, <1>3, <1>4 DEF IsFinal
<1>5. Followed'
  BY <1>1, <1>3 DEF Followed
<1>6. Quiet BY <1>1, <1>4 DEF Followed, PartialFn, Quiet
<1>. QED  BY <1>1, <1>5, <1>6, QuietKeepsBooks DEF LedgerInv

\* A price is an integer.
LEMMA PriceIsInteger ==
    ASSUME NEW amount \in Nat, NEW tokens \in Nat
    PROVE  computeImpliedProbability(amount, tokens) \in Int
<1>1. CASE tokens = 0
  BY <1>1 DEF computeImpliedProbability
<1>2. CASE tokens # 0 BY OmenTrades, <1>2 DEF computeImpliedProbability
<1>. QED  BY <1>1, <1>2

\* A trade.
LEMMA TradeKeepsLedger ==
    ASSUME LedgerInv, NEW a, NEW f, NEW amount \in Int, NEW fee \in Int,
           NEW outcome \in Outcomes, NEW tokens \in Int, NEW price \in Int,
           Trade(a, f, amount, fee, outcome, tokens, price)
    PROVE  LedgerInv'
BY FollowedKept, TradeKeepsBooks DEF Trade, chain, LedgerInv, processTradeActivity, Followed

\* A claim.
LEMMA ClaimKeepsLedger ==
    ASSUME LedgerInv, NEW a, NEW q, NEW payout \in Int, handlePayoutRedemption(a, q, payout)
    PROVE  LedgerInv'
BY OmenTrades, FollowedKept, ClaimKeepsBooks DEF handlePayoutRedemption, chain, LedgerInv, Followed

\* A service that is registered.
LEMMA RegisterKeepsLedger ==
    ASSUME LedgerInv, NEW s \in Services, handleRegisterInstance(s) PROVE LedgerInv'
BY FollowedKept, QuietKeepsBooks DEF handleRegisterInstance, chain, markets, LedgerInv, Followed,
    Quiet, IsFinal

\* A Safe that is deployed for one, anew or again.
LEMMA DeployedKeepsLedger ==
    ASSUME LedgerInv, NEW s \in Services, NEW safe \in Safes,
           handleCreateMultisigWithAgents(s, safe)
    PROVE  LedgerInv'
<1>1. /\ UNCHANGED <<now, asked, prepared, market, oracle, markets, redemptions, traderService>>
      /\ UNCHANGED <<fpmm, bet, participant, daily>> /\ MultisigDeployed(s, safe)
      /\ Followed /\ Books
  BY DEF handleCreateMultisigWithAgents, chain, markets, LedgerInv
<1>2. DOMAIN traderAgent' \subseteq Safes
  BY <1>1 DEF MultisigDeployed, Put, Followed
<1>3. Followed'
  BY <1>1, <1>2, FollowedKept DEF Followed
<1>4. CASE safe \in DOMAIN traderAgent
  BY <1>1, <1>4, <1>3, QuietKeepsBooks DEF MultisigDeployed, ledger, Quiet, IsFinal, LedgerInv
<1>5. CASE safe \notin DOMAIN traderAgent BY <1>1, <1>5, NewAgentKeepsBooks, <1>3 DEF LedgerInv
<1>. QED  BY <1>4, <1>5

\* Time passes.
LEMMA TickKeepsLedger == ASSUME LedgerInv, Tick \/ UNCHANGED vars PROVE LedgerInv'
<1>1. /\ UNCHANGED <<asked, prepared, market, oracle, markets, traderService, redemptions>>
      /\ UNCHANGED <<fpmm, traderAgent, ledger>> /\ Followed /\ Books
  BY DEF Tick, vars, chain, agents, markets, LedgerInv
<1>2. now \in Times /\ now' \in Times /\ now <= now' /\ now \in Nat /\ now' \in Nat
  BY <1>1, OmenTime DEF Tick, vars, chain, Followed, Times
<1>3. Followed'
  BY <1>1, <1>2, FollowedKept DEF Followed
<1>4. Quiet
  <2>1. ASSUME NEW r \in Questions, IsFinal(r) PROVE IsFinal(r)'
    BY <1>1, <1>2, <2>1 DEF Followed, OracleRows, IsFinal
  <2>2. \A g \in DOMAIN fpmm : market[g].question \in Questions
    BY <1>1 DEF Followed, PartialFn
  <2>. QED  BY <1>1, <2>1, <2>2 DEF Quiet
<1>. QED  BY <1>1, <1>3, <1>4, QuietKeepsBooks DEF LedgerInv

\* Nothing is counted before the first event.
LEMMA LedgerInit == ASSUME Init PROVE LedgerInv
<1>1. /\ DOMAIN traderAgent = {} /\ DOMAIN participant = {} /\ DOMAIN daily = {}
      /\ DOMAIN bet = {} /\ global = NewGlobal /\ DOMAIN fpmm = {} /\ DOMAIN question = {}
  BY DEF Init, NoRows
<1>2. /\ IsFiniteSet({}) /\ Cardinality({}) = 0
  BY FS_EmptySet
<1>3. Followed
  BY OmenTime, OmenTrades, <1>1, <1>2, NoRowsPartialFn DEF Init, Times, OracleRows, Followed
<1>4. DOMAIN global = GlobalFields /\ \A x \in GlobalFields : global[x] = 0
  BY <1>1 DEF NewGlobal, GlobalFields, AgentCounters, Activity
<1>5. LedgerRows
  BY <1>1, <1>2, <1>4 DEF LedgerRows, LedgerShape, LedgerNumbers
<1>6. GlobalSums
  <2>1. ASSUME NEW x PROVE SumFunction(Column(traderAgent, x)) = 0 BY <1>1, SumOfNone DEF Column
  <2>2. AgentCounters \subseteq GlobalFields
    BY DEF GlobalFields
  <2>. QED  BY <1>4, <2>1, <2>2 DEF GlobalSums
<1>7. Counts BY <1>1, <1>2, <1>4 DEF Counts, GlobalFields
<1>8. Standing
  BY <1>1 DEF Standing
<1>9. Bets BY <1>1, <1>2 DEF Bets, BetRows
<1>. QED  BY <1>1, <1>3, <1>5, <1>6, <1>7, <1>8, <1>9 DEF LedgerInv, Books

\* Every handler keeps the ledger.
LEMMA LedgerKept == ASSUME LedgerInv, [Next]_vars PROVE LedgerInv'
<1>1. ASSUME NEW q \in Questions, NEW x \in Answers, handleLogNewAnswer(q, x) PROVE LedgerInv'
  <2>1. now + Timeout \in Nat /\ now + Timeout >= now /\ ~IsFinal(q)
    BY <1>1, OmenTime DEF LedgerInv, Followed, Times, handleLogNewAnswer, Open
  <2>. QED  BY <1>1, <2>1, AnswerKeeps DEF handleLogNewAnswer, FinalAt
<1>2. ASSUME NEW q \in Questions, NEW x \in Answers, handleLogFinalize(q, x) PROVE LedgerInv'
  <2>1. now \in Nat /\ now >= now /\ ~IsFinal(q)
    BY <1>2, OmenTime DEF LedgerInv, Followed, Times, handleLogFinalize, IsFinal
  <2>. QED  BY <1>2, <2>1, AnswerKeeps DEF handleLogFinalize, FinalAtArbitration
<1>3. ASSUME NEW q \in Questions, NEW x \in Answers, RevealAnswer(q, x) PROVE LedgerInv'
  BY <1>3, UnheardKeeps
<1>4. ASSUME NEW q \in Questions, CommitAnswer(q) PROVE LedgerInv'
  BY <1>4, UnheardKeeps
<1>5. ASSUME NEW a \in Safes, NEW f \in Markets, NEW o \in Outcomes, NEW x \in Buys,
             handleBuy(a, f, o, x)
      PROVE  LedgerInv'
  BY OmenTrades, PriceIsInteger, <1>5, TradeKeepsLedger DEF handleBuy
<1>6. ASSUME NEW a \in Safes, NEW f \in Markets, NEW o \in Outcomes, NEW x \in Sells,
             handleSell(a, f, o, x)
      PROVE  LedgerInv'
  BY OmenTrades, PriceIsInteger, <1>6, TradeKeepsLedger DEF handleSell
<1>7. ASSUME NEW a \in Safes, NEW q \in Questions, NEW x \in Payouts,
             handlePayoutRedemption(a, q, x)
      PROVE  LedgerInv'
  BY OmenTrades, <1>7, ClaimKeepsLedger
<1>8. ASSUME NEW s \in Services, handleRegisterInstance(s) PROVE LedgerInv'
  BY <1>8, RegisterKeepsLedger
<1>9. ASSUME NEW s \in Services, NEW a \in Safes, handleCreateMultisigWithAgents(s, a)
      PROVE  LedgerInv'
  BY <1>9, DeployedKeepsLedger
<1>. QED
  BY <1>1, <1>2, <1>3, <1>4, <1>5, <1>6, <1>7, <1>8, <1>9, AskedKeeps, PreparedKeeps, MadeKeeps,
     RequestKeeps, TickKeepsLedger
  DEF Next

-----------------------------------------------------------------------------
(* What the invariant shows. *)

\* The invariant of the ledger holds in every state.
THEOREM LedgerInductive == Spec => []LedgerInv
<1>1. LedgerInv /\ [Next]_vars => LedgerInv' BY LedgerKept
<1>2. Init => LedgerInv BY LedgerInit
<1>. QED  BY <1>1, <1>2, PTL DEF Spec

\* The sums of the property are those of the columns: of the days,
LEMMA DaysOfAgent ==
    ASSUME NEW a, NEW x
    PROVE  SumFunction([k \in Of(a, daily) |-> daily[k][x]]) = GroupSum(Column(daily, x), a)
BY DEF Of, Column, GroupSum, Group

\* and of what the participants count for.
LEMMA ParticipantsOfAgent ==
    ASSUME LedgerRows, NEW a, NEW x, NEW g, DOMAIN g = Of(a, participant),
           \A k \in DOMAIN g : g[k] = Face(participant[k])[x]
    PROVE  SumFunction(g) = GroupSum(Column(Faces, x), a)
<1>. DEFINE p == Group(Column(Faces, x), a)
<1>1. DOMAIN p = Of(a, participant) /\ \A k \in DOMAIN p : p[k] = Face(participant[k])[x]
  BY DEF Group, Column, Faces, Of
<1>2. IsFiniteSet(DOMAIN p)
  <2>1. IsFiniteSet(DOMAIN participant) /\ Of(a, participant) \subseteq DOMAIN participant
    BY DEF LedgerRows, LedgerShape, Of
  <2>. HIDE DEF p
  <2>. QED  BY <1>1, <2>1, FS_Subset
<1>. HIDE DEF p
<1>3. SumFunction(g) = SumFunction(p)
  BY <1>1, <1>2, SumsAgree
<1>. QED  BY <1>3 DEF GroupSum, p

\* The types.
LEMMA TypesHold == ASSUME LedgerInv PROVE TypeOK
<1>1. Followed /\ LedgerRows
  BY DEF LedgerInv, Books
<1>2. \A a \in DOMAIN traderAgent : IsCounters(traderAgent[a], Totals)
  BY <1>1 DEF Totals, NoTotals, AgentCounters, Activity, LedgerRows, LedgerNumbers, IsCounters
<1>3. PartialFn(oracle, Questions, OracleRows)
  BY <1>1 DEF Followed, PartialFn
<1>4. /\ DOMAIN participant \subseteq (DOMAIN traderAgent) \X (DOMAIN fpmm)
      /\ DOMAIN daily \subseteq (DOMAIN traderAgent) \X DaysRun
      /\ \A a \in DOMAIN traderAgent : traderAgent[a].serviceId \in Services
  BY <1>1 DEF LedgerRows, LedgerShape
<1>. QED  BY <1>1, <1>2, <1>3, <1>4 DEF TypeOK, Followed, OracleRows, MarketRows

\* The sums.
LEMMA TotalsHold == ASSUME LedgerInv PROVE TotalsAgree
<1>1. TypeOK /\ LedgerRows /\ GlobalSums /\ Counts /\ \A a \in DOMAIN traderAgent : AgentSums(a)
  BY TypesHold DEF LedgerInv, Books
<1>2. /\ Totals \cup {"totalExpectedPayout"} \subseteq AgentCounters
      /\ Totals \subseteq AgentCounters \ {"totalExpectedPayout"}
  BY DEF Totals, AgentCounters, Activity, NoTotals
<1>3. ASSUME NEW x \in Totals \cup {"totalExpectedPayout"}
      PROVE  global[x] = SumOver(DOMAIN traderAgent, LAMBDA a : traderAgent[a][x])
  BY <1>2, <1>1 DEF GlobalSums, Column, SumOver
<1>4. /\ global.totalTraderAgents = Cardinality(DOMAIN traderAgent)
      /\ global.totalActiveTraderAgents =
            Cardinality({a \in DOMAIN traderAgent : traderAgent[a].active})
  BY <1>1 DEF Counts
<1>5. ASSUME NEW a \in DOMAIN traderAgent
      PROVE  /\ \A x \in AgentCounters : traderAgent[a][x] = GroupSum(Column(Faces, x), a)
             /\ \A x \in DayCounters : GroupSum(Column(daily, x), a) = GroupSum(Column(Faces, x), a)
  BY <1>1 DEF AgentSums
<1>6. ASSUME NEW a \in DOMAIN traderAgent, NEW x \in Totals
      PROVE  traderAgent[a][x] = SumOver(Of(a, participant), LAMBDA k : participant[k][x])
  BY <1>2, FaceValues, <1>1, ParticipantsOfAgent, <1>5 DEF SumOver
<1>7. ASSUME NEW a \in DOMAIN traderAgent
      PROVE  traderAgent[a].totalExpectedPayout =
                 SumOver(Of(a, participant), LAMBDA k : participant[k].expectedPayout)
  BY <1>2, FaceValues, <1>1, ParticipantsOfAgent, <1>5 DEF SumOver
<1>8. ASSUME NEW a \in DOMAIN traderAgent,
             NEW x \in {"totalBets", "totalTraded", "totalFees", "totalPayout"}
      PROVE  traderAgent[a][x] = SumOver(Of(a, daily), LAMBDA d : daily[d][x])
  BY <1>5, DaysOfAgent DEF AgentCounters, DayCounters, Activity, SumOver
<1>9. ASSUME NEW a \in DOMAIN traderAgent, NEW x \in ShareFields
      PROVE  SumOver(Of(a, daily), LAMBDA d : daily[d][x])
                 = SumOver(Of(a, participant), LAMBDA k : DayShare(participant[k])[x])
  <2>1. x \in DayCounters /\ \A k : Face(participant[k])[x] = DayShare(participant[k])[x]
    BY Fields, FaceValues
  <2>2. PICK g : g = [k \in Of(a, participant) |-> DayShare(participant[k])[x]]
    OBVIOUS
  <2>3. DOMAIN g = Of(a, participant) /\ \A k \in DOMAIN g : g[k] = Face(participant[k])[x]
    BY <2>1, <2>2
  <2>4. SumFunction(g) = GroupSum(Column(Faces, x), a)
    BY <1>1, <2>3, ParticipantsOfAgent
  <2>5. SumFunction([d \in Of(a, daily) |-> daily[d][x]]) = GroupSum(Column(daily, x), a)
    BY DaysOfAgent
  <2>6. SumFunction([d \in Of(a, daily) |-> daily[d][x]]) = SumFunction(g)
    BY <1>5, <2>1, <2>4, <2>5
  <2>. QED  BY <2>2, <2>6 DEF SumOver
<1>. QED  BY <1>1, <1>3, <1>4, <1>6, <1>7, <1>8, <1>9 DEF TotalsAgree

\* The settlements.
LEMMA SettlementsHold == ASSUME LedgerInv PROVE SettlementExact
<1>. SUFFICES ASSUME NEW k \in DOMAIN participant
              PROVE  LET p == participant[k]
                         counted == {b \in p.bets : bet[b].countedInProfit}
                         held(o) == SumOver({b \in counted : bet[b].outcome = o},
                                            LAMBDA b : bet[b].tokens)
                         answer == fpmm[k[2]].currentAnswer
                     IN  /\ p.bets = {b \in DOMAIN bet : bet[b].bettor = k[1] /\ bet[b].market = k[2]}
                         /\ p.totalTradedSettled = SumOver(counted, LAMBDA b : bet[b].amount)
                         /\ p.totalFeesSettled = SumOver(counted, LAMBDA b : bet[b].fee)
                         /\ p.settled <=> counted # {}
                         /\ p.settled =>
                              /\ p.expectedPayout = ExpectedPayout([o \in Outcomes |-> held(o)], answer)
                              /\ p.brierSum = BrierSum(counted, answer)
                              /\ p.brierCount = Cardinality(Forecasts(counted))
  BY DEF SettlementExact
<1>. DEFINE p == participant[k]  counted == {b \in p.bets : bet[b].countedInProfit}
            held(o) == SumOver({b \in counted : bet[b].outcome = o}, LAMBDA b : bet[b].tokens)
            answer == fpmm[k[2]].currentAnswer
<1>1. /\ Bets /\ p.bets = BetsOf(k, bet) /\ SettledExactly(p, answer, bet, p.bets)
  BY DEF LedgerInv, Books, Bets
<1>2. counted = CountedIn(bet, p.bets)
  BY DEF CountedIn
<1>3. /\ SumOver(counted, LAMBDA b : bet[b].amount) = FieldSum(bet, counted, "amount")
      /\ SumOver(counted, LAMBDA b : bet[b].fee) = FieldSum(bet, counted, "fee")
  BY DEF SumOver, FieldSum
<1>4. \A o : held(o) = TokenSum(bet, counted, o)
  BY DEF SumOver, TokenSum, FieldSum
<1>5. [o \in Outcomes |-> held(o)] = [o \in Outcomes |-> TokenSum(bet, counted, o)]
  <2>. HIDE DEF counted, held
  <2>. QED  BY <1>4
<1>6. /\ Forecasts(counted) = ForecastsIn(bet, counted)
      /\ BrierSum(counted, answer) = ScoreIn(bet, counted, answer)
  <2>1. counted \subseteq DOMAIN bet
    BY <1>1 DEF BetsOf
  <2>. HIDE DEF counted, answer
  <2>2. /\ ForecastsIn(bet, counted) = Forecasts(counted)
        /\ BrierSum(counted, answer) = ScoreIn(bet, counted, answer)
    BY <1>1, <2>1, ScoreIsInteger
  <2>. QED  BY <2>2
<1>7. /\ p.settled <=> counted # {}
      /\ p.totalTradedSettled = FieldSum(bet, counted, "amount")
      /\ p.totalFeesSettled = FieldSum(bet, counted, "fee")
      /\ p.settled =>
           /\ p.expectedPayout = ExpectedPayout([o \in Outcomes |-> TokenSum(bet, counted, o)], answer)
           /\ p.brierSum = ScoreIn(bet, counted, answer)
           /\ p.brierCount = Cardinality(ForecastsIn(bet, counted))
  <2>. HIDE DEF p, counted, answer
  <2>. QED  BY <1>1, <1>2 DEF SettledExactly
<1>8. p.bets = {b \in DOMAIN bet : bet[b].bettor = k[1] /\ bet[b].market = k[2]}
  BY <1>1 DEF BetsOf
<1>. QED  BY <1>3, <1>5, <1>6, <1>7, <1>8

\* The days.
LEMMA DaysHold ==
    ASSUME LedgerRows, NEW a, DaySums(a) PROVE DaysExactFor(a)
<1>. SUFFICES ASSUME NEW d \in DaysRun
              PROVE  LET mine == {k \in Of(a, participant) : participant[k].creditedOn = d}
                         row == LoadOr(daily, <<a, d>>, NewDay)
                     IN  /\ row.profitParticipants = {k[2] : k \in mine}
                         /\ \A x \in ShareFields :
                               row[x] = SumOver(mine, LAMBDA k : DayShare(participant[k])[x])
  BY DEF DaysExactFor
<1>. DEFINE mine == {k \in Of(a, participant) : participant[k].creditedOn = d}
            row == LoadOr(daily, <<a, d>>, NewDay)
<1>1. row.profitParticipants = ListedOn(<<a, d>>)
      /\ \A x \in ShareFields : row[x] = Entry(daily, <<a, d>>, x)
  BY LoadedDay, Fields
<1>2. mine = {j \in DOMAIN participant : j[1] = a /\ participant[j].creditedOn = d}
  BY DEF Of
<1>3. ListedOn(<<a, d>>) = {k[2] : k \in mine}
  BY <1>2 DEF DaySums, SettledIn
<1>4. ASSUME NEW x \in ShareFields
      PROVE  row[x] = SumOver(mine, LAMBDA k : DayShare(participant[k])[x])
  <2>. DEFINE p == Group(Credits(d, x), a)
  <2>1. /\ DOMAIN p = Of(a, participant)
        /\ \A k \in DOMAIN p : p[k] = Credit(participant[k], d, x) /\ p[k] \in Int
    BY CreditIntegers DEF Group, Credits, Of
  <2>2. PICK g : g = [k \in mine |-> DayShare(participant[k])[x]]
    OBVIOUS
  <2>3. /\ \A k \in mine : p[k] = g[k]
        /\ \A k \in DOMAIN p \ mine : p[k] = 0
        /\ mine \in SUBSET (DOMAIN p) /\ DOMAIN g = mine
    <3>. HIDE DEF p
    <3>. QED  BY <2>1, <2>2 DEF Credit
  <2>4. IsFiniteSet(DOMAIN p) /\ IsFiniteSet(mine)
    <3>1. /\ IsFiniteSet(DOMAIN participant) /\ Of(a, participant) \subseteq DOMAIN participant
          /\ mine \subseteq DOMAIN participant
      BY DEF LedgerRows, LedgerShape, Of
    <3>. HIDE DEF p, mine
    <3>. QED  BY <2>1, <3>1, FS_Subset
  <2>5. Entry(daily, <<a, d>>, x) = GroupSum(Credits(d, x), a)
    BY DEF DaySums
  <2>6. GroupSum(Credits(d, x), a) = SumFunctionOnSet(p, DOMAIN p)
    BY DEF GroupSum, SumFunction
  <2>. HIDE DEF p, mine
  <2>7. SumFunctionOnSet(p, DOMAIN p) = SumFunctionOnSet(p, mine) BY <2>1, <2>3, <2>4, SumSupport
  <2>8. SumFunctionOnSet(p, mine) = SumFunctionOnSet(g, mine)
    BY <2>3, <2>4, SumCongruence
  <2>9. SumFunction(g) = SumFunctionOnSet(g, mine)
    BY <2>3 DEF SumFunction
  <2>10. row[x] = SumFunction(g)
    BY <1>1, <2>5, <2>6, <2>7, <2>8, <2>9
  <2>. QED  BY <2>2, <2>10 DEF SumOver
<1>. QED  BY <1>1, <1>3, <1>4

\* The counters of agents, days, participants and everyone are the sums of one another's, a
\* participant is settled for exactly its counted bets under the market's present answer, and
\* unless an answer is given again in the open every reversal takes its share from the day that
\* holds it, through any answers, arbitrations, trades and claims (utils.ts:
\* processTradeActivity, realitio.ts: handleLogNewAnswer, conditionalTokens.ts:
\* handlePayoutRedemption).
THEOREM CountersAlwaysExact == Spec => []CountersExact
<1>1. LedgerInv => CountersExact
  <2>. SUFFICES ASSUME LedgerInv PROVE CountersExact
    OBVIOUS
  <2>1. ASSUME NEW a \in DOMAIN traderAgent PROVE MetRepetition(a) \/ DaysExactFor(a)
    BY DaysHold DEF LedgerInv, Books
  <2>. QED  BY <2>1, TotalsHold, SettlementsHold DEF CountersExact
<1>. QED  BY LedgerInductive, <1>1, PTL

-----------------------------------------------------------------------------
(* Without repetitions. *)

\* A market that was answered is the linked one, shows the oracle's best answer, and met no
\* repetition.
BestShown ==
    \A f \in DOMAIN fpmm :
        LET q == market[f].question IN
        /\ ~fpmm[f].repeated
        /\ fpmm[f].currentAnswer # None =>
              LinkedMarket(q) = f /\ fpmm[f].currentAnswer = oracle[q].best

\* An answer that is not the best one is not the market's.
LEMMA BestAnswered ==
    ASSUME IInv, BestShown, NEW q \in Questions, NEW answer \in Answers, NEW at \in Nat,
           at > now => answer # oracle[q].best,
           oracle' = [oracle EXCEPT ![q] = [best |-> answer, at |-> now, finalAt |-> at,
                                            pending |-> FALSE, committed |-> FALSE]],
           RecordAnswer(q, answer, at), OnlyAnswer
    PROVE  BestShown'
<1>. DEFINE m == LinkedMarket(q)
            again == at > now /\ fpmm[m].currentAnswer = answer
<1>1. UNCHANGED <<market, question>> /\ \A r : LinkedMarket(r)' = LinkedMarket(r)
  BY DEF OnlyAnswer, LinkedMarket
<1>2. /\ oracle'[q].best = answer
      /\ \A r \in Questions \ {q} : oracle'[r] = oracle[r]
  BY DEF IInv, Rows
<1>3. /\ m = None => fpmm' = fpmm
      /\ m # None => fpmm' = [fpmm EXCEPT ![m].currentAnswer = answer, ![m].answeredAt = now,
                                          ![m].finalizedAt = at, ![m].repeated = @ \/ again]
  BY DEF RecordAnswer
<1>4. m # None => m \in DOMAIN fpmm /\ market[m].question = q /\ fpmm[m] \in MarketRow
  BY LinkRight DEF IInv, Rows
<1>5. answer # None
  BY OmenSorts
<1>6. m # None => ~again
  BY <1>4, <1>5 DEF BestShown
<1>7. ASSUME m # None
      PROVE  /\ DOMAIN fpmm' = DOMAIN fpmm /\ fpmm'[m].currentAnswer = answer
             /\ ~fpmm'[m].repeated /\ \A g \in DOMAIN fpmm \ {m} : fpmm'[g] = fpmm[g]
  <2>1. ~fpmm[m].repeated
    BY <1>4, <1>7 DEF BestShown
  <2>2. fpmm[m] \in MarketRow /\ m \in DOMAIN fpmm
    BY <1>4, <1>7
  <2>3. fpmm' = [fpmm EXCEPT ![m].currentAnswer = answer, ![m].answeredAt = now,
                             ![m].finalizedAt = at, ![m].repeated = @ \/ again]
    BY <1>3, <1>7
  <2>4. ~again
    BY <1>6, <1>7
  <2>. HIDE DEF m, again
  <2>. QED  BY <2>1, <2>2, <2>3, <2>4 DEF MarketRow
<1>. SUFFICES ASSUME NEW f \in DOMAIN fpmm'
              PROVE  LET r == market[f].question IN
                     /\ ~fpmm'[f].repeated
                     /\ fpmm'[f].currentAnswer # None =>
                           LinkedMarket(r) = f /\ fpmm'[f].currentAnswer = oracle'[r].best
  BY <1>1 DEF BestShown
<1>8. f \in DOMAIN fpmm /\ market[f].question \in Questions
  BY <1>3, <1>7 DEF IInv, Rows
<1>9. CASE m # None /\ f = m
  BY <1>2, <1>4, <1>7, <1>9
<1>10. CASE ~(m # None /\ f = m)
  <2>1. fpmm'[f] = fpmm[f]
    BY <1>3, <1>7, <1>8, <1>10
  <2>2. CASE market[f].question = q
    <3>1. fpmm[f].currentAnswer = None BY <1>8, <1>10, OmenSorts, <2>2 DEF IInv, Rows, BestShown
    <3>. QED  BY <1>8, <2>1, <3>1 DEF BestShown
  <2>3. CASE market[f].question # q
    BY <1>2, <1>8, <2>1, <2>3 DEF BestShown
  <2>. QED  BY <2>2, <2>3
<1>. QED  BY <1>9, <1>10

\* Nothing but an answer changes it.
LEMMA BestKept ==
    ASSUME ~Commitments, ~SharedQuestions, ~SameAnswerAgain, IInv, BestShown, [Next]_vars
    PROVE  BestShown'
<1>1. ASSUME UNCHANGED <<market, oracle, question, fpmm>> PROVE BestShown'
  BY <1>1 DEF BestShown, LinkedMarket
<1>2. ASSUME NEW q \in Questions, NEW x \in Answers, handleLogNewAnswer(q, x) PROVE BestShown'
  <2>1. now + Timeout \in Nat /\ x # oracle[q].best
    BY <1>2, OmenTime DEF IInv, Rows, handleLogNewAnswer
  <2>. QED  BY <1>2, <2>1, BestAnswered DEF handleLogNewAnswer, FinalAt
<1>3. ASSUME NEW q \in Questions, NEW x \in Answers, handleLogFinalize(q, x) PROVE BestShown'
  <2>1. now \in Nat /\ ~(now > now)
    BY DEF IInv, Rows
  <2>. QED  BY <1>3, <2>1, BestAnswered DEF handleLogFinalize, FinalAtArbitration
<1>4. ASSUME NEW q \in Questions, NEW x \in Answers, RevealAnswer(q, x) PROVE BestShown'
  BY <1>4 DEF RevealAnswer, IInv, InTheOpen
<1>5. ASSUME NEW q \in Questions, CommitAnswer(q) PROVE BestShown'
  BY <1>5 DEF CommitAnswer
<1>6. ASSUME NEW q \in Questions, handleLogNotifyOfArbitrationRequest(q) PROVE BestShown'
  <2>. DEFINE m == LinkedMarket(q)
  <2>1. /\ UNCHANGED <<market, question>> /\ oracle' = [oracle EXCEPT ![q].pending = TRUE]
        /\ fpmm' = IF m = None THEN fpmm ELSE [fpmm EXCEPT ![m].finalizedAt = None]
    BY <1>6 DEF handleLogNotifyOfArbitrationRequest, OnlyAnswer
  <2>2. \A r : LinkedMarket(r)' = LinkedMarket(r)
    BY <2>1 DEF LinkedMarket
  <2>3. \A r \in Questions : oracle'[r].best = oracle[r].best
    BY <2>1 DEF IInv, Rows, OracleRow
  <2>. HIDE DEF m
  <2>4. /\ DOMAIN fpmm' = DOMAIN fpmm
        /\ \A f \in DOMAIN fpmm : /\ fpmm'[f].currentAnswer = fpmm[f].currentAnswer
                                  /\ fpmm'[f].repeated = fpmm[f].repeated
    BY <2>1 DEF IInv, Rows, MarketRow
  <2>5. \A f \in DOMAIN fpmm : market[f].question \in Questions
    BY DEF IInv, Rows
  <2>. QED  BY <2>1, <2>2, <2>3, <2>4, <2>5 DEF BestShown
<1>7. ASSUME NEW q \in Questions, NEW byCreator \in BOOLEAN, handleLogNewQuestion(q, byCreator)
      PROVE  BestShown'
  <2>1. /\ UNCHANGED <<market, oracle, fpmm>> /\ q \notin asked
        /\ question' = IF byCreator THEN Put(question, q, [market |-> None]) ELSE question
    BY <1>7 DEF handleLogNewQuestion
  <2>2. \A r \in DOMAIN question : r # q /\ r \in DOMAIN question' /\ question'[r] = question[r]
    BY <2>1 DEF IInv, Rows, Put
  <2>3. \A f \in DOMAIN fpmm : fpmm[f].currentAnswer # None =>
           LinkedMarket(market[f].question)' = LinkedMarket(market[f].question)
    <3>1. ASSUME NEW f \in DOMAIN fpmm, fpmm[f].currentAnswer # None
          PROVE  market[f].question \in DOMAIN question
      BY <3>1, OmenSorts DEF BestShown, LinkedMarket, IInv, Rows
    <3>. QED  BY <2>1, <2>2, <3>1 DEF LinkedMarket
  <2>. QED  BY <2>1, <2>3 DEF BestShown
<1>8. ASSUME NEW q \in Questions, handleConditionPreparation(q) PROVE BestShown'
  BY <1>1, <1>8 DEF handleConditionPreparation
<1>9. ASSUME NEW m \in Markets, NEW q \in Questions, NEW listed \in BOOLEAN,
             handleFixedProductMarketMakerCreation(m, q, listed)
      PROVE  BestShown'
  <2>. DEFINE row == [currentAnswer |-> None, answeredAt |-> None, finalizedAt |-> None,
                      createdAt |-> now, repeated |-> FALSE]
  <2>1. /\ m \notin DOMAIN market /\ UNCHANGED oracle
        /\ \A g \in DOMAIN market : market[g].question # q
        /\ market' = Put(market, m, [question |-> q, listed |-> listed])
        /\ fpmm' = IF listed THEN Put(fpmm, m, row) ELSE fpmm
        /\ question' = IF listed /\ q \in condition THEN [question EXCEPT ![q].market = m]
                       ELSE question
    BY <1>9 DEF handleFixedProductMarketMakerCreation
  <2>2. row.currentAnswer = None /\ ~row.repeated
    OBVIOUS
  <2>. HIDE DEF row
  <2>3. m \notin DOMAIN fpmm /\ \A g \in DOMAIN fpmm : g \in DOMAIN market
    BY <2>1 DEF IInv, Rows
  <2>4. /\ \A g \in DOMAIN market : market'[g] = market[g]
        /\ \A g \in DOMAIN fpmm : fpmm'[g] = fpmm[g]
        /\ \A g \in DOMAIN fpmm' : g \in DOMAIN fpmm \/ (g = m /\ fpmm'[g] = row)
    BY <2>1, <2>3 DEF Put
  <2>5. \A r : r # q => LinkedMarket(r)' = LinkedMarket(r)
    BY <2>1 DEF LinkedMarket
  <2>6. \A g \in DOMAIN fpmm : market[g].question # q
    BY <2>1, <2>3
  <2>. SUFFICES ASSUME NEW f \in DOMAIN fpmm'
                PROVE  /\ ~fpmm'[f].repeated
                       /\ fpmm'[f].currentAnswer # None =>
                             /\ LinkedMarket(market[f].question)' = f
                             /\ fpmm'[f].currentAnswer = oracle'[market'[f].question].best
    BY DEF BestShown
  <2>7. CASE f \in DOMAIN fpmm BY <2>3, <2>4, <2>6, <2>7, <2>5, <2>1 DEF LinkedMarket, BestShown
  <2>8. CASE f \notin DOMAIN fpmm
    BY <2>2, <2>4, <2>8
  <2>. QED  BY <2>7, <2>8
<1>10. ASSUME NEW a, NEW f, NEW amount, NEW fee, NEW outcome, NEW tokens, NEW price,
              Trade(a, f, amount, fee, outcome, tokens, price)
       PROVE  BestShown'
  BY <1>1, <1>10 DEF Trade, chain, markets
<1>11. ASSUME NEW a, NEW q, NEW payout, handlePayoutRedemption(a, q, payout) PROVE BestShown'
  BY <1>1, <1>11 DEF handlePayoutRedemption, chain, markets
<1>12. ASSUME NEW s, NEW a, handleRegisterInstance(s) \/ handleCreateMultisigWithAgents(s, a)
       PROVE  BestShown'
  BY <1>1, <1>12 DEF handleRegisterInstance, handleCreateMultisigWithAgents, chain, markets
<1>13. CASE Tick \/ UNCHANGED vars
  BY <1>1, <1>13 DEF Tick, vars, chain, markets
<1>. QED
  BY <1>2, <1>3, <1>4, <1>5, <1>6, <1>7, <1>8, <1>9, <1>10, <1>11, <1>12, <1>13
  DEF Next, handleBuy, handleSell

\* When no answer is given again, none is committed to and no question has a second market,
\* every reversal is booked on the day that holds what it takes back: it is the same answer,
\* given again with a higher bond, that breaks DaysExact (realitio.ts 94-329).
THEOREM DaysAlwaysExact ==
    ASSUME ~Commitments, ~SharedQuestions, ~SameAnswerAgain PROVE Spec => []DaysExact
<1>1. Init => BestShown
  BY DEF Init, NoRows, BestShown
<1>2. IInv /\ BestShown /\ [Next]_vars => BestShown'
  BY BestKept
<1>3. IInv /\ [Next]_vars => IInv'
  BY IInvStep
<1>4. IInv /\ BestShown /\ CountersExact => DaysExact
  <2>. SUFFICES ASSUME BestShown, CountersExact, NEW a \in DOMAIN traderAgent
                PROVE  DaysExactFor(a)
    BY DEF DaysExact
  <2>1. ~MetRepetition(a) BY DEF CountersExact, TotalsAgree, TypeOK, MetRepetition, BestShown, Of
  <2>. QED  BY <2>1 DEF CountersExact
<1>. QED  BY <1>1, <1>2, <1>3, <1>4, InitIInv, CountersAlwaysExact, PTL DEF Spec
=============================================================================
