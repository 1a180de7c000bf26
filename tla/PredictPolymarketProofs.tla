----------------------- MODULE PredictPolymarketProofs -----------------------
(***************************************************************************)
(* predict-polymarket, for any services, Safes, conditions, questions and  *)
(* fills: registrations and links are complete, a settled participant      *)
(* stays as it was settled, everyone who traded in time is settled, a      *)
(* claim is counted once, and the counters of participants, days, agents   *)
(* and everyone are the sums of one another's and of the bets.             *)
(***************************************************************************)
EXTENDS PredictPolymarket, StoreTheorems

AgentFields == {"traderService", "active", "totalExpectedPayout"} \cup DOMAIN NoTotals
ParticipantFields ==
    {"shares", "expectedPayout", "settled", "bets", "createdAt"} \cup DOMAIN NoTotals

\* Rows have their fields, and no time lies ahead.
Rows ==
    /\ now \in Nat
    /\ \A s \in DOMAIN traderService : DOMAIN traderService[s] = {"agentIds", "traderAgent"}
    /\ DOMAIN traderAgent \subseteq Safes
    /\ \A a \in DOMAIN traderAgent : DOMAIN traderAgent[a] = AgentFields
    /\ \A t \in DOMAIN tokenRegistry : tokenRegistry[t].condition \in Conditions
    /\ paid \in [Safes \X Conditions -> Nat]
    /\ DOMAIN participant \subseteq (DOMAIN traderAgent) \X Conditions
    /\ \A k \in DOMAIN participant : /\ DOMAIN participant[k] = ParticipantFields
                                     /\ participant[k].totalPayout \in Nat
                                     /\ participant[k].createdAt \in 0 .. now
    /\ \A c \in DOMAIN resolution : resolution[c].at \in 0 .. now
    /\ \A c \in DOMAIN question : question[c].createdAt \in 0 .. now

\* The link of a service is the Safe of one of its deployments.
Linked ==
    \A s \in DOMAIN traderService :
        traderService[s].traderAgent # None => <<s, traderService[s].traderAgent>> \in deployed

Log(r, c) == [redeemer |-> r, condition |-> c]

\* The logs still to be handled, if any, end with the agent's own.
Pending ==
    \/ Quiet
    \/ \E a \in Safes, c \in Conditions :
          \/ logs = <<Log(a, c)>>
          \/ \E x \in Adapters : logs = <<Log(x, c), Log(a, c)>>

\* Whether the agent's own log is still to be handled, and will count.
Due(k) ==
    /\ k[2] \in DOMAIN question
    /\ \/ logs = <<Log(k[1], k[2])>>
       \/ \E x \in Adapters : logs = <<Log(x, k[2]), Log(k[1], k[2])>>

\* An agent has been paid what its participant shows, and what is due.
Payments ==
    /\ Pending
    /\ \A k \in DOMAIN participant :
          participant[k].totalPayout + (IF Due(k) THEN 1 ELSE 0) = paid[k]
    /\ \A k \in Safes \X Conditions : k \notin DOMAIN participant => paid[k] = 0

Cohort == Linked /\ CohortComplete

IInv == Rows /\ Cohort /\ Payments /\ NobodyForgotten

-----------------------------------------------------------------------------
(* The rows the handlers write. *)

Tallies == {"totalBets", "totalTraded", "totalTradedSettled", "totalPayout"}

\* New rows have the fields of their kind.
LEMMA Fields == /\ DOMAIN NoTotals = Tallies
                /\ \A s : DOMAIN NewAgent(s) = AgentFields /\ NewAgent(s).traderService = s
                /\ DOMAIN NewParticipant = ParticipantFields
                /\ NewParticipant.totalPayout = 0 /\ NewParticipant.createdAt = now
BY DEF NoTotals, NewAgent, NewParticipant, AgentFields, ParticipantFields, Tallies

\* A fill's row: the bet and its shares are in it, the settlement is untouched.
FilledRow(row, amount, b, outcome, shares) ==
    [Add(row, [totalBets |-> 1, totalTraded |-> amount])
        EXCEPT !.bets = @ \cup {b}, !.shares[outcome] = @ + shares]

\* A fill leaves the settlement and the payout of its participant.
LEMMA FillKeeps ==
    ASSUME NEW row, DOMAIN row = ParticipantFields, NEW amount, NEW b, NEW outcome, NEW shares
    PROVE  LET next == FilledRow(row, amount, b, outcome, shares)
           IN  /\ DOMAIN next = ParticipantFields
               /\ \A x \in {"expectedPayout", "settled", "createdAt", "totalTradedSettled",
                            "totalPayout"} : next[x] = row[x]
BY DEF FilledRow, Add, ParticipantFields, NoTotals

\* Settling a row sets its mark and leaves when it was made and what it was paid.
LEMMA SettledKeeps ==
    ASSUME NEW row, DOMAIN row = ParticipantFields, NEW winner
    PROVE  /\ DOMAIN Settled(row, winner) = ParticipantFields
           /\ \A x \in {"createdAt", "totalPayout"} : Settled(row, winner)[x] = row[x]
           /\ Settled(row, winner).settled = TRUE
BY DEF Settled, ParticipantFields, NoTotals

\* A claim adds to the payout and changes nothing else.
LEMMA PayoutAdds ==
    ASSUME NEW row, DOMAIN row = ParticipantFields
    PROVE  LET next == Add(row, [totalPayout |-> 1])
           IN  /\ DOMAIN next = ParticipantFields
               /\ \A x \in ParticipantFields \ {"totalPayout"} : next[x] = row[x]
               /\ next.totalPayout = row.totalPayout + 1
BY DEF Add, ParticipantFields, NoTotals

\* Adding to an agent's counters leaves its service.
LEMMA AgentKeeps ==
    ASSUME NEW row, DOMAIN row = AgentFields, NEW delta, "traderService" \notin DOMAIN delta
    PROVE  /\ DOMAIN Add(row, delta) = AgentFields
           /\ Add(row, delta).traderService = row.traderService
BY DEF Add, AgentFields, NoTotals

\* A redemption leaves the agent's log, behind those of the contracts on the way.
LEMMA RedemptionLogs ==
    ASSUME NEW a, NEW c, NEW by \in Redeemers(a, Adapters)
    PROVE  LET made == [i \in DOMAIN by |-> [redeemer |-> by[i], condition |-> c]]
           IN  made = <<Log(a, c)>> \/ \E x \in Adapters : made = <<Log(x, c), Log(a, c)>>
<1>1. CASE by = <<a>>
  BY <1>1 DEF Log
<1>2. ASSUME NEW x \in Adapters, by = <<x, a>>
      PROVE  [i \in DOMAIN by |-> [redeemer |-> by[i], condition |-> c]] = <<Log(x, c), Log(a, c)>>
  BY <1>2 DEF Log
<1>. QED  BY <1>1, <1>2 DEF Redeemers

\* A log says who redeems what.
LEMMA LogEqual == \A a, c, b, d : Log(a, c) = Log(b, d) <=> a = b /\ c = d
BY DEF Log

-----------------------------------------------------------------------------
(* What the handlers that touch agents and participants do to them. *)

\* Agents stay, with their service.
AgentsKept ==
    /\ DOMAIN traderAgent' = DOMAIN traderAgent
    /\ \A a \in DOMAIN traderAgent :
          /\ DOMAIN traderAgent'[a] = AgentFields
          /\ traderAgent'[a].traderService = traderAgent[a].traderService

Static == <<now, registered, deployed, traderService, tokenRegistry, question, paid>>

\* A fill makes a participant or leaves what it was settled at.
LEMMA FillStep ==
    ASSUME IInv, NEW a \in Safes, NEW c, NEW o, NEW x, Filled(a, c, o, x)
    PROVE  /\ AgentsKept /\ UNCHANGED <<Static, resolution, logs>> /\ Quiet
           /\ \E d \in Conditions :
                /\ <<a, d>> \in (DOMAIN traderAgent) \X Conditions
                /\ DOMAIN participant' = DOMAIN participant \cup {<<a, d>>}
                /\ \A k \in DOMAIN participant \ {<<a, d>>} : participant'[k] = participant[k]
                /\ DOMAIN participant'[<<a, d>>] = ParticipantFields
                /\ \A f \in {"expectedPayout", "settled", "createdAt", "totalTradedSettled",
                             "totalPayout"} :
                      participant'[<<a, d>>][f] = LoadOr(participant, <<a, d>>, NewParticipant)[f]
<1>. DEFINE d == tokenRegistry[<<c, o>>].condition
            k == <<a, d>>
            old == LoadOr(participant, k, NewParticipant)
            out == tokenRegistry[<<c, o>>].outcome
            b == Cardinality(DOMAIN bet)
            new == FilledRow(old, x.amount, b, out, x.shares)
<1>1. /\ Quiet /\ a \in DOMAIN traderAgent /\ d \in Conditions
      /\ UNCHANGED <<Static, resolution, logs>>
      /\ processTradeActivity(a, d, b, x, out)
  BY DEF Filled, IInv, Rows, chain, claims, markets, Static
<1>2. participant' = Put(participant, k, new)
  BY <1>1 DEF processTradeActivity, FilledRow
<1>3. DOMAIN old = ParticipantFields
  BY Fields DEF LoadOr, IInv, Rows
<1>4. /\ DOMAIN new = ParticipantFields
      /\ \A f \in {"expectedPayout", "settled", "createdAt", "totalTradedSettled",
                   "totalPayout"} : new[f] = old[f]
  BY <1>3, FillKeeps
<1>5. AgentsKept
  <2>1. traderAgent' = [traderAgent EXCEPT
                          ![a] = [Add(traderAgent[a], [totalBets |-> 1, totalTraded |-> x.amount])
                                     EXCEPT !.active = TRUE]]
    BY <1>1 DEF processTradeActivity
  <2>2. DOMAIN traderAgent[a] = AgentFields
    BY <1>1 DEF IInv, Rows
  <2>. DEFINE added == Add(traderAgent[a], [totalBets |-> 1, totalTraded |-> x.amount])
  <2>3. DOMAIN added = AgentFields /\ added.traderService = traderAgent[a].traderService
    BY <2>2, AgentKeeps
  <2>. HIDE DEF added
  <2>4. /\ DOMAIN [added EXCEPT !.active = TRUE] = AgentFields
        /\ [added EXCEPT !.active = TRUE].traderService = traderAgent[a].traderService
    BY <2>3
  <2>. QED  BY <1>1, <2>1, <2>4 DEF AgentsKept, IInv, Rows, added
<1>. HIDE DEF new, old, d
<1>6. /\ DOMAIN participant' = DOMAIN participant \cup {k}
      /\ \A j \in DOMAIN participant \ {k} : participant'[j] = participant[j]
      /\ participant'[k] = new
  BY <1>2 DEF Put
<1>. QED  BY <1>1, <1>4, <1>5, <1>6 DEF old

\* Resolutions stay, and a new one, of now, finds everyone in its market settled.
Decided ==
    /\ \A e \in DOMAIN resolution : resolution'[e] = resolution[e]
    /\ \A e \in DOMAIN resolution' :
          \/ e \in DOMAIN resolution
          \/ /\ resolution'[e].at = now
             /\ e \in DOMAIN question
                   => \A k \in DOMAIN participant : k[2] = e => participant'[k].settled = TRUE

\* A resolution settles the unsettled participants of its condition, all of them.
LEMMA ResolveStep ==
    ASSUME IInv, NEW q, NEW winner, Resolve(q, winner)
    PROVE  /\ AgentsKept /\ UNCHANGED <<Static, logs>> /\ Quiet
           /\ DOMAIN participant' = DOMAIN participant
           /\ Decided
           /\ \A k \in DOMAIN participant :
                /\ DOMAIN participant'[k] = ParticipantFields
                /\ \A f \in {"createdAt", "totalPayout"} : participant'[k][f] = participant[k][f]
                /\ participant[k].settled = TRUE => participant'[k] = participant[k]
                /\ participant'[k] = participant[k] \/ participant'[k].settled = TRUE
<1>1. Quiet /\ UNCHANGED <<Static, logs>>
  BY DEF Resolve, Static, claims
<1>2. /\ \A a \in DOMAIN traderAgent : DOMAIN traderAgent[a] = AgentFields
      /\ \A k \in DOMAIN participant : DOMAIN participant[k] = ParticipantFields
  BY DEF IInv, Rows
<1>3. CASE UNCHANGED <<resolution, traderAgent, participant>>
  BY <1>1, <1>2, <1>3 DEF AgentsKept, Decided
<1>4. CASE ~UNCHANGED <<resolution, traderAgent, participant>>
  <2>. DEFINE c == bridge[q]
  <2>1. /\ c \notin DOMAIN resolution
        /\ resolution' = Put(resolution, c, [winner |-> winner, at |-> now])
        /\ IF c \in DOMAIN question THEN SettleParticipants(c, winner)
           ELSE UNCHANGED <<traderAgent, participant>>
    BY <1>4 DEF Resolve, processMarketResolution, IsResolved
  <2>. HIDE DEF c
  <2>4. /\ DOMAIN resolution' = DOMAIN resolution \cup {c}
        /\ \A e \in DOMAIN resolution : resolution'[e] = resolution[e]
        /\ resolution'[c].at = now
    BY <2>1 DEF Put
  <2>2. CASE c \notin DOMAIN question
    BY <1>1, <1>2, <2>1, <2>2, <2>4 DEF AgentsKept, Decided
  <2>3. CASE c \in DOMAIN question
    <3>1. /\ participant' = [k \in DOMAIN participant |->
                               IF k \in ToSettle(c) THEN Settled(participant[k], winner)
                               ELSE participant[k]]
          /\ traderAgent' = [a \in DOMAIN traderAgent |->
                               IF <<a, c>> \in ToSettle(c)
                               THEN Add(traderAgent[a],
                                        SettlementDelta(participant[<<a, c>>], winner))
                               ELSE traderAgent[a]]
      BY <2>1, <2>3 DEF SettleParticipants
    <3>2. AgentsKept BY <1>2, <3>1, AgentKeeps DEF SettlementDelta, AgentsKept
    <3>3. ASSUME NEW k \in DOMAIN participant
          PROVE  /\ DOMAIN participant'[k] = ParticipantFields
                 /\ \A f \in {"createdAt", "totalPayout"} : participant'[k][f] = participant[k][f]
                 /\ participant[k].settled = TRUE => participant'[k] = participant[k]
                 /\ participant'[k] = participant[k] \/ participant'[k].settled = TRUE
      BY <1>2, <3>1, SettledKeeps DEF ToSettle
    <3>4. \A k \in DOMAIN participant : k[2] = c => participant'[k].settled = TRUE
      BY <1>2, <3>1, SettledKeeps DEF ToSettle
    <3>5. Decided
      BY <2>4, <3>4 DEF Decided
    <3>. QED  BY <1>1, <3>1, <3>2, <3>3, <3>5
  <2>. QED  BY <2>2, <2>3
<1>. QED  BY <1>3, <1>4

\* A log of a redemption is counted for the participant that was due, or for nobody.
LEMMA RedemptionStep ==
    ASSUME IInv, processRedemption
    PROVE  /\ AgentsKept /\ UNCHANGED <<Static, resolution>> /\ ~Quiet
           /\ logs' = Tail(logs)
           /\ DOMAIN participant' = DOMAIN participant
           /\ \A k \in DOMAIN participant :
                /\ DOMAIN participant'[k] = ParticipantFields
                /\ \A f \in ParticipantFields \ {"totalPayout"} :
                      participant'[k][f] = participant[k][f]
                /\ participant'[k].totalPayout = participant[k].totalPayout
                      + IF logs[1] = Log(k[1], k[2]) /\ k[2] \in DOMAIN question THEN 1 ELSE 0
<1>. DEFINE c == logs[1].condition
            claimants == Claimant(logs[1].redeemer, c)
<1>1. ~Quiet /\ logs' = Tail(logs) /\ UNCHANGED <<Static, resolution>>
  BY DEF processRedemption, Static, chain, markets
<1>2. /\ \A a \in DOMAIN traderAgent : DOMAIN traderAgent[a] = AgentFields
      /\ \A k \in DOMAIN participant : /\ DOMAIN participant[k] = ParticipantFields
                                       /\ participant[k].totalPayout \in Nat
      /\ DOMAIN participant \subseteq (DOMAIN traderAgent) \X Conditions
  BY DEF IInv, Rows
<1>3. \E r, d : logs[1] = Log(r, d)
  BY <1>1 DEF IInv, Payments, Pending, Quiet
<1>4. PICK r, d : logs[1] = Log(r, d)
  BY <1>3
<1>5. c = d /\ logs[1].redeemer = r
  BY <1>4 DEF Log
<1>6. \A k : logs[1] = Log(k[1], k[2]) <=> r = k[1] /\ d = k[2]
  BY <1>4, LogEqual
<1>7. CASE claimants = {}
  <2>1. UNCHANGED <<traderAgent, participant>>
    BY <1>7 DEF processRedemption
  <2>2. ASSUME NEW k \in DOMAIN participant, r = k[1], d = k[2] PROVE d \notin DOMAIN question
    <3>1. k = <<r, d>> /\ r \in DOMAIN traderAgent BY <1>2, <2>2
    <3>. QED  BY <3>1, <1>5, <1>7 DEF Claimant
  <2>. QED  BY <1>1, <1>2, <1>6, <2>1, <2>2 DEF AgentsKept
<1>8. CASE claimants # {}
  <2>1. /\ claimants = {r} /\ r \in DOMAIN traderAgent /\ d \in DOMAIN question
        /\ <<r, d>> \in DOMAIN participant
    BY <1>5, <1>8 DEF Claimant
  <2>2. /\ traderAgent' = [traderAgent EXCEPT ![r] = Add(traderAgent[r], [totalPayout |-> 1])]
        /\ participant' = [participant EXCEPT
                             ![<<r, d>>] = Add(participant[<<r, d>>], [totalPayout |-> 1])]
    BY <1>5, <2>1 DEF processRedemption
  <2>3. AgentsKept
    BY <1>2, <2>1, <2>2, AgentKeeps DEF AgentsKept
  <2>4. ASSUME NEW k \in DOMAIN participant
        PROVE  /\ DOMAIN participant'[k] = ParticipantFields
               /\ \A f \in ParticipantFields \ {"totalPayout"} :
                     participant'[k][f] = participant[k][f]
               /\ participant'[k].totalPayout = participant[k].totalPayout
                     + IF logs[1] = Log(k[1], k[2]) /\ k[2] \in DOMAIN question THEN 1 ELSE 0
    <3>1. CASE k = <<r, d>>
      <4>. DEFINE old == participant[k]  new == Add(old, [totalPayout |-> 1])
      <4>1. participant'[k] = new
        BY <2>1, <2>2, <3>1
      <4>2. DOMAIN old = ParticipantFields
        BY <1>2
      <4>3. /\ DOMAIN new = ParticipantFields
            /\ \A f \in ParticipantFields \ {"totalPayout"} : new[f] = old[f]
            /\ new.totalPayout = old.totalPayout + 1
        BY <4>2, PayoutAdds
      <4>4. logs[1] = Log(k[1], k[2]) /\ k[2] \in DOMAIN question
        BY <1>6, <2>1, <3>1
      <4>. HIDE DEF new, old
      <4>5. participant'[k].totalPayout = old.totalPayout + 1
        BY <4>1, <4>3
      <4>. QED  BY <4>1, <4>3, <4>4, <4>5 DEF old
    <3>2. CASE k # <<r, d>> BY <1>2, <3>2, <1>6, <2>2
    <3>. QED  BY <3>1, <3>2
  <2>. QED  BY <1>1, <2>2, <2>3, <2>4
<1>. QED  BY <1>7, <1>8

-----------------------------------------------------------------------------
(* The invariant: its parts, handler by handler. *)

\* What a step of the ledger leaves of the parts about services and registrations.
LEMMA CohortKept ==
    ASSUME IInv, AgentsKept, UNCHANGED <<registered, deployed, traderService>>
    PROVE  Cohort'
BY DEF IInv, AgentsKept, Cohort, Linked, CohortComplete

\* Nothing is wrong before the first event.
LEMMA InitInvariant == Init => IInv
<1>. SUFFICES ASSUME Init PROVE IInv
  OBVIOUS
<1>1. Rows
  BY DEF Init, Rows, NoRows
<1>2. Cohort
  BY DEF Init, Cohort, Linked, CohortComplete, NoRows
<1>3. Payments
  BY DEF Init, Payments, Pending, Quiet, NoRows
<1>4. NobodyForgotten
  BY DEF Init, NobodyForgotten, NoRows
<1>. QED  BY <1>1, <1>2, <1>3, <1>4 DEF IInv

\* A registration adds to its service's agent ids.
LEMMA RegisterStep ==
    ASSUME IInv, NEW s, NEW id, handleRegisterInstance(s, id) PROVE IInv'
<1>1. /\ UNCHANGED <<now, deployed, traderAgent, tokenRegistry, paid, participant, resolution,
                     question, logs>>
      /\ registered' = registered \cup {<<s, id>>}
      /\ traderService' = Put(traderService, s,
                              [ensureTraderService(s) EXCEPT !.agentIds = @ \cup {id}])
  BY DEF handleRegisterInstance, claims, markets, ledger
<1>. DEFINE old == ensureTraderService(s)  new == [old EXCEPT !.agentIds = @ \cup {id}]
<1>2. DOMAIN old = {"agentIds", "traderAgent"}
  BY DEF ensureTraderService, LoadOr, NewService, IInv, Rows
<1>3. /\ DOMAIN new = {"agentIds", "traderAgent"} /\ new.traderAgent = old.traderAgent
      /\ new.agentIds = old.agentIds \cup {id}
  BY <1>2
<1>4. /\ s \in DOMAIN traderService => old = traderService[s]
      /\ s \notin DOMAIN traderService => old.traderAgent = None
  BY DEF ensureTraderService, LoadOr, NewService
<1>. HIDE DEF old, new
<1>5. /\ DOMAIN traderService' = DOMAIN traderService \cup {s}
      /\ traderService'[s] = new
      /\ \A t \in DOMAIN traderService \ {s} : traderService'[t] = traderService[t]
  BY <1>1 DEF Put, old, new
<1>6. Rows'
  BY <1>1, <1>3, <1>5 DEF IInv, Rows
<1>7. Linked'
  BY <1>1, <1>3, <1>4, <1>5 DEF IInv, Cohort, Linked
<1>8. CohortComplete'
  <2>1. ASSUME NEW x \in registered'
        PROVE  x[1] \in DOMAIN traderService' /\ x[2] \in traderService'[x[1]].agentIds
    <3>1. CASE x \in registered BY <3>1, <1>3, <1>4, <1>5 DEF IInv, Cohort, CohortComplete
    <3>2. CASE x = <<s, id>>
      BY <3>2, <1>3, <1>5
    <3>. QED  BY <3>1, <3>2, <1>1
  <2>2. \A x \in deployed' : /\ x[1] \in DOMAIN traderService'
                             /\ x[2] \in DOMAIN traderAgent'
                             /\ <<x[1], traderService'[x[1]].traderAgent>> \in deployed'
    BY <1>1, <1>3, <1>4, <1>5 DEF IInv, Cohort, CohortComplete
  <2>3. \A a \in DOMAIN traderAgent' : <<traderAgent'[a].traderService, a>> \in deployed'
    BY <1>1 DEF IInv, Cohort, CohortComplete
  <2>. QED  BY <2>1, <2>2, <2>3 DEF CohortComplete
<1>9. Payments' /\ NobodyForgotten'
  BY <1>1 DEF IInv, Payments, Pending, Quiet, Due, NobodyForgotten
<1>. QED  BY <1>6, <1>7, <1>8, <1>9 DEF IInv, Cohort

\* A deployment links its service, unless an earlier one did.
LEMMA MultisigStep ==
    ASSUME IInv, NEW s, NEW safe \in Safes, handleCreateMultisigWithAgents(s, safe) PROVE IInv'
<1>1. /\ UNCHANGED <<now, registered, tokenRegistry, paid, participant, resolution, question, logs>>
      /\ deployed' = deployed \cup {<<s, safe>>}
      /\ traderService' = Put(traderService, s, LinkedService(s, safe))
      /\ IF safe \in DOMAIN traderAgent THEN traderAgent' = traderAgent
         ELSE traderAgent' = Put(traderAgent, safe, NewAgent(s))
  BY DEF handleCreateMultisigWithAgents, claims, markets
<1>. DEFINE old == ensureTraderService(s)  new == LinkedService(s, safe)
<1>2. DOMAIN old = {"agentIds", "traderAgent"}
  BY DEF ensureTraderService, LoadOr, NewService, IInv, Rows
<1>3. /\ DOMAIN new = {"agentIds", "traderAgent"} /\ new.agentIds = old.agentIds
      /\ new.traderAgent = IF old.traderAgent # None THEN old.traderAgent ELSE safe
  BY <1>2 DEF LinkedService
<1>4. /\ s \in DOMAIN traderService => old = traderService[s]
      /\ s \notin DOMAIN traderService => old.traderAgent = None
  BY DEF ensureTraderService, LoadOr, NewService
<1>. HIDE DEF old, new
<1>5. /\ DOMAIN traderService' = DOMAIN traderService \cup {s}
      /\ traderService'[s] = new
      /\ \A t \in DOMAIN traderService \ {s} : traderService'[t] = traderService[t]
  BY <1>1 DEF Put, old, new
<1>6. /\ DOMAIN traderAgent' = DOMAIN traderAgent \cup {safe}
      /\ \A a \in DOMAIN traderAgent : traderAgent'[a] = traderAgent[a]
      /\ safe \notin DOMAIN traderAgent => traderAgent'[safe] = NewAgent(s)
  BY <1>1 DEF Put
<1>7. Rows'
  BY <1>1, <1>3, <1>5, <1>6, Fields DEF IInv, Rows
<1>8. <<s, new.traderAgent>> \in deployed'
  BY <1>1, <1>3, <1>4 DEF IInv, Cohort, Linked
<1>9. Linked'
  BY <1>1, <1>5, <1>8 DEF IInv, Cohort, Linked
<1>10. CohortComplete'
  <2>1. \A x \in registered' : /\ x[1] \in DOMAIN traderService'
                               /\ x[2] \in traderService'[x[1]].agentIds
    BY <1>1, <1>3, <1>4, <1>5 DEF IInv, Cohort, CohortComplete
  <2>2. ASSUME NEW x \in deployed'
        PROVE  /\ x[1] \in DOMAIN traderService'
               /\ x[2] \in DOMAIN traderAgent'
               /\ <<x[1], traderService'[x[1]].traderAgent>> \in deployed'
    <3>1. CASE x \in deployed BY <3>1, <1>1, <1>5, <1>6, <1>8 DEF IInv, Cohort, CohortComplete
    <3>2. CASE x = <<s, safe>>
      BY <3>2, <1>5, <1>6, <1>8
    <3>. QED  BY <3>1, <3>2, <1>1
  <2>3. \A a \in DOMAIN traderAgent' : <<traderAgent'[a].traderService, a>> \in deployed'
    BY <1>1, <1>6, Fields DEF IInv, Cohort, CohortComplete
  <2>. QED  BY <2>1, <2>2, <2>3 DEF CohortComplete
<1>11. Payments' /\ NobodyForgotten'
  BY <1>1 DEF IInv, Payments, Pending, Quiet, Due, NobodyForgotten
<1>. QED  BY <1>7, <1>9, <1>10, <1>11 DEF IInv, Cohort

\* The market side: conditions, tokens, questions and time touch no ledger.
LEMMA MarketStep ==
    ASSUME IInv, UNCHANGED <<registered, deployed, traderService, traderAgent, paid, participant,
                             resolution, logs>>,
           now' \in Nat /\ now <= now',
           \A t \in DOMAIN tokenRegistry' : tokenRegistry'[t].condition \in Conditions,
           \/ UNCHANGED question
           \/ /\ Quiet
              /\ \A c \in DOMAIN question' : \/ c \in DOMAIN question /\ question'[c] = question[c]
                                             \/ question'[c].createdAt = now
    PROVE  IInv'
<1>1. Rows'
  BY DEF IInv, Rows
<1>2. Cohort'
  BY DEF IInv, Cohort, Linked, CohortComplete
<1>3. Payments'
  <2>1. CASE UNCHANGED question
    BY <2>1 DEF IInv, Payments, Pending, Quiet, Due
  <2>2. CASE Quiet BY <2>2 DEF Quiet, Due, Pending, IInv, Payments
  <2>. QED  BY <2>1, <2>2
<1>4. NobodyForgotten'
  <2>. SUFFICES ASSUME NEW k \in DOMAIN participant, NEW c, c = k[2], c \in DOMAIN resolution,
                       c \in DOMAIN question', question'[c].createdAt < resolution[c].at,
                       participant[k].createdAt < resolution[c].at
                PROVE  participant[k].settled
    BY DEF NobodyForgotten
  <2>1. now \in Nat /\ resolution[c].at \in 0 .. now
    BY DEF IInv, Rows
  <2>2. question'[c].createdAt # now
    BY <2>1
  <2>3. c \in DOMAIN question /\ question'[c] = question[c]
    BY <2>2
  <2>. QED  BY <2>3 DEF IInv, NobodyForgotten
<1>. QED  BY <1>1, <1>2, <1>3, <1>4 DEF IInv

\* The rows a preparation or the old exchange makes are those of its condition.
LEMMA TokensTyped ==
    ASSUME NEW c \in Conditions,
           \A t \in DOMAIN tokenRegistry : tokenRegistry[t].condition \in Conditions
    PROVE  \A t \in DOMAIN WithTokens(c) : WithTokens(c)[t].condition \in Conditions
<1>. SUFFICES ASSUME NEW t \in DOMAIN WithTokens(c) PROVE WithTokens(c)[t].condition \in Conditions
  OBVIOUS
<1>1. WithTokens(c)[t] = IF t \in DOMAIN tokenRegistry THEN tokenRegistry[t] ELSE BothTokens(c)[t]
  BY DEF WithTokens, LoadOr
<1>2. t \notin DOMAIN tokenRegistry => t \in {c} \X Outcomes
  BY DEF WithTokens, BothTokens
<1>3. t \in {c} \X Outcomes => BothTokens(c)[t].condition = c
  BY DEF BothTokens
<1>. QED  BY <1>1, <1>2, <1>3

\* A condition is prepared.
LEMMA PreparationStep ==
    ASSUME IInv, NEW c \in Conditions, NEW q, NEW derives,
           handleConditionPreparation(c, q, derives)
    PROVE  IInv'
BY TokensTyped, MarketStep DEF handleConditionPreparation, claims, agents, ledger, IInv, Rows

\* The old exchange logs a pair of tokens.
LEMMA TokensStep == ASSUME IInv, NEW c \in Conditions, handleTokenRegistered(c) PROVE IInv'
BY TokensTyped, MarketStep DEF handleTokenRegistered, chain, claims, agents, ledger, IInv, Rows

\* A question is announced: its row is younger than any resolution.
LEMMA AnnounceStep == ASSUME IInv, NEW q, NEW known, Announce(q, known) PROVE IInv'
BY MarketStep DEF Announce, claims, agents, ledger, Put, IInv, Rows

\* Time passes.
LEMMA TickStep == ASSUME IInv, Tick PROVE IInv'
BY MarketStep DEF Tick, claims, agents, markets, ledger, IInv, Rows

-----------------------------------------------------------------------------
\* A fill: a participant that is new was not paid for and trades after any resolution.
\* A fill leaves the settlement and the payout of its participant.
LEMMA FillKeepsInvariant ==
    ASSUME IInv, NEW a \in Safes, NEW c, NEW o, NEW x, Filled(a, c, o, x) PROVE IInv'
<1>1. AgentsKept /\ UNCHANGED <<Static, resolution, logs>> /\ Quiet
  BY FillStep
<1>2. PICK d \in Conditions :
           /\ <<a, d>> \in (DOMAIN traderAgent) \X Conditions
           /\ DOMAIN participant' = DOMAIN participant \cup {<<a, d>>}
           /\ \A k \in DOMAIN participant \ {<<a, d>>} : participant'[k] = participant[k]
           /\ DOMAIN participant'[<<a, d>>] = ParticipantFields
           /\ \A f \in {"expectedPayout", "settled", "createdAt", "totalTradedSettled",
                        "totalPayout"} :
                 participant'[<<a, d>>][f] = LoadOr(participant, <<a, d>>, NewParticipant)[f]
  BY FillStep
<1>. DEFINE old == LoadOr(participant, <<a, d>>, NewParticipant)
<1>3. /\ <<a, d>> \in DOMAIN participant => old = participant[<<a, d>>]
      /\ <<a, d>> \notin DOMAIN participant => old.totalPayout = 0 /\ old.createdAt = now
  BY Fields DEF LoadOr
<1>4. old.totalPayout \in Nat /\ old.createdAt \in 0 .. now /\ now \in Nat
  BY <1>3 DEF IInv, Rows
<1>. HIDE DEF old
<1>5. Rows' BY <1>2, <1>4, <1>1 DEF IInv, Rows, old, AgentsKept, Static
<1>6. Cohort'
  BY <1>1, CohortKept DEF Static
<1>7. Payments'
  <2>1. \A k : ~Due(k) /\ ~Due(k)'
    BY <1>1 DEF Quiet, Due
  <2>2. \A k \in DOMAIN participant : participant[k].totalPayout \in Nat
    BY DEF IInv, Rows
  <2>3. paid[<<a, d>>] = old.totalPayout BY <1>2, <1>3, <2>1, <2>2 DEF IInv, Payments
  <2>4. \A k \in DOMAIN participant' : participant'[k].totalPayout = paid[k]
    BY <1>2, <2>1, <2>2, <2>3 DEF IInv, Payments, old
  <2>5. \A k \in DOMAIN participant' : participant'[k].totalPayout \in Nat
    BY <1>5 DEF Rows
  <2>6. Pending'
    BY <1>1 DEF Quiet, Pending
  <2>7. \A k \in Safes \X Conditions : k \notin DOMAIN participant' => paid[k] = 0
    BY <1>2 DEF IInv, Payments
  <2>. QED  BY <1>1, <2>1, <2>4, <2>5, <2>6, <2>7 DEF Payments, Static
<1>8. NobodyForgotten'
  <2>. SUFFICES ASSUME NEW k \in DOMAIN participant', NEW e, e = k[2], e \in DOMAIN resolution,
                       e \in DOMAIN question, question[e].createdAt < resolution[e].at,
                       participant'[k].createdAt < resolution[e].at
                PROVE  participant'[k].settled
    BY <1>1 DEF NobodyForgotten, Static
  <2>1. resolution[e].at \in 0 .. now
    BY DEF IInv, Rows
  <2>2. CASE k = <<a, d>> BY <1>2, <2>2, <2>1, <1>4, <1>3 DEF old, IInv, NobodyForgotten
  <2>3. CASE k # <<a, d>>
    BY <1>2, <2>3 DEF IInv, NobodyForgotten
  <2>. QED  BY <2>2, <2>3
<1>. QED  BY <1>5, <1>6, <1>7, <1>8 DEF IInv

\* A resolution: whoever trades its condition is settled, whoever was stays so.
LEMMA ResolveKeepsInvariant ==
    ASSUME IInv, NEW q, NEW winner, Resolve(q, winner) PROVE IInv'
<1>1. AgentsKept /\ UNCHANGED <<Static, logs>> /\ Quiet /\ DOMAIN participant' = DOMAIN participant
  BY ResolveStep
<1>2. \A k \in DOMAIN participant :
         /\ DOMAIN participant'[k] = ParticipantFields
         /\ participant'[k].createdAt = participant[k].createdAt
         /\ participant'[k].totalPayout = participant[k].totalPayout
         /\ participant'[k] = participant[k] \/ participant'[k].settled = TRUE
  BY ResolveStep
<1>3. Decided
  BY ResolveStep
<1>4. \A e \in DOMAIN resolution' :
         \/ e \in DOMAIN resolution /\ resolution'[e] = resolution[e]
         \/ /\ resolution'[e].at = now
            /\ e \in DOMAIN question
                  => \A k \in DOMAIN participant : k[2] = e => participant'[k].settled = TRUE
  BY <1>3 DEF Decided
<1>5. Rows' BY <1>4, <1>1, <1>2 DEF IInv, Rows, AgentsKept, Static
<1>6. Cohort'
  BY <1>1, CohortKept DEF Static
<1>7. Payments' BY <1>1, <1>2 DEF Quiet, Due, Pending, IInv, Payments, Static
<1>8. NobodyForgotten'
  <2>. SUFFICES ASSUME NEW k \in DOMAIN participant, NEW e, e = k[2], e \in DOMAIN resolution',
                       e \in DOMAIN question, question[e].createdAt < resolution'[e].at,
                       participant[k].createdAt < resolution'[e].at
                PROVE  participant'[k].settled
    BY <1>1, <1>2 DEF NobodyForgotten, Static
  <2>1. CASE e \in DOMAIN resolution /\ resolution'[e] = resolution[e]
    BY <2>1, <1>2 DEF IInv, NobodyForgotten
  <2>. QED  BY <2>1, <1>4
<1>. QED  BY <1>5, <1>6, <1>7, <1>8 DEF IInv

-----------------------------------------------------------------------------
(* Redemptions. *)

\* A redemption pays its agent, and its logs are due.
LEMMA RedeemKeepsInvariant ==
    ASSUME IInv, NEW a \in Safes, NEW c \in Conditions, NEW by \in Redeemers(a, Adapters),
           Redeem(a, c, by)
    PROVE  IInv'
<1>1. /\ UNCHANGED <<now, registered, deployed, traderService, traderAgent, tokenRegistry,
                     participant, resolution, question>>
      /\ Quiet
      /\ logs' = [i \in DOMAIN by |-> [redeemer |-> by[i], condition |-> c]]
      /\ paid' = IF <<a, c>> \in DOMAIN participant /\ c \in DOMAIN question
                 THEN [paid EXCEPT ![<<a, c>>] = @ + 1] ELSE paid
  BY DEF Redeem, chain, agents, markets, ledger
<1>2. logs' = <<Log(a, c)>> \/ \E x \in Adapters : logs' = <<Log(x, c), Log(a, c)>>
  BY <1>1, RedemptionLogs
<1>3. <<a, c>> \in Safes \X Conditions /\ paid \in [Safes \X Conditions -> Nat]
  BY DEF IInv, Rows
<1>4. /\ paid' \in [Safes \X Conditions -> Nat]
      /\ \A k \in Safes \X Conditions :
            paid'[k] = paid[k] + IF k = <<a, c>> /\ k \in DOMAIN participant
                                    /\ c \in DOMAIN question THEN 1 ELSE 0
  BY <1>1, <1>3
<1>5. Rows'
  BY <1>1, <1>4 DEF IInv, Rows
<1>6. Cohort' /\ NobodyForgotten'
  BY <1>1 DEF IInv, Cohort, Linked, CohortComplete, NobodyForgotten
<1>7. Payments'
  <2>1. Pending'
    BY <1>2 DEF Pending
  <2>2. \A k \in DOMAIN participant :
           k \in Safes \X Conditions /\ participant[k].totalPayout \in Nat
    BY DEF IInv, Rows
  <2>3. \A k : ~Due(k)
    BY <1>1 DEF Quiet, Due
  <2>4. ASSUME NEW k \in Safes \X Conditions
        PROVE  Due(k)' <=> k = <<a, c>> /\ c \in DOMAIN question
    <3>1. \A x : /\ <<Log(a, c)>> # <<Log(x, k[2]), Log(k[1], k[2])>>
                 /\ \A y : <<Log(y, c), Log(a, c)>> # <<Log(k[1], k[2])>>
      OBVIOUS
    <3>2. <<Log(a, c)>> = <<Log(k[1], k[2])>> <=> k = <<a, c>> BY LogEqual
    <3>3. \A x, y : <<Log(x, c), Log(a, c)>> = <<Log(y, k[2]), Log(k[1], k[2])>>
                      <=> x = y /\ k = <<a, c>>
      BY LogEqual
    <3>. QED  BY <1>1, <1>2, <3>1, <3>2, <3>3 DEF Due
  <2>5. ASSUME NEW k \in DOMAIN participant
        PROVE  participant[k].totalPayout + (IF Due(k)' THEN 1 ELSE 0) = paid'[k]
    BY <2>2, <2>3, <1>4, <2>4 DEF IInv, Payments
  <2>6. \A k \in Safes \X Conditions : k \notin DOMAIN participant => paid'[k] = 0
    BY <1>4 DEF IInv, Payments
  <2>. QED  BY <1>1, <2>1, <2>5, <2>6 DEF Payments
<1>. QED  BY <1>5, <1>6, <1>7 DEF IInv

\* The logs of the contracts on the way count for nobody, the agent's own for it.
LEMMA RedemptionKeepsInvariant == ASSUME IInv, processRedemption PROVE IInv'
<1>1. /\ AgentsKept /\ UNCHANGED <<Static, resolution>> /\ ~Quiet
      /\ logs' = Tail(logs)
      /\ DOMAIN participant' = DOMAIN participant
      /\ \A k \in DOMAIN participant : DOMAIN participant'[k] = ParticipantFields
  BY RedemptionStep
<1>2. \A k \in DOMAIN participant :
         participant'[k].totalPayout = participant[k].totalPayout
             + IF logs[1] = Log(k[1], k[2]) /\ k[2] \in DOMAIN question THEN 1 ELSE 0
  BY RedemptionStep
<1>3. \A k \in DOMAIN participant : /\ participant'[k].createdAt = participant[k].createdAt
                                    /\ participant'[k].settled = participant[k].settled
  BY RedemptionStep DEF ParticipantFields
<1>4. \A k \in DOMAIN participant : /\ participant[k].totalPayout \in Nat
                                    /\ participant'[k].totalPayout \in Nat
                                    /\ k \in Safes \X Conditions
  BY <1>2 DEF IInv, Rows
<1>5. Rows' BY <1>1, <1>3, <1>4 DEF IInv, Rows, AgentsKept, Static
<1>6. Cohort'
  BY <1>1, CohortKept DEF Static
<1>7. NobodyForgotten'
  BY <1>1, <1>3 DEF IInv, NobodyForgotten, Static
<1>8. PICK a \in Safes, c \in Conditions :
           logs = <<Log(a, c)>> \/ \E x \in Adapters : logs = <<Log(x, c), Log(a, c)>>
  BY <1>1 DEF IInv, Payments, Pending
<1>9. CASE logs = <<Log(a, c)>>
  BY <1>1, <1>9, <1>2, <1>4, <1>5, <1>6, <1>7 DEF Due, IInv, Payments, Pending, Quiet, Static
<1>10. ASSUME NEW x \in Adapters, logs = <<Log(x, c), Log(a, c)>> PROVE IInv'
  <2>1. logs[1] = Log(x, c) /\ logs' = <<Log(a, c)>>
    BY <1>1, <1>10
  <2>2. \A k \in DOMAIN participant : logs[1] # Log(k[1], k[2]) BY PolySorts, <1>4, <2>1, LogEqual
  <2>3. \A k \in DOMAIN participant : participant'[k].totalPayout = participant[k].totalPayout
    BY <1>2, <1>4, <2>2
  <2>4. ASSUME NEW k \in Safes \X Conditions PROVE Due(k)' <=> Due(k)
    BY LogEqual, <1>1, <1>10, <2>1 DEF Due, Static
  <2>5. Pending'
    BY <2>1 DEF Pending
  <2>6. \A k \in DOMAIN participant :
           participant[k].totalPayout + (IF Due(k) THEN 1 ELSE 0) = paid[k]
    BY DEF IInv, Payments
  <2>7. Payments'
    BY <1>1, <1>4, <2>3, <2>4, <2>5, <2>6 DEF IInv, Payments, Static
  <2>. QED  BY <2>7, <1>5, <1>6, <1>7 DEF IInv
<1>. QED  BY <1>8, <1>9, <1>10

-----------------------------------------------------------------------------
\* Every handler keeps the invariant.
LEMMA Invariance == ASSUME IInv, [Next]_vars PROVE IInv'
<1>1. ASSUME NEW s \in Services, NEW i \in AgentIds, handleRegisterInstance(s, i) PROVE IInv'
  BY <1>1, RegisterStep
<1>2. ASSUME NEW s \in Services, NEW a \in Safes, handleCreateMultisigWithAgents(s, a) PROVE IInv'
  BY <1>2, MultisigStep
<1>3. ASSUME NEW c \in Conditions, NEW q \in Questions, NEW b \in BOOLEAN,
             handleConditionPreparation(c, q, b)
      PROVE  IInv'
  BY <1>3, PreparationStep
<1>4. ASSUME NEW c \in Conditions, handleTokenRegistered(c) PROVE IInv'
  BY <1>4, TokensStep
<1>5. ASSUME NEW q \in Questions, NEW b \in BOOLEAN,
             handleQuestionInitialization(q, b) \/ handleQuestionPrepared(q)
      PROVE  IInv'
  BY <1>5, AnnounceStep DEF handleQuestionInitialization, handleQuestionPrepared
<1>6. ASSUME NEW a \in Safes, NEW c \in Conditions, NEW o \in Outcomes, NEW x \in Fills,
             handleOrderFilled(a, c, o, x) \/ handleOrderFilledV2(a, c, o, x)
      PROVE  IInv'
  BY <1>6, FillKeepsInvariant DEF handleOrderFilled, handleOrderFilledV2
<1>7. ASSUME NEW q \in Questions, NEW w, handleQuestionResolution(q, w) PROVE IInv'
  BY <1>7, ResolveKeepsInvariant DEF handleQuestionResolution
<1>8. ASSUME NEW q \in Questions, NEW y \in BOOLEAN, handleOutcomeReported(q, y) PROVE IInv'
  BY <1>8, ResolveKeepsInvariant DEF handleOutcomeReported
<1>9. ASSUME NEW a \in Safes, NEW c \in Conditions, NEW by \in Redeemers(a, Adapters),
             Redeem(a, c, by)
      PROVE  IInv'
  BY <1>9, RedeemKeepsInvariant
<1>10. CASE processRedemption BY <1>10, RedemptionKeepsInvariant
<1>11. CASE Tick BY <1>11, TickStep
<1>12. CASE UNCHANGED vars
  <2>1. UNCHANGED <<now, registered, deployed, traderService, traderAgent, paid, participant,
                    resolution, question, logs, tokenRegistry>>
    BY <1>12 DEF vars, chain, claims, agents, markets, ledger
  <2>. QED  BY <2>1, MarketStep DEF IInv, Rows
<1>. QED  BY <1>1, <1>2, <1>3, <1>4, <1>5, <1>6, <1>7, <1>8, <1>9, <1>10, <1>11, <1>12 DEF Next

\* No step changes what a settled participant was settled at, nor a winner.
LEMMA NothingResettled == ASSUME IInv, [Next]_vars PROVE [ResolutionKept]_vars
<1>1. ASSUME UNCHANGED <<participant, resolution>> PROVE ResolutionKept
  BY <1>1 DEF ResolutionKept
<1>2. ASSUME NEW a \in Safes, NEW c, NEW o, NEW x, Filled(a, c, o, x) PROVE ResolutionKept
  <2>1. PICK d \in Conditions :
             /\ \A k \in DOMAIN participant \ {<<a, d>>} : participant'[k] = participant[k]
             /\ \A f \in {"expectedPayout", "settled", "createdAt", "totalTradedSettled",
                          "totalPayout"} :
                   participant'[<<a, d>>][f] = LoadOr(participant, <<a, d>>, NewParticipant)[f]
    BY <1>2, FillStep
  <2>2. UNCHANGED resolution
    BY <1>2, FillStep
  <2>3. ASSUME NEW k \in DOMAIN participant
        PROVE  /\ participant'[k].expectedPayout = participant[k].expectedPayout
               /\ participant'[k].totalTradedSettled = participant[k].totalTradedSettled
    BY <2>1 DEF LoadOr
  <2>. QED  BY <2>2, <2>3 DEF ResolutionKept
<1>3. ASSUME NEW q, NEW w, Resolve(q, w) PROVE ResolutionKept
  BY <1>3, ResolveStep DEF Decided, ResolutionKept
<1>4. ASSUME processRedemption PROVE ResolutionKept
  BY <1>4, RedemptionStep DEF ParticipantFields, NoTotals, ResolutionKept
<1>5. CASE UNCHANGED vars
  BY <1>5
<1>6. CASE Next
  <2>1. ASSUME NEW s \in Services, NEW i \in AgentIds, handleRegisterInstance(s, i)
        PROVE  ResolutionKept
    BY <2>1, <1>1 DEF handleRegisterInstance, markets, ledger
  <2>2. ASSUME NEW s \in Services, NEW a \in Safes, handleCreateMultisigWithAgents(s, a)
        PROVE  ResolutionKept
    BY <2>2, <1>1 DEF handleCreateMultisigWithAgents, markets
  <2>3. ASSUME NEW c \in Conditions, NEW q \in Questions, NEW b \in BOOLEAN,
               handleConditionPreparation(c, q, b)
        PROVE  ResolutionKept
    BY <2>3, <1>1 DEF handleConditionPreparation, ledger
  <2>4. ASSUME NEW c \in Conditions, handleTokenRegistered(c) PROVE ResolutionKept
    BY <2>4, <1>1 DEF handleTokenRegistered, ledger
  <2>5. ASSUME NEW q \in Questions, NEW b \in BOOLEAN,
               handleQuestionInitialization(q, b) \/ handleQuestionPrepared(q)
        PROVE  ResolutionKept
    BY <2>5, <1>1 DEF handleQuestionInitialization, handleQuestionPrepared, Announce, ledger
  <2>6. ASSUME NEW a \in Safes, NEW c \in Conditions, NEW o \in Outcomes, NEW x \in Fills,
               handleOrderFilled(a, c, o, x) \/ handleOrderFilledV2(a, c, o, x)
        PROVE  ResolutionKept
    BY <2>6, <1>2 DEF handleOrderFilled, handleOrderFilledV2
  <2>7. ASSUME NEW q \in Questions, NEW w, handleQuestionResolution(q, w) PROVE ResolutionKept
    BY <2>7, <1>3 DEF handleQuestionResolution
  <2>8. ASSUME NEW q \in Questions, NEW y \in BOOLEAN, handleOutcomeReported(q, y)
        PROVE  ResolutionKept
    BY <2>8, <1>3 DEF handleOutcomeReported
  <2>9. ASSUME NEW a \in Safes, NEW c \in Conditions, NEW by \in Redeemers(a, Adapters),
               Redeem(a, c, by)
        PROVE  ResolutionKept
    BY <2>9, <1>1 DEF Redeem, markets, ledger
  <2>10. CASE processRedemption BY <2>10, <1>4
  <2>11. CASE Tick BY <2>11, <1>1 DEF Tick, markets, ledger
  <2>. QED  BY <1>6, <2>1, <2>2, <2>3, <2>4, <2>5, <2>6, <2>7, <2>8, <2>9, <2>10, <2>11 DEF Next
<1>. QED  BY <1>5, <1>6

-----------------------------------------------------------------------------
\* The invariant holds in every state.
THEOREM Inductive == Spec => []IInv
<1>1. IInv /\ [Next]_vars => IInv' BY Invariance
<1>. QED  BY InitInvariant, <1>1, PTL DEF Spec

\* A claim is counted once for the agent that was paid, whichever contracts log it
\* on the way (handlePayoutRedemption of either adapter or of the tokens).
THEOREM PaidExactlyOnce == Spec => []PaidOnce
<1>1. IInv => PaidOnce
  <2>. SUFFICES ASSUME IInv, Quiet, NEW k \in DOMAIN participant
                PROVE  participant[k].totalPayout = paid[k]
    BY DEF PaidOnce
  <2>1. ~Due(k)
    BY DEF Quiet, Due
  <2>2. participant[k].totalPayout \in Nat
    BY DEF IInv, Rows
  <2>. QED  BY <2>1, <2>2 DEF IInv, Payments
<1>. QED  BY Inductive, <1>1, PTL

\* Whoever traded a known question's condition before its resolution is settled by it,
\* in whatever order conditions are prepared and questions announced and resolved.
THEOREM NobodyEverForgotten == Spec => []NobodyForgotten
<1>1. IInv => NobodyForgotten BY DEF IInv
<1>. QED  BY Inductive, <1>1, PTL

\* Every registration and deployment is in its service's row, whichever comes first.
THEOREM CohortAlwaysComplete == Spec => []CohortComplete
<1>1. IInv => CohortComplete BY DEF IInv, Cohort
<1>. QED  BY Inductive, <1>1, PTL

\* A resolution is final: repeated logs, fills and claims leave what it settled.
THEOREM ResolutionsFinal == Spec => ResolutionFinal
<1>1. IInv /\ [Next]_vars => [ResolutionKept]_vars BY NothingResettled
<1>. QED  BY Inductive, <1>1, PTL DEF Spec, ResolutionFinal

-----------------------------------------------------------------------------
(* The totals.                                                              *)

AgentCounters == Tallies \cup {"totalExpectedPayout"}

\* The counter of a participant, and the one of a day, that an agent's adds up.
ParticipantCounter(x) == IF x = "totalExpectedPayout" THEN "expectedPayout" ELSE x
DayCounter(x) == IF x = "totalTradedSettled" THEN "dailyTradedSettled" ELSE x

GlobalFields == AgentCounters \cup {"totalTraderAgents", "totalActiveTraderAgents",
                                    "totalMarketsParticipated"}
DayFields == {"totalBets", "totalTraded", "totalPayout", "dailyTradedSettled", "dailyProfit",
              "profitParticipants"}

\* Tables are finite and their counters are integers.
Numbers ==
    /\ \A x \in GlobalFields : global[x] \in Int
    /\ IsFiniteSet(DOMAIN traderAgent) /\ IsFiniteSet(DOMAIN participant)
    /\ IsFiniteSet(DOMAIN daily)
    /\ \A a \in DOMAIN traderAgent, x \in AgentCounters : traderAgent[a][x] \in Int
    /\ \A k \in DOMAIN participant, x \in AgentCounters :
          participant[k][ParticipantCounter(x)] \in Int
    /\ \A d \in DOMAIN daily, x \in Tallies : daily[d][DayCounter(x)] \in Int

\* The sums of the property, by column.
Sums ==
    /\ \A x \in AgentCounters : global[x] = SumFunction(Column(traderAgent, x))
    /\ \A x \in AgentCounters :
          Held(Column(traderAgent, x), Column(participant, ParticipantCounter(x)))
    /\ \A x \in Tallies : Held(Column(traderAgent, x), Column(daily, DayCounter(x)))

Entry(table, k, x) == IF k \in DOMAIN table THEN table[k][x] ELSE 0

\* What a handler books: the amounts d[a] for the agent a, its participant in c, its day t
\* and everyone together.
Booking(c, t, d) ==
    /\ DOMAIN traderAgent' = DOMAIN traderAgent /\ DOMAIN d \subseteq DOMAIN traderAgent
    /\ \A a \in DOMAIN d, x \in AgentCounters : d[a][x] \in Int
    /\ \A a \in DOMAIN traderAgent, x \in AgentCounters :
          traderAgent'[a][x] = IF a \in DOMAIN d THEN traderAgent[a][x] + d[a][x]
                               ELSE traderAgent[a][x]
    /\ DOMAIN participant' = DOMAIN participant \cup ((DOMAIN d) \X {c})
    /\ \A a \in DOMAIN d, x \in AgentCounters :
          participant'[<<a, c>>][ParticipantCounter(x)] =
              Entry(participant, <<a, c>>, ParticipantCounter(x)) + d[a][x]
    /\ \A k \in DOMAIN participant \ ((DOMAIN d) \X {c}), x \in AgentCounters :
          participant'[k][ParticipantCounter(x)] = participant[k][ParticipantCounter(x)]
    /\ DOMAIN daily' = DOMAIN daily \cup ((DOMAIN d) \X {t})
    /\ \A a \in DOMAIN d, x \in Tallies :
          daily'[<<a, t>>][DayCounter(x)] = Entry(daily, <<a, t>>, DayCounter(x)) + d[a][x]
    /\ \A k \in DOMAIN daily \ ((DOMAIN d) \X {t}), x \in Tallies :
          daily'[k][DayCounter(x)] = daily[k][DayCounter(x)]
    /\ \A x \in AgentCounters : global'[x] = global[x] + SumFunction(Column(d, x))

\* A booking keeps the sums.
LEMMA BookingKeepsSums ==
    ASSUME Numbers, Sums, NEW c, NEW t, NEW d, Booking(c, t, d) PROVE Sums'
<1>1. ASSUME NEW x \in AgentCounters
      PROVE  /\ global'[x] = SumFunction(Column(traderAgent', x))
             /\ Held(Column(traderAgent', x), Column(participant', ParticipantCounter(x)))
  <2>. DEFINE v == Column(traderAgent, x)
              v2 == Column(traderAgent', x)
              y == ParticipantCounter(x)
              w == Column(participant, y)
              w2 == Column(participant', y)
              e == Column(d, x)
  <2>1. /\ Raised(v, v2, e) /\ AllIntegers(e) /\ AllIntegers(v)
        /\ DOMAIN v = DOMAIN traderAgent /\ DOMAIN e \subseteq DOMAIN v
    BY DEF Booking, Raised, Column, AllIntegers, Numbers
  <2>2. Moved(w, w2, c, e)
    <3>1. DOMAIN w2 = DOMAIN w \cup ((DOMAIN e) \X {c}) /\ DOMAIN e = DOMAIN d
      BY DEF Booking, Column
    <3>2. ASSUME NEW a \in DOMAIN d PROVE w2[<<a, c>>] = Before(w, <<a, c>>) + e[a]
      BY DEF Booking, Before, Entry, Column
    <3>3. \A k \in DOMAIN w \ ((DOMAIN e) \X {c}) : w2[k] = w[k]
      BY <3>1 DEF Booking, Column
    <3>. QED  BY <3>1, <3>2, <3>3 DEF Moved
  <2>3. AllIntegers(w) /\ IsFiniteSet(DOMAIN w) /\ IsFiniteSet(DOMAIN v)
    BY DEF Numbers, Column, AllIntegers
  <2>4. Held(v, w) /\ global[x] = SumFunction(v)
    BY DEF Sums
  <2>5. global'[x] = global[x] + SumFunction(e)
    BY DEF Booking
  <2>. HIDE DEF v, v2, w, w2, e
  <2>6. Held(v2, w2)
    BY <2>1, <2>2, <2>3, <2>4, HeldMoved
  <2>7. SumFunction(v2) = SumFunction(v) + SumFunction(e)
    BY <2>1, <2>3, SumRaise DEF Raised, AllIntegers
  <2>. QED  BY <2>4, <2>5, <2>6, <2>7 DEF v2, w2
<1>2. ASSUME NEW x \in Tallies
      PROVE  Held(Column(traderAgent', x), Column(daily', DayCounter(x)))
  <2>. DEFINE v == Column(traderAgent, x)
              v2 == Column(traderAgent', x)
              y == DayCounter(x)
              w == Column(daily, y)
              w2 == Column(daily', y)
              e == Column(d, x)
  <2>0. x \in AgentCounters
    BY DEF AgentCounters
  <2>1. Raised(v, v2, e) /\ AllIntegers(e)
    BY <2>0 DEF Booking, Raised, Column, AllIntegers
  <2>2. Moved(w, w2, t, e)
    <3>1. DOMAIN w2 = DOMAIN w \cup ((DOMAIN e) \X {t}) /\ DOMAIN e = DOMAIN d
      BY DEF Booking, Column
    <3>2. ASSUME NEW a \in DOMAIN d PROVE w2[<<a, t>>] = Before(w, <<a, t>>) + e[a]
      BY DEF Booking, Before, Entry, Column
    <3>3. \A k \in DOMAIN w \ ((DOMAIN e) \X {t}) : w2[k] = w[k]
      BY <3>1 DEF Booking, Column
    <3>. QED  BY <3>1, <3>2, <3>3 DEF Moved
  <2>3. AllIntegers(w) /\ IsFiniteSet(DOMAIN w)
    BY DEF Numbers, Column, AllIntegers
  <2>4. Held(v, w)
    BY DEF Sums
  <2>. HIDE DEF v, v2, w, w2, e
  <2>5. Held(v2, w2)
    BY <2>1, <2>2, <2>3, <2>4, HeldMoved
  <2>. QED  BY <2>5 DEF v2, w2
<1>. QED  BY <1>1, <1>2 DEF Sums

\* A booking keeps the tables finite and the counters integers.
LEMMA BookingKeepsNumbers ==
    ASSUME Numbers, NEW c, NEW t, NEW d, Booking(c, t, d),
           \A x \in GlobalFields \ AgentCounters : global'[x] \in Int
    PROVE  Numbers'
<1>1. IsFiniteSet(DOMAIN d) /\ IsFiniteSet((DOMAIN d) \X {c}) /\ IsFiniteSet((DOMAIN d) \X {t})
  BY FS_Subset, FS_Product, FS_Singleton DEF Booking, Numbers
<1>2. /\ IsFiniteSet(DOMAIN traderAgent') /\ IsFiniteSet(DOMAIN participant')
      /\ IsFiniteSet(DOMAIN daily')
  <2>1. IsFiniteSet(DOMAIN participant \cup ((DOMAIN d) \X {c}))
    BY <1>1, FS_Union DEF Numbers
  <2>2. IsFiniteSet(DOMAIN daily \cup ((DOMAIN d) \X {t}))
    BY <1>1, FS_Union DEF Numbers
  <2>. QED  BY <2>1, <2>2 DEF Booking, Numbers
<1>3. \A a \in DOMAIN traderAgent', x \in AgentCounters : traderAgent'[a][x] \in Int
  BY DEF Booking, Numbers
<1>4. ASSUME NEW k \in DOMAIN participant', NEW x \in AgentCounters
      PROVE  participant'[k][ParticipantCounter(x)] \in Int
  BY DEF Entry, Numbers, Booking
<1>5. ASSUME NEW k \in DOMAIN daily', NEW x \in Tallies
      PROVE  daily'[k][DayCounter(x)] \in Int
  BY DEF AgentCounters, Entry, Numbers, Booking
<1>6. ASSUME NEW x \in AgentCounters PROVE global'[x] \in Int
  <2>. DEFINE e == Column(d, x)
  <2>1. IsFiniteSet(DOMAIN e) /\ \A a \in DOMAIN e : e[a] \in Int
    BY <1>1 DEF Column, Booking
  <2>. HIDE DEF e
  <2>2. SumFunction(e) \in Int
    BY <2>1, SumFunctionType
  <2>3. global[x] \in Int
    BY DEF Numbers, GlobalFields
  <2>. QED  BY <2>2, <2>3 DEF Booking, e
<1>7. \A x \in GlobalFields : global'[x] \in Int
  BY <1>6
<1>. QED  BY <1>2, <1>3, <1>4, <1>5, <1>7 DEF Numbers

\* A row of daily has its fields and is an agent's.
DayRows ==
    /\ DOMAIN daily \subseteq (DOMAIN traderAgent) \X Nat
    /\ \A d \in DOMAIN daily : DOMAIN daily[d] = DayFields
    /\ DOMAIN global = GlobalFields

\* A booking for one agent, by the rows it writes.
OneBooked(a, c, t, m) ==
    /\ a \in DOMAIN traderAgent /\ \A x \in AgentCounters : m[x] \in Int
    /\ DOMAIN traderAgent' = DOMAIN traderAgent
    /\ \A i \in DOMAIN traderAgent \ {a} : traderAgent'[i] = traderAgent[i]
    /\ \A x \in AgentCounters : traderAgent'[a][x] = traderAgent[a][x] + m[x]
    /\ DOMAIN participant' = DOMAIN participant \cup {<<a, c>>}
    /\ \A k \in DOMAIN participant \ {<<a, c>>} : participant'[k] = participant[k]
    /\ \A x \in AgentCounters :
          participant'[<<a, c>>][ParticipantCounter(x)] =
              Entry(participant, <<a, c>>, ParticipantCounter(x)) + m[x]
    /\ DOMAIN daily' = DOMAIN daily \cup {<<a, t>>}
    /\ \A k \in DOMAIN daily \ {<<a, t>>} : daily'[k] = daily[k]
    /\ \A x \in Tallies :
          daily'[<<a, t>>][DayCounter(x)] = Entry(daily, <<a, t>>, DayCounter(x)) + m[x]
    /\ \A x \in AgentCounters : global'[x] = global[x] + m[x]

\* It is a booking for one agent.
LEMMA OneBooking ==
    ASSUME NEW a, NEW c, NEW t, NEW m, OneBooked(a, c, t, m)
    PROVE  Booking(c, t, [i \in {a} |-> m])
<1>. DEFINE d == [i \in {a} |-> m]
<1>1. DOMAIN d = {a} /\ d[a] = m /\ {a} \X {c} = {<<a, c>>} /\ {a} \X {t} = {<<a, t>>}
  OBVIOUS
<1>2. \A x \in AgentCounters : SumFunction(Column(d, x)) = m[x]
  <2>. TAKE x \in AgentCounters
  <2>. DEFINE e == Column(d, x)
  <2>1. DOMAIN e = {a} /\ e[a] = m[x] /\ m[x] \in Int
    BY DEF Column, OneBooked
  <2>. HIDE DEF e
  <2>. QED  BY <2>1, SumOfOne DEF e
<1>. HIDE DEF d
<1>. QED  BY <1>1, <1>2 DEF Booking, OneBooked, d

-----------------------------------------------------------------------------
(* What the handlers of the ledger book.                                    *)

FillAmounts(n) == [x \in AgentCounters |-> IF x = "totalBets" THEN 1
                                           ELSE IF x = "totalTraded" THEN n ELSE 0]
PayoutAmounts == [x \in AgentCounters |-> IF x = "totalPayout" THEN 1 ELSE 0]

Traded(n) == [totalBets |-> 1, totalTraded |-> n]

\* The rows of a fill.
LEMMA FilledRowShares ==
    ASSUME NEW row, DOMAIN row = ParticipantFields, NEW n, NEW b, NEW o, NEW shares,
           row.shares \in [Outcomes -> Int], o \in Outcomes
    PROVE  LET next == FilledRow(row, n, b, o, shares) IN
           /\ DOMAIN next.shares = Outcomes
           /\ \A i \in Outcomes : next.shares[i] = IF i = o THEN row.shares[i] + shares
                                                   ELSE row.shares[i]
<1>. DEFINE sum == Add(row, Traded(n))
<1>1. DOMAIN sum = ParticipantFields /\ sum.shares = row.shares
  BY DEF Add, Traded, ParticipantFields, NoTotals
<1>2. FilledRow(row, n, b, o, shares) = [sum EXCEPT !.bets = @ \cup {b}, !.shares[o] = @ + shares]
  BY DEF FilledRow, Traded
<1>3. "shares" \in ParticipantFields /\ "bets" \in ParticipantFields
  BY DEF ParticipantFields
<1>. HIDE DEF sum
<1>4. FilledRow(row, n, b, o, shares).shares = [sum.shares EXCEPT ![o] = @ + shares]
  BY <1>1, <1>2, <1>3
<1>. QED  BY <1>1, <1>4

\* The counters of a fill are raised, and nothing is settled by it.
LEMMA FilledRowValues ==
    ASSUME NEW row, DOMAIN row = ParticipantFields, NEW n \in Int, NEW b, NEW o, NEW shares,
           \A x \in AgentCounters : row[ParticipantCounter(x)] \in Int
    PROVE  LET next == FilledRow(row, n, b, o, shares) IN
           /\ \A x \in AgentCounters : next[ParticipantCounter(x)] =
                                          row[ParticipantCounter(x)] + FillAmounts(n)[x]
           /\ next.bets = row.bets \cup {b}
           /\ next.settled = row.settled
<1>. DEFINE sum == Add(row, Traded(n))  next == FilledRow(row, n, b, o, shares)
<1>1. /\ DOMAIN sum = ParticipantFields
      /\ \A f \in ParticipantFields : sum[f] = IF f = "totalBets" THEN row[f] + 1
                                               ELSE IF f = "totalTraded" THEN row[f] + n
                                               ELSE row[f]
  BY DEF Add, Traded, ParticipantFields, NoTotals
<1>2. next = [sum EXCEPT !.bets = @ \cup {b}, !.shares[o] = @ + shares]
  BY DEF FilledRow, Traded
<1>3. /\ "bets" \in ParticipantFields /\ "shares" \in ParticipantFields
      /\ "settled" \in ParticipantFields
  BY DEF ParticipantFields
<1>. HIDE DEF sum
<1>4. /\ next.bets = sum.bets \cup {b}
      /\ next.shares = [sum.shares EXCEPT ![o] = @ + shares]
      /\ \A f \in ParticipantFields \ {"bets", "shares"} : next[f] = sum[f]
  BY <1>1, <1>2, <1>3
<1>5. ASSUME NEW x \in AgentCounters
      PROVE  next[ParticipantCounter(x)] = row[ParticipantCounter(x)] + FillAmounts(n)[x]
  <2>1. ParticipantCounter(x) \in ParticipantFields \ {"bets", "shares"}
    BY DEF AgentCounters, Tallies, ParticipantCounter, ParticipantFields, NoTotals
  <2>2. /\ ParticipantCounter(x) = "totalBets" <=> x = "totalBets"
        /\ ParticipantCounter(x) = "totalTraded" <=> x = "totalTraded"
    BY DEF ParticipantCounter
  <2>3. next[ParticipantCounter(x)] = sum[ParticipantCounter(x)]
    BY <1>4, <2>1
  <2>. HIDE DEF next
  <2>. QED  BY <1>1, <2>1, <2>2, <2>3 DEF FillAmounts
<1>6. sum.bets = row.bets /\ sum.shares = row.shares /\ sum.settled = row.settled
  BY <1>1, <1>3
<1>7. next.settled = sum.settled
  BY <1>3, <1>4
<1>. QED  BY <1>4, <1>5, <1>6, <1>7

\* Adding to the counters of an agent, a day or everyone.
LEMMA TradedValues ==
    ASSUME NEW row, NEW n \in Int, NEW C, "totalBets" \in DOMAIN row, "totalTraded" \in DOMAIN row,
           C \subseteq DOMAIN row, \A x \in C : row[x] \in Int
    PROVE  /\ DOMAIN Add(row, Traded(n)) = DOMAIN row
           /\ \A x \in C : Add(row, Traded(n))[x] =
                  row[x] + IF x = "totalBets" THEN 1 ELSE IF x = "totalTraded" THEN n ELSE 0
           /\ \A x \in DOMAIN row \ {"totalBets", "totalTraded"} :
                  Add(row, Traded(n))[x] = row[x]
BY DEF Add, Traded

\* A participant and a day that have no row yet start at zero.
LEMMA FreshRows ==
    /\ \A x \in AgentCounters : /\ ParticipantCounter(x) \in ParticipantFields
                                /\ NewParticipant[ParticipantCounter(x)] = 0
    /\ DOMAIN NewDay = DayFields /\ NewDay.profitParticipants = {}
    /\ \A x \in Tallies : DayCounter(x) \in DayFields /\ NewDay[DayCounter(x)] = 0
BY DEF AgentCounters, Tallies, ParticipantCounter, DayCounter, NewParticipant, NewDay,
       ParticipantFields, DayFields, NoTotals

\* The old counters of a row that is loaded or made.
LEMMA LoadedEntry ==
    ASSUME NEW table, NEW k, NEW fresh, NEW y, fresh[y] = 0
    PROVE  LoadOr(table, k, fresh)[y] = Entry(table, k, y)
BY DEF LoadOr, Entry

\* The row of a participant, or the new one, has its fields and integers.
LEMMA LoadedParticipant ==
    ASSUME IInv, Numbers, NEW k
    PROVE  LET row == LoadOr(participant, k, NewParticipant) IN
           /\ DOMAIN row = ParticipantFields
           /\ \A x \in AgentCounters :
                 /\ row[ParticipantCounter(x)] = Entry(participant, k, ParticipantCounter(x))
                 /\ row[ParticipantCounter(x)] \in Int
<1>1. DOMAIN LoadOr(participant, k, NewParticipant) = ParticipantFields
  BY Fields DEF LoadOr, IInv, Rows
<1>2. ASSUME NEW x \in AgentCounters
      PROVE  /\ LoadOr(participant, k, NewParticipant)[ParticipantCounter(x)]
                    = Entry(participant, k, ParticipantCounter(x))
             /\ Entry(participant, k, ParticipantCounter(x)) \in Int
  BY FreshRows, LoadedEntry DEF Entry, Numbers
<1>. QED  BY <1>1, <1>2

\* The row of a day, or the new one, has its fields and integers.
LEMMA LoadedDay ==
    ASSUME DayRows, Numbers, NEW k
    PROVE  LET row == LoadOr(daily, k, NewDay) IN
           /\ DOMAIN row = DayFields
           /\ \A x \in Tallies : /\ row[DayCounter(x)] = Entry(daily, k, DayCounter(x))
                                 /\ row[DayCounter(x)] \in Int
<1>1. DOMAIN LoadOr(daily, k, NewDay) = DayFields
  BY FreshRows DEF LoadOr, DayRows
<1>2. ASSUME NEW x \in Tallies
      PROVE  /\ LoadOr(daily, k, NewDay)[DayCounter(x)] = Entry(daily, k, DayCounter(x))
             /\ Entry(daily, k, DayCounter(x)) \in Int
  BY FreshRows, LoadedEntry DEF Entry, Numbers
<1>. QED  BY <1>1, <1>2

Counted(a, k, c) == [totalActiveTraderAgents |-> IF traderAgent[a].active THEN 0 ELSE 1,
                     totalMarketsParticipated |->
                         IF k \in DOMAIN participant THEN 0 ELSE NewMarkets(c)]

\* A fill books its bet, for the bettor's participant, day and totals.
LEMMA FillBooks ==
    ASSUME IInv, Numbers, DayRows, NEW a \in Safes, NEW c, NEW o, NEW x \in Fills,
           Filled(a, c, o, x), NEW d, d = tokenRegistry[<<c, o>>].condition
    PROVE  /\ Booking(d, Day(now), [i \in {a} |-> FillAmounts(x.amount)])
           /\ DayRows'
<1>. DEFINE k == <<a, d>>
            t == Day(now)
            day == <<a, t>>
            old == LoadOr(participant, k, NewParticipant)
            out == tokenRegistry[<<c, o>>].outcome
            b == Cardinality(DOMAIN bet)
            n == x.amount
            m == FillAmounts(n)
            new == FilledRow(old, n, b, out, x.shares)
            oldDay == LoadOr(daily, day, NewDay)
            added == Add(traderAgent[a], Traded(n))
<1>1. /\ a \in DOMAIN traderAgent /\ n \in Int
      /\ global' = Add(Add(global, Traded(n)), Counted(a, k, d))
      /\ traderAgent' = [traderAgent EXCEPT ![a] = [added EXCEPT !.active = TRUE]]
      /\ participant' = Put(participant, k, new)
      /\ daily' = Put(daily, day, Add(oldDay, Traded(n)))
  BY PolyFills DEF Filled, processTradeActivity, Traded, FilledRow, Counted
<1>2. \A y \in AgentCounters : /\ m[y] \in Int
                               /\ m[y] = IF y = "totalBets" THEN 1
                                         ELSE IF y = "totalTraded" THEN n ELSE 0
  BY <1>1 DEF FillAmounts
<1>3. /\ DOMAIN traderAgent' = DOMAIN traderAgent
      /\ \A i \in DOMAIN traderAgent \ {a} : traderAgent'[i] = traderAgent[i]
      /\ \A y \in AgentCounters : traderAgent'[a][y] = traderAgent[a][y] + m[y]
  <2>1. DOMAIN traderAgent[a] = AgentFields
    BY <1>1 DEF IInv, Rows
  <2>2. /\ AgentCounters \subseteq AgentFields \ {"active"} /\ "totalBets" \in AgentFields
        /\ "totalTraded" \in AgentFields
    BY DEF AgentCounters, AgentFields, NoTotals, Tallies
  <2>3. \A y \in AgentCounters : traderAgent[a][y] \in Int
    BY <1>1 DEF Numbers
  <2>4. /\ DOMAIN added = AgentFields
        /\ \A y \in AgentCounters : added[y] =
              traderAgent[a][y] + IF y = "totalBets" THEN 1
                                  ELSE IF y = "totalTraded" THEN n ELSE 0
    BY <1>1, <2>1, <2>2, <2>3, TradedValues
  <2>. HIDE DEF added, m
  <2>5. \A y \in AgentCounters : [added EXCEPT !.active = TRUE][y] = added[y]
    BY <2>2, <2>4
  <2>6. traderAgent'[a] = [added EXCEPT !.active = TRUE]
    BY <1>1
  <2>. QED  BY <1>1, <1>2, <2>4, <2>5, <2>6
<1>4. /\ DOMAIN participant' = DOMAIN participant \cup {k}
      /\ \A j \in DOMAIN participant \ {k} : participant'[j] = participant[j]
      /\ \A y \in AgentCounters :
            participant'[k][ParticipantCounter(y)] =
                Entry(participant, k, ParticipantCounter(y)) + m[y]
  <2>1. /\ DOMAIN old = ParticipantFields
        /\ \A y \in AgentCounters :
              /\ old[ParticipantCounter(y)] = Entry(participant, k, ParticipantCounter(y))
              /\ old[ParticipantCounter(y)] \in Int
    BY LoadedParticipant
  <2>. HIDE DEF old
  <2>2. \A y \in AgentCounters : new[ParticipantCounter(y)] = old[ParticipantCounter(y)] + m[y]
    <3>. DEFINE shares == x.shares
    <3>. HIDE DEF n, b, out, shares
    <3>1. n \in Int /\ DOMAIN old = ParticipantFields
      BY <1>1, <2>1
    <3>2. \A y \in AgentCounters : old[ParticipantCounter(y)] \in Int
      BY <2>1
    <3>3. \A y \in AgentCounters :
             FilledRow(old, n, b, out, shares)[ParticipantCounter(y)] =
                 old[ParticipantCounter(y)] + FillAmounts(n)[y]
      BY ONLY <3>1, <3>2, FilledRowValues
    <3>. QED  BY <3>3 DEF shares
  <2>. HIDE DEF new, m
  <2>. QED  BY <1>1, <2>1, <2>2 DEF Put
<1>5. /\ DOMAIN daily' = DOMAIN daily \cup {day}
      /\ \A j \in DOMAIN daily \ {day} : daily'[j] = daily[j]
      /\ \A y \in Tallies : daily'[day][DayCounter(y)] = Entry(daily, day, DayCounter(y)) + m[y]
      /\ DOMAIN daily'[day] = DayFields
  <2>. DEFINE C == {DayCounter(y) : y \in Tallies}
  <2>1. /\ DOMAIN oldDay = DayFields
        /\ \A y \in Tallies : /\ oldDay[DayCounter(y)] = Entry(daily, day, DayCounter(y))
                              /\ oldDay[DayCounter(y)] \in Int
    BY LoadedDay
  <2>2. C \subseteq DayFields /\ "totalBets" \in DayFields /\ "totalTraded" \in DayFields
    BY DEF DayFields, DayCounter, Tallies
  <2>. HIDE DEF oldDay
  <2>3. C \subseteq DOMAIN oldDay /\ \A y \in C : oldDay[y] \in Int
    BY <2>1, <2>2
  <2>. HIDE DEF C
  <2>4. /\ DOMAIN Add(oldDay, Traded(n)) = DayFields
        /\ \A y \in C : Add(oldDay, Traded(n))[y] =
              oldDay[y] + IF y = "totalBets" THEN 1 ELSE IF y = "totalTraded" THEN n ELSE 0
    BY <1>1, <2>1, <2>2, <2>3, TradedValues
  <2>. HIDE DEF m
  <2>5. ASSUME NEW y \in Tallies
        PROVE  Add(oldDay, Traded(n))[DayCounter(y)] = oldDay[DayCounter(y)] + m[y]
    <3>1. /\ DayCounter(y) = "totalBets" <=> y = "totalBets"
          /\ DayCounter(y) = "totalTraded" <=> y = "totalTraded"
      BY DEF DayCounter
    <3>2. y \in AgentCounters /\ DayCounter(y) \in C
      BY DEF AgentCounters, C
    <3>. QED  BY <1>2, <2>4, <3>1, <3>2
  <2>. QED  BY <1>1, <2>1, <2>4, <2>5 DEF Put
<1>6. /\ DOMAIN global' = DOMAIN global
      /\ \A y \in AgentCounters : global'[y] = global[y] + m[y]
  <2>1. /\ DOMAIN global = GlobalFields
        /\ AgentCounters \subseteq GlobalFields
        /\ "totalBets" \in GlobalFields /\ "totalTraded" \in GlobalFields
        /\ "totalActiveTraderAgents" \notin AgentCounters
        /\ "totalMarketsParticipated" \notin AgentCounters
    BY DEF GlobalFields, AgentCounters, Tallies, DayRows
  <2>2. \A y \in AgentCounters : global[y] \in Int
    BY <2>1 DEF Numbers
  <2>. DEFINE sum == Add(global, Traded(n))
  <2>3. /\ DOMAIN sum = GlobalFields
        /\ \A y \in AgentCounters : sum[y] =
              global[y] + IF y = "totalBets" THEN 1 ELSE IF y = "totalTraded" THEN n ELSE 0
    BY <1>1, <2>1, <2>2, TradedValues
  <2>. HIDE DEF sum, m
  <2>4. \A y \in AgentCounters : Add(sum, Counted(a, k, d))[y] = sum[y]
    BY <2>1, <2>3 DEF Add, Counted
  <2>5. DOMAIN Add(sum, Counted(a, k, d)) = DOMAIN sum
    BY DEF Add
  <2>6. global' = Add(sum, Counted(a, k, d))
    BY <1>1 DEF sum
  <2>. QED  BY <1>2, <2>1, <2>3, <2>4, <2>5, <2>6
<1>7. Day(now) \in Nat
  BY PolyTime DEF Day, IInv, Rows
<1>8. DayRows'
  <2>. HIDE DEF m, day
  <2>1. DOMAIN daily' \subseteq (DOMAIN traderAgent') \X Nat
    BY <1>1, <1>3, <1>5, <1>7 DEF DayRows, day
  <2>2. \A j \in DOMAIN daily' : DOMAIN daily'[j] = DayFields
    BY <1>5 DEF DayRows
  <2>. QED  BY <1>6, <2>1, <2>2 DEF DayRows
<1>9. Booking(d, t, [i \in {a} |-> m])
  <2>. HIDE DEF m, t
  <2>1. OneBooked(a, d, t, m)
    BY <1>1, <1>2, <1>3, <1>4, <1>5, <1>6 DEF OneBooked
  <2>. QED  BY <2>1, OneBooking
<1>. QED  BY <1>8, <1>9

\* Adding a claim's payout to a row.
LEMMA PayoutValues ==
    ASSUME NEW row, NEW C, C \subseteq DOMAIN row, \A x \in C : row[x] \in Int
    PROVE  /\ DOMAIN Add(row, [totalPayout |-> 1]) = DOMAIN row
           /\ \A x \in C : Add(row, [totalPayout |-> 1])[x] =
                               row[x] + IF x = "totalPayout" THEN 1 ELSE 0
           /\ \A x \in DOMAIN row \ {"totalPayout"} : Add(row, [totalPayout |-> 1])[x] = row[x]
BY DEF Add

\* Resolutions and claims count no agent and no market, and a day loses no market.
CountsKept ==
    /\ DOMAIN global' = DOMAIN global
    /\ \A x \in GlobalFields \ AgentCounters : global'[x] = global[x]
    /\ DOMAIN traderAgent' = DOMAIN traderAgent
    /\ \A a \in DOMAIN traderAgent : traderAgent'[a].active = traderAgent[a].active

ProfitsKept ==
    \A d \in DOMAIN daily : /\ d \in DOMAIN daily'
                           /\ daily[d].profitParticipants \subseteq daily'[d].profitParticipants

\* A claim that counts books one payout.
LEMMA RedemptionBooks ==
    ASSUME IInv, Numbers, DayRows, processRedemption
    PROVE  /\ \/ UNCHANGED <<traderAgent, participant, global, daily>>
              \/ \E a, c : Booking(c, Day(now), [i \in {a} |-> PayoutAmounts])
           /\ DayRows' /\ CountsKept /\ ProfitsKept
<1>1. CASE UNCHANGED <<traderAgent, participant, global, daily>>
  BY <1>1 DEF DayRows, CountsKept, ProfitsKept
<1>2. CASE ~UNCHANGED <<traderAgent, participant, global, daily>>
  <2>. DEFINE c == logs[1].condition
              t == Day(now)
              m == PayoutAmounts
              paying == [totalPayout |-> 1]
  <2>1. PICK a \in Claimant(logs[1].redeemer, c) :
             /\ traderAgent' = [traderAgent EXCEPT ![a] = Add(traderAgent[a], paying)]
             /\ participant' = [participant EXCEPT
                                  ![<<a, c>>] = Add(participant[<<a, c>>], paying)]
             /\ global' = Add(global, paying)
             /\ daily' = Put(daily, <<a, t>>, Add(LoadOr(daily, <<a, t>>, NewDay), paying))
    BY <1>2 DEF processRedemption
  <2>. HIDE DEF c
  <2>. DEFINE k == <<a, c>>
              day == <<a, t>>
              oldDay == LoadOr(daily, day, NewDay)
              C == {ParticipantCounter(y) : y \in AgentCounters}
              D == {DayCounter(y) : y \in Tallies}
  <2>2. /\ a \in DOMAIN traderAgent /\ k \in DOMAIN participant
        /\ \A y \in AgentCounters : /\ m[y] \in Int
                                    /\ m[y] = IF y = "totalPayout" THEN 1 ELSE 0
    BY <2>1 DEF Claimant, PayoutAmounts
  <2>3. /\ DOMAIN traderAgent' = DOMAIN traderAgent
        /\ \A i \in DOMAIN traderAgent \ {a} : traderAgent'[i] = traderAgent[i]
        /\ \A y \in AgentCounters : traderAgent'[a][y] = traderAgent[a][y] + m[y]
        /\ traderAgent'[a].active = traderAgent[a].active
    <3>1. /\ AgentCounters \subseteq DOMAIN traderAgent[a] /\ "active" \in DOMAIN traderAgent[a]
          /\ \A y \in AgentCounters : traderAgent[a][y] \in Int
      BY <2>2 DEF IInv, Rows, AgentFields, AgentCounters, NoTotals, Tallies, Numbers
    <3>2. /\ \A y \in AgentCounters : Add(traderAgent[a], paying)[y] =
                                         traderAgent[a][y] + IF y = "totalPayout" THEN 1 ELSE 0
          /\ Add(traderAgent[a], paying).active = traderAgent[a].active
      BY <3>1, PayoutValues
    <3>. HIDE DEF m
    <3>. QED  BY <2>1, <2>2, <3>2
  <2>4. /\ DOMAIN participant' = DOMAIN participant \cup {k}
        /\ \A j \in DOMAIN participant \ {k} : participant'[j] = participant[j]
        /\ \A y \in AgentCounters :
              participant'[k][ParticipantCounter(y)] =
                  Entry(participant, k, ParticipantCounter(y)) + m[y]
    <3>1. /\ C \subseteq DOMAIN participant[k]
          /\ \A y \in C : participant[k][y] \in Int
      BY <2>2, FreshRows DEF IInv, Rows, Numbers
    <3>. DEFINE new == Add(participant[k], paying)
    <3>. HIDE DEF C
    <3>2. \A y \in C : new[y] = participant[k][y] + IF y = "totalPayout" THEN 1 ELSE 0
      BY <3>1, PayoutValues
    <3>3. \A y \in AgentCounters : /\ ParticipantCounter(y) \in C
                                   /\ ParticipantCounter(y) = "totalPayout" <=> y = "totalPayout"
      BY DEF C, ParticipantCounter
    <3>. HIDE DEF m, new
    <3>4. participant'[k] = new
      BY <2>1, <2>2 DEF new
    <3>. QED  BY <2>1, <2>2, <3>2, <3>3, <3>4 DEF Entry
  <2>5. /\ DOMAIN daily' = DOMAIN daily \cup {day}
        /\ \A j \in DOMAIN daily \ {day} : daily'[j] = daily[j]
        /\ \A y \in Tallies : daily'[day][DayCounter(y)] = Entry(daily, day, DayCounter(y)) + m[y]
        /\ DOMAIN daily'[day] = DayFields
        /\ day \in DOMAIN daily => daily'[day].profitParticipants = daily[day].profitParticipants
    <3>1. /\ DOMAIN oldDay = DayFields
          /\ \A y \in Tallies : /\ oldDay[DayCounter(y)] = Entry(daily, day, DayCounter(y))
                                /\ oldDay[DayCounter(y)] \in Int
      BY LoadedDay
    <3>2. D \subseteq DayFields /\ "profitParticipants" \in DayFields
      BY DEF DayFields, DayCounter, Tallies
    <3>3. day \in DOMAIN daily => oldDay = daily[day]
      BY DEF LoadOr
    <3>. HIDE DEF oldDay
    <3>4. D \subseteq DOMAIN oldDay /\ \A y \in D : oldDay[y] \in Int
      BY <3>1, <3>2
    <3>. HIDE DEF D
    <3>. DEFINE new == Add(oldDay, paying)
    <3>5. /\ DOMAIN new = DayFields
          /\ \A y \in D : new[y] = oldDay[y] + IF y = "totalPayout" THEN 1 ELSE 0
          /\ new.profitParticipants = oldDay.profitParticipants
      BY <3>1, <3>2, <3>4, PayoutValues
    <3>6. \A y \in Tallies : /\ DayCounter(y) \in D /\ y \in AgentCounters
                             /\ DayCounter(y) = "totalPayout" <=> y = "totalPayout"
      BY DEF D, DayCounter, AgentCounters
    <3>. HIDE DEF m, new, day
    <3>7. /\ daily'[day] = new /\ DOMAIN daily' = DOMAIN daily \cup {day}
          /\ \A j \in DOMAIN daily \ {day} : daily'[j] = daily[j]
      BY <2>1 DEF new, day, oldDay, Put
    <3>. QED  BY <2>2, <3>1, <3>3, <3>5, <3>6, <3>7
  <2>6. /\ DOMAIN global' = DOMAIN global
        /\ \A y \in AgentCounters : global'[y] = global[y] + m[y]
        /\ \A y \in GlobalFields \ AgentCounters : global'[y] = global[y]
    <3>1. /\ AgentCounters \subseteq DOMAIN global /\ DOMAIN global = GlobalFields
          /\ \A y \in AgentCounters : global[y] \in Int
          /\ "totalPayout" \in AgentCounters
      BY DEF GlobalFields, AgentCounters, Tallies, DayRows, Numbers
    <3>2. /\ DOMAIN Add(global, paying) = DOMAIN global
          /\ \A y \in AgentCounters : Add(global, paying)[y] =
                                         global[y] + IF y = "totalPayout" THEN 1 ELSE 0
          /\ \A y \in DOMAIN global \ {"totalPayout"} : Add(global, paying)[y] = global[y]
      BY <3>1, PayoutValues
    <3>. HIDE DEF m
    <3>. QED  BY <2>1, <2>2, <3>1, <3>2
  <2>7. DayRows'
    <3>1. Day(now) \in Nat
      BY PolyTime DEF Day, IInv, Rows
    <3>. HIDE DEF m, day
    <3>2. DOMAIN daily' \subseteq (DOMAIN traderAgent') \X Nat
      BY <2>2, <2>3, <2>5, <3>1 DEF DayRows, day
    <3>3. \A j \in DOMAIN daily' : DOMAIN daily'[j] = DayFields
      BY <2>5 DEF DayRows
    <3>. QED  BY <2>6, <3>2, <3>3 DEF DayRows
  <2>8. Booking(c, t, [i \in {a} |-> m])
    <3>. HIDE DEF m, t
    <3>1. OneBooked(a, c, t, m)
      BY <2>2, <2>3, <2>4, <2>5, <2>6 DEF OneBooked
    <3>. QED  BY <3>1, OneBooking
  <2>9. CountsKept /\ ProfitsKept
    <3>. HIDE DEF day
    <3>. QED  BY <2>3, <2>5, <2>6 DEF CountsKept, ProfitsKept
  <2>. QED  BY <2>7, <2>8, <2>9
<1>. QED  BY <1>1, <1>2

\* A participant holds integers, and what is not settled has no settled cost or payout.
Holdings ==
    \A k \in DOMAIN participant :
        /\ participant[k].shares \in [Outcomes -> Int] /\ participant[k].settled \in BOOLEAN
        /\ ~participant[k].settled => /\ participant[k].expectedPayout = 0
                                      /\ participant[k].totalTradedSettled = 0

\* What the settlement of a participant books.
SettledAmounts(p, winner) ==
    [x \in AgentCounters |-> IF x = "totalTradedSettled" THEN p.totalTraded - p.totalTradedSettled
                             ELSE IF x = "totalExpectedPayout" THEN ExpectedPayout(p.shares, winner)
                             ELSE 0]

\* The expected payout is an integer.
LEMMA PayoutIsInteger ==
    ASSUME NEW shares \in [Outcomes -> Int], NEW winner PROVE ExpectedPayout(shares, winner) \in Int
BY DEF Positive, ExpectedPayout, IsInvalid, Outcomes

\* The rows a settlement writes.
LEMMA SettledValues ==
    ASSUME NEW p, DOMAIN p = ParticipantFields, NEW w
    PROVE  /\ Settled(p, w).expectedPayout = ExpectedPayout(p.shares, w)
           /\ Settled(p, w).totalTradedSettled = p.totalTraded
           /\ Settled(p, w).shares = p.shares /\ Settled(p, w).bets = p.bets
           /\ \A x \in Tallies \ {"totalTradedSettled"} : Settled(p, w)[x] = p[x]
BY DEF Settled, ParticipantFields, NoTotals, Tallies

\* Adding what a settlement adds to an agent's counters, or to everyone's.
LEMMA DeltaValues ==
    ASSUME NEW row, NEW p, NEW w, AgentCounters \subseteq DOMAIN row,
           \A x \in AgentCounters : row[x] \in Int
    PROVE  /\ DOMAIN Add(row, SettlementDelta(p, w)) = DOMAIN row
           /\ \A x \in AgentCounters : Add(row, SettlementDelta(p, w))[x] =
                  row[x] + IF x = "totalTradedSettled" THEN p.totalTraded - p.totalTradedSettled
                           ELSE IF x = "totalExpectedPayout" THEN ExpectedPayout(p.shares, w)
                           ELSE 0
           /\ \A x \in DOMAIN row \ {"totalTradedSettled", "totalExpectedPayout"} :
                  Add(row, SettlementDelta(p, w))[x] = row[x]
BY DEF Add, SettlementDelta

\* The row of a day that a settlement credits.
CreditedDay(row, p, w, c) ==
    [Add(row, DayShare(p, w)) EXCEPT !.profitParticipants = @ \cup {c}]

\* The cost goes to the day, which lists the market.
LEMMA DayShareValues ==
    ASSUME NEW row, DOMAIN row = DayFields, NEW p, NEW w, NEW c,
           \A x \in Tallies : row[DayCounter(x)] \in Int
    PROVE  LET next == CreditedDay(row, p, w, c) IN
           /\ DOMAIN next = DayFields
           /\ \A x \in Tallies : next[DayCounter(x)] =
                 row[DayCounter(x)] + IF x = "totalTradedSettled"
                                      THEN p.totalTraded - p.totalTradedSettled ELSE 0
           /\ next.profitParticipants = row.profitParticipants \cup {c}
<1>. DEFINE sum == Add(row, DayShare(p, w))
            next == [sum EXCEPT !.profitParticipants = @ \cup {c}]
<1>1. DOMAIN sum = DayFields /\ sum.profitParticipants = row.profitParticipants
  BY DEF Add, DayShare, DayFields
<1>2. /\ sum.dailyTradedSettled = row.dailyTradedSettled + (p.totalTraded - p.totalTradedSettled)
      /\ \A y \in {"totalBets", "totalTraded", "totalPayout"} : sum[y] = row[y]
  BY DEF Add, DayShare, DayFields
<1>3. \A x \in Tallies : /\ DayCounter(x) \in DayFields \ {"profitParticipants"}
                         /\ x = "totalTradedSettled" => DayCounter(x) = "dailyTradedSettled"
                         /\ x # "totalTradedSettled" =>
                              DayCounter(x) \in {"totalBets", "totalTraded", "totalPayout"}
  BY DEF DayCounter, Tallies, DayFields
<1>. HIDE DEF sum
<1>4. /\ DOMAIN next = DayFields
      /\ next.profitParticipants = row.profitParticipants \cup {c}
      /\ \A y \in DayFields \ {"profitParticipants"} : next[y] = sum[y]
  BY <1>1 DEF DayFields
<1>. HIDE DEF next
<1>5. ASSUME NEW x \in Tallies
      PROVE  next[DayCounter(x)] =
                 row[DayCounter(x)] + IF x = "totalTradedSettled"
                                      THEN p.totalTraded - p.totalTradedSettled ELSE 0
  BY <1>3, <1>4, <1>2
<1>. QED  BY <1>4, <1>5 DEF next, sum, CreditedDay

\* The agents whose participants in c are to be settled, and what they book.
SettledAgents(c) == {a \in DOMAIN traderAgent : <<a, c>> \in ToSettle(c)}
SettledBooks(c, w) == [a \in SettledAgents(c) |-> SettledAmounts(participant[<<a, c>>], w)]

\* Every participant to be settled is one of an agent.
LEMMA SettledPairs ==
    ASSUME IInv, NEW c PROVE ToSettle(c) = SettledAgents(c) \X {c}
BY DEF IInv, Rows, ToSettle, SettledAgents

\* Days are counted from zero.
LEMMA Today == ASSUME IInv PROVE Day(now) \in Nat
<1>1. now \in Nat /\ DayLength \in Nat /\ DayLength # 0
  BY PolyTime DEF IInv, Rows
<1>. QED  BY ONLY <1>1 DEF Day

\* A settlement books, for each of them, the cost and the payout it is settled at.
LEMMA SettlementBooks ==
    ASSUME IInv, Numbers, DayRows, Holdings, NEW c, NEW w, SettleParticipants(c, w)
    PROVE  /\ Booking(c, Day(now), SettledBooks(c, w))
           /\ DayRows' /\ CountsKept /\ ProfitsKept
           /\ \A k \in ToSettle(c) : c \in daily'[<<k[1], Day(now)>>].profitParticipants
<1>. DEFINE due == ToSettle(c)
            B == SettledAgents(c)
            t == Day(now)
            d == SettledBooks(c, w)
            days == {<<k[1], t>> : k \in due}
<1>1. due = B \X {c} /\ B \subseteq DOMAIN traderAgent /\ DOMAIN d = B
      /\ \A a \in B : <<a, c>> \in DOMAIN participant /\ ~participant[<<a, c>>].settled
  BY SettledPairs DEF SettledAgents, ToSettle, SettledBooks
<1>2. /\ participant' = [k \in DOMAIN participant |->
                           IF k \in due THEN Settled(participant[k], w) ELSE participant[k]]
      /\ traderAgent' = [a \in DOMAIN traderAgent |->
                           IF <<a, c>> \in due
                           THEN Add(traderAgent[a], SettlementDelta(participant[<<a, c>>], w))
                           ELSE traderAgent[a]]
      /\ daily' = [j \in DOMAIN daily \cup days |->
                     IF j \in days
                     THEN [Add(LoadOr(daily, <<j[1], t>>, NewDay),
                               DayShare(participant[<<j[1], c>>], w))
                              EXCEPT !.profitParticipants = @ \cup {c}]
                     ELSE daily[j]]
      /\ global' = Add(global, SettledTotals(due, w))
  BY DEF SettleParticipants
<1>3. days = B \X {t}
  <2>1. days = {<<k[1], t>> : k \in B \X {c}}
    BY <1>1
  <2>. HIDE DEF B, t
  <2>2. {<<k[1], t>> : k \in B \X {c}} = B \X {t}
    <3>1. ASSUME NEW a \in B PROVE <<a, t>> \in {<<k[1], t>> : k \in B \X {c}}
      <4>1. <<a, c>> \in B \X {c} /\ <<a, c>>[1] = a
        OBVIOUS
      <4>. QED  BY <4>1
    <3>2. ASSUME NEW k \in B \X {c} PROVE <<k[1], t>> \in B \X {t}
      OBVIOUS
    <3>. QED  BY <3>1, <3>2
  <2>. QED  BY <2>1, <2>2
<1>. HIDE DEF due, B, d, days
<1>4. ASSUME NEW a \in B, NEW x \in AgentCounters
      PROVE  /\ d[a][x] = IF x = "totalTradedSettled"
                          THEN participant[<<a, c>>].totalTraded
                                   - participant[<<a, c>>].totalTradedSettled
                          ELSE IF x = "totalExpectedPayout"
                          THEN ExpectedPayout(participant[<<a, c>>].shares, w) ELSE 0
             /\ d[a][x] \in Int
  <2>. DEFINE p == participant[<<a, c>>]
  <2>1. p.shares \in [Outcomes -> Int]
    BY <1>1 DEF Holdings
  <2>2. p.totalTraded \in Int /\ p.totalTradedSettled \in Int
    BY <1>1 DEF Numbers, AgentCounters, Tallies, ParticipantCounter
  <2>. HIDE DEF p
  <2>3. ExpectedPayout(p.shares, w) \in Int
    BY <2>1, PayoutIsInteger
  <2>4. d[a] = SettledAmounts(p, w)
    BY <1>1 DEF d, B, p, SettledBooks
  <2>. QED  BY <2>2, <2>3, <2>4 DEF SettledAmounts, p
<1>5. /\ DOMAIN traderAgent' = DOMAIN traderAgent
      /\ \A a \in DOMAIN traderAgent, x \in AgentCounters :
            traderAgent'[a][x] = IF a \in B THEN traderAgent[a][x] + d[a][x]
                                 ELSE traderAgent[a][x]
      /\ \A a \in DOMAIN traderAgent : traderAgent'[a].active = traderAgent[a].active
  <2>1. \A a \in DOMAIN traderAgent : <<a, c>> \in due <=> a \in B
    BY <1>1
  <2>2. ASSUME NEW a \in B
        PROVE  /\ \A x \in AgentCounters : traderAgent'[a][x] = traderAgent[a][x] + d[a][x]
               /\ traderAgent'[a].active = traderAgent[a].active
    <3>. DEFINE row == traderAgent[a]  p == participant[<<a, c>>]
                new == Add(row, SettlementDelta(p, w))
    <3>1. traderAgent'[a] = new /\ a \in DOMAIN traderAgent
      BY <1>1, <1>2, <2>1
    <3>2. /\ AgentCounters \subseteq DOMAIN row
          /\ "active" \in DOMAIN row \ {"totalTradedSettled", "totalExpectedPayout"}
          /\ \A y \in AgentCounters : row[y] \in Int
      BY <3>1 DEF IInv, Rows, AgentFields, AgentCounters, NoTotals, Tallies, Numbers
    <3>. HIDE DEF row, p
    <3>3. /\ \A x \in AgentCounters : new[x] =
                 row[x] + IF x = "totalTradedSettled" THEN p.totalTraded - p.totalTradedSettled
                          ELSE IF x = "totalExpectedPayout" THEN ExpectedPayout(p.shares, w)
                          ELSE 0
          /\ new.active = row.active
      BY ONLY <3>2, DeltaValues DEF new
    <3>. HIDE DEF new
    <3>. QED  BY <1>4, <3>1, <3>3 DEF row, p
  <2>3. \A a \in DOMAIN traderAgent \ B : traderAgent'[a] = traderAgent[a]
    BY <1>2, <2>1
  <2>. QED  BY <1>2, <2>2, <2>3
<1>6. /\ DOMAIN participant' = DOMAIN participant \cup (B \X {c})
      /\ \A a \in B, x \in AgentCounters :
            participant'[<<a, c>>][ParticipantCounter(x)] =
                Entry(participant, <<a, c>>, ParticipantCounter(x)) + d[a][x]
      /\ \A k \in DOMAIN participant \ (B \X {c}) : participant'[k] = participant[k]
  <2>1. DOMAIN participant' = DOMAIN participant \cup (B \X {c})
    <3>1. B \X {c} \subseteq DOMAIN participant
      BY <1>1
    <3>. QED  BY <1>2, <3>1
  <2>2. ASSUME NEW a \in B, NEW x \in AgentCounters
        PROVE  participant'[<<a, c>>][ParticipantCounter(x)] =
                   Entry(participant, <<a, c>>, ParticipantCounter(x)) + d[a][x]
    <3>. DEFINE k == <<a, c>>  p == participant[k]  new == Settled(p, w)
    <3>1. /\ participant'[k] = new /\ DOMAIN p = ParticipantFields
          /\ Entry(participant, k, ParticipantCounter(x)) = p[ParticipantCounter(x)]
          /\ p[ParticipantCounter(x)] \in Int
          /\ p.expectedPayout = 0 /\ p.totalTradedSettled = 0
          /\ k \in DOMAIN participant
      BY <1>1, <1>2 DEF IInv, Rows, Entry, Numbers, Holdings
    <3>1a. p.totalTraded \in Int BY <3>1 DEF AgentCounters, Tallies, ParticipantCounter, Numbers
    <3>. HIDE DEF p, k
    <3>2. /\ new.expectedPayout = ExpectedPayout(p.shares, w)
          /\ new.totalTradedSettled = p.totalTraded
          /\ \A y \in Tallies \ {"totalTradedSettled"} : new[y] = p[y]
      BY <3>1, SettledValues
    <3>3. ExpectedPayout(p.shares, w) \in Int
      BY <3>1, PayoutIsInteger DEF Holdings, p
    <3>. HIDE DEF new
    <3>4. CASE x = "totalTradedSettled"
      BY <1>4, <3>4, <3>1, <3>1a, <3>2 DEF p, k, ParticipantCounter
    <3>5. CASE x = "totalExpectedPayout"
      BY <1>4, <3>5, <3>1, <3>2, <3>3 DEF p, k, ParticipantCounter
    <3>6. CASE x \notin {"totalTradedSettled", "totalExpectedPayout"}
      BY <1>4, <3>6, <3>1, <3>2 DEF AgentCounters, ParticipantCounter, k
    <3>. QED  BY <3>4, <3>5, <3>6
  <2>3. \A k \in DOMAIN participant \ (B \X {c}) : participant'[k] = participant[k]
    BY <1>1, <1>2
  <2>. QED  BY <2>1, <2>2, <2>3
<1>7. /\ DOMAIN daily' = DOMAIN daily \cup (B \X {t})
      /\ \A j \in DOMAIN daily \ (B \X {t}) : daily'[j] = daily[j]
  BY <1>2, <1>3
<1>8. ASSUME NEW a \in B
      PROVE  /\ \A x \in Tallies : daily'[<<a, t>>][DayCounter(x)] =
                                      Entry(daily, <<a, t>>, DayCounter(x)) + d[a][x]
             /\ DOMAIN daily'[<<a, t>>] = DayFields
             /\ c \in daily'[<<a, t>>].profitParticipants
             /\ <<a, t>> \in DOMAIN daily =>
                   daily[<<a, t>>].profitParticipants \subseteq daily'[<<a, t>>].profitParticipants
  <2>. DEFINE day == <<a, t>>
              row == LoadOr(daily, day, NewDay)
              p == participant[<<a, c>>]
              new == CreditedDay(row, p, w, c)
  <2>1. daily'[day] = new BY <1>3, <1>2 DEF CreditedDay
  <2>2. /\ DOMAIN row = DayFields
        /\ \A x \in Tallies : /\ row[DayCounter(x)] = Entry(daily, day, DayCounter(x))
                              /\ row[DayCounter(x)] \in Int
    BY LoadedDay
  <2>3. day \in DOMAIN daily => row = daily[day]
    BY DEF LoadOr
  <2>. HIDE DEF row, p, day
  <2>4. /\ DOMAIN new = DayFields
        /\ \A x \in Tallies : new[DayCounter(x)] =
              row[DayCounter(x)] + IF x = "totalTradedSettled"
                                   THEN p.totalTraded - p.totalTradedSettled ELSE 0
        /\ new.profitParticipants = row.profitParticipants \cup {c}
    BY <2>2, DayShareValues
  <2>. HIDE DEF new
  <2>5. ASSUME NEW x \in Tallies
        PROVE  daily'[day][DayCounter(x)] = Entry(daily, day, DayCounter(x)) + d[a][x]
    BY <1>4, <2>1, <2>2, <2>4 DEF AgentCounters, Tallies, p
  <2>6. \A x \in Tallies : daily'[<<a, t>>][DayCounter(x)] =
                              Entry(daily, <<a, t>>, DayCounter(x)) + d[a][x]
    BY <2>5 DEF day
  <2>7. /\ DOMAIN daily'[day] = DayFields /\ c \in daily'[day].profitParticipants
        /\ day \in DOMAIN daily =>
              daily[day].profitParticipants \subseteq daily'[day].profitParticipants
    BY <2>1, <2>3, <2>4
  <2>. QED  BY <2>6, <2>7 DEF day
<1>9. /\ DOMAIN global' = DOMAIN global
      /\ \A x \in AgentCounters : global'[x] = global[x] + SumFunction(Column(d, x))
      /\ \A x \in GlobalFields \ AgentCounters : global'[x] = global[x]
  <2>0. IsFiniteSet(B)
    BY <1>1, FS_Subset DEF Numbers
  <2>1. DOMAIN global = GlobalFields /\ \A x \in GlobalFields : global[x] \in Int
    BY DEF DayRows, Numbers
  <2>. DEFINE F == {"totalTradedSettled", "totalExpectedPayout"}
              amount(x) == [k \in due |-> SettlementDelta(participant[k], w)[x]]
              totals == [x \in F |-> SumFunction(amount(x))]
  <2>2. SettledTotals(due, w) = totals
    BY DEF SettledTotals, SumOver
  <2>3. ASSUME NEW x \in F
        PROVE  SumFunction(amount(x)) = SumFunction(Column(d, x))
    <3>. DEFINE f == amount(x)  g == Column(d, x)
    <3>1. x \in AgentCounters
      BY DEF AgentCounters, Tallies
    <3>2. DOMAIN g = B /\ DOMAIN f = B \X {c} /\ \A a \in B : g[a] = d[a][x]
      BY <1>1 DEF Column
    <3>3. AllIntegers(g)
      BY <1>4, <3>1, <3>2 DEF AllIntegers
    <3>4. ASSUME NEW a \in B PROVE f[<<a, c>>] = g[a] BY <1>1, <1>4, <3>1, <3>2 DEF SettlementDelta
    <3>. HIDE DEF f, g
    <3>5. SumFunction(f) = SumFunction(g)
      <4>1. PairsOf(f, g, c) /\ IsFiniteSet(DOMAIN g)
        BY <2>0, <3>2, <3>4 DEF PairsOf
      <4>. QED  BY <3>3, <4>1, SumOfPairs
    <3>. QED  BY <3>5 DEF f, g
  <2>4. ASSUME NEW x \in AgentCounters \ F PROVE SumFunction(Column(d, x)) = 0
    <3>. DEFINE g == Column(d, x)
    <3>1. DOMAIN g = B /\ \A a \in B : g[a] = 0
      BY <1>1, <1>4 DEF Column
    <3>. HIDE DEF g
    <3>. QED  BY <2>0, <3>1, SumOfZeros DEF g
  <2>5. DOMAIN global' = DOMAIN global /\ \A x \in GlobalFields :
           global'[x] = IF x \in F THEN global[x] + SumFunction(amount(x)) ELSE global[x]
    <3>1. global' = Add(global, totals)
      BY <1>2, <2>2
    <3>. HIDE DEF amount
    <3>. QED  BY <2>1, <3>1 DEF Add
  <2>6. AgentCounters \subseteq GlobalFields /\ F \subseteq AgentCounters
    BY DEF GlobalFields, AgentCounters, Tallies
  <2>. HIDE DEF F, amount
  <2>. QED  BY <2>1, <2>3, <2>4, <2>5, <2>6
<1>10. t \in Nat
  BY Today
<1>. HIDE DEF t
<1>11. Booking(c, t, d)
  BY <1>1, <1>4, <1>5, <1>6, <1>7, <1>8, <1>9 DEF Booking
<1>12. DayRows' BY <1>1, <1>5, <1>7, <1>10, <1>8, <1>9 DEF DayRows
<1>13. CountsKept
  BY <1>5, <1>9 DEF CountsKept
<1>14. ProfitsKept
  <2>. SUFFICES ASSUME NEW j \in DOMAIN daily
                PROVE  /\ j \in DOMAIN daily'
                       /\ daily[j].profitParticipants \subseteq daily'[j].profitParticipants
    BY DEF ProfitsKept
  <2>1. CASE j \in B \X {t} BY <2>1, <1>7, <1>8
  <2>2. CASE j \notin B \X {t}
    BY <1>7, <2>2
  <2>. QED  BY <2>1, <2>2
<1>15. \A k \in due : c \in daily'[<<k[1], t>>].profitParticipants
  BY <1>1, <1>8
<1>. QED  BY <1>11, <1>12, <1>13, <1>14, <1>15 DEF d, t, due

ActiveAgents == {a \in DOMAIN traderAgent : traderAgent[a].active}
MarketsOf == {k[2] : k \in DOMAIN participant}

\* Agents, active agents and markets are counted once.
Counts ==
    /\ \A a \in DOMAIN traderAgent : traderAgent[a].active \in BOOLEAN
    /\ global.totalTraderAgents = Cardinality(DOMAIN traderAgent)
    /\ global.totalActiveTraderAgents = Cardinality(ActiveAgents)
    /\ marketParticipated = MarketsOf /\ IsFiniteSet(MarketsOf)
    /\ global.totalMarketsParticipated = Cardinality(MarketsOf)

-----------------------------------------------------------------------------
(* Bets.                                                                    *)

BetFields == {"bettor", "condition", "outcome", "amount", "shares", "countedInProfit"}

\* What bets of a set traded, the shares of an outcome they hold, and which are counted.
AmountSum(table, S) == SumFunction([b \in S |-> table[b].amount])
SharesSum(table, S, o) == SumFunction([b \in {i \in S : table[i].outcome = o} |-> table[b].shares])
CountedIn(table, S) == {b \in S : table[b].countedInProfit}

\* Bets are numbered, and typed.
BetRows ==
    /\ IsFiniteSet(DOMAIN bet) /\ DOMAIN bet = 0 .. Cardinality(DOMAIN bet) - 1
    /\ \A b \in DOMAIN bet :
          /\ DOMAIN bet[b] = BetFields /\ bet[b].outcome \in Outcomes
          /\ bet[b].amount \in Int /\ bet[b].shares \in Int /\ bet[b].countedInProfit \in BOOLEAN

\* The bets S are those of the participant k, and add up to its row p.
BetsAddUp(k, p, table, S) ==
    /\ S # {} /\ S \subseteq DOMAIN table
    /\ \A b \in S : table[b].bettor = k[1] /\ table[b].condition = k[2]
    /\ p.totalTraded = AmountSum(table, S)
    /\ \A o \in Outcomes : p.shares[o] = SharesSum(table, S, o)

\* The counted ones among S are what p was settled at.
CountedAddUp(p, table, S) ==
    /\ p.settled <=> CountedIn(table, S) # {}
    /\ p.totalTradedSettled = AmountSum(table, CountedIn(table, S))

\* A settled row has the payout of its counted bets under the winner, and its day lists it.
PayoutOf(p, winner, table, S) ==
    p.settled => p.expectedPayout =
                     ExpectedPayout([o \in Outcomes |-> SharesSum(table, CountedIn(table, S), o)],
                                    winner)

DayLists(k, p) ==
    p.settled =>
        LET day == <<k[1], Day(resolution[k[2]].at)>> IN
        /\ k[2] \in DOMAIN resolution
        /\ day \in DOMAIN daily /\ k[2] \in daily[day].profitParticipants

Bets ==
    /\ BetRows
    /\ \A k \in DOMAIN participant :
          LET p == participant[k] IN
          /\ BetsAddUp(k, p, bet, p.bets) /\ CountedAddUp(p, bet, p.bets)
          /\ PayoutOf(p, resolution[k[2]].winner, bet, p.bets) /\ DayLists(k, p)

\* Tables that agree about the bets of a set.
SameBets(table, other, S) == \A b \in S : other[b] = table[b]

\* Tables in which those bets are for the same shares and amounts.
SameAmounts(table, other, S) ==
    \A b \in S : /\ other[b].amount = table[b].amount /\ other[b].outcome = table[b].outcome
                 /\ other[b].shares = table[b].shares

\* They have the same sums.
LEMMA SumsOfSameAmounts ==
    ASSUME NEW table, NEW other, NEW S, IsFiniteSet(S), SameAmounts(table, other, S)
    PROVE  /\ AmountSum(other, S) = AmountSum(table, S)
           /\ \A o : SharesSum(other, S, o) = SharesSum(table, S, o)
<1>1. AmountSum(other, S) = AmountSum(table, S)
  <2>. DEFINE f == [b \in S |-> table[b].amount]  g == [b \in S |-> other[b].amount]
  <2>1. DOMAIN f = S /\ DOMAIN g = S /\ \A b \in S : g[b] = f[b]
    BY DEF SameAmounts
  <2>. HIDE DEF f, g
  <2>2. SumFunction(g) = SumFunction(f)
    BY <2>1, SumsAgree
  <2>. QED  BY <2>2 DEF f, g, AmountSum
<1>2. ASSUME NEW o PROVE SharesSum(other, S, o) = SharesSum(table, S, o)
  <2>. DEFINE T == {i \in S : table[i].outcome = o}
              f == [b \in T |-> table[b].shares]
              g == [b \in {i \in S : other[i].outcome = o} |-> other[b].shares]
  <2>1. T = {i \in S : other[i].outcome = o}
    BY DEF SameAmounts
  <2>2. DOMAIN f = T /\ DOMAIN g = T /\ \A b \in T : g[b] = f[b]
    BY <2>1 DEF SameAmounts
  <2>3. IsFiniteSet(T)
    BY FS_Subset
  <2>. HIDE DEF f, g, T
  <2>4. SumFunction(g) = SumFunction(f)
    BY <2>2, <2>3, SumsAgree
  <2>. QED  BY <2>4 DEF f, g, T, SharesSum
<1>. QED  BY <1>1, <1>2

\* So do tables that agree, and they count the same bets.
LEMMA SumsOfSameBets ==
    ASSUME NEW table, NEW other, NEW S, IsFiniteSet(S), SameBets(table, other, S)
    PROVE  /\ AmountSum(other, S) = AmountSum(table, S)
           /\ \A o : SharesSum(other, S, o) = SharesSum(table, S, o)
           /\ CountedIn(other, S) = CountedIn(table, S)
BY SumsOfSameAmounts DEF SameAmounts, SameBets, CountedIn

\* Then they say the same of a participant.
LEMMA SameBetsAddUp ==
    ASSUME NEW k, NEW p, NEW w, NEW table, NEW other, NEW S, IsFiniteSet(S),
           SameBets(table, other, S), S \subseteq DOMAIN other
    PROVE  /\ BetsAddUp(k, p, table, S) => BetsAddUp(k, p, other, S)
           /\ CountedAddUp(p, table, S) => CountedAddUp(p, other, S)
           /\ PayoutOf(p, w, table, S) => PayoutOf(p, w, other, S)
<1>1. /\ AmountSum(other, S) = AmountSum(table, S)
      /\ \A o : SharesSum(other, S, o) = SharesSum(table, S, o)
      /\ CountedIn(other, S) = CountedIn(table, S)
  BY SumsOfSameBets
<1>. DEFINE T == CountedIn(table, S)
<1>2. IsFiniteSet(T) /\ SameBets(table, other, T)
  <2>1. T \subseteq S
    BY DEF CountedIn
  <2>. HIDE DEF T
  <2>. QED  BY <2>1, FS_Subset DEF SameBets
<1>. HIDE DEF T
<1>3. AmountSum(other, T) = AmountSum(table, T) /\ \A o : SharesSum(other, T, o) = SharesSum(table, T, o)
  BY <1>2, SumsOfSameBets
<1>4. [o \in Outcomes |-> SharesSum(other, T, o)] = [o \in Outcomes |-> SharesSum(table, T, o)]
  BY <1>3
<1>5. BetsAddUp(k, p, table, S) => BetsAddUp(k, p, other, S)
  BY <1>1 DEF BetsAddUp, SameBets
<1>6. CountedAddUp(p, table, S) => CountedAddUp(p, other, S)
  BY <1>1, <1>3 DEF CountedAddUp, T
<1>7. PayoutOf(p, w, table, S) => PayoutOf(p, w, other, S)
  BY <1>1, <1>4 DEF PayoutOf, T
<1>. QED  BY <1>5, <1>6, <1>7

\* One bet more, not counted.
LEMMA OneBetMore ==
    ASSUME NEW table, NEW S, IsFiniteSet(S), NEW b, b \notin S,
           \A i \in S \cup {b} : table[i].amount \in Int /\ table[i].shares \in Int,
           ~table[b].countedInProfit
    PROVE  /\ AmountSum(table, S \cup {b}) = AmountSum(table, S) + table[b].amount
           /\ \A o : SharesSum(table, S \cup {b}, o) =
                        SharesSum(table, S, o) + IF table[b].outcome = o THEN table[b].shares ELSE 0
           /\ CountedIn(table, S \cup {b}) = CountedIn(table, S)
<1>1. AmountSum(table, S \cup {b}) = AmountSum(table, S) + table[b].amount
  <2>. DEFINE f == [i \in S |-> table[i].amount]  g == [i \in S \cup {b} |-> table[i].amount]
  <2>1. /\ DOMAIN f = S /\ DOMAIN g = DOMAIN f \cup {b} /\ b \notin DOMAIN f
        /\ \A i \in DOMAIN f : f[i] \in Int
        /\ g[b] = table[b].amount /\ g[b] \in Int
        /\ \A i \in DOMAIN f \ {b} : g[i] = f[i]
    OBVIOUS
  <2>. HIDE DEF f, g
  <2>2. /\ SumFunction(g) = SumFunction(f) + g[b] - (IF b \in DOMAIN f THEN f[b] ELSE 0)
        /\ SumFunction(f) \in Int
    BY <2>1, SumPut
  <2>3. SumFunction(g) = SumFunction(f) + g[b]
    BY <2>1, <2>2
  <2>. QED  BY <2>1, <2>3 DEF f, g, AmountSum
<1>2. ASSUME NEW o
      PROVE  SharesSum(table, S \cup {b}, o) =
                 SharesSum(table, S, o) + IF table[b].outcome = o THEN table[b].shares ELSE 0
  <2>. DEFINE T == {i \in S : table[i].outcome = o}
              U == {i \in S \cup {b} : table[i].outcome = o}
              f == [i \in T |-> table[i].shares]
              g == [i \in U |-> table[i].shares]
  <2>0. IsFiniteSet(T)
    BY FS_Subset
  <2>1. /\ DOMAIN f = T /\ DOMAIN g = U /\ b \notin T
        /\ \A i \in T : f[i] \in Int /\ g[i] = f[i]
        /\ U = IF table[b].outcome = o THEN T \cup {b} ELSE T
        /\ b \in U => g[b] = table[b].shares /\ g[b] \in Int
    OBVIOUS
  <2>. HIDE DEF f, g, T, U
  <2>2. SumFunction(f) \in Int
    BY <2>0, <2>1, SumFunctionType
  <2>3. CASE table[b].outcome = o
    <3>1. SumFunction(g) = SumFunction(f) + g[b] - (IF b \in DOMAIN f THEN f[b] ELSE 0)
      BY <2>0, <2>1, <2>3, SumPut
    <3>2. SumFunction(g) = SumFunction(f) + table[b].shares
      BY <2>1, <2>2, <2>3, <3>1
    <3>. QED  BY <2>3, <3>2 DEF f, g, T, U, SharesSum
  <2>4. CASE table[b].outcome # o BY <2>0, <2>1, <2>4, SumsAgree, <2>2 DEF f, g, T, U, SharesSum
  <2>. QED  BY <2>3, <2>4
<1>3. CountedIn(table, S \cup {b}) = CountedIn(table, S)
  BY DEF CountedIn
<1>. QED  BY <1>1, <1>2, <1>3

\* No bets add up to nothing.
LEMMA NoBets ==
    ASSUME NEW table
    PROVE  /\ AmountSum(table, {}) = 0 /\ CountedIn(table, {}) = {}
           /\ \A o : SharesSum(table, {}, o) = 0
<1>. DEFINE f == [b \in {} |-> table[b].amount]
<1>1. DOMAIN f = {}
  OBVIOUS
<1>. HIDE DEF f
<1>2. SumFunction(f) = 0
  BY <1>1, SumOfNone
<1>3. ASSUME NEW o PROVE SharesSum(table, {}, o) = 0
  <2>. DEFINE g == [b \in {i \in {} : table[i].outcome = o} |-> table[b].shares]
  <2>1. DOMAIN g = {}
    OBVIOUS
  <2>. HIDE DEF g
  <2>2. SumFunction(g) = 0
    BY <2>1, SumOfNone
  <2>. QED  BY <2>2 DEF g, SharesSum
<1>. QED  BY <1>2, <1>3 DEF f, AmountSum, CountedIn

\* What a participant's row, or the new one, says of its bets.
RowOfBets(k, row) ==
    /\ row.shares \in [Outcomes -> Int] /\ row.settled \in BOOLEAN
    /\ ~row.settled => row.expectedPayout = 0 /\ row.totalTradedSettled = 0
    /\ row.bets \subseteq DOMAIN bet
    /\ \A b \in row.bets : bet[b].bettor = k[1] /\ bet[b].condition = k[2]
    /\ row.totalTraded = AmountSum(bet, row.bets)
    /\ \A o \in Outcomes : row.shares[o] = SharesSum(bet, row.bets, o)
    /\ CountedAddUp(row, bet, row.bets) /\ PayoutOf(row, resolution[k[2]].winner, bet, row.bets)
    /\ DayLists(k, row)

\* A loaded row says it of its bets, a new one of none.
LEMMA LoadedBets ==
    ASSUME Holdings, Bets, NEW k PROVE RowOfBets(k, LoadOr(participant, k, NewParticipant))
<1>1. CASE k \in DOMAIN participant BY <1>1 DEF Holdings, Bets, BetsAddUp, RowOfBets, LoadOr
<1>2. CASE k \notin DOMAIN participant
  <2>. DEFINE row == NewParticipant
  <2>1. /\ row.shares = [o \in Outcomes |-> 0] /\ row.settled = FALSE /\ row.bets = {}
        /\ row.expectedPayout = 0 /\ row.totalTradedSettled = 0 /\ row.totalTraded = 0
    BY DEF NewParticipant
  <2>. HIDE DEF row
  <2>2. /\ AmountSum(bet, {}) = 0 /\ CountedIn(bet, {}) = {}
        /\ \A o \in Outcomes : SharesSum(bet, {}, o) = 0 /\ row.shares[o] = 0
        /\ row.shares \in [Outcomes -> Int]
    BY <2>1, NoBets
  <2>3. CountedAddUp(row, bet, {})
    BY <2>1, <2>2 DEF CountedAddUp
  <2>4. PayoutOf(row, resolution[k[2]].winner, bet, {}) /\ DayLists(k, row)
    BY <2>1 DEF PayoutOf, DayLists
  <2>5. RowOfBets(k, row)
    BY <2>1, <2>2, <2>3, <2>4 DEF RowOfBets
  <2>. QED  BY <1>2, <2>5 DEF LoadOr, row
<1>. QED  BY <1>1, <1>2

\* A fill takes no market from a day.
LEMMA FillKeepsProfits ==
    ASSUME IInv, Numbers, DayRows, NEW a, NEW c, NEW o, NEW x \in Fills, Filled(a, c, o, x)
    PROVE  ProfitsKept
<1>. DEFINE day == <<a, Day(now)>>
            row == LoadOr(daily, day, NewDay)
            C == {DayCounter(y) : y \in Tallies}
            new == Add(row, Traded(x.amount))
<1>1. daily' = Put(daily, day, new) /\ x.amount \in Int
  BY PolyFills DEF Filled, processTradeActivity, Traded
<1>2. /\ DOMAIN row = DayFields
      /\ \A y \in Tallies : row[DayCounter(y)] \in Int
  BY LoadedDay
<1>3. day \in DOMAIN daily => row = daily[day]
  BY DEF LoadOr
<1>4. /\ C \subseteq DayFields /\ "totalBets" \in DayFields /\ "totalTraded" \in DayFields
      /\ "profitParticipants" \in DayFields
  BY DEF DayFields, DayCounter, Tallies
<1>. HIDE DEF row
<1>5. \A y \in C : row[y] \in Int
  BY <1>2
<1>. HIDE DEF C
<1>6. new.profitParticipants = row.profitParticipants
  BY ONLY <1>2, <1>4 DEF Add, Traded
<1>. HIDE DEF new, day
<1>. QED  BY <1>1, <1>3, <1>6 DEF Put, ProfitsKept

\* A settled participant's day goes on to list its market.
LEMMA DayListsKept ==
    ASSUME ProfitsKept, NEW k, DayLists(k, participant[k]),
           participant'[k].settled = participant[k].settled,
           participant[k].settled => /\ k[2] \in DOMAIN resolution'
                                     /\ resolution'[k[2]] = resolution[k[2]]
    PROVE  DayLists(k, participant[k])'
<1>. DEFINE day == <<k[1], Day(resolution[k[2]].at)>>
<1>. SUFFICES ASSUME participant[k].settled
              PROVE  /\ k[2] \in DOMAIN resolution'
                     /\ <<k[1], Day(resolution'[k[2]].at)>> \in DOMAIN daily'
                     /\ k[2] \in daily'[<<k[1], Day(resolution'[k[2]].at)>>].profitParticipants
  BY DEF DayLists, Day
<1>1. /\ k[2] \in DOMAIN resolution' /\ resolution'[k[2]] = resolution[k[2]]
      /\ day \in DOMAIN daily /\ k[2] \in daily[day].profitParticipants
  BY DEF DayLists
<1>2. /\ day \in DOMAIN daily'
      /\ daily[day].profitParticipants \subseteq daily'[day].profitParticipants
  BY <1>1 DEF ProfitsKept
<1>. QED  BY <1>1, <1>2

\* A participant that a step does not touch, nor its bets, keeps what is said of them.
LEMMA ParticipantKept ==
    ASSUME Bets, BetRows', ProfitsKept, NEW k \in DOMAIN participant,
           participant'[k] = participant[k], DOMAIN bet \subseteq DOMAIN bet',
           SameBets(bet, bet', participant[k].bets),
           participant[k].settled => /\ k[2] \in DOMAIN resolution'
                                     /\ resolution'[k[2]] = resolution[k[2]]
    PROVE  LET p == participant'[k] IN
           /\ BetsAddUp(k, p, bet', p.bets) /\ CountedAddUp(p, bet', p.bets)
           /\ PayoutOf(p, resolution'[k[2]].winner, bet', p.bets)
           /\ DayLists(k, participant[k])'
<1>. DEFINE p == participant[k]  S == p.bets  w == resolution[k[2]].winner
<1>1. /\ BetsAddUp(k, p, bet, S) /\ CountedAddUp(p, bet, S) /\ PayoutOf(p, w, bet, S)
      /\ DayLists(k, p)
  BY DEF Bets
<1>2. S \subseteq DOMAIN bet /\ IsFiniteSet(S) /\ S \subseteq DOMAIN bet'
  BY <1>1, FS_Subset DEF BetsAddUp, Bets, BetRows
<1>3. DayLists(k, participant[k])'
  BY <1>1, DayListsKept
<1>4. p.settled => w = resolution'[k[2]].winner
  OBVIOUS
<1>. HIDE DEF p, S, w
<1>5. SameBets(bet, bet', S)
  BY DEF S, p
<1>6. BetsAddUp(k, p, bet', S) /\ CountedAddUp(p, bet', S) /\ PayoutOf(p, w, bet', S)
  BY <1>1, <1>2, <1>5, SameBetsAddUp
<1>7. PayoutOf(p, resolution'[k[2]].winner, bet', S)
  BY <1>4, <1>6 DEF PayoutOf
<1>. QED  BY <1>3, <1>6, <1>7 DEF p, S

\* The shares stay integers.
LEMMA FilledSharesType ==
    ASSUME NEW row, DOMAIN row = ParticipantFields, NEW n, NEW b, NEW o \in Outcomes,
           NEW shares \in Int, row.shares \in [Outcomes -> Int]
    PROVE  FilledRow(row, n, b, o, shares).shares \in [Outcomes -> Int]
<1>. DEFINE sum == Add(row, Traded(n))
<1>1. DOMAIN sum = ParticipantFields /\ sum.shares = row.shares
  BY DEF Add, Traded, ParticipantFields, NoTotals
<1>2. FilledRow(row, n, b, o, shares)
          = [sum EXCEPT !.bets = @ \cup {b}, !.shares[o] = @ + shares]
  BY DEF FilledRow, Traded
<1>3. "bets" \in ParticipantFields /\ "shares" \in ParticipantFields
  BY DEF ParticipantFields
<1>. HIDE DEF sum
<1>4. FilledRow(row, n, b, o, shares).shares = [sum.shares EXCEPT ![o] = @ + shares]
  BY <1>1, <1>2, <1>3
<1>. QED  BY <1>1, <1>4

\* A fill adds its bet to the bettor's participant, and to nobody's settlement.
LEMMA FillKeepsBets ==
    ASSUME IInv, Numbers, DayRows, Holdings, Bets, NEW a \in Safes, NEW c, NEW o, NEW x \in Fills,
           Filled(a, c, o, x), NEW d, d = tokenRegistry[<<c, o>>].condition,
           NEW out \in Outcomes, out = tokenRegistry[<<c, o>>].outcome
    PROVE  Holdings' /\ Bets'
<1>. DEFINE k == <<a, d>>
            b == Cardinality(DOMAIN bet)
            old == LoadOr(participant, k, NewParticipant)
            S == old.bets
            w == resolution[d].winner
            new == FilledRow(old, x.amount, b, out, x.shares)
            made == [bettor |-> a, condition |-> d, outcome |-> out, amount |-> x.amount,
                     shares |-> x.shares, countedInProfit |-> FALSE]
<1>1. /\ bet' = Put(bet, b, made) /\ participant' = Put(participant, k, new)
      /\ UNCHANGED resolution
      /\ x.amount \in Int /\ x.shares \in Int
  BY PolyFills DEF Filled, processTradeActivity, FilledRow, markets
<1>2. IsFiniteSet(DOMAIN bet) /\ b \in Nat /\ DOMAIN bet = 0 .. b - 1 /\ b \notin DOMAIN bet
  BY FS_CardinalityType DEF Bets, BetRows
<1>3. /\ DOMAIN bet' = DOMAIN bet \cup {b} /\ bet'[b] = made
      /\ \A i \in DOMAIN bet : bet'[i] = bet[i]
  <2>. HIDE DEF b, made
  <2>. QED  BY <1>1, <1>2 DEF Put
<1>4. BetRows'
  <2>1. IsFiniteSet(DOMAIN bet') /\ Cardinality(DOMAIN bet') = b + 1
    <3>1. /\ IsFiniteSet(DOMAIN bet \cup {b})
          /\ Cardinality(DOMAIN bet \cup {b}) = Cardinality(DOMAIN bet) + 1
      BY ONLY <1>2, FS_AddElement
    <3>. HIDE DEF made
    <3>. QED  BY <1>3, <3>1
  <2>2. DOMAIN bet' = 0 .. (b + 1) - 1
    <3>. HIDE DEF b
    <3>. QED  BY <1>2, <1>3
  <2>3. /\ DOMAIN made = BetFields /\ made.outcome \in Outcomes
        /\ made.amount \in Int /\ made.shares \in Int /\ made.countedInProfit \in BOOLEAN
    BY <1>1 DEF BetFields
  <2>. HIDE DEF made, b
  <2>4. ASSUME NEW i \in DOMAIN bet'
        PROVE  /\ DOMAIN bet'[i] = BetFields /\ bet'[i].outcome \in Outcomes
               /\ bet'[i].amount \in Int /\ bet'[i].shares \in Int
               /\ bet'[i].countedInProfit \in BOOLEAN
    BY <1>3, <2>3 DEF Bets, BetRows
  <2>. QED  BY <2>1, <2>2, <2>4 DEF BetRows
<1>5. RowOfBets(k, old)
  BY LoadedBets
<1>6. /\ DOMAIN old = ParticipantFields
      /\ \A y \in AgentCounters : old[ParticipantCounter(y)] \in Int
  BY LoadedParticipant
<1>. HIDE DEF old
<1>7. /\ new.shares \in [Outcomes -> Int]
      /\ \A i \in Outcomes : new.shares[i] = IF i = out THEN old.shares[i] + x.shares
                                             ELSE old.shares[i]
  <2>. DEFINE n == x.amount  shares == x.shares
  <2>0. old.shares \in [Outcomes -> Int] /\ out \in Outcomes /\ shares \in Int
    BY <1>1, <1>5 DEF RowOfBets
  <2>. HIDE DEF b, n, shares
  <2>. DEFINE next == FilledRow(old, n, b, out, shares)
  <2>1. /\ DOMAIN next.shares = Outcomes
        /\ \A i \in Outcomes : next.shares[i] = IF i = out THEN old.shares[i] + shares
                                                ELSE old.shares[i]
    BY ONLY <1>6, <2>0, FilledRowShares
  <2>2. new = next
    BY DEF n, shares
  <2>3. /\ DOMAIN new.shares = Outcomes
        /\ \A i \in Outcomes : new.shares[i] = IF i = out THEN old.shares[i] + shares
                                               ELSE old.shares[i]
    BY <2>1, <2>2
  <2>4. new.shares \in [Outcomes -> Int]
    BY ONLY <1>6, <2>0, <2>2, FilledSharesType
  <2>. HIDE DEF new, next
  <2>. QED  BY <2>3, <2>4 DEF shares
<1>8. /\ new.bets = S \cup {b} /\ new.settled = old.settled
      /\ new.expectedPayout = old.expectedPayout
      /\ new.totalTradedSettled = old.totalTradedSettled
      /\ new.totalTraded = old.totalTraded + x.amount
  <2>. DEFINE n == x.amount  shares == x.shares
  <2>. HIDE DEF b, n, shares
  <2>. DEFINE next == FilledRow(old, n, b, out, shares)
  <2>1. n \in Int
    BY <1>1 DEF n
  <2>2. /\ \A y \in AgentCounters :
              next[ParticipantCounter(y)] = old[ParticipantCounter(y)] + FillAmounts(n)[y]
        /\ next.bets = old.bets \cup {b} /\ next.settled = old.settled
    BY ONLY <1>6, <2>1, FilledRowValues
  <2>3. /\ next.expectedPayout = old.expectedPayout
        /\ next.totalTradedSettled = old.totalTradedSettled
    BY ONLY <1>6, FillKeeps
  <2>4. /\ "totalTraded" \in AgentCounters /\ ParticipantCounter("totalTraded") = "totalTraded"
        /\ FillAmounts(n)["totalTraded"] = n
    BY DEF AgentCounters, Tallies, ParticipantCounter, FillAmounts
  <2>5. next.totalTraded = old.totalTraded + n
    <3>. HIDE DEF next
    <3>. QED  BY <2>2, <2>4
  <2>. QED  BY <2>2, <2>3, <2>5 DEF n, shares
<1>. HIDE DEF new
<1>9. /\ S \subseteq DOMAIN bet /\ IsFiniteSet(S) /\ b \notin S /\ SameBets(bet, bet', S)
  <2>1. S \subseteq DOMAIN bet
    BY <1>5 DEF RowOfBets
  <2>. HIDE DEF S, b
  <2>. QED  BY <1>2, <1>3, <2>1, FS_Subset DEF SameBets
<1>10. /\ AmountSum(bet', S \cup {b}) = AmountSum(bet, S) + x.amount
       /\ \A i \in Outcomes : SharesSum(bet', S \cup {b}, i) =
                               SharesSum(bet, S, i) + IF out = i THEN x.shares ELSE 0
       /\ CountedIn(bet', S \cup {b}) = CountedIn(bet', S)
  <2>1. /\ bet'[b].amount = x.amount /\ bet'[b].shares = x.shares /\ bet'[b].outcome = out
        /\ bet'[b].countedInProfit = FALSE
    BY <1>3
  <2>. HIDE DEF S, b
  <2>2. \A i \in S \cup {b} : bet'[i].amount \in Int /\ bet'[i].shares \in Int
    BY <1>3, <1>4, <1>9 DEF BetRows
  <2>3. /\ AmountSum(bet', S) = AmountSum(bet, S)
        /\ \A i : SharesSum(bet', S, i) = SharesSum(bet, S, i)
    BY <1>9, SumsOfSameBets
  <2>4. ~bet'[b].countedInProfit
    BY <2>1
  <2>5. /\ AmountSum(bet', S \cup {b}) = AmountSum(bet', S) + bet'[b].amount
        /\ \A i : SharesSum(bet', S \cup {b}, i) =
                     SharesSum(bet', S, i) + IF bet'[b].outcome = i THEN bet'[b].shares ELSE 0
        /\ CountedIn(bet', S \cup {b}) = CountedIn(bet', S)
    BY <1>9, <2>2, <2>4, OneBetMore
  <2>. QED  BY <2>1, <2>3, <2>5
<1>11. /\ CountedAddUp(old, bet', S) /\ PayoutOf(old, w, bet', S)
  <2>1. CountedAddUp(old, bet, S) /\ PayoutOf(old, w, bet, S)
    BY <1>5 DEF RowOfBets
  <2>2. S \subseteq DOMAIN bet'
    BY <1>3, <1>9
  <2>. HIDE DEF S, w
  <2>. QED  BY <1>9, <2>1, <2>2, SameBetsAddUp
<1>12. BetsAddUp(k, new, bet', S \cup {b})
  <2>1. /\ \A i \in S : bet[i].bettor = a /\ bet[i].condition = d
        /\ old.totalTraded = AmountSum(bet, S)
        /\ \A i \in Outcomes : old.shares[i] = SharesSum(bet, S, i) /\ old.shares[i] \in Int
    BY <1>5 DEF RowOfBets
  <2>2. bet'[b].bettor = a /\ bet'[b].condition = d
    BY <1>3
  <2>. HIDE DEF S, b
  <2>3. \A i \in S \cup {b} : bet'[i].bettor = k[1] /\ bet'[i].condition = k[2]
    BY <1>3, <1>9, <2>1, <2>2
  <2>4. new.totalTraded = AmountSum(bet', S \cup {b})
    BY <1>8, <1>10, <2>1
  <2>5. \A i \in Outcomes : new.shares[i] = SharesSum(bet', S \cup {b}, i)
    <3>1. ASSUME NEW i \in Outcomes PROVE new.shares[i] = SharesSum(bet', S \cup {b}, i)
      <4>1. old.shares[i] \in Int /\ old.shares[i] = SharesSum(bet, S, i)
        BY <2>1
      <4>2. CASE i = out
        BY <1>7, <1>10, <4>1, <4>2
      <4>3. CASE i # out
        <5>1. SharesSum(bet', S \cup {b}, i) = SharesSum(bet, S, i) + 0
          BY <1>10, <4>3
        <5>. QED  BY <1>7, <4>1, <4>3, <5>1
      <4>. QED  BY <4>2, <4>3
    <3>. QED  BY <3>1
  <2>. QED  BY <1>3, <1>9, <2>3, <2>4, <2>5 DEF BetsAddUp
<1>13. CountedAddUp(new, bet', S \cup {b}) /\ PayoutOf(new, w, bet', S \cup {b})
  <2>. HIDE DEF S, b, w
  <2>. QED  BY <1>8, <1>10, <1>11 DEF CountedAddUp, PayoutOf
<1>14. ProfitsKept
  BY FillKeepsProfits
<1>. HIDE DEF b
<1>15. /\ DOMAIN participant' = DOMAIN participant \cup {k} /\ participant'[k] = new
       /\ \A j \in DOMAIN participant \ {k} : participant'[j] = participant[j]
  BY <1>1 DEF Put
<1>16. DayLists(k, participant[k])'
  <2>. DEFINE day == <<a, Day(resolution[d].at)>>
  <2>1. new.settled => /\ d \in DOMAIN resolution /\ day \in DOMAIN daily
                       /\ d \in daily[day].profitParticipants
    BY <1>5, <1>8 DEF RowOfBets, DayLists
  <2>2. new.settled => day \in DOMAIN daily' /\ d \in daily'[day].profitParticipants
    BY <1>14, <2>1 DEF ProfitsKept
  <2>. QED  BY <1>1, <1>15, <2>1, <2>2 DEF DayLists, Day
<1>17. Holdings'
  <2>1. ASSUME NEW j \in DOMAIN participant'
        PROVE  /\ participant'[j].shares \in [Outcomes -> Int]
               /\ participant'[j].settled \in BOOLEAN
               /\ ~participant'[j].settled => /\ participant'[j].expectedPayout = 0
                                              /\ participant'[j].totalTradedSettled = 0
    BY <1>5, <1>7, <1>8, <1>15 DEF RowOfBets, Holdings
  <2>. QED  BY <2>1 DEF Holdings
<1>18. ASSUME NEW j \in DOMAIN participant', NEW p, p = participant'[j]
       PROVE  /\ BetsAddUp(j, p, bet', p.bets) /\ CountedAddUp(p, bet', p.bets)
              /\ PayoutOf(p, resolution'[j[2]].winner, bet', p.bets)
              /\ DayLists(j, participant[j])'
  <2>1. CASE j = k
    <3>1. p = new /\ resolution'[j[2]].winner = w
      BY <1>1, <1>15, <1>18, <2>1
    <3>. HIDE DEF S, k, w
    <3>. QED  BY <1>8, <1>12, <1>13, <1>16, <2>1, <3>1
  <2>2. CASE j # k
    <3>1. j \in DOMAIN participant /\ participant'[j] = participant[j]
      BY <1>15, <2>2
    <3>2. DOMAIN bet \subseteq DOMAIN bet' /\ SameBets(bet, bet', participant[j].bets)
      BY <1>3, <3>1 DEF SameBets, Bets, BetsAddUp
    <3>3. participant[j].settled => j[2] \in DOMAIN resolution' /\ resolution'[j[2]] = resolution[j[2]]
      BY <1>1, <3>1 DEF Bets, DayLists
    <3>. QED  BY <1>4, <1>14, <1>18, <3>1, <3>2, <3>3, ParticipantKept
  <2>. QED  BY <2>1, <2>2
<1>19. Bets'
  BY <1>4, <1>18 DEF Bets, DayLists, Day
<1>. QED  BY <1>17, <1>19

Others == {"totalTraderAgents", "totalActiveTraderAgents", "totalMarketsParticipated"}

\* The counters of the global row that are no sums.
LEMMA OtherFields == /\ GlobalFields \ AgentCounters = Others
                     /\ GlobalFields = AgentCounters \cup Others
                     /\ "totalBets" \notin Others /\ "totalTraded" \notin Others
BY DEF GlobalFields, AgentCounters, Tallies, Others

\* A fill counts its agent when it was not active, and its market when it is new.
LEMMA FillCounts ==
    ASSUME IInv, Numbers, DayRows, Counts, NEW a \in Safes, NEW c, NEW o, NEW x \in Fills,
           Filled(a, c, o, x)
    PROVE  Counts' /\ \A y \in GlobalFields \ AgentCounters : global'[y] \in Int
<1>. DEFINE d == tokenRegistry[<<c, o>>].condition
            k == <<a, d>>
            old == LoadOr(participant, k, NewParticipant)
            new == FilledRow(old, x.amount, Cardinality(DOMAIN bet), tokenRegistry[<<c, o>>].outcome,
                             x.shares)
            added == Add(traderAgent[a], Traded(x.amount))
            sum == Add(global, Traded(x.amount))
            counted == Counted(a, k, d)
<1>1. /\ a \in DOMAIN traderAgent /\ x.amount \in Int
      /\ global' = Add(sum, counted)
      /\ traderAgent' = [traderAgent EXCEPT ![a] = [added EXCEPT !.active = TRUE]]
      /\ participant' = Put(participant, k, new)
      /\ marketParticipated' = marketParticipated \cup {d}
  BY PolyFills DEF Filled, processTradeActivity, Traded, FilledRow, Counted
<1>2. /\ DOMAIN global = GlobalFields /\ DOMAIN sum = GlobalFields
      /\ \A y \in Others : sum[y] = global[y] /\ global[y] \in Int
  BY OtherFields DEF DayRows, Numbers, Add, Traded
<1>. HIDE DEF sum
<1>3. /\ global'.totalTraderAgents = global.totalTraderAgents
      /\ global'.totalActiveTraderAgents = global.totalActiveTraderAgents
             + IF traderAgent[a].active THEN 0 ELSE 1
      /\ global'.totalMarketsParticipated = global.totalMarketsParticipated
             + IF k \in DOMAIN participant THEN 0 ELSE NewMarkets(d)
  <2>1. \A y \in Others : y \in DOMAIN sum
    BY <1>2, OtherFields
  <2>2. /\ counted.totalActiveTraderAgents = IF traderAgent[a].active THEN 0 ELSE 1
        /\ counted.totalMarketsParticipated = IF k \in DOMAIN participant THEN 0 ELSE NewMarkets(d)
        /\ DOMAIN counted = {"totalActiveTraderAgents", "totalMarketsParticipated"}
    BY DEF Counted
  <2>. HIDE DEF counted, k, d
  <2>3. \A y \in Others : Add(sum, counted)[y] =
           IF y \in DOMAIN counted THEN sum[y] + counted[y] ELSE sum[y]
    BY <2>1 DEF Add
  <2>. QED  BY <1>1, <1>2, <2>2, <2>3 DEF Others
<1>4. \A i \in DOMAIN traderAgent : traderAgent[i].active \in BOOLEAN
  BY DEF Counts
<1>5. /\ DOMAIN traderAgent' = DOMAIN traderAgent /\ traderAgent'[a].active = TRUE
      /\ \A i \in DOMAIN traderAgent \ {a} : traderAgent'[i] = traderAgent[i]
  <2>1. "active" \in DOMAIN added
    BY <1>1 DEF Add, IInv, Rows, AgentFields
  <2>. HIDE DEF added
  <2>. QED  BY <1>1, <2>1
<1>6. /\ IsFiniteSet(DOMAIN traderAgent) /\ IsFiniteSet(ActiveAgents)
      /\ IsFiniteSet(MarketsOf)
  BY FS_Subset DEF Numbers, ActiveAgents, Counts
<1>7. ActiveAgents' = ActiveAgents \cup {a}
  BY <1>1, <1>5 DEF ActiveAgents
<1>8. global'.totalActiveTraderAgents = Cardinality(ActiveAgents')
  <2>1. global.totalActiveTraderAgents = Cardinality(ActiveAgents)
    BY DEF Counts
  <2>2. Cardinality(ActiveAgents) \in Nat
    BY <1>6, FS_CardinalityType
  <2>3. Cardinality(ActiveAgents \cup {a}) =
           IF a \in ActiveAgents THEN Cardinality(ActiveAgents) ELSE Cardinality(ActiveAgents) + 1
    BY <1>6, FS_AddElement
  <2>4. a \in ActiveAgents <=> traderAgent[a].active
    BY <1>1 DEF ActiveAgents
  <2>5. CASE traderAgent[a].active
    BY <1>3, <1>7, <2>1, <2>2, <2>3, <2>4, <2>5
  <2>6. CASE ~traderAgent[a].active
    BY <1>3, <1>7, <2>1, <2>2, <2>3, <2>4, <2>6
  <2>. QED  BY <2>5, <2>6
<1>9. MarketsOf' = MarketsOf \cup {d}
  <2>1. DOMAIN participant' = DOMAIN participant \cup {k}
    BY <1>1 DEF Put
  <2>2. k[2] = d
    OBVIOUS
  <2>. HIDE DEF k, d
  <2>3. MarketsOf' = {j[2] : j \in DOMAIN participant'}
    BY DEF MarketsOf
  <2>4. MarketsOf' \subseteq MarketsOf \cup {d}
    <3>. SUFFICES ASSUME NEW m \in MarketsOf' PROVE m \in MarketsOf \cup {d}
      OBVIOUS
    <3>1. PICK j \in DOMAIN participant' : m = j[2]
      BY <2>3
    <3>. QED  BY <2>1, <2>2, <3>1 DEF MarketsOf
  <2>5. ASSUME NEW m \in MarketsOf PROVE m \in MarketsOf' BY <2>1, <2>3 DEF MarketsOf
  <2>6. d \in MarketsOf' BY <2>1, <2>2, <2>3
  <2>. QED  BY <2>4, <2>5, <2>6
<1>10. global'.totalMarketsParticipated = Cardinality(MarketsOf')
  <2>1. /\ global.totalMarketsParticipated = Cardinality(MarketsOf)
        /\ marketParticipated = MarketsOf
    BY DEF Counts
  <2>2. Cardinality(MarketsOf) \in Nat
    BY <1>6, FS_CardinalityType
  <2>3. Cardinality(MarketsOf \cup {d}) =
           IF d \in MarketsOf THEN Cardinality(MarketsOf) ELSE Cardinality(MarketsOf) + 1
    BY <1>6, FS_AddElement
  <2>4. k \in DOMAIN participant => d \in MarketsOf
    BY DEF MarketsOf
  <2>5. NewMarkets(d) = IF d \in MarketsOf THEN 0 ELSE 1
    BY <2>1 DEF NewMarkets
  <2>. HIDE DEF k, d
  <2>6. CASE d \in MarketsOf
    BY <1>3, <1>9, <2>1, <2>2, <2>3, <2>4, <2>5, <2>6
  <2>7. CASE d \notin MarketsOf
    BY <1>3, <1>9, <2>1, <2>2, <2>3, <2>4, <2>5, <2>7
  <2>. QED  BY <2>6, <2>7
<1>11. Counts'
  <2>1. marketParticipated' = MarketsOf' /\ IsFiniteSet(MarketsOf')
    BY <1>1, <1>6, <1>9, FS_AddElement DEF Counts
  <2>2. global'.totalTraderAgents = Cardinality(DOMAIN traderAgent')
    BY <1>3, <1>5 DEF Counts
  <2>3. \A i \in DOMAIN traderAgent' : traderAgent'[i].active \in BOOLEAN
    BY <1>4, <1>5
  <2>. QED  BY <1>8, <1>10, <2>1, <2>2, <2>3 DEF Counts
<1>12. \A y \in Others : global'[y] \in Int
  <2>1. /\ IsFiniteSet(ActiveAgents') /\ IsFiniteSet(MarketsOf')
    BY <1>6, <1>7, <1>9, FS_AddElement
  <2>2. /\ Cardinality(ActiveAgents') \in Nat /\ Cardinality(MarketsOf') \in Nat
        /\ Cardinality(DOMAIN traderAgent') \in Nat
    BY <1>5, <1>6, <2>1, FS_CardinalityType
  <2>3. /\ global'.totalTraderAgents \in Int /\ global'.totalActiveTraderAgents \in Int
        /\ global'.totalMarketsParticipated \in Int
    BY <1>11, <2>2 DEF Counts
  <2>. QED  BY <2>3 DEF Others
<1>. QED  BY <1>11, <1>12, OtherFields

BetsFields == {"shares", "expectedPayout", "settled", "bets", "totalTraded", "totalTradedSettled"}

\* Steps that change no bet, nothing that was settled and no shares.
LEMMA UntouchedBets ==
    ASSUME Bets, Holdings, ProfitsKept, UNCHANGED <<bet, resolution>>,
           DOMAIN participant' = DOMAIN participant,
           \A k \in DOMAIN participant, f \in BetsFields : participant'[k][f] = participant[k][f]
    PROVE  Bets' /\ Holdings'
<1>1. ASSUME NEW k \in DOMAIN participant, NEW p, p = participant'[k]
      PROVE  /\ BetsAddUp(k, p, bet', p.bets) /\ CountedAddUp(p, bet', p.bets)
             /\ PayoutOf(p, resolution'[k[2]].winner, bet', p.bets)
             /\ DayLists(k, participant[k])'
  <2>. DEFINE q == participant[k]
  <2>1. /\ p.shares = q.shares /\ p.expectedPayout = q.expectedPayout /\ p.settled = q.settled
        /\ p.bets = q.bets /\ p.totalTraded = q.totalTraded
        /\ p.totalTradedSettled = q.totalTradedSettled
    BY <1>1 DEF BetsFields
  <2>2. /\ BetsAddUp(k, q, bet, q.bets) /\ CountedAddUp(q, bet, q.bets)
        /\ PayoutOf(q, resolution[k[2]].winner, bet, q.bets) /\ DayLists(k, q)
    BY DEF Bets
  <2>3. DayLists(k, participant[k])' BY <2>2, <1>1, <2>1, DayListsKept DEF DayLists
  <2>. HIDE DEF q
  <2>. QED  BY <2>1, <2>2, <2>3 DEF BetsAddUp, CountedAddUp, PayoutOf
<1>2. BetRows'
  BY DEF Bets, BetRows
<1>3. Bets'
  BY <1>1, <1>2 DEF Bets, DayLists, Day
<1>4. ASSUME NEW k \in DOMAIN participant'
      PROVE  /\ participant'[k].shares \in [Outcomes -> Int] /\ participant'[k].settled \in BOOLEAN
             /\ ~participant'[k].settled => /\ participant'[k].expectedPayout = 0
                                            /\ participant'[k].totalTradedSettled = 0
  BY DEF Holdings, BetsFields
<1>. QED  BY <1>3, <1>4 DEF Holdings

\* Resolutions and claims leave the counts.
LEMMA CountsUntouched ==
    ASSUME Counts, Numbers, CountsKept, DOMAIN global = GlobalFields, UNCHANGED marketParticipated,
           DOMAIN participant' = DOMAIN participant
    PROVE  Counts' /\ \A y \in GlobalFields \ AgentCounters : global'[y] \in Int
BY OtherFields DEF CountsKept, Numbers, ActiveAgents, MarketsOf, Counts, Others

\* A settlement counts the bets of its participants, all of them, and no other.
LEMMA SettlementKeepsBets ==
    ASSUME IInv, Numbers, DayRows, Holdings, Bets, NEW c, NEW w, SettleParticipants(c, w),
           c \notin DOMAIN resolution,
           resolution' = Put(resolution, c, [winner |-> w, at |-> now])
    PROVE  Holdings' /\ Bets'
<1>. DEFINE due == ToSettle(c)
            chosen == UNION {participant[k].bets : k \in due}
<1>1. /\ participant' = [k \in DOMAIN participant |->
                           IF k \in due THEN Settled(participant[k], w) ELSE participant[k]]
      /\ bet' = [b \in DOMAIN bet |->
                    IF b \in chosen THEN [bet[b] EXCEPT !.countedInProfit = TRUE] ELSE bet[b]]
  BY DEF SettleParticipants
<1>2. /\ Booking(c, Day(now), SettledBooks(c, w)) /\ ProfitsKept
      /\ \A k \in due : c \in daily'[<<k[1], Day(now)>>].profitParticipants
  BY SettlementBooks
<1>3. \A k \in due : k \in DOMAIN participant /\ k[2] = c /\ ~participant[k].settled
  BY DEF ToSettle
<1>4. /\ DOMAIN resolution' = DOMAIN resolution \cup {c} /\ resolution'[c].winner = w
      /\ resolution'[c].at = now
      /\ \A e \in DOMAIN resolution : resolution'[e] = resolution[e]
  BY DEF Put
<1>. HIDE DEF due, chosen
<1>5. ASSUME NEW b \in DOMAIN bet
      PROVE  /\ DOMAIN bet'[b] = BetFields /\ bet'[b].bettor = bet[b].bettor
             /\ bet'[b].condition = bet[b].condition /\ bet'[b].outcome = bet[b].outcome
             /\ bet'[b].amount = bet[b].amount /\ bet'[b].shares = bet[b].shares
             /\ b \in chosen => bet'[b].countedInProfit = TRUE
             /\ b \notin chosen => bet'[b] = bet[b]
  <2>1. DOMAIN bet[b] = BetFields
    BY DEF Bets, BetRows
  <2>2. bet'[b] = IF b \in chosen THEN [bet[b] EXCEPT !.countedInProfit = TRUE] ELSE bet[b]
    BY <1>1
  <2>. DEFINE row == bet[b]  more == [row EXCEPT !.countedInProfit = TRUE]
  <2>3. /\ DOMAIN more = BetFields /\ more.bettor = row.bettor /\ more.condition = row.condition
        /\ more.outcome = row.outcome /\ more.amount = row.amount /\ more.shares = row.shares
        /\ more.countedInProfit = TRUE
    <3>. HIDE DEF row
    <3>1. DOMAIN row = BetFields
      BY <2>1 DEF row
    <3>. QED  BY <3>1 DEF BetFields
  <2>. HIDE DEF more
  <2>4. CASE b \in chosen BY <2>2, <2>4, <2>3 DEF more
  <2>5. CASE b \notin chosen
    BY <2>1, <2>2, <2>5
  <2>. QED  BY <2>4, <2>5
<1>6. DOMAIN bet' = DOMAIN bet
  BY <1>1
<1>7. BetRows'
  <2>1. /\ IsFiniteSet(DOMAIN bet') /\ DOMAIN bet' = 0 .. Cardinality(DOMAIN bet') - 1
    BY <1>6 DEF Bets, BetRows
  <2>2. ASSUME NEW b \in DOMAIN bet
        PROVE  /\ DOMAIN bet'[b] = BetFields /\ bet'[b].outcome \in Outcomes
               /\ bet'[b].amount \in Int /\ bet'[b].shares \in Int
               /\ bet'[b].countedInProfit \in BOOLEAN
    BY <1>5 DEF Bets, BetRows
  <2>. QED  BY <1>6, <2>1, <2>2 DEF BetRows
<1>8. ASSUME NEW k \in due
      PROVE  LET p == participant'[k] IN
             /\ BetsAddUp(k, p, bet', p.bets) /\ CountedAddUp(p, bet', p.bets)
             /\ PayoutOf(p, resolution'[k[2]].winner, bet', p.bets)
             /\ DayLists(k, participant[k])'
             /\ p.shares \in [Outcomes -> Int] /\ p.settled = TRUE
  <2>. DEFINE q == participant[k]  S == q.bets  p == Settled(q, w)
  <2>1. /\ k \in DOMAIN participant /\ k[2] = c /\ ~q.settled /\ participant'[k] = p
        /\ DOMAIN q = ParticipantFields
    BY <1>1, <1>3 DEF IInv, Rows
  <2>2. /\ q.shares \in [Outcomes -> Int] /\ BetsAddUp(k, q, bet, S)
    BY <2>1 DEF Holdings, Bets
  <2>. HIDE DEF q
  <2>3. /\ p.expectedPayout = ExpectedPayout(q.shares, w)
        /\ p.totalTradedSettled = q.totalTraded /\ p.shares = q.shares /\ p.bets = S
        /\ p.totalTraded = q.totalTraded
    BY <2>1, SettledValues DEF Tallies
  <2>4. p.settled = TRUE
    BY <2>1, SettledKeeps
  <2>. HIDE DEF p, S
  <2>5. S \subseteq DOMAIN bet /\ IsFiniteSet(S) /\ S # {} /\ S \subseteq chosen
    BY <2>2, FS_Subset DEF BetsAddUp, Bets, BetRows, chosen, S, q
  <2>6. CountedIn(bet', S) = S
    BY <1>5, <2>5 DEF CountedIn
  <2>7. /\ AmountSum(bet', S) = AmountSum(bet, S)
        /\ \A o : SharesSum(bet', S, o) = SharesSum(bet, S, o)
    <3>1. SameAmounts(bet, bet', S)
      BY <1>5, <2>5 DEF SameAmounts
    <3>. QED  BY <2>5, <3>1, SumsOfSameAmounts
  <2>8. BetsAddUp(k, p, bet', S) /\ CountedAddUp(p, bet', S)
    <3>1. /\ q.totalTraded = AmountSum(bet, S)
          /\ \A o \in Outcomes : q.shares[o] = SharesSum(bet, S, o)
          /\ \A b \in S : bet[b].bettor = k[1] /\ bet[b].condition = k[2]
      BY <2>2 DEF BetsAddUp
    <3>2. \A b \in S : bet'[b].bettor = k[1] /\ bet'[b].condition = k[2]
      BY <1>5, <2>5, <3>1
    <3>. QED  BY <1>6, <2>3, <2>4, <2>5, <2>6, <2>7, <3>1, <3>2 DEF BetsAddUp, CountedAddUp
  <2>9. PayoutOf(p, w, bet', S) BY <2>2, <2>7, <2>3, <2>6 DEF BetsAddUp, PayoutOf
  <2>10. <<k[1], Day(now)>> \in DOMAIN daily'
    <3>1. k[1] \in SettledAgents(c) BY SettledPairs DEF due
    <3>. QED  BY <1>2, <3>1 DEF Booking, SettledBooks
  <2>11. DayLists(k, participant[k])'
    BY <1>2, <1>4, <2>1, <2>10 DEF DayLists, Day
  <2>. QED  BY <1>4, <2>1, <2>2, <2>3, <2>4, <2>8, <2>9, <2>11
<1>9. ASSUME NEW k \in DOMAIN participant, k \notin due
      PROVE  LET p == participant'[k] IN
             /\ BetsAddUp(k, p, bet', p.bets) /\ CountedAddUp(p, bet', p.bets)
             /\ PayoutOf(p, resolution'[k[2]].winner, bet', p.bets)
             /\ DayLists(k, participant[k])'
             /\ p = participant[k]
  <2>1. participant'[k] = participant[k]
    BY <1>1, <1>9
  <2>2. ASSUME NEW b \in participant[k].bets PROVE b \notin chosen
    <3>1. SUFFICES ASSUME NEW j \in due, b \in participant[j].bets PROVE FALSE
      BY DEF chosen
    <3>2. /\ bet[b].bettor = k[1] /\ bet[b].condition = k[2]
          /\ bet[b].bettor = j[1] /\ bet[b].condition = j[2] /\ j \in DOMAIN participant
      BY <1>3, <3>1 DEF Bets, BetsAddUp
    <3>3. k \in (DOMAIN traderAgent) \X Conditions /\ j \in (DOMAIN traderAgent) \X Conditions
      BY <3>2 DEF IInv, Rows
    <3>4. k = j
      <4>1. k = <<k[1], k[2]>> /\ j = <<j[1], j[2]>>
        BY <3>3
      <4>2. k[1] = j[1] /\ k[2] = j[2]
        BY <3>2
      <4>. QED  BY <4>1, <4>2
    <3>. QED  BY <1>9, <3>4
  <2>3. SameBets(bet, bet', participant[k].bets) /\ DOMAIN bet \subseteq DOMAIN bet'
    BY <1>5, <1>6, <2>2 DEF Bets, BetsAddUp, SameBets
  <2>4. participant[k].settled => /\ k[2] \in DOMAIN resolution'
                                  /\ resolution'[k[2]] = resolution[k[2]]
    BY <1>4 DEF Bets, DayLists
  <2>. QED  BY <1>2, <1>7, <2>1, <2>3, <2>4, ParticipantKept
<1>10. DOMAIN participant' = DOMAIN participant
  BY <1>1
<1>11. Holdings'
  BY <1>8, <1>9, <1>10 DEF Holdings
<1>12. Bets'
  BY <1>7, <1>8, <1>9, <1>10 DEF Bets, DayLists, Day
<1>. QED  BY <1>11, <1>12

ServiceRows == [agentIds : SUBSET AgentIds, traderAgent : Safes \cup {None}]
TokenRows == [condition : Conditions, outcome : Outcomes]
QuestionRows == [question : Questions, createdAt : Times]
ResolutionRows == [winner : Outcomes \cup {Draw}, at : Times]

\* The rows of every table but the ledger's are well typed, and its days have come.
Typed ==
    /\ now \in Times
    /\ PartialFn(traderService, Services, ServiceRows)
    /\ PartialFn(bridge, Questions, Conditions)
    /\ PartialFn(tokenRegistry, Conditions \X Outcomes, TokenRows)
    /\ PartialFn(question, Conditions, QuestionRows)
    /\ PartialFn(resolution, Conditions, ResolutionRows)
    /\ \A d \in DOMAIN daily : d[2] \in DaysRun

\* Today is one of them.
LEMMA TodayInRun == ASSUME now \in Times PROVE Day(now) \in DaysRun
BY PolyTime, DivOrdered DEF Times, DaysRun, Day

\* The tokens of a condition are typed rows.
LEMMA TokenRowsTyped ==
    ASSUME NEW c \in Conditions, PartialFn(tokenRegistry, Conditions \X Outcomes, TokenRows)
    PROVE  PartialFn(WithTokens(c), Conditions \X Outcomes, TokenRows)
<1>. DEFINE table == WithTokens(c)
<1>1. DOMAIN table = DOMAIN tokenRegistry \cup ({c} \X Outcomes)
  BY DEF WithTokens, BothTokens
<1>2. ASSUME NEW t \in DOMAIN table PROVE table[t] \in TokenRows
  <2>1. table[t] = IF t \in DOMAIN tokenRegistry THEN tokenRegistry[t] ELSE BothTokens(c)[t]
    BY DEF WithTokens, LoadOr
  <2>2. CASE t \in DOMAIN tokenRegistry
    BY <2>1, <2>2 DEF PartialFn
  <2>3. CASE t \in {c} \X Outcomes BY <2>3, <2>1, <2>2 DEF BothTokens, TokenRows
  <2>. QED  BY <1>1, <2>2, <2>3
<1>3. table = [t \in DOMAIN table |-> table[t]]
  BY DEF WithTokens
<1>4. {c} \X Outcomes \subseteq Conditions \X Outcomes
  OBVIOUS
<1>. HIDE DEF table
<1>. QED  BY <1>1, <1>2, <1>3, <1>4 DEF PartialFn, table

\* A registration's row.
LEMMA RegisterTyped ==
    ASSUME Typed, NEW s \in Services, NEW id \in AgentIds, handleRegisterInstance(s, id)
    PROVE  Typed'
<1>1. /\ UNCHANGED <<now, markets, daily>>
      /\ traderService' = Put(traderService, s, [ensureTraderService(s) EXCEPT !.agentIds = @ \cup {id}])
  BY DEF handleRegisterInstance, ledger
<1>2. NewService \in ServiceRows
  BY DEF NewService, ServiceRows
<1>3. ensureTraderService(s) \in ServiceRows
  BY <1>2, LoadOrType DEF Typed, ensureTraderService
<1>4. [ensureTraderService(s) EXCEPT !.agentIds = @ \cup {id}] \in ServiceRows
  BY <1>3 DEF ServiceRows
<1>5. PartialFn(traderService', Services, ServiceRows)
  BY <1>1, <1>4, PutPartialFn DEF Typed
<1>. QED  BY <1>1, <1>5 DEF Typed, markets

\* A deployment's rows.
LEMMA MultisigTyped ==
    ASSUME Typed, NEW s \in Services, NEW safe \in Safes, handleCreateMultisigWithAgents(s, safe)
    PROVE  Typed'
<1>1. /\ UNCHANGED <<now, markets, daily>>
      /\ traderService' = Put(traderService, s, LinkedService(s, safe))
  BY DEF handleCreateMultisigWithAgents
<1>2. NewService \in ServiceRows
  BY DEF NewService, ServiceRows
<1>3. ensureTraderService(s) \in ServiceRows
  BY <1>2, LoadOrType DEF Typed, ensureTraderService
<1>4. LinkedService(s, safe) \in ServiceRows
  BY <1>3 DEF ServiceRows, LinkedService
<1>5. PartialFn(traderService', Services, ServiceRows)
  BY <1>1, <1>4, PutPartialFn DEF Typed
<1>. QED  BY <1>1, <1>5 DEF Typed, markets

\* The rows of a preparation, of the old exchange, and of an announcement.
LEMMA PreparationTyped ==
    ASSUME Typed, NEW c \in Conditions, NEW q \in Questions, NEW derives,
           handleConditionPreparation(c, q, derives)
    PROVE  Typed'
BY TokenRowsTyped, PutPartialFn DEF handleConditionPreparation, agents, ledger, Typed

\* The old exchange's tokens are typed rows.
LEMMA TokensTypedRows ==
    ASSUME Typed, NEW c \in Conditions, handleTokenRegistered(c) PROVE Typed'
BY TokenRowsTyped DEF handleTokenRegistered, agents, ledger, chain, Typed

\* An announced question is a typed row of a condition.
LEMMA AnnounceTyped ==
    ASSUME Typed, NEW q \in Questions, NEW known, Announce(q, known) PROVE Typed'
<1>1. /\ UNCHANGED <<now, traderService, bridge, tokenRegistry, resolution, daily>>
      /\ \/ question' = question
         \/ /\ q \in DOMAIN bridge
            /\ question' = Put(question, bridge[q], [question |-> q, createdAt |-> now])
  BY DEF Announce, agents, ledger
<1>2. q \in DOMAIN bridge => bridge[q] \in Conditions
  BY DEF Typed, PartialFn
<1>3. [question |-> q, createdAt |-> now] \in QuestionRows
  BY DEF QuestionRows, Typed
<1>4. PartialFn(question', Conditions, QuestionRows)
  BY <1>1, <1>2, <1>3, PutPartialFn DEF Typed
<1>. QED  BY <1>1, <1>4 DEF Typed

\* What the ledger's steps leave of it: the days they write are today.
LEMMA LedgerTyped ==
    ASSUME Typed, UNCHANGED <<now, traderService, bridge, tokenRegistry, question>>,
           PartialFn(resolution', Conditions, ResolutionRows),
           \A d \in DOMAIN daily' : d \in DOMAIN daily \/ d[2] = Day(now)
    PROVE  Typed'
BY TodayInRun DEF Typed

\* A resolution is a row of a condition.
LEMMA ResolveTyped ==
    ASSUME Typed, NEW q \in Questions, NEW winner \in Outcomes \cup {Draw}, Resolve(q, winner)
    PROVE  Typed'
<1>1. /\ UNCHANGED <<now, traderService, bridge, tokenRegistry, question>>
      /\ \/ UNCHANGED <<resolution, daily>>
         \/ /\ q \in DOMAIN bridge
            /\ resolution' = Put(resolution, bridge[q], [winner |-> winner, at |-> now])
            /\ UNCHANGED daily \/ SettleParticipants(bridge[q], winner)
  BY DEF Resolve, processMarketResolution
<1>2. q \in DOMAIN bridge => bridge[q] \in Conditions
  BY DEF Typed, PartialFn
<1>3. [winner |-> winner, at |-> now] \in ResolutionRows
  BY DEF ResolutionRows, Typed
<1>4. PartialFn(resolution', Conditions, ResolutionRows)
  BY <1>1, <1>2, <1>3, PutPartialFn DEF Typed
<1>5. ASSUME NEW c, SettleParticipants(c, winner), NEW d \in DOMAIN daily'
      PROVE  d \in DOMAIN daily \/ d[2] = Day(now)
  BY <1>5 DEF SettleParticipants
<1>. QED  BY <1>1, <1>4, <1>5, LedgerTyped

\* A fill writes the day of today.
LEMMA FillTyped ==
    ASSUME Typed, NEW a, NEW c, NEW o, NEW x, Filled(a, c, o, x) PROVE Typed'
BY LedgerTyped DEF Filled, processTradeActivity, chain, markets, Put, Typed

\* So does a claim.
LEMMA RedemptionTyped == ASSUME Typed, processRedemption PROVE Typed'
<1>1. /\ UNCHANGED <<now, traderService, bridge, tokenRegistry, question, resolution>>
      /\ daily' = daily \/ \E a, row : daily' = Put(daily, <<a, Day(now)>>, row)
  BY DEF processRedemption, chain, markets
<1>2. ASSUME NEW a, NEW row, daily' = Put(daily, <<a, Day(now)>>, row), NEW d \in DOMAIN daily'
      PROVE  d \in DOMAIN daily \/ d[2] = Day(now)
  BY <1>2 DEF Put
<1>. QED  BY <1>1, <1>2, LedgerTyped DEF Typed

\* Time passes, within its bound.
LEMMA TickTyped == ASSUME Typed, Tick PROVE Typed'
BY PolyTime DEF Tick, agents, ledger, Typed, Times, markets

\* The counters: integers, sums, counts, and what they say of the bets.
Booked == Numbers /\ Sums /\ DayRows /\ Counts /\ Holdings /\ Bets

LedgerInv == Typed /\ Booked

\* Steps that touch no row of the ledger.
LEMMA NothingBooked ==
    ASSUME Booked, UNCHANGED <<traderAgent, bet, participant, daily, global, marketParticipated,
                               resolution>>
    PROVE  Booked'
<1>1. Numbers' BY DEF Booked, Numbers
<1>2. Sums' BY DEF Booked, Sums
<1>3. DayRows' BY DEF Booked, DayRows
<1>4. Counts' BY DEF ActiveAgents, MarketsOf, Booked, Counts
<1>5. ProfitsKept BY DEF ProfitsKept
<1>6. Bets' /\ Holdings' BY <1>5, UntouchedBets DEF Booked
<1>. QED  BY <1>1, <1>2, <1>3, <1>4, <1>6 DEF Booked

\* A new agent has counted nothing.
LEMMA NewAgentBooked ==
    ASSUME IInv, Booked, NEW s, NEW safe, safe \notin DOMAIN traderAgent,
           traderAgent' = Put(traderAgent, safe, NewAgent(s)),
           global' = Add(global, [totalTraderAgents |-> 1]),
           UNCHANGED <<bet, participant, daily, marketParticipated, resolution>>
    PROVE  Booked'
<1>1. /\ DOMAIN traderAgent' = DOMAIN traderAgent \cup {safe}
      /\ \A a \in DOMAIN traderAgent : traderAgent'[a] = traderAgent[a]
      /\ \A x \in AgentCounters : traderAgent'[safe][x] = 0
      /\ traderAgent'[safe].active = FALSE
  BY DEF NewAgent, AgentCounters, Tallies, Put
<1>2. /\ DOMAIN global = GlobalFields /\ DOMAIN global' = GlobalFields
      /\ \A x \in GlobalFields \ {"totalTraderAgents"} : global'[x] = global[x]
      /\ global'.totalTraderAgents = global.totalTraderAgents + 1
      /\ \A x \in GlobalFields : global[x] \in Int
      /\ "totalTraderAgents" \notin AgentCounters
  BY DEF Booked, DayRows, Numbers, Add, GlobalFields, AgentCounters, Tallies
<1>3. /\ IsFiniteSet(DOMAIN traderAgent) /\ IsFiniteSet(DOMAIN traderAgent')
      /\ Cardinality(DOMAIN traderAgent') = Cardinality(DOMAIN traderAgent) + 1
  BY <1>1, FS_AddElement DEF Booked, Numbers
<1>4. Numbers' BY <1>2, <1>1, <1>3 DEF Booked, Numbers
<1>5. /\ \A k \in DOMAIN participant : k[1] # safe
      /\ \A k \in DOMAIN daily : k[1] # safe
  BY DEF IInv, Rows, Booked, DayRows
<1>6. ASSUME NEW x \in AgentCounters
      PROVE  /\ global'[x] = SumFunction(Column(traderAgent', x))
             /\ Held(Column(traderAgent', x), Column(participant, ParticipantCounter(x)))
  <2>. DEFINE v == Column(traderAgent, x)  v2 == Column(traderAgent', x)
              w == Column(participant, ParticipantCounter(x))
  <2>1. /\ DOMAIN v = DOMAIN traderAgent /\ DOMAIN v2 = DOMAIN v \cup {safe} /\ v2[safe] = 0
        /\ \A a \in DOMAIN v : v2[a] = v[a] /\ v[a] \in Int
        /\ safe \notin DOMAIN v /\ DOMAIN w = DOMAIN participant
    BY <1>1 DEF Column, Booked, Numbers
  <2>2. global[x] = SumFunction(v) /\ Held(v, w)
    BY DEF Booked, Sums
  <2>3. global'[x] = global[x]
    BY <1>2 DEF GlobalFields
  <2>. HIDE DEF v, v2, w
  <2>4. SumFunction(v2) = SumFunction(v)
    <3>1. /\ SumFunction(v2) = SumFunction(v) + v2[safe]
                                  - (IF safe \in DOMAIN v THEN v[safe] ELSE 0)
          /\ SumFunction(v) \in Int
      <4>1. /\ IsFiniteSet(DOMAIN v) /\ DOMAIN v2 = DOMAIN v \cup {safe} /\ v2[safe] \in Int
            /\ \A a \in DOMAIN v : v[a] \in Int
            /\ \A a \in DOMAIN v \ {safe} : v2[a] = v[a]
        BY <1>3, <2>1
      <4>. QED  BY ONLY <4>1, SumPut
    <3>2. (IF safe \in DOMAIN v THEN v[safe] ELSE 0) = 0
      BY <2>1
    <3>. QED  BY <2>1, <3>1, <3>2
  <2>5. Held(v2, w)
    BY <1>5, <2>1, <2>2, HeldAdded
  <2>. QED  BY <2>2, <2>3, <2>4, <2>5 DEF v2, w
<1>7. ASSUME NEW x \in Tallies PROVE Held(Column(traderAgent', x), Column(daily, DayCounter(x)))
  <2>. DEFINE v == Column(traderAgent, x)  v2 == Column(traderAgent', x)
              w == Column(daily, DayCounter(x))
  <2>0. x \in AgentCounters
    BY DEF AgentCounters
  <2>1. /\ DOMAIN v = DOMAIN traderAgent /\ DOMAIN v2 = DOMAIN v \cup {safe} /\ v2[safe] = 0
        /\ \A a \in DOMAIN v : v2[a] = v[a]
        /\ safe \notin DOMAIN v /\ DOMAIN w = DOMAIN daily
    BY <1>1, <2>0 DEF Column
  <2>2. Held(v, w)
    BY DEF Booked, Sums
  <2>. HIDE DEF v, v2, w
  <2>3. Held(v2, w)
    BY <1>5, <2>1, <2>2, HeldAdded
  <2>. QED  BY <2>3 DEF v2, w
<1>8. Sums'
  BY <1>6, <1>7 DEF Sums
<1>9. DayRows'
  BY <1>1, <1>2 DEF Booked, DayRows
<1>10. Counts'
  BY <1>1, <1>3, FS_CardinalityType, <1>2 DEF ActiveAgents, MarketsOf, Booked, Counts, GlobalFields
<1>11. Bets' /\ Holdings' BY UntouchedBets DEF ProfitsKept, Booked
<1>. QED  BY <1>4, <1>8, <1>9, <1>10, <1>11 DEF Booked

\* A deployment.
LEMMA MultisigBooked ==
    ASSUME IInv, Booked, NEW s, NEW safe, handleCreateMultisigWithAgents(s, safe) PROVE Booked'
BY NothingBooked, NewAgentBooked DEF handleCreateMultisigWithAgents, markets

\* A fill.
LEMMA FillBooked ==
    ASSUME IInv, Typed, Booked, NEW a \in Safes, NEW c, NEW o, NEW x \in Fills, Filled(a, c, o, x)
    PROVE  Booked'
<1>1. tokenRegistry[<<c, o>>].outcome \in Outcomes
  BY DEF Filled, Typed, PartialFn, TokenRows
<1>2. PICK d : d = tokenRegistry[<<c, o>>].condition
  OBVIOUS
<1>3. /\ Booking(d, Day(now), [i \in {a} |-> FillAmounts(x.amount)])
      /\ DayRows'
  BY <1>2, FillBooks DEF Booked
<1>4. Counts' /\ \A y \in GlobalFields \ AgentCounters : global'[y] \in Int
  BY FillCounts DEF Booked
<1>5. Holdings' /\ Bets' BY <1>1, <1>2, FillKeepsBets DEF Booked
<1>6. Sums' /\ Numbers'
  BY <1>3, <1>4, BookingKeepsSums, BookingKeepsNumbers DEF Booked
<1>. QED  BY <1>3, <1>4, <1>5, <1>6 DEF Booked

\* A resolution.
LEMMA ResolveBooked ==
    ASSUME IInv, Booked, NEW q, NEW winner, Resolve(q, winner) PROVE Booked'
<1>1. UNCHANGED marketParticipated
  BY DEF Resolve
<1>2. CASE UNCHANGED <<resolution, traderAgent, bet, participant, daily, global>>
  BY <1>1, <1>2, NothingBooked
<1>3. ASSUME NEW c, c \notin DOMAIN resolution,
             resolution' = Put(resolution, c, [winner |-> winner, at |-> now]),
             UNCHANGED <<traderAgent, bet, participant, daily, global>>
      PROVE  Booked'
  <2>1. Numbers' /\ Sums' /\ DayRows'
    BY <1>3 DEF Booked, Numbers, Sums, DayRows
  <2>2. Counts' BY <1>3, <1>1 DEF ActiveAgents, MarketsOf, Booked, Counts
  <2>3. Holdings' /\ BetRows' /\ ProfitsKept
    BY <1>3 DEF Booked, Holdings, Bets, BetRows, ProfitsKept
  <2>4. ASSUME NEW k \in DOMAIN participant, NEW p, p = participant'[k]
        PROVE  /\ BetsAddUp(k, p, bet', p.bets) /\ CountedAddUp(p, bet', p.bets)
               /\ PayoutOf(p, resolution'[k[2]].winner, bet', p.bets)
               /\ DayLists(k, participant[k])'
    <3>1. /\ participant'[k] = participant[k] /\ DOMAIN bet \subseteq DOMAIN bet'
          /\ SameBets(bet, bet', participant[k].bets)
      BY <1>3 DEF SameBets
    <3>2. participant[k].settled => /\ k[2] \in DOMAIN resolution'
                                    /\ resolution'[k[2]] = resolution[k[2]]
      BY <1>3 DEF Booked, Bets, DayLists, Put
    <3>. QED  BY <2>3, <2>4, <3>1, <3>2, ParticipantKept DEF Booked
  <2>5. Bets'
    BY <1>3, <2>3, <2>4 DEF Bets, DayLists, Day
  <2>. QED  BY <2>1, <2>2, <2>3, <2>5 DEF Booked
<1>4. ASSUME NEW c, c \notin DOMAIN resolution,
             resolution' = Put(resolution, c, [winner |-> winner, at |-> now]),
             SettleParticipants(c, winner)
      PROVE  Booked'
  <2>1. /\ Booking(c, Day(now), SettledBooks(c, winner)) /\ DayRows' /\ CountsKept
    BY <1>4, SettlementBooks DEF Booked
  <2>2. DOMAIN participant' = DOMAIN participant
    BY <1>4 DEF SettleParticipants
  <2>3. Counts' /\ \A y \in GlobalFields \ AgentCounters : global'[y] \in Int
    BY <1>1, <2>1, <2>2, CountsUntouched DEF Booked, DayRows
  <2>4. Sums' /\ Numbers'
    BY <2>1, <2>3, BookingKeepsSums, BookingKeepsNumbers DEF Booked
  <2>5. Holdings' /\ Bets'
    BY <1>4, SettlementKeepsBets DEF Booked
  <2>. QED  BY <2>1, <2>3, <2>4, <2>5 DEF Booked
<1>5. \/ UNCHANGED <<resolution, traderAgent, bet, participant, daily, global>>
      \/ \E c : /\ c \notin DOMAIN resolution
                /\ resolution' = Put(resolution, c, [winner |-> winner, at |-> now])
                /\ \/ UNCHANGED <<traderAgent, bet, participant, daily, global>>
                   \/ SettleParticipants(c, winner)
  BY DEF Resolve, processMarketResolution, IsResolved
<1>. QED  BY <1>2, <1>3, <1>4, <1>5

\* A log of a redemption.
LEMMA RedemptionBooked == ASSUME IInv, Booked, processRedemption PROVE Booked'
<1>1. UNCHANGED <<bet, resolution, marketParticipated>>
  BY DEF processRedemption, markets
<1>2. /\ \/ UNCHANGED <<traderAgent, participant, global, daily>>
         \/ \E a, c : Booking(c, Day(now), [i \in {a} |-> PayoutAmounts])
      /\ DayRows' /\ CountsKept /\ ProfitsKept
  BY RedemptionBooks DEF Booked
<1>3. /\ DOMAIN participant' = DOMAIN participant
      /\ \A k \in DOMAIN participant, f \in BetsFields : participant'[k][f] = participant[k][f]
  BY RedemptionStep DEF BetsFields, ParticipantFields, NoTotals
<1>4. Bets' /\ Holdings'
  BY <1>1, <1>2, <1>3, UntouchedBets DEF Booked
<1>5. Counts' /\ \A y \in GlobalFields \ AgentCounters : global'[y] \in Int
  BY <1>1, <1>2, <1>3, CountsUntouched DEF Booked, DayRows
<1>6. CASE UNCHANGED <<traderAgent, participant, global, daily>>
  BY <1>1, <1>6, NothingBooked
<1>7. ASSUME NEW a, NEW c, Booking(c, Day(now), [i \in {a} |-> PayoutAmounts]) PROVE Booked'
  BY <1>5, <1>7, BookingKeepsSums, BookingKeepsNumbers, <1>2, <1>4 DEF Booked
<1>. QED  BY <1>2, <1>6, <1>7

\* Nothing is counted before the first event.
LEMMA LedgerInit == ASSUME Init PROVE LedgerInv
<1>1. /\ DOMAIN traderAgent = {} /\ DOMAIN participant = {} /\ DOMAIN daily = {}
      /\ DOMAIN bet = {} /\ global = NewGlobal /\ marketParticipated = {}
  BY DEF Init, NoRows
<1>2. /\ IsFiniteSet({}) /\ Cardinality({}) = 0
  BY FS_EmptySet
<1>3. Typed BY PolyTime, <1>1, NoRowsPartialFn DEF Init, Times, Typed
<1>4. DOMAIN global = GlobalFields /\ \A x \in GlobalFields : global[x] = 0
  BY <1>1 DEF NewGlobal, GlobalFields, AgentCounters, Tallies
<1>5. Numbers
  BY <1>1, <1>2, <1>4 DEF Numbers
<1>6. Sums
  <2>1. ASSUME NEW x PROVE SumFunction(Column(traderAgent, x)) = 0 BY <1>1, SumOfNone DEF Column
  <2>2. AgentCounters \subseteq GlobalFields
    BY DEF GlobalFields
  <2>3. ASSUME NEW x, NEW w PROVE Held(Column(traderAgent, x), w)
    BY <1>1 DEF Column, Held
  <2>. QED  BY <1>4, <2>1, <2>2, <2>3 DEF Sums
<1>7. DayRows
  BY <1>1, <1>4 DEF DayRows
<1>8. Counts BY <1>1, <1>2, <1>4 DEF ActiveAgents, MarketsOf, Counts, GlobalFields
<1>9. Holdings /\ Bets BY <1>1, <1>2 DEF Holdings, Bets, BetRows
<1>. QED  BY <1>3, <1>5, <1>6, <1>7, <1>8, <1>9 DEF LedgerInv, Booked

\* Every handler keeps it.
LEMMA LedgerKept == ASSUME IInv, LedgerInv, [Next]_vars PROVE LedgerInv'
<1>. USE DEF LedgerInv
<1>1. ASSUME NEW s \in Services, NEW i \in AgentIds, handleRegisterInstance(s, i) PROVE LedgerInv'
  BY <1>1, RegisterTyped, NothingBooked DEF handleRegisterInstance, markets, ledger
<1>2. ASSUME NEW s \in Services, NEW a \in Safes, handleCreateMultisigWithAgents(s, a)
      PROVE  LedgerInv'
  BY <1>2, MultisigTyped, MultisigBooked
<1>3. ASSUME NEW c \in Conditions, NEW q \in Questions, NEW b \in BOOLEAN,
             handleConditionPreparation(c, q, b)
      PROVE  LedgerInv'
  BY <1>3, PreparationTyped, NothingBooked DEF handleConditionPreparation, agents, ledger
<1>4. ASSUME NEW c \in Conditions, handleTokenRegistered(c) PROVE LedgerInv'
  BY <1>4, TokensTypedRows, NothingBooked DEF handleTokenRegistered, agents, ledger
<1>5. ASSUME NEW q \in Questions, NEW b, Announce(q, b) PROVE LedgerInv'
  BY <1>5, AnnounceTyped, NothingBooked DEF Announce, agents, ledger
<1>6. ASSUME NEW a \in Safes, NEW c \in Conditions, NEW o \in Outcomes, NEW x \in Fills,
             Filled(a, c, o, x)
      PROVE  LedgerInv'
  BY <1>6, FillTyped, FillBooked
<1>7. ASSUME NEW q \in Questions, NEW w \in Outcomes \cup {Draw}, Resolve(q, w) PROVE LedgerInv'
  BY <1>7, ResolveTyped, ResolveBooked
<1>8. ASSUME NEW a, NEW c, NEW by, Redeem(a, c, by) PROVE LedgerInv'
  BY <1>8, NothingBooked DEF Redeem, chain, Typed, agents, markets, ledger
<1>9. CASE processRedemption
  BY <1>9, RedemptionTyped, RedemptionBooked
<1>10. CASE Tick BY <1>10, TickTyped, NothingBooked DEF Tick, agents, markets, ledger
<1>11. CASE UNCHANGED vars BY <1>11, NothingBooked DEF vars, chain, Typed, agents, markets, ledger
<1>12. \A y : (IF y THEN 0 ELSE 1) \in Outcomes
  BY DEF Outcomes
<1>. HIDE DEF LedgerInv
<1>. QED  BY <1>1, <1>2, <1>3, <1>4, <1>5, <1>6, <1>7, <1>8, <1>9, <1>10, <1>11, <1>12
          DEF Next, handleQuestionInitialization, handleQuestionPrepared, handleOrderFilled,
              handleOrderFilledV2, handleQuestionResolution, handleOutcomeReported

\* The sums of the property are those of the columns.
LEMMA SumOverGroup ==
    ASSUME NEW table, NEW a, NEW x
    PROVE  SumOver(Of(a, table), LAMBDA k : table[k][x]) = GroupSum(Column(table, x), a)
BY DEF Of, Column, SumOver, GroupSum, Group

\* The types.
LEMMA TypesHold == ASSUME IInv, LedgerInv PROVE TypeOK
<1>1. \A a \in DOMAIN traderAgent : traderAgent[a].traderService \in DOMAIN traderService
  <2>1. ASSUME NEW a \in DOMAIN traderAgent
        PROVE  traderAgent[a].traderService \in DOMAIN traderService
    BY DEF IInv, Cohort, CohortComplete
  <2>. QED  BY <2>1
<1>2. DOMAIN participant \subseteq (DOMAIN traderAgent) \X marketParticipated
  <2>1. ASSUME NEW k \in DOMAIN participant
        PROVE  k \in (DOMAIN traderAgent) \X marketParticipated
    BY DEF IInv, Rows, LedgerInv, Booked, Counts, MarketsOf
  <2>. QED  BY <2>1
<1>3. DOMAIN daily \subseteq (DOMAIN traderAgent) \X DaysRun
  <2>1. ASSUME NEW d \in DOMAIN daily PROVE d \in (DOMAIN traderAgent) \X DaysRun
    BY DEF LedgerInv, Booked, DayRows, Typed
  <2>. QED  BY <2>1
<1>. QED  BY <1>1, <1>2, <1>3
          DEF TypeOK, LedgerInv, Typed, ServiceRows, TokenRows, QuestionRows, ResolutionRows,
              IInv, Rows

\* The sums.
LEMMA TotalsHold == ASSUME IInv, LedgerInv PROVE TotalsAgree
<1>1. TypeOK
  BY TypesHold
<1>2. ASSUME NEW x \in Totals \cup {"totalExpectedPayout"}
      PROVE  global[x] = SumOver(DOMAIN traderAgent, LAMBDA a : traderAgent[a][x])
  <2>1. x \in AgentCounters
    BY DEF Totals, AgentCounters, NoTotals, Tallies
  <2>2. global[x] = SumFunction([a \in DOMAIN traderAgent |-> traderAgent[a][x]])
    BY <2>1 DEF LedgerInv, Booked, Sums, Column
  <2>. QED  BY <2>2 DEF SumOver
<1>3. /\ global.totalTraderAgents = Cardinality(DOMAIN traderAgent)
      /\ global.totalActiveTraderAgents =
            Cardinality({a \in DOMAIN traderAgent : traderAgent[a].active})
      /\ global.totalMarketsParticipated = Cardinality({k[2] : k \in DOMAIN participant})
  BY DEF LedgerInv, Booked, Counts, ActiveAgents, MarketsOf
<1>4. ASSUME NEW a \in DOMAIN traderAgent, NEW x \in AgentCounters
      PROVE  traderAgent[a][x] = GroupSum(Column(participant, ParticipantCounter(x)), a)
  BY DEF LedgerInv, Booked, Sums, Held, Column
<1>5. ASSUME NEW a \in DOMAIN traderAgent, NEW x \in Tallies
      PROVE  traderAgent[a][x] = GroupSum(Column(daily, DayCounter(x)), a)
  BY DEF LedgerInv, Booked, Sums, Held, Column
<1>6. ASSUME NEW table, NEW a, NEW x
      PROVE  SumFunction([k \in Of(a, table) |-> table[k][x]]) = GroupSum(Column(table, x), a)
  BY SumOverGroup DEF SumOver
<1>7. ASSUME NEW a \in DOMAIN traderAgent, NEW x \in Totals
      PROVE  traderAgent[a][x] = SumOver(Of(a, participant), LAMBDA k : participant[k][x])
  BY <1>4, <1>6 DEF Totals, AgentCounters, NoTotals, Tallies, ParticipantCounter, SumOver
<1>8. ASSUME NEW a \in DOMAIN traderAgent
      PROVE  traderAgent[a].totalExpectedPayout =
                 SumOver(Of(a, participant), LAMBDA k : participant[k].expectedPayout)
  BY <1>4, <1>6 DEF AgentCounters, ParticipantCounter, SumOver
<1>9. ASSUME NEW a \in DOMAIN traderAgent, NEW x \in {"totalBets", "totalTraded", "totalPayout"}
      PROVE  traderAgent[a][x] = SumOver(Of(a, daily), LAMBDA d : daily[d][x])
  BY <1>5, <1>6 DEF Tallies, DayCounter, SumOver
<1>10. ASSUME NEW a \in DOMAIN traderAgent
       PROVE  traderAgent[a].totalTradedSettled =
                  SumOver(Of(a, daily), LAMBDA d : daily[d].dailyTradedSettled)
  BY <1>5, <1>6 DEF Tallies, DayCounter, SumOver
<1>. QED  BY <1>1, <1>2, <1>3, <1>7, <1>8, <1>9, <1>10 DEF TotalsAgree

\* The settlements.
LEMMA SettlementsHold == ASSUME LedgerInv PROVE SettlementExact
<1>. SUFFICES ASSUME NEW k \in DOMAIN participant
              PROVE  LET p == participant[k]
                         counted == {b \in p.bets : bet[b].countedInProfit}
                         held(o) == SumOver({b \in counted : bet[b].outcome = o},
                                            LAMBDA b : bet[b].shares)
                     IN  /\ p.settled <=> counted # {}
                         /\ p.totalTradedSettled = SumOver(counted, LAMBDA b : bet[b].amount)
                         /\ p.settled =>
                              /\ k[2] \in DOMAIN resolution
                              /\ p.expectedPayout = ExpectedPayout([o \in Outcomes |-> held(o)],
                                                                   resolution[k[2]].winner)
                              /\ k[2] \in daily[<<k[1], Day(resolution[k[2]].at)>>].profitParticipants
  BY DEF SettlementExact
<1>. DEFINE p == participant[k]  counted == {b \in p.bets : bet[b].countedInProfit}
            held(o) == SumOver({b \in counted : bet[b].outcome = o}, LAMBDA b : bet[b].shares)
<1>1. /\ CountedAddUp(p, bet, p.bets) /\ PayoutOf(p, resolution[k[2]].winner, bet, p.bets)
      /\ DayLists(k, p)
  BY DEF LedgerInv, Booked, Bets
<1>2. counted = CountedIn(bet, p.bets)
  BY DEF CountedIn
<1>3. SumOver(counted, LAMBDA b : bet[b].amount) = AmountSum(bet, counted)
  BY DEF SumOver, AmountSum
<1>4. \A o : held(o) = SharesSum(bet, counted, o)
  BY DEF SumOver, SharesSum
<1>5. [o \in Outcomes |-> held(o)] = [o \in Outcomes |-> SharesSum(bet, counted, o)]
  <2>. HIDE DEF counted, held
  <2>. QED  BY <1>4
<1>6. /\ p.settled <=> counted # {}
      /\ p.totalTradedSettled = AmountSum(bet, counted)
      /\ p.settled =>
           /\ k[2] \in DOMAIN resolution
           /\ p.expectedPayout = ExpectedPayout([o \in Outcomes |-> SharesSum(bet, counted, o)],
                                                resolution[k[2]].winner)
           /\ k[2] \in daily[<<k[1], Day(resolution[k[2]].at)>>].profitParticipants
  <2>. HIDE DEF p, counted
  <2>. QED  BY <1>1, <1>2 DEF CountedAddUp, PayoutOf, DayLists
<1>. QED  BY <1>3, <1>5, <1>6

\* The invariant of the counters holds in every state.
THEOREM LedgerInductive == Spec => []LedgerInv
<1>1. IInv /\ LedgerInv /\ [Next]_vars => LedgerInv' BY LedgerKept
<1>2. Init => LedgerInv BY LedgerInit
<1>. QED  BY Inductive, <1>1, <1>2, PTL DEF Spec

\* The counters of agents, days, participants and everyone are the sums of one another's,
\* a participant is settled once and for exactly the bets that are counted, and a claim that
\* several contracts log is counted once (utils.ts: processTradeActivity, SettleParticipants,
\* processRedemption).
THEOREM CountersAlwaysAgree == Spec => []CountersAgree
<1>1. IInv /\ LedgerInv => TotalsAgree /\ SettlementExact
  BY TotalsHold, SettlementsHold
<1>. QED  BY Inductive, LedgerInductive, PaidExactlyOnce, <1>1, PTL DEF CountersAgree
=============================================================================
