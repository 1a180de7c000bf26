-------------------------- MODULE PearlBondsProofs --------------------------
(***************************************************************************)
(* Proofs about what pearl-transactions makes of bonds and transfers.      *)
(* First the bond queue, for any services, payers and Safes and any number *)
(* of transactions and calls, when no transaction registers the instances  *)
(* of one service twice; then the funds ledger (transfer classes, balances,*)
(* setup flag and funding totals) for any accounts, roles and tokens.      *)
(***************************************************************************)
EXTENDS PearlBonds, PearlFunds, StoreTheorems

\* The row that waits, if any, is the one the cursor points at.
LEMMA OnlyCursorWaits ==
    ASSUME IInv
    PROVE  /\ nextDequeueSlot[tx] = nextEnqueueSlot[tx] => Waiting = {}
           /\ nextDequeueSlot[tx] # nextEnqueueSlot[tx] =>
                 /\ Waiting # {} /\ Oldest(Waiting) = nextDequeueSlot[tx]
                 /\ <<tx, nextDequeueSlot[tx]>> \in DOMAIN bondMovement
                 /\ nextEnqueueSlot[tx] = nextDequeueSlot[tx] + 1
<1>. DEFINE d == nextDequeueSlot[tx]
            e == nextEnqueueSlot[tx]
<1>1. d \in Slots /\ e \in Slots /\ tx \in 0 .. MaxTx
  BY DEF IInv, TypeOK, ChainTyped
<1>2. d \in Nat /\ e \in Nat
  BY <1>1, BondsBounds DEF Slots
<1>3. ASSUME d = e PROVE Waiting = {}
  BY <1>2, <1>3 DEF Waiting
<1>4. ASSUME d # e
      PROVE  /\ Waiting # {} /\ Oldest(Waiting) = d
             /\ <<tx, d>> \in DOMAIN bondMovement /\ e = d + 1
  <2>1. e = d + 1
    BY <1>4 DEF IInv, OneRowWaits
  <2>2. <<tx, d>> \in DOMAIN bondMovement /\ bondMovement[<<tx, d>>].service = None
    BY <1>1, <1>2, <2>1 DEF IInv, CursorsOrdered
  <2>3. <<tx, d>> \in DOMAIN pendingBondRow /\ ~pendingBondRow[<<tx, d>>].attributed
    BY <2>2 DEF IInv, QueueMatchesRows
  <2>4. Waiting = {d}
    <3>1. d .. e - 1 = {d}
      BY <1>2, <2>1
    <3>. QED  BY <3>1, <2>3, Zenon DEF Waiting
  <2>5. Oldest(Waiting) = d
    BY <2>4, <1>2 DEF Oldest
  <2>. QED  BY <2>1, <2>2, <2>4, <2>5
<1>. QED  BY <1>3, <1>4

LEMMA InitIInv == Init => IInv
<1>. SUFFICES ASSUME Init PROVE IInv
  OBVIOUS
<1>. USE DEF Init, NoRows
<1>1. 0 \in 0 .. MaxTx /\ 0 \in 0 .. MaxCalls
  BY BondsBounds
<1>2. TypeOK
  BY <1>1, NoRowsPartialFn DEF TypeOK, Slots
<1>3. ChainTyped
  BY <1>1, NoRowsPartialFn DEF ChainTyped
<1>4. CursorsOrdered
  BY <1>1, BondsBounds DEF CursorsOrdered, Slots
<1>5. QueueMatchesRows /\ AttributedRight
  BY DEF QueueMatchesRows, AttributedRight
<1>6. OtherTransactionsIdle
  BY <1>1 DEF OtherTransactionsIdle
<1>7. OneRowWaits
  BY <1>1 DEF OneRowWaits
<1>. QED  BY <1>2, <1>3, <1>4, <1>5, <1>6, <1>7 DEF IInv

\* The ServiceManager is called: the queue is drained and stays so.
LEMMA CallStep ==
    ASSUME IInv, ~ReRegister,
           NEW fn \in Functions, NEW s \in Services, NEW n \in 1 .. MaxInstances, NEW b \in BOOLEAN,
           CallManager(fn, s, n, b)
    PROVE  IInv'
<1>. USE DEF CallManager, IInv, links, queue
<1>1. UNCHANGED <<tx, trackedMasters, service, bondMovement, pendingBondRow, nextEnqueueSlot,
                  nextDequeueSlot, guard>> /\ call = None
  OBVIOUS
<1>2. call' \in CallRow /\ call'.fn = fn /\ call'.service = s /\ call'.bond = b
  BY BondsBounds DEF CallRow
<1>3. TypeOK' /\ CursorsOrdered' /\ QueueMatchesRows' /\ AttributedRight'
  BY <1>1 DEF TypeOK, CursorsOrdered, QueueMatchesRows, AttributedRight
<1>4. calls \in Nat /\ calls' = calls + 1 /\ calls' \in 0 .. MaxCalls
  BY BondsBounds DEF ChainTyped
<1>5. ChainTyped'
  <2>1. DOMAIN registeredIn' = Services
    BY DEF ChainTyped
  <2>2. fn = "register" => registeredIn'[s] = tx
    BY DEF ChainTyped
  <2>. QED  BY <1>1, <1>2, <1>4, <2>1, <2>2 DEF ChainTyped
<1>6. nextDequeueSlot[tx] = nextEnqueueSlot[tx]
  BY <1>1 DEF OneRowWaits
<1>7. fn = "register" => <<tx, s>> \notin guard
  BY DEF OtherTransactionsIdle, ChainTyped
<1>8. OneRowWaits'
  BY <1>1, <1>2, <1>6, <1>7 DEF OneRowWaits
<1>9. OtherTransactionsIdle'
  <2>1. nextEnqueueSlot[tx] \in Nat /\ nextEnqueueSlot[tx] <= calls
    BY <1>1, BondsBounds DEF OtherTransactionsIdle, TypeOK, Slots, ChainTyped
  <2>2. nextEnqueueSlot'[tx'] + (IF call' # None /\ call'.bond THEN 1 ELSE 0) <= calls'
    BY <1>1, <1>4, <2>1
  <2>3. \A t \in 0 .. MaxTx, r \in Services :
            <<t, r>> \in guard' => t <= tx' /\ (t = tx' => registeredIn'[r] = tx')
    BY <1>1 DEF OtherTransactionsIdle, ChainTyped
  <2>. QED  BY <1>1, <2>2, <2>3 DEF OtherTransactionsIdle
<1>. QED  BY <1>3, <1>5, <1>8, <1>9

LEMMA NextTransactionStep ==
    ASSUME IInv, NextTransaction PROVE IInv'
<1>. USE DEF NextTransaction, IInv, links, queue
<1>1. /\ UNCHANGED <<trackedMasters, service, bondMovement, pendingBondRow, nextEnqueueSlot,
                     nextDequeueSlot, guard, call, registeredIn>>
      /\ call = None /\ tx' = tx + 1 /\ calls' = 0 /\ tx < MaxTx
  OBVIOUS
<1>2. TypeOK' /\ CursorsOrdered' /\ QueueMatchesRows' /\ AttributedRight'
  BY <1>1 DEF TypeOK, CursorsOrdered, QueueMatchesRows, AttributedRight
<1>3. tx \in Nat /\ tx' \in 0 .. MaxTx /\ 0 \in 0 .. MaxCalls
  BY <1>1, BondsBounds DEF ChainTyped
<1>4. ChainTyped'
  BY <1>1, <1>3 DEF ChainTyped
<1>5. nextDequeueSlot[tx] = nextEnqueueSlot[tx]
  BY <1>1 DEF OneRowWaits
<1>6. nextEnqueueSlot[tx'] = 0 /\ nextDequeueSlot[tx'] = 0
  <2>1. tx' # tx /\ tx' > tx
    BY <1>1, <1>3
  <2>2. \A t \in 0 .. MaxTx : /\ t # tx => nextDequeueSlot[t] = nextEnqueueSlot[t]
                              /\ t > tx => nextEnqueueSlot[t] = 0
    BY DEF OtherTransactionsIdle
  <2>. QED  BY <1>3, <2>1, <2>2
<1>7. OneRowWaits'
  BY <1>1, <1>6 DEF OneRowWaits
<1>8. OtherTransactionsIdle'
  BY <1>1, <1>3, <1>5, <1>6 DEF OtherTransactionsIdle, ChainTyped
<1>. QED  BY <1>2, <1>4, <1>7, <1>8

\* The token utility's event: the row of the running call joins the queue.
LEMMA EnqueueStep ==
    ASSUME IInv, NEW fns, handleTokenEvent(fns) PROVE IInv'
<1>. DEFINE e == nextEnqueueSlot[tx]
            k == <<tx, e>>
            row == [service |-> None, bondType |-> None,
                    masterSafe |-> MasterOfPayer(call.service), agentSafe |-> None,
                    forService |-> call.service, forType |-> BondTypeOf(call.fn)]
<1>1. /\ UNCHANGED <<tx, calls, registeredIn, trackedMasters, service, nextDequeueSlot, guard>>
      /\ call # None /\ call.bond /\ call' = [call EXCEPT !.bond = FALSE]
      /\ bondMovement' = Put(bondMovement, k, row)
      /\ pendingBondRow' = Put(pendingBondRow, k, [attributed |-> FALSE])
      /\ nextEnqueueSlot' = [nextEnqueueSlot EXCEPT ![tx] = e + 1]
  BY DEF handleTokenEvent, enqueuePendingBondRow, chain, links, CursorAfter
<1>2. call \in CallRow /\ call' \in CallRow /\ ~call'.bond /\ call'.fn = call.fn
      /\ call'.service = call.service /\ call' # None
  BY <1>1, BondsCall DEF IInv, ChainTyped, CallRow
<1>3. tx \in 0 .. MaxTx /\ e \in Nat /\ calls \in 0 .. MaxCalls /\ e + 1 <= calls
      /\ MaxCalls \in Nat /\ tx \in Nat
  BY <1>1, BondsBounds DEF IInv, ChainTyped, TypeOK, Slots, OtherTransactionsIdle
<1>4. e + 1 \in Slots /\ k \in Keys
  BY <1>3 DEF Slots, Keys
<1>5. nextDequeueSlot[tx] = e /\ (call.fn = "register" => <<tx, call.service>> \notin guard)
  BY <1>1 DEF IInv, OneRowWaits
<1>6. row \in BondRow
  <2>1. MasterOfPayer(call.service) \in MasterSafes \cup {None}
    BY <1>2 DEF MasterOfPayer, IInv, ChainTyped
  <2>2. BondTypeOf(call.fn) \in {"SECURITY_DEPOSIT", "AGENT_BOND"}
    BY DEF BondTypeOf
  <2>. QED  BY <1>2, <2>1, <2>2 DEF BondRow, CallRow
<1>. HIDE DEF row
<1>7. k \notin DOMAIN bondMovement
  BY <1>3, <1>4 DEF IInv, CursorsOrdered, Slots
<1>8. /\ DOMAIN bondMovement' = DOMAIN bondMovement \cup {k}
      /\ bondMovement'[k] = row
      /\ \A x \in DOMAIN bondMovement : bondMovement'[x] = bondMovement[x]
      /\ DOMAIN pendingBondRow' = DOMAIN pendingBondRow \cup {k}
      /\ ~pendingBondRow'[k].attributed
      /\ \A x \in DOMAIN bondMovement : pendingBondRow'[x] = pendingBondRow[x]
  BY <1>1, <1>7 DEF Put, IInv, QueueMatchesRows
<1>9. row.service = None /\ row.forService = call.service /\ row.forType = BondTypeOf(call.fn)
  BY DEF row
<1>10. TypeOK'
  <2>1. PartialFn(bondMovement', Keys, BondRow)
    BY <1>1, <1>4, <1>6, PutPartialFn DEF IInv, TypeOK
  <2>2. PartialFn(pendingBondRow', Keys, [attributed : BOOLEAN])
    <3>1. [attributed |-> FALSE] \in [attributed : BOOLEAN]
      OBVIOUS
    <3>. QED  BY <1>1, <1>4, <3>1, PutPartialFn DEF IInv, TypeOK
  <2>. QED  BY <1>1, <1>4, <2>1, <2>2 DEF IInv, TypeOK
<1>11. ChainTyped'
  BY <1>1, <1>2 DEF IInv, ChainTyped
<1>12. QueueMatchesRows'
  BY <1>8, <1>9 DEF IInv, QueueMatchesRows
<1>13. AttributedRight'
  BY <1>8, <1>9 DEF IInv, AttributedRight
<1>14. CursorsOrdered'
  <2>. SUFFICES ASSUME NEW t \in 0 .. MaxTx, NEW i \in Slots
       PROVE  /\ nextDequeueSlot'[t] <= nextEnqueueSlot'[t]
              /\ <<t, i>> \in DOMAIN bondMovement' <=> i < nextEnqueueSlot'[t]
              /\ <<t, i>> \in DOMAIN bondMovement' =>
                    (bondMovement'[<<t, i>>].service # None <=> i < nextDequeueSlot'[t])
    BY <1>4 DEF CursorsOrdered
  <2>1. /\ nextDequeueSlot[t] \in Nat /\ nextEnqueueSlot[t] \in Nat /\ i \in Nat
        /\ nextEnqueueSlot'[t] = IF t = tx THEN e + 1 ELSE nextEnqueueSlot[t]
    BY <1>1, <1>3 DEF IInv, TypeOK, Slots
  <2>2. /\ nextDequeueSlot[t] <= nextEnqueueSlot[t]
        /\ <<t, i>> \in DOMAIN bondMovement <=> i < nextEnqueueSlot[t]
        /\ <<t, i>> \in DOMAIN bondMovement =>
              (bondMovement[<<t, i>>].service # None <=> i < nextDequeueSlot[t])
    BY DEF IInv, CursorsOrdered
  <2>3. CASE <<t, i>> = k
    BY <2>3, <2>1, <1>1, <1>5, <1>8, <1>9
  <2>4. CASE <<t, i>> # k
    BY <2>4, <2>1, <2>2, <1>1, <1>3, <1>5, <1>8
  <2>. QED  BY <2>3, <2>4
<1>15. OtherTransactionsIdle'
  <2>1. \A t \in 0 .. MaxTx : t # tx => nextEnqueueSlot'[t] = nextEnqueueSlot[t]
    BY <1>1 DEF IInv, TypeOK
  <2>2. nextEnqueueSlot'[tx] = e + 1
    BY <1>1, <1>3 DEF IInv, TypeOK
  <2>. QED  BY <1>1, <1>2, <1>3, <2>1, <2>2 DEF IInv, OtherTransactionsIdle
<1>16. OneRowWaits'
  <2>1. nextEnqueueSlot'[tx] = nextDequeueSlot[tx] + 1
    BY <1>1, <1>3, <1>5 DEF IInv, TypeOK
  <2>. QED  BY <1>1, <1>2, <1>5, <1>8, <1>9, <2>1 DEF OneRowWaits
<1>. QED  BY <1>10, <1>11, <1>12, <1>13, <1>14, <1>15, <1>16 DEF IInv

\* Filling in a waiting row keeps it a bond row of the same bond.
LEMMA BackfilledRow ==
    ASSUME IInv, NEW row \in BondRow, NEW s \in Services,
           NEW bondType \in {"SECURITY_DEPOSIT", "AGENT_BOND"}
    PROVE  LET filled == Backfilled(row, s, bondType) IN
           /\ filled \in BondRow
           /\ filled.service = s /\ filled.bondType = bondType
           /\ filled.forService = row.forService /\ filled.forType = row.forType
<1>1. s \in DOMAIN service => /\ service[s].masterSafe \in MasterSafes \cup {None}
                              /\ service[s].agentSafe \in AgentSafes \cup {None}
  BY DEF IInv, ChainTyped, PartialFn
<1>. QED  BY <1>1 DEF Backfilled, BondRow

\* A registry event of the running call: afterwards no row waits, and the row
\* that waited is attributed to the call's service and to its type.
LEMMA DequeueKeeps ==
    ASSUME IInv, call # None, ~call.bond, call' \in CallRow \cup {None},
           call' # None => ~call'.bond,
           call' # None => call'.fn = call.fn /\ call'.service = call.service,
           UNCHANGED <<chain, links>>,
           guard' = IF call.fn = "register" THEN guard \cup {<<tx, call.service>>} ELSE guard,
           dequeueAndAttribute(call.service, BondTypeOf(call.fn))
    PROVE  IInv'
<1>. DEFINE d == nextDequeueSlot[tx]
            k == <<tx, d>>
            s == call.service
            type == BondTypeOf(call.fn)
<1>1. /\ call \in CallRow /\ s \in Services /\ type \in {"SECURITY_DEPOSIT", "AGENT_BOND"}
      /\ UNCHANGED <<tx, calls, registeredIn, stage, trackedMasters, service>>
      /\ tx \in 0 .. MaxTx /\ tx \in Nat
  BY DEF IInv, ChainTyped, CallRow, BondTypeOf, chain, links
<1>2. ChainTyped'
  BY <1>1 DEF IInv, ChainTyped
<1>3. guard' \subseteq (0 .. MaxTx) \X Services
  BY <1>1 DEF IInv, TypeOK
<1>4. \A t \in 0 .. MaxTx, r \in Services :
            <<t, r>> \in guard' => t <= tx /\ (t = tx => registeredIn[r] = tx)
  BY <1>1 DEF IInv, OtherTransactionsIdle, ChainTyped
<1>5. CASE nextDequeueSlot[tx] = nextEnqueueSlot[tx]
  <2>1. UNCHANGED <<bondMovement, pendingBondRow, nextEnqueueSlot, nextDequeueSlot>>
    BY <1>5, OnlyCursorWaits DEF dequeueAndAttribute, queue
  <2>2. TypeOK' /\ CursorsOrdered' /\ QueueMatchesRows' /\ AttributedRight'
    BY <1>3, <2>1 DEF IInv, TypeOK, CursorsOrdered, QueueMatchesRows, AttributedRight
  <2>3. OtherTransactionsIdle'
    BY <1>1, <1>4, <2>1 DEF IInv, OtherTransactionsIdle
  <2>4. OneRowWaits'
    BY <1>1, <1>5, <2>1 DEF OneRowWaits
  <2>. QED  BY <1>2, <2>2, <2>3, <2>4 DEF IInv
<1>6. CASE nextDequeueSlot[tx] # nextEnqueueSlot[tx]
  <2>1. /\ Waiting # {} /\ Oldest(Waiting) = d /\ k \in DOMAIN bondMovement
        /\ nextEnqueueSlot[tx] = d + 1
    BY <1>6, OnlyCursorWaits
  <2>2. /\ pendingBondRow' = [pendingBondRow EXCEPT ![k].attributed = TRUE]
        /\ nextDequeueSlot' = [nextDequeueSlot EXCEPT ![tx] = d + 1]
        /\ bondMovement' = [bondMovement EXCEPT ![k] = Backfilled(@, s, type)]
        /\ nextEnqueueSlot' = nextEnqueueSlot
    BY <2>1 DEF dequeueAndAttribute, CursorAfter
  <2>3. /\ bondMovement[k].forService = s /\ bondMovement[k].forType = type
        /\ bondMovement[k] \in BondRow /\ k \in Keys
    BY <1>6, <2>1 DEF IInv, OneRowWaits, TypeOK, PartialFn
  <2> DEFINE filled == Backfilled(bondMovement[k], s, type)
  <2>4. /\ filled \in BondRow /\ filled.service = s /\ filled.bondType = type
        /\ filled.forService = s /\ filled.forType = type
    BY <1>1, <2>3, BackfilledRow
  <2> HIDE DEF filled
  <2>5. s # None
    BY <1>1, BondsServices
  <2>6. /\ DOMAIN bondMovement' = DOMAIN bondMovement /\ bondMovement'[k] = filled
        /\ \A x \in DOMAIN bondMovement \ {k} : bondMovement'[x] = bondMovement[x]
    BY <2>1, <2>2 DEF filled
  <2>7. /\ DOMAIN pendingBondRow' = DOMAIN bondMovement
        /\ pendingBondRow'[k].attributed
        /\ \A x \in DOMAIN bondMovement \ {k} : pendingBondRow'[x] = pendingBondRow[x]
        /\ PartialFn(pendingBondRow', Keys, [attributed : BOOLEAN])
    BY <2>1, <2>2 DEF IInv, QueueMatchesRows, TypeOK, PartialFn
  <2>8. d \in Nat /\ d + 1 \in Slots /\ MaxCalls \in Nat
    BY <1>1, <2>1, BondsBounds DEF IInv, TypeOK, Slots
  <2>9. TypeOK'
    <3>1. PartialFn(bondMovement', Keys, BondRow)
      BY <2>1, <2>2, <2>4, <2>6 DEF IInv, TypeOK, PartialFn
    <3>. QED  BY <1>3, <2>2, <2>7, <2>8, <3>1 DEF IInv, TypeOK
  <2>10. QueueMatchesRows'
    BY <2>4, <2>5, <2>6, <2>7 DEF IInv, QueueMatchesRows
  <2>11. AttributedRight'
    BY <2>4, <2>6 DEF IInv, AttributedRight
  <2>12. \A t \in 0 .. MaxTx : nextDequeueSlot'[t] = IF t = tx THEN d + 1 ELSE nextDequeueSlot[t]
    BY <2>2 DEF IInv, TypeOK
  <2>13. CursorsOrdered'
    <3>. SUFFICES ASSUME NEW t \in 0 .. MaxTx, NEW i \in Slots
         PROVE  /\ nextDequeueSlot'[t] <= nextEnqueueSlot'[t]
                /\ <<t, i>> \in DOMAIN bondMovement' <=> i < nextEnqueueSlot'[t]
                /\ <<t, i>> \in DOMAIN bondMovement' =>
                      (bondMovement'[<<t, i>>].service # None <=> i < nextDequeueSlot'[t])
      BY <2>8 DEF CursorsOrdered
    <3>1. /\ nextDequeueSlot[t] \in Nat /\ nextEnqueueSlot[t] \in Nat /\ i \in Nat
          /\ nextDequeueSlot[t] <= nextEnqueueSlot[t]
          /\ <<t, i>> \in DOMAIN bondMovement <=> i < nextEnqueueSlot[t]
          /\ <<t, i>> \in DOMAIN bondMovement =>
                (bondMovement[<<t, i>>].service # None <=> i < nextDequeueSlot[t])
      BY <2>8 DEF IInv, TypeOK, Slots, CursorsOrdered
    <3>2. CASE <<t, i>> = k
      BY <3>1, <3>2, <2>1, <2>2, <2>4, <2>5, <2>6, <2>8, <2>12
    <3>3. CASE <<t, i>> # k
      BY <3>1, <3>3, <2>1, <2>2, <2>6, <2>8, <2>12
    <3>. QED  BY <3>2, <3>3
  <2>14. OtherTransactionsIdle'
    BY <1>1, <1>4, <2>2, <2>12 DEF IInv, OtherTransactionsIdle
  <2>15. OneRowWaits'
    BY <1>1, <2>1, <2>2, <2>12 DEF OneRowWaits
  <2>. QED  BY <1>2, <2>9, <2>10, <2>11, <2>13, <2>14, <2>15 DEF IInv
<1>. QED  BY <1>5, <1>6

LEMMA RegistryLogShape ==
    ASSUME IInv, NEW fn, RegistryLog(fn)
    PROVE  /\ call # None /\ ~call.bond /\ call.fn = fn /\ call.service \in Services
           /\ call' \in CallRow \cup {None}
           /\ call' # None => /\ ~call'.bond /\ call'.fn = call.fn
                              /\ call'.service = call.service
           /\ UNCHANGED <<chain, links>>
<1>1. call # None /\ call \in CallRow
  BY DEF RegistryLog, IInv, ChainTyped
<1>2. CASE call.left = 1
  BY <1>1, <1>2 DEF RegistryLog, CallRow
<1>3. CASE call.left # 1
  BY <1>1, <1>3 DEF RegistryLog, CallRow
<1>. QED  BY <1>2, <1>3

LEMMA AttributionSteps ==
    ASSUME IInv, \/ handleActivateRegistration \/ handleTerminateService
                 \/ handleOperatorUnbond \/ handleRegisterInstance
    PROVE  IInv'
<1>1. CASE handleActivateRegistration
  BY <1>1, RegistryLogShape, DequeueKeeps DEF handleActivateRegistration, BondTypeOf
<1>2. CASE handleTerminateService
  BY <1>2, RegistryLogShape, DequeueKeeps DEF handleTerminateService, BondTypeOf
<1>3. CASE handleOperatorUnbond
  BY <1>3, RegistryLogShape, DequeueKeeps DEF handleOperatorUnbond, BondTypeOf
<1>4. CASE handleRegisterInstance
  <2>1. RegistryLog("register") /\ attributeAgentBondOncePerService(call.service)
    BY <1>4 DEF handleRegisterInstance
  <2>2. CASE <<tx, call.service>> \notin guard
    BY <2>1, <2>2, RegistryLogShape, DequeueKeeps
       DEF attributeAgentBondOncePerService, BondTypeOf
  <2>3. CASE <<tx, call.service>> \in guard
    <3>1. UNCHANGED <<bondMovement, queue, guard>>
      BY <2>1, <2>3 DEF attributeAgentBondOncePerService
    <3>2. nextDequeueSlot[tx] = nextEnqueueSlot[tx]
      BY <2>1, <2>3, RegistryLogShape DEF IInv, OneRowWaits
    <3>3. dequeueAndAttribute(call.service, BondTypeOf(call.fn))
      BY <3>1, <3>2, OnlyCursorWaits DEF dequeueAndAttribute
    <3>. QED  BY <2>1, <2>3, <3>1, <3>3, RegistryLogShape, DequeueKeeps
  <2>. QED  BY <2>2, <2>3
<1>. QED  BY <1>1, <1>2, <1>3, <1>4

LEMMA OtherSteps ==
    ASSUME IInv, \/ \E m \in MasterSafes : TrackMaster(m)
                 \/ \E s \in Services, m \in MasterSafes \cup {None}, a \in AgentSafes \cup {None} :
                        LinkService(s, m, a)
                 \/ UNCHANGED vars
    PROVE  IInv'
<1>. DEFINE LinkRow == [masterSafe : MasterSafes \cup {None}, agentSafe : AgentSafes \cup {None}]
            OnlyLinks == /\ UNCHANGED <<tx, calls, call, registeredIn, bondMovement, pendingBondRow,
                                        nextEnqueueSlot, nextDequeueSlot, guard>>
                         /\ trackedMasters' \subseteq MasterSafes
                         /\ PartialFn(service', Services, LinkRow)
<1>1. OnlyLinks
  <2>1. CASE \E m \in MasterSafes : TrackMaster(m)
    BY <2>1 DEF TrackMaster, chain, queue, IInv, ChainTyped
  <2>2. ASSUME NEW s \in Services, NEW m \in MasterSafes \cup {None},
               NEW a \in AgentSafes \cup {None}, LinkService(s, m, a)
        PROVE  OnlyLinks
    <3>1. [masterSafe |-> m, agentSafe |-> a] \in LinkRow
      OBVIOUS
    <3>2. PartialFn(service, Services, LinkRow)
      BY DEF IInv, ChainTyped
    <3>3. PartialFn(Put(service, s, [masterSafe |-> m, agentSafe |-> a]), Services, LinkRow)
      BY <3>1, <3>2, PutPartialFn
    <3>. QED  BY <2>2, <3>3 DEF LinkService, chain, queue, IInv, ChainTyped
  <2>3. CASE UNCHANGED vars
    BY <2>3 DEF vars, chain, links, queue, IInv, ChainTyped
  <2>. QED  BY <2>1, <2>2, <2>3
<1>. QED
  BY <1>1 DEF IInv, TypeOK, ChainTyped, CursorsOrdered, QueueMatchesRows,
              OtherTransactionsIdle, OneRowWaits, AttributedRight

\* The strengthening is inductive: if no transaction registers the instances
\* of a service twice, at most the row of the running call waits.
THEOREM Inductive == ~ReRegister => (Spec => []IInv)
<1>. SUFFICES ASSUME ~ReRegister PROVE Spec => []IInv
  OBVIOUS
<1>1. Init => IInv
  BY InitIInv
<1>2. IInv /\ [Next]_vars => IInv'
  <2>. SUFFICES ASSUME IInv, [Next]_vars PROVE IInv'
    OBVIOUS
  <2>1. ASSUME NEW fn \in Functions, NEW s \in Services, NEW n \in 1 .. MaxInstances,
               NEW b \in BOOLEAN, CallManager(fn, s, n, b)
        PROVE  IInv'
    BY <2>1, CallStep
  <2>2. CASE NextTransaction
    BY <2>2, NextTransactionStep
  <2>3. CASE handleTokenDeposit \/ handleTokenRefund
    BY <2>3, EnqueueStep DEF handleTokenDeposit, handleTokenRefund
  <2>. QED  BY <2>1, <2>2, <2>3, AttributionSteps, OtherSteps DEF Next
<1>. QED  BY <1>1, <1>2, PTL DEF Spec

\* Type correctness of the bond rows and the queue.
THEOREM TypeCorrect == ~ReRegister => (Spec => []TypeOK)
<1>1. IInv => TypeOK
  BY DEF IInv
<1>. QED  BY <1>1, Inductive, PTL

\* Every attributed bond row carries its own service and bond type.
THEOREM BondsAttributedRight == ~ReRegister => (Spec => []AttributedRight)
<1>1. IInv => AttributedRight
  BY DEF IInv
<1>. QED  BY <1>1, Inductive, PTL

\* Between the calls no bond row is left unattributed.
THEOREM NoBondLeftBehind == ~ReRegister => (Spec => []QueueDrained)
<1>1. IInv => QueueDrained
  <2>. SUFFICES ASSUME IInv, call = None, NEW k \in DOMAIN bondMovement
       PROVE  bondMovement[k].service # None
    BY DEF QueueDrained
  <2>1. PICK t \in 0 .. MaxTx, i \in Slots : k = <<t, i>>
    BY DEF IInv, TypeOK, PartialFn, Keys
  <2>2. nextDequeueSlot[t] = nextEnqueueSlot[t]
    BY DEF IInv, OneRowWaits, OtherTransactionsIdle
  <2>. QED  BY <2>1, <2>2 DEF IInv, CursorsOrdered
<1>. QED  BY <1>1, Inductive, PTL

-----------------------------------------------------------------------------

\* A bond whose token transfer is handled and whose own event is not.
BondRows == [payer : Accounts, token : Tokens, amount : Int]

FundingRow == [totalOlasAmount : Nat, totalNativeAmount : Nat]

\* Rows and counters have their types; only tracked accounts have balances, and
\* nothing is counted for an account before it is tracked.
FundsTyped ==
    /\ tracked \subseteq Trackable
    /\ setupTransferSeen \subseteq Masters
    /\ tokenBalance = [k \in DOMAIN tokenBalance |-> tokenBalance[k]]
    /\ DOMAIN tokenBalance \subseteq tracked \X Tokens
    /\ \A k \in DOMAIN tokenBalance : tokenBalance[k] \in Int
    /\ agentFundingEvent = [k \in DOMAIN agentFundingEvent |-> agentFundingEvent[k]]
    /\ DOMAIN agentFundingEvent \subseteq Masters \X Services
    /\ \A k \in DOMAIN agentFundingEvent : agentFundingEvent[k] \in FundingRow
    /\ bond \in BondRows \cup {None}
    /\ net \in [Accounts \X Tokens -> Int]
    /\ \A k \in Accounts \X Tokens : k[1] \notin tracked => net[k] = 0
    /\ DOMAIN setups = Masters
    /\ eoaDeposits \in [Masters -> Nat]
    /\ DOMAIN funded = Masters \X Services

FundsInv == FundsTyped /\ MasterBalanceExact /\ SetupExactlyFirst /\ FundingTotalsExact

-----------------------------------------------------------------------------

\* The roles and what they say of an account.
LEMMA RoleFacts ==
    ASSUME tracked \subseteq Trackable, NEW a
    PROVE  /\ Role(a) # None => a \in tracked /\ a \in Accounts /\ Role(a) = RoleOf[a]
           /\ Role(a) = "MASTER" <=> a \in Masters /\ a \in tracked
           /\ Role(a) = "MASTER" => MasterOf[a] = a
           /\ Role(Registry) = None /\ Role(Srtu) = None
           /\ Role(a) \in Roles \cup {None}
           /\ Role(a) \in {"AGENT", "AGENT_EOA"} => ServiceOf[a] \in Services \cup {None}
<1>1. Role(a) # None => a \in tracked /\ a \in Accounts /\ Role(a) = RoleOf[a]
  BY DEF Role, Trackable
<1>2. Role(Registry) = None /\ Role(Srtu) = None
  BY FundsAssumption DEF Role, Trackable
<1>3. "MASTER" # None /\ "AGENT" # None /\ "AGENT_EOA" # None
  BY FundsAssumption DEF Roles
<1>4. Role(a) = "MASTER" <=> a \in Masters /\ a \in tracked
  BY <1>1, <1>3 DEF Masters, Role
<1>5. Role(a) \in Roles \cup {None}
  BY <1>1, FundsAssumption
<1>6. Role(a) = "MASTER" => MasterOf[a] = a
  BY <1>4, FundsAssumption
<1>7. Role(a) \in {"AGENT", "AGENT_EOA"} => ServiceOf[a] \in Services \cup {None}
  BY <1>1, <1>3, FundsAssumption
<1>. QED  BY <1>1, <1>2, <1>4, <1>5, <1>6, <1>7

Categories == {"SAFE_SETUP_TRANSFER", "MASTER_FUNDING_IN", "AGENT_TO_MASTER", "APP_TO_AGENT",
               "STAKING_REWARD_CLAIM", "MASTER_TO_AGENT", "MASTER_WITHDRAWAL", "AGENT_TO_APP",
               "OTHER"}

\* What a class says of the roles f and t of the two ends.
ClassRight(class, from, to, f, t) ==
    /\ t = "MASTER" => \/ class.category \in CreditsTo \ DebitsFrom
                       \/ f = "AGENT" /\ class.category = "AGENT_TO_MASTER"
                       \/ from = Registry
    /\ f = "MASTER" /\ t # "MASTER" => class.category \in DebitsFrom
    /\ class.category \in CreditsTo => t # None
    /\ class.category \in DebitsFrom => f # None
    /\ class.category = "SAFE_SETUP_TRANSFER" <=>
         f = "MASTER_EOA" /\ t = "MASTER" /\ to \notin setupTransferSeen
    /\ class.category = "SAFE_SETUP_TRANSFER" => class.master = to
    /\ class.category = "MASTER_TO_AGENT" <=> f = "MASTER" /\ t \in {"AGENT", "AGENT_EOA"}
    /\ class.category = "MASTER_TO_AGENT" => class.service = ServiceOf[to] /\ class.master = from

\* Dropped are the transfers between accounts nobody tracks and the bond's own legs.
LEMMA ClassFacts ==
    ASSUME tracked \subseteq Trackable, NEW from, NEW to
    PROVE  \/ /\ classifyTransfer(from, to) = Dropped
              /\ (Role(from) = None /\ Role(to) = None) \/ IsBondLeg(from, to)
           \/ /\ classifyTransfer(from, to) # Dropped /\ ~IsBondLeg(from, to)
              /\ classifyTransfer(from, to).category \in Categories
              /\ ClassRight(classifyTransfer(from, to), from, to, Role(from), Role(to))
<1>. DEFINE class == classifyTransfer(from, to)
            f == Role(from)
            t == Role(to)
<1>1. /\ f \in Roles \cup {None} /\ t \in Roles \cup {None} /\ None \notin Roles
      /\ f = "MASTER" => MasterOf[from] = from
      /\ from = Registry => f = None
  BY RoleFacts, FundsAssumption
<1>2. class = IF (f = None /\ t = None /\ Srtu \notin {from, to}) \/ IsBondLeg(from, to) THEN Dropped
       ELSE CASE f = "MASTER" /\ t \in {"AGENT", "AGENT_EOA"} ->
                    Class("MASTER_TO_AGENT", ServiceOf[to], MasterOf[from])
              [] f = "AGENT" /\ t = "MASTER" -> Class("AGENT_TO_MASTER", ServiceOf[from], to)
              [] f = "STAKING" /\ t = "AGENT" ->
                    Class("STAKING_REWARD_CLAIM", ServiceOf[to], MasterOf[to])
              [] f # "AGENT" /\ t = "MASTER" -> ClassifyToMaster(from, to)
              [] f = "MASTER" /\ t \notin {"AGENT", "AGENT_EOA", "MASTER"} ->
                    Class("MASTER_WITHDRAWAL", None, from)
              [] f = "AGENT" /\ t # "MASTER" -> Class("AGENT_TO_APP", ServiceOf[from], MasterOf[from])
              [] f \notin {"MASTER", "STAKING", "AGENT"} /\ t = "AGENT" ->
                    Class("APP_TO_AGENT", ServiceOf[to], MasterOf[to])
              [] OTHER -> ClassifyOther(from, to)
  BY DEF classifyTransfer
<1>3. ClassifyToMaster(from, to) =
        IF from = Registry THEN Class("OTHER", None, to)
        ELSE IF f = "MASTER_EOA" /\ to \notin setupTransferSeen
        THEN Class("SAFE_SETUP_TRANSFER", None, to) ELSE Class("MASTER_FUNDING_IN", None, to)
  BY DEF ClassifyToMaster, SetupSeen
<1>4. \E m : ClassifyOther(from, to) = Class("OTHER", None, m)
  BY DEF ClassifyOther
<1>5. \A c, s, m : /\ Class(c, s, m).category = c /\ Class(c, s, m).service = s
                   /\ Class(c, s, m).master = m /\ Class(c, s, m) # Dropped
  BY DEF Class, Dropped
<1>. HIDE DEF class, f, t
<1>6. CASE (f = None /\ t = None /\ Srtu \notin {from, to}) \/ IsBondLeg(from, to)
  <2>1. class = Dropped
    BY <1>2, <1>6
  <2>. QED  BY <1>6, <2>1 DEF class, f, t
<1>7. CASE ~((f = None /\ t = None /\ Srtu \notin {from, to}) \/ IsBondLeg(from, to))
  <2>0. class # Dropped /\ class.category \in Categories
    BY <1>2, <1>3, <1>4, <1>5, <1>7 DEF Categories
  <2>1. CASE t = "MASTER"
    <3>1. ClassRight(class, from, to, f, t)
      BY <1>1, <1>2, <1>3, <1>5, <1>7, <2>1 DEF ClassRight, CreditsTo, DebitsFrom, Roles
    <3>. QED  BY <3>1, <2>0, <1>7 DEF class, f, t
  <2>2. CASE t # "MASTER" /\ f = "MASTER"
    <3>1. ClassRight(class, from, to, f, t)
      BY <1>1, <1>2, <1>5, <1>7, <2>2 DEF ClassRight, CreditsTo, DebitsFrom, Roles
    <3>. QED  BY <3>1, <2>0, <1>7 DEF class, f, t
  <2>3. CASE t # "MASTER" /\ f # "MASTER"
    <3>1. ClassRight(class, from, to, f, t)
      BY <1>1, <1>2, <1>4, <1>5, <1>7, <2>3 DEF ClassRight, CreditsTo, DebitsFrom, Roles
    <3>. QED  BY <3>1, <2>0, <1>7 DEF class, f, t
  <2>. QED  BY <2>1, <2>2, <2>3
<1>. QED  BY <1>6, <1>7

-----------------------------------------------------------------------------
(* Balances. *)

\* A table of running balances of tracked accounts.
Balances(b) == /\ b = [k \in DOMAIN b |-> b[k]]
               /\ DOMAIN b \subseteq tracked \X Tokens
               /\ \A k \in DOMAIN b : b[k] \in Int

\* One more amount on the balance of an account.
LEMMA UpsertAdds ==
    ASSUME NEW b, Balances(b), NEW a \in tracked, NEW token \in Tokens, NEW x \in Int
    PROVE  /\ Balances(upsertTokenBalance(b, a, token, x))
           /\ \A k : LoadOr(upsertTokenBalance(b, a, token, x), k, 0) =
                        LoadOr(b, k, 0) + (IF k = <<a, token>> THEN x ELSE 0)
           /\ \A k : LoadOr(b, k, 0) \in Int
<1>. DEFINE c == upsertTokenBalance(b, a, token, x)
            old == LoadOr(b, <<a, token>>, 0)
<1>1. \A k : LoadOr(b, k, 0) \in Int
  BY DEF Balances, LoadOr
<1>2. c = [k \in DOMAIN b \cup {<<a, token>>} |-> IF k = <<a, token>> THEN old + x ELSE b[k]]
  BY DEF upsertTokenBalance, Put
<1>3. old \in Int /\ <<a, token>> \in tracked \X Tokens
  BY <1>1
<1>4. <<a, token>> \notin DOMAIN b => old = 0
  BY DEF LoadOr
<1>5. <<a, token>> \in DOMAIN b => old = b[<<a, token>>]
  BY DEF LoadOr
<1>. HIDE DEF c, old
<1>6. Balances(c)
  BY <1>2, <1>3 DEF Balances
<1>7. ASSUME NEW k PROVE LoadOr(c, k, 0) = LoadOr(b, k, 0) + (IF k = <<a, token>> THEN x ELSE 0)
  <2>1. CASE k = <<a, token>>
    BY <2>1, <1>2, <1>3, <1>4, <1>5 DEF LoadOr
  <2>2. CASE k # <<a, token>>
    BY <2>2, <1>1, <1>2, <1>3 DEF LoadOr
  <2>. QED  BY <2>1, <2>2
<1>. QED  BY <1>1, <1>6, <1>7 DEF c

\* The balances after a transfer of a class.
Booked(after, category, from, to, token, amount) ==
    \A k : LoadOr(after, k, 0) =
             LoadOr(tokenBalance, k, 0)
             + (IF category \in CreditsTo /\ k = <<to, token>> THEN amount ELSE 0)
             - (IF (category \in DebitsFrom \/ SenderIsMaster(from, to)) /\ k = <<from, token>>
                THEN amount ELSE 0)

\* What a transfer of a class books on every balance.
LEMMA BookedAmounts ==
    ASSUME Balances(tokenBalance), NEW category, NEW from, NEW to, NEW token \in Tokens,
           NEW amount \in Nat,
           category \in CreditsTo => to \in tracked,
           category \in DebitsFrom \/ SenderIsMaster(from, to) => from \in tracked
    PROVE  /\ Balances(BalancesAfter(category, from, to, token, amount))
           /\ Booked(BalancesAfter(category, from, to, token, amount), category, from, to, token, amount)
<1>. DEFINE credited == IF category \in CreditsTo
                        THEN upsertTokenBalance(tokenBalance, to, token, amount) ELSE tokenBalance
            after == BalancesAfter(category, from, to, token, amount)
            debit == category \in DebitsFrom \/ SenderIsMaster(from, to)
<1>1. after = IF debit THEN upsertTokenBalance(credited, from, token, -amount) ELSE credited
  BY DEF BalancesAfter
<1>2. amount \in Int /\ -amount \in Int
  OBVIOUS
<1>3. \A k : LoadOr(tokenBalance, k, 0) \in Int
  BY DEF Balances, LoadOr
<1>4. /\ Balances(credited)
      /\ \A k : LoadOr(credited, k, 0) = LoadOr(tokenBalance, k, 0)
                   + (IF category \in CreditsTo /\ k = <<to, token>> THEN amount ELSE 0)
  <2>1. CASE category \in CreditsTo
    BY <2>1, <1>2, UpsertAdds
  <2>2. CASE category \notin CreditsTo
    BY <2>2, <1>3
  <2>. QED  BY <2>1, <2>2
<1>. HIDE DEF credited, after
<1>5. \A k : LoadOr(credited, k, 0) \in Int
  BY <1>4 DEF Balances, LoadOr
<1>6. CASE debit
  <2>1. /\ Balances(after)
        /\ \A k : LoadOr(after, k, 0) = LoadOr(credited, k, 0)
                     + (IF k = <<from, token>> THEN -amount ELSE 0)
    BY <1>1, <1>2, <1>4, <1>6, UpsertAdds
  <2>2. ASSUME NEW k
        PROVE  LoadOr(after, k, 0) = LoadOr(tokenBalance, k, 0)
                + (IF category \in CreditsTo /\ k = <<to, token>> THEN amount ELSE 0)
                - (IF debit /\ k = <<from, token>> THEN amount ELSE 0)
    <3>1. LoadOr(after, k, 0) = LoadOr(credited, k, 0)
                     + (IF k = <<from, token>> THEN -amount ELSE 0)
      BY <2>1
    <3>2. LoadOr(credited, k, 0) = LoadOr(tokenBalance, k, 0)
                   + (IF category \in CreditsTo /\ k = <<to, token>> THEN amount ELSE 0)
      BY <1>4
    <3>3. LoadOr(tokenBalance, k, 0) \in Int
      BY <1>3
    <3>. HIDE DEF debit
    <3>. QED  BY <3>1, <3>2, <3>3, <1>6
  <2>. QED  BY <2>1, <2>2 DEF after, Booked
<1>7. CASE ~debit
  <2>1. ASSUME NEW k
        PROVE  LoadOr(after, k, 0) = LoadOr(tokenBalance, k, 0)
                + (IF category \in CreditsTo /\ k = <<to, token>> THEN amount ELSE 0)
                - (IF debit /\ k = <<from, token>> THEN amount ELSE 0)
    <3>1. LoadOr(after, k, 0) = LoadOr(tokenBalance, k, 0)
                   + (IF category \in CreditsTo /\ k = <<to, token>> THEN amount ELSE 0)
      BY <1>1, <1>4, <1>7
    <3>2. LoadOr(tokenBalance, k, 0) \in Int
      BY <1>3
    <3>. HIDE DEF debit
    <3>. QED  BY <3>1, <3>2, <1>7
  <2>. QED  BY <2>1, <1>1, <1>4, <1>7 DEF after, Booked
<1>. QED  BY <1>6, <1>7

-----------------------------------------------------------------------------
(* The handlers. *)

\* A transfer between two accounts, neither of them the SRTU or the Registry: every
\* leg of a Master Safe is booked.
LEMMA TransferBooked ==
    ASSUME tracked \subseteq Trackable, Balances(tokenBalance),
           NEW from \in Ends \ {Registry}, NEW to \in Ends, NEW token \in Tokens,
           NEW amount \in Amounts, classifyTransfer(from, to) # Dropped
    PROVE  LET after == BalancesAfter(classifyTransfer(from, to).category, from, to, token, amount)
           IN  /\ Balances(after)
               /\ \A m \in Masters \cap tracked, t \in Tokens :
                    LoadOr(after, <<m, t>>, 0) = LoadOr(tokenBalance, <<m, t>>, 0)
                        + (IF <<m, t>> = <<to, token>> THEN amount ELSE 0)
                        - (IF <<m, t>> = <<from, token>> THEN amount ELSE 0)
<1>0. PICK class : class = classifyTransfer(from, to)
  OBVIOUS
<1>. DEFINE category == class.category
            after == BalancesAfter(category, from, to, token, amount)
<1>1. tracked \subseteq Trackable /\ Balances(tokenBalance) /\ amount \in Nat
  BY FundsAssumption
<1>2. ClassRight(class, from, to, Role(from), Role(to))
  BY <1>0, <1>1, ClassFacts
<1>3. /\ category \in CreditsTo => to \in tracked
      /\ category \in DebitsFrom \/ SenderIsMaster(from, to) => from \in tracked
  BY <1>1, <1>2, RoleFacts DEF ClassRight, SenderIsMaster, category
<1>4. Balances(after) /\ Booked(after, category, from, to, token, amount)
  <2>. HIDE DEF category
  <2>. QED  BY <1>1, <1>3, BookedAmounts
<1>5. ASSUME NEW m \in Masters \cap tracked
      PROVE  /\ m = to => category \in CreditsTo
             /\ m = from => category \in DebitsFrom \/ SenderIsMaster(from, to)
  <2>1. m = to => Role(to) = "MASTER"
    BY <1>1, RoleFacts
  <2>2. m = from => Role(from) = "MASTER"
    BY <1>1, RoleFacts
  <2>3. "AGENT_TO_MASTER" \in CreditsTo
    BY DEF CreditsTo
  <2>. QED  BY <2>1, <2>2, <2>3, <1>2 DEF ClassRight, SenderIsMaster, category
<1>. HIDE DEF category, after
<1>6. ASSUME NEW m \in Masters \cap tracked, NEW t \in Tokens
      PROVE  LoadOr(after, <<m, t>>, 0) = LoadOr(tokenBalance, <<m, t>>, 0)
                        + (IF <<m, t>> = <<to, token>> THEN amount ELSE 0)
                        - (IF <<m, t>> = <<from, token>> THEN amount ELSE 0)
  <2>1. /\ <<m, t>> = <<to, token>> => m = to
        /\ <<m, t>> = <<from, token>> => m = from
    OBVIOUS
  <2>. QED  BY <2>1, <1>4, <1>5 DEF Booked
<1>. QED  BY <1>0, <1>4, <1>6 DEF category, after

\* What is recorded of a transfer apart from balances.
Told(from, to, asset, amount) ==
    LET class == classifyTransfer(from, to) IN
    /\ IF class = Dropped THEN UNCHANGED <<setupTransferSeen, agentFundingEvent>>
       ELSE addToAgentFundingEvent(class, asset, amount) /\ markSetupTransferSeen(class)
    /\ RecordSetup(class)
    /\ RecordTransfer(from, to, asset, amount)

\* The tables about setups and funding have their types.
SetupsTyped == /\ setupTransferSeen \subseteq Masters /\ DOMAIN setups = Masters
               /\ eoaDeposits \in [Masters -> Nat]

FundingTyped == /\ agentFundingEvent = [k \in DOMAIN agentFundingEvent |-> agentFundingEvent[k]]
                /\ DOMAIN agentFundingEvent \subseteq Masters \X Services
                /\ \A k \in DOMAIN agentFundingEvent : agentFundingEvent[k] \in FundingRow
                /\ DOMAIN funded = Masters \X Services

\* The first deposit of a Master EOA finds the flag unset, every later one finds it set.
LEMMA SetupsKept ==
    ASSUME tracked \subseteq Trackable, SetupsTyped, SetupExactlyFirst, NEW from, NEW to, NEW asset,
           NEW amount, Told(from, to, asset, amount)
    PROVE  SetupsTyped' /\ SetupExactlyFirst'
<1>0. PICK class : class = classifyTransfer(from, to)
  OBVIOUS
<1>. DEFINE deposit == Role(from) = "MASTER_EOA" /\ Role(to) = "MASTER"
            setup == deposit /\ to \notin setupTransferSeen
<1>1. eoaDeposits' = IF deposit THEN [eoaDeposits EXCEPT ![to] = @ + 1] ELSE eoaDeposits
  BY DEF Told, RecordTransfer
<1>2. class.category = "SAFE_SETUP_TRANSFER" <=> setup
  <2>1. CASE class = Dropped
    <3>1. class.category = None
      BY <2>1 DEF Dropped
    <3>2. (Role(from) = None /\ Role(to) = None) \/ IsBondLeg(from, to)
      BY <1>0, <2>1, ClassFacts
    <3>3. "MASTER_EOA" \in Roles
      BY DEF Roles
    <3>4. "MASTER" \in Roles
      BY DEF Roles
    <3>5. ~deposit
      BY <3>2, <3>3, <3>4, RoleFacts, FundsAssumption DEF IsBondLeg
    <3>. QED  BY <3>1, <3>5, FundsAssumption
  <2>2. CASE class # Dropped
    BY <1>0, <2>2, ClassFacts DEF ClassRight
  <2>. QED  BY <2>1, <2>2
<1>3. setup => class.master = to /\ class # Dropped
  <2>1. class = Dropped => class.category = None
    BY DEF Dropped
  <2>. QED  BY <1>0, <1>2, <2>1, ClassFacts, FundsAssumption DEF ClassRight
<1>4. setupTransferSeen' = IF setup THEN setupTransferSeen \cup {to} ELSE setupTransferSeen
  BY <1>0, <1>2, <1>3 DEF Told, markSetupTransferSeen
<1>5. setups' = [m \in Masters |-> IF setup /\ m = to THEN Append(setups[m], eoaDeposits[m] + 1)
                                   ELSE setups[m]]
  BY <1>0, <1>2, <1>3 DEF Told, RecordSetup
<1>6. deposit => to \in Masters
  BY RoleFacts
<1>. HIDE DEF deposit
<1>7. SetupsTyped'
  BY <1>1, <1>4, <1>5, <1>6 DEF SetupsTyped
<1>8. ASSUME NEW m \in Masters
      PROVE  /\ setups'[m] = IF eoaDeposits'[m] > 0 THEN <<1>> ELSE <<>>
             /\ m \in setupTransferSeen' <=> eoaDeposits'[m] > 0
  <2>1. /\ setups[m] = IF eoaDeposits[m] > 0 THEN <<1>> ELSE <<>>
        /\ m \in setupTransferSeen <=> eoaDeposits[m] > 0
        /\ eoaDeposits[m] \in Nat
    BY DEF SetupExactlyFirst, SetupsTyped
  <2>2. CASE deposit /\ m = to
    <3>1. eoaDeposits'[m] = eoaDeposits[m] + 1
      BY <1>1, <2>2 DEF SetupsTyped
    <3>2. m \in setupTransferSeen'
      BY <1>4, <2>2
    <3>3. Append(<<>>, 1) = <<1>>
      OBVIOUS
    <3>4. setups'[m] = <<1>>
      <4>1. CASE m \in setupTransferSeen
        BY <1>5, <2>1, <2>2, <4>1
      <4>2. CASE m \notin setupTransferSeen
        <5>1. eoaDeposits[m] = 0 /\ setups[m] = <<>>
          BY <2>1, <4>2
        <5>2. setups'[m] = Append(setups[m], eoaDeposits[m] + 1)
          BY <1>5, <2>2, <4>2
        <5>3. eoaDeposits[m] + 1 = 1
          BY <5>1
        <5>. QED  BY <5>1, <5>2, <5>3, <3>3
      <4>. QED  BY <4>1, <4>2
    <3>. QED  BY <2>1, <3>1, <3>2, <3>4
  <2>3. CASE ~(deposit /\ m = to)
    BY <1>1, <1>4, <1>5, <2>1, <2>3 DEF SetupsTyped
  <2>. QED  BY <2>2, <2>3
<1>. QED  BY <1>7, <1>8 DEF SetupExactlyFirst

\* A funding leg adds to the event of its Safe and service what it adds to what was sent.
LEMMA FundingKept ==
    ASSUME tracked \subseteq Trackable, FundingTyped, FundingTotalsExact, NEW from, NEW to,
           NEW asset \in Tokens \cup {Native}, NEW amount \in Nat, Told(from, to, asset, amount)
    PROVE  FundingTyped' /\ FundingTotalsExact'
<1>0. PICK class : class = classifyTransfer(from, to)
  OBVIOUS
<1>. DEFINE funding == /\ Role(from) = "MASTER" /\ Role(to) \in {"AGENT", "AGENT_EOA"}
                       /\ ServiceOf[to] # None
            id == <<from, ServiceOf[to]>>
            old == LoadOr(agentFundingEvent, id, NoFunding)
<1>1. funded' = [k \in DOMAIN funded |-> IF funding /\ k = id THEN Sent(funded[k], asset, amount)
                                         ELSE funded[k]]
  BY DEF Told, RecordTransfer
<1>2. class # Dropped =>
        /\ class.category = "MASTER_TO_AGENT" /\ class.service # None <=> funding
        /\ funding => <<class.master, class.service>> = id
  BY <1>0, ClassFacts DEF ClassRight
<1>3. class = Dropped => ~funding
  <2>1. "MASTER" # None /\ "AGENT" # None /\ "AGENT_EOA" # None
    BY FundsAssumption DEF Roles
  <2>2. Role(Srtu) = None
    BY RoleFacts
  <2>3. class = Dropped => (Role(from) = None /\ Role(to) = None) \/ IsBondLeg(from, to)
    BY <1>0, ClassFacts
  <2>. QED  BY <2>1, <2>2, <2>3 DEF IsBondLeg
<1>4. agentFundingEvent' = IF funding
                           THEN Put(agentFundingEvent, id, FundingAfter(old, asset, amount))
                           ELSE agentFundingEvent
  <2>1. CASE class = Dropped
    BY <1>0, <1>3, <2>1 DEF Told
  <2>2. CASE class # Dropped
    BY <1>0, <1>2, <2>2 DEF Told, addToAgentFundingEvent
  <2>. QED  BY <2>1, <2>2
<1>5. funding => id \in Masters \X Services
  BY RoleFacts
<1>6. old \in FundingRow
  BY DEF FundingTyped, LoadOr, NoFunding, FundingRow
<1>7. FundingAfter(old, asset, amount) = Sent(old, asset, amount)
  <2>. HIDE DEF old
  <2>1. old = [totalOlasAmount |-> old.totalOlasAmount, totalNativeAmount |-> old.totalNativeAmount]
        /\ old.totalOlasAmount \in Nat /\ old.totalNativeAmount \in Nat
    BY <1>6 DEF FundingRow
  <2>2. Olas # Native
    BY FundsAssumption
  <2>. QED  BY <2>1, <2>2 DEF FundingAfter, Sent
<1>8. Sent(old, asset, amount) \in FundingRow
  <2>. HIDE DEF old
  <2>. QED  BY <1>6 DEF FundingRow, Sent
<1>9. funding => old = funded[id]
  BY <1>5 DEF FundingTotalsExact
<1>. HIDE DEF funding, id, old
<1>10. FundingTyped'
  BY <1>1, <1>4, <1>5, <1>6, <1>7, <1>8 DEF FundingTyped, Put
<1>11. ASSUME NEW k \in Masters \X Services
       PROVE  LoadOr(agentFundingEvent', k, NoFunding) = funded'[k]
  <2>1. LoadOr(agentFundingEvent, k, NoFunding) = funded[k]
    BY DEF FundingTotalsExact
  <2>2. CASE funding /\ k = id
    <3>1. LoadOr(agentFundingEvent', k, NoFunding) = FundingAfter(old, asset, amount)
      BY <1>4, <2>2 DEF Put, LoadOr
    <3>2. funded'[k] = Sent(funded[k], asset, amount)
      BY <1>1, <1>5, <2>2 DEF FundingTyped
    <3>. QED  BY <1>7, <1>9, <2>2, <3>1, <3>2
  <2>3. CASE ~(funding /\ k = id)
    <3>1. funded'[k] = funded[k]
      BY <1>1, <2>3 DEF FundingTyped
    <3>2. LoadOr(agentFundingEvent', k, NoFunding) = LoadOr(agentFundingEvent, k, NoFunding)
      BY <1>4, <2>3 DEF Put, LoadOr
    <3>. QED  BY <2>1, <3>1, <3>2
  <2>. QED  BY <2>2, <2>3
<1>. QED  BY <1>10, <1>11 DEF FundingTotalsExact

\* What is due to a Master Safe is unmoved as long as the bond is the same.
Due(b, m, token) == IF b # None /\ b.payer = m /\ b.token = token THEN b.amount ELSE 0

NetTyped == net \in [Accounts \X Tokens -> Int]
            /\ \A k \in Accounts \X Tokens : k[1] \notin tracked => net[k] = 0

\* What really moved after a transfer of a token.
LEMMA NetMoved ==
    ASSUME NetTyped, NEW from, NEW to, NEW token \in Tokens, NEW amount \in Nat,
           UNCHANGED tracked, RecordTransfer(from, to, token, amount)
    PROVE  /\ NetTyped'
           /\ \A m \in Masters \cap tracked, t \in Tokens :
                net'[<<m, t>>] = net[<<m, t>>] + (IF <<m, t>> = <<to, token>> THEN amount ELSE 0)
                                               - (IF <<m, t>> = <<from, token>> THEN amount ELSE 0)
<1>1. net' = [k \in Accounts \X Tokens |->
                net[k] + (IF k = <<to, token>> /\ to \in tracked THEN amount ELSE 0)
                       - (IF k = <<from, token>> /\ from \in tracked THEN amount ELSE 0)]
  BY FundsAssumption DEF RecordTransfer, NetTyped
<1>2. ASSUME NEW k \in Accounts \X Tokens
      PROVE  /\ net[k] \in Int /\ net'[k] \in Int
             /\ k[1] \notin tracked => net'[k] = net[k]
  <2>1. net[k] \in Int
    BY DEF NetTyped
  <2>2. (k = <<to, token>> => k[1] = to) /\ (k = <<from, token>> => k[1] = from)
    OBVIOUS
  <2>. QED  BY <1>1, <2>1, <2>2
<1>3. NetTyped'
  BY <1>1, <1>2 DEF NetTyped
<1>4. ASSUME NEW m \in Masters \cap tracked, NEW t \in Tokens
      PROVE  net'[<<m, t>>] = net[<<m, t>>] + (IF <<m, t>> = <<to, token>> THEN amount ELSE 0)
                                            - (IF <<m, t>> = <<from, token>> THEN amount ELSE 0)
  <2>1. <<m, t>> \in Accounts \X Tokens
    BY DEF Masters
  <2>2. net'[<<m, t>>] =
            net[<<m, t>>] + (IF <<m, t>> = <<to, token>> /\ to \in tracked THEN amount ELSE 0)
                          - (IF <<m, t>> = <<from, token>> /\ from \in tracked THEN amount ELSE 0)
    BY <1>1, <2>1
  <2>3. (<<m, t>> = <<to, token>> => to \in tracked) /\ (<<m, t>> = <<from, token>> => from \in tracked)
    OBVIOUS
  <2>. QED  BY <2>2, <2>3
<1>. QED  BY <1>3, <1>4

\* The parts of the invariant, by what they speak of.
BalancesExact == Balances(tokenBalance) /\ NetTyped /\ MasterBalanceExact

LEMMA FundsInvParts ==
    FundsInv <=> /\ tracked \subseteq Trackable /\ bond \in BondRows \cup {None}
                 /\ BalancesExact
                 /\ SetupsTyped /\ SetupExactlyFirst
                 /\ FundingTyped /\ FundingTotalsExact
BY DEF FundsInv, FundsTyped, BalancesExact, Balances, NetTyped, SetupsTyped, FundingTyped

LEMMA MasterBalances ==
    MasterBalanceExact <=> \A m \in Masters \cap tracked, t \in Tokens :
        LoadOr(tokenBalance, <<m, t>>, 0) = net[<<m, t>>] - Due(bond, m, t)
BY DEF MasterBalanceExact, Due

\* Both sides move alike, or the difference is the bond under way.
LEMMA TransferKeepsBalances ==
    ASSUME BalancesExact, tracked \subseteq Trackable, bond = None, UNCHANGED tracked,
           NEW from \in Ends \ {Registry}, NEW to \in Ends \ {Registry}, NEW token \in Tokens,
           NEW amount \in Amounts, HandleErc20(from, to, token, amount),
           bond' \in BondRows \cup {None},
           \A m \in Masters \cap tracked, t \in Tokens :
              Due(bond', m, t) =
                IF IsBondLeg(from, to)
                THEN (IF <<m, t>> = <<to, token>> THEN amount ELSE 0)
                     - (IF <<m, t>> = <<from, token>> THEN amount ELSE 0)
                ELSE 0
    PROVE  BalancesExact'
<1>1. amount \in Nat /\ Balances(tokenBalance) /\ NetTyped
  BY FundsAssumption DEF BalancesExact
<1>2. RecordTransfer(from, to, token, amount)
  BY DEF HandleErc20
<1>3. /\ NetTyped'
      /\ \A m \in Masters \cap tracked, t \in Tokens :
            net'[<<m, t>>] = net[<<m, t>>] + (IF <<m, t>> = <<to, token>> THEN amount ELSE 0)
                                           - (IF <<m, t>> = <<from, token>> THEN amount ELSE 0)
  BY <1>1, <1>2, NetMoved
<1>4. \A m \in Masters \cap tracked, t \in Tokens :
         /\ LoadOr(tokenBalance, <<m, t>>, 0) = net[<<m, t>>]
         /\ net[<<m, t>>] \in Int
  <2>. TAKE m \in Masters \cap tracked, t \in Tokens
  <2>1. LoadOr(tokenBalance, <<m, t>>, 0) = net[<<m, t>>] - Due(bond, m, t)
    BY MasterBalances DEF BalancesExact
  <2>2. Due(bond, m, t) = 0
    BY DEF Due
  <2>3. net[<<m, t>>] \in Int
    BY DEF BalancesExact, NetTyped, Masters
  <2>. QED  BY <2>1, <2>2, <2>3
<1>5. CASE classifyTransfer(from, to) = Dropped
  <2>1. tokenBalance' = tokenBalance
    BY <1>5 DEF HandleErc20
  <2>2. ASSUME NEW m \in Masters \cap tracked, m \in {from, to} PROVE IsBondLeg(from, to)
    <3>1. Role(m) = "MASTER" /\ "MASTER" # None
      BY RoleFacts, FundsAssumption DEF Roles
    <3>. QED  BY <1>5, <2>2, <3>1, ClassFacts
  <2>3. ASSUME NEW m \in Masters \cap tracked, NEW t \in Tokens
        PROVE  LoadOr(tokenBalance', <<m, t>>, 0) = net'[<<m, t>>] - Due(bond', m, t)
    <3>1. (<<m, t>> = <<to, token>> => m = to) /\ (<<m, t>> = <<from, token>> => m = from)
      OBVIOUS
    <3>. QED  BY <1>1, <1>3, <1>4, <2>1, <2>2, <3>1
  <2>. QED  BY <1>1, <1>3, <2>1, <2>3 DEF BalancesExact, Balances, MasterBalanceExact, Due
<1>6. CASE classifyTransfer(from, to) # Dropped
  <2>1. tokenBalance' = BalancesAfter(classifyTransfer(from, to).category, from, to, token, amount)
    BY <1>6 DEF HandleErc20
  <2>2. ~IsBondLeg(from, to)
    BY <1>6, ClassFacts
  <2>3. /\ Balances(tokenBalance')
        /\ \A m \in Masters \cap tracked, t \in Tokens :
                    LoadOr(tokenBalance', <<m, t>>, 0) = LoadOr(tokenBalance, <<m, t>>, 0)
                        + (IF <<m, t>> = <<to, token>> THEN amount ELSE 0)
                        - (IF <<m, t>> = <<from, token>> THEN amount ELSE 0)
    BY <1>1, <1>6, <2>1, TransferBooked
  <2>4. ASSUME NEW m \in Masters \cap tracked, NEW t \in Tokens
        PROVE  LoadOr(tokenBalance', <<m, t>>, 0) = net'[<<m, t>>] - Due(bond', m, t)
    BY <1>1, <1>3, <1>4, <2>2, <2>3
  <2>. QED  BY <1>1, <1>3, <2>3, <2>4 DEF BalancesExact, Balances, MasterBalanceExact, Due
<1>. QED  BY <1>5, <1>6

\* A new row of the tracked-address table: nothing was booked for the account before.
LEMMA TrackKeeps == ASSUME FundsInv, NEW a \in Accounts, Track(a) PROVE FundsInv'
<1>. USE DEF Track
<1>1. /\ bond = None /\ a \in Trackable \ tracked /\ tracked' = tracked \cup {a}
      /\ UNCHANGED <<setupTransferSeen, tokenBalance, agentFundingEvent, bond, net, setups,
                     eoaDeposits, funded>>
  BY DEF ghost
<1>2. FundsTyped'
  <2>1. /\ FundsTyped /\ tracked' \subseteq Trackable
        /\ DOMAIN tokenBalance \subseteq tracked' \X Tokens
    BY <1>1 DEF FundsInv, FundsTyped
  <2>. QED  BY <1>1, <2>1 DEF FundsTyped
<1>3. ASSUME NEW m \in Masters \cap tracked', NEW t \in Tokens
      PROVE  LoadOr(tokenBalance, <<m, t>>, 0) = net[<<m, t>>]
  <2>0. <<m, t>> \in Accounts \X Tokens /\ net[<<m, t>>] \in Int
    BY DEF Masters, FundsInv, FundsTyped
  <2>1. CASE m \in tracked
    BY <1>1, <2>0, <2>1 DEF FundsInv, MasterBalanceExact
  <2>2. CASE m \notin tracked
    <3>1. <<m, t>> \notin DOMAIN tokenBalance /\ net[<<m, t>>] = 0
      BY <2>0, <2>2 DEF FundsInv, FundsTyped
    <3>. QED  BY <3>1 DEF LoadOr
  <2>. QED  BY <2>1, <2>2
<1>4. MasterBalanceExact'
  <2>. SUFFICES ASSUME NEW m \in Masters \cap tracked', NEW t \in Tokens
                PROVE  LoadOr(tokenBalance', <<m, t>>, 0) =
                         net'[<<m, t>>] - (IF bond' # None /\ bond'.payer = m /\ bond'.token = t
                                           THEN bond'.amount ELSE 0)
    BY DEF MasterBalanceExact
  <2>1. net'[<<m, t>>] \in Int
    BY <1>1 DEF Masters, FundsInv, FundsTyped
  <2>. QED  BY <1>1, <1>3, <2>1
<1>5. SetupExactlyFirst' /\ FundingTotalsExact'
  BY <1>1 DEF FundsInv, SetupExactlyFirst, FundingTotalsExact
<1>. QED  BY <1>2, <1>4, <1>5 DEF FundsInv

\* A token transfer tells of itself what every handler of a transfer does.
LEMMA Erc20Told ==
    ASSUME NEW from, NEW to, NEW token, NEW amount, HandleErc20(from, to, token, amount)
    PROVE  Told(from, to, token, amount) /\ UNCHANGED tracked
BY DEF HandleErc20, Told

\* What is recorded of a transfer keeps the setups and the funding totals right.
LEMMA ToldKeeps ==
    ASSUME FundsInv, NEW from, NEW to, NEW asset \in Tokens \cup {Native}, NEW amount \in Amounts,
           Told(from, to, asset, amount)
    PROVE  /\ SetupsTyped' /\ SetupExactlyFirst'
           /\ FundingTyped' /\ FundingTotalsExact'
<1>1. amount \in Nat
  BY FundsAssumption
<1>. QED  BY <1>1, SetupsKept, FundingKept, FundsInvParts

LEMMA FundsTransferKeeps ==
    ASSUME FundsInv, NEW from \in Accounts, NEW to \in Accounts, NEW token \in Tokens,
           NEW amount \in Amounts, handleErc20Transfer(from, to, token, amount)
    PROVE  FundsInv'
<1>1. /\ bond = None /\ bond' = None /\ Registry \notin {from, to}
      /\ HandleErc20(from, to, token, amount)
  BY DEF handleErc20Transfer
<1>2. Told(from, to, token, amount) /\ UNCHANGED tracked
  BY <1>1, Erc20Told
<1>3. /\ SetupsTyped' /\ SetupExactlyFirst'
      /\ FundingTyped' /\ FundingTotalsExact'
  BY <1>2, ToldKeeps
<1>4. ~IsBondLeg(from, to)
  BY FundsAssumption DEF IsBondLeg
<1>5. \A m, t : Due(bond', m, t) = 0
  BY <1>1 DEF Due
<1>6. BalancesExact /\ tracked \subseteq Trackable
  BY FundsInvParts
<1>7. BalancesExact'
  BY <1>1, <1>2, <1>4, <1>5, <1>6, TransferKeepsBalances DEF Ends
<1>8. (tracked \subseteq Trackable)' /\ (bond \in BondRows \cup {None})'
  BY <1>1, <1>2, <1>6
<1>. QED  BY <1>3, <1>7, <1>8, FundsInvParts, PTL

\* The token leg of a bond moves what its own event is going to book.
LEMMA BondKeeps ==
    ASSUME FundsInv, NEW payer \in Accounts, NEW token \in Tokens, NEW amount \in Amounts,
           NEW refund \in BOOLEAN, BondTransfer(payer, token, amount, refund)
    PROVE  FundsInv'
<1>. DEFINE from == IF refund THEN Srtu ELSE payer
            to == IF refund THEN payer ELSE Srtu
<1>1. /\ bond = None /\ payer # Registry
      /\ bond' = [payer |-> payer, token |-> token, amount |-> IF refund THEN amount ELSE -amount]
  BY DEF BondTransfer
<1>2. HandleErc20(from, to, token, amount)
  BY DEF BondTransfer
<1>3. from \in Ends \ {Registry} /\ to \in Ends \ {Registry}
  BY <1>1, FundsAssumption DEF Ends
<1>4. amount \in Nat
  BY FundsAssumption
<1>5. bond' \in BondRows /\ bond' # None
  BY <1>1, <1>4, FundsAssumption DEF BondRows
<1>6. BalancesExact /\ tracked \subseteq Trackable
  BY FundsInvParts
<1>7. ASSUME NEW m \in Masters \cap tracked, NEW t \in Tokens
      PROVE  Due(bond', m, t) =
                IF IsBondLeg(from, to)
                THEN (IF <<m, t>> = <<to, token>> THEN amount ELSE 0)
                     - (IF <<m, t>> = <<from, token>> THEN amount ELSE 0)
                ELSE 0
  <2>1. m # Srtu
    BY FundsAssumption DEF Masters
  <2>2. IsBondLeg(from, to) <=> Role(payer) = "MASTER"
    <3>1. Role(Srtu) # "MASTER"
      BY <1>6, RoleFacts, FundsAssumption DEF Roles
    <3>. QED  BY <3>1 DEF IsBondLeg
  <2>3. Due(bond', m, t) = IF payer = m /\ token = t THEN (IF refund THEN amount ELSE -amount) ELSE 0
    BY <1>1, <1>5 DEF Due
  <2>4. payer = m => Role(payer) = "MASTER"
    BY <1>6, <1>7, RoleFacts
  <2>5. /\ <<m, t>> = <<to, token>> <=> refund /\ payer = m /\ token = t
        /\ <<m, t>> = <<from, token>> <=> ~refund /\ payer = m /\ token = t
    BY <2>1
  <2>. HIDE DEF from, to
  <2>. QED  BY <1>4, <2>2, <2>3, <2>4, <2>5
<1>8. Told(from, to, token, amount) /\ UNCHANGED tracked
  BY <1>2, Erc20Told
<1>9. /\ SetupsTyped' /\ SetupExactlyFirst'
      /\ FundingTyped' /\ FundingTotalsExact'
  BY <1>8, ToldKeeps
<1>. HIDE DEF from, to
<1>10. BalancesExact'
  BY <1>1, <1>2, <1>3, <1>5, <1>6, <1>7, <1>8, TransferKeepsBalances
<1>11. (tracked \subseteq Trackable)' /\ (bond \in BondRows \cup {None})'
  BY <1>5, <1>6, <1>8
<1>. QED  BY <1>9, <1>10, <1>11, FundsInvParts, PTL

\* The bond's own event books it.
LEMMA DepositKeeps == ASSUME FundsInv, handleTokenDepositOrRefund PROVE FundsInv'
<1>1. /\ bond # None /\ bond' = None
      /\ tokenBalance' = IF Role(bond.payer) = "MASTER"
                         THEN upsertTokenBalance(tokenBalance, bond.payer, bond.token, bond.amount)
                         ELSE tokenBalance
      /\ UNCHANGED <<tracked, setupTransferSeen, agentFundingEvent, net, setups, eoaDeposits, funded>>
  BY DEF handleTokenDepositOrRefund, ghost
<1>2. BalancesExact /\ tracked \subseteq Trackable /\ bond \in BondRows
  BY <1>1, FundsInvParts
<1>3. PICK a \in Accounts, token \in Tokens, x \in Int :
        bond.payer = a /\ bond.token = token /\ bond.amount = x
  BY <1>2 DEF BondRows
<1>4. /\ Balances(tokenBalance')
      /\ \A m \in Masters \cap tracked, t \in Tokens :
            LoadOr(tokenBalance', <<m, t>>, 0) =
                LoadOr(tokenBalance, <<m, t>>, 0) + (IF a = m /\ token = t THEN x ELSE 0)
  <2>1. CASE Role(a) = "MASTER"
    <3>1. a \in tracked
      BY <1>2, <2>1, RoleFacts
    <3>2. /\ Balances(tokenBalance')
          /\ \A k : LoadOr(tokenBalance', k, 0) =
                        LoadOr(tokenBalance, k, 0) + (IF k = <<a, token>> THEN x ELSE 0)
      BY <1>1, <1>2, <1>3, <2>1, <3>1, UpsertAdds DEF BalancesExact
    <3>. QED  BY <3>2
  <2>2. CASE Role(a) # "MASTER"
    <3>1. \A m \in Masters \cap tracked : a # m
      BY <1>2, <2>2, RoleFacts
    <3>2. \A k : LoadOr(tokenBalance, k, 0) \in Int
      BY <1>2 DEF BalancesExact, Balances, LoadOr
    <3>. QED  BY <1>1, <1>2, <1>3, <2>2, <3>1, <3>2 DEF BalancesExact, Balances
  <2>. QED  BY <2>1, <2>2
<1>5. ASSUME NEW m \in Masters \cap tracked, NEW t \in Tokens
      PROVE  LoadOr(tokenBalance', <<m, t>>, 0) = net[<<m, t>>]
  <2>1. LoadOr(tokenBalance, <<m, t>>, 0) = net[<<m, t>>] - (IF a = m /\ token = t THEN x ELSE 0)
    BY <1>1, <1>2, <1>3 DEF BalancesExact, MasterBalanceExact
  <2>2. net[<<m, t>>] \in Int
    BY <1>2 DEF BalancesExact, NetTyped, Masters
  <2>. QED  BY <1>4, <2>1, <2>2
<1>6. MasterBalanceExact'
  <2>. SUFFICES ASSUME NEW m \in Masters \cap tracked', NEW t \in Tokens
                PROVE  LoadOr(tokenBalance', <<m, t>>, 0) =
                         net'[<<m, t>>] - (IF bond' # None /\ bond'.payer = m /\ bond'.token = t
                                           THEN bond'.amount ELSE 0)
    BY DEF MasterBalanceExact
  <2>1. net'[<<m, t>>] \in Int
    BY <1>1, <1>2 DEF BalancesExact, NetTyped, Masters
  <2>. QED  BY <1>1, <1>5, <2>1
<1>7. BalancesExact'
  BY <1>1, <1>2, <1>4, <1>6 DEF BalancesExact, Balances, NetTyped
<1>8. /\ SetupsTyped' /\ SetupExactlyFirst' /\ FundingTyped' /\ FundingTotalsExact'
      /\ (tracked \subseteq Trackable)' /\ (bond \in BondRows \cup {None})'
  BY <1>1, <1>2, FundsInvParts
  DEF SetupsTyped, SetupExactlyFirst, FundingTyped, FundingTotalsExact
<1>. QED  BY <1>7, <1>8, FundsInvParts, PTL

\* A native receipt moves no balance.
LEMMA ReceiptKeeps ==
    ASSUME FundsInv, NEW from \in Accounts, NEW to \in Accounts, NEW amount \in Amounts,
           handleSafeReceived(from, to, amount)
    PROVE  FundsInv'
<1>1. /\ Told(from, to, Native, amount)
      /\ UNCHANGED <<tracked, tokenBalance, bond>>
  BY DEF handleSafeReceived, Told
<1>2. net' = net
  BY <1>1 DEF Told, RecordTransfer
<1>3. /\ SetupsTyped' /\ SetupExactlyFirst'
      /\ FundingTyped' /\ FundingTotalsExact'
  BY <1>1, ToldKeeps
<1>4. BalancesExact /\ tracked \subseteq Trackable /\ bond \in BondRows \cup {None}
  BY FundsInvParts
<1>5. BalancesExact'
  BY <1>1, <1>2, <1>4 DEF BalancesExact, Balances, NetTyped, MasterBalanceExact
<1>6. (tracked \subseteq Trackable)' /\ (bond \in BondRows \cup {None})'
  BY <1>1, <1>4
<1>. QED  BY <1>3, <1>5, <1>6, FundsInvParts, PTL

\* The next transaction starts without funding events.
LEMMA NextFundingKeeps == ASSUME FundsInv, NextFunding PROVE FundsInv'
<1>1. /\ agentFundingEvent' = NoRows
      /\ funded' = [k \in DOMAIN funded |-> NoFunding]
      /\ UNCHANGED <<tracked, setupTransferSeen, tokenBalance, bond, net, setups, eoaDeposits>>
  BY DEF NextFunding
<1>2. FundingTyped' /\ FundingTotalsExact'
  BY <1>1, FundsInvParts DEF FundingTyped, FundingTotalsExact, NoRows, LoadOr
<1>3. BalancesExact' /\ SetupsTyped' /\ SetupExactlyFirst'
  BY <1>1, FundsInvParts
  DEF BalancesExact, Balances, NetTyped, MasterBalanceExact, SetupsTyped, SetupExactlyFirst
<1>4. (tracked \subseteq Trackable)' /\ (bond \in BondRows \cup {None})'
  BY <1>1, FundsInvParts
<1>. QED  BY <1>2, <1>3, <1>4, FundsInvParts, PTL

LEMMA FundsInitially == FundsInit => FundsInv
<1>. SUFFICES ASSUME FundsInit PROVE FundsInv
  OBVIOUS
<1>1. FundsTyped
  BY DEF FundsInit, FundsTyped, NoRows
<1>2. MasterBalanceExact /\ SetupExactlyFirst /\ FundingTotalsExact
  BY DEF FundsInit, MasterBalanceExact, SetupExactlyFirst, FundingTotalsExact, NoRows, LoadOr
<1>. QED  BY <1>1, <1>2 DEF FundsInv

LEMMA FundsKept == FundsInv /\ [FundsNext]_fundsVars => FundsInv'
<1>. SUFFICES ASSUME FundsInv, [FundsNext]_fundsVars PROVE FundsInv'
  OBVIOUS
<1>1. CASE UNCHANGED fundsVars
  BY <1>1
  DEF fundsVars, store, ghost, FundsInv, FundsTyped, MasterBalanceExact, SetupExactlyFirst,
      FundingTotalsExact
<1>2. CASE FundsNext
  BY <1>2, TrackKeeps, FundsTransferKeeps, BondKeeps, DepositKeeps, ReceiptKeeps, NextFundingKeeps
  DEF FundsNext
<1>. QED  BY <1>1, <1>2

\* The inductive invariant of the funds ledger: the types above with the three equations
\* that a transfer, a receipt and a bond must keep.
THEOREM FundsInductive == FundsSpec => []FundsInv
<1>. QED  BY FundsInitially, FundsKept, PTL DEF FundsSpec

\* For any accounts, roles, tokens and amounts: a Master Safe's running balance of every
\* token is what it received less what it sent since it is tracked, except for a bond
\* between its token transfer and its own event.
THEOREM MasterBalancesExact == FundsSpec => []MasterBalanceExact
<1>1. FundsInv => MasterBalanceExact
  BY DEF FundsInv
<1>. QED  BY <1>1, FundsInductive, PTL

\* A Master Safe gets one setup row: that of the first deposit from a Master EOA.
THEOREM SetupAlwaysFirst == FundsSpec => []SetupExactlyFirst
<1>1. FundsInv => SetupExactlyFirst
  BY DEF FundsInv
<1>. QED  BY <1>1, FundsInductive, PTL

\* A transaction's funding event has the OLAS and the native coin that were sent in it.
THEOREM FundingTotalsAlwaysExact == FundsSpec => []FundingTotalsExact
<1>1. FundsInv => FundingTotalsExact
  BY DEF FundsInv
<1>. QED  BY <1>1, FundsInductive, PTL

\* The rows and counters have their types; only tracked accounts have balance rows.
THEOREM FundsAlwaysTyped == FundsSpec => []FundsTypeOK
<1>1. FundsInv => FundsTypeOK
  BY DEF FundsInv, FundsTyped, FundsTypeOK, PartialFn, Trackable, FundingRow
<1>. QED  BY <1>1, FundsInductive, PTL
=============================================================================
