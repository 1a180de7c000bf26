----------------------------- MODULE PearlBonds -----------------------------
(***************************************************************************)
(* Bond attribution of pearl-transactions.  The token utility (SRTU) logs  *)
(* a bond without saying whose it is; the service registry logs the        *)
(* service afterwards.  The SRTU handlers create the BondMovement row and  *)
(* put it into a queue of the transaction, the registry handlers take the  *)
(* oldest row out and fill in the service and the bond type.               *)
(*                                                                         *)
(* The ServiceManager is external: every call of it logs the SRTU event    *)
(* first (for a token-secured service), then the registry's event, or one  *)
(* RegisterInstance per agent instance.  A transaction may hold any        *)
(* sequence of calls for any services.  The bond's effect on TokenBalance  *)
(* is in PearlFunds, the Service links are in PearlSafes.                  *)
(***************************************************************************)
EXTENDS PearlNames, Store

CONSTANTS
    TokenSecured,   \* services whose bond is an ERC-20; the others log no SRTU event
    Payer,          \* service -> the account that pays its bonds
    MasterSafes, AgentSafes,
    ReRegister,     \* may a transaction register instances of a service twice?
    MaxTx,          \* bound: transactions
    MaxCalls,       \* bound: ServiceManager calls per transaction
    MaxInstances    \* bound: agent instances registered by one call

ASSUME BondsServices == TokenSecured \subseteq Services /\ None \notin Services
ASSUME BondsSafes == None \notin MasterSafes \cup AgentSafes
ASSUME BondsBounds == /\ ReRegister \in BOOLEAN
                      /\ MaxTx \in Nat /\ MaxCalls \in Nat /\ MaxInstances \in Nat

\* The ServiceManager call whose logs are being handled.
Functions == {"activate", "register", "terminate", "unbond"}
CallRow == [fn : Functions, service : Services, bond : BOOLEAN, left : Nat \ {0}]
ASSUME BondsCall == None \notin CallRow

VARIABLES
    \* The chain (external): the running transaction, the ServiceManager call
    \* whose logs are being handled, and each service's registration.
    tx, calls, call, stage, registeredIn,
    \* What PearlSafes knows (external here): Master Safes tracked so far and
    \* the Safes of each Service row.
    trackedMasters, service,
    \* The store: bond rows, the queue of each transaction, the guard.
    bondMovement, pendingBondRow, nextEnqueueSlot, nextDequeueSlot, guard

chain == <<tx, calls, registeredIn, stage>>
links == <<trackedMasters, service>>
queue == <<pendingBondRow, nextEnqueueSlot, nextDequeueSlot>>
vars == <<chain, call, links, bondMovement, queue, guard>>

\* What the bond moved by a ServiceManager function is.
BondTypeOf(fn) == IF fn \in {"activate", "terminate"} THEN "SECURITY_DEPOSIT" ELSE "AGENT_BOND"

Slots == 0 .. MaxCalls
Keys == (0 .. MaxTx) \X Slots

-----------------------------------------------------------------------------
(* The queue.  A slot of a transaction holds one bond row and the row's id  *)
(* is <<tx, slot>>: rows and slots are created together.  forService and    *)
(* forType are not in the store: they remember whose bond it is.            *)

\* Seeded fault: the cursor stays.
CursorStays(slot) == slot

CursorAfter(slot) == slot + 1

enqueuePendingBondRow(fn, s, master) ==
    LET slot == nextEnqueueSlot[tx] IN
    /\ bondMovement' = Put(bondMovement, <<tx, slot>>,
                           [service |-> None, bondType |-> None,
                            masterSafe |-> master, agentSafe |-> None,
                            forService |-> s, forType |-> BondTypeOf(fn)])
    /\ pendingBondRow' = Put(pendingBondRow, <<tx, slot>>, [attributed |-> FALSE])
    /\ nextEnqueueSlot' = [nextEnqueueSlot EXCEPT ![tx] = CursorAfter(slot)]
    /\ UNCHANGED nextDequeueSlot

\* Slots of the transaction that still wait, from the cursor on.
Waiting == {i \in nextDequeueSlot[tx] .. nextEnqueueSlot[tx] - 1 :
                /\ <<tx, i>> \in DOMAIN pendingBondRow
                /\ ~pendingBondRow[<<tx, i>>].attributed}

Oldest(slots) == CHOOSE i \in slots : \A j \in slots : i <= j

\* Seeded fault: every row is a security deposit.
BackfilledTypeSwapped(row, s, bondType) ==
    [row EXCEPT !.service = s, !.bondType = BondTypeOf("activate")]

\* The Master Safe stamped by the producer stays; the Agent Safe is the Service
\* row's, if it has one.
Backfilled(row, s, bondType) ==
    LET known == s \in DOMAIN service IN
    [row EXCEPT !.service = s, !.bondType = bondType,
                !.masterSafe = IF @ = None /\ known THEN service[s].masterSafe ELSE @,
                !.agentSafe = IF known /\ service[s].agentSafe # None
                              THEN service[s].agentSafe ELSE @]

dequeueAndAttribute(s, bondType) ==
    IF Waiting = {} THEN UNCHANGED <<bondMovement, queue>>
    ELSE LET slot == Oldest(Waiting) IN
         /\ pendingBondRow' = [pendingBondRow EXCEPT ![<<tx, slot>>].attributed = TRUE]
         /\ nextDequeueSlot' = [nextDequeueSlot EXCEPT ![tx] = CursorAfter(slot)]
         /\ bondMovement' = [bondMovement EXCEPT ![<<tx, slot>>] = Backfilled(@, s, bondType)]
         /\ UNCHANGED nextEnqueueSlot

\* Seeded fault: the guard is not per transaction.
AttributeOnceEver(s) ==
    IF \E t \in 0 .. tx : <<t, s>> \in guard
    THEN UNCHANGED <<bondMovement, queue, guard>>
    ELSE dequeueAndAttribute(s, "AGENT_BOND") /\ guard' = guard \cup {<<tx, s>>}

\* One row per transaction and service, however many instances are registered.
attributeAgentBondOncePerService(s) ==
    IF <<tx, s>> \in guard
    THEN UNCHANGED <<bondMovement, queue, guard>>
    ELSE dequeueAndAttribute(s, "AGENT_BOND") /\ guard' = guard \cup {<<tx, s>>}

-----------------------------------------------------------------------------
(* The ServiceManager (external). *)

StageAfter(fn) == CASE fn = "activate" -> "active" [] fn = "register" -> "active"
                    [] fn = "terminate" -> "terminated" [] fn = "unbond" -> "pre"
StageBefore(fn) == CASE fn = "activate" -> "pre" [] fn = "register" -> "active"
                     [] fn = "terminate" -> "active" [] fn = "unbond" -> "terminated"

\* A refund of a slashed bond may be nothing, and logs no TokenRefund then.
CallManager(fn, s, instances, logsBond) ==
    /\ call = None /\ calls < MaxCalls
    /\ stage[s] = StageBefore(fn)
    /\ fn = "register" /\ ~ReRegister => registeredIn[s] # tx
    /\ logsBond => s \in TokenSecured
    /\ fn \in {"activate", "register"} /\ s \in TokenSecured => logsBond
    /\ calls' = calls + 1
    /\ call' = [fn |-> fn, service |-> s, bond |-> logsBond,
                left |-> IF fn = "register" THEN instances ELSE 1]
    /\ stage' = [stage EXCEPT ![s] = StageAfter(fn)]
    /\ registeredIn' = IF fn = "register" THEN [registeredIn EXCEPT ![s] = tx] ELSE registeredIn
    /\ UNCHANGED <<tx, links, bondMovement, queue, guard>>

NextTransaction ==
    /\ call = None /\ tx < MaxTx
    /\ tx' = tx + 1 /\ calls' = 0
    /\ UNCHANGED <<call, registeredIn, stage, links, bondMovement, queue, guard>>

-----------------------------------------------------------------------------
(* SRTU handlers. *)

MasterOfPayer(s) == IF Payer[s] \in trackedMasters THEN Payer[s] ELSE None

handleTokenEvent(fns) ==
    /\ call # None /\ call.bond /\ call.fn \in fns
    /\ enqueuePendingBondRow(call.fn, call.service, MasterOfPayer(call.service))
    /\ call' = [call EXCEPT !.bond = FALSE]
    /\ UNCHANGED <<chain, links, guard>>

handleTokenDeposit == handleTokenEvent({"activate", "register"})
handleTokenRefund == handleTokenEvent({"terminate", "unbond"})

-----------------------------------------------------------------------------
(* Registry handlers: only their part in the attribution. *)

RegistryLog(fn) ==
    /\ call # None /\ ~call.bond /\ call.fn = fn
    /\ call' = IF call.left = 1 THEN None ELSE [call EXCEPT !.left = @ - 1]
    /\ UNCHANGED <<chain, links>>

handleActivateRegistration ==
    /\ RegistryLog("activate")
    /\ dequeueAndAttribute(call.service, "SECURITY_DEPOSIT")
    /\ UNCHANGED guard

handleRegisterInstance ==
    /\ RegistryLog("register")
    /\ attributeAgentBondOncePerService(call.service)

handleTerminateService ==
    /\ RegistryLog("terminate")
    /\ dequeueAndAttribute(call.service, "SECURITY_DEPOSIT")
    /\ UNCHANGED guard

handleOperatorUnbond ==
    /\ RegistryLog("unbond")
    /\ dequeueAndAttribute(call.service, "AGENT_BOND")
    /\ UNCHANGED guard

-----------------------------------------------------------------------------
(* What other handlers of the subgraph add meanwhile (external here). *)

TrackMaster(m) ==
    /\ call = None
    /\ trackedMasters' = trackedMasters \cup {m}
    /\ UNCHANGED <<chain, call, service, bondMovement, queue, guard>>

LinkService(s, m, a) ==
    /\ call = None
    /\ service' = Put(service, s, [masterSafe |-> m, agentSafe |-> a])
    /\ UNCHANGED <<chain, call, trackedMasters, bondMovement, queue, guard>>

Init ==
    /\ tx = 0 /\ calls = 0 /\ call = None
    /\ stage = [s \in Services |-> "pre"]
    /\ registeredIn = [s \in Services |-> None]
    /\ trackedMasters = {} /\ service = NoRows
    /\ bondMovement = NoRows /\ pendingBondRow = NoRows
    /\ nextEnqueueSlot = [t \in 0 .. MaxTx |-> 0]
    /\ nextDequeueSlot = [t \in 0 .. MaxTx |-> 0]
    /\ guard = {}

Next ==
    \/ \E fn \in Functions, s \in Services, n \in 1 .. MaxInstances, b \in BOOLEAN :
          CallManager(fn, s, n, b)
    \/ NextTransaction
    \/ handleTokenDeposit \/ handleTokenRefund
    \/ handleActivateRegistration \/ handleRegisterInstance
    \/ handleTerminateService \/ handleOperatorUnbond
    \/ \E m \in MasterSafes : TrackMaster(m)
    \/ \E s \in Services, m \in MasterSafes \cup {None}, a \in AgentSafes \cup {None} :
          LinkService(s, m, a)

Spec == Init /\ [][Next]_vars

-----------------------------------------------------------------------------
(* Properties. *)

BondRow == [service : Services \cup {None}, forService : Services,
            bondType : {"SECURITY_DEPOSIT", "AGENT_BOND", None},
            forType : {"SECURITY_DEPOSIT", "AGENT_BOND"},
            masterSafe : MasterSafes \cup {None}, agentSafe : AgentSafes \cup {None}]

\* Types of the bond rows, the queue's slots and cursors, and the guard.
TypeOK ==
    /\ PartialFn(bondMovement, Keys, BondRow)
    /\ PartialFn(pendingBondRow, Keys, [attributed : BOOLEAN])
    /\ nextEnqueueSlot \in [0 .. MaxTx -> Slots]
    /\ nextDequeueSlot \in [0 .. MaxTx -> Slots]
    /\ guard \subseteq (0 .. MaxTx) \X Services

\* A bond row that is attributed belongs to the service and is of the type it
\* is attributed to, whatever calls share the transaction.
AttributedRight ==
    \A k \in DOMAIN bondMovement :
        LET row == bondMovement[k] IN
        row.service # None => row.service = row.forService /\ row.bondType = row.forType

\* No bond row is left behind: when no call is being handled every row is
\* attributed, so no later registry event of the transaction takes it.
QueueDrained ==
    call = None => \A k \in DOMAIN bondMovement : bondMovement[k].service # None

\* The cursors never run past each other, and slot and row agree.
CursorsOrdered ==
    \A t \in 0 .. MaxTx :
        /\ nextDequeueSlot[t] <= nextEnqueueSlot[t]
        /\ \A i \in Slots :
             /\ <<t, i>> \in DOMAIN bondMovement <=> i < nextEnqueueSlot[t]
             /\ <<t, i>> \in DOMAIN bondMovement =>
                   (bondMovement[<<t, i>>].service # None <=> i < nextDequeueSlot[t])

-----------------------------------------------------------------------------
(* The inductive invariant behind AttributedRight and QueueDrained when no  *)
(* transaction registers the instances of a service twice.                  *)

ChainTyped ==
    /\ tx \in 0 .. MaxTx /\ calls \in 0 .. MaxCalls
    /\ call \in CallRow \cup {None}
    /\ DOMAIN registeredIn = Services
    /\ call # None /\ call.fn = "register" => registeredIn[call.service] = tx
    /\ trackedMasters \subseteq MasterSafes
    /\ PartialFn(service, Services, [masterSafe : MasterSafes \cup {None},
                                     agentSafe : AgentSafes \cup {None}])

\* Every slot has its row, and is attributed when its row is.
QueueMatchesRows ==
    /\ DOMAIN pendingBondRow = DOMAIN bondMovement
    /\ \A k \in DOMAIN bondMovement :
          pendingBondRow[k].attributed <=> bondMovement[k].service # None

\* Nothing is queued for a transaction to come, nothing waits in one that is
\* over, and the running one has no more rows than calls.
OtherTransactionsIdle ==
    /\ \A t \in 0 .. MaxTx : /\ t # tx => nextDequeueSlot[t] = nextEnqueueSlot[t]
                             /\ t > tx => nextEnqueueSlot[t] = 0
    /\ nextEnqueueSlot[tx] + (IF call # None /\ call.bond THEN 1 ELSE 0) <= calls
    /\ \A t \in 0 .. MaxTx, s \in Services :
          <<t, s>> \in guard => t <= tx /\ (t = tx => registeredIn[s] = tx)

\* At most one row waits: that of the call whose registry events are due, and
\* its guard is then still to be written.
OneRowWaits ==
    LET unguarded == call.fn = "register" => <<tx, call.service>> \notin guard
        drained == nextDequeueSlot[tx] = nextEnqueueSlot[tx]
        own == bondMovement[<<tx, nextDequeueSlot[tx]>>]
    IN \/ drained /\ (call # None /\ call.bond => unguarded)
       \/ /\ nextEnqueueSlot[tx] = nextDequeueSlot[tx] + 1
          /\ call # None /\ ~call.bond /\ unguarded
          /\ own.forService = call.service /\ own.forType = BondTypeOf(call.fn)

IInv ==
    /\ TypeOK /\ ChainTyped /\ CursorsOrdered /\ QueueMatchesRows
    /\ OtherTransactionsIdle /\ OneRowWaits /\ AttributedRight
=============================================================================
