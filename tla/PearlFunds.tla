----------------------------- MODULE PearlFunds -----------------------------
(***************************************************************************)
(* The funds ledger of pearl-transactions: every ERC-20 transfer and every *)
(* native receipt of a Safe is classified by the roles of its two ends,    *)
(* and the class decides what is booked on the running TokenBalance of the *)
(* Safes, on the AgentFundingEvent of the transaction and on the once-only *)
(* setup flag of a Master Safe.  A bond's ERC-20 leg is dropped here and   *)
(* booked by the token utility's own event instead.                        *)
(*                                                                         *)
(* The rows of the tracked-address table are those PearlSafes writes once  *)
(* and for all: RoleOf, MasterOf and ServiceOf say what an account is      *)
(* tracked as when its time comes, and Track adds its row.                 *)
(***************************************************************************)
EXTENDS PearlNames, Store, Sequences

CONSTANTS
    Accounts,       \* addresses other than the SRTU that send or receive
    Srtu,           \* the ServiceRegistryTokenUtility
    Registry,       \* the ServiceRegistryL2, one of the untracked accounts
    Tokens,         \* indexed ERC-20 tokens
    Olas,           \* the one that is OLAS
    Native,         \* stands for the chain's native coin
    RoleOf, MasterOf, ServiceOf,    \* account -> its row, once tracked
    Amounts,
    MaxMoved        \* bound: number of transfers and receipts

Ends == Accounts \cup {Srtu}
Roles == {"MASTER", "AGENT", "MASTER_EOA", "AGENT_EOA", "STAKING"}
Trackable == {a \in Accounts : RoleOf[a] # None}
Masters == {a \in Accounts : RoleOf[a] = "MASTER"}
Agents == {a \in Accounts : RoleOf[a] = "AGENT"}

\* The Registry and the SRTU are contracts that no table holds.
ASSUME FundsAssumption ==
    /\ Amounts \subseteq Nat /\ MaxMoved \in Nat
    /\ Srtu \notin Accounts /\ Olas \in Tokens /\ Native \notin Tokens
    /\ RoleOf \in [Accounts -> Roles \cup {None}] /\ None \notin Roles
    /\ Registry \in Accounts /\ RoleOf[Registry] = None
    /\ None \notin Accounts /\ None \notin Services /\ None # "SAFE_SETUP_TRANSFER"
    /\ None \notin [payer : Accounts, token : Tokens, amount : Int]
    /\ MasterOf \in [Accounts -> Masters \cup {None}]
    /\ ServiceOf \in [Accounts -> Services \cup {None}]
    /\ \A m \in Masters : MasterOf[m] = m
    /\ \A a \in Agents : MasterOf[a] # None /\ ServiceOf[a] # None

VARIABLES
    \* The store.
    tracked,            \* accounts with a TrackedAddress row
    setupTransferSeen,  \* Master Safes whose flag is set
    tokenBalance,       \* <<account, token>> -> running balance
    agentFundingEvent,  \* <<master, service>> -> totals, for the running transaction
    \* The bond whose ERC-20 leg is handled and whose SRTU event is not yet.
    bond,
    \* What really happened (not in the store).
    moved,          \* transfers so far
    net,            \* per tracked account and token, received minus sent since tracked
    setups,         \* Master Safe -> which deposits got a SAFE_SETUP_TRANSFER row, in a sequence
    eoaDeposits,    \* Master Safe -> inbound transfers from tracked Master EOAs
    funded          \* <<master, service>> -> OLAS and native sent by the transaction

store == <<tracked, setupTransferSeen, tokenBalance, agentFundingEvent>>
ghost == <<moved, net, setups, eoaDeposits, funded>>
fundsVars == <<store, bond, ghost>>

-----------------------------------------------------------------------------
(* classifyTransfer. *)

Role(a) == IF a \in tracked THEN RoleOf[a] ELSE None

Dropped == [category |-> None]
Class(category, service, master) ==
    [category |-> category, service |-> service, master |-> master]

\* Seeded faults: the bond's ERC-20 leg is kept; the setup flag is not read.
BondLegKept(from, to) == FALSE
SetupNeverSeen(m) == FALSE

IsBondLeg(from, to) ==
    \/ Role(from) = "MASTER" /\ to = Srtu
    \/ from = Srtu /\ Role(to) = "MASTER"

SetupSeen(m) == m \in setupTransferSeen

\* senderMasterId is set: the recipient's row debits the sender as well.
SenderIsMaster(from, to) == Role(from) = "MASTER" /\ Role(to) = "MASTER"

\* Seeded fault: the setup row names the sender instead of the Safe.
ClassifySender(from, to) ==
    IF Role(from) = "MASTER_EOA" /\ ~SetupSeen(to)
    THEN Class("SAFE_SETUP_TRANSFER", None, from) ELSE Class("MASTER_FUNDING_IN", None, to)

\* What reaches a Master Safe from anything but an Agent Safe.
ClassifyToMaster(from, to) ==
    CASE from = Registry -> Class("OTHER", None, to)
      [] from # Registry /\ Role(from) = "MASTER_EOA" /\ ~SetupSeen(to) ->
            Class("SAFE_SETUP_TRANSFER", None, to)
      [] OTHER -> Class("MASTER_FUNDING_IN", None, to)

\* One side is tracked and no pattern matches.
ClassifyOther(from, to) ==
    Class("OTHER", None,
          IF Role(from) # None /\ MasterOf[from] # None THEN MasterOf[from]
          ELSE IF Role(to) # None THEN MasterOf[to] ELSE None)

classifyTransfer(from, to) ==
    LET f == Role(from)
        t == Role(to)
    IN IF (f = None /\ t = None /\ Srtu \notin {from, to}) \/ IsBondLeg(from, to) THEN Dropped
       ELSE CASE f = "MASTER" /\ t \in {"AGENT", "AGENT_EOA"} ->
                    Class("MASTER_TO_AGENT", ServiceOf[to], MasterOf[from])
              [] f = "AGENT" /\ t = "MASTER" -> Class("AGENT_TO_MASTER", ServiceOf[from], to)
              [] f = "STAKING" /\ t = "AGENT" ->
                    Class("STAKING_REWARD_CLAIM", ServiceOf[to], MasterOf[to])
              [] f # "AGENT" /\ t = "MASTER" -> ClassifyToMaster(from, to)
              [] f = "MASTER" /\ t \notin {"AGENT", "AGENT_EOA", "MASTER"} ->
                    Class("MASTER_WITHDRAWAL", None, from)
              [] f = "AGENT" /\ t # "MASTER" -> Class("AGENT_TO_APP", ServiceOf[from], MasterOf[from])
              [] f \notin {"MASTER", "STAKING", "AGENT"} /\ t = "AGENT" ->
                    Class("APP_TO_AGENT", ServiceOf[to], MasterOf[to])
              [] OTHER -> ClassifyOther(from, to)

-----------------------------------------------------------------------------
(* Booking. *)

upsertTokenBalance(b, a, token, amount) ==
    Put(b, <<a, token>>, LoadOr(b, <<a, token>>, 0) + amount)

\* AGENT_TO_MASTER stands for AGENT_OLAS_TO_MASTER as well, which the handler
\* books alike.
CreditsTo == {"SAFE_SETUP_TRANSFER", "MASTER_FUNDING_IN", "AGENT_TO_MASTER", "APP_TO_AGENT",
              "STAKING_REWARD_CLAIM", "MASTER_TO_AGENT"}
DebitsFrom == {"MASTER_WITHDRAWAL", "MASTER_TO_AGENT", "AGENT_TO_APP", "AGENT_TO_MASTER"}

BalancesAfter(category, from, to, token, amount) ==
    LET credited == IF category \in CreditsTo
                    THEN upsertTokenBalance(tokenBalance, to, token, amount) ELSE tokenBalance
    IN IF category \in DebitsFrom \/ SenderIsMaster(from, to)
       THEN upsertTokenBalance(credited, from, token, -amount) ELSE credited

NoFunding == [totalOlasAmount |-> 0, totalNativeAmount |-> 0]

\* Seeded fault: every ERC-20 leg is added to the OLAS total.
FundingUngated(total, asset, amount) ==
    IF asset = Native THEN [total EXCEPT !.totalNativeAmount = @ + amount]
    ELSE [total EXCEPT !.totalOlasAmount = @ + amount]

\* Other tokens only join the group.
FundingAfter(total, asset, amount) ==
    CASE asset = Native -> [total EXCEPT !.totalNativeAmount = @ + amount]
      [] asset = Olas -> [total EXCEPT !.totalOlasAmount = @ + amount]
      [] OTHER -> total

addToAgentFundingEvent(class, asset, amount) ==
    agentFundingEvent' =
        IF class.category = "MASTER_TO_AGENT" /\ class.service # None
        THEN LET id == <<class.master, class.service>>
             IN Put(agentFundingEvent, id,
                    FundingAfter(LoadOr(agentFundingEvent, id, NoFunding), asset, amount))
        ELSE agentFundingEvent

markSetupTransferSeen(class) ==
    setupTransferSeen' = IF class.category = "SAFE_SETUP_TRANSFER"
                         THEN setupTransferSeen \cup {class.master} ELSE setupTransferSeen

-----------------------------------------------------------------------------
(* What really happens, told by the roles alone. *)

Sent(total, asset, amount) ==
    [totalOlasAmount |-> total.totalOlasAmount + (IF asset = Olas THEN amount ELSE 0),
     totalNativeAmount |-> total.totalNativeAmount + (IF asset = Native THEN amount ELSE 0)]

RecordTransfer(from, to, asset, amount) ==
    LET isFunding == Role(from) = "MASTER" /\ Role(to) \in {"AGENT", "AGENT_EOA"}
                     /\ ServiceOf[to] # None
        isDeposit == Role(from) = "MASTER_EOA" /\ Role(to) = "MASTER"
    IN /\ moved' = moved + 1
       /\ net' = IF asset = Native THEN net
                 ELSE [k \in DOMAIN net |->
                        net[k] + (IF k = <<to, asset>> /\ to \in tracked THEN amount ELSE 0)
                               - (IF k = <<from, asset>> /\ from \in tracked THEN amount ELSE 0)]
       /\ eoaDeposits' = IF isDeposit THEN [eoaDeposits EXCEPT ![to] = @ + 1] ELSE eoaDeposits
       /\ funded' = [k \in DOMAIN funded |->
                       IF isFunding /\ k = <<from, ServiceOf[to]>>
                       THEN Sent(funded[k], asset, amount) ELSE funded[k]]

RecordSetup(class) ==
    setups' = [m \in Masters |-> IF class.category = "SAFE_SETUP_TRANSFER" /\ m = class.master
                                 THEN Append(setups[m], eoaDeposits[m] + 1) ELSE setups[m]]

-----------------------------------------------------------------------------
(* Handlers. *)

\* getOrCreateMasterSafe and the others add the row of an account.
Track(a) ==
    /\ bond = None /\ a \in Trackable \ tracked
    /\ MasterOf[a] \in tracked \cup {a, None}
    /\ tracked' = tracked \cup {a}
    /\ UNCHANGED <<setupTransferSeen, tokenBalance, agentFundingEvent, bond, ghost>>

HandleErc20(from, to, token, amount) ==
    LET class == classifyTransfer(from, to) IN
    /\ moved < MaxMoved
    /\ IF class = Dropped
       THEN UNCHANGED <<setupTransferSeen, tokenBalance, agentFundingEvent>>
       ELSE /\ tokenBalance' = BalancesAfter(class.category, from, to, token, amount)
            /\ addToAgentFundingEvent(class, token, amount)
            /\ markSetupTransferSeen(class)
    /\ RecordSetup(class)
    /\ RecordTransfer(from, to, token, amount)
    /\ UNCHANGED tracked

\* The Registry moves no ERC-20, and the SRTU only moves bonds.
handleErc20Transfer(from, to, token, amount) ==
    /\ bond = None /\ Registry \notin {from, to}
    /\ HandleErc20(from, to, token, amount)
    /\ UNCHANGED bond

\* A bond is deposited or refunded: first the ERC-20 leg ...
BondTransfer(payer, token, amount, refund) ==
    /\ bond = None /\ payer # Registry
    /\ IF refund THEN HandleErc20(Srtu, payer, token, amount)
                 ELSE HandleErc20(payer, Srtu, token, amount)
    /\ bond' = [payer |-> payer, token |-> token,
                amount |-> IF refund THEN amount ELSE -amount]

\* ... then TokenDeposit or TokenRefund, which books it for a tracked Master.
handleTokenDepositOrRefund ==
    /\ bond # None
    /\ tokenBalance' = IF Role(bond.payer) = "MASTER"
                       THEN upsertTokenBalance(tokenBalance, bond.payer, bond.token, bond.amount)
                       ELSE tokenBalance
    /\ bond' = None
    /\ UNCHANGED <<tracked, setupTransferSeen, agentFundingEvent, ghost>>

\* The Safe template of a tracked Safe sees native receipts; balances do not
\* follow the native coin.
handleSafeReceived(from, to, amount) ==
    LET class == classifyTransfer(from, to) IN
    /\ bond = None /\ moved < MaxMoved
    /\ Role(to) \in {"MASTER", "AGENT"}
    /\ IF class = Dropped
       THEN UNCHANGED <<setupTransferSeen, agentFundingEvent>>
       ELSE addToAgentFundingEvent(class, Native, amount) /\ markSetupTransferSeen(class)
    /\ RecordSetup(class)
    /\ RecordTransfer(from, to, Native, amount)
    /\ UNCHANGED <<tracked, tokenBalance, bond>>

\* The next transaction has funding events of its own.
NextFunding ==
    /\ bond = None
    /\ agentFundingEvent' = NoRows
    /\ funded' = [k \in DOMAIN funded |-> NoFunding]
    /\ UNCHANGED <<tracked, setupTransferSeen, tokenBalance, bond, moved, net, setups, eoaDeposits>>

FundsInit ==
    /\ tracked = {} /\ setupTransferSeen = {}
    /\ tokenBalance = NoRows /\ agentFundingEvent = NoRows
    /\ bond = None /\ moved = 0
    /\ net = [k \in Accounts \X Tokens |-> 0]
    /\ setups = [m \in Masters |-> <<>>]
    /\ eoaDeposits = [m \in Masters |-> 0]
    /\ funded = [k \in Masters \X Services |-> NoFunding]

FundsNext ==
    \/ \E a \in Accounts : Track(a)
    \/ \E from, to \in Accounts, amount \in Amounts :
        \/ \E token \in Tokens : handleErc20Transfer(from, to, token, amount)
        \/ handleSafeReceived(from, to, amount)
    \/ \E payer \in Accounts, token \in Tokens, amount \in Amounts, refund \in BOOLEAN :
        BondTransfer(payer, token, amount, refund)
    \/ handleTokenDepositOrRefund
    \/ NextFunding

FundsSpec == FundsInit /\ [][FundsNext]_fundsVars

-----------------------------------------------------------------------------
(* Properties. *)

\* Types of the funds tables.
FundsTypeOK ==
    /\ tracked \subseteq Trackable /\ setupTransferSeen \subseteq Masters
    /\ PartialFn(tokenBalance, Accounts \X Tokens, Int)
    /\ PartialFn(agentFundingEvent, Masters \X Services,
                 [totalOlasAmount : Nat, totalNativeAmount : Nat])

\* A Master Safe's balance of every token is what it received minus what it
\* sent since it is tracked: no leg of any class is forgotten, and a bond is
\* booked exactly once although two events tell of it (utils.ts 807-815).
MasterBalanceExact ==
    \A m \in Masters \cap tracked, token \in Tokens :
        LoadOr(tokenBalance, <<m, token>>, 0) =
            net[<<m, token>>] - (IF bond # None /\ bond.payer = m /\ bond.token = token
                                 THEN bond.amount ELSE 0)

\* Exactly the first deposit from a Master EOA, native or ERC-20, is the setup
\* transfer of a Master Safe (schema.graphql, SAFE_SETUP_TRANSFER).
SetupExactlyFirst ==
    \A m \in Masters :
        /\ setups[m] = IF eoaDeposits[m] > 0 THEN <<1>> ELSE <<>>
        /\ m \in setupTransferSeen <=> eoaDeposits[m] > 0

\* The totals of a transaction's AgentFundingEvent are the OLAS and the native
\* coin the Master Safe sent to the service's agents in it, and no transfer
\* of another token adds to them.
FundingTotalsExact ==
    \A k \in Masters \X Services : LoadOr(agentFundingEvent, k, NoFunding) = funded[k]
=============================================================================
