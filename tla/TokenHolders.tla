---------------------------- MODULE TokenHolders ----------------------------
(***************************************************************************)
(* tokenomics-eth and tokenomics-l2: OLAS balances and the number of       *)
(* holders, folded over the token's Transfer logs, and on Ethereum the     *)
(* OLAS locked in veOLAS and the number of its depositors.                 *)
(*                                                                         *)
(* The token and veOLAS are external.  A lock is two logs of one           *)
(* transaction: the Transfer, then (`pendingLog') the Deposit; a           *)
(* withdrawal logs its Withdraw before the Transfer.                       *)
(***************************************************************************)
EXTENDS Counters

CONSTANTS
    Accounts, VeOlas, Zero,     \* holders; the veOLAS contract; the zero address
    OnEthereum,                 \* tokenomics-eth, or tokenomics-l2
    Amounts, MaxSupply          \* amounts of a transfer; bound

\* What the constants must satisfy (MCLedgers assumes it of its instances).
HoldersAssumption == /\ VeOlas \notin Accounts /\ Zero \notin Accounts \cup {VeOlas}
                     /\ IsFiniteSet(Accounts)
                     /\ Amounts \subseteq Nat

VARIABLES
    \* External.
    balance, locked, pendingLog,
    \* The store: the Token row of OLAS, that of veOLAS, TokenHolder, VeolasDepositor.
    token, veToken, holder, depositor, veolasHolderCount

chain == <<balance, locked, pendingLog>>
vars == <<chain, token, veToken, holder, depositor, veolasHolderCount>>

Holders == Accounts \cup {VeOlas}
Supply == SumOver(Holders, LAMBDA a : balance[a])

-----------------------------------------------------------------------------
(* The handlers' effect on the store. *)

SavedFrom(from, amount) ==
    IF from = Zero THEN holder ELSE Put(holder, from, LoadOr(holder, from, 0) - amount)

\* Seeded fault: the receiver is loaded before the sender is saved.
SavedToStale(f, to, amount) ==
    IF to = Zero THEN f ELSE Put(f, to, LoadOr(holder, to, 0) + amount)

\* The receiver is loaded after the sender is saved: a transfer to oneself changes nothing.
SavedTo(f, to, amount) == IF to = Zero THEN f ELSE Put(f, to, LoadOr(f, to, 0) + amount)

\* A sender whose balance drops to zero is a holder less, a receiver that had none one more.
HolderChange(from, to, amount) ==
    LET sent == SavedFrom(from, amount)
        left == /\ from # Zero
                /\ LoadOr(holder, from, 0) > 0 /\ sent[from] = 0
        joined == /\ to # Zero
                  /\ LoadOr(sent, to, 0) = 0 /\ amount > 0
    IN  (IF joined THEN 1 ELSE 0) - (IF left THEN 1 ELSE 0)

handleTransferBalances(from, to, amount) ==
    /\ holder' = SavedTo(SavedFrom(from, amount), to, amount)
    /\ token' = Add(token, [balance |-> IF from = Zero THEN amount
                                        ELSE IF to = Zero THEN -amount ELSE 0,
                            holderCount |-> HolderChange(from, to, amount)])

\* tokenomics-l2 has a copy of it.
handleTransferBalancesL2(from, to, amount) == handleTransferBalances(from, to, amount)

\* What the transfer adds to the OLAS held by veOLAS.
VeOlasChange(from, to, amount) ==
    (IF to = VeOlas THEN amount ELSE 0) - (IF from = VeOlas THEN amount ELSE 0)

handleTransfer(from, to, amount) ==
    /\ handleTransferBalances(from, to, amount)
    /\ veToken' = veToken + VeOlasChange(from, to, amount)

handleTransferL2(from, to, amount) ==
    /\ handleTransferBalancesL2(from, to, amount)
    /\ UNCHANGED veToken

Transferred(from, to, amount) ==
    /\ IF OnEthereum THEN handleTransfer(from, to, amount) ELSE handleTransferL2(from, to, amount)
    /\ balance' = [a \in Holders |-> balance[a] + (IF a = to THEN amount ELSE 0)
                                                - (IF a = from THEN amount ELSE 0)]
    /\ UNCHANGED <<depositor, veolasHolderCount>>

-----------------------------------------------------------------------------
(* Actions: a log of the token or of veOLAS is handled. *)

Quiet == pendingLog = Zero

\* Mints, burns and transfers, to oneself and of nothing included.
Transfer(from, to, amount) ==
    /\ Quiet /\ from # VeOlas /\ ~(from = Zero /\ to = Zero)
    /\ IF from = Zero THEN Supply + amount <= MaxSupply ELSE amount <= balance[from]
    /\ Transferred(from, to, amount)
    /\ UNCHANGED <<locked, pendingLog>>

\* Seeded fault: whoever deposits is counted.
DepositCounted(a) ==
    /\ depositor' = Put(depositor, a, TRUE)
    /\ veolasHolderCount' = veolasHolderCount + 1

Deposited(a) ==
    /\ depositor' = Put(depositor, a, TRUE)
    /\ veolasHolderCount' = IF LoadOr(depositor, a, FALSE) THEN veolasHolderCount
                            ELSE veolasHolderCount + 1

\* An account locks OLAS, in a new lock or on top of one.
Lock(a, amount) ==
    /\ OnEthereum /\ Quiet /\ amount > 0 /\ amount <= balance[a]
    /\ locked' = [locked EXCEPT ![a] = @ + amount]
    /\ pendingLog' = a
    /\ Transferred(a, VeOlas, amount)

handleDeposit ==
    /\ ~Quiet
    /\ Deposited(pendingLog)
    /\ pendingLog' = Zero
    /\ UNCHANGED <<balance, locked, token, veToken, holder>>

\* A lock that is only prolonged logs a Deposit of nothing.
handleDepositProlonged(a) ==
    /\ Quiet /\ locked[a] > 0
    /\ Deposited(a)
    /\ UNCHANGED <<chain, token, veToken, holder>>

\* The expired lock is withdrawn; its Transfer is the next log, with the store of this one.
handleWithdraw(a) ==
    /\ Quiet /\ locked[a] > 0
    /\ handleTransfer(VeOlas, a, locked[a])
    /\ IF LoadOr(depositor, a, FALSE)
       THEN /\ depositor' = Put(depositor, a, FALSE)
            /\ veolasHolderCount' = veolasHolderCount - 1
       ELSE UNCHANGED <<depositor, veolasHolderCount>>
    /\ balance' = [balance EXCEPT ![a] = @ + locked[a], ![VeOlas] = @ - locked[a]]
    /\ locked' = [locked EXCEPT ![a] = 0]
    /\ UNCHANGED pendingLog

Init ==
    /\ balance = [a \in Holders |-> 0] /\ locked = [a \in Accounts |-> 0] /\ pendingLog = Zero
    /\ token = [balance |-> 0, holderCount |-> 0] /\ veToken = 0
    /\ holder = NoRows /\ depositor = NoRows /\ veolasHolderCount = 0

Next ==
    \/ \E from, to \in Holders \cup {Zero}, amount \in Amounts : Transfer(from, to, amount)
    \/ \E a \in Accounts, amount \in Amounts : Lock(a, amount)
    \/ handleDeposit
    \/ \E a \in Accounts : handleDepositProlonged(a) \/ handleWithdraw(a)

Spec == Init /\ [][Next]_vars

-----------------------------------------------------------------------------
(* Properties. *)

\* The store is the token's state: every balance, the supply, and as many holders as
\* accounts with a balance.
BalancesMirrorChain ==
    /\ \A a \in Holders : LoadOr(holder, a, 0) = balance[a]
    /\ token.balance = Supply
    /\ token.holderCount = Cardinality({a \in Holders : balance[a] > 0})

\* veOLAS is kept twice, as a token and as a holder, and both agree; its depositors are
\* the accounts with a lock.
LocksMirrorChain ==
    OnEthereum =>
       /\ veToken = LoadOr(holder, VeOlas, 0)
       /\ veToken >= SumOver(Accounts, LAMBDA a : locked[a])
       /\ Quiet => veolasHolderCount = Cardinality({a \in Accounts : locked[a] > 0})

HoldersMirrorChain == BalancesMirrorChain /\ LocksMirrorChain
=============================================================================
