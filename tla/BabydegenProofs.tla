--------------------------- MODULE BabydegenProofs ---------------------------
(***************************************************************************)
(* Proofs about babydegen, each part with constants and variables of its   *)
(* own.                                                                    *)
(*                                                                         *)
(* The portfolios, for any Safes, services and accounts, any prices and    *)
(* any length of a day and of the window: every day of every Safe has its  *)
(* snapshot, every day with snapshots its population row, a snapshot shows *)
(* its own moment, and what is booked is what moved.                       *)
(*                                                                         *)
(* The prices, for any sources and any answers of the feeds and pools: a   *)
(* price in use is recent.  The positions of Optimism, for any Safes,      *)
(* NFTs, amounts, slippages and lengths of a bucket: a recent swap waits   *)
(* in one bucket, a Safe's positions cost what its swaps lost, and the     *)
(* rows of pool tokens and NFTs mirror what the chain holds.               *)
(***************************************************************************)
EXTENDS BabydegenPortfolio, StoreTheorems, SequenceTheorems

-----------------------------------------------------------------------------
(* Types, and the moments of the snapshots. *)

PFields == {"firstTradingTimestamp", "firstFundingEthPrice", "lastSnapshotTimestamp",
            "initialValue", "uninvestedValue", "totalWithdrawnUsd", "positionsValue",
            "totalPositions", "totalClosedPositions"}
FundingFields == {"totalInUsd", "totalOutUsd", "totalWithdrawnUsd", "netUsd"}
FlowFields == {"deposited", "returned", "seen", "withdrawn"}

\* What the chain's own variables hold.
ChainOK ==
    /\ now \in Nat \ {0} /\ price \in Prices
    /\ real \in [Safes -> [Tokens -> Nat]] /\ early \in [Safes -> [Tokens -> Nat]]
    /\ flow \in [Safes -> [FlowFields -> Int]]

\* A row of a service has its fields.
ServiceRow == [serviceId : Ids, operatorSafe : Operators, createdAt : Nat]

\* Whoever has a service is in the registry of snapshots, and in the template.
ServicesOK ==
    /\ DOMAIN registration \subseteq Ids
    /\ \A id \in DOMAIN registration : registration[id] \in Operators
    /\ \A id \in DOMAIN serviceIndex : serviceIndex[id] \in DOMAIN service
    /\ DOMAIN service \subseteq Safes
    /\ \A x \in DOMAIN service : service[x] \in ServiceRow
    /\ registry \in Seq(Safes) /\ ToSet(registry) = DOMAIN service
    /\ DOMAIN service \subseteq watched

BalanceRow == [balance : Nat, balanceUSD : Nat]
PositionRow == [active : Nat, closed : Nat, usd : Nat]

\* Rows of money are of Safes with a service.
RowsOK ==
    /\ DOMAIN portfolio = DOMAIN service
    /\ \A x \in DOMAIN portfolio : /\ DOMAIN portfolio[x] = PFields
                                   /\ portfolio[x].lastSnapshotTimestamp \in Nat
    /\ DOMAIN balance \subseteq (DOMAIN service) \X Tokens
    /\ \A k \in DOMAIN balance : balance[k] \in BalanceRow
    /\ DOMAIN funding \subseteq DOMAIN service
    /\ \A x \in DOMAIN funding : funding[x] \in [FundingFields -> Int]
    /\ position \in [Safes -> PositionRow]

TypeOK == ChainOK /\ ServicesOK /\ RowsOK

\* A snapshot of x was taken at tick t.
Taken(x, t) == <<x, t>> \in DOMAIN snapshot

Latest(x) == portfolio[x].lastSnapshotTimestamp

\* Snapshots are of Safes with a service and from after it was made; the row of the
\* portfolio names the latest.
LatestOK ==
    /\ \A k \in DOMAIN snapshot : k \in (DOMAIN service) \X Nat
    /\ \A x \in DOMAIN service :
          /\ service[x].createdAt \in 1..now
          /\ \A t \in Nat : Taken(x, t) => t > service[x].createdAt /\ t <= now /\ t <= Latest(x)
          /\ Latest(x) # 0 => Taken(x, Latest(x))

\* No day has two, and none is left out once a block came after the Safe's creation.
DailyOK ==
    \A x \in DOMAIN service :
       /\ \A t, u \in Nat : Taken(x, t) /\ Taken(x, u) /\ Day(t) = Day(u) => t = u
       /\ now > service[x].createdAt =>
             \A d \in Day(service[x].createdAt + 1)..Day(now) :
                \E t \in Nat : Taken(x, t) /\ Day(t) = d

-----------------------------------------------------------------------------
\* Days follow one another in the order of their ticks, a day at most per tick.
LEMMA DayOrdered ==
    ASSUME NEW t \in Nat, NEW u \in Nat, t <= u
    PROVE  Day(t) \in Nat /\ Day(u) \in Nat /\ Day(t) <= Day(u) /\ Day(t + 1) <= Day(t) + 1
BY PortfolioAssumption DEF Day

\* A price is a natural number.
LEMMA PriceNat == ASSUME ChainOK, NEW token PROVE PriceOf(token, price) \in Nat
BY PortfolioAssumption DEF PriceOf, ChainOK

\* The invariant of the rows and of the snapshots holds of an empty store.
LEMMA InitTypes == ASSUME Init PROVE TypeOK /\ LatestOK /\ DailyOK
<1>1. ToSet(registry) = {} /\ registry \in Seq(Safes)
  BY DEF Init, ToSet
<1>2. /\ real \in [Safes -> [Tokens -> Nat]] /\ early \in [Safes -> [Tokens -> Nat]]
      /\ flow \in [Safes -> [FlowFields -> Int]]
  BY DEF Init, FlowFields
<1>3. ChainOK BY <1>2 DEF Init, ChainOK
<1>4. /\ DOMAIN registration = {} /\ DOMAIN serviceIndex = {} /\ DOMAIN service = {}
      /\ DOMAIN portfolio = {} /\ DOMAIN balance = {} /\ DOMAIN funding = {} /\ DOMAIN snapshot = {}
  BY DEF Init, NoRows
<1>5. position \in [Safes -> PositionRow] BY DEF Init, PositionRow
<1>6. ServicesOK BY <1>1, <1>4 DEF ServicesOK
<1>7. RowsOK BY <1>4, <1>5 DEF RowsOK
<1>8. LatestOK /\ DailyOK BY <1>4 DEF LatestOK, DailyOK
<1>. QED  BY <1>3, <1>6, <1>7, <1>8 DEF TypeOK

\* What SnapshottedDaily says, from the invariant.
LEMMA DailyImplies == ASSUME TypeOK, LatestOK, DailyOK PROVE SnapshottedDaily
<1>. SUFFICES ASSUME NEW x \in DOMAIN service
              PROVE  /\ \A t \in SnapshotTimes(x) : t > service[x].createdAt
                     /\ \A d \in 0..Day(now) :
                           Cardinality({t \in SnapshotTimes(x) : Day(t) = d}) =
                              IF now > service[x].createdAt /\ d >= Day(service[x].createdAt + 1)
                              THEN 1 ELSE 0
  BY DEF SnapshottedDaily
<1>. DEFINE c == service[x].createdAt
<1>1. c \in Nat /\ now \in Nat /\ c <= now
  BY DEF LatestOK, TypeOK, ChainOK, ServicesOK, ServiceRow
<1>2. \A t : t \in SnapshotTimes(x) <=> t \in Nat /\ Taken(x, t)
  BY DEF SnapshotTimes, LatestOK, Taken
<1>3. \A t \in SnapshotTimes(x) : t \in Nat /\ t > c /\ t <= now
  BY <1>2 DEF LatestOK
<1>. SUFFICES ASSUME NEW d \in 0..Day(now)
              PROVE  Cardinality({t \in SnapshotTimes(x) : Day(t) = d}) =
                        IF now > c /\ d >= Day(c + 1) THEN 1 ELSE 0
  BY <1>3
<1>. DEFINE times == {t \in SnapshotTimes(x) : Day(t) = d}
<1>4. CASE now > c /\ d >= Day(c + 1)
  <2>1. d \in Day(c + 1)..Day(now)
    BY <1>4, <1>1, DayOrdered
  <2>2. PICK t \in Nat : Taken(x, t) /\ Day(t) = d
    BY <2>1, <1>4 DEF DailyOK
  <2>3. \A u \in times : u = t
    BY <2>2, <1>2 DEF DailyOK
  <2>4. times = {t} BY <2>2, <2>3, <1>2
  <2>. QED  BY <2>4, <1>4, FS_Singleton
<1>5. CASE ~(now > c /\ d >= Day(c + 1))
  <2>1. ASSUME NEW t \in times PROVE FALSE BY <1>3, <1>1, DayOrdered, <1>5
  <2>2. times = {} BY <2>1
  <2>. QED  BY <2>2, <1>5, FS_EmptySet
<1>. QED  BY <1>4, <1>5

\* Nothing of the snapshots changes.
SnapshotsKept ==
    /\ UNCHANGED <<now, snapshot>> /\ DOMAIN service' = DOMAIN service
    /\ \A x \in DOMAIN service : /\ service'[x].createdAt = service[x].createdAt
                                 /\ Latest(x)' = Latest(x)

\* Snapshots that stay as they are stay one a day.
LEMMA KeptStep == ASSUME LatestOK, DailyOK, SnapshotsKept PROVE LatestOK' /\ DailyOK'
BY DEF LatestOK, DailyOK, SnapshotsKept, Taken

-----------------------------------------------------------------------------
(* The rows of services. *)

\* A service's row with another operator.
LEMMA OperatorSet ==
    ASSUME ServicesOK, NEW x \in DOMAIN service, NEW o \in Operators,
           service' = [service EXCEPT ![x].operatorSafe = o]
    PROVE  /\ DOMAIN service' = DOMAIN service
           /\ \A y \in DOMAIN service : /\ service'[y] \in ServiceRow
                                        /\ service'[y].createdAt = service[y].createdAt
BY DEF ServicesOK, ServiceRow

\* Nothing but the operators of services changes.
OnlyOperators ==
    /\ DOMAIN service' = DOMAIN service
    /\ \A y \in DOMAIN service : /\ service'[y] \in ServiceRow
                                 /\ service'[y].createdAt = service[y].createdAt

\* A registration saves the operator, and the service of a known Safe takes it over.
LEMMA RegisterServices ==
    ASSUME ServicesOK, NEW id \in Ids, NEW o \in Operators, handleRegisterInstance(id, o)
    PROVE  ServicesOK' /\ OnlyOperators
<1>1. UNCHANGED <<serviceIndex, registry, watched>>
  BY DEF handleRegisterInstance
<1>2. CASE UNCHANGED <<registration, service>>
  BY <1>1, <1>2 DEF ServicesOK, OnlyOperators
<1>3. CASE /\ registration' = Put(registration, id, o)
           /\ service' = IF id \in DOMAIN serviceIndex
                         THEN [service EXCEPT ![serviceIndex[id]].operatorSafe = o]
                         ELSE service
  <2>1. OnlyOperators
    <3>1. CASE id \in DOMAIN serviceIndex BY <3>1, <1>3, OperatorSet DEF ServicesOK, OnlyOperators
    <3>2. CASE id \notin DOMAIN serviceIndex
      BY <1>3, <3>2 DEF ServicesOK, OnlyOperators
    <3>. QED  BY <3>1, <3>2
  <2>2. /\ DOMAIN registration' \subseteq Ids
        /\ \A i \in DOMAIN registration' : registration'[i] \in Operators
    BY <1>3 DEF Put, ServicesOK
  <2>. QED  BY <1>1, <2>1, <2>2 DEF ServicesOK, OnlyOperators
<1>. QED  BY <1>2, <1>3 DEF handleRegisterInstance

\* A deployment with a known Safe changes its operator alone.
LEMMA RedeployedServices ==
    ASSUME ServicesOK, NEW id \in DOMAIN registration, NEW x \in Safes, Redeployed(id, x)
    PROVE  ServicesOK' /\ OnlyOperators
<1>1. /\ x \in DOMAIN service /\ registration[id] \in Operators
      /\ service' = [service EXCEPT ![x].operatorSafe = registration[id]]
      /\ UNCHANGED <<registration, registry, watched>>
  BY DEF Redeployed, ServicesOK
<1>2. OnlyOperators
  BY <1>1, OperatorSet DEF OnlyOperators
<1>3. \A i \in DOMAIN serviceIndex' : serviceIndex'[i] \in DOMAIN service
  BY <1>1 DEF ServicesOK, Put, Redeployed
<1>. QED  BY <1>1, <1>2, <1>3 DEF ServicesOK, OnlyOperators

\* A Safe joins the registry once.
LEMMA RegistryGrows ==
    ASSUME registry \in Seq(Safes), NEW x \in Safes
    PROVE  /\ registerServiceForSnapshots(x) \in Seq(Safes)
           /\ ToSet(registerServiceForSnapshots(x)) = ToSet(registry) \cup {x}
<1>1. CASE Contains(registry, x)
  BY <1>1 DEF registerServiceForSnapshots, Contains, ToSet
<1>2. CASE ~Contains(registry, x) BY <1>2 DEF registerServiceForSnapshots, ToSet
<1>. QED  BY <1>1, <1>2

\* A deployment with a new Safe adds its row, and puts it into the registry and the template.
LEMMA FirstServices ==
    ASSUME ServicesOK, ChainOK, NEW id \in DOMAIN registration, NEW x \in Safes, FirstDeployed(id, x)
    PROVE  /\ ServicesOK'
           /\ x \notin DOMAIN service /\ DOMAIN service' = DOMAIN service \cup {x}
           /\ \A y \in DOMAIN service : service'[y] = service[y]
           /\ service'[x].createdAt = now
BY RegistryGrows DEF FirstDeployed, ServicesOK, ServiceRow, ChainOK, Put

\* A new Safe's portfolio starts to count, without a snapshot.
LEMMA FirstPortfolio ==
    ASSUME RowsOK, NEW id, NEW x, FirstDeployed(id, x)
    PROVE  /\ DOMAIN portfolio' = DOMAIN portfolio \cup {x}
           /\ \A y \in DOMAIN portfolio : portfolio'[y] = portfolio[y]
           /\ DOMAIN portfolio'[x] = PFields /\ portfolio'[x].lastSnapshotTimestamp = 0
BY DEF FirstDeployed, RowsOK, ensureAgentPortfolio, LoadOr, NewPortfolio, PFields, Put

-----------------------------------------------------------------------------
(* Balances and portfolios. *)

\* The recorded balance of a token of x.
Recorded(rows, x, token) == LoadOr(rows, <<x, token>>, NewBalance).balance

BalancesTyped(rows) ==
    /\ DOMAIN rows \subseteq (DOMAIN service) \X Tokens
    /\ \A k \in DOMAIN rows : rows[k] \in BalanceRow

\* A recorded balance is a natural number, and zero for a Safe without a service.
LEMMA RecordedNat ==
    ASSUME NEW rows, BalancesTyped(rows), NEW x, NEW token
    PROVE  /\ Recorded(rows, x, token) \in Nat
           /\ LoadOr(rows, <<x, token>>, NewBalance).balanceUSD \in Nat
           /\ x \notin DOMAIN service => Recorded(rows, x, token) = 0
BY DEF Recorded, BalancesTyped, LoadOr, NewBalance, BalanceRow

\* What updateBalance does: one recorded balance becomes the sum, or zero, when the
\* Safe has a service.
OneUpdated(next, rows, x, token, delta) ==
    /\ BalancesTyped(next)
    /\ \A y, other : Recorded(next, y, other) =
          IF y = x /\ other = token /\ x \in DOMAIN service
          THEN IF Recorded(rows, x, token) + delta < 0 THEN 0 ELSE Recorded(rows, x, token) + delta
          ELSE Recorded(rows, y, other)

\* updateBalance changes one recorded balance, and never below zero.
LEMMA UpdateOne ==
    ASSUME ChainOK, NEW rows, BalancesTyped(rows), NEW x, NEW token \in Tokens, NEW delta \in Int,
           NEW next, next = updateBalance(rows, x, token, delta)
    PROVE  OneUpdated(next, rows, x, token, delta)
<1>1. CASE x \notin DOMAIN service
  BY <1>1 DEF updateBalance, OneUpdated
<1>2. CASE x \in DOMAIN service
  <2>1. PICK old : old = Recorded(rows, x, token) OBVIOUS
  <2>2. PICK kept : kept = IF old + delta < 0 THEN 0 ELSE old + delta OBVIOUS
  <2>3. old \in Nat /\ kept \in Nat
    <3>1. old \in Nat BY <2>1, RecordedNat
    <3>. QED  BY ONLY <3>1, <2>2, delta \in Int
  <2>4. PICK usd : usd = kept * PriceOf(token, price) OBVIOUS
  <2>5. usd \in Nat BY PriceNat, <2>3, <2>4
  <2>6. PICK row : row = [balance |-> kept, balanceUSD |-> usd] OBVIOUS
  <2>7. row \in BalanceRow /\ row.balance = kept BY <2>3, <2>5, <2>6 DEF BalanceRow
  <2>8. next = Put(rows, <<x, token>>, row)
    BY <1>2, <2>1, <2>2, <2>4, <2>6 DEF updateBalance, Updated, Recorded
  <2>9. /\ DOMAIN next = DOMAIN rows \cup {<<x, token>>}
        /\ \A k \in DOMAIN next : next[k] = IF k = <<x, token>> THEN row ELSE rows[k]
    BY <2>8 DEF Put
  <2>10. BalancesTyped(next)
    BY <1>2, <2>7, <2>9 DEF BalancesTyped
  <2>11. ASSUME NEW y, NEW other
         PROVE  Recorded(next, y, other) = IF y = x /\ other = token THEN kept
                                           ELSE Recorded(rows, y, other)
    BY <2>7, <2>9 DEF Recorded, LoadOr
  <2>. QED  BY <1>2, <2>1, <2>2, <2>10, <2>11 DEF OneUpdated
<1>. QED  BY <1>1, <1>2

\* Measuring a portfolio leaves its times alone; it shows the net of the funding.
LEMMA MeasuredKeeps ==
    ASSUME NEW row, DOMAIN row = PFields, NEW x, NEW balances, NEW positions
    PROVE  LET next == Measured(row, x, balances, positions)
               fb == LoadOr(funding, x, NewFunding)
           IN  /\ DOMAIN next = PFields
               /\ next.lastSnapshotTimestamp = row.lastSnapshotTimestamp
               /\ next.initialValue = fb.netUsd
               /\ next.totalWithdrawnUsd = fb.totalWithdrawnUsd
               /\ next.uninvestedValue = calculateUninvestedValue(balances, x)
               /\ next.positionsValue = positions[x].usd
<1>. DEFINE fb == LoadOr(funding, x, NewFunding)
<1>1. PICK a, b, c, d, e, f :
         /\ a = fb.netUsd /\ b = fb.totalWithdrawnUsd
         /\ c = calculateUninvestedValue(balances, x)
         /\ d = positions[x].usd /\ e = positions[x].active /\ f = positions[x].closed
  OBVIOUS
<1>2. PICK next : next = [row EXCEPT !.initialValue = a, !.totalWithdrawnUsd = b,
                    !.uninvestedValue = c, !.positionsValue = d, !.totalPositions = e,
                    !.totalClosedPositions = f]
  OBVIOUS
<1>3. Measured(row, x, balances, positions) = next
  BY <1>1, <1>2 DEF Measured
<1>4. /\ DOMAIN next = PFields /\ next.lastSnapshotTimestamp = row.lastSnapshotTimestamp
      /\ next.initialValue = a /\ next.totalWithdrawnUsd = b /\ next.uninvestedValue = c
      /\ next.positionsValue = d
  BY ONLY <1>2, DOMAIN row = PFields DEF PFields
<1>. QED  BY <1>1, <1>3, <1>4

\* A portfolio measured anew keeps its place and its snapshot.
LEMMA MeasuredPut ==
    ASSUME RowsOK, NEW x \in DOMAIN service, NEW balances, NEW positions,
           portfolio' = Put(portfolio, x, Measured(portfolio[x], x, balances, positions))
    PROVE  /\ DOMAIN portfolio' = DOMAIN service
           /\ \A y \in DOMAIN service : /\ DOMAIN portfolio'[y] = PFields
                                        /\ Latest(y)' = Latest(y) /\ Latest(y) \in Nat
<1>1. x \in DOMAIN portfolio /\ DOMAIN portfolio[x] = PFields
  BY DEF RowsOK
<1>2. PICK next : next = Measured(portfolio[x], x, balances, positions) OBVIOUS
<1>3. DOMAIN next = PFields /\ next.lastSnapshotTimestamp = portfolio[x].lastSnapshotTimestamp
  BY <1>1, <1>2, MeasuredKeeps
<1>4. DOMAIN portfolio' = DOMAIN portfolio \cup {x}
      /\ \A y \in DOMAIN portfolio' : portfolio'[y] = IF y = x THEN next ELSE portfolio[y]
  BY <1>2 DEF Put
<1>. QED  BY <1>1, <1>3, <1>4 DEF RowsOK, Latest

-----------------------------------------------------------------------------
(* Funding. *)

FundingOf(x) == LoadOr(funding, x, NewFunding)
FundingTyped(rows) ==
    /\ DOMAIN rows \subseteq DOMAIN service
    /\ \A x \in DOMAIN rows : rows[x] \in [FundingFields -> Int]

\* A row of funding has its fields.
LEMMA FundingRowTyped ==
    ASSUME NEW rows, FundingTyped(rows), NEW x
    PROVE  LoadOr(rows, x, NewFunding) \in [FundingFields -> Int]
BY DEF FundingTyped, LoadOr, NewFunding, FundingFields

\* A deposit, a return and a withdrawal of usd, booked.
Deposited(next, fb, usd) ==
    /\ next \in [FundingFields -> Int]
    /\ next.totalInUsd = fb.totalInUsd + usd /\ next.totalOutUsd = fb.totalOutUsd
    /\ next.totalWithdrawnUsd = fb.totalWithdrawnUsd /\ next.netUsd = fb.netUsd + usd
Returned(next, fb, usd) ==
    /\ next \in [FundingFields -> Int]
    /\ next.totalInUsd = fb.totalInUsd /\ next.totalOutUsd = fb.totalOutUsd + usd
    /\ next.totalWithdrawnUsd = fb.totalWithdrawnUsd /\ next.netUsd = fb.netUsd - usd
Withdrawn(next, fb, usd) ==
    /\ next \in [FundingFields -> Int]
    /\ next.totalInUsd = fb.totalInUsd /\ next.totalOutUsd = fb.totalOutUsd
    /\ next.totalWithdrawnUsd = fb.totalWithdrawnUsd + usd /\ next.netUsd = fb.netUsd

\* updateFundingBalance of a deposit.
LEMMA DepositAdds ==
    ASSUME NEW fb \in [FundingFields -> Int], NEW usd \in Int, NEW next,
           next = Add(fb, [totalInUsd |-> usd, netUsd |-> usd])
    PROVE  Deposited(next, fb, usd)
BY DEF Deposited, Add, FundingFields

\* updateFundingBalance of a return.
LEMMA ReturnAdds ==
    ASSUME NEW fb \in [FundingFields -> Int], NEW usd \in Int, NEW next,
           next = Add(fb, [totalOutUsd |-> usd, netUsd |-> -usd])
    PROVE  Returned(next, fb, usd)
BY DEF Returned, Add, FundingFields

\* updateWithdrawalBalance.
LEMMA WithdrawalAdds ==
    ASSUME NEW fb \in [FundingFields -> Int], NEW usd \in Int, NEW next,
           next = updateWithdrawalBalance(fb, usd)
    PROVE  Withdrawn(next, fb, usd)
BY DEF Withdrawn, updateWithdrawalBalance, Add, FundingFields

\* A funding row saved for a Safe with a service.
LEMMA FundingPut ==
    ASSUME NEW rows, FundingTyped(rows), NEW x \in DOMAIN service,
           NEW row \in [FundingFields -> Int], NEW next, next = Put(rows, x, row)
    PROVE  /\ FundingTyped(next)
           /\ \A y : LoadOr(next, y, NewFunding) = IF y = x THEN row ELSE LoadOr(rows, y, NewFunding)
BY DEF FundingTyped, Put, LoadOr

-----------------------------------------------------------------------------
(* Moves on the chain. *)

\* What a move adds to the flow of x.
DepositOf(token, from, to, x) ==
    IF x \in DOMAIN service /\ x = to /\ token # WETH /\ isFundingSource(from, x)
    THEN PriceOf(token, price) ELSE 0
Leaves(from, to, x) == x \in DOMAIN service /\ x = from /\ isFundingSource(to, x)
SeenOf(token, from, to, x) ==
    IF token = ETH /\ Leaves(from, to, x) /\ Hears(to) THEN PriceOf(token, price) ELSE 0
WithdrawnOf(token, from, to, x) ==
    IF token = USDC /\ Leaves(from, to, x) THEN PriceOf(token, price) ELSE 0

\* What a move on the chain does to the holdings and the flows of every Safe.
LEMMA MoveStep ==
    ASSUME ChainOK, NEW token \in Tokens, NEW from, NEW to, from # to, Moves(token, from, to, 1)
    PROVE  /\ ChainOK'
           /\ UNCHANGED <<now, price, early>>
           /\ \A x \in Safes :
                 /\ flow'[x].deposited = flow[x].deposited + DepositOf(token, from, to, x)
                 /\ flow'[x].seen = flow[x].seen + SeenOf(token, from, to, x)
                 /\ flow'[x].withdrawn = flow[x].withdrawn + WithdrawnOf(token, from, to, x)
                 /\ \A k \in Tokens : real'[x][k] =
                       real[x][k] + (IF k # token THEN 0 ELSE
                                     IF x = to THEN 1 ELSE IF x = from THEN -1 ELSE 0)
                 /\ x = from => real[x][token] >= 1
<1>1. PICK usd : usd = 1 * PriceOf(token, price) OBVIOUS
<1>2. usd = PriceOf(token, price) /\ usd \in Nat BY <1>1, PriceNat
<1>3. UNCHANGED <<now, price, early>> BY DEF Moves
<1>4. /\ from \in Safes => real[from][token] >= 1
      /\ real' = [x \in Safes |-> [real[x] EXCEPT ![token] = @ + ((IF x = to THEN 1 ELSE 0)
                                                        - (IF x = from THEN 1 ELSE 0))]]
  BY DEF Moves
<1>5. ASSUME NEW x \in Safes
      PROVE  /\ real'[x] \in [Tokens -> Nat]
             /\ \A k \in Tokens : real'[x][k] =
                   real[x][k] + (IF k # token THEN 0 ELSE
                                 IF x = to THEN 1 ELSE IF x = from THEN -1 ELSE 0)
             /\ x = from => real[x][token] >= 1
  BY from # to, <1>4 DEF ChainOK
<1>6. ASSUME NEW x \in Safes
      PROVE  /\ flow'[x] \in [FlowFields -> Int]
             /\ flow'[x].deposited = flow[x].deposited + DepositOf(token, from, to, x)
             /\ flow'[x].seen = flow[x].seen + SeenOf(token, from, to, x)
             /\ flow'[x].withdrawn = flow[x].withdrawn + WithdrawnOf(token, from, to, x)
  <2>1. PICK a : a = DepositOf(token, from, to, x) OBVIOUS
  <2>2. PICK b : b = IF token = ETH /\ Leaves(from, to, x) THEN usd ELSE 0 OBVIOUS
  <2>3. PICK c : c = SeenOf(token, from, to, x) OBVIOUS
  <2>4. PICK d : d = WithdrawnOf(token, from, to, x) OBVIOUS
  <2>5. a \in Int /\ b \in Int /\ c \in Int /\ d \in Int
    BY <1>2, <2>1, <2>2, <2>3, <2>4 DEF DepositOf, SeenOf, WithdrawnOf
  <2>6. flow'[x] = Add(flow[x], [deposited |-> a, returned |-> b, seen |-> c, withdrawn |-> d])
    BY <1>1, <1>2, <2>1, <2>2, <2>3, <2>4 DEF Moves, DepositOf, SeenOf, WithdrawnOf, Leaves
  <2>7. PICK old : old = flow[x] OBVIOUS
  <2>8. old \in [FlowFields -> Int] BY <2>7 DEF ChainOK
  <2>9. PICK next : next = Add(old, [deposited |-> a, returned |-> b, seen |-> c, withdrawn |-> d])
    OBVIOUS
  <2>10. /\ next \in [FlowFields -> Int] /\ next.deposited = old.deposited + a
         /\ next.seen = old.seen + c /\ next.withdrawn = old.withdrawn + d
    BY ONLY <2>5, <2>8, <2>9 DEF Add, FlowFields
  <2>. QED  BY <2>1, <2>3, <2>4, <2>6, <2>7, <2>9, <2>10
<1>7. real' \in [Safes -> [Tokens -> Nat]] BY <1>4, <1>5
<1>8. flow' \in [Safes -> [FlowFields -> Int]] BY <1>6 DEF Moves
<1>. QED  BY <1>3, <1>5, <1>6, <1>7, <1>8 DEF ChainOK

-----------------------------------------------------------------------------
(* The money of every step but a block's. *)

\* What is booked is what moved, for Safes with and without a service.
Booked(x) ==
    /\ FundingOf(x).totalInUsd = flow[x].deposited
    /\ FundingOf(x).totalOutUsd = flow[x].seen
    /\ FundingOf(x).totalWithdrawnUsd = flow[x].withdrawn
    /\ FundingOf(x).netUsd = flow[x].deposited - flow[x].seen

FlowsBooked == \A x \in Safes : Booked(x)

\* What is recorded of a token is held, but for what was there before the service.
WithinWallet(x, token) ==
    /\ Recorded(balance, x, token) <= real[x][token]
    /\ x \in DOMAIN service => Recorded(balance, x, token) >= real[x][token] - early[x][token]

HoldingsRecorded == \A x \in Safes, token \in {USDC, WETH} : WithinWallet(x, token)

MoneyOK == FlowsBooked /\ HoldingsRecorded

\* The tables of balances and funding are typed.
LEMMA TypedTables ==
    ASSUME TypeOK PROVE BalancesTyped(balance) /\ FundingTyped(funding)
BY DEF TypeOK, RowsOK, BalancesTyped, FundingTyped

\* What the two properties of money say, from the invariant.
LEMMA MoneyImplies == ASSUME TypeOK, MoneyOK PROVE FundingMirrorsChain /\ BalancesMirrorChain
<1>1. DOMAIN service \subseteq Safes BY DEF TypeOK, ServicesOK
<1>2. FundingMirrorsChain
  BY <1>1 DEF FundingMirrorsChain, MoneyOK, FlowsBooked, Booked, FundingOf
<1>3. ASSUME NEW x \in DOMAIN service, NEW token \in {USDC, WETH}
      PROVE  LET b == LoadOr(balance, <<x, token>>, NewBalance).balance
             IN  b \in (real[x][token] - early[x][token])..real[x][token] /\ b >= 0
  <2>1. PICK b : b = Recorded(balance, x, token) OBVIOUS
  <2>2. b \in Nat BY <2>1, RecordedNat, TypedTables
  <2>3. PICK r, e : r = real[x][token] /\ e = early[x][token] OBVIOUS
  <2>4. r \in Nat /\ e \in Nat BY <1>1, <2>3 DEF TypeOK, ChainOK, Tokens
  <2>5. b <= r /\ b >= r - e BY <1>1, <2>1, <2>3 DEF MoneyOK, HoldingsRecorded, WithinWallet
  <2>6. b \in (r - e)..r /\ b >= 0 BY ONLY <2>2, <2>4, <2>5
  <2>. QED  BY <2>1, <2>3, <2>6 DEF Recorded
<1>. QED  BY <1>2, <1>3 DEF BalancesMirrorChain

\* Nothing of the money changes.
LEMMA MoneyKept ==
    ASSUME MoneyOK, UNCHANGED <<real, early, flow, balance, funding>>,
           DOMAIN service' = DOMAIN service
    PROVE  MoneyOK'
BY DEF MoneyOK, FlowsBooked, Booked, FundingOf, HoldingsRecorded, WithinWallet, Recorded

\* A Safe neither pays another Safe's service in nor is an account without code.
LEMMA SafeIsNoSource ==
    ASSUME ServicesOK, NEW x \in DOMAIN service, NEW a \in Safes
    PROVE  ~isFundingSource(a, x) /\ ~isEOACached(a)
BY PortfolioAssumption DEF ServicesOK, ServiceRow, isFundingSource, isEOACached

\* ERC-20 tokens arrive, leave, or do both.
LEMMA TransferMoney ==
    ASSUME TypeOK, MoneyOK, NEW token \in {USDC, WETH}, NEW from \in Accounts, NEW to \in Accounts,
           from # to, handleERC20Transfer(token, from, to, 1)
    PROVE  /\ ChainOK' /\ MoneyOK' /\ UNCHANGED <<now, services, position>>
           /\ BalancesTyped(balance') /\ FundingTyped(funding')
<1>1. token \in Tokens BY DEF Tokens
<1>2. /\ Moves(token, from, to, 1) /\ UNCHANGED <<services, position>>
      /\ UNCHANGED <<registration, serviceIndex, service, registry, watched>>
  BY DEF handleERC20Transfer, services
<1>3. PICK usd : usd = 1 * PriceOf(token, price) OBVIOUS
<1>4. usd = PriceOf(token, price) /\ usd \in Nat BY <1>3, PriceNat DEF TypeOK
<1>5. /\ ChainOK' /\ UNCHANGED <<now, price, early>>
      /\ \A x \in Safes :
            /\ flow'[x].deposited = flow[x].deposited + DepositOf(token, from, to, x)
            /\ flow'[x].seen = flow[x].seen + SeenOf(token, from, to, x)
            /\ flow'[x].withdrawn = flow[x].withdrawn + WithdrawnOf(token, from, to, x)
            /\ \A k \in Tokens : real'[x][k] =
                  real[x][k] + (IF k # token THEN 0 ELSE
                                IF x = to THEN 1 ELSE IF x = from THEN -1 ELSE 0)
            /\ x = from => real[x][token] >= 1
  BY <1>1, <1>2, MoveStep DEF TypeOK
<1>6. FundingTyped(funding) /\ BalancesTyped(balance) BY TypedTables
<1>. DEFINE deposits == to \in DOMAIN service /\ token = USDC /\ isFundingSource(from, to)
            withdraws == from \in DOMAIN service /\ token = USDC /\ isFundingSource(to, from)
<1>7. PICK paidIn : paidIn = IF deposits THEN Funded(funding, to, usd) ELSE funding OBVIOUS
<1>8. /\ FundingTyped(paidIn)
      /\ \A y : LoadOr(paidIn, y, NewFunding) =
                   IF deposits /\ y = to THEN updateFundingBalance(FundingOf(to), usd, TRUE)
                   ELSE FundingOf(y)
  <2>1. CASE ~deposits BY <2>1, <1>6, <1>7 DEF FundingOf
  <2>2. CASE deposits
    BY <1>6, FundingRowTyped, <1>4, DepositAdds, <2>2, <1>7, FundingPut DEF FundingOf, Deposited,
        updateFundingBalance, Funded
  <2>. QED  BY <2>1, <2>2
<1>9. /\ FundingTyped(funding')
      /\ \A y : FundingOf(y)' =
                   IF withdraws /\ y = from
                   THEN updateWithdrawalBalance(LoadOr(paidIn, from, NewFunding), usd)
                   ELSE LoadOr(paidIn, y, NewFunding)
  <2>0. funding' = IF withdraws
                   THEN Put(paidIn, from, updateWithdrawalBalance(LoadOr(paidIn, from, NewFunding), usd))
                   ELSE paidIn
    BY <1>3, <1>7 DEF handleERC20Transfer
  <2>1. CASE ~withdraws BY <2>0, <2>1, <1>8 DEF FundingOf
  <2>2. CASE withdraws
    BY <1>8, FundingRowTyped, <1>4, WithdrawalAdds, <2>0, <2>2, FundingPut DEF Withdrawn, FundingOf
  <2>. QED  BY <2>1, <2>2
<1>10. ASSUME NEW x \in Safes PROVE Booked(x)'
  <2>1. PICK fb, mid, last : /\ fb = FundingOf(x) /\ mid = LoadOr(paidIn, x, NewFunding)
                             /\ last = FundingOf(x)'
    OBVIOUS
  <2>2. fb \in [FundingFields -> Int] /\ mid \in [FundingFields -> Int]
    BY <1>6, <1>8, <2>1, FundingRowTyped DEF FundingOf
  <2>3. PICK dep, wit : /\ dep = DepositOf(token, from, to, x)
                        /\ wit = WithdrawnOf(token, from, to, x)
    OBVIOUS
  <2>4. /\ dep = IF deposits /\ x = to THEN usd ELSE 0
        /\ wit = IF withdraws /\ x = from THEN usd ELSE 0
        /\ SeenOf(token, from, to, x) = 0
    BY <1>4, <2>3, PortfolioAssumption DEF DepositOf, WithdrawnOf, SeenOf, Leaves
  <2>5. /\ mid.totalInUsd = fb.totalInUsd + dep /\ mid.totalOutUsd = fb.totalOutUsd
        /\ mid.totalWithdrawnUsd = fb.totalWithdrawnUsd /\ mid.netUsd = fb.netUsd + dep
    <3>1. CASE deposits /\ x = to
      BY <3>1, <1>8, <2>1, <2>2, <1>4, DepositAdds, <2>4 DEF updateFundingBalance, Deposited
    <3>2. CASE ~(deposits /\ x = to)
      <4>1. mid = fb BY <3>2, <1>8, <2>1
      <4>. QED  BY <4>1, <3>2, <2>2, <2>4 DEF FundingFields
    <3>. QED  BY <3>1, <3>2
  <2>6. /\ last.totalInUsd = mid.totalInUsd /\ last.totalOutUsd = mid.totalOutUsd
        /\ last.totalWithdrawnUsd = mid.totalWithdrawnUsd + wit /\ last.netUsd = mid.netUsd
    <3>1. CASE withdraws /\ x = from
      <4>1. last = updateWithdrawalBalance(mid, usd) BY <3>1, <1>9, <2>1
      <4>2. Withdrawn(last, mid, usd) BY <4>1, <2>2, <1>4, WithdrawalAdds
      <4>. QED  BY <4>2, <3>1, <2>4 DEF Withdrawn
    <3>2. CASE ~(withdraws /\ x = from) BY <3>2, <1>9, <2>1, <2>2, <2>4 DEF FundingFields
    <3>. QED  BY <3>1, <3>2
  <2>7. Booked(x) BY DEF MoneyOK, FlowsBooked
  <2>8. PICK g, h : g = flow[x] /\ h = flow'[x] OBVIOUS
  <2>9. g \in [FlowFields -> Int] BY <2>8 DEF TypeOK, ChainOK
  <2>10. /\ g.deposited \in Int /\ g.seen \in Int /\ g.withdrawn \in Int /\ dep \in Int /\ wit \in Int
         /\ h.deposited = g.deposited + dep /\ h.seen = g.seen /\ h.withdrawn = g.withdrawn + wit
    BY <2>9, <2>4, <1>4, <1>5, <2>3, <2>8 DEF FlowFields
  <2>11. /\ fb.totalInUsd = g.deposited /\ fb.totalOutUsd = g.seen
         /\ fb.totalWithdrawnUsd = g.withdrawn /\ fb.netUsd = g.deposited - g.seen
    BY <2>1, <2>7, <2>8 DEF Booked
  <2>12. /\ last.totalInUsd = h.deposited /\ last.totalOutUsd = h.seen
         /\ last.totalWithdrawnUsd = h.withdrawn /\ last.netUsd = h.deposited - h.seen
    BY ONLY <2>5, <2>6, <2>10, <2>11
  <2>. QED  BY <2>1, <2>8, <2>12 DEF Booked
<1>11. PICK arrived : arrived = updateBalance(balance, to, token, 1) OBVIOUS
<1>12. /\ BalancesTyped(arrived)
       /\ \A y, other : Recorded(arrived, y, other) =
             IF y = to /\ other = token /\ to \in DOMAIN service
             THEN Recorded(balance, to, token) + 1 ELSE Recorded(balance, y, other)
  <2>1. PICK rows : rows = balance OBVIOUS
  <2>2. BalancesTyped(rows) BY <1>6, <2>1
  <2>3. /\ BalancesTyped(arrived)
        /\ \A y, other : Recorded(arrived, y, other) =
              IF y = to /\ other = token /\ to \in DOMAIN service
              THEN IF Recorded(rows, to, token) + 1 < 0 THEN 0 ELSE Recorded(rows, to, token) + 1
              ELSE Recorded(rows, y, other)
    <3>1. ChainOK BY DEF TypeOK
    <3>2. arrived = updateBalance(rows, to, token, 1) BY <1>11, <2>1
    <3>3. OneUpdated(arrived, rows, to, token, 1) BY <1>1, <2>2, <3>1, <3>2, UpdateOne
    <3>. QED  BY <3>3 DEF OneUpdated
  <2>4. Recorded(rows, to, token) \in Nat BY <2>2, RecordedNat
  <2>5. ~(Recorded(rows, to, token) + 1 < 0) BY ONLY <2>4
  <2>. QED  BY <2>1, <2>3, <2>5
<1>13. PICK left : left = balance' OBVIOUS
<1>14. /\ BalancesTyped(left)
       /\ \A y, other : Recorded(left, y, other) =
             IF y = from /\ other = token /\ from \in DOMAIN service
             THEN IF Recorded(arrived, from, token) + (-1) < 0 THEN 0
                  ELSE Recorded(arrived, from, token) + (-1)
             ELSE Recorded(arrived, y, other)
  <2>1. left = updateBalance(arrived, from, token, -1)
    BY <1>11, <1>13 DEF handleERC20Transfer, Transferred
  <2>2. ChainOK BY DEF TypeOK
  <2>3. OneUpdated(left, arrived, from, token, -1) BY <1>1, <1>12, <2>1, <2>2, UpdateOne
  <2>. QED  BY <2>3 DEF OneUpdated
<1>15. ASSUME NEW x \in Safes, NEW other \in {USDC, WETH} PROVE WithinWallet(x, other)'
  <2>1. PICK b, c, r, s, e : /\ b = Recorded(balance, x, other) /\ c = Recorded(left, x, other)
                             /\ r = real[x][other] /\ s = real'[x][other] /\ e = early[x][other]
    OBVIOUS
  <2>2. b \in Nat /\ r \in Nat /\ e \in Nat BY <2>1, <1>6, RecordedNat DEF TypeOK, ChainOK, Tokens
  <2>3. b <= r /\ (x \in DOMAIN service => b >= r - e)
    BY <2>1 DEF MoneyOK, HoldingsRecorded, WithinWallet
  <2>4. s = r + (IF other # token THEN 0 ELSE IF x = to THEN 1 ELSE IF x = from THEN -1 ELSE 0)
    BY <1>5, <2>1 DEF Tokens
  <2>5. x = from /\ other = token => r >= 1 BY <1>5, <2>1
  <2>6. x \notin DOMAIN service => b = 0
    BY <1>6, <2>1, RecordedNat
  <2>7. c = IF x = from /\ other = token /\ x \in DOMAIN service
            THEN IF b + (-1) < 0 THEN 0 ELSE b + (-1)
            ELSE IF x = to /\ other = token /\ x \in DOMAIN service THEN b + 1 ELSE b
    <3>1. CASE x = from /\ other = token /\ x \in DOMAIN service
      BY <3>1, <2>1, <1>12, from # to, <1>14
    <3>2. CASE ~(x = from /\ other = token /\ x \in DOMAIN service) BY <3>2, <2>1, <1>14, <1>12
    <3>. QED  BY <3>1, <3>2
  <2>8. c <= s /\ (x \in DOMAIN service => c >= s - e)
    BY ONLY <2>2, <2>3, <2>4, <2>5, <2>6, <2>7, from # to
  <2>. QED  BY <2>1, <2>8, <1>2, <1>5, <1>13 DEF WithinWallet
<1>16. MoneyOK' BY <1>10, <1>15 DEF MoneyOK, FlowsBooked, HoldingsRecorded
<1>. QED  BY <1>2, <1>5, <1>9, <1>13, <1>14, <1>16

\* ETH changes hands and nothing of what is recorded of the tokens changes.
LEMMA TokensKept ==
    ASSUME HoldingsRecorded, UNCHANGED <<early, service>>,
           \A x \in Safes, k \in {USDC, WETH} :
              real'[x][k] = real[x][k] /\ Recorded(balance', x, k) = Recorded(balance, x, k)
    PROVE  HoldingsRecorded'
BY DEF HoldingsRecorded, WithinWallet

\* One update of a recorded ETH balance.
LEMMA EthUpdated ==
    ASSUME TypeOK, NEW x, NEW delta \in Int, balance' = updateBalance(balance, x, ETH, delta)
    PROVE  /\ BalancesTyped(balance')
           /\ \A y \in Safes, k \in {USDC, WETH} : Recorded(balance', y, k) = Recorded(balance, y, k)
<1>1. PICK rows, next : rows = balance /\ next = balance' OBVIOUS
<1>2. ChainOK /\ BalancesTyped(rows) BY <1>1, TypedTables DEF TypeOK
<1>3. next = updateBalance(rows, x, ETH, delta) BY <1>1
<1>4. ETH \in Tokens /\ ETH \notin {USDC, WETH} BY PortfolioAssumption DEF Tokens
<1>5. OneUpdated(next, rows, x, ETH, delta) BY <1>2, <1>3, <1>4, UpdateOne
<1>. QED  BY <1>1, <1>4, <1>5 DEF OneUpdated

\* What a step booked of a deposit and a return is what moved.
LEMMA BookedStep ==
    ASSUME TypeOK, MoneyOK, NEW x \in Safes, NEW dep \in Int, NEW ret \in Int,
           flow'[x].deposited = flow[x].deposited + dep,
           flow'[x].seen = flow[x].seen + ret,
           flow'[x].withdrawn = flow[x].withdrawn + 0,
           \/ dep = 0 /\ ret = 0 /\ FundingOf(x)' = FundingOf(x)
           \/ ret = 0 /\ Deposited(FundingOf(x)', FundingOf(x), dep)
           \/ dep = 0 /\ Returned(FundingOf(x)', FundingOf(x), ret)
    PROVE  Booked(x)'
<1>1. PICK fb, last, g, h : /\ fb = FundingOf(x) /\ last = FundingOf(x)'
                            /\ g = flow[x] /\ h = flow'[x]
  OBVIOUS
<1>2. /\ fb.totalInUsd = g.deposited /\ fb.totalOutUsd = g.seen
      /\ fb.totalWithdrawnUsd = g.withdrawn /\ fb.netUsd = g.deposited - g.seen
  BY <1>1 DEF MoneyOK, FlowsBooked, Booked
<1>3. g.deposited \in Int /\ g.seen \in Int /\ g.withdrawn \in Int
  BY <1>1 DEF TypeOK, ChainOK, FlowFields
<1>4. \/ dep = 0 /\ ret = 0 /\ last = fb
      \/ ret = 0 /\ Deposited(last, fb, dep)
      \/ dep = 0 /\ Returned(last, fb, ret)
  BY <1>1
<1>5. h.deposited = g.deposited + dep /\ h.seen = g.seen + ret /\ h.withdrawn = g.withdrawn + 0
  BY <1>1
<1>6. /\ last.totalInUsd = h.deposited /\ last.totalOutUsd = h.seen
      /\ last.totalWithdrawnUsd = h.withdrawn /\ last.netUsd = h.deposited - h.seen
  BY ONLY <1>2, <1>3, <1>4, <1>5, dep \in Int, ret \in Int DEF Deposited, Returned
<1>. QED  BY <1>1, <1>6 DEF Booked

\* A funding row saved: what every Safe's then is.
LEMMA FundingSaved ==
    ASSUME TypeOK, NEW x \in DOMAIN service, NEW row \in [FundingFields -> Int],
           funding' = Put(funding, x, row)
    PROVE  /\ FundingTyped(funding')
           /\ FundingOf(x)' = row /\ \A y : y # x => FundingOf(y)' = FundingOf(y)
BY TypedTables, FundingPut DEF FundingOf

\* ETH is sent to a Safe or an account that may be heard of.
LEMMA SendMoney ==
    ASSUME TypeOK, MoneyOK, NEW from \in Accounts, NEW to \in Accounts, from # to,
           SendETH(from, to, 1)
    PROVE  /\ ChainOK' /\ MoneyOK' /\ UNCHANGED <<now, services, portfolio, position>>
           /\ BalancesTyped(balance') /\ FundingTyped(funding')
<1>1. ETH \in Tokens /\ ETH # USDC /\ ETH # WETH BY PortfolioAssumption DEF Tokens
<1>2. /\ Moves(ETH, from, to, 1) /\ UNCHANGED <<services, portfolio, position>>
      /\ UNCHANGED <<registration, serviceIndex, service, registry, watched>>
  BY DEF SendETH, services
<1>3. PICK usd : usd = 1 * price OBVIOUS
<1>4. usd = PriceOf(ETH, price) /\ usd \in Nat
  <2>1. PriceOf(ETH, price) = price BY <1>1 DEF PriceOf
  <2>2. PriceOf(ETH, price) \in Nat BY PriceNat DEF TypeOK
  <2>. QED  BY <1>3, <2>1, <2>2
<1>5. /\ ChainOK' /\ UNCHANGED <<now, price, early>>
      /\ \A x \in Safes :
            /\ flow'[x].deposited = flow[x].deposited + DepositOf(ETH, from, to, x)
            /\ flow'[x].seen = flow[x].seen + SeenOf(ETH, from, to, x)
            /\ flow'[x].withdrawn = flow[x].withdrawn + WithdrawnOf(ETH, from, to, x)
            /\ \A k \in Tokens : real'[x][k] =
                  real[x][k] + (IF k # ETH THEN 0 ELSE
                                IF x = to THEN 1 ELSE IF x = from THEN -1 ELSE 0)
            /\ x = from => real[x][ETH] >= 1
  BY <1>1, <1>2, MoveStep DEF TypeOK
<1>6. \A x \in Safes : WithdrawnOf(ETH, from, to, x) = 0 BY <1>1 DEF WithdrawnOf
<1>7. /\ FundingTyped(funding) /\ BalancesTyped(balance) /\ ServicesOK
      /\ DOMAIN service \subseteq Safes /\ DOMAIN service \subseteq watched
  BY TypedTables DEF TypeOK, ServicesOK
<1>8. \A x \in DOMAIN service, a \in DOMAIN service : ~isFundingSource(a, x)
  BY <1>7, SafeIsNoSource
<1>9. to \in DOMAIN service => Hears(to)
  BY <1>7, SafeIsNoSource DEF Hears
<1>10. \A x \in Safes, k \in {USDC, WETH} : real'[x][k] = real[x][k]
  <2>1. ASSUME NEW x \in Safes, NEW k \in {USDC, WETH} PROVE real'[x][k] = real[x][k]
    BY <1>1, <1>5 DEF Tokens, TypeOK, ChainOK
  <2>. QED  BY <2>1
<1>11. BalancesTyped(balance') /\ HoldingsRecorded'
  <2>1. /\ BalancesTyped(balance')
        /\ \A y \in Safes, k \in {USDC, WETH} : Recorded(balance', y, k) = Recorded(balance, y, k)
    <3>1. CASE balance' = balance BY <3>1, <1>7
    <3>2. CASE balance' = updateBalance(balance, to, ETH, 1) BY <3>2, EthUpdated
    <3>3. CASE balance' = updateBalance(balance, from, ETH, -1) BY <3>3, EthUpdated
    <3>. QED  BY <3>1, <3>2, <3>3 DEF SendETH, handleSafeReceived
  <2>2. HoldingsRecorded BY DEF MoneyOK
  <2>. QED  BY <2>1, <2>2, <1>2, <1>5, <1>10, TokensKept
<1>. DEFINE deposits == to \in DOMAIN service /\ isFundingSource(from, to)
            returns == /\ to \notin DOMAIN service /\ from \in DOMAIN service
                       /\ to = service[from].operatorSafe
<1>12. CASE Hears(to) /\ deposits
  <2>1. funding' = Put(funding, to, updateFundingBalance(FundingOf(to), usd, TRUE))
    BY <1>3, <1>12 DEF SendETH, handleSafeReceived, Funded, FundingOf
  <2>2. PICK fb, row : /\ fb = FundingOf(to)
                       /\ row = Add(fb, [totalInUsd |-> usd, netUsd |-> usd])
    OBVIOUS
  <2>3. Deposited(row, fb, usd) BY <1>7, <2>2, FundingRowTyped, <1>4, DepositAdds DEF FundingOf
  <2>4. funding' = Put(funding, to, row) BY <2>1, <2>2 DEF updateFundingBalance
  <2>5. /\ FundingTyped(funding') /\ FundingOf(to)' = row
        /\ \A y : y # to => FundingOf(y)' = FundingOf(y)
    BY <2>3, <2>4, <1>12, FundingSaved DEF Deposited
  <2>6. ASSUME NEW x \in Safes PROVE Booked(x)'
    <3>1. SeenOf(ETH, from, to, x) = 0
      BY <1>8, <1>12 DEF SeenOf, Leaves
    <3>2. DepositOf(ETH, from, to, x) = IF x = to THEN usd ELSE 0
      BY <1>1, <1>4, <1>12 DEF DepositOf
    <3>3. PICK dep : dep = DepositOf(ETH, from, to, x) OBVIOUS
    <3>4. dep \in Int BY <3>2, <3>3, <1>4
    <3>5. /\ flow'[x].deposited = flow[x].deposited + dep
          /\ flow'[x].seen = flow[x].seen + 0 /\ flow'[x].withdrawn = flow[x].withdrawn + 0
      BY <1>5, <1>6, <3>1, <3>3
    <3>6. \/ dep = 0 /\ FundingOf(x)' = FundingOf(x)
          \/ Deposited(FundingOf(x)', FundingOf(x), dep)
      BY <3>2, <3>3, <2>2, <2>3, <2>5
    <3>. QED  BY <3>4, <3>5, <3>6, BookedStep
  <2>. QED  BY <2>5, <2>6, <1>2, <1>5, <1>11 DEF MoneyOK, FlowsBooked
<1>13. CASE Hears(to) /\ ~deposits /\ returns
  <2>1. funding' = Put(funding, from, updateFundingBalance(FundingOf(from), usd, FALSE))
    BY <1>3, <1>13 DEF SendETH, handleSafeReceived, FundingOf
  <2>2. PICK fb, row : /\ fb = FundingOf(from)
                       /\ row = Add(fb, [totalOutUsd |-> usd, netUsd |-> -usd])
    OBVIOUS
  <2>3. Returned(row, fb, usd) BY <1>7, <2>2, FundingRowTyped, <1>4, ReturnAdds DEF FundingOf
  <2>4. funding' = Put(funding, from, row) BY <2>1, <2>2 DEF updateFundingBalance
  <2>5. /\ FundingTyped(funding') /\ FundingOf(from)' = row
        /\ \A y : y # from => FundingOf(y)' = FundingOf(y)
    BY <2>3, <2>4, <1>13, FundingSaved DEF Returned
  <2>6. ASSUME NEW x \in Safes PROVE Booked(x)'
    <3>1. DepositOf(ETH, from, to, x) = 0
      BY <1>13 DEF DepositOf
    <3>2. SeenOf(ETH, from, to, x) = IF x = from THEN usd ELSE 0
      BY <1>4, <1>13 DEF SeenOf, Leaves, isFundingSource
    <3>3. PICK ret : ret = SeenOf(ETH, from, to, x) OBVIOUS
    <3>4. ret \in Int BY <3>2, <3>3, <1>4
    <3>5. /\ flow'[x].deposited = flow[x].deposited + 0
          /\ flow'[x].seen = flow[x].seen + ret /\ flow'[x].withdrawn = flow[x].withdrawn + 0
      BY <1>5, <1>6, <3>1, <3>3
    <3>6. \/ ret = 0 /\ FundingOf(x)' = FundingOf(x)
          \/ Returned(FundingOf(x)', FundingOf(x), ret)
      BY <3>2, <3>3, <2>2, <2>3, <2>5
    <3>. QED  BY <3>4, <3>5, <3>6, BookedStep
  <2>. QED  BY <2>5, <2>6, <1>2, <1>5, <1>11 DEF MoneyOK, FlowsBooked
<1>14. CASE ~(Hears(to) /\ (deposits \/ returns))
  <2>1. funding' = funding
    BY <1>14 DEF SendETH, handleSafeReceived
  <2>2. ASSUME NEW x \in Safes PROVE Booked(x)'
    <3>1. DepositOf(ETH, from, to, x) = 0
      BY <1>9, <1>14 DEF DepositOf
    <3>2. SeenOf(ETH, from, to, x) = 0 BY <1>14, <1>8 DEF SeenOf, Hears, Leaves, isFundingSource
    <3>3. /\ flow'[x].deposited = flow[x].deposited + 0
          /\ flow'[x].seen = flow[x].seen + 0 /\ flow'[x].withdrawn = flow[x].withdrawn + 0
      BY <1>5, <1>6, <3>1, <3>2
    <3>4. FundingOf(x)' = FundingOf(x) BY <2>1 DEF FundingOf
    <3>. QED  BY <3>3, <3>4, BookedStep
  <2>. QED  BY <2>1, <2>2, <1>2, <1>5, <1>7, <1>11 DEF MoneyOK, FlowsBooked
<1>. QED  BY <1>12, <1>13, <1>14

\* An execution that carries ETH to its own Safe.
LEMMA SafeEthMoney ==
    ASSUME TypeOK, MoneyOK, NEW x \in Safes, handleSafeEthTransfer(x, x, 1)
    PROVE  /\ ChainOK' /\ MoneyOK' /\ UNCHANGED <<now, services, portfolio, position>>
           /\ BalancesTyped(balance') /\ FundingTyped(funding')
<1>1. ETH \in Tokens /\ ETH # USDC /\ ETH # WETH BY PortfolioAssumption DEF Tokens
<1>2. /\ UNCHANGED <<now, price, early, flow, services, portfolio, position>>
      /\ UNCHANGED <<registration, serviceIndex, service, registry, watched>>
      /\ balance' = updateBalance(balance, x, ETH, -1)
      /\ real' = [real EXCEPT ![x][ETH] = @ + 1]
  BY DEF handleSafeEthTransfer, services
<1>3. funding' = funding
  BY SafeIsNoSource DEF handleSafeEthTransfer, TypeOK
<1>4. PICK row : row = [real[x] EXCEPT ![ETH] = real[x][ETH] + 1] OBVIOUS
<1>5. real' = [real EXCEPT ![x] = row] BY <1>2, <1>4
<1>6. real \in [Safes -> [Tokens -> Nat]] BY DEF TypeOK, ChainOK
<1>7. row \in [Tokens -> Nat] /\ \A k \in {USDC, WETH} : row[k] = real[x][k]
  BY <1>1, <1>4, <1>6 DEF Tokens
<1>8. real' \in [Safes -> [Tokens -> Nat]] BY <1>5, <1>6, <1>7
<1>9. \A y \in Safes, k \in {USDC, WETH} : real'[y][k] = real[y][k]
  BY <1>5, <1>6, <1>7
<1>10. /\ BalancesTyped(balance')
       /\ \A y \in Safes, k \in {USDC, WETH} : Recorded(balance', y, k) = Recorded(balance, y, k)
  BY <1>2, EthUpdated
<1>11. HoldingsRecorded' BY <1>2, <1>9, <1>10, TokensKept DEF MoneyOK
<1>12. FlowsBooked' BY <1>2, <1>3 DEF MoneyOK, FlowsBooked, Booked, FundingOf
<1>13. FundingTyped(funding') BY <1>3, TypedTables
<1>14. ChainOK' BY <1>2, <1>8 DEF TypeOK, ChainOK
<1>. QED  BY <1>2, <1>10, <1>11, <1>12, <1>13, <1>14 DEF MoneyOK

-----------------------------------------------------------------------------
(* The population of a day. *)

\* The snapshots of a day, and its first moment.
TimesOf(d) == {k[2] : k \in {j \in DOMAIN snapshot : Day(j[2]) = d}}
FirstIn(S) == CHOOSE t \in S : \A u \in S : t <= u

\* The history of a day is the medians of the last n days.
LastDays(history, d, n, m) == history = [i \in 1..n |-> m[d - n + i]]
MediansOfPnL == [e \in DOMAIN metric |-> metric[e].medianUnrealisedPnL]
MediansOfAUM == [e \in DOMAIN metric |-> metric[e].medianAUM]

Since(d) == {e \in DOMAIN metric : e <= d /\ e > d - Window}

AgentsOf(d) == {x \in Safes : <<x, FirstOfDay(d)>> \in DOMAIN snapshot}

\* The row of a day is of the agents of its first moment, and of a window of days
\* without a gap.
DayRowOK(d) ==
    /\ metric[d].totalAgents = Cardinality(AgentsOf(d))
    /\ \E n \in 1..Window :
          /\ Since(d) = (d - n + 1)..d
          /\ LastDays(metric[d].historicalMedianUnrealisedPnL, d, n, MediansOfPnL)
          /\ LastDays(metric[d].historicalMedianAUM, d, n, MediansOfAUM)

PopulationInv ==
    /\ DOMAIN metric = {Day(k[2]) : k \in DOMAIN snapshot}
    /\ \A d \in DOMAIN metric : DayRowOK(d)

\* What PopulationOfDay says, from the invariant.
LEMMA PopulationImplies == ASSUME TypeOK, LatestOK, PopulationInv PROVE PopulationOfDay
<1>. SUFFICES ASSUME NEW d \in DOMAIN metric
              PROVE  LET agents == {x \in Safes : <<x, FirstOfDay(d)>> \in DOMAIN snapshot}
                         since == {e \in DOMAIN metric : e <= d /\ e > d - Window}
                         n == Cardinality(since)
                     IN  /\ metric[d].totalAgents = Cardinality(agents)
                         /\ metric[d].historicalMedianUnrealisedPnL =
                                [i \in 1..n |-> metric[d - n + i].medianUnrealisedPnL]
                         /\ metric[d].historicalMedianAUM = [i \in 1..n |-> metric[d - n + i].medianAUM]
  BY DEF PopulationInv, PopulationOfDay
<1>1. d \in Nat BY DayOrdered DEF PopulationInv, LatestOK
<1>2. PICK n \in 1..Window :
          /\ Since(d) = (d - n + 1)..d
          /\ LastDays(metric[d].historicalMedianUnrealisedPnL, d, n, MediansOfPnL)
          /\ LastDays(metric[d].historicalMedianAUM, d, n, MediansOfAUM)
  BY DEF PopulationInv, DayRowOK
<1>3. n \in Nat /\ n >= 1 /\ d - n + 1 \in Int /\ d - (d - n + 1) + 1 = n /\ d - n + 1 <= d
  BY <1>1, PortfolioAssumption
<1>4. Cardinality(Since(d)) = n
  BY <1>1, <1>2, <1>3, FS_Interval
<1>5. \A i \in 1..n : d - n + i \in DOMAIN metric BY <1>1, <1>3, <1>2 DEF Since
<1>6. /\ metric[d].historicalMedianUnrealisedPnL =
             [i \in 1..n |-> metric[d - n + i].medianUnrealisedPnL]
      /\ metric[d].historicalMedianAUM = [i \in 1..n |-> metric[d - n + i].medianAUM]
  BY <1>2, <1>5 DEF LastDays, MediansOfPnL, MediansOfAUM
<1>7. metric[d].totalAgents = Cardinality(AgentsOf(d)) BY DEF PopulationInv, DayRowOK
<1>. QED  BY <1>4, <1>6, <1>7 DEF Since, AgentsOf

\* Nothing happens to the ids of the snapshots and the rows of the days.
LEMMA PopulationKept ==
    ASSUME PopulationInv, DOMAIN snapshot' = DOMAIN snapshot, metric' = metric
    PROVE  PopulationInv'
<1>1. MediansOfPnL' = MediansOfPnL /\ MediansOfAUM' = MediansOfAUM
  BY DEF MediansOfPnL, MediansOfAUM
<1>2. ASSUME NEW d \in DOMAIN metric PROVE DayRowOK(d)'
  <2>1. FirstOfDay(d)' = FirstOfDay(d) BY DEF FirstOfDay
  <2>2. AgentsOf(d)' = AgentsOf(d) BY <2>1 DEF AgentsOf
  <2>3. Since(d)' = Since(d) BY DEF Since
  <2>4. DayRowOK(d) BY DEF PopulationInv
  <2>. QED  BY <1>1, <2>2, <2>3, <2>4 DEF DayRowOK, LastDays
<1>. QED  BY <1>2 DEF PopulationInv

\* The days with snapshots reach today, if there are any.
LEMMA DaysReachToday ==
    ASSUME TypeOK, LatestOK, DailyOK, PopulationInv, NEW d \in DOMAIN metric
    PROVE  d \in Nat /\ d <= Day(now) /\ Day(now) \in DOMAIN metric
<1>1. PICK k \in DOMAIN snapshot : d = Day(k[2]) BY DEF PopulationInv
<1>2. PICK x, t : k = <<x, t>> /\ x \in DOMAIN service /\ t \in Nat
  BY <1>1 DEF LatestOK
<1>3. PICK c : c = service[x].createdAt OBVIOUS
<1>4. c \in Nat /\ now \in Nat /\ t > c /\ t <= now
  <2>1. Taken(x, t) BY <1>1, <1>2 DEF Taken
  <2>2. now \in Nat BY DEF TypeOK, ChainOK
  <2>3. c \in 1..now /\ t > c /\ t <= now BY <1>2, <1>3, <2>1 DEF LatestOK
  <2>. QED  BY ONLY <2>2, <2>3
<1>5. c + 1 \in Nat /\ c + 1 <= now /\ c + 1 <= t /\ now > c BY ONLY <1>2, <1>4
<1>6. d \in Nat /\ d <= Day(now) BY <1>1, <1>2, <1>4, DayOrdered
<1>7. Day(c + 1) \in Nat /\ Day(now) \in Nat /\ Day(c + 1) <= Day(now) BY <1>4, <1>5, DayOrdered
<1>8. Day(now) \in Day(c + 1)..Day(now) BY <1>7
<1>9. PICK u \in Nat : Taken(x, u) /\ Day(u) = Day(now)
  BY <1>2, <1>3, <1>5, <1>8 DEF DailyOK
<1>10. <<x, u>> \in DOMAIN snapshot /\ <<x, u>>[2] = u BY <1>9 DEF Taken
<1>11. Day(now) \in {Day(j[2]) : j \in DOMAIN snapshot} BY <1>9, <1>10
<1>. QED  BY <1>6, <1>11 DEF PopulationInv

\* The least of a set of moments.
LEMMA FirstIsLeast ==
    ASSUME NEW S \in SUBSET Nat, NEW m \in S, \A u \in S : m <= u
    PROVE  FirstIn(S) = m
<1>1. \A t \in S : (\A u \in S : t <= u) => t = m OBVIOUS
<1>. QED  BY <1>1 DEF FirstIn

\* A set of moments that is not empty has a least.
LEMMA FirstExists ==
    ASSUME NEW S, NEW n \in Nat, S \subseteq 0..n, S # {}
    PROVE  FirstIn(S) \in S /\ \A u \in S : FirstIn(S) <= u
<1>1. IsFiniteSet(S) /\ S \subseteq Int
  <2>1. IsFiniteSet(0..n) BY FS_Interval
  <2>2. IsFiniteSet(S) BY <2>1, FS_Subset
  <2>3. S \subseteq Int OBVIOUS
  <2>. QED  BY <2>2, <2>3
<1>. QED  BY <1>1, FiniteIntExtremes DEF FirstIn

\* The window moves on by a day: its median is appended, and the oldest leaves.
LEMMA HistoryMoves ==
    ASSUME NEW S, NEW median \in S, NEW n \in 0..Window, NEW history \in Seq(S), Len(history) = n,
           NEW next, next = updateHistoricalArrays(history, median)
    PROVE  \/ /\ n < Window /\ DOMAIN next = 1..(n + 1) /\ next = [i \in 1..(n + 1) |-> next[i]]
              /\ next[n + 1] = median /\ \A i \in 1..n : next[i] = history[i]
           \/ /\ n = Window /\ DOMAIN next = 1..n /\ next = [i \in 1..n |-> next[i]]
              /\ next[n] = median /\ \A i \in 1..(n - 1) : next[i] = history[i + 1]
<1>0. Window \in Nat /\ Window >= 1 /\ n \in Nat BY PortfolioAssumption
<1>1. PICK longer : longer = Append(history, median) OBVIOUS
<1>2. /\ longer \in Seq(S) /\ longer # <<>> /\ Len(longer) = n + 1
      /\ \A i \in 1..n : longer[i] = history[i]
      /\ longer[n + 1] = median
  BY <1>1, AppendProperties
<1>3. next = IF n + 1 > Window THEN Tail(longer) ELSE longer
  BY <1>1, <1>2 DEF updateHistoricalArrays
<1>4. CASE n < Window BY <1>0, <1>3, <1>4, <1>2
<1>5. CASE n = Window BY <1>0, <1>3, <1>5, <1>2, HeadTailProperties
<1>. QED  BY <1>0, <1>4, <1>5

-----------------------------------------------------------------------------
(* A block: the snapshots that are due, and the row of their day. *)

DueAt(t) == {x \in ToSet(registry) : isSnapshotDue(x, t)}

\* What a block does to the rows, but for the day's.
LEMMA BlockShape ==
    ASSUME TypeOK, handleBlock
    PROVE  LET t == now + 1  due == DueAt(t)
           IN  /\ now' = t /\ t \in Nat /\ price' \in Nat
               /\ UNCHANGED <<real, early, flow, funding, registration, serviceIndex, service,
                              registry, watched>>
               /\ due = {x \in DOMAIN service : Latest(x) = 0 \/ Day(t) > Day(Latest(x))}
               /\ DOMAIN snapshot' = DOMAIN snapshot \cup {<<x, t>> : x \in due}
               /\ DOMAIN portfolio' = DOMAIN service
               /\ \A x \in DOMAIN service :
                     /\ DOMAIN portfolio'[x] = PFields
                     /\ Latest(x)' = IF x \in due THEN t ELSE Latest(x)
               /\ DOMAIN balance' = DOMAIN balance
               /\ \A k \in DOMAIN balance :
                     /\ balance'[k] \in BalanceRow /\ balance'[k].balance = balance[k].balance
                     /\ k[1] \in due =>
                           balance'[k].balanceUSD = balance[k].balance * PriceOf(k[2], price')
               /\ position' \in [Safes -> PositionRow]
               /\ \A x \in due : position'[x].usd = position[x].active * price'
               /\ metric' = IF due = {} THEN metric
                            ELSE calculateGlobalMetrics(portfolio', snapshot', t)
<1>. DEFINE t == now + 1  due == DueAt(t)
<1>1. /\ now' = t /\ t \in Nat /\ price' \in Nat
      /\ checkServicesForSnapshot(t, price')
      /\ UNCHANGED <<real, early, flow, funding, registration, serviceIndex, service, registry,
                     watched>>
  BY PortfolioAssumption DEF handleBlock, services, TypeOK, ChainOK
<1>2. /\ balance' = refreshTokenBalanceUSDValues(due, price')
      /\ position' = refreshAllActivePositions(due, price')
      /\ portfolio' = [x \in DOMAIN portfolio |->
             IF x \in due
             THEN [Measured(portfolio[x], x, balance', position') EXCEPT !.lastSnapshotTimestamp = t]
             ELSE portfolio[x]]
      /\ DOMAIN snapshot' = DOMAIN snapshot \cup {<<x, t>> : x \in due}
      /\ metric' = IF due = {} THEN metric ELSE calculateGlobalMetrics(portfolio', snapshot', t)
  BY <1>1 DEF checkServicesForSnapshot, DueAt
<1>3. due = {x \in DOMAIN service : Latest(x) = 0 \/ Day(t) > Day(Latest(x))}
  BY DEF DueAt, TypeOK, ServicesOK, RowsOK, isSnapshotDue, Latest
<1>. HIDE DEF t, due
<1>4. /\ DOMAIN portfolio = DOMAIN service
      /\ \A x \in DOMAIN service : DOMAIN portfolio[x] = PFields
  BY DEF TypeOK, RowsOK
<1>5. ASSUME NEW x \in DOMAIN service
      PROVE  /\ DOMAIN portfolio'[x] = PFields
             /\ Latest(x)' = IF x \in due THEN t ELSE Latest(x)
  <2>1. PICK row : row = Measured(portfolio[x], x, balance', position') OBVIOUS
  <2>2. DOMAIN row = PFields BY <1>4, <2>1, MeasuredKeeps
  <2>3. PICK next : next = [row EXCEPT !.lastSnapshotTimestamp = t] OBVIOUS
  <2>4. DOMAIN next = PFields /\ next.lastSnapshotTimestamp = t
    BY ONLY <2>2, <2>3 DEF PFields
  <2>5. portfolio'[x] = IF x \in due THEN next ELSE portfolio[x]
    BY <1>2, <1>4, <2>1, <2>3
  <2>. QED  BY <1>4, <2>4, <2>5 DEF Latest
<1>6. ASSUME NEW k \in DOMAIN balance
      PROVE  /\ balance'[k] \in BalanceRow /\ balance'[k].balance = balance[k].balance
             /\ k[1] \in due => balance'[k].balanceUSD = balance[k].balance * PriceOf(k[2], price')
  <2>1. PICK old : old = balance[k] OBVIOUS
  <2>2. old \in BalanceRow BY <2>1 DEF TypeOK, RowsOK
  <2>3. PICK usd : usd = old.balance * PriceOf(k[2], price') OBVIOUS
  <2>4. usd \in Nat BY <1>1, <2>2, <2>3 DEF PriceOf, BalanceRow
  <2>5. PICK next : next = [old EXCEPT !.balanceUSD = usd] OBVIOUS
  <2>6. next \in BalanceRow /\ next.balance = old.balance /\ next.balanceUSD = usd
    BY ONLY <2>2, <2>4, <2>5 DEF BalanceRow
  <2>7. balance'[k] = IF k[1] \in due THEN next ELSE old
    BY <1>2, <2>1, <2>3, <2>5 DEF refreshTokenBalanceUSDValues
  <2>. QED  BY <2>1, <2>2, <2>3, <2>6, <2>7
<1>7. DOMAIN balance' = DOMAIN balance BY <1>2 DEF refreshTokenBalanceUSDValues
<1>8. ASSUME NEW x \in Safes
      PROVE  position'[x] \in PositionRow /\ (x \in due => position'[x].usd = position[x].active * price')
  <2>1. PICK old : old = position[x] OBVIOUS
  <2>2. old \in PositionRow BY <2>1 DEF TypeOK, RowsOK
  <2>3. PICK usd : usd = old.active * price' OBVIOUS
  <2>4. usd \in Nat BY <2>2, <1>1, <2>3 DEF PositionRow
  <2>5. PICK next : next = [old EXCEPT !.usd = usd] OBVIOUS
  <2>6. next \in PositionRow /\ next.usd = usd BY ONLY <2>2, <2>4, <2>5 DEF PositionRow
  <2>7. position'[x] = IF x \in due THEN next ELSE old
    BY <1>2, <2>1, <2>3, <2>5 DEF refreshAllActivePositions
  <2>. QED  BY <2>1, <2>2, <2>3, <2>6, <2>7
<1>9. position' \in [Safes -> PositionRow]
  BY <1>2, <1>8 DEF refreshAllActivePositions
<1>10. due \subseteq Safes BY <1>3 DEF TypeOK, ServicesOK
<1>11. DOMAIN portfolio' = DOMAIN service BY <1>2, <1>4
<1>. QED  BY <1>1, <1>2, <1>3, <1>5, <1>6, <1>7, <1>8, <1>9, <1>10, <1>11 DEF t, due

\* The block's own tables.
LEMMA BlockTypes == ASSUME TypeOK, MoneyOK, handleBlock PROVE TypeOK' /\ MoneyOK'
<1>. DEFINE t == now + 1  due == DueAt(t)
<1>1. /\ now' = t /\ t \in Nat
      /\ UNCHANGED <<real, early, flow, funding, registration, serviceIndex, service, registry,
                     watched>>
      /\ DOMAIN portfolio' = DOMAIN service
      /\ \A x \in DOMAIN service : /\ DOMAIN portfolio'[x] = PFields
                                   /\ Latest(x)' = IF x \in due THEN t ELSE Latest(x)
      /\ DOMAIN balance' = DOMAIN balance
      /\ \A k \in DOMAIN balance :
            balance'[k] \in BalanceRow /\ balance'[k].balance = balance[k].balance
      /\ position' \in [Safes -> PositionRow]
  BY BlockShape
<1>2. ChainOK' BY <1>1 DEF TypeOK, ChainOK, handleBlock
<1>3. ServicesOK' BY <1>1 DEF TypeOK, ServicesOK
<1>4. RowsOK' BY <1>1 DEF TypeOK, RowsOK, Latest
<1>5. \A x, k : Recorded(balance', x, k) = Recorded(balance, x, k)
  BY <1>1 DEF Recorded, LoadOr
<1>6. HoldingsRecorded' BY <1>1, <1>5 DEF MoneyOK, HoldingsRecorded, WithinWallet
<1>7. FlowsBooked' BY <1>1 DEF MoneyOK, FlowsBooked, Booked, FundingOf
<1>. QED  BY <1>2, <1>3, <1>4, <1>6, <1>7 DEF TypeOK, MoneyOK

\* A Safe is snapshotted when its last snapshot is of an earlier day: no day twice,
\* and no day left out, as a block is at most a day after the one before.
LEMMA BlockDaily ==
    ASSUME TypeOK, LatestOK, DailyOK, handleBlock PROVE LatestOK' /\ DailyOK'
<1>. DEFINE t == now + 1  due == DueAt(t)
<1>1. /\ now' = t /\ t \in Nat /\ service' = service
      /\ due = {x \in DOMAIN service : Latest(x) = 0 \/ Day(t) > Day(Latest(x))}
      /\ DOMAIN snapshot' = DOMAIN snapshot \cup {<<x, t>> : x \in due}
      /\ \A x \in DOMAIN service : Latest(x)' = IF x \in due THEN t ELSE Latest(x)
  BY BlockShape
<1>2. now \in Nat /\ now >= 1 BY DEF TypeOK, ChainOK
<1>3. t = now + 1 OBVIOUS
<1>. HIDE DEF t, due
<1>4. \A x, u : Taken(x, u)' <=> Taken(x, u) \/ (x \in due /\ u = t)
  BY <1>1 DEF Taken
<1>5. \A x \in DOMAIN service : Latest(x) \in Nat
  BY DEF TypeOK, RowsOK, Latest
<1>6. LatestOK'
  <2>1. \A k \in DOMAIN snapshot' : k \in (DOMAIN service) \X Nat
    BY <1>1 DEF LatestOK
  <2>2. ASSUME NEW x \in DOMAIN service
        PROVE  /\ service[x].createdAt \in 1..t
               /\ \A u \in Nat : Taken(x, u)' =>
                     u > service[x].createdAt /\ u <= t /\ u <= Latest(x)'
               /\ Latest(x)' # 0 => Taken(x, Latest(x))'
    <3>1. PICK c, last, next : /\ c = service[x].createdAt /\ last = Latest(x)
                               /\ next = Latest(x)'
      OBVIOUS
    <3>2. /\ c \in 1..now
          /\ \A u \in Nat : Taken(x, u) => u > c /\ u <= now /\ u <= last
          /\ last # 0 => Taken(x, last)
      BY <3>1 DEF LatestOK
    <3>3. last \in Nat /\ next = IF x \in due THEN t ELSE last
      BY <1>1, <1>5, <3>1
    <3>4. c \in 1..t BY ONLY <1>2, <1>3, <3>2
    <3>5. ASSUME NEW u \in Nat, Taken(x, u)' PROVE u > c /\ u <= t /\ u <= next
      <4>1. CASE Taken(x, u) BY <4>1, <3>2, <1>2, <1>3, <3>3
      <4>2. CASE x \in due /\ u = t
        BY ONLY <4>2, <1>2, <1>3, <3>2, <3>3
      <4>. QED  BY <3>5, <4>1, <4>2, <1>4
    <3>6. next # 0 => Taken(x, next)' BY <1>4, <3>2, <3>3
    <3>. QED  BY <3>1, <3>4, <3>5, <3>6
  <2>. QED  BY <1>1, <2>1, <2>2 DEF LatestOK
<1>7. DailyOK'
  <2>1. ASSUME NEW x \in DOMAIN service
        PROVE  /\ \A u, w \in Nat : Taken(x, u)' /\ Taken(x, w)' /\ Day(u) = Day(w) => u = w
               /\ t > service[x].createdAt =>
                     \A d \in Day(service[x].createdAt + 1)..Day(t) :
                        \E u \in Nat : Taken(x, u)' /\ Day(u) = d
    <3>1. PICK c, last : c = service[x].createdAt /\ last = Latest(x)
      OBVIOUS
    <3>2. /\ c \in 1..now /\ last \in Nat
          /\ \A u \in Nat : Taken(x, u) => u > c /\ u <= now /\ u <= last
          /\ last # 0 => Taken(x, last)
      BY <1>5, <3>1 DEF LatestOK
    <3>3. /\ \A u, w \in Nat : Taken(x, u) /\ Taken(x, w) /\ Day(u) = Day(w) => u = w
          /\ now > c => \A d \in Day(c + 1)..Day(now) : \E u \in Nat : Taken(x, u) /\ Day(u) = d
      BY <3>1 DEF DailyOK
    <3>4. x \in due <=> last = 0 \/ Day(t) > Day(last) BY <1>1, <3>1
    <3>5. /\ Day(t) \in Nat /\ Day(now) \in Nat /\ Day(last) \in Nat
          /\ Day(now) <= Day(t) /\ Day(t) <= Day(now) + 1
      BY <1>1, <1>2, <1>3, <3>2, DayOrdered
    <3>6. ASSUME NEW u \in Nat, Taken(x, u), x \in due PROVE Day(u) # Day(t)
      BY <3>6, <3>2, DayOrdered, <3>4, <3>5
    <3>7. \A u, w \in Nat : Taken(x, u)' /\ Taken(x, w)' /\ Day(u) = Day(w) => u = w
      BY <1>4, <3>3, <3>6
    <3>8. ASSUME NEW d \in Day(c + 1)..Day(t) PROVE \E u \in Nat : Taken(x, u)' /\ Day(u) = d
      <4>1. Day(c + 1) \in Nat BY <1>2, <3>2, DayOrdered
      <4>2. CASE d = Day(t)
        <5>1. CASE x \in due BY <5>1, <4>2, <1>1, <1>4
        <5>2. CASE x \notin due
          <6>1. last # 0 /\ Day(t) <= Day(last) BY <5>2, <3>4, <3>5
          <6>2. Taken(x, last) /\ last <= now BY <6>1, <3>2
          <6>3. Day(last) <= Day(t) BY <6>2, <1>1, <1>2, <1>3, <3>2, DayOrdered
          <6>4. Day(last) = Day(t) BY ONLY <6>1, <6>3, <3>5
          <6>. QED  BY <6>2, <6>4, <4>2, <1>4, <3>2
        <5>. QED  BY <5>1, <5>2
      <4>3. CASE d # Day(t)
        <5>1. d \in Day(c + 1)..Day(now) BY ONLY <4>1, <4>3, <3>5, d \in Day(c + 1)..Day(t)
        <5>2. CASE now > c BY <5>1, <5>2, <3>3, <1>4
        <5>3. CASE ~(now > c)
          <6>1. c + 1 = t BY ONLY <5>3, <1>2, <1>3, <3>2
          <6>. QED  BY ONLY <6>1, <4>1, <4>3, <3>5, d \in Day(c + 1)..Day(t)
        <5>. QED  BY <5>2, <5>3
      <4>. QED  BY <4>2, <4>3
    <3>. QED  BY <3>1, <3>7, <3>8
  <2>. QED  BY <1>1, <2>1 DEF DailyOK
<1>. QED  BY <1>6, <1>7

\* What the row of a day takes from the rows before and from its own medians.
LEMMA MetricRowHistory ==
    ASSUME NEW rows, NEW shot, NEW agents, NEW t, NEW row, row = MetricRow(rows, shot, agents, t)
    PROVE  /\ row.totalAgents = Cardinality(agents)
           /\ row.historicalMedianUnrealisedPnL =
                 updateHistoricalArrays(getPreviousDailyPopulationMetric(Day(t),
                                           "historicalMedianUnrealisedPnL"), row.medianUnrealisedPnL)
           /\ row.historicalMedianAUM =
                 updateHistoricalArrays(getPreviousDailyPopulationMetric(Day(t),
                                           "historicalMedianAUM"), row.medianAUM)
BY DEF MetricRow

\* The history of the next day, in terms of the medians of the days.
LEMMA WindowMoves ==
    ASSUME NEW d \in Nat, NEW n \in 0..Window, NEW old, NEW new, NEW S, NEW median \in S,
           NEW history \in Seq(S), Len(history) = n,
           \A i \in 1..n : history[i] = old[d - 1 - n + i] /\ new[d - 1 - n + i] = old[d - 1 - n + i],
           new[d] = median,
           NEW next, next = updateHistoricalArrays(history, median)
    PROVE  LastDays(next, d, IF n < Window THEN n + 1 ELSE n, new)
<1>0. Window \in Nat /\ Window >= 1 /\ n \in Nat BY PortfolioAssumption
<1>1. \/ /\ n < Window /\ DOMAIN next = 1..(n + 1) /\ next = [i \in 1..(n + 1) |-> next[i]]
         /\ next[n + 1] = median /\ \A i \in 1..n : next[i] = history[i]
      \/ /\ n = Window /\ DOMAIN next = 1..n /\ next = [i \in 1..n |-> next[i]]
         /\ next[n] = median /\ \A i \in 1..(n - 1) : next[i] = history[i + 1]
  BY HistoryMoves
<1>2. \A i \in 1..n : history[i] = new[d - 1 - n + i]
  OBVIOUS
<1>3. CASE n < Window
  <2>1. ASSUME NEW i \in 1..(n + 1) PROVE next[i] = new[d - (n + 1) + i]
    <3>1. CASE i = n + 1
      <4>1. d - (n + 1) + i = d BY ONLY <3>1, <1>0, d \in Nat
      <4>. QED  BY <4>1, <3>1, <1>0, <1>1, <1>3
    <3>2. CASE i # n + 1
      <4>1. i \in 1..n /\ d - (n + 1) + i = d - 1 - n + i
        BY ONLY <3>2, <1>0, d \in Nat, i \in 1..(n + 1)
      <4>. QED  BY <4>1, <1>0, <1>1, <1>2, <1>3
    <3>. QED  BY <3>1, <3>2
  <2>2. next = [i \in 1..(n + 1) |-> next[i]] BY <1>0, <1>1, <1>3
  <2>3. next = [i \in 1..(n + 1) |-> new[d - (n + 1) + i]] BY ONLY <2>1, <2>2
  <2>. QED  BY <1>3, <2>3 DEF LastDays
<1>4. CASE n = Window
  <2>1. ASSUME NEW i \in 1..n PROVE next[i] = new[d - n + i]
    <3>1. CASE i = n
      <4>1. d - n + i = d BY ONLY <3>1, <1>0, d \in Nat
      <4>. QED  BY <4>1, <3>1, <1>0, <1>1, <1>4
    <3>2. CASE i # n
      <4>1. i \in 1..(n - 1) /\ i + 1 \in 1..n /\ d - n + i = d - 1 - n + (i + 1)
        BY ONLY <3>2, <1>0, d \in Nat, i \in 1..n
      <4>2. next[i] = history[i + 1] BY ONLY <4>1, <1>0, <1>1, <1>4
      <4>3. history[i + 1] = new[d - 1 - n + (i + 1)] BY <4>1, <1>2
      <4>. QED  BY <4>1, <4>2, <4>3
    <3>. QED  BY <3>1, <3>2
  <2>2. next = [i \in 1..n |-> next[i]] BY <1>0, <1>1, <1>4
  <2>3. next = [i \in 1..n |-> new[d - n + i]] BY ONLY <2>1, <2>2
  <2>4. ~(n < Window) BY <1>0, <1>4
  <2>. QED  BY <2>3, <2>4 DEF LastDays
<1>. QED  BY <1>0, <1>3, <1>4

\* The first moment of a day with snapshots stays the first, and so do its agents.
LEMMA FirstStays ==
    ASSUME TypeOK, LatestOK, PopulationInv, NEW d \in DOMAIN metric, NEW due,
           DOMAIN snapshot' = DOMAIN snapshot \cup {<<x, now + 1>> : x \in due}
    PROVE  AgentsOf(d)' = AgentsOf(d)
<1>1. PICK S, T : S = TimesOf(d) /\ T = TimesOf(d)' OBVIOUS
<1>2. now \in Nat BY DEF TypeOK, ChainOK
<1>3. \A k \in DOMAIN snapshot : k = <<k[1], k[2]>> /\ k[2] \in 0..now
  <2>1. ASSUME NEW k \in DOMAIN snapshot PROVE k = <<k[1], k[2]>> /\ k[2] \in 0..now
    <3>1. PICK x, t : k = <<x, t>> /\ x \in DOMAIN service /\ t \in Nat BY DEF LatestOK
    <3>2. t <= now BY <3>1 DEF LatestOK, Taken
    <3>. QED  BY <3>1, <3>2, <1>2
  <2>. QED  BY <2>1
<1>4. S \subseteq 0..now BY <1>1, <1>3 DEF TimesOf
<1>5. S # {} BY <1>1 DEF PopulationInv, TimesOf
<1>6. S \subseteq T /\ T \subseteq S \cup {now + 1}
  BY <1>1 DEF TimesOf
<1>7. PICK m : m = FirstIn(S) OBVIOUS
<1>8. m \in S /\ \A u \in S : m <= u BY <1>2, <1>4, <1>5, <1>7, FirstExists
<1>9. T \in SUBSET Nat /\ m \in T /\ (\A u \in T : m <= u) /\ m # now + 1
  BY ONLY <1>2, <1>4, <1>6, <1>8
<1>10. FirstIn(T) = m BY <1>9, FirstIsLeast
<1>11. FirstOfDay(d) = m BY <1>1, <1>7 DEF FirstOfDay, FirstIn, TimesOf
<1>12. FirstOfDay(d)' = m BY <1>1, <1>10 DEF FirstOfDay, FirstIn, TimesOf
<1>13. \A x : <<x, m>> \in DOMAIN snapshot' <=> <<x, m>> \in DOMAIN snapshot BY <1>9
<1>. QED  BY <1>11, <1>12, <1>13 DEF AgentsOf

\* The row of a day is made at its first moment, of all that are due then, and never
\* again; its history is the day before's and its own medians.
LEMMA BlockPopulation ==
    ASSUME TypeOK, LatestOK, DailyOK, PopulationInv, handleBlock PROVE PopulationInv'
<1>0. PICK t, due : t = now + 1 /\ due = DueAt(t) OBVIOUS
<1>1. /\ now' = t /\ t \in Nat /\ UNCHANGED <<service, registry>>
      /\ due = {x \in DOMAIN service : Latest(x) = 0 \/ Day(t) > Day(Latest(x))}
      /\ DOMAIN snapshot' = DOMAIN snapshot \cup {<<x, t>> : x \in due}
      /\ \A x \in DOMAIN service : Latest(x)' = IF x \in due THEN t ELSE Latest(x)
      /\ metric' = IF due = {} THEN metric ELSE calculateGlobalMetrics(portfolio', snapshot', t)
  BY <1>0, BlockShape
<1>2. now \in Nat BY DEF TypeOK, ChainOK
<1>3. t = now + 1 BY <1>0
<1>4. \A d \in DOMAIN metric : AgentsOf(d)' = AgentsOf(d)
  BY <1>1, <1>3, FirstStays
<1>5. due \subseteq DOMAIN service /\ DOMAIN service \subseteq Safes
  BY <1>1 DEF TypeOK, ServicesOK
<1>6. {Day(k[2]) : k \in DOMAIN snapshot'} = DOMAIN metric \cup {Day(t) : x \in due}
  <2>1. DOMAIN metric = {Day(k[2]) : k \in DOMAIN snapshot} BY DEF PopulationInv
  <2>2. PICK X, Y : X = DOMAIN snapshot /\ Y = DOMAIN snapshot' OBVIOUS
  <2>3. Y = X \cup {<<x, t>> : x \in due} BY <1>1, <2>2
  <2>4. {Day(k[2]) : k \in Y} = {Day(k[2]) : k \in X} \cup {Day(t) : x \in due}
    <3>1. ASSUME NEW e \in {Day(k[2]) : k \in Y}
          PROVE  e \in {Day(k[2]) : k \in X} \cup {Day(t) : x \in due}
      <4>1. PICK k \in Y : e = Day(k[2]) OBVIOUS
      <4>. QED  BY <4>1, <2>3
    <3>2. ASSUME NEW e \in {Day(k[2]) : k \in X} PROVE e \in {Day(k[2]) : k \in Y}
      BY <2>3
    <3>3. ASSUME NEW e \in {Day(t) : x \in due} PROVE e \in {Day(k[2]) : k \in Y}
      <4>1. PICK x \in due : e = Day(t) OBVIOUS
      <4>2. <<x, t>> \in Y /\ Day(<<x, t>>[2]) = e BY <4>1, <2>3
      <4>. QED  BY <4>2
    <3>. QED  BY <3>1, <3>2, <3>3
  <2>. QED  BY <2>1, <2>2, <2>4
<1>7. CASE due = {}
  BY <1>1, <1>7, PopulationKept
<1>8. CASE due # {} /\ metric' = metric /\ Day(t) \in DOMAIN metric
  <2>1. MediansOfPnL' = MediansOfPnL /\ MediansOfAUM' = MediansOfAUM
    BY <1>8 DEF MediansOfPnL, MediansOfAUM
  <2>2. ASSUME NEW d \in DOMAIN metric PROVE DayRowOK(d)'
    <3>1. DayRowOK(d) BY DEF PopulationInv
    <3>2. Since(d)' = Since(d) BY <1>8 DEF Since
    <3>. QED  BY <1>4, <1>8, <2>1, <3>1, <3>2 DEF DayRowOK, LastDays
  <2>3. DOMAIN metric' = {Day(k[2]) : k \in DOMAIN snapshot'}
    BY <1>6, <1>8
  <2>. QED  BY <1>8, <2>2, <2>3 DEF PopulationInv
<1>9. PICK A : A = getAllAgentSnapshotsForDay(portfolio', t) OBVIOUS
<1>10. due \subseteq A /\ (Day(t) \notin DOMAIN metric => A = due)
  <2>1. A = {x \in DOMAIN service : Latest(x)' > 0 /\ Day(Latest(x)') = Day(t)}
    BY <1>1, <1>9 DEF getAllAgentSnapshotsForDay, Latest, TypeOK, ServicesOK
  <2>2. t > 0 BY <1>2, <1>3
  <2>3. due \subseteq A BY <1>1, <1>5, <2>1, <2>2
  <2>4. ASSUME NEW x \in A, x \notin due PROVE Day(t) \in DOMAIN metric
    <3>1. x \in DOMAIN service /\ Latest(x) > 0 /\ Day(Latest(x)) = Day(t)
      BY <1>1, <2>1, <2>4
    <3>2. Latest(x) \in Nat BY <3>1 DEF TypeOK, RowsOK, Latest
    <3>3. <<x, Latest(x)>> \in DOMAIN snapshot BY <3>1, <3>2 DEF LatestOK, Taken
    <3>4. Day(<<x, Latest(x)>>[2]) = Day(t) BY <3>1
    <3>5. Day(t) \in {Day(k[2]) : k \in DOMAIN snapshot} BY <3>3, <3>4
    <3>. QED  BY <3>5 DEF PopulationInv
  <2>. QED  BY <2>3, <2>4
<1>11. PICK row : row = MetricRow(portfolio', [x \in A |->
                           snapshot'[<<x, portfolio'[x].lastSnapshotTimestamp>>]], A, t)
  OBVIOUS
<1>12. due # {} => metric' = IF A = {} \/ Day(t) \in DOMAIN metric THEN metric
                             ELSE Put(metric, Day(t), row)
  BY <1>1, <1>9, <1>11 DEF calculateGlobalMetrics
<1>13. CASE due # {} /\ Day(t) \notin DOMAIN metric
  <2>0. PICK D : D = Day(t) OBVIOUS
  <2>1. A = due /\ metric' = Put(metric, D, row) BY <1>10, <1>12, <1>13, <2>0
  <2>2. /\ DOMAIN metric' = DOMAIN metric \cup {D} /\ metric'[D] = row
        /\ \A d \in DOMAIN metric : metric'[d] = metric[d]
    BY <2>0, <2>1, <1>13 DEF Put
  <2>3. D \in Nat /\ Day(now) \in Nat /\ Day(now) <= D /\ D <= Day(now) + 1
    BY <2>0, <1>1, <1>2, <1>3, DayOrdered
  <2>4. \A d \in DOMAIN metric : d \in Nat /\ d <= Day(now) /\ Day(now) \in DOMAIN metric
    BY DaysReachToday
  <2>5. DOMAIN metric' = {Day(k[2]) : k \in DOMAIN snapshot'}
    BY <2>0, <1>6, <1>13, <2>2
  <2>6. /\ \A d \in DOMAIN metric : /\ MediansOfPnL'[d] = MediansOfPnL[d]
                                    /\ MediansOfAUM'[d] = MediansOfAUM[d]
        /\ MediansOfPnL'[D] = row.medianUnrealisedPnL /\ MediansOfAUM'[D] = row.medianAUM
    BY <2>2 DEF MediansOfPnL, MediansOfAUM
  <2>7. \A d \in DOMAIN metric : d \in Nat /\ d < D /\ d <= D - 1
    BY <2>0, <2>3, <2>4, <1>13
  <2>8. Window \in Nat /\ Window >= 1 BY PortfolioAssumption
  <2>9. ASSUME NEW d \in DOMAIN metric PROVE DayRowOK(d)'
    <3>1. Since(d)' = Since(d)
      <4>1. ~(D <= d) BY <2>3, <2>7
      <4>. QED  BY <4>1, <2>2 DEF Since
    <3>2. PICK n \in 1..Window :
              /\ Since(d) = (d - n + 1)..d
              /\ LastDays(metric[d].historicalMedianUnrealisedPnL, d, n, MediansOfPnL)
              /\ LastDays(metric[d].historicalMedianAUM, d, n, MediansOfAUM)
      BY DEF PopulationInv, DayRowOK
    <3>3. \A i \in 1..n : d - n + i \in DOMAIN metric
      <4>1. n \in Nat /\ d \in Nat BY <2>7, <2>8
      <4>2. \A i \in 1..n : d - n + i \in (d - n + 1)..d BY ONLY <4>1
      <4>. QED  BY <4>2, <3>2 DEF Since
    <3>4. /\ LastDays(metric[d].historicalMedianUnrealisedPnL, d, n, MediansOfPnL')
          /\ LastDays(metric[d].historicalMedianAUM, d, n, MediansOfAUM')
      BY <2>6, <3>2, <3>3 DEF LastDays
    <3>5. metric[d].totalAgents = Cardinality(AgentsOf(d)) BY DEF PopulationInv, DayRowOK
    <3>. QED  BY <1>4, <2>2, <3>1, <3>2, <3>4, <3>5 DEF DayRowOK
  <2>10. AgentsOf(D)' = due
    <3>1. PICK T : T = TimesOf(D)' OBVIOUS
    <3>2. T = {t}
      <4>1. \A k \in DOMAIN snapshot : Day(k[2]) # D BY <2>0, <1>13 DEF PopulationInv
      <4>2. PICK x \in due : TRUE BY <1>13
      <4>3. <<x, t>> \in DOMAIN snapshot' /\ Day(<<x, t>>[2]) = D BY <2>0, <4>2, <1>1
      <4>4. t \in T BY <4>3, <3>1 DEF TimesOf
      <4>5. ASSUME NEW u \in T PROVE u = t
        <5>1. PICK k \in DOMAIN snapshot' : Day(k[2]) = D /\ u = k[2]
          BY <3>1, <4>5 DEF TimesOf
        <5>2. k \in {<<y, t>> : y \in due} BY <5>1, <4>1, <1>1
        <5>. QED  BY <5>1, <5>2
      <4>. QED  BY <4>4, <4>5
    <3>3. FirstIn(T) = t BY <3>2, <1>1, FirstIsLeast
    <3>4. FirstOfDay(D)' = t
      <4>1. (FirstOfDay(D) = FirstIn(TimesOf(D)))' BY DEF FirstOfDay, FirstIn, TimesOf
      <4>. QED  BY <4>1, <3>1, <3>3
    <3>5. \A x : <<x, t>> \in DOMAIN snapshot' <=> x \in due
      <4>1. ASSUME NEW x, <<x, t>> \in DOMAIN snapshot PROVE FALSE
        <5>1. t <= now BY <4>1, <1>1 DEF LatestOK, Taken
        <5>. QED  BY ONLY <5>1, <1>2, <1>3
      <4>. QED  BY <4>1, <1>1
    <3>. QED  BY <3>4, <3>5, <1>5 DEF AgentsOf
  <2>11. /\ row.totalAgents = Cardinality(due)
         /\ row.historicalMedianUnrealisedPnL =
               updateHistoricalArrays(getPreviousDailyPopulationMetric(D,
                                         "historicalMedianUnrealisedPnL"), row.medianUnrealisedPnL)
         /\ row.historicalMedianAUM =
               updateHistoricalArrays(getPreviousDailyPopulationMetric(D,
                                         "historicalMedianAUM"), row.medianAUM)
    BY <2>0, <2>1, <1>11, MetricRowHistory
  <2>. DEFINE S == {metric'[d].medianUnrealisedPnL : d \in DOMAIN metric'}
                   \cup {metric'[d].medianAUM : d \in DOMAIN metric'}
              before(n, field, medians) ==
                 LET history == getPreviousDailyPopulationMetric(D, field)
                 IN  /\ history \in Seq(S) /\ Len(history) = n
                     /\ \A i \in 1..n : /\ history[i] = medians[D - 1 - n + i]
                                        /\ D - 1 - n + i \in DOMAIN metric
  <2>12. row.medianUnrealisedPnL \in S /\ row.medianAUM \in S BY <2>2
  <2>13. PICK n \in 0..Window :
            /\ Since(D)' = (D - (IF n < Window THEN n + 1 ELSE n) + 1)..D
            /\ before(n, "historicalMedianUnrealisedPnL", MediansOfPnL)
            /\ before(n, "historicalMedianAUM", MediansOfAUM)
    <3>1. CASE DOMAIN metric = {}
      <4>1. /\ getPreviousDailyPopulationMetric(D, "historicalMedianUnrealisedPnL") = <<>>
            /\ getPreviousDailyPopulationMetric(D, "historicalMedianAUM") = <<>>
        BY <3>1 DEF getPreviousDailyPopulationMetric
      <4>2. <<>> \in Seq(S) /\ Len(<<>>) = 0 OBVIOUS
      <4>3. Since(D)' = D..D BY <3>1, <2>2, <2>3, <2>8 DEF Since
      <4>4. 0 < Window /\ D - (0 + 1) + 1 = D /\ 0 \in 0..Window BY <2>3, <2>8
      <4>5. 1..0 = {} OBVIOUS
      <4>. QED  BY <4>1, <4>2, <4>3, <4>4, <4>5
    <3>2. CASE DOMAIN metric # {}
      <4>1. Day(now) \in DOMAIN metric /\ Day(now) = D - 1 BY <3>2, <2>3, <2>4, <2>7
      <4>2. PICK n \in 1..Window :
                /\ Since(D - 1) = (D - 1 - n + 1)..(D - 1)
                /\ LastDays(metric[D - 1].historicalMedianUnrealisedPnL, D - 1, n, MediansOfPnL)
                /\ LastDays(metric[D - 1].historicalMedianAUM, D - 1, n, MediansOfAUM)
        BY <4>1 DEF PopulationInv, DayRowOK
      <4>3. n \in Nat /\ n >= 1 /\ n <= Window BY <2>8
      <4>4. \A i \in 1..n : D - 1 - n + i \in DOMAIN metric
        <5>1. \A i \in 1..n : D - 1 - n + i \in (D - 1 - n + 1)..(D - 1) BY ONLY <4>3, <2>3
        <5>. QED  BY <5>1, <4>2 DEF Since
      <4>5. \A d \in DOMAIN metric : MediansOfPnL[d] \in S /\ MediansOfAUM[d] \in S
        BY <2>2 DEF MediansOfPnL, MediansOfAUM
      <4>6. PICK h, g : /\ h = getPreviousDailyPopulationMetric(D, "historicalMedianUnrealisedPnL")
                        /\ g = getPreviousDailyPopulationMetric(D, "historicalMedianAUM")
        OBVIOUS
      <4>7. /\ h = [i \in 1..n |-> MediansOfPnL[D - 1 - n + i]]
            /\ g = [i \in 1..n |-> MediansOfAUM[D - 1 - n + i]]
        BY <4>1, <4>2, <4>6 DEF getPreviousDailyPopulationMetric, LastDays
      <4>8. h \in Seq(S) /\ g \in Seq(S) /\ Len(h) = n /\ Len(g) = n
        <5>1. \A i \in 1..n : /\ MediansOfPnL[D - 1 - n + i] \in S
                              /\ MediansOfAUM[D - 1 - n + i] \in S
          BY <4>4, <4>5
        <5>2. h \in [1..n -> S] /\ g \in [1..n -> S] BY <5>1, <4>7
        <5>. QED  BY ONLY <5>2, <4>3
      <4>9. \A i \in 1..n : h[i] = MediansOfPnL[D - 1 - n + i] /\ g[i] = MediansOfAUM[D - 1 - n + i]
        BY <4>7
      <4>10. before(n, "historicalMedianUnrealisedPnL", MediansOfPnL)
        BY <4>4, <4>6, <4>8, <4>9
      <4>11. before(n, "historicalMedianAUM", MediansOfAUM)
        BY <4>4, <4>6, <4>8, <4>9
      <4>12. Since(D)' = (D - (IF n < Window THEN n + 1 ELSE n) + 1)..D
        <5>1. PICK X : X = DOMAIN metric OBVIOUS
        <5>2. \A e \in X : e \in Nat /\ e <= D - 1 BY <5>1, <2>7
        <5>3. {e \in X : e <= D - 1 /\ e > D - 1 - Window} = (D - 1 - n + 1)..(D - 1)
          BY <4>2, <5>1 DEF Since
        <5>4. Since(D)' = {e \in X \cup {D} : e <= D /\ e > D - Window}
          BY <2>2, <5>1 DEF Since
        <5>5. \A e \in Int : e \in X /\ e > D - 1 - Window <=> e \in (D - 1 - n + 1)..(D - 1)
          BY ONLY <5>2, <5>3, <2>3, <2>8, <4>3
        <5>6. ASSUME NEW e
              PROVE  e \in X \cup {D} /\ e <= D /\ e > D - Window
                        <=> e \in (D - (IF n < Window THEN n + 1 ELSE n) + 1)..D
          <6>1. CASE e \in Int
            BY ONLY <6>1, <5>2, <5>5, <2>3, <2>8, <4>3
          <6>2. CASE e \notin Int
            BY ONLY <6>2, <5>2, <2>3, <2>8, <4>3
          <6>. QED  BY <6>1, <6>2
        <5>. QED  BY <5>4, <5>6
      <4>13. n \in 0..Window BY <4>3, <2>8
      <4>. QED  BY <4>10, <4>11, <4>12, <4>13
    <3>. QED  BY <3>1, <3>2
  <2>14. PICK k \in 1..Window : k = IF n < Window THEN n + 1 ELSE n
    <3>1. n \in 0..Window OBVIOUS
    <3>. QED  BY ONLY <3>1, <2>8
  <2>15. LastDays(row.historicalMedianUnrealisedPnL, D, k, MediansOfPnL')
    <3>1. PICK h, old, new, m : /\ h = getPreviousDailyPopulationMetric(D, "historicalMedianUnrealisedPnL")
                                /\ old = MediansOfPnL /\ new = MediansOfPnL'
                                /\ m = row.medianUnrealisedPnL
      OBVIOUS
    <3>2. PICK U : U = S OBVIOUS
    <3>3. h \in Seq(U) /\ Len(h) = n /\ m \in U BY <2>12, <2>13, <3>1, <3>2
    <3>4. \A i \in 1..n : h[i] = old[D - 1 - n + i] /\ new[D - 1 - n + i] = old[D - 1 - n + i]
      BY <2>6, <2>13, <3>1
    <3>5. new[D] = m BY <2>6, <3>1
    <3>6. PICK next : next = row.historicalMedianUnrealisedPnL OBVIOUS
    <3>7. next = updateHistoricalArrays(h, m) BY <2>11, <3>1, <3>6
    <3>8. D \in Nat /\ n \in 0..Window /\ h \in Seq(U) /\ Len(h) = n /\ m \in U
      BY <2>3, <3>3
    <3>9. LastDays(next, D, IF n < Window THEN n + 1 ELSE n, new)
      BY ONLY <3>8, <3>4, <3>5, <3>7, WindowMoves
    <3>. QED  BY <2>14, <3>1, <3>6, <3>9
  <2>16. LastDays(row.historicalMedianAUM, D, k, MediansOfAUM')
    <3>1. PICK h, old, new, m : /\ h = getPreviousDailyPopulationMetric(D, "historicalMedianAUM")
                                /\ old = MediansOfAUM /\ new = MediansOfAUM'
                                /\ m = row.medianAUM
      OBVIOUS
    <3>2. PICK U : U = S OBVIOUS
    <3>3. h \in Seq(U) /\ Len(h) = n /\ m \in U BY <2>12, <2>13, <3>1, <3>2
    <3>4. \A i \in 1..n : h[i] = old[D - 1 - n + i] /\ new[D - 1 - n + i] = old[D - 1 - n + i]
      BY <2>6, <2>13, <3>1
    <3>5. new[D] = m BY <2>6, <3>1
    <3>6. PICK next : next = row.historicalMedianAUM OBVIOUS
    <3>7. next = updateHistoricalArrays(h, m) BY <2>11, <3>1, <3>6
    <3>8. D \in Nat /\ n \in 0..Window /\ h \in Seq(U) /\ Len(h) = n /\ m \in U
      BY <2>3, <3>3
    <3>9. LastDays(next, D, IF n < Window THEN n + 1 ELSE n, new)
      BY ONLY <3>8, <3>4, <3>5, <3>7, WindowMoves
    <3>. QED  BY <2>14, <3>1, <3>6, <3>9
  <2>17. DayRowOK(D)'
    <3>1. Since(D)' = (D - k + 1)..D BY <2>13, <2>14
    <3>. QED  BY <2>2, <2>10, <2>11, <2>15, <2>16, <3>1 DEF DayRowOK
  <2>. QED  BY <2>2, <2>5, <2>9, <2>17 DEF PopulationInv
<1>14. due # {} => A # {} BY <1>10
<1>. QED  BY <1>7, <1>8, <1>12, <1>13


-----------------------------------------------------------------------------
(* The inductive invariant. *)

\* The inductive invariant: the rows, the moments of the snapshots, the money and
\* the days of the population.
IInv == TypeOK /\ LatestOK /\ DailyOK /\ MoneyOK /\ PopulationInv

\* The invariant holds of an empty store.
LEMMA InitInvariant == ASSUME Init PROVE IInv
<1>1. TypeOK /\ LatestOK /\ DailyOK BY InitTypes
<1>2. /\ DOMAIN service = {} /\ DOMAIN balance = {} /\ DOMAIN funding = {}
      /\ DOMAIN snapshot = {} /\ DOMAIN metric = {}
  BY DEF Init, NoRows
<1>3. FlowsBooked
  <2>1. ASSUME NEW x \in Safes PROVE Booked(x)
    BY <1>2 DEF FundingOf, LoadOr, Init, Booked, NewFunding
  <2>. QED  BY <2>1 DEF FlowsBooked
<1>4. HoldingsRecorded
  <2>1. ASSUME NEW x \in Safes, NEW token \in {USDC, WETH} PROVE WithinWallet(x, token)
    BY <1>2 DEF Recorded, LoadOr, NewBalance, Init, Tokens, WithinWallet
  <2>. QED  BY <2>1 DEF HoldingsRecorded
<1>5. PopulationInv BY <1>2 DEF PopulationInv
<1>. QED  BY <1>1, <1>3, <1>4, <1>5 DEF IInv, MoneyOK

\* A step of money or positions: nothing of the services and the snapshots changes.
LEMMA RowsStep ==
    ASSUME IInv, UNCHANGED <<now, registration, serviceIndex, service, registry, watched>>,
           UNCHANGED <<snapshot, metric>>, ChainOK', MoneyOK',
           BalancesTyped(balance'), FundingTyped(funding'), position' \in [Safes -> PositionRow],
           DOMAIN portfolio' = DOMAIN service,
           \A y \in DOMAIN service : /\ DOMAIN portfolio'[y] = PFields
                                     /\ Latest(y)' = Latest(y) /\ Latest(y) \in Nat
    PROVE  IInv'
<1>1. TypeOK /\ LatestOK /\ DailyOK /\ PopulationInv BY DEF IInv
<1>2. ServicesOK' BY <1>1 DEF TypeOK, ServicesOK
<1>3. RowsOK' BY DEF RowsOK, BalancesTyped, FundingTyped, Latest
<1>4. SnapshotsKept BY DEF SnapshotsKept
<1>5. LatestOK' /\ DailyOK' BY <1>1, <1>4, KeptStep
<1>6. PopulationInv' BY <1>1, PopulationKept
<1>. QED  BY <1>2, <1>3, <1>5, <1>6 DEF IInv, TypeOK

\* A transfer of a token keeps the invariant.
LEMMA TransferStep ==
    ASSUME IInv, NEW token \in {USDC, WETH}, NEW from \in Accounts, NEW to \in Accounts,
           from # to, handleERC20Transfer(token, from, to, 1)
    PROVE  IInv'
<1>1. TypeOK /\ MoneyOK /\ RowsOK BY DEF IInv, TypeOK
<1>2. /\ ChainOK' /\ MoneyOK' /\ UNCHANGED <<now, services, position>>
      /\ BalancesTyped(balance') /\ FundingTyped(funding')
  BY <1>1, TransferMoney
<1>3. UNCHANGED <<registration, serviceIndex, service, registry, watched>> BY <1>2 DEF services
<1>4. UNCHANGED <<snapshot, metric>> BY DEF handleERC20Transfer
<1>5. /\ DOMAIN portfolio' = DOMAIN service
      /\ \A y \in DOMAIN service : /\ DOMAIN portfolio'[y] = PFields
                                   /\ Latest(y)' = Latest(y) /\ Latest(y) \in Nat
  <2>1. CASE to \in DOMAIN service
    BY <1>1, <2>1, MeasuredPut DEF RowsOK, handleERC20Transfer, calculatePortfolioMetrics,
        ensureAgentPortfolio, LoadOr
  <2>2. CASE to \notin DOMAIN service BY <2>2, <1>1 DEF handleERC20Transfer, RowsOK, Latest
  <2>. QED  BY <2>1, <2>2
<1>6. position' \in [Safes -> PositionRow] BY <1>1, <1>2 DEF RowsOK
<1>. QED  BY <1>2, <1>3, <1>4, <1>5, <1>6, RowsStep

\* ETH that is sent, or carried by an execution, keeps the invariant.
LEMMA EthStep ==
    ASSUME IInv,
           \/ \E from, to \in Accounts : from # to /\ SendETH(from, to, 1)
           \/ \E x \in Safes : handleSafeEthTransfer(x, x, 1)
    PROVE  IInv'
BY SendMoney, SafeEthMoney, RowsStep DEF IInv, TypeOK, services, SendETH, handleSafeEthTransfer,
    RowsOK, Latest

\* A position that is opened, closed or valued anew keeps the invariant.
LEMMA PositionStep ==
    ASSUME IInv, NEW x \in Safes, NEW row \in PositionRow, PositionChanged(x, row) PROVE IInv'
BY MoneyKept, TypedTables, MeasuredPut, RowsStep DEF IInv, TypeOK, PositionChanged, chain,
    services, ChainOK, RowsOK

\* Services change, and nobody's money or snapshots.
LEMMA OperatorsStep ==
    ASSUME IInv, ServicesOK', OnlyOperators,
           UNCHANGED <<now, price, real, early, flow, balance, funding, portfolio>>,
           UNCHANGED <<snapshot, metric, position>>
    PROVE  IInv'
BY KeptStep, MoneyKept, PopulationKept DEF IInv, OnlyOperators, TypeOK, ChainOK, RowsOK,
    SnapshotsKept, Latest

\* A registration keeps the invariant.
LEMMA RegisterStep ==
    ASSUME IInv, NEW id \in Ids, NEW o \in Operators, handleRegisterInstance(id, o) PROVE IInv'
BY RegisterServices, OperatorsStep DEF IInv, TypeOK, handleRegisterInstance

\* A deployment with a known Safe keeps the invariant.
LEMMA RedeployedStep ==
    ASSUME IInv, NEW id \in DOMAIN registration, NEW x \in Safes, Redeployed(id, x),
           UNCHANGED <<now, price, real, flow, balance, funding, snapshot, metric, position>>
    PROVE  IInv'
BY RedeployedServices, OperatorsStep DEF IInv, TypeOK, Redeployed

\* A deployment with a new Safe keeps the invariant: what it held before is `early'.
LEMMA FirstDeployedStep ==
    ASSUME IInv, NEW id \in DOMAIN registration, NEW x \in Safes, FirstDeployed(id, x),
           UNCHANGED <<now, price, real, flow, balance, funding, snapshot, metric, position>>
    PROVE  IInv'
<1>1. TypeOK /\ LatestOK /\ DailyOK /\ MoneyOK /\ PopulationInv BY DEF IInv
<1>2. ChainOK /\ ServicesOK /\ RowsOK BY <1>1 DEF TypeOK
<1>3. /\ ServicesOK' /\ x \notin DOMAIN service /\ DOMAIN service' = DOMAIN service \cup {x}
      /\ \A y \in DOMAIN service : service'[y] = service[y]
      /\ service'[x].createdAt = now
  BY <1>2, FirstServices
<1>4. /\ DOMAIN portfolio' = DOMAIN portfolio \cup {x}
      /\ \A y \in DOMAIN portfolio : portfolio'[y] = portfolio[y]
      /\ DOMAIN portfolio'[x] = PFields /\ portfolio'[x].lastSnapshotTimestamp = 0
  BY <1>2, FirstPortfolio
<1>5. early' = [early EXCEPT ![x] = real[x]] BY DEF FirstDeployed
<1>6. ChainOK' BY <1>2, <1>5 DEF ChainOK
<1>7. RowsOK' BY <1>2, <1>3, <1>4 DEF RowsOK
<1>8. \A t : ~Taken(x, t) BY <1>1, <1>3 DEF LatestOK, Taken
<1>9. \A y \in DOMAIN service : Latest(y)' = Latest(y)
  BY <1>2, <1>4 DEF Latest, RowsOK
<1>10. now \in Nat /\ now >= 1 /\ now \in 1..now BY <1>2 DEF ChainOK
<1>11. LatestOK'
  <2>1. ASSUME NEW y \in DOMAIN service'
        PROVE  /\ service'[y].createdAt \in 1..now
               /\ \A t \in Nat : Taken(y, t) => t > service'[y].createdAt /\ t <= now /\ t <= Latest(y)'
               /\ Latest(y)' # 0 => Taken(y, Latest(y)')
    <3>1. CASE y = x BY <3>1, <1>4, <1>3, <1>8, <1>10 DEF Latest
    <3>2. CASE y # x BY <3>2, <1>3, <1>9, <1>1 DEF LatestOK
    <3>. QED  BY <3>1, <3>2
  <2>2. \A k \in DOMAIN snapshot : k \in (DOMAIN service') \X Nat
    BY <1>1, <1>3 DEF LatestOK
  <2>. QED  BY <2>1, <2>2 DEF LatestOK, Taken
<1>12. DailyOK'
  <2>1. ASSUME NEW y \in DOMAIN service'
        PROVE  /\ \A t, u \in Nat : Taken(y, t) /\ Taken(y, u) /\ Day(t) = Day(u) => t = u
               /\ now > service'[y].createdAt =>
                     \A d \in Day(service'[y].createdAt + 1)..Day(now) :
                        \E t \in Nat : Taken(y, t) /\ Day(t) = d
    <3>1. CASE y = x BY <3>1, <1>3, <1>8, <1>10
    <3>2. CASE y # x BY <3>2, <1>3, <1>1 DEF DailyOK
    <3>. QED  BY <3>1, <3>2
  <2>. QED  BY <2>1 DEF DailyOK, Taken
<1>13. FlowsBooked' BY <1>1 DEF MoneyOK, FlowsBooked, Booked, FundingOf
<1>14. ASSUME NEW y \in Safes, NEW token \in {USDC, WETH} PROVE WithinWallet(y, token)'
  <2>1. WithinWallet(y, token) BY <1>1 DEF MoneyOK, HoldingsRecorded
  <2>2. CASE y = x
    <3>1. early'[y][token] = real[y][token] BY <2>2, <1>2, <1>5 DEF ChainOK
    <3>2. real[y][token] \in Nat BY <1>2 DEF ChainOK, Tokens
    <3>3. Recorded(balance, y, token) \in Nat BY <1>1, TypedTables, RecordedNat
    <3>4. Recorded(balance, y, token) >= real[y][token] - early'[y][token]
      BY ONLY <3>1, <3>2, <3>3
    <3>. QED  BY <2>1, <3>4 DEF WithinWallet
  <2>3. CASE y # x BY <2>3, <1>2, <1>5, <1>3, <2>1 DEF ChainOK, WithinWallet
  <2>. QED  BY <2>2, <2>3
<1>15. MoneyOK' BY <1>13, <1>14 DEF MoneyOK, HoldingsRecorded
<1>16. PopulationInv' BY <1>1, PopulationKept
<1>. QED  BY <1>3, <1>6, <1>7, <1>11, <1>12, <1>15, <1>16 DEF IInv, TypeOK

\* Nothing of the store or the money changes.
LEMMA StoreKept ==
    ASSUME IInv, UNCHANGED <<now, price, real, early, flow>>,
           UNCHANGED <<registration, serviceIndex, service, registry, watched>>,
           UNCHANGED <<balance, funding, portfolio, snapshot, metric, position>>
    PROVE  IInv'
BY MoneyKept, TypedTables, RowsStep DEF IInv, TypeOK, ChainOK, RowsOK, Latest

\* Every deployment keeps the invariant.
LEMMA CreateStep ==
    ASSUME IInv, NEW id \in Ids, NEW x \in Safes, handleCreateMultisigWithAgents(id, x) PROVE IInv'
<1>1. UNCHANGED <<now, price, real, flow, balance, funding, snapshot, metric, position>>
  BY DEF handleCreateMultisigWithAgents
<1>2. CASE UNCHANGED <<early, services, portfolio>> BY <1>2, <1>1, StoreKept DEF services
<1>3. CASE id \in DOMAIN registration /\ Redeployed(id, x) BY <1>1, <1>3, RedeployedStep
<1>4. CASE id \in DOMAIN registration /\ FirstDeployed(id, x) BY <1>1, <1>4, FirstDeployedStep
<1>. QED  BY <1>2, <1>3, <1>4 DEF handleCreateMultisigWithAgents

\* A block keeps the invariant.
LEMMA BlockStep == ASSUME IInv, handleBlock PROVE IInv'
BY BlockTypes, BlockDaily, BlockPopulation DEF IInv

\* Every step preserves the invariant.
LEMMA NextInvariant == ASSUME IInv, [Next]_vars PROVE IInv'
<1>1. CASE handleBlock BY <1>1, BlockStep
<1>2. ASSUME NEW id \in Ids, NEW o \in Operators, handleRegisterInstance(id, o) PROVE IInv'
  BY <1>2, RegisterStep
<1>3. ASSUME NEW id \in Ids, NEW x \in Safes, handleCreateMultisigWithAgents(id, x) PROVE IInv'
  BY <1>3, CreateStep
<1>4. ASSUME NEW id \in Ids, Terminate(id) PROVE IInv' BY <1>4, StoreKept DEF Terminate, services
<1>5. ASSUME NEW from \in Accounts, NEW to \in Accounts, NEW token \in {USDC, WETH}, from # to,
             handleERC20Transfer(token, from, to, 1)
      PROVE  IInv'
  BY <1>5, TransferStep
<1>6. ASSUME NEW from \in Accounts, NEW to \in Accounts, from # to, SendETH(from, to, 1) PROVE IInv'
  BY <1>6, EthStep
<1>7. ASSUME NEW x \in Safes, handleSafeEthTransfer(x, x, 1) PROVE IInv'
  BY <1>7, EthStep
<1>8. ASSUME NEW x \in Safes PROVE position[x] \in PositionRow /\ price \in Nat
  BY PortfolioAssumption DEF IInv, TypeOK, RowsOK, ChainOK
<1>9. ASSUME NEW x \in Safes, PositionChanged(x, Opened(position[x])) PROVE IInv'
  BY <1>8, <1>9, PositionStep DEF PositionRow, Opened
<1>10. ASSUME NEW x \in Safes, position[x].active > 0, PositionChanged(x, Closed(position[x]))
       PROVE  IInv'
  BY <1>8, <1>10, PositionStep DEF PositionRow, Closed
<1>11. CASE UNCHANGED vars
  BY <1>11, StoreKept DEF vars, chain, services
<1>. QED  BY <1>1, <1>2, <1>3, <1>4, <1>5, <1>6, <1>7, <1>9, <1>10, <1>11 DEF Next

\* The inductive invariant holds in every state.
THEOREM Invariance == Spec => []IInv
<1>1. Init => IInv BY InitInvariant
<1>2. IInv /\ [Next]_vars => IInv' BY NextInvariant
<1>. QED  BY <1>1, <1>2, PTL DEF Spec

\* Every Safe has one snapshot for every day from the first block after its creation on
\* (checkServicesForSnapshot, isSnapshotDue).
THEOREM EveryDaySnapshotted == Spec => []SnapshottedDaily
<1>1. IInv => SnapshottedDaily BY DailyImplies DEF IInv
<1>. QED  BY <1>1, Invariance, PTL

\* Every day with snapshots has one population row, of the agents of the day's first
\* snapshots, with the medians of the days of the window, none missing
\* (updateDailyPopulationMetricEntityWithEthAdjusted, updateHistoricalArrays).
THEOREM EveryDayHasItsRow == Spec => []PopulationOfDay
<1>1. IInv => PopulationOfDay BY PopulationImplies DEF IInv
<1>. QED  BY <1>1, Invariance, PTL

\* The booked funding is what moved between a Safe and its operator or EOAs, ETH returned
\* counting when it reaches a watched Safe (updateFundingBalance, updateWithdrawalBalance).
THEOREM FundingAlwaysMirrorsChain == Spec => []FundingMirrorsChain
<1>1. IInv => FundingMirrorsChain BY MoneyImplies DEF IInv
<1>. QED  BY <1>1, Invariance, PTL

\* The recorded balance of a token is never more than the Safe holds, nor less by more than
\* it held before its service was made (updateTokenBalance).
THEOREM BalancesAlwaysMirrorChain == Spec => []BalancesMirrorChain
<1>1. IInv => BalancesMirrorChain BY MoneyImplies DEF IInv
<1>. QED  BY <1>1, Invariance, PTL

\* Both at once: the money booked is the money moved.
THEOREM MoneyAlwaysMirrorsChain == Spec => []MoneyMirrorsChain
<1>1. FundingMirrorsChain /\ BalancesMirrorChain <=> MoneyMirrorsChain BY DEF MoneyMirrorsChain
<1>. QED  BY <1>1, FundingAlwaysMirrorsChain, BalancesAlwaysMirrorChain, PTL

-----------------------------------------------------------------------------
(* What a snapshot shows. *)

\* The worth of what is recorded of x's tokens, at the price p of ETH.
WorthAt(x, p) ==
    [token \in Tokens |-> LoadOr(balance, <<x, token>>, NewBalance).balance * PriceOf(token, p)]

\* The worth of the tokens is an integer.
LEMMA WorthIsInt ==
    ASSUME TypeOK, NEW x, NEW p \in Nat PROVE SumFunction(WorthAt(x, p)) \in Int
<1>1. PICK f : f = WorthAt(x, p) OBVIOUS
<1>2. DOMAIN f = Tokens BY <1>1 DEF WorthAt
<1>3. \A token \in Tokens : f[token] \in Int
  <2>1. ASSUME NEW token \in Tokens PROVE f[token] \in Int
    BY TypedTables, RecordedNat, <1>1 DEF PriceOf, WorthAt, Recorded
  <2>. QED  BY <2>1
<1>4. IsFiniteSet(Tokens)
  <2>1. Tokens = ({USDC} \cup {WETH}) \cup {ETH} BY DEF Tokens
  <2>2. IsFiniteSet({USDC}) BY FS_Singleton
  <2>3. IsFiniteSet({USDC} \cup {WETH}) BY <2>2, FS_AddElement
  <2>4. IsFiniteSet(({USDC} \cup {WETH}) \cup {ETH}) BY <2>3, FS_AddElement
  <2>. QED  BY <2>1, <2>4
<1>5. SumFunctionOnSet(f, Tokens) \in Int BY <1>3, <1>4, SumType
<1>. QED  BY <1>1, <1>2, <1>5 DEF SumFunction

\* The snapshots of a block, from the rows as they were before it.
LEMMA SnapshotTaken ==
    ASSUME IInv, handleBlock, NEW k \in (DOMAIN snapshot') \ DOMAIN snapshot
    PROVE  LET x == k[1]
           IN  /\ x \in Safes
               /\ snapshot'[k].initialValue = FundingOf(x).netUsd
               /\ snapshot'[k].finalValue = position[x].active * price'
                     + SumFunction(WorthAt(x, price')) + FundingOf(x).totalWithdrawnUsd
<1>0. TypeOK BY DEF IInv
<1>1. PICK t, due, p : t = now + 1 /\ due = DueAt(t) /\ p = price' OBVIOUS
<1>2. /\ now' = t /\ p \in Nat /\ funding' = funding
      /\ due = {x \in DOMAIN service : Latest(x) = 0 \/ Day(t) > Day(Latest(x))}
      /\ DOMAIN snapshot' = DOMAIN snapshot \cup {<<x, t>> : x \in due}
      /\ DOMAIN balance' = DOMAIN balance
      /\ \A j \in DOMAIN balance :
            j[1] \in due => balance'[j].balanceUSD = balance[j].balance * PriceOf(j[2], p)
      /\ \A x \in due : position'[x].usd = position[x].active * p
  BY <1>0, <1>1, BlockShape
<1>3. PICK x \in due : k = <<x, t>> BY <1>2
<1>4. k[1] = x /\ k[2] = t /\ x \in DOMAIN service /\ x \in Safes
  BY <1>0, <1>2, <1>3 DEF TypeOK, ServicesOK
<1>5. DOMAIN portfolio[x] = PFields BY <1>0, <1>4 DEF TypeOK, RowsOK
<1>6. PICK row : row = Measured(portfolio[x], x, balance', position') OBVIOUS
<1>7. snapshot'[k] = createPortfolioSnapshot(row)
  BY <1>1, <1>2, <1>3, <1>4, <1>6 DEF handleBlock, checkServicesForSnapshot, DueAt
<1>8. PICK total : total = calculateUninvestedValue(balance', x) OBVIOUS
<1>9. /\ row.initialValue = FundingOf(x).netUsd
      /\ row.totalWithdrawnUsd = FundingOf(x).totalWithdrawnUsd
      /\ row.uninvestedValue = total
      /\ row.positionsValue = position[x].active * p
  BY <1>5, <1>6, MeasuredKeeps, <1>2, <1>3, <1>8 DEF FundingOf
<1>10. total = SumFunction(WorthAt(x, p))
  <2>1. ASSUME NEW token \in Tokens
        PROVE  LoadOr(balance', <<x, token>>, NewBalance).balanceUSD =
                  LoadOr(balance, <<x, token>>, NewBalance).balance * PriceOf(token, p)
    <3>1. CASE <<x, token>> \in DOMAIN balance BY <1>2, <1>3, <3>1 DEF LoadOr
    <3>2. CASE <<x, token>> \notin DOMAIN balance BY <1>2, <3>2 DEF PriceOf, LoadOr, NewBalance
    <3>. QED  BY <3>1, <3>2
  <2>2. [token \in Tokens |-> LoadOr(balance', <<x, token>>, NewBalance).balanceUSD] = WorthAt(x, p)
    BY <2>1 DEF WorthAt
  <2>3. total = SumFunction([token \in Tokens |-> LoadOr(balance', <<x, token>>, NewBalance).balanceUSD])
    BY <1>8 DEF calculateUninvestedValue, SumOver
  <2>. QED  BY <2>2, <2>3
<1>11. /\ snapshot'[k].initialValue = row.initialValue
       /\ snapshot'[k].finalValue = row.positionsValue + row.uninvestedValue + row.totalWithdrawnUsd
  BY <1>7 DEF createPortfolioSnapshot, FinalValue
<1>. QED  BY <1>1, <1>4, <1>9, <1>10, <1>11

\* No step but a block's takes a snapshot.
LEMMA OnlyBlocksSnapshot ==
    ASSUME [Next]_vars PROVE handleBlock \/ snapshot' = snapshot
BY DEF Next, vars, handleRegisterInstance, handleCreateMultisigWithAgents, Terminate,
       handleERC20Transfer, SendETH, handleSafeEthTransfer, PositionChanged

\* What a snapshot shows when it is taken, from the invariant before the step.
LEMMA ShownStep == ASSUME IInv, [Next]_vars PROVE ShownAtItsMoment
<1>. SUFFICES ASSUME NEW k \in (DOMAIN snapshot') \ DOMAIN snapshot
              PROVE  LET x == k[1]
                         usd(token) == LoadOr(balance, <<x, token>>, NewBalance).balance
                                          * PriceOf(token, price')
                     IN  /\ snapshot'[k].initialValue = flow[x].deposited - flow[x].seen
                         /\ snapshot'[k].finalValue =
                               SumOver(Tokens, usd) + position[x].active * price' + flow[x].withdrawn
  BY DEF ShownAtItsMoment
<1>1. handleBlock BY OnlyBlocksSnapshot
<1>2. PICK x : x = k[1] OBVIOUS
<1>3. /\ x \in Safes
      /\ snapshot'[k].initialValue = FundingOf(x).netUsd
      /\ snapshot'[k].finalValue = position[x].active * price'
            + SumFunction(WorthAt(x, price')) + FundingOf(x).totalWithdrawnUsd
  BY <1>1, <1>2, SnapshotTaken
<1>4. /\ FundingOf(x).netUsd = flow[x].deposited - flow[x].seen
      /\ FundingOf(x).totalWithdrawnUsd = flow[x].withdrawn
  BY <1>3 DEF IInv, MoneyOK, FlowsBooked, Booked
<1>5. price' \in Nat BY <1>1, PortfolioAssumption DEF handleBlock
<1>6. PICK a, b, c : /\ a = position[x].active * price' /\ b = SumFunction(WorthAt(x, price'))
                     /\ c = flow[x].withdrawn
  OBVIOUS
<1>7. a \in Int BY <1>3, <1>5, <1>6 DEF IInv, TypeOK, RowsOK, PositionRow
<1>8. b \in Int BY <1>5, WorthIsInt, <1>6 DEF IInv
<1>9. c \in Int BY <1>3, <1>6 DEF IInv, TypeOK, ChainOK, FlowFields
<1>10. a + b + c = b + a + c BY ONLY <1>7, <1>8, <1>9
<1>11. b = SumFunction([token \in Tokens |->
               LoadOr(balance, <<x, token>>, NewBalance).balance * PriceOf(token, price')])
  BY <1>6 DEF WorthAt
<1>. QED  BY <1>2, <1>3, <1>4, <1>6, <1>10, <1>11 DEF SumOver

\* Every snapshot shows the balances, the positions and the funding of its moment.
THEOREM EverySnapshotShowsItsMoment == Spec => SnapshotsShowTheirMoment
<1>1. IInv /\ [Next]_vars => ShownAtItsMoment BY ShownStep
<1>. QED  BY <1>1, Invariance, PTL DEF Spec, SnapshotsShowTheirMoment
-----------------------------------------------------------------------------
(* babydegen: prices.                                                      *)

CONSTANTS Listed, Unlisted, Critical, Bounds, Sources, EthFeed, Feeds, TpPools, FeedAnswers,
          PoolAnswers, CacheDuration, Staleness, MinConfidence, FallbackConfidence, ReferenceFactor,
          DefaultEth, TpMaxNow, MaxReads, TpNone
VARIABLES tpNow, answer, tpToken, source, priceUpdate, returned, reads

Tp == INSTANCE TokenPrices WITH
    Pools <- TpPools, MaxNow <- TpMaxNow, None <- TpNone, now <- tpNow, token <- tpToken

\* The sums of TokenPrices are the library's.
LEMMA TpSum == ASSUME NEW f PROVE Tp!SumFunction(f) = SumFunction(f)
<1>1. ASSUME NEW g, NEW S PROVE Tp!SumFunctionOnSet(g, S) = (CHOOSE h : AddsUp(g, S, h))[S]
  BY DEF Tp!SumFunctionOnSet, Tp!FoldFunctionOnSet, Tp!MapThenFoldSet, AddsUp, FirstOf
<1>. QED  BY <1>1, SumIsFold DEF Tp!SumFunction, SumFunction

\* Every tick has its answers.
Answered == answer \in [1..TpMaxNow -> Tp!Answers]

\* What one source says is a price and a confidence.
LEMMA OneSource ==
    ASSUME Tp!PricesAssumption, Answered, NEW k \in Listed, NEW t \in 1..TpMaxNow,
           NEW i \in DOMAIN Sources[k]
    PROVE  /\ Tp!getPriceFromSource(k, Sources[k][i], t).price \in Nat
           /\ Tp!getPriceFromSource(k, Sources[k][i], t).confidence \in Nat
<1>1. PICK s : s = Sources[k][i] OBVIOUS
<1>2. /\ s.address \in IF s.type = "velodrome_v2" THEN TpPools ELSE Feeds
      /\ s.confidence \in Nat
  <2>1. PICK R : R = [address : Feeds \cup TpPools, type : STRING, pair : STRING, confidence : Nat]
    OBVIOUS
  <2>2. PICK all : all = Sources[k] OBVIOUS
  <2>3. all \in Seq(R) /\ i \in DOMAIN all BY <2>1, <2>2 DEF Tp!PricesAssumption
  <2>4. all[i] \in R BY ONLY <2>3
  <2>. QED  BY <1>1, <2>1, <2>2, <2>4 DEF Tp!PricesAssumption
<1>3. /\ \A x \in Feeds : answer[t][x] \in FeedAnswers
      /\ \A x \in TpPools : answer[t][x] \in PoolAnswers
  BY DEF Answered, Tp!Answers
<1>4. ASSUME NEW feed \in Feeds PROVE Tp!getChainlinkPrice(feed, t) \in Nat
  <2>1. PICK round : round = answer[t][feed] OBVIOUS
  <2>2. round \in FeedAnswers BY <1>3, <2>1
  <2>3. round # TpNone => round.price \in Int BY <2>2 DEF Tp!PricesAssumption
  <2>4. Tp!getChainlinkPrice(feed, t)
           = IF round = TpNone \/ round.age > Staleness \/ round.price <= 0 THEN 0 ELSE round.price
    BY <2>1 DEF Tp!getChainlinkPrice
  <2>. QED  BY <2>3, <2>4
<1>5. ASSUME NEW pool \in TpPools, NEW pair PROVE Tp!getVelodromeV2Price(pool, pair, t) \in Nat
  <2>1. PICK other : other = Tp!getPairTokenPrice(pair, t) OBVIOUS
  <2>2. other \in Nat BY <1>4, <2>1 DEF Tp!PricesAssumption, Tp!getPairTokenPrice
  <2>3. PICK r : r = answer[t][pool] OBVIOUS
  <2>4. r # TpNone => r.own \in Nat /\ r.other \in Nat BY <1>3, <2>3 DEF Tp!PricesAssumption
  <2>5. Tp!getVelodromeV2Price(pool, pair, t)
           = IF r = TpNone \/ r.own = 0 THEN 0 ELSE (r.other * other) \div r.own
    BY <2>1, <2>3 DEF Tp!getVelodromeV2Price
  <2>6. CASE r = TpNone \/ r.own = 0 BY <2>5, <2>6
  <2>7. CASE ~(r = TpNone \/ r.own = 0) BY <2>2, <2>4, <2>7, <2>5
  <2>. QED  BY <2>6, <2>7
<1>6. PICK quote : quote = IF s.type = "velodrome_v2" THEN Tp!getVelodromeV2Price(s.address, s.pair, t)
                           ELSE Tp!getChainlinkPrice(s.address, t)
  OBVIOUS
<1>7. quote \in Nat BY <1>2, <1>4, <1>5, <1>6
<1>8. PICK confidence : confidence = IF s.type = "chainlink_reference"
                                     THEN (s.confidence * ReferenceFactor) \div 100 ELSE s.confidence
  OBVIOUS
<1>9. confidence \in Nat
  <2>1. ReferenceFactor \in Nat BY DEF Tp!PricesAssumption
  <2>2. s.confidence * ReferenceFactor \in Nat BY <1>2, <2>1
  <2>3. (s.confidence * ReferenceFactor) \div 100 \in Nat BY ONLY <2>2
  <2>. QED  BY <1>2, <1>8, <2>3
<1>10. Tp!getPriceFromSource(k, s, t)
          = IF quote > 0 /\ Tp!isValidPriceResult(k, quote)
            THEN [price |-> quote, confidence |-> confidence] ELSE [price |-> 0, confidence |-> 0]
  BY <1>6, <1>8 DEF Tp!getPriceFromSource
<1>. QED  BY <1>1, <1>7, <1>9, <1>10

\* The sources of a token are finitely many.
LEMMA FiniteSources ==
    ASSUME Tp!PricesAssumption, NEW k \in Listed PROVE IsFiniteSet(DOMAIN Sources[k])
<1>1. PICK s : s = Sources[k] OBVIOUS
<1>2. s \in Seq([address : Feeds \cup TpPools, type : STRING, pair : STRING, confidence : Nat])
  BY <1>1 DEF Tp!PricesAssumption
<1>3. DOMAIN s = 1..Len(s) /\ Len(s) \in Nat BY <1>2
<1>4. IsFiniteSet(1..Len(s)) BY <1>3, FS_Interval
<1>. QED  BY <1>1, <1>3, <1>4

\* A price lies between prices token k's sources gave at tick t.
Between(k, t, p) == \E a, b \in Tp!Believed(k, t) : a <= p /\ p <= b

\* The price of all sources is none, with no confidence, or one between what they say.
LEMMA AllSources ==
    ASSUME Tp!PricesAssumption, Answered, NEW k \in Listed, NEW t \in 1..TpMaxNow
    PROVE  LET result == Tp!getPriceFromSources(k, t)
           IN  /\ result.price \in Nat /\ result.confidence \in Nat
               /\ \/ result.price = 0 /\ result.confidence = 0
                  \/ result.price > 0 /\ Between(k, t, result.price)
<1>1. PICK D : D = DOMAIN Sources[k] OBVIOUS
<1>2. PICK p : p = [i \in D |-> Tp!getPriceFromSource(k, Sources[k][i], t).price] OBVIOUS
<1>3. PICK w : w = [i \in D |-> Tp!getPriceFromSource(k, Sources[k][i], t).confidence] OBVIOUS
<1>4. IsFiniteSet(D) /\ \A i \in D : p[i] \in Nat /\ w[i] \in Nat
  BY <1>1, <1>2, <1>3, OneSource, FiniteSources
<1>5. PICK V : V = {i \in D : p[i] > 0} OBVIOUS
<1>6. IsFiniteSet(V) /\ V \subseteq D BY <1>4, <1>5, FS_Subset
<1>7. PICK fp, fw, fq : /\ fp = [i \in V |-> p[i]] /\ fw = [i \in V |-> w[i]]
                        /\ fq = [i \in V |-> p[i] * w[i]]
  OBVIOUS
<1>8. PICK n : n = Cardinality(V) OBVIOUS
<1>9. PICK total : total = SumFunction(fw) OBVIOUS
<1>10. Tp!getPriceFromSources(k, t) =
          IF V = {} THEN [price |-> 0, confidence |-> 0]
          ELSE IF n = 1 THEN Tp!getPriceFromSource(k, Sources[k][CHOOSE i \in V : TRUE], t)
          ELSE IF total = 0 THEN [price |-> SumFunction(fp) \div n, confidence |-> 50]
          ELSE [price |-> SumFunction(fq) \div total, confidence |-> total \div n]
  <2>1. {i \in DOMAIN Sources[k] : Tp!getPriceFromSource(k, Sources[k][i], t).price > 0} = V
    BY <1>1, <1>2, <1>5
  <2>2. Tp!Cardinality(V) = n BY <1>8 DEF Tp!Cardinality, Cardinality
  <2>3. \A i \in V : /\ Tp!getPriceFromSource(k, Sources[k][i], t).price = p[i]
                     /\ Tp!getPriceFromSource(k, Sources[k][i], t).confidence = w[i]
    BY <1>2, <1>3, <1>6
  <2>4. /\ [i \in V |-> Tp!getPriceFromSource(k, Sources[k][i], t).confidence] = fw
        /\ [i \in V |-> Tp!getPriceFromSource(k, Sources[k][i], t).price] = fp
        /\ [i \in V |-> Tp!getPriceFromSource(k, Sources[k][i], t).price
                           * Tp!getPriceFromSource(k, Sources[k][i], t).confidence] = fq
    BY <1>7, <2>3
  <2>5. Tp!getPriceFromSources(k, t) =
           LET result(i) == Tp!getPriceFromSource(k, Sources[k][i], t)
               valid == {i \in DOMAIN Sources[k] : result(i).price > 0}
               weighted == Tp!SumFunction([i \in valid |-> result(i).price * result(i).confidence])
               prices == Tp!SumFunction([i \in valid |-> result(i).price])
               sum == Tp!SumFunction([i \in valid |-> result(i).confidence])
           IN  IF valid = {} THEN [price |-> 0, confidence |-> 0]
               ELSE IF Tp!Cardinality(valid) = 1 THEN result(CHOOSE i \in valid : TRUE)
               ELSE IF sum = 0 THEN [price |-> prices \div Tp!Cardinality(valid), confidence |-> 50]
               ELSE [price |-> weighted \div sum, confidence |-> sum \div Tp!Cardinality(valid)]
    BY DEF Tp!getPriceFromSources, Tp!SumOver
  <2>6. Tp!getPriceFromSources(k, t) =
           LET result(i) == Tp!getPriceFromSource(k, Sources[k][i], t)
               weighted == Tp!SumFunction([i \in V |-> result(i).price * result(i).confidence])
               prices == Tp!SumFunction([i \in V |-> result(i).price])
               sum == Tp!SumFunction([i \in V |-> result(i).confidence])
           IN  IF V = {} THEN [price |-> 0, confidence |-> 0]
               ELSE IF n = 1 THEN result(CHOOSE i \in V : TRUE)
               ELSE IF sum = 0 THEN [price |-> prices \div n, confidence |-> 50]
               ELSE [price |-> weighted \div sum, confidence |-> sum \div n]
    BY ONLY <2>1, <2>2, <2>5
  <2>. QED  BY ONLY <1>9, <2>4, <2>6, TpSum
<1>11. CASE V = {} BY <1>10, <1>11
<1>12. CASE V # {}
  <2>1. PICK P : P = {p[i] : i \in V} OBVIOUS
  <2>2. P \subseteq Tp!Believed(k, t)
    <3>1. ASSUME NEW i \in V PROVE p[i] \in Tp!Believed(k, t)
      BY <1>1, <1>4, <1>5, <1>6, <1>2 DEF Tp!Believed
    <3>. QED  BY <2>1, <3>1
  <2>3. IsFiniteSet(P)
    <3>1. fp \in Surjection(V, P) BY <1>7, <2>1 DEF Surjection
    <3>. QED  BY <1>6, <3>1, FS_Surjection
  <2>4. P # {} /\ P \subseteq Int BY <1>4, <1>5, <1>12, <2>1
  <2>5. PICK lo \in P : \A y \in P : lo <= y BY ONLY <2>3, <2>4, FiniteIntExtremes
  <2>6. PICK hi \in P : \A y \in P : y <= hi BY ONLY <2>3, <2>4, FiniteIntExtremes
  <2>7. lo \in Int /\ hi \in Int /\ lo > 0 BY <1>4, <1>5, <2>1, <2>5, <2>6
  <2>8. \A i \in V : p[i] \in Int /\ w[i] \in Nat /\ lo <= p[i] /\ p[i] <= hi
    BY <1>4, <1>6, <2>1, <2>5, <2>6
  <2>9. n \in Nat /\ n > 0
    BY <1>6, <1>8, <1>12, FS_CardinalityType, FS_EmptySet
  <2>10. total \in Nat /\ SumFunction(fq) \in Int
         /\ lo * total <= SumFunction(fq) /\ SumFunction(fq) <= hi * total
    <3>1. \A i \in V : /\ fp[i] \in Int /\ fw[i] \in Nat /\ lo <= fp[i] /\ fp[i] <= hi
                       /\ fq[i] = fp[i] * fw[i]
      BY <1>7, <2>8
    <3>2. /\ lo * SumFunctionOnSet(fw, V) <= SumFunctionOnSet(fq, V)
          /\ SumFunctionOnSet(fq, V) <= hi * SumFunctionOnSet(fw, V)
          /\ SumFunctionOnSet(fw, V) \in Nat /\ SumFunctionOnSet(fq, V) \in Int
      BY ONLY <1>6, <2>7, <3>1, WeightedBetween
    <3>3. DOMAIN fw = V /\ DOMAIN fq = V BY <1>7
    <3>. QED  BY <1>9, <3>2, <3>3 DEF SumFunction
  <2>11. CASE n = 1
    <3>1. PICK i : i = CHOOSE j \in V : TRUE OBVIOUS
    <3>2. i \in V BY <1>12, <3>1
    <3>3. Tp!getPriceFromSources(k, t) = Tp!getPriceFromSource(k, Sources[k][i], t)
      BY <1>10, <1>12, <2>11, <3>1
    <3>4. Tp!getPriceFromSources(k, t).price = p[i] /\ Tp!getPriceFromSources(k, t).confidence = w[i]
      BY <1>2, <1>3, <1>6, <3>2, <3>3
    <3>5. p[i] \in P BY <2>1, <3>2
    <3>6. Between(k, t, p[i]) BY <2>2, <2>5, <2>6, <3>5 DEF Between
    <3>. QED  BY <1>4, <1>5, <1>6, <3>2, <3>4, <3>6
  <2>12. CASE n # 1 /\ total = 0
    <3>1. PICK one : one = [i \in V |-> 1] OBVIOUS
    <3>2. \A i \in V : one[i] = 1 BY <3>1
    <3>3. SumFunctionOnSet(one, V) = n BY <1>6, <1>8, <3>2, SumOfOnes
    <3>4. \A i \in V : /\ fp[i] \in Int /\ one[i] \in Nat /\ lo <= fp[i] /\ fp[i] <= hi
                       /\ fp[i] = fp[i] * one[i]
      BY <1>7, <2>8, <3>1
    <3>5. /\ lo * SumFunctionOnSet(one, V) <= SumFunctionOnSet(fp, V)
          /\ SumFunctionOnSet(fp, V) <= hi * SumFunctionOnSet(one, V)
          /\ SumFunctionOnSet(fp, V) \in Int
      BY ONLY <1>6, <2>7, <3>4, WeightedBetween
    <3>6. PICK Q : Q = SumFunction(fp) OBVIOUS
    <3>7. Q = SumFunctionOnSet(fp, V) BY <1>7, <3>6 DEF SumFunction
    <3>8. Q \in Int /\ lo * n <= Q /\ Q <= hi * n BY <3>3, <3>5, <3>7
    <3>9. Q \div n \in Int /\ lo <= Q \div n /\ Q \div n <= hi
      BY ONLY <2>7, <2>9, <3>8, QuotientBetween
    <3>10. /\ Tp!getPriceFromSources(k, t).price = Q \div n
           /\ Tp!getPriceFromSources(k, t).confidence = 50
      BY <1>10, <1>12, <2>12, <3>6
    <3>11. Between(k, t, Q \div n) BY <2>2, <3>9 DEF Between
    <3>12. Q \div n \in Nat /\ Q \div n > 0 BY <2>7, <3>9
    <3>. QED  BY <3>10, <3>11, <3>12
  <2>13. CASE n # 1 /\ total # 0
    <3>1. PICK Q : Q = SumFunction(fq) OBVIOUS
    <3>2. Q \in Int /\ total \in Nat /\ total > 0 /\ lo * total <= Q /\ Q <= hi * total
      BY <2>10, <2>13, <3>1
    <3>3. Q \div total \in Int /\ lo <= Q \div total /\ Q \div total <= hi
      BY ONLY <2>7, <3>2, QuotientBetween
    <3>4. total \div n \in Nat BY ONLY <2>9, <3>2
    <3>5. /\ Tp!getPriceFromSources(k, t).price = Q \div total
          /\ Tp!getPriceFromSources(k, t).confidence = total \div n
      BY <1>10, <1>12, <2>13, <3>1
    <3>6. Between(k, t, Q \div total) BY <2>2, <3>3 DEF Between
    <3>7. Q \div total \in Nat /\ Q \div total > 0 BY <2>7, <3>3
    <3>. QED  BY <3>4, <3>5, <3>6, <3>7
  <2>. QED  BY <2>11, <2>12, <2>13
<1>. QED  BY <1>11, <1>12

\* Nothing reliable could be had for token k at tick t.
Unreliable(k, t) == Tp!getPriceFromSources(k, t).confidence <= MinConfidence

\* What the sources say of a tick does not change.
LEMMA AnswersKept ==
    ASSUME answer' = answer, NEW k, NEW t
    PROVE  /\ Tp!getPriceFromSources(k, t)' = Tp!getPriceFromSources(k, t)
           /\ Tp!Believed(k, t)' = Tp!Believed(k, t)
<1>1. ASSUME NEW feed PROVE Tp!getChainlinkPrice(feed, t)' = Tp!getChainlinkPrice(feed, t)
  BY DEF Tp!getChainlinkPrice
<1>2. ASSUME NEW pair PROVE Tp!getPairTokenPrice(pair, t)' = Tp!getPairTokenPrice(pair, t)
  BY <1>1 DEF Tp!getPairTokenPrice
<1>3. ASSUME NEW pool, NEW pair
      PROVE Tp!getVelodromeV2Price(pool, pair, t)' = Tp!getVelodromeV2Price(pool, pair, t)
  BY <1>2 DEF Tp!getVelodromeV2Price
<1>4. ASSUME NEW s PROVE Tp!getPriceFromSource(k, s, t)' = Tp!getPriceFromSource(k, s, t)
  BY <1>1, <1>3 DEF Tp!getPriceFromSource, Tp!isValidPriceResult
<1>5. Tp!getPriceFromSources(k, t)' = Tp!getPriceFromSources(k, t)
  <2>. DEFINE average(r) ==
                 LET valid == {i \in DOMAIN Sources[k] : r[i].price > 0}
                     weighted == Tp!SumFunction([i \in valid |-> r[i].price * r[i].confidence])
                     prices == Tp!SumFunction([i \in valid |-> r[i].price])
                     sum == Tp!SumFunction([i \in valid |-> r[i].confidence])
                 IN  IF valid = {} THEN [price |-> 0, confidence |-> 0]
                     ELSE IF Tp!Cardinality(valid) = 1 THEN r[CHOOSE i \in valid : TRUE]
                     ELSE IF sum = 0
                     THEN [price |-> prices \div Tp!Cardinality(valid), confidence |-> 50]
                     ELSE [price |-> weighted \div sum, confidence |-> sum \div Tp!Cardinality(valid)]
  <2>1. PICK r : r = [i \in DOMAIN Sources[k] |-> Tp!getPriceFromSource(k, Sources[k][i], t)]
    OBVIOUS
  <2>2. \A i \in DOMAIN Sources[k] : /\ Tp!getPriceFromSource(k, Sources[k][i], t) = r[i]
                                     /\ Tp!getPriceFromSource(k, Sources[k][i], t)' = r[i]
    BY <1>4, <2>1
  <2>3. Tp!getPriceFromSources(k, t) = average(r)
    BY <2>2 DEF Tp!getPriceFromSources, Tp!SumOver
  <2>4. Tp!getPriceFromSources(k, t)' = average(r)
    BY <2>2 DEF Tp!getPriceFromSources, Tp!SumOver
  <2>. QED  BY ONLY <2>3, <2>4
<1>6. Tp!Believed(k, t)' = Tp!Believed(k, t) BY <1>4 DEF Tp!Believed
<1>. QED  BY <1>5, <1>6

\* A price of token k goes back to tick u: what the sources gave then, or a dollar for a
\* stablecoin without any.
Told(k, u, p) ==
    \/ p = 1 /\ k \in Critical /\ Unreliable(k, u)
    \/ Between(k, u, p)

\* A price told at tick t is right.
Justified(k, p, t) ==
    \/ p = 0 /\ k \notin Critical /\ Unreliable(k, t)
    \/ \E u \in 1..TpMaxNow : u <= t /\ u > t - CacheDuration /\ Told(k, u, p)

\* The row of a token is its last update, of a tick whose sources told that price.
TokenIsLastUpdate(k, row, u, p) ==
    /\ u \in Nat /\ u <= tpNow
    /\ u = 0 => row.priceConfidence = 0
    /\ u > 0 => /\ <<k, u>> \in DOMAIN priceUpdate
                /\ priceUpdate[<<k, u>>] = p
                /\ Told(k, u, p)

TokensAreLastUpdates ==
    \A k \in DOMAIN tpToken :
       k \in Listed /\ TokenIsLastUpdate(k, tpToken[k], tpToken[k].lastPriceUpdate, tpToken[k].derivedUSD)

\* Every price a handler was told was right.
PriceToldIsRight(k, p, t) ==
    /\ t \in 1..tpNow
    /\ k \notin Listed => p = 0
    /\ k \in Listed => k \in DOMAIN tpToken /\ Justified(k, p, t)

PricesToldAreRight == \A k \in DOMAIN returned : PriceToldIsRight(k, returned[k].price, returned[k].at)

PrInv ==
    /\ Answered
    /\ tpNow \in 1..TpMaxNow
    /\ TokensAreLastUpdates
    /\ PricesToldAreRight

LEMMA ToldKept ==
    ASSUME answer' = answer, NEW k, NEW u, NEW p
    PROVE  /\ Unreliable(k, u)' <=> Unreliable(k, u)
           /\ Told(k, u, p)' <=> Told(k, u, p)
           /\ Justified(k, p, u)' <=> Justified(k, p, u)
<1>1. ASSUME NEW t PROVE (Unreliable(k, t)' <=> Unreliable(k, t)) /\ (Between(k, t, p)' <=> Between(k, t, p))
  BY AnswersKept DEF Unreliable, Between
<1>2. ASSUME NEW t PROVE Told(k, t, p)' <=> Told(k, t, p)
  BY <1>1 DEF Told
<1>. QED  BY <1>1, <1>2 DEF Justified

\* The clock ticks.
LEMMA PrTick ==
    ASSUME Tp!PricesAssumption, PrInv, Tp!Tick PROVE PrInv'
<1>1. /\ tpNow \in Nat /\ tpNow' = tpNow + 1 /\ tpNow' \in 1..TpMaxNow
      /\ UNCHANGED <<answer, tpToken, priceUpdate, returned>>
  BY DEF Tp!Tick, Tp!PricesAssumption, PrInv
<1>2. Answered' BY <1>1 DEF PrInv, Answered, Tp!Answers
<1>3. TokensAreLastUpdates'
  <2>. SUFFICES ASSUME NEW k \in DOMAIN tpToken
                PROVE  k \in Listed /\ TokenIsLastUpdate(k, tpToken[k], tpToken[k].lastPriceUpdate,
                                                         tpToken[k].derivedUSD)'
    BY <1>1 DEF TokensAreLastUpdates
  <2>1. k \in Listed /\ TokenIsLastUpdate(k, tpToken[k], tpToken[k].lastPriceUpdate, tpToken[k].derivedUSD)
    BY DEF PrInv, TokensAreLastUpdates
  <2>. QED  BY <1>1, <2>1, ToldKept DEF TokenIsLastUpdate
<1>4. PricesToldAreRight'
  <2>. SUFFICES ASSUME NEW k \in DOMAIN returned
                PROVE  PriceToldIsRight(k, returned[k].price, returned[k].at)'
    BY <1>1 DEF PricesToldAreRight
  <2>1. PriceToldIsRight(k, returned[k].price, returned[k].at)
    BY DEF PrInv, PricesToldAreRight
  <2>. QED  BY <1>1, <2>1, ToldKept DEF PriceToldIsRight
<1>. QED  BY <1>1, <1>2, <1>3, <1>4 DEF PrInv

\* A handler is told a price, and the token's row stands or is saved.
LEMMA PrTold ==
    ASSUME Tp!PricesAssumption, PrInv, NEW k, NEW p, Tp!Returns(k, p),
           answer' = answer, tpNow' = tpNow, TokensAreLastUpdates',
           DOMAIN tpToken \subseteq DOMAIN tpToken',
           k \notin Listed => p = 0,
           k \in Listed => k \in DOMAIN tpToken' /\ Justified(k, p, tpNow)
    PROVE  PrInv'
<1>1. Answered' /\ (tpNow \in 1..TpMaxNow)' BY DEF PrInv, Answered, Tp!Answers
<1>2. ASSUME NEW j \in DOMAIN returned', j # k
      PROVE  PriceToldIsRight(j, returned[j].price, returned[j].at)'
  BY <1>2, ToldKept DEF Tp!Returns, Tp!Put, PrInv, PricesToldAreRight, PriceToldIsRight
<1>3. PriceToldIsRight(k, returned[k].price, returned[k].at)'
  BY ToldKept DEF Tp!Returns, Tp!Put, PrInv, PriceToldIsRight
<1>. QED  BY <1>1, <1>2, <1>3 DEF PrInv, PricesToldAreRight

\* What is told of the present is right.
LEMMA ToldNow ==
    ASSUME Tp!PricesAssumption, PrInv, NEW k, NEW p, Told(k, tpNow, p)
    PROVE  Justified(k, p, tpNow)
BY DEF PrInv, Tp!PricesAssumption, Justified

\* A price the sources tell is saved with the token and as its update.
LEMMA PrSaved ==
    ASSUME Tp!PricesAssumption, PrInv, NEW k \in Listed, NEW p, NEW c, Told(k, tpNow, p),
           Tp!Saved(k, p, c), Tp!Returns(k, p), answer' = answer, tpNow' = tpNow
    PROVE  PrInv'
<1>1. tpNow \in Nat /\ tpNow > 0 BY DEF PrInv, Tp!PricesAssumption
<1>2. /\ DOMAIN tpToken' = DOMAIN tpToken \cup {k}
      /\ \A j \in DOMAIN tpToken : j # k => tpToken'[j] = tpToken[j]
      /\ tpToken'[k] = [derivedUSD |-> p, priceConfidence |-> c, lastPriceUpdate |-> tpNow]
  BY DEF Tp!Saved, Tp!Put
<1>3. /\ DOMAIN priceUpdate' = DOMAIN priceUpdate \cup {<<k, tpNow>>}
      /\ \A x \in DOMAIN priceUpdate : x # <<k, tpNow>> => priceUpdate'[x] = priceUpdate[x]
      /\ priceUpdate'[<<k, tpNow>>] = p
  BY DEF Tp!Saved, Tp!Put
<1>4. ASSUME NEW j \in DOMAIN tpToken, j # k
      PROVE  j \in Listed /\ TokenIsLastUpdate(j, tpToken[j], tpToken[j].lastPriceUpdate,
                                               tpToken[j].derivedUSD)'
  BY <1>2, <1>4, <1>3, ToldKept DEF PrInv, TokensAreLastUpdates, TokenIsLastUpdate
<1>5. TokenIsLastUpdate(k, tpToken[k], tpToken[k].lastPriceUpdate, tpToken[k].derivedUSD)'
  BY ToldKept, <1>1, <1>2, <1>3 DEF TokenIsLastUpdate
<1>6. TokensAreLastUpdates' BY <1>2, <1>4, <1>5 DEF TokensAreLastUpdates
<1>7. Justified(k, p, tpNow) BY ToldNow
<1>. QED  BY <1>2, <1>6, <1>7, PrTold

\* The sources are asked: their price is saved, or a dollar for a stablecoin.
LEMMA PrFresh ==
    ASSUME Tp!PricesAssumption, PrInv, NEW k \in Listed, Tp!Fresh(k), answer' = answer, tpNow' = tpNow
    PROVE  PrInv'
<1>1. PICK quote, confidence : /\ quote = Tp!getPriceFromSources(k, tpNow).price
                               /\ confidence = Tp!getPriceFromSources(k, tpNow).confidence
  OBVIOUS
<1>2. /\ quote \in Nat /\ confidence \in Nat
      /\ \/ quote = 0 /\ confidence = 0
         \/ quote > 0 /\ Between(k, tpNow, quote)
  BY <1>1, AllSources DEF PrInv
<1>3. MinConfidence \in Nat BY DEF Tp!PricesAssumption
<1>4. IF quote > 0 /\ confidence > MinConfidence
      THEN Tp!Saved(k, quote, confidence) /\ Tp!Returns(k, quote)
      ELSE IF k \in Critical
      THEN Tp!Saved(k, 1, FallbackConfidence) /\ Tp!Returns(k, 1)
      ELSE /\ Tp!Returns(k, 0)
           /\ tpToken' = Tp!Put(tpToken, k, Tp!LoadOr(tpToken, k, Tp!NewToken))
           /\ UNCHANGED priceUpdate
  BY <1>1 DEF Tp!Fresh
<1>5. CASE quote > 0 /\ confidence > MinConfidence BY <1>2, <1>5, <1>4, PrSaved DEF Told
<1>6. CASE ~(quote > 0 /\ confidence > MinConfidence)
  <2>1. Unreliable(k, tpNow) BY <1>1, <1>2, <1>3, <1>6 DEF Unreliable
  <2>2. CASE k \in Critical BY <2>1, <2>2, <1>4, <1>6, PrSaved DEF Told
  <2>3. CASE k \notin Critical
    <3>1. /\ Tp!Returns(k, 0) /\ priceUpdate' = priceUpdate
          /\ tpToken' = Tp!Put(tpToken, k, Tp!LoadOr(tpToken, k, Tp!NewToken))
      BY <1>4, <1>6, <2>3
    <3>2. /\ DOMAIN tpToken' = DOMAIN tpToken \cup {k}
          /\ \A j \in DOMAIN tpToken : tpToken'[j] = tpToken[j]
          /\ k \notin DOMAIN tpToken => tpToken'[k] = Tp!NewToken
      BY <3>1 DEF Tp!Put, Tp!LoadOr
    <3>3. ASSUME NEW j \in DOMAIN tpToken
          PROVE  j \in Listed /\ TokenIsLastUpdate(j, tpToken[j], tpToken[j].lastPriceUpdate,
                                                   tpToken[j].derivedUSD)'
      BY <3>2, <3>1, ToldKept DEF PrInv, TokensAreLastUpdates, TokenIsLastUpdate
    <3>4. k \notin DOMAIN tpToken => TokenIsLastUpdate(k, tpToken[k], tpToken[k].lastPriceUpdate,
                                                       tpToken[k].derivedUSD)'
      BY <3>2 DEF PrInv, Tp!PricesAssumption, TokenIsLastUpdate, Tp!NewToken
    <3>5. TokensAreLastUpdates' BY <3>2, <3>3, <3>4 DEF TokensAreLastUpdates
    <3>6. Justified(k, 0, tpNow) BY <2>1, <2>3 DEF Justified
    <3>. QED  BY <3>1, <3>2, <3>5, <3>6, PrTold
  <2>. QED  BY <2>2, <2>3
<1>. QED  BY <1>5, <1>6

\* A price kept is not too old.
LEMMA PrCached ==
    ASSUME Tp!PricesAssumption, PrInv, NEW k \in DOMAIN tpToken, NEW forceRefresh,
           Tp!Cached(k, tpNow, forceRefresh)
    PROVE  Justified(k, tpToken[k].derivedUSD, tpNow)
<1>1. PICK u, p : u = tpToken[k].lastPriceUpdate /\ p = tpToken[k].derivedUSD OBVIOUS
<1>2. TokenIsLastUpdate(k, tpToken[k], u, p) BY <1>1 DEF PrInv, TokensAreLastUpdates
<1>3. tpNow - u < CacheDuration /\ tpToken[k].priceConfidence > MinConfidence
  BY <1>1 DEF Tp!Cached
<1>4. MinConfidence \in Nat /\ CacheDuration \in Nat /\ TpMaxNow \in Nat /\ tpNow \in 1..TpMaxNow
  BY DEF Tp!PricesAssumption, PrInv
<1>5. u \in Nat /\ u <= tpNow /\ u # 0 BY <1>2, <1>3, <1>4 DEF TokenIsLastUpdate
<1>6. u \in 1..TpMaxNow /\ u > tpNow - CacheDuration BY ONLY <1>3, <1>4, <1>5
<1>7. Told(k, u, p) BY <1>2, <1>5 DEF TokenIsLastUpdate
<1>. QED  BY <1>1, <1>5, <1>6, <1>7 DEF Justified

LEMMA PrRead ==
    ASSUME Tp!PricesAssumption, PrInv, NEW k, NEW forceRefresh, Tp!getTokenPriceUSD(k, forceRefresh)
    PROVE  PrInv'
<1>1. answer' = answer /\ tpNow' = tpNow BY DEF Tp!getTokenPriceUSD
<1>2. ASSUME tpToken' = tpToken, priceUpdate' = priceUpdate PROVE TokensAreLastUpdates'
  BY <1>1, <1>2, ToldKept DEF PrInv, TokensAreLastUpdates, TokenIsLastUpdate
<1>3. CASE k \notin Listed BY <1>3, <1>1, <1>2, PrTold DEF Tp!getTokenPriceUSD
<1>4. CASE k \in Listed /\ Tp!Fresh(k) BY <1>1, <1>4, PrFresh
<1>5. CASE k \in Listed /\ ~Tp!Fresh(k)
  BY <1>5, PrCached, <1>1, <1>2, PrTold DEF Tp!getTokenPriceUSD
<1>. QED  BY <1>3, <1>4, <1>5

LEMMA PrInit == ASSUME Tp!PricesAssumption, Tp!Init PROVE PrInv
BY DEF Tp!Init, Answered, Tp!PricesAssumption, Tp!NoRows, PrInv, TokensAreLastUpdates,
    PricesToldAreRight

LEMMA PrStep == ASSUME Tp!PricesAssumption, PrInv, [Tp!Next]_Tp!vars PROVE PrInv'
<1>1. CASE Tp!Tick BY <1>1, PrTick
<1>2. ASSUME NEW k \in Listed \cup Unlisted, NEW forceRefresh \in BOOLEAN,
             Tp!getTokenPriceUSD(k, forceRefresh)
      PROVE  PrInv'
  BY <1>2, PrRead
<1>3. CASE UNCHANGED Tp!vars
  <2>1. UNCHANGED <<tpNow, answer, tpToken, priceUpdate, returned>> BY <1>3 DEF Tp!vars
  <2>2. Answered' BY <2>1 DEF PrInv, Answered, Tp!Answers
  <2>3. TokensAreLastUpdates'
    BY <2>1, ToldKept DEF PrInv, TokensAreLastUpdates, TokenIsLastUpdate
  <2>4. PricesToldAreRight'
    BY <2>1, ToldKept DEF PrInv, PricesToldAreRight, PriceToldIsRight
  <2>. QED  BY <2>1, <2>2, <2>3, <2>4 DEF PrInv
<1>. QED  BY <1>1, <1>2, <1>3 DEF Tp!Next

LEMMA PrSafe == ASSUME Tp!PricesAssumption, PrInv PROVE Tp!PriceIsRecent
<1>. SUFFICES ASSUME NEW k \in DOMAIN returned
              PROVE  LET r == returned[k]
                         from(u) == Tp!Believed(k, u)
                         times == {u \in 1..TpMaxNow : u <= r.at /\ u > r.at - CacheDuration}
                         unreliable(u) == Tp!getPriceFromSources(k, u).confidence <= MinConfidence
                     IN  IF k \notin Listed THEN r.price = 0
                         ELSE /\ \/ r.price = 0 /\ k \notin Critical /\ unreliable(r.at)
                                 \/ r.price = 1 /\ k \in Critical /\ \E u \in times : unreliable(u)
                                 \/ \E u \in times : \E a, b \in from(u) : a <= r.price /\ r.price <= b
                              /\ tpToken[k].lastPriceUpdate > 0 =>
                                     priceUpdate[<<k, tpToken[k].lastPriceUpdate>>] = tpToken[k].derivedUSD
  BY DEF Tp!PriceIsRecent
<1>1. PriceToldIsRight(k, returned[k].price, returned[k].at) BY DEF PrInv, PricesToldAreRight
<1>2. CASE k \notin Listed BY <1>1, <1>2 DEF PriceToldIsRight
<1>3. CASE k \in Listed
  <2>1. k \in DOMAIN tpToken /\ Justified(k, returned[k].price, returned[k].at)
    BY <1>1, <1>3 DEF PriceToldIsRight
  <2>2. TokenIsLastUpdate(k, tpToken[k], tpToken[k].lastPriceUpdate, tpToken[k].derivedUSD)
    BY <2>1 DEF PrInv, TokensAreLastUpdates
  <2>3. tpToken[k].lastPriceUpdate > 0 =>
           priceUpdate[<<k, tpToken[k].lastPriceUpdate>>] = tpToken[k].derivedUSD
    BY <2>2 DEF TokenIsLastUpdate
  <2>. QED  BY <1>3, <2>1, <2>3 DEF Justified, Told, Between, Unreliable
<1>. QED  BY <1>2, <1>3

\* Whatever price of a token a handler is given lies between prices its sources gave within
\* the duration of the cache, whatever feeds and pools answer and when they are asked.
THEOREM PricesAlwaysRecent == Tp!PricesAssumption => (Tp!Spec => []Tp!PriceIsRecent)
<1>. SUFFICES ASSUME Tp!PricesAssumption PROVE Tp!Spec => []Tp!PriceIsRecent OBVIOUS
<1>1. Tp!Init => PrInv BY PrInit
<1>2. PrInv /\ [Tp!Next]_Tp!vars => PrInv' BY PrStep
<1>3. PrInv => Tp!PriceIsRecent BY PrSafe
<1>. QED  BY <1>1, <1>2, <1>3, PTL DEF Tp!Spec

-----------------------------------------------------------------------------
(* babydegen: positions in a Balancer pool and in Uniswap V3, and what     *)
(* their swaps cost.                                                       *)

CONSTANTS OpSafes, Nfts, OpPool, OpOutsider, OpZero, OpPrices, BucketLength, CostWindow, Slippages,
          MaxBpt, MaxLiquidity, OpMaxTx, OpMaxNow, MaxStep
VARIABLES opNow, opPrice, opClosed, opLogs, opTx, bpt, opNft, opPut, opTaken, opPosition, swap,
          buffer

Op == INSTANCE OptimismPositions WITH
    Safes <- OpSafes, Pool <- OpPool, Outsider <- OpOutsider, Zero <- OpZero, Window <- CostWindow,
    Prices <- OpPrices, MaxTx <- OpMaxTx, MaxNow <- OpMaxNow,
    now <- opNow, price <- opPrice, closed <- opClosed, logs <- opLogs, tx <- opTx, nft <- opNft,
    put <- opPut, taken <- opTaken, position <- opPosition

OpAssumed ==
    /\ BucketLength \in Nat \ {0} /\ CostWindow \in Nat /\ Slippages \subseteq Int
    /\ OpSafes \cap {OpOutsider, OpZero} = {} /\ Nfts \cap (OpSafes \cup {OpPool}) = {}
    /\ OpPrices \subseteq Positives
    /\ {MaxBpt, MaxLiquidity, MaxStep} \subseteq Nat

OpAccounts == OpSafes \cup {OpOutsider, OpZero}
OpNft == [state : {"unborn", "live", "burned"}, home : OpSafes \cup {OpZero}, owner : OpAccounts,
          liquidity : Nat]
OpRow == [active : BOOLEAN, liquidity : Int, usdCurrent : Int, entry : Int, exit : Int,
          exited : BOOLEAN, costs : Int, netGain : Int]
OpDeltas == (Int \X {0}) \cup {<<1, -1>>}
OpEvents ==
    [event : {"LiFi"}, receiver : OpAccounts, integrator : {"valory", "other"}, slippage : Int]
    \cup [event : {"Balancer"}, liquidityProvider : OpSafes, deltas : OpDeltas]
    \cup [event : {"Transfer"}, from : OpAccounts, to : OpAccounts, id : Nfts]
    \cup [event : {"Increase", "Decrease"}, id : Nfts, amount : Positives]
    \cup [event : {"Collect"}, id : Nfts]
OpSwap == [agent : OpSafes, timestamp : Nat, slippageUSD : Int, isAssociated : BOOLEAN]
OpBuffer == [buckets : [1..4 -> SUBSET Nat], index : Nat]

\* Types of the chain.
OpChainTyped ==
    /\ opNow \in Nat /\ opPrice \in Positives /\ opLogs \in Seq(OpEvents)
    /\ bpt \in [OpSafes -> Nat] /\ opNft \in [Nfts -> OpNft]
    /\ opPut \in [Nfts \cup OpSafes -> Int] /\ opTaken \in [Nfts \cup OpSafes -> Int]

\* Types of the rows.
OpKeys == OpSafes \X (Nfts \cup {OpPool})
OpRowsTyped(rows) == PartialFn(rows, OpKeys, OpRow) /\ IsFiniteSet(DOMAIN rows)
OpSwapsTyped(s, b) == s \in Seq(OpSwap) /\ PartialFn(b, OpSafes, OpBuffer)
OpTyped == OpChainTyped /\ OpRowsTyped(opPosition) /\ OpSwapsTyped(swap, buffer)

-----------------------------------------------------------------------------
(* Swaps: t is the time, s the swaps, b the buffers.                       *)

Waits(i, x, b) == x \in DOMAIN b /\ \E q \in 1..4 : i \in b[x].buckets[q]

\* A bucket holds swaps of its Safe that no position has taken, no younger than itself.
BucketOK(s, row, x, q) ==
    \A i \in row.buckets[q] :
       /\ i \in 1..Len(s) /\ s[i].agent = x /\ ~s[i].isAssociated
       /\ (s[i].timestamp \div BucketLength) + q <= row.index + 1

BucketsApart(row) ==
    \A q, u \in 1..4 : \A i \in row.buckets[q] : i \in row.buckets[u] => q = u

BufferOK(t, s, row, x) ==
    /\ row.index <= t \div BucketLength /\ BucketsApart(row)
    /\ \A q \in 1..4 : BucketOK(s, row, x, q)

\* A swap that no position has taken waits, unless it is older than three buckets.
SwapOK(t, s, b, i) ==
    ~s[i].isAssociated =>
       t - s[i].timestamp > 3 * BucketLength \/ Waits(i, s[i].agent, b)

SwapsOK(t, s, b) ==
    /\ \A x \in DOMAIN b : BufferOK(t, s, b[x], x)
    /\ \A i \in 1..Len(s) : SwapOK(t, s, b, i)

\* Four buckets further is more than three buckets later.
LEMMA BucketsLater ==
    ASSUME NEW n \in Nat \ {0}, NEW a \in Nat, NEW b \in Nat, (a \div n) + 4 <= b \div n
    PROVE  b - a > 3 * n
<1>1. PICK c, d : c = a \div n /\ d = b \div n OBVIOUS
<1>2. c \in Int /\ d \in Int /\ c + 4 <= d BY <1>1
<1>3. a = n * c + (a % n) /\ a % n \in 0..n - 1 /\ b = n * d + (b % n) /\ b % n \in 0..n - 1
  BY <1>1
<1>4. PICK e, f, r, v : e = n * c /\ f = n * d /\ r = a % n /\ v = b % n OBVIOUS
<1>5. e \in Int /\ f \in Int BY <1>2, <1>4
<1>6. e + 4 * n <= f BY <1>2, <1>4
<1>7. a = e + r /\ b = f + v /\ r \in 0..n - 1 /\ v \in 0..n - 1 BY <1>3, <1>4
<1>. QED  BY ONLY <1>5, <1>6, <1>7, n \in Nat \ {0}

LEMMA TimePasses ==
    ASSUME OpAssumed, NEW t \in Nat, NEW u \in Nat, t <= u, NEW s, NEW b, OpSwapsTyped(s, b),
           SwapsOK(t, s, b)
    PROVE  SwapsOK(u, s, b)
<1>1. BucketLength \in Nat /\ BucketLength # 0 BY DEF OpAssumed
<1>2. t \div BucketLength \in Nat /\ u \div BucketLength \in Nat
      /\ t \div BucketLength <= u \div BucketLength
  BY <1>1, DivOrdered
<1>3. ASSUME NEW x \in DOMAIN b PROVE BufferOK(u, s, b[x], x)
  BY <1>2 DEF OpSwapsTyped, PartialFn, OpBuffer, SwapsOK, BufferOK
<1>4. ASSUME NEW i \in 1..Len(s) PROVE SwapOK(u, s, b, i)
  <2>1. s[i].timestamp \in Nat
    <3>1. s[i] \in OpSwap BY DEF OpSwapsTyped
    <3>. QED  BY <3>1 DEF OpSwap
  <2>2. SwapOK(t, s, b, i) BY DEF SwapsOK
  <2>3. 3 * BucketLength \in Nat BY <1>1
  <2>. QED  BY <2>1, <2>2, <2>3 DEF SwapOK
<1>. QED  BY <1>3, <1>4 DEF SwapsOK

-----------------------------------------------------------------------------
(* A swap is made. *)

FourBuckets(b, p, q, r, v) == b[1] = p /\ b[2] = q /\ b[3] = r /\ b[4] = v

LEMMA FourTyped ==
    ASSUME NEW p \in SUBSET Nat, NEW q \in SUBSET Nat, NEW r \in SUBSET Nat, NEW v \in SUBSET Nat,
           NEW b, b = <<p, q, r, v>>
    PROVE  b \in [1..4 -> SUBSET Nat] /\ FourBuckets(b, p, q, r, v)
<1>1. b \in Seq(SUBSET Nat) /\ Len(b) = 4 OBVIOUS
<1>2. b \in [1..4 -> SUBSET Nat] BY <1>1, LenProperties
<1>. QED  BY <1>2 DEF FourBuckets

\* The buckets after the new swap: as they were, or one further.
BufferWith(row, i, next) ==
    \/ /\ next.index = row.index
       /\ FourBuckets(next.buckets, row.buckets[1] \cup {i}, row.buckets[2], row.buckets[3],
                      row.buckets[4])
    \/ /\ opNow \div BucketLength > row.index /\ next.index = opNow \div BucketLength
       /\ FourBuckets(next.buckets, {i}, row.buckets[1], row.buckets[2], row.buckets[3])

LEMMA SwapBuffered ==
    ASSUME OpAssumed, opNow \in Nat, NEW row \in OpBuffer, NEW i \in Nat, NEW next,
           next = Op!addSwapToBuffer(row, i)
    PROVE  /\ next \in OpBuffer /\ BufferWith(row, i, next)
           /\ row.index <= opNow \div BucketLength => next.index = opNow \div BucketLength
<1>1. PICK index : index = opNow \div BucketLength OBVIOUS
<1>2. index \in Nat
  <2>1. BucketLength \in Nat /\ BucketLength # 0 /\ opNow <= opNow BY DEF OpAssumed
  <2>. QED  BY <1>1, <2>1, DivOrdered
<1>3. row.buckets \in [1..4 -> SUBSET Nat] /\ row.index \in Nat BY DEF OpBuffer
<1>4. CASE index > row.index
  <2>1. PICK old : old = <<{}, row.buckets[1], row.buckets[2], row.buckets[3]>> OBVIOUS
  <2>2. {} \in SUBSET Nat /\ \A q \in 1..4 : row.buckets[q] \in SUBSET Nat BY <1>3
  <2>3. old \in [1..4 -> SUBSET Nat]
        /\ FourBuckets(old, {}, row.buckets[1], row.buckets[2], row.buckets[3])
    <3>1. PICK p, q, r : p = row.buckets[1] /\ q = row.buckets[2] /\ r = row.buckets[3] OBVIOUS
    <3>2. p \in SUBSET Nat /\ q \in SUBSET Nat /\ r \in SUBSET Nat BY <2>2, <3>1
    <3>. QED  BY <2>1, <2>2, <3>1, <3>2, FourTyped
  <2>4. next = [buckets |-> [old EXCEPT ![1] = old[1] \cup {i}], index |-> index]
    BY <1>1, <1>4, <2>1 DEF Op!addSwapToBuffer, Op!getBucketIndex, Op!Rotated
  <2>5. PICK new : new = [old EXCEPT ![1] = old[1] \cup {i}] OBVIOUS
  <2>6. /\ new \in [1..4 -> SUBSET Nat]
        /\ FourBuckets(new, {i}, row.buckets[1], row.buckets[2], row.buckets[3])
    BY <2>3, <2>5 DEF FourBuckets
  <2>7. next = [buckets |-> new, index |-> index] BY <2>4, <2>5
  <2>8. next \in OpBuffer /\ next.buckets = new /\ next.index = index
    BY <1>2, <2>6, <2>7 DEF OpBuffer
  <2>. QED  BY <1>1, <1>4, <2>6, <2>8 DEF BufferWith
<1>5. CASE ~(index > row.index)
  <2>1. next = [row EXCEPT !.buckets = [row.buckets EXCEPT ![1] = row.buckets[1] \cup {i}]]
    BY <1>1, <1>5 DEF Op!addSwapToBuffer, Op!getBucketIndex
  <2>2. PICK new : new = [row.buckets EXCEPT ![1] = row.buckets[1] \cup {i}] OBVIOUS
  <2>3. /\ new \in [1..4 -> SUBSET Nat]
        /\ FourBuckets(new, row.buckets[1] \cup {i}, row.buckets[2], row.buckets[3],
                       row.buckets[4])
    BY <1>3, <2>2 DEF FourBuckets
  <2>4. next = [row EXCEPT !.buckets = new] BY <2>1, <2>2
  <2>5. next \in OpBuffer /\ next.buckets = new /\ next.index = row.index
    BY <2>3, <2>4 DEF OpBuffer
  <2>. QED  BY <1>1, <1>2, <1>3, <1>5, <2>3, <2>5 DEF BufferWith
<1>. QED  BY <1>4, <1>5

\* One more swap, not taken by a position.
SwapAppended(s, next, x) ==
    /\ Len(s) \in Nat /\ Len(next) = Len(s) + 1
    /\ \A i \in 1..Len(s) : next[i] = s[i]
    /\ next[Len(s) + 1].agent = x /\ ~next[Len(s) + 1].isAssociated
    /\ next[Len(s) + 1].timestamp = opNow

LEMMA SwapMade ==
    ASSUME opNow \in Nat, NEW s \in Seq(OpSwap), NEW x \in OpSafes, NEW slippage \in Int, NEW next,
           next = Append(s, [agent |-> x, timestamp |-> opNow, slippageUSD |-> slippage,
                             isAssociated |-> FALSE])
    PROVE  next \in Seq(OpSwap) /\ SwapAppended(s, next, x)
BY s \in Seq(OpSwap) DEF OpSwap, SwapAppended

\* The buffer of x with the new swap in its youngest bucket.
LEMMA NewSwapBuffered ==
    ASSUME OpAssumed, opNow \in Nat, NEW s \in Seq(OpSwap), NEW x \in OpSafes, NEW row \in OpBuffer,
           BufferOK(opNow, s, row, x), NEW next, SwapAppended(s, next, x), NEW new \in OpBuffer,
           BufferWith(row, Len(s) + 1, new), new.index = opNow \div BucketLength
    PROVE  /\ BufferOK(opNow, next, new, x) /\ Len(s) + 1 \in new.buckets[1]
           /\ new.index = row.index => \A q \in 1..4 : row.buckets[q] \subseteq new.buckets[q]
           /\ new.index # row.index =>
                 /\ \A q \in 1..3 : row.buckets[q] \subseteq new.buckets[q + 1]
                 /\ row.index < opNow \div BucketLength
<1>1. PICK n, bucket : n = Len(s) + 1 /\ bucket = opNow \div BucketLength OBVIOUS
<1>2. /\ n \in Nat /\ Len(next) = n /\ \A i \in 1..Len(s) : i \in 1..n /\ i # n /\ next[i] = s[i]
      /\ next[n].agent = x /\ ~next[n].isAssociated /\ next[n].timestamp = opNow
  BY <1>1 DEF SwapAppended
<1>3. /\ row.buckets \in [1..4 -> SUBSET Nat] /\ row.index \in Nat /\ new.index \in Nat
      /\ row.index <= bucket /\ new.index = bucket
  BY <1>1 DEF OpBuffer, BufferOK
<1>4. ASSUME NEW q \in 1..4, NEW i \in row.buckets[q]
      PROVE  /\ i # n /\ i \in 1..n /\ next[i] = s[i] /\ next[i].agent = x
             /\ ~next[i].isAssociated
             /\ (next[i].timestamp \div BucketLength) + q <= row.index + 1
  BY <1>2 DEF BufferOK, BucketOK
<1>5. BucketsApart(row) BY DEF BufferOK
<1>11. n \in 1..Len(next) /\ (next[n].timestamp \div BucketLength) = bucket BY <1>1, <1>2
<1>6. CASE new.index = row.index
           /\ FourBuckets(new.buckets, row.buckets[1] \cup {n}, row.buckets[2],
                          row.buckets[3], row.buckets[4])
  <2>1. /\ new.buckets[1] = row.buckets[1] \cup {n}
        /\ \A q \in 1..4 : q # 1 => new.buckets[q] = row.buckets[q]
    BY <1>6 DEF FourBuckets
  <2>2. \A q \in 1..4 : \A i \in new.buckets[q] : (q = 1 /\ i = n) \/ i \in row.buckets[q] BY <2>1
  <2>3. BucketsApart(new)
    <3>1. ASSUME NEW q \in 1..4, NEW u \in 1..4, NEW i \in new.buckets[q], i \in new.buckets[u]
          PROVE  q = u
      BY <1>4, <1>5, <2>2, <3>1 DEF BucketsApart
    <3>. QED  BY <3>1 DEF BucketsApart
  <2>4. ASSUME NEW q \in 1..4 PROVE BucketOK(next, new, x, q)
    <3>1. ASSUME NEW i \in new.buckets[q]
          PROVE  /\ i \in 1..Len(next) /\ next[i].agent = x /\ ~next[i].isAssociated
                 /\ (next[i].timestamp \div BucketLength) + q <= new.index + 1
      <4>1. CASE q = 1 /\ i = n BY <1>3, <1>2, <1>11, <4>1
      <4>2. CASE i \in row.buckets[q] BY <1>2, <1>4, <1>6, <4>2
      <4>. QED  BY <2>2, <4>1, <4>2
    <3>. QED  BY <3>1 DEF BucketOK
  <2>5. BufferOK(opNow, next, new, x) BY <1>1, <1>3, <2>3, <2>4 DEF BufferOK
  <2>. QED  BY <1>1, <1>6, <2>1, <2>5
<1>7. CASE bucket > row.index
           /\ FourBuckets(new.buckets, {n}, row.buckets[1], row.buckets[2], row.buckets[3])
  <2>1. /\ new.buckets[1] = {n} /\ new.buckets[2] = row.buckets[1]
        /\ new.buckets[3] = row.buckets[2] /\ new.buckets[4] = row.buckets[3]
    BY <1>7 DEF FourBuckets
  <2>2. \A q \in 1..4 : \A i \in new.buckets[q] :
           (q = 1 /\ i = n) \/ (q - 1 \in 1..4 /\ i \in row.buckets[q - 1])
    BY <2>1
  <2>3. BucketsApart(new)
    <3>1. ASSUME NEW q \in 1..4, NEW u \in 1..4, NEW i \in new.buckets[q], i \in new.buckets[u]
          PROVE  q = u
      <4>1. CASE i = n BY <1>4, <2>2, <3>1, <4>1
      <4>2. CASE i # n BY <2>2, <3>1, <4>2, <1>5 DEF BucketsApart
      <4>. QED  BY <4>1, <4>2
    <3>. QED  BY <3>1 DEF BucketsApart
  <2>4. ASSUME NEW q \in 1..4 PROVE BucketOK(next, new, x, q)
    <3>1. ASSUME NEW i \in new.buckets[q]
          PROVE  /\ i \in 1..Len(next) /\ next[i].agent = x /\ ~next[i].isAssociated
                 /\ (next[i].timestamp \div BucketLength) + q <= new.index + 1
      <4>1. CASE q = 1 /\ i = n BY <1>3, <1>2, <1>11, <4>1
      <4>2. CASE q - 1 \in 1..4 /\ i \in row.buckets[q - 1]
        <5>1. /\ i \in 1..n /\ next[i].agent = x /\ ~next[i].isAssociated
              /\ (next[i].timestamp \div BucketLength) + (q - 1) <= row.index + 1
          BY <1>4, <4>2
        <5>2. PICK d : d = next[i].timestamp \div BucketLength OBVIOUS
        <5>3. d \in Int
          <6>2. next[i].timestamp \in Nat
            <7>1. i \in 1..Len(s) BY <4>2 DEF BufferOK, BucketOK
            <7>2. s[i] \in OpSwap /\ next[i] = s[i] BY <1>4, <4>2, <7>1
            <7>. QED  BY <7>2 DEF OpSwap
          <6>3. BucketLength \in Nat /\ BucketLength # 0 /\ next[i].timestamp <= next[i].timestamp
            BY <6>2 DEF OpAssumed
          <6>. QED  BY <5>2, <6>2, <6>3, DivOrdered
        <5>4. d + q <= new.index + 1
          <6>1. d + (q - 1) <= row.index + 1 /\ row.index + 1 <= new.index
            BY <1>3, <1>7, <5>1, <5>2
          <6>2. row.index \in Nat /\ new.index \in Nat BY <1>3
          <6>. QED  BY ONLY <5>3, <6>1, <6>2, q \in 1..4
        <5>. QED  BY <1>2, <5>1, <5>2, <5>4
      <4>. QED  BY <2>2, <4>1, <4>2
    <3>. QED  BY <3>1 DEF BucketOK
  <2>5. BufferOK(opNow, next, new, x) BY <1>1, <1>3, <2>3, <2>4 DEF BufferOK
  <2>6. \A q \in 1..3 : row.buckets[q] \subseteq new.buckets[q + 1] BY <2>1
  <2>. QED  BY <1>1, <1>3, <1>7, <2>1, <2>5, <2>6
<1>. QED  BY <1>1, <1>6, <1>7 DEF BufferWith

\* The swap of a LiFi log is made.
LEMMA SwapCreated ==
    ASSUME OpAssumed, opNow \in Nat, OpSwapsTyped(swap, buffer), SwapsOK(opNow, swap, buffer),
           NEW x \in OpSafes, NEW slippage \in Int, Op!createSwapTransaction(x, slippage)
    PROVE  /\ OpSwapsTyped(swap', buffer') /\ SwapsOK(opNow, swap', buffer')
           /\ SwapAppended(swap, swap', x)
<1>1. swap \in Seq(OpSwap) /\ PartialFn(buffer, OpSafes, OpBuffer) BY DEF OpSwapsTyped
<1>2. swap' \in Seq(OpSwap) /\ SwapAppended(swap, swap', x)
  BY <1>1, SwapMade DEF Op!createSwapTransaction
<1>3. PICK bucket : bucket = opNow \div BucketLength OBVIOUS
<1>4. bucket \in Nat BY <1>3, DivOrdered DEF OpAssumed
<1>5. PICK none : none = <<{}, {}, {}, {}>> OBVIOUS
<1>6. none \in [1..4 -> SUBSET Nat] /\ FourBuckets(none, {}, {}, {}, {})
  <2>1. PICK e \in SUBSET Nat : e = {} OBVIOUS
  <2>2. none = <<e, e, e, e>> BY <1>5, <2>1
  <2>. QED  BY <2>1, <2>2, FourTyped
<1>7. PICK fresh : fresh = Op!NewBuffer OBVIOUS
<1>8. fresh = [buckets |-> none, index |-> bucket]
  BY <1>3, <1>5, <1>7 DEF Op!NewBuffer, Op!getBucketIndex
<1>9. fresh \in OpBuffer /\ fresh.buckets = none /\ fresh.index = bucket
  BY <1>4, <1>6, <1>8 DEF OpBuffer
<1>10. BufferOK(opNow, swap, fresh, x)
  <2>1. \A q \in 1..4 : fresh.buckets[q] = {} BY <1>6, <1>9 DEF FourBuckets
  <2>. QED  BY <1>3, <1>4, <1>9, <2>1 DEF BufferOK, BucketOK, BucketsApart
<1>11. PICK row : row = IF x \in DOMAIN buffer THEN buffer[x] ELSE fresh OBVIOUS
<1>12. row \in OpBuffer /\ BufferOK(opNow, swap, row, x)
  BY <1>1, <1>9, <1>10, <1>11 DEF SwapsOK, PartialFn
<1>13. PICK new : new = Op!addSwapToBuffer(row, Len(swap) + 1) OBVIOUS
<1>14. buffer' = [y \in DOMAIN buffer \cup {x} |-> IF y = x THEN new ELSE buffer[y]]
  BY <1>7, <1>11, <1>13 DEF Op!createSwapTransaction, Op!LoadOr, Op!Put
<1>15. Len(swap) + 1 \in Nat BY <1>2 DEF SwapAppended
<1>16. /\ new \in OpBuffer /\ BufferWith(row, Len(swap) + 1, new) /\ new.index = bucket
  BY <1>12, <1>3, <1>13, <1>15, SwapBuffered DEF BufferOK
<1>17. /\ BufferOK(opNow, swap', new, x) /\ Len(swap) + 1 \in new.buckets[1]
       /\ new.index = row.index => \A q \in 1..4 : row.buckets[q] \subseteq new.buckets[q]
       /\ new.index # row.index => /\ \A q \in 1..3 : row.buckets[q] \subseteq new.buckets[q + 1]
                                   /\ row.index < bucket
  BY <1>3, <1>16, <1>2, <1>1, <1>12, NewSwapBuffered
<1>18. PartialFn(buffer', OpSafes, OpBuffer) BY <1>1, <1>14, <1>16 DEF PartialFn
<1>19. ASSUME NEW y \in DOMAIN buffer' PROVE BufferOK(opNow, swap', buffer'[y], y)
  <2>1. CASE y = x BY <1>14, <1>17, <2>1
  <2>2. CASE y # x
    <3>1. y \in DOMAIN buffer /\ buffer'[y] = buffer[y] BY <1>14, <2>2
    <3>2. BufferOK(opNow, swap, buffer[y], y) BY <3>1 DEF SwapsOK
    <3>3. \A i \in 1..Len(swap) : i \in 1..Len(swap') /\ swap'[i] = swap[i]
      BY <1>2 DEF SwapAppended
    <3>. QED  BY <3>1, <3>2, <3>3 DEF BufferOK, BucketOK
  <2>. QED  BY <2>1, <2>2
<1>20. ASSUME NEW i \in 1..Len(swap') PROVE SwapOK(opNow, swap', buffer', i)
  <2>1. i = Len(swap) + 1 \/ (i \in 1..Len(swap) /\ swap'[i] = swap[i])
    BY <1>2 DEF SwapAppended
  <2>2. CASE i = Len(swap) + 1 BY <1>2, <1>14, <2>2, <1>17 DEF SwapAppended, SwapOK, Waits
  <2>3. CASE i \in 1..Len(swap) /\ swap'[i] = swap[i]
    <3>. SUFFICES ASSUME ~swap[i].isAssociated,
                         ~(opNow - swap[i].timestamp > 3 * BucketLength)
                  PROVE  Waits(i, swap[i].agent, buffer')
      BY <2>3 DEF SwapOK
    <3>1. Waits(i, swap[i].agent, buffer) BY <2>3 DEF SwapsOK, SwapOK
    <3>2. CASE swap[i].agent # x BY <1>14, <3>1, <3>2 DEF Waits
    <3>3. CASE swap[i].agent = x
      <4>1. PICK q \in 1..4 : i \in row.buckets[q] BY <1>11, <3>1, <3>3 DEF Waits
      <4>2. x \in DOMAIN buffer' /\ buffer'[x] = new BY <1>14
      <4>3. CASE new.index = row.index BY <1>17, <3>3, <4>1, <4>2, <4>3 DEF Waits
      <4>4. CASE new.index # row.index /\ q # 4 BY <4>4, <1>17, <4>1, <3>3, <4>2 DEF Waits
      <4>5. CASE new.index # row.index /\ q = 4
        <5>1. BucketOK(swap, row, x, 4) BY <1>12 DEF BufferOK
        <5>2. (swap[i].timestamp \div BucketLength) + 4 <= row.index + 1
          BY ONLY <4>1, <4>5, <5>1 DEF BucketOK
        <5>3. swap[i].timestamp \in Nat
          <6>1. swap[i] \in OpSwap BY ONLY <1>1, <2>3
          <6>. QED  BY ONLY <6>1 DEF OpSwap
        <5>4. PICK d : d = swap[i].timestamp \div BucketLength OBVIOUS
        <5>5. d \in Nat
          <6>1. BucketLength \in Nat /\ BucketLength # 0
                /\ swap[i].timestamp <= swap[i].timestamp
            BY <5>3 DEF OpAssumed
          <6>. QED  BY <5>3, <5>4, <6>1, DivOrdered
        <5>6. row.index \in Nat /\ row.index < bucket BY <1>12, <1>17, <4>5 DEF OpBuffer
        <5>7. d + 4 <= bucket BY ONLY <1>4, <5>2, <5>4, <5>5, <5>6
        <5>8. opNow - swap[i].timestamp > 3 * BucketLength
          BY <1>3, <5>3, <5>4, <5>7, BucketsLater DEF OpAssumed
        <5>. QED  BY <5>8
      <4>. QED  BY <4>3, <4>4, <4>5
    <3>. QED  BY <3>2, <3>3
  <2>. QED  BY <2>1, <2>2, <2>3
<1>. QED  BY <1>1, <1>2, <1>18, <1>19, <1>20 DEF SwapsOK, OpSwapsTyped

-----------------------------------------------------------------------------
(* A position takes swaps. *)

LEMMA AssociatedFacts ==
    ASSUME OpSwapsTyped(swap, buffer), SwapsOK(opNow, swap, buffer), NEW x
    PROVE  \A i \in Op!Associated(x) :
              /\ x \in DOMAIN buffer /\ \E q \in 1..4 : i \in buffer[x].buckets[q]
              /\ i \in 1..Len(swap) /\ swap[i].agent = x /\ ~swap[i].isAssociated
<1>. SUFFICES ASSUME NEW i \in Op!Associated(x)
              PROVE  /\ x \in DOMAIN buffer /\ \E q \in 1..4 : i \in buffer[x].buckets[q]
                     /\ i \in 1..Len(swap) /\ swap[i].agent = x /\ ~swap[i].isAssociated
  OBVIOUS
<1>1. i \in Op!InBuckets(x) BY DEF Op!Associated
<1>2. x \in DOMAIN buffer /\ i \in UNION Op!Range(buffer[x].buckets) BY <1>1 DEF Op!InBuckets
<1>3. buffer[x].buckets \in [1..4 -> SUBSET Nat]
  BY <1>2 DEF OpSwapsTyped, PartialFn, OpBuffer
<1>4. PICK q \in 1..4 : i \in buffer[x].buckets[q] BY <1>2, <1>3 DEF Op!Range
<1>5. BucketOK(swap, buffer[x], x, q) BY <1>2 DEF SwapsOK, BufferOK
<1>. QED  BY <1>2, <1>4, <1>5 DEF BucketOK

\* The swaps in ids are marked.
SwapsMarked(s, next, ids) ==
    /\ Len(s) \in Nat /\ Len(next) = Len(s)
    /\ \A i \in 1..Len(s) :
          /\ next[i].agent = s[i].agent /\ next[i].timestamp = s[i].timestamp
          /\ next[i].slippageUSD = s[i].slippageUSD
          /\ next[i].isAssociated <=> s[i].isAssociated \/ i \in ids

LEMMA FunctionIsSeq ==
    ASSUME NEW S, NEW n \in Nat, NEW f \in [1..n -> S] PROVE f \in Seq(S) /\ Len(f) = n
OBVIOUS

LEMMA SwapsTaken ==
    ASSUME OpAssumed, OpSwapsTyped(swap, buffer), SwapsOK(opNow, swap, buffer), NEW x,
           Op!Associates(x)
    PROVE  /\ OpSwapsTyped(swap', buffer') /\ SwapsOK(opNow, swap', buffer')
           /\ SwapsMarked(swap, swap', Op!Associated(x))
<1>1. /\ swap \in Seq(OpSwap) /\ PartialFn(buffer, OpSafes, OpBuffer) /\ Len(swap) \in Nat
      /\ DOMAIN swap = 1..Len(swap) /\ \A i \in 1..Len(swap) : swap[i] \in OpSwap
  BY DEF OpSwapsTyped
<1>2. PICK ids : ids = Op!Associated(x) OBVIOUS
<1>3. \A i \in ids : /\ x \in DOMAIN buffer /\ i \in 1..Len(swap) /\ swap[i].agent = x
                     /\ ~swap[i].isAssociated
  BY <1>2, AssociatedFacts
<1>4. swap' = [i \in 1..Len(swap) |->
                  [swap[i] EXCEPT !.isAssociated = swap[i].isAssociated \/ i \in ids]]
  BY <1>1, <1>2 DEF Op!Associates
<1>5. ASSUME NEW i \in 1..Len(swap)
      PROVE  /\ swap'[i] \in OpSwap /\ swap'[i].agent = swap[i].agent
             /\ swap'[i].timestamp = swap[i].timestamp
             /\ swap'[i].slippageUSD = swap[i].slippageUSD
             /\ swap'[i].isAssociated <=> swap[i].isAssociated \/ i \in ids
  <2>1. PICK e : e = swap[i] OBVIOUS
  <2>2. e \in OpSwap BY <1>1, <2>1
  <2>3. swap'[i] = [e EXCEPT !.isAssociated = e.isAssociated \/ i \in ids] BY <1>4, <2>1
  <2>4. CASE e.isAssociated \/ i \in ids BY <2>2, <2>3, <2>4, <2>1 DEF OpSwap
  <2>5. CASE ~(e.isAssociated \/ i \in ids) BY <2>2, <2>3, <2>5, <2>1 DEF OpSwap
  <2>. QED  BY <2>4, <2>5
<1>6. swap' \in [1..Len(swap) -> OpSwap] BY <1>4, <1>5
<1>7. swap' \in Seq(OpSwap) /\ Len(swap') = Len(swap) BY <1>1, <1>6, FunctionIsSeq
<1>8. SwapsMarked(swap, swap', ids) BY <1>1, <1>5, <1>7 DEF SwapsMarked
\* The buffers.
<1>9. DOMAIN buffer' = DOMAIN buffer /\ buffer' = [y \in DOMAIN buffer' |-> buffer'[y]]
      /\ \A y \in DOMAIN buffer : y # x => buffer'[y] = buffer[y]
  BY <1>1 DEF Op!Associates, PartialFn
<1>10. ASSUME NEW y \in DOMAIN buffer
       PROVE  /\ buffer'[y] \in OpBuffer /\ buffer'[y].index = buffer[y].index
              /\ \A q \in 1..4 : \A i \in Nat :
                    i \in buffer'[y].buckets[q] <=>
                       i \in buffer[y].buckets[q] /\ (y = x => i \notin ids)
  <2>1. buffer[y] \in OpBuffer BY <1>1 DEF PartialFn
  <2>2. CASE y # x BY <1>9, <2>1, <2>2
  <2>3. CASE y = x
    <3>1. PICK row : row = buffer[y] OBVIOUS
    <3>2. row.buckets \in [1..4 -> SUBSET Nat] BY <2>1, <3>1 DEF OpBuffer
    <3>3. PICK left : left = [q \in DOMAIN row.buckets |-> row.buckets[q] \ ids] OBVIOUS
    <3>4. left \in [1..4 -> SUBSET Nat] /\ \A q \in 1..4 : left[q] = row.buckets[q] \ ids
      BY <3>2, <3>3
    <3>5. buffer'[y] = [row EXCEPT !.buckets = left]
      BY <1>1, <1>2, <2>3, <3>1, <3>3 DEF Op!Associates, PartialFn
    <3>6. buffer'[y] \in OpBuffer /\ buffer'[y].index = row.index /\ buffer'[y].buckets = left
      BY <2>1, <3>1, <3>4, <3>5 DEF OpBuffer
    <3>. QED  BY <2>3, <3>1, <3>4, <3>6
  <2>. QED  BY <2>2, <2>3
<1>11. PartialFn(buffer', OpSafes, OpBuffer) BY <1>1, <1>9, <1>10 DEF PartialFn
<1>12. ASSUME NEW y \in DOMAIN buffer PROVE BufferOK(opNow, swap', buffer'[y], y)
  <2>1. /\ BufferOK(opNow, swap, buffer[y], y) /\ buffer[y] \in OpBuffer
        /\ buffer[y].buckets \in [1..4 -> SUBSET Nat]
        /\ buffer'[y].buckets \in [1..4 -> SUBSET Nat]
    BY <1>1, <1>10 DEF SwapsOK, PartialFn, OpBuffer
  <2>2. ASSUME NEW q \in 1..4, NEW i \in buffer'[y].buckets[q]
        PROVE  i \in buffer[y].buckets[q] /\ (y = x => i \notin ids)
    <3>1. i \in Nat BY <2>1
    <3>. QED  BY <1>10, <3>1
  <2>3. BucketsApart(buffer'[y]) BY <2>1, <2>2 DEF BufferOK, BucketsApart
  <2>4. ASSUME NEW q \in 1..4 PROVE BucketOK(swap', buffer'[y], y, q)
    <3>1. BucketOK(swap, buffer[y], y, q) BY <2>1 DEF BufferOK
    <3>2. ASSUME NEW i \in buffer'[y].buckets[q]
          PROVE  /\ i \in 1..Len(swap') /\ swap'[i].agent = y /\ ~swap'[i].isAssociated
                 /\ (swap'[i].timestamp \div BucketLength) + q <= buffer'[y].index + 1
      <4>1. i \in buffer[y].buckets[q] /\ (y = x => i \notin ids) BY <2>2
      <4>2. /\ i \in 1..Len(swap) /\ swap[i].agent = y /\ ~swap[i].isAssociated
            /\ (swap[i].timestamp \div BucketLength) + q <= buffer[y].index + 1
        BY <3>1, <4>1 DEF BucketOK
      <4>3. i \notin ids BY <1>3, <4>1, <4>2
      <4>. QED  BY <1>5, <1>7, <1>10, <4>2, <4>3
    <3>. QED  BY <3>2 DEF BucketOK
  <2>. QED  BY <1>10, <2>1, <2>3, <2>4 DEF BufferOK
<1>13. ASSUME NEW i \in 1..Len(swap) PROVE SwapOK(opNow, swap', buffer', i)
  <2>1. SwapOK(opNow, swap, buffer, i) BY DEF SwapsOK
  <2>. SUFFICES ASSUME ~swap'[i].isAssociated, Waits(i, swap[i].agent, buffer)
                PROVE  Waits(i, swap[i].agent, buffer')
    BY <1>5, <2>1 DEF SwapOK
  <2>2. i \notin ids /\ i \in Nat BY <1>1, <1>5
  <2>. QED  BY <1>9, <1>10, <2>2 DEF Waits
<1>14. SwapsOK(opNow, swap', buffer') BY <1>7, <1>9, <1>12, <1>13 DEF SwapsOK
<1>. QED  BY <1>2, <1>7, <1>8, <1>11, <1>14 DEF OpSwapsTyped

\* A swap is in one bucket at most, none if it was taken, and one for three buckets' time.
LEMMA SwapsAreKept ==
    ASSUME OpAssumed, opNow \in Nat, OpSwapsTyped(swap, buffer), SwapsOK(opNow, swap, buffer)
    PROVE  Op!SwapsKept
<1>1. swap \in Seq(OpSwap) /\ DOMAIN swap = 1..Len(swap) BY DEF OpSwapsTyped
<1>2. ASSUME NEW i \in 1..Len(swap), NEW waits,
             waits = {b \in 1..4 : swap[i].agent \in DOMAIN buffer
                                  /\ i \in buffer[swap[i].agent].buckets[b]}
      PROVE  /\ Op!Cardinality(waits) <= 1
             /\ swap[i].isAssociated => waits = {}
             /\ ~swap[i].isAssociated /\ opNow - swap[i].timestamp <= 3 * BucketLength =>
                   waits # {}
  <2>1. ASSUME NEW b \in waits
        PROVE  b \in 1..4 /\ ~swap[i].isAssociated /\ \A c \in waits : c = b
    BY <1>2, <2>1 DEF SwapsOK, BufferOK, BucketOK, BucketsApart
  <2>2. Cardinality(waits) <= 1
    <3>1. CASE waits = {} BY <3>1, FS_EmptySet
    <3>2. CASE waits # {}
      <4>1. PICK b \in waits : TRUE BY <3>2
      <4>2. waits = {b} BY <2>1, <4>1
      <4>3. Cardinality({b}) = 1 BY FS_Singleton
      <4>. QED  BY <4>2, <4>3
    <3>. QED  BY <3>1, <3>2
  <2>3. Op!Cardinality(waits) = Cardinality(waits) BY DEF Op!Cardinality, Cardinality
  <2>4. SwapOK(opNow, swap, buffer, i) /\ swap[i].timestamp \in Nat
    <3>1. swap[i] \in OpSwap BY <1>1, <1>2
    <3>. QED  BY <1>2, <3>1 DEF SwapsOK, OpSwap
  <2>5. ~swap[i].isAssociated /\ opNow - swap[i].timestamp <= 3 * BucketLength => waits # {}
    BY <2>4, <1>2 DEF OpAssumed, SwapOK, Waits
  <2>. QED  BY <2>1, <2>2, <2>3, <2>5
<1>. QED  BY <1>1, <1>2 DEF Op!SwapsKept

-----------------------------------------------------------------------------
(* What the positions of a Safe cost.                                      *)

LEMMA OpSum == ASSUME NEW f PROVE Op!SumFunction(f) = SumFunction(f)
<1>1. ASSUME NEW S PROVE Op!SumFunctionOnSet(f, S) = (CHOOSE g : AddsUp(f, S, g))[S]
  BY DEF Op!SumFunctionOnSet, Op!FoldFunctionOnSet, Op!MapThenFoldSet, AddsUp, FirstOf
<1>. QED  BY <1>1, SumIsFold DEF Op!SumFunction, SumFunction

\* The slippage of the swaps ids of s.
SlippageIn(s, ids) == SumFunction([i \in ids |-> s[i].slippageUSD])

LEMMA SlippageTyped ==
    ASSUME NEW s \in Seq(OpSwap), NEW ids \in SUBSET (1..Len(s))
    PROVE  IsFiniteSet(ids) /\ SlippageIn(s, ids) \in Int /\ \A i \in ids : s[i].slippageUSD \in Int
<1>1. IsFiniteSet(ids)
  <2>1. Len(s) \in Nat /\ IsFiniteSet(1..Len(s)) BY FS_Interval
  <2>. QED  BY <2>1, FS_Subset
<1>2. ASSUME NEW i \in ids PROVE s[i].slippageUSD \in Int
  <2>1. s[i] \in OpSwap OBVIOUS
  <2>. QED  BY <2>1 DEF OpSwap
<1>3. PICK f : f = [i \in ids |-> s[i].slippageUSD] OBVIOUS
<1>4. IsFiniteSet(DOMAIN f) /\ \A i \in DOMAIN f : f[i] \in Int BY <1>1, <1>2, <1>3
<1>5. SumFunction(f) \in Int BY ONLY <1>4, SumFunctionType
<1>. QED  BY <1>1, <1>2, <1>3, <1>5 DEF SlippageIn

LEMMA SlippageAgrees ==
    ASSUME NEW s \in Seq(OpSwap), NEW ids \in SUBSET (1..Len(s)), NEW next,
           \A i \in ids : next[i].slippageUSD = s[i].slippageUSD
    PROVE  SlippageIn(next, ids) = SlippageIn(s, ids)
BY DEF SlippageIn

\* A sum over a part of the domain, the rest counted as nothing.
LEMMA SumOfPart ==
    ASSUME NEW f, NEW g, IsFiniteSet(DOMAIN f), DOMAIN g \subseteq DOMAIN f,
           \A i \in DOMAIN g : g[i] \in Int,
           \A i \in DOMAIN f : f[i] = IF i \in DOMAIN g THEN g[i] ELSE 0
    PROVE  SumFunction(f) = SumFunction(g)
BY SumSupport, FS_Subset, SumCongruence DEF SumFunction

LEMMA SlippageJoined ==
    ASSUME NEW s \in Seq(OpSwap), NEW ids \in SUBSET (1..Len(s)), NEW more \in SUBSET (1..Len(s)),
           ids \cap more = {}
    PROVE  SlippageIn(s, ids \cup more) = SlippageIn(s, ids) + SlippageIn(s, more)
<1>1. PICK all : all = ids \cup more OBVIOUS
<1>2. all \in SUBSET (1..Len(s)) BY <1>1
<1>3. IsFiniteSet(all) /\ \A i \in all : s[i].slippageUSD \in Int BY <1>2, SlippageTyped
<1>4. PICK f, g, d, e : /\ f = [i \in all |-> IF i \in ids THEN s[i].slippageUSD ELSE 0]
                        /\ g = [i \in all |-> s[i].slippageUSD]
                        /\ d = [i \in more |-> s[i].slippageUSD]
                        /\ e = [i \in ids |-> s[i].slippageUSD]
  OBVIOUS
<1>5. /\ DOMAIN f = all /\ DOMAIN g = all /\ DOMAIN d = more /\ DOMAIN e = ids
      /\ more \subseteq all /\ ids \subseteq all
      /\ \A i \in all : f[i] \in Int
      /\ \A i \in more : d[i] \in Int
      /\ \A i \in ids : e[i] \in Int
      /\ \A i \in all : f[i] = IF i \in ids THEN e[i] ELSE 0
      /\ \A i \in all : g[i] = IF i \in more THEN f[i] + d[i] ELSE f[i]
  <2>1. \A i \in all : (i \in ids /\ i \notin more) \/ (i \in more /\ i \notin ids) BY <1>1
  <2>2. \A i \in all : /\ g[i] = s[i].slippageUSD
                       /\ f[i] = IF i \in ids THEN s[i].slippageUSD ELSE 0
    BY <1>4
  <2>3. \A i \in more : i \in all /\ d[i] = s[i].slippageUSD BY <1>1, <1>4
  <2>4. \A i \in ids : i \in all /\ e[i] = s[i].slippageUSD BY <1>1, <1>4
  <2>5. ASSUME NEW i \in all PROVE g[i] = IF i \in more THEN f[i] + d[i] ELSE f[i]
    <3>1. PICK c : c = s[i].slippageUSD OBVIOUS
    <3>2. c \in Int /\ g[i] = c /\ f[i] = IF i \in ids THEN c ELSE 0 BY <1>3, <2>2, <3>1
    <3>3. i \in more => d[i] = c BY <2>3, <3>1
    <3>. QED  BY ONLY <2>1, <3>2, <3>3, i \in all
  <2>. QED  BY <1>3, <1>4, <2>2, <2>3, <2>4, <2>5
<1>6. SumFunction(g) = SumFunction(f) + SumFunction(d)
  <2>1. /\ IsFiniteSet(DOMAIN f) /\ DOMAIN g = DOMAIN f /\ DOMAIN d \subseteq DOMAIN f
        /\ \A i \in DOMAIN f : f[i] \in Int
        /\ \A i \in DOMAIN d : d[i] \in Int
        /\ \A i \in DOMAIN f : g[i] = IF i \in DOMAIN d THEN f[i] + d[i] ELSE f[i]
    BY <1>3, <1>5
  <2>. QED  BY ONLY <2>1, SumRaise
<1>7. SumFunction(f) = SumFunction(e) BY ONLY <1>3, <1>5, SumOfPart
<1>. QED  BY <1>1, <1>4, <1>6, <1>7 DEF SlippageIn

\* The losses alone are as much, and no gain.
LosingIn(s, ids) == {i \in ids : s[i].slippageUSD > 0}

LEMMA LossesAreMore ==
    ASSUME NEW s \in Seq(OpSwap), NEW ids \in SUBSET (1..Len(s))
    PROVE  /\ SlippageIn(s, LosingIn(s, ids)) \in Nat
           /\ SlippageIn(s, ids) <= SlippageIn(s, LosingIn(s, ids))
<1>1. IsFiniteSet(ids) /\ \A i \in ids : s[i].slippageUSD \in Int BY SlippageTyped
<1>2. PICK lost : lost = LosingIn(s, ids) OBVIOUS
<1>3. PICK f, g, d, e :
         /\ f = [i \in ids |-> s[i].slippageUSD]
         /\ g = [i \in ids |-> IF i \in lost THEN s[i].slippageUSD ELSE 0]
         /\ d = [i \in ids |-> IF i \in lost THEN 0 ELSE -s[i].slippageUSD]
         /\ e = [i \in lost |-> s[i].slippageUSD]
  OBVIOUS
<1>4. /\ lost \subseteq ids
      /\ \A i \in ids : i \in lost <=> s[i].slippageUSD > 0
  BY <1>2 DEF LosingIn
<1>5. /\ DOMAIN f = ids /\ DOMAIN g = ids /\ DOMAIN d = ids /\ DOMAIN e = lost
      /\ \A i \in ids : f[i] \in Int /\ d[i] \in Int /\ d[i] >= 0 /\ g[i] = f[i] + d[i]
      /\ \A i \in lost : e[i] \in Int /\ e[i] >= 0
      /\ \A i \in ids : g[i] = IF i \in lost THEN e[i] ELSE 0
  <2>1. ASSUME NEW i \in ids
        PROVE  /\ f[i] \in Int /\ d[i] \in Int /\ d[i] >= 0 /\ g[i] = f[i] + d[i]
               /\ i \in lost => e[i] \in Int /\ e[i] >= 0
               /\ g[i] = IF i \in lost THEN e[i] ELSE 0
    BY <1>1, <1>4, <1>3
  <2>. QED  BY <1>3, <1>4, <2>1
<1>6. SumFunction(g) = SumFunction(f) + SumFunction(d)
  BY ONLY <1>1, <1>5, SumRaise
<1>7. SumFunction(f) \in Int /\ SumFunction(d) \in Nat BY ONLY <1>1, <1>5, SumFunctionType
<1>8. SumFunction(e) \in Nat BY <1>1, <1>4, FS_Subset, <1>5, SumFunctionType
<1>9. SumFunction(g) = SumFunction(e) BY ONLY <1>1, <1>4, <1>5, SumOfPart
<1>10. SumFunction(f) <= SumFunction(e) BY ONLY <1>6, <1>7, <1>8, <1>9
<1>. QED  BY <1>2, <1>3, <1>8, <1>10 DEF SlippageIn

CostColumn(rows) == Column(rows, "costs")
CostsOf(rows, x) == GroupSum(CostColumn(rows), x)
ChargedTo(s, x) == {i \in 1..Len(s) : s[i].agent = x /\ s[i].isAssociated}

\* The rows of a Safe cost what its swaps lost, but for gains.
CostsRight(s, rows, x) ==
    /\ CostsOf(rows, x) \in Int
    /\ SlippageIn(s, ChargedTo(s, x)) <= CostsOf(rows, x)
    /\ CostsOf(rows, x) <= SlippageIn(s, LosingIn(s, ChargedTo(s, x)))

CostsOK(s, rows) == \A x \in OpSafes : CostsRight(s, rows, x)

\* A row is written that costs c more than it did; the others cost the same.
CostRaised(rows, next, key, c) ==
    /\ DOMAIN next = DOMAIN rows \cup {key}
    /\ next[key].costs = Before(CostColumn(rows), key) + c
    /\ \A j \in DOMAIN rows : j # key => next[j].costs = rows[j].costs

CostsSame(rows, next) ==
    DOMAIN next = DOMAIN rows /\ \A key \in DOMAIN rows : next[key].costs = rows[key].costs

LEMMA CostColumnTyped ==
    ASSUME NEW rows, OpRowsTyped(rows)
    PROVE  /\ IsFiniteSet(DOMAIN CostColumn(rows)) /\ AllIntegers(CostColumn(rows))
           /\ DOMAIN CostColumn(rows) = DOMAIN rows
           /\ \A key \in DOMAIN rows : CostColumn(rows)[key] = rows[key].costs
BY DEF CostColumn, Column, OpRowsTyped, PartialFn, OpRow, AllIntegers

LEMMA CostsRaised ==
    ASSUME NEW rows, OpRowsTyped(rows), NEW next, NEW x, NEW m, NEW c \in Int,
           CostRaised(rows, next, <<x, m>>, c), NEW y
    PROVE  CostsOf(next, y) = IF y = x THEN CostsOf(rows, y) + c ELSE CostsOf(rows, y)
<1>1. PICK f, g, key : f = CostColumn(rows) /\ g = CostColumn(next) /\ key = <<x, m>> OBVIOUS
<1>2. /\ IsFiniteSet(DOMAIN f) /\ AllIntegers(f) /\ DOMAIN f = DOMAIN rows
      /\ \A j \in DOMAIN rows : f[j] = rows[j].costs
  BY <1>1, CostColumnTyped
<1>3. DOMAIN g = DOMAIN next /\ \A j \in DOMAIN next : g[j] = next[j].costs
  BY <1>1 DEF CostColumn, Column
<1>4. /\ DOMAIN g = DOMAIN f \cup {key} /\ g[key] = Before(f, key) + c
      /\ \A j \in DOMAIN f : j # key => g[j] = f[j]
  BY <1>1, <1>2, <1>3 DEF CostRaised
<1>5. CASE y = x BY <1>1, <1>4, <1>2, c \in Int, GroupPut, <1>5 DEF CostsOf
<1>6. CASE y # x BY <1>1, <1>4, <1>6, <1>2, GroupSame DEF CostsOf
<1>. QED  BY <1>5, <1>6

LEMMA CostsKept ==
    ASSUME NEW rows, OpRowsTyped(rows), NEW next, CostsSame(rows, next), NEW y
    PROVE  CostsOf(next, y) = CostsOf(rows, y)
BY CostColumnTyped, GroupSame DEF CostColumn, Column, CostsSame, CostsOf

\* The rows are written without a charge, the swaps the same.
LEMMA NothingCharged ==
    ASSUME NEW s, NEW rows, OpRowsTyped(rows), CostsOK(s, rows), NEW next,
           \/ CostsSame(rows, next)
           \/ \E x, m : CostRaised(rows, next, <<x, m>>, 0)
    PROVE  CostsOK(s, next)
<1>1. ASSUME NEW y \in OpSafes PROVE CostsRight(s, next, y)
  <2>1. CostsRight(s, rows, y) BY DEF CostsOK
  <2>2. CostsOf(next, y) = CostsOf(rows, y)
    <3>1. CASE CostsSame(rows, next) BY <3>1, CostsKept
    <3>2. CASE \E x, m : CostRaised(rows, next, <<x, m>>, 0)
      BY <3>2, CostsRaised, <2>1 DEF CostsRight
    <3>. QED  BY <3>1, <3>2
  <2>. QED  BY <2>1, <2>2 DEF CostsRight
<1>. QED  BY <1>1 DEF CostsOK

\* A new swap is charged to nobody yet.
LEMMA NewSwapNotCharged ==
    ASSUME NEW s \in Seq(OpSwap), NEW rows, CostsOK(s, rows), NEW next, NEW x,
           SwapAppended(s, next, x)
    PROVE  CostsOK(next, rows)
<1>1. /\ Len(s) \in Nat /\ Len(next) = Len(s) + 1 /\ ~next[Len(s) + 1].isAssociated
      /\ \A i \in 1..Len(s) : next[i] = s[i]
  BY DEF SwapAppended
<1>2. ASSUME NEW y \in OpSafes PROVE CostsRight(next, rows, y)
  <2>1. PICK ids : ids = ChargedTo(s, y) OBVIOUS
  <2>2. \A i \in 1..Len(next) : i = Len(s) + 1 \/ i \in 1..Len(s) BY <1>1
  <2>3. \A i \in 1..Len(s) : i \in 1..Len(next) BY <1>1
  <2>4. ChargedTo(next, y) = ids BY <1>1, <2>1, <2>2, <2>3 DEF ChargedTo
  <2>5. ids \in SUBSET (1..Len(s)) BY <2>1 DEF ChargedTo
  <2>6. \A i \in ids : next[i] = s[i] BY <1>1, <2>5
  <2>7. LosingIn(next, ids) = LosingIn(s, ids) /\ LosingIn(s, ids) \in SUBSET (1..Len(s))
    BY <2>5, <2>6 DEF LosingIn
  <2>8. PICK lost : lost = LosingIn(s, ids) OBVIOUS
  <2>9. SlippageIn(next, ids) = SlippageIn(s, ids) BY <2>5, <2>6, SlippageAgrees
  <2>10. SlippageIn(next, lost) = SlippageIn(s, lost)
    BY <2>6, <2>7, <2>8, SlippageAgrees DEF LosingIn
  <2>11. CostsRight(s, rows, y) BY DEF CostsOK
  <2>. QED  BY <2>1, <2>4, <2>7, <2>8, <2>9, <2>10, <2>11 DEF CostsRight
<1>. QED  BY <1>2 DEF CostsOK

\* What a row is charged that takes the swaps ids.
ChargeOf(s, ids) == IF SlippageIn(s, ids) < 0 THEN 0 ELSE SlippageIn(s, ids)

LEMMA RowCharged ==
    ASSUME NEW s \in Seq(OpSwap), NEW rows, OpRowsTyped(rows), CostsOK(s, rows), NEW x, NEW m,
           NEW ids \in SUBSET (1..Len(s)),
           \A i \in ids : s[i].agent = x /\ ~s[i].isAssociated,
           NEW marked, SwapsMarked(s, marked, ids), NEW next,
           CostRaised(rows, next, <<x, m>>, ChargeOf(s, ids))
    PROVE  CostsOK(marked, next)
<1>1. PICK c : c = ChargeOf(s, ids) OBVIOUS
<1>2. SlippageIn(s, ids) \in Int BY SlippageTyped
<1>3. c \in Int /\ c >= 0 /\ SlippageIn(s, ids) <= c
      /\ (c = 0 \/ c = SlippageIn(s, ids))
  BY <1>1, <1>2 DEF ChargeOf
<1>4. /\ Len(s) \in Nat /\ Len(marked) = Len(s)
      /\ \A i \in 1..Len(s) :
            /\ marked[i].agent = s[i].agent /\ marked[i].slippageUSD = s[i].slippageUSD
            /\ marked[i].isAssociated <=> s[i].isAssociated \/ i \in ids
  BY DEF SwapsMarked
<1>5. ASSUME NEW y \in OpSafes PROVE CostsRight(marked, next, y)
  <2>1. PICK before, costs : before = ChargedTo(s, y) /\ costs = CostsOf(rows, y) OBVIOUS
  <2>2. before \in SUBSET (1..Len(s)) /\ LosingIn(s, before) \in SUBSET (1..Len(s))
    BY <2>1 DEF ChargedTo, LosingIn
  <2>3. /\ costs \in Int /\ SlippageIn(s, before) <= costs
        /\ costs <= SlippageIn(s, LosingIn(s, before))
    BY <2>1 DEF CostsOK, CostsRight
  <2>4. CostsOf(next, y) = IF y = x THEN costs + c ELSE costs
    BY <1>1, <1>3, <2>1, CostsRaised
  <2>5. SlippageIn(s, before) \in Int /\ SlippageIn(s, LosingIn(s, before)) \in Int
    BY <2>2, SlippageTyped
  <2>6. ASSUME NEW all \in SUBSET (1..Len(s))
        PROVE  /\ SlippageIn(marked, all) = SlippageIn(s, all)
               /\ SlippageIn(marked, LosingIn(marked, all)) = SlippageIn(s, LosingIn(s, all))
    <3>1. \A i \in all : marked[i].slippageUSD = s[i].slippageUSD BY <1>4
    <3>2. LosingIn(marked, all) = LosingIn(s, all) BY <3>1 DEF LosingIn
    <3>3. PICK lost : lost = LosingIn(s, all) OBVIOUS
    <3>4. lost \in SUBSET (1..Len(s)) /\ \A i \in lost : marked[i].slippageUSD = s[i].slippageUSD
      BY <3>1, <3>3 DEF LosingIn
    <3>5. SlippageIn(marked, lost) = SlippageIn(s, lost) BY <3>4, SlippageAgrees
    <3>. QED  BY <3>1, <3>2, <3>3, <3>5, SlippageAgrees
  <2>7. CASE y = x
    <3>1. ChargedTo(marked, y) = before \cup ids
      <4>1. \A i \in ids : i \in 1..Len(s) /\ marked[i].agent = y /\ marked[i].isAssociated
        BY <1>4, <2>7
      <4>2. \A i \in 1..Len(s) :
               marked[i].agent = y /\ marked[i].isAssociated <=> i \in before \/ i \in ids
        BY <1>4, <2>1, <4>1 DEF ChargedTo
      <4>. QED  BY <1>4, <2>2, <4>2 DEF ChargedTo
    <3>2. before \cap ids = {} BY <2>1 DEF ChargedTo
    <3>3. SlippageIn(s, before \cup ids) = SlippageIn(s, before) + SlippageIn(s, ids)
      BY <2>2, <3>2, SlippageJoined
    <3>4. PICK lost, more : lost = LosingIn(s, before) /\ more = LosingIn(s, ids) OBVIOUS
    <3>5. /\ lost \in SUBSET (1..Len(s)) /\ more \in SUBSET (1..Len(s)) /\ lost \cap more = {}
          /\ LosingIn(s, before \cup ids) = lost \cup more
      BY <2>2, <3>2, <3>4 DEF LosingIn
    <3>6. SlippageIn(s, lost \cup more) = SlippageIn(s, lost) + SlippageIn(s, more)
      BY <3>5, SlippageJoined
    <3>7. SlippageIn(s, more) \in Nat /\ SlippageIn(s, ids) <= SlippageIn(s, more)
      BY <3>4, LossesAreMore
    <3>8. before \cup ids \in SUBSET (1..Len(s)) BY <2>2
    <3>9. /\ SlippageIn(marked, before \cup ids) = SlippageIn(s, before) + SlippageIn(s, ids)
          /\ SlippageIn(marked, LosingIn(marked, before \cup ids))
                = SlippageIn(s, lost) + SlippageIn(s, more)
      BY <2>6, <3>3, <3>5, <3>6, <3>8
    <3>10. PICK a, b, d, e : /\ a = SlippageIn(s, before) /\ b = SlippageIn(s, ids)
                             /\ d = SlippageIn(s, lost) /\ e = SlippageIn(s, more)
      OBVIOUS
    <3>11. a \in Int /\ b \in Int /\ d \in Int /\ e \in Nat /\ a <= costs /\ costs <= d /\ b <= e
      BY <1>2, <2>3, <2>5, <3>4, <3>7, <3>10
    <3>12. costs + c \in Int /\ a + b <= costs + c /\ costs + c <= d + e
      BY ONLY <1>3, <2>3, <3>10, <3>11
    <3>. QED  BY <2>4, <2>7, <3>1, <3>9, <3>10, <3>12 DEF CostsRight
  <2>8. CASE y # x
    <3>1. ChargedTo(marked, y) = before BY <2>8, <1>4, <2>1 DEF ChargedTo
    <3>. QED  BY <2>2, <2>3, <2>4, <2>6, <2>8, <3>1 DEF CostsRight
  <2>. QED  BY <2>7, <2>8
<1>. QED  BY <1>5 DEF CostsOK

-----------------------------------------------------------------------------
(* Flows of n in the logs l still to be handled, at price p, whatever n    *)
(* is: k are the logs after a step.                                        *)

AnyFlow(n, l) == \E i \in 1..Len(l) : IsFlow(l[i], n)
NoOut(n, l) == \A i \in 1..Len(l) : ~IsDecrease(l[i], n)
LastOut(n, out, p, l) ==
    \E i \in 1..Len(l) : /\ IsDecrease(l[i], n) /\ l[i].amount * p = out
                         /\ \A j \in (i + 1)..Len(l) : ~IsDecrease(l[j], n)

\* What was taken out last is shown, if only the exits in shown are, or is in the last log of an
\* exit.
OutOK(n, shown, out, p, l) == (out \in shown /\ NoOut(n, l)) \/ LastOut(n, out, p, l)

LEMMA OutHandled ==
    ASSUME NEW n, NEW shown, NEW out, NEW p, NEW l, NEW k, OutOK(n, shown, out, p, l),
           TailOf(l, k), NEW next,
           IF IsDecrease(l[1], n) THEN l[1].amount * p \in next ELSE shown \subseteq next
    PROVE  OutOK(n, next, out, p, k)
<1>1. Len(l) \in Nat /\ Len(k) \in Nat /\ Len(l) = Len(k) + 1 BY DEF TailOf
<1>2. CASE out \in shown /\ NoOut(n, l) BY <1>1, <1>2, TailPlaces DEF NoOut, OutOK
<1>3. CASE LastOut(n, out, p, l)
  <2>1. PICK i \in 1..Len(l) : /\ IsDecrease(l[i], n) /\ l[i].amount * p = out
                               /\ \A j \in (i + 1)..Len(l) : ~IsDecrease(l[j], n)
    BY <1>3 DEF LastOut
  <2>2. CASE i = 1
    <3>1. ASSUME NEW u \in 1..Len(k) PROVE ~IsDecrease(k[u], n) BY <1>1, <2>2, <2>1 DEF TailOf
    <3>. QED  BY <2>1, <2>2, <3>1 DEF OutOK, NoOut
  <2>3. CASE i # 1
    <3>1. PICK u \in 1..Len(k) : i = u + 1 /\ k[u] = l[i] BY <2>3, TailPlaces
    <3>2. ASSUME NEW j \in (u + 1)..Len(k) PROVE ~IsDecrease(k[j], n)
      BY <1>1, <3>1, <2>1 DEF TailOf
    <3>. QED  BY <2>1, <3>1, <3>2 DEF OutOK, LastOut
  <2>. QED  BY <2>2, <2>3
<1>. QED  BY <1>2, <1>3 DEF OutOK

LEMMA OutKept ==
    ASSUME NEW n, NEW shown, NEW out, NEW p, NEW l, NEW k, OutOK(n, shown, out, p, l),
           Extends(l, k), \A i \in After(l, k) : ~IsDecrease(k[i], n)
    PROVE  OutOK(n, shown, out, p, k)
<1>1. CASE out \in shown /\ NoOut(n, l) BY <1>1, ExtendsPlaces DEF OutOK, NoOut
<1>2. CASE LastOut(n, out, p, l)
  <2>1. PICK i \in 1..Len(l) : /\ IsDecrease(l[i], n) /\ l[i].amount * p = out
                               /\ \A j \in (i + 1)..Len(l) : ~IsDecrease(l[j], n)
    BY <1>2 DEF LastOut
  <2>2. i \in 1..Len(k) /\ k[i] = l[i] BY ExtendsPlaces
  <2>3. ASSUME NEW j \in (i + 1)..Len(k) PROVE ~IsDecrease(k[j], n)
    <3>1. j \in 1..Len(k) BY DEF Extends
    <3>2. CASE j \in 1..Len(l) BY <3>2, ExtendsPlaces, <2>1
    <3>. QED  BY <3>1, <3>2, ExtendsPlaces
  <2>. QED  BY <2>1, <2>2, <2>3 DEF OutOK, LastOut
<1>. QED  BY <1>1, <1>2 DEF OutOK

LEMMA OutNew ==
    ASSUME NEW n, NEW shown, NEW out, NEW p, NEW l, NEW k, Extends(l, k), NEW i \in After(l, k),
           IsDecrease(k[i], n), k[i].amount * p = out,
           \A j \in After(l, k) : j # i => ~IsDecrease(k[j], n)
    PROVE  OutOK(n, shown, out, p, k)
BY ExtendsPlaces DEF Extends, After, OutOK, LastOut

LEMMA FlowLater ==
    ASSUME NEW n, NEW l, NEW k, TailOf(l, k), ~IsFlow(l[1], n), AnyFlow(n, l)
    PROVE  AnyFlow(n, k)
BY TailPlaces DEF AnyFlow

LEMMA FlowKept ==
    ASSUME NEW n, NEW l, NEW k, Extends(l, k),
           AnyFlow(n, l) \/ \E i \in After(l, k) : IsFlow(k[i], n)
    PROVE  AnyFlow(n, k)
BY ExtendsPlaces DEF AnyFlow

\* One log more that adds something.
LEMMA AddsOne ==
    ASSUME NEW n, NEW first, NEW last, NEW p, NEW l, NEW k, Adds(n, first, last, p, l),
           Extends(l, k), NEW at \in After(l, k), PutBy(k[at], n, p) \in Int,
           \A i \in After(l, k) : i # at => ~IsIncrease(k[i], n)
    PROVE  Adds(n, first, last + PutBy(k[at], n, p), p, k)
<1>1. PICK sum \in [0..Len(l) -> Int] :
         /\ sum[0] = first /\ sum[Len(l)] = last
         /\ \A i \in 1..Len(l) : sum[i] = sum[i - 1] + PutBy(l[i], n, p)
  BY DEF Adds
<1>2. /\ Len(l) \in Nat /\ Len(k) \in Nat /\ Len(l) <= Len(k)
      /\ \A i \in 1..Len(l) : k[i] = l[i]
  BY DEF Extends
<1>3. PICK c : c = PutBy(k[at], n, p) OBVIOUS
<1>4. last \in Int /\ c \in Int /\ at \in (Len(l) + 1)..Len(k) /\ last + c \in Int
  BY <1>1, <1>2, <1>3 DEF After
<1>5. PICK more : more = [i \in 0..Len(k) |-> IF i <= Len(l) THEN sum[i]
                                              ELSE IF i < at THEN last ELSE last + c]
  OBVIOUS
<1>6. /\ \A i \in 0..Len(l) : more[i] = sum[i] /\ sum[i] \in Int
      /\ \A i \in Len(l)..(at - 1) : more[i] = last
      /\ \A i \in at..Len(k) : more[i] = last + c
  <2>1. ASSUME NEW i \in 0..Len(l) PROVE more[i] = sum[i] /\ sum[i] \in Int BY <1>2, <1>1, <1>5
  <2>2. ASSUME NEW i \in Len(l)..(at - 1) PROVE more[i] = last BY <1>2, <1>4, <1>1, <1>5
  <2>3. ASSUME NEW i \in at..Len(k) PROVE more[i] = last + c BY <1>2, <1>4, <1>5
  <2>. QED  BY ONLY <2>1, <2>2, <2>3
<1>7. more \in [0..Len(k) -> Int] BY <1>2, <1>4, <1>5, <1>6
<1>8. more[0] = first /\ more[Len(k)] = last + c BY <1>2, <1>4, <1>1, <1>6
<1>9. ASSUME NEW i \in 1..Len(k) PROVE more[i] = more[i - 1] + PutBy(k[i], n, p)
  <2>1. CASE i \in 1..Len(l) BY <1>2, <2>1, <1>1, <1>6
  <2>2. CASE i = at
    <3>1. i \in at..Len(k) /\ i - 1 \in Len(l)..(at - 1) BY <1>2, <1>4, <2>2
    <3>. QED  BY <1>3, <1>6, <2>2, <3>1
  <2>3. CASE i \notin 1..Len(l) /\ i # at
    <3>1. i \in After(l, k) BY <1>2, <2>3 DEF After
    <3>2. PutBy(k[i], n, p) = 0 BY <2>3, <3>1 DEF PutBy
    <3>3. CASE i < at
      <4>1. i \in Len(l)..(at - 1) /\ i - 1 \in Len(l)..(at - 1) BY <1>2, <1>4, <2>3, <3>3
      <4>. QED  BY <1>4, <1>6, <3>2, <4>1
    <3>4. CASE ~(i < at)
      <4>1. i \in at..Len(k) /\ i - 1 \in at..Len(k) BY <1>2, <1>4, <2>3, <3>4
      <4>. QED  BY <1>4, <1>6, <3>2, <4>1
    <3>. QED  BY <3>3, <3>4
  <2>. QED  BY <2>1, <2>2, <2>3
<1>. QED  BY <1>3, <1>7, <1>8, <1>9 DEF Adds

-----------------------------------------------------------------------------
(* Uniswap V3: r is the NFT n on the chain, rows the positions.            *)

\* It is still with the Safe it was made for.
Own(r) == r.state = "live" /\ r.owner = r.home

UniBorn(n, r, rows, l) ==
    /\ r.state = "unborn" => ~AnyFlow(n, l) /\ \A key \in DOMAIN rows : key[2] # n
    /\ r.state # "unborn" => r.home \in OpSafes /\ r.owner \in {r.home, OpOutsider, OpZero}

\* It has a row, or one is made before its first exit is handled.
UniMade(n, r, rows, l) ==
    \/ KeyOf(n, r) \in DOMAIN rows
    \/ \E i \in 1..Len(l) : IsIncrease(l[i], n) /\ \A j \in 1..i : ~IsDecrease(l[j], n)

\* The exits that its row shows: none before it is closed.
ExitsOf(n, r, rows) ==
    {e \in Int : /\ KeyOf(n, r) \in DOMAIN rows
                 /\ ~rows[KeyOf(n, r)].active /\ rows[KeyOf(n, r)].exited
                 /\ e = rows[KeyOf(n, r)].exit}

\* What an active row shows.
UniShows(n, r, rows) == ActiveRow(n, r, rows) => rows[KeyOf(n, r)].liquidity = r.liquidity

UniClosed(n, r, rows) ==
    KeyOf(n, r) \in DOMAIN rows => rows[KeyOf(n, r)].active \/ rows[KeyOf(n, r)].exited

UniOwned(n, r, in, out, p, rows, l) ==
    /\ UniMade(n, r, rows, l) /\ Adds(n, EntryOf(n, r, rows), in, p, l)
    /\ r.liquidity = 0 => OutOK(n, ExitsOf(n, r, rows), out, p, l)
    /\ UniShows(n, r, rows) \/ AnyFlow(n, l)
    /\ UniClosed(n, r, rows)

UniOK(n, r, in, out, p, rows, l) ==
    UniBorn(n, r, rows, l) /\ (Own(r) => UniOwned(n, r, in, out, p, rows, l))

\* The row becomes next, by a log that is no flow, or by none.
UniSame(n, r, rows, next) ==
    /\ KeyOf(n, r) \in DOMAIN rows => KeyOf(n, r) \in DOMAIN next
    /\ EntryOf(n, r, next) = EntryOf(n, r, rows)
    /\ ExitsOf(n, r, rows) \subseteq ExitsOf(n, r, next)
    /\ UniShows(n, r, rows) => UniShows(n, r, next)
    /\ UniClosed(n, r, rows) => UniClosed(n, r, next)

\* The row becomes next, by a flow e.
UniFlows(n, r, e, p, rows, next) ==
    /\ KeyOf(n, r) \in DOMAIN next
    /\ EntryOf(n, r, next) = EntryOf(n, r, rows) + PutBy(e, n, p)
    /\ r.liquidity = 0 => IF IsDecrease(e, n) THEN e.amount * p \in ExitsOf(n, r, next)
                          ELSE ExitsOf(n, r, rows) \subseteq ExitsOf(n, r, next)
    /\ UniShows(n, r, next) /\ UniClosed(n, r, next)

NoRowsOf(n, rows, next) ==
    (\A key \in DOMAIN rows : key[2] # n) => \A key \in DOMAIN next : key[2] # n

LEMMA UniBornHandled ==
    ASSUME NEW n, NEW r, NEW rows, NEW l, UniBorn(n, r, rows, l), NEW k, TailOf(l, k), NEW next,
           r.state = "unborn" => NoRowsOf(n, rows, next)
    PROVE  UniBorn(n, r, next, k)
BY TailPlaces DEF AnyFlow, UniBorn, NoRowsOf

\* A log that is no flow of its is handled.
LEMMA UniQuiet ==
    ASSUME NEW n, NEW r, NEW in, NEW out, NEW p, NEW rows, NEW l,
           UniOK(n, r, in, out, p, rows, l), NEW k, TailOf(l, k), ~IsFlow(l[1], n), NEW next,
           EntryOf(n, r, rows) \in Int,
           r.state = "unborn" => NoRowsOf(n, rows, next),
           Own(r) => UniSame(n, r, rows, next)
    PROVE  UniOK(n, r, in, out, p, next, k)
<1>1. UniBorn(n, r, next, k) BY UniBornHandled DEF UniOK
<1>2. ~IsIncrease(l[1], n) /\ ~IsDecrease(l[1], n) BY DEF IsFlow
<1>3. ASSUME Own(r) PROVE UniOwned(n, r, in, out, p, next, k)
  <2>1. /\ UniMade(n, r, rows, l) /\ Adds(n, EntryOf(n, r, rows), in, p, l)
        /\ r.liquidity = 0 => OutOK(n, ExitsOf(n, r, rows), out, p, l)
        /\ UniShows(n, r, rows) \/ AnyFlow(n, l)
        /\ UniClosed(n, r, rows)
    BY <1>3 DEF UniOK, UniOwned
  <2>2. UniMade(n, r, next, k)
    <3>1. ASSUME NEW i \in 1..Len(l), IsIncrease(l[i], n), \A j \in 1..i : ~IsDecrease(l[j], n)
          PROVE  \E u \in 1..Len(k) : IsIncrease(k[u], n) /\ \A j \in 1..u : ~IsDecrease(k[j], n)
      <4>1. PICK u \in 1..Len(k) : i = u + 1 /\ k[u] = l[i] BY <1>2, <3>1, TailPlaces
      <4>2. \A j \in 1..u : j + 1 \in 1..i /\ k[j] = l[j + 1] BY <4>1 DEF TailOf
      <4>. QED  BY <3>1, <4>1, <4>2
    <3>. QED  BY <1>3, <2>1, <3>1 DEF UniMade, UniSame
  <2>3. Adds(n, EntryOf(n, r, next), in, p, k) BY <1>2, <2>1, AddsAfter, <1>3 DEF PutBy, UniSame
  <2>4. r.liquidity = 0 => OutOK(n, ExitsOf(n, r, next), out, p, k)
    BY <1>3, <1>2, <2>1, OutHandled DEF UniSame
  <2>5. UniShows(n, r, next) \/ AnyFlow(n, k) BY <1>3, <2>1, FlowLater DEF UniSame
  <2>. QED  BY <1>3, <2>1, <2>2, <2>3, <2>4, <2>5 DEF UniOwned, UniSame
<1>. QED  BY <1>1, <1>3 DEF UniOK

LEMMA UniFlow ==
    ASSUME NEW n, NEW r, NEW in, NEW out, NEW p, NEW rows, NEW l,
           UniOK(n, r, in, out, p, rows, l), NEW k, TailOf(l, k), NEW next,
           r.state = "unborn" => NoRowsOf(n, rows, next),
           Own(r) => UniFlows(n, r, l[1], p, rows, next)
    PROVE  UniOK(n, r, in, out, p, next, k)
<1>1. UniBorn(n, r, next, k) BY UniBornHandled DEF UniOK
<1>2. ASSUME Own(r) PROVE UniOwned(n, r, in, out, p, next, k)
  <2>1. /\ Adds(n, EntryOf(n, r, rows), in, p, l)
        /\ r.liquidity = 0 => OutOK(n, ExitsOf(n, r, rows), out, p, l)
    BY <1>2 DEF UniOK, UniOwned
  <2>2. UniFlows(n, r, l[1], p, rows, next) BY <1>2
  <2>3. UniMade(n, r, next, k) BY <2>2 DEF UniFlows, UniMade
  <2>4. Adds(n, EntryOf(n, r, next), in, p, k) BY <2>1, <2>2, AddsAfter DEF UniFlows
  <2>5. r.liquidity = 0 => OutOK(n, ExitsOf(n, r, next), out, p, k)
    BY <2>2, <2>1, OutHandled DEF UniFlows
  <2>. QED  BY <2>2, <2>3, <2>4, <2>5 DEF UniOwned, UniFlows
<1>. QED  BY <1>1, <1>2 DEF UniOK

\* An exit finds the row.
LEMMA UniFound ==
    ASSUME NEW n, NEW r, NEW in, NEW out, NEW p, NEW rows, NEW l,
           UniOK(n, r, in, out, p, rows, l), Own(r), NEW k, TailOf(l, k), IsDecrease(l[1], n)
    PROVE  KeyOf(n, r) \in DOMAIN rows
BY DEF TailOf, UniOK, UniOwned, UniMade

\* No log is left: the price is new, or the row was polled.
LEMMA UniIdle ==
    ASSUME NEW n, NEW r, NEW in, NEW out, NEW p, NEW rows, NEW l, Len(l) = 0,
           UniOK(n, r, in, out, p, rows, l), NEW q, NEW next,
           r.state = "unborn" => NoRowsOf(n, rows, next),
           Own(r) => UniSame(n, r, rows, next)
    PROVE  UniOK(n, r, in, out, q, next, l)
<1>1. \A i \in 1..Len(l) : FALSE OBVIOUS
<1>2. UniBorn(n, r, next, l) BY DEF UniOK, UniBorn, NoRowsOf
<1>3. ASSUME Own(r) PROVE UniOwned(n, r, in, out, q, next, l)
  <2>1. /\ UniMade(n, r, rows, l) /\ Adds(n, EntryOf(n, r, rows), in, p, l)
        /\ r.liquidity = 0 => OutOK(n, ExitsOf(n, r, rows), out, p, l)
        /\ UniShows(n, r, rows) \/ AnyFlow(n, l)
        /\ UniClosed(n, r, rows)
    BY <1>3 DEF UniOK, UniOwned
  <2>2. UniSame(n, r, rows, next) BY <1>3
  <2>3. UniMade(n, r, next, l) BY <1>1, <2>1, <2>2 DEF UniMade, UniSame
  <2>4. Adds(n, EntryOf(n, r, next), in, q, l) BY <1>1, <2>1, <2>2 DEF Adds, UniSame
  <2>5. r.liquidity = 0 => OutOK(n, ExitsOf(n, r, next), out, q, l)
    BY <1>1, <2>1, <2>2 DEF OutOK, LastOut, UniSame
  <2>6. UniShows(n, r, next) BY <1>1, <2>1, <2>2 DEF AnyFlow, UniSame
  <2>. QED  BY <2>1, <2>2, <2>3, <2>4, <2>5, <2>6 DEF UniOwned, UniSame
<1>. QED  BY <1>2, <1>3 DEF UniOK

\* Logs that are no flows of its are appended: at most it leaves its Safe.
LEMMA UniAppended ==
    ASSUME NEW n, NEW r, NEW in, NEW out, NEW p, NEW rows, NEW l,
           UniOK(n, r, in, out, p, rows, l), NEW k, Extends(l, k),
           \A i \in After(l, k) : ~IsFlow(k[i], n), NEW s,
           s.state = "unborn" <=> r.state = "unborn", s.home = r.home, s.liquidity = r.liquidity,
           s.owner \in {r.owner, OpOutsider, OpZero}, Own(s) => Own(r)
    PROVE  UniOK(n, s, in, out, p, rows, k)
<1>1. \A i \in After(l, k) : ~IsIncrease(k[i], n) /\ ~IsDecrease(k[i], n) BY DEF IsFlow
<1>2. KeyOf(n, s) = KeyOf(n, r) BY DEF KeyOf
<1>3. UniBorn(n, s, rows, k) BY ExtendsPlaces DEF UniOK, AnyFlow, UniBorn
<1>4. ASSUME Own(s) PROVE UniOwned(n, s, in, out, p, rows, k)
  <2>1. /\ UniMade(n, r, rows, l) /\ Adds(n, EntryOf(n, r, rows), in, p, l)
        /\ r.liquidity = 0 => OutOK(n, ExitsOf(n, r, rows), out, p, l)
        /\ UniShows(n, r, rows) \/ AnyFlow(n, l)
        /\ UniClosed(n, r, rows)
    BY <1>4 DEF UniOK, UniOwned
  <2>2. UniMade(n, s, rows, k)
    <3>1. ASSUME NEW i \in 1..Len(l), IsIncrease(l[i], n), \A j \in 1..i : ~IsDecrease(l[j], n)
          PROVE  \E u \in 1..Len(k) : IsIncrease(k[u], n) /\ \A j \in 1..u : ~IsDecrease(k[j], n)
      BY ExtendsPlaces, <3>1 DEF Extends
    <3>. QED  BY <1>2, <2>1, <3>1 DEF UniMade
  <2>3. Adds(n, EntryOf(n, s, rows), in, p, k) BY <1>2, <1>1, <2>1, AddsQuietly DEF EntryOf
  <2>4. s.liquidity = 0 => OutOK(n, ExitsOf(n, s, rows), out, p, k)
    BY <1>2, <1>1, <2>1, OutKept DEF ExitsOf
  <2>5. UniShows(n, s, rows) \/ AnyFlow(n, k) BY <1>2, <2>1, FlowKept DEF UniShows, ActiveRow
  <2>6. UniClosed(n, s, rows) BY <1>2, <2>1 DEF UniClosed
  <2>. QED  BY <2>2, <2>3, <2>4, <2>5, <2>6 DEF UniOwned
<1>. QED  BY <1>3, <1>4 DEF UniOK

\* One flow of its, and logs that are none, are appended.
OneFlow(n, l, k, at) ==
    /\ Extends(l, k) /\ at \in After(l, k) /\ IsFlow(k[at], n) /\ k[at].amount \in Positives
    /\ \A i \in After(l, k) : i # at => ~IsFlow(k[i], n)

LEMMA OneFlowAdds ==
    ASSUME NEW n, NEW first, NEW last, NEW p \in Int, NEW l, NEW k, NEW at, OneFlow(n, l, k, at),
           Adds(n, first, last, p, l)
    PROVE  Adds(n, first, last + PutBy(k[at], n, p), p, k)
<1>1. PutBy(k[at], n, p) \in Int BY DEF OneFlow, Positives, PutBy
<1>. QED  BY <1>1, AddsOne DEF OneFlow, IsFlow

LEMMA UniMinted ==
    ASSUME NEW n, NEW r, NEW in, NEW out, NEW p \in Int, NEW rows, NEW l,
           UniOK(n, r, in, out, p, rows, l), r.state = "unborn", NEW k, NEW at,
           OneFlow(n, l, k, at), IsIncrease(k[at], n), NEW s, s.state = "live",
           s.home \in OpSafes, s.owner = s.home, s.liquidity = k[at].amount
    PROVE  UniOK(n, s, k[at].amount * p, out, p, rows, k)
<1>1. ~AnyFlow(n, l) /\ \A key \in DOMAIN rows : key[2] # n BY DEF UniOK, UniBorn
<1>2. KeyOf(n, s) \notin DOMAIN rows BY <1>1 DEF KeyOf
<1>3. Extends(l, k) /\ at \in After(l, k) /\ \A i \in After(l, k) : i # at => ~IsFlow(k[i], n)
  BY DEF OneFlow
<1>4. UniMade(n, s, rows, k)
  <2>1. ASSUME NEW j \in 1..at PROVE ~IsDecrease(k[j], n)
    <3>1. j \in 1..Len(l) \/ j \in After(l, k) BY <1>3 DEF Extends, After
    <3>2. CASE j \in 1..Len(l) BY <1>1, <1>3, <3>2, ExtendsPlaces DEF AnyFlow, IsFlow
    <3>3. CASE j \in After(l, k) BY <1>3, <3>3 DEF IsFlow, IsIncrease, IsDecrease
    <3>. QED  BY <3>1, <3>2, <3>3
  <2>. QED  BY <1>3, <2>1, ExtendsPlaces DEF UniMade
<1>5. Adds(n, EntryOf(n, s, rows), k[at].amount * p, p, k)
  <2>1. EntryOf(n, s, rows) = 0 BY <1>2 DEF EntryOf
  <2>2. \A i \in 1..Len(l) : ~IsIncrease(l[i], n) BY <1>1 DEF AnyFlow, IsFlow
  <2>3. Adds(n, 0, 0, p, l) BY <1>3, <2>2, AddsNothing DEF Extends
  <2>4. Adds(n, 0, 0 + PutBy(k[at], n, p), p, k) BY <2>3, OneFlowAdds
  <2>5. PutBy(k[at], n, p) = k[at].amount * p BY DEF PutBy
  <2>6. k[at].amount * p \in Int BY DEF OneFlow, Positives
  <2>7. 0 + PutBy(k[at], n, p) = k[at].amount * p BY <2>5, <2>6
  <2>. QED  BY <2>1, <2>4, <2>7
<1>6. s.liquidity # 0 BY DEF OneFlow, Positives
<1>7. UniShows(n, s, rows) /\ UniClosed(n, s, rows) BY <1>2 DEF UniShows, UniClosed, ActiveRow
<1>. QED  BY <1>4, <1>5, <1>6, <1>7 DEF UniOK, UniBorn, UniOwned

LEMMA UniFlowed ==
    ASSUME NEW n, NEW r, NEW in, NEW out, NEW p \in Int, NEW rows, NEW l,
           UniOK(n, r, in, out, p, rows, l), r.state = "live", NEW k, NEW at,
           OneFlow(n, l, k, at), NEW s, s.state = "live", s.home = r.home, s.owner = r.owner,
           IsIncrease(k[at], n) => s.liquidity # 0
    PROVE  UniOK(n, s, in + PutBy(k[at], n, p),
                 IF IsDecrease(k[at], n) THEN k[at].amount * p ELSE out, p, rows, k)
<1>1. /\ Extends(l, k) /\ at \in After(l, k) /\ IsFlow(k[at], n)
      /\ \A i \in After(l, k) : i # at => ~IsFlow(k[i], n)
  BY DEF OneFlow
<1>2. KeyOf(n, s) = KeyOf(n, r) BY DEF KeyOf
<1>3. UniBorn(n, s, rows, k) BY DEF UniOK, UniBorn
<1>4. PICK last : last = IF IsDecrease(k[at], n) THEN k[at].amount * p ELSE out OBVIOUS
<1>5. ASSUME Own(s) PROVE UniOwned(n, s, in + PutBy(k[at], n, p), last, p, rows, k)
  <2>1. Own(r) BY <1>5 DEF Own
  <2>2. UniMade(n, r, rows, l) /\ Adds(n, EntryOf(n, r, rows), in, p, l) /\ UniClosed(n, r, rows)
    BY <2>1 DEF UniOK, UniOwned
  <2>3. UniMade(n, s, rows, k)
    <3>1. ASSUME NEW i \in 1..Len(l), IsIncrease(l[i], n), \A j \in 1..i : ~IsDecrease(l[j], n)
          PROVE  \E u \in 1..Len(k) : IsIncrease(k[u], n) /\ \A j \in 1..u : ~IsDecrease(k[j], n)
      BY <1>1, ExtendsPlaces, <3>1 DEF Extends
    <3>. QED  BY <1>2, <2>2, <3>1 DEF UniMade
  <2>4. Adds(n, EntryOf(n, s, rows), in + PutBy(k[at], n, p), p, k)
    BY <1>2, <2>2, OneFlowAdds DEF EntryOf
  <2>5. s.liquidity = 0 => OutOK(n, ExitsOf(n, s, rows), last, p, k)
    BY <1>1, <1>4, OutNew DEF IsFlow
  <2>6. AnyFlow(n, k) BY <1>1, FlowKept
  <2>7. UniClosed(n, s, rows) BY <1>2, <2>2 DEF UniClosed
  <2>. QED  BY <2>3, <2>4, <2>5, <2>6, <2>7 DEF UniOwned
<1>. QED  BY <1>3, <1>4, <1>5 DEF UniOK

-----------------------------------------------------------------------------
(* Balancer: f are the flows of a Safe x in the logs, held its pool tokens. *)

BptKey(x) == <<x, OpPool>>
BptEntry(x, rows) == IF BptKey(x) \in DOMAIN rows THEN rows[BptKey(x)].entry ELSE 0
BptExit(x, rows) == IF BptKey(x) \in DOMAIN rows THEN rows[BptKey(x)].exit ELSE 0

\* What its row shows.
BptShows(x, held, rows) ==
    IF BptKey(x) \in DOMAIN rows
    THEN (rows[BptKey(x)].active <=> held > 0) /\ rows[BptKey(x)].liquidity = held
    ELSE held = 0

BptOK(x, held, in, out, p, rows, f) ==
    /\ Adds(OpPool, BptEntry(x, rows), in, p, f)
    /\ OutOK(OpPool, {BptExit(x, rows)}, out, p, f)
    /\ BptShows(x, held, rows) \/ AnyFlow(OpPool, f)

\* A log is handled: a flow of its, or one of another's.
LEMMA BptHandled ==
    ASSUME NEW x, NEW held, NEW in, NEW out, NEW p, NEW rows, NEW f,
           BptOK(x, held, in, out, p, rows, f), NEW g, TailOf(f, g), NEW next,
           BptEntry(x, next) = BptEntry(x, rows) + PutBy(f[1], OpPool, p),
           BptExit(x, next) = IF IsDecrease(f[1], OpPool) THEN f[1].amount * p
                              ELSE BptExit(x, rows),
           \/ BptShows(x, held, next)
           \/ ~IsFlow(f[1], OpPool) /\ (BptShows(x, held, rows) => BptShows(x, held, next))
    PROVE  BptOK(x, held, in, out, p, next, g)
<1>1. Adds(OpPool, BptEntry(x, next), in, p, g) BY AddsAfter DEF BptOK
<1>2. OutOK(OpPool, {BptExit(x, next)}, out, p, g) BY OutHandled DEF BptOK
<1>3. BptShows(x, held, next) \/ AnyFlow(OpPool, g) BY FlowLater DEF BptOK
<1>. QED  BY <1>1, <1>2, <1>3 DEF BptOK

LEMMA BptAppended ==
    ASSUME NEW x, NEW held, NEW in, NEW out, NEW p, NEW rows, NEW f,
           BptOK(x, held, in, out, p, rows, f), NEW g, Extends(f, g),
           \A i \in After(f, g) : ~IsFlow(g[i], OpPool)
    PROVE  BptOK(x, held, in, out, p, rows, g)
BY AddsQuietly, OutKept, FlowKept DEF IsFlow, BptOK

LEMMA BptFlowed ==
    ASSUME NEW x, NEW held, NEW in, NEW out, NEW p \in Int, NEW rows, NEW f,
           BptOK(x, held, in, out, p, rows, f), NEW g, NEW at, OneFlow(OpPool, f, g, at),
           NEW then
    PROVE  BptOK(x, then, in + PutBy(g[at], OpPool, p),
                 IF IsDecrease(g[at], OpPool) THEN g[at].amount * p ELSE out, p, rows, g)
<1>1. /\ Extends(f, g) /\ at \in After(f, g) /\ IsFlow(g[at], OpPool)
      /\ \A i \in After(f, g) : i # at => ~IsDecrease(g[i], OpPool)
  BY DEF OneFlow, IsFlow
<1>2. Adds(OpPool, BptEntry(x, rows), in + PutBy(g[at], OpPool, p), p, g)
  BY OneFlowAdds DEF BptOK
<1>3. PICK last : last = IF IsDecrease(g[at], OpPool) THEN g[at].amount * p ELSE out OBVIOUS
<1>4. OutOK(OpPool, {BptExit(x, rows)}, last, p, g)
  <2>1. CASE IsDecrease(g[at], OpPool) BY <1>1, <1>3, <2>1, OutNew
  <2>2. CASE ~IsDecrease(g[at], OpPool) BY <1>1, <2>2, <1>3, OutKept DEF BptOK
  <2>. QED  BY <2>1, <2>2
<1>5. AnyFlow(OpPool, g) BY <1>1, FlowKept
<1>. QED  BY <1>2, <1>3, <1>4, <1>5 DEF BptOK

LEMMA BptIdle ==
    ASSUME NEW x, NEW held, NEW in, NEW out, NEW p, NEW rows, NEW f, Len(f) = 0,
           BptOK(x, held, in, out, p, rows, f), NEW q, NEW next,
           BptEntry(x, next) = BptEntry(x, rows), BptExit(x, next) = BptExit(x, rows),
           BptShows(x, held, rows) => BptShows(x, held, next)
    PROVE  BptOK(x, held, in, out, q, next, f)
BY DEF BptOK, Adds, OutOK, LastOut, AnyFlow

-----------------------------------------------------------------------------
(* Logs of Balancer as flows: the amounts of both tokens are added up.     *)

Change(e) == e.deltas[1] + e.deltas[2]
Flow(event, amount) == [event |-> event, id |-> OpPool, amount |-> amount]
FlowOf(e, x) ==
    IF e.event = "Balancer" /\ e.liquidityProvider = x /\ Change(e) # 0
    THEN IF Change(e) > 0 THEN Flow("Increase", Change(e)) ELSE Flow("Decrease", -Change(e))
    ELSE Flow("Other", 0)
FlowsOf(l, x) == [i \in 1..Len(l) |-> FlowOf(l[i], x)]
OpFlow == [event : {"Increase", "Decrease", "Other"}, id : {OpPool}, amount : Int]

LEMMA DeltasMean ==
    ASSUME NEW d \in OpDeltas
    PROVE  /\ d[1] + d[2] \in Int
           /\ d[1] + d[2] > 0 => Op!detectTransactionType(d) = "entry"
           /\ d[1] + d[2] < 0 => Op!detectTransactionType(d) = "exit"
           /\ d[1] + d[2] = 0 => Op!detectTransactionType(d) \in {"no-change", "rebalance"}
<1>1. CASE d \in Int \X {0} BY <1>1 DEF Op!detectTransactionType
<1>2. CASE d = <<1, -1>> BY <1>2 DEF Op!detectTransactionType
<1>. QED  BY <1>1, <1>2 DEF OpDeltas

LEMMA FlowTyped == ASSUME NEW e \in OpEvents, NEW x PROVE FlowOf(e, x) \in OpFlow
<1>1. CASE e.event = "Balancer" BY <1>1, DeltasMean DEF OpEvents, Change, FlowOf, Flow, OpFlow
<1>2. CASE e.event # "Balancer" BY <1>2 DEF FlowOf, Flow, OpFlow
<1>. QED  BY <1>1, <1>2

\* The log of another's is no flow.
LEMMA NoFlow ==
    ASSUME NEW e, NEW x, e.event = "Balancer" => e.liquidityProvider # x \/ Change(e) = 0
    PROVE  /\ FlowOf(e, x) = Flow("Other", 0) /\ ~IsFlow(FlowOf(e, x), OpPool)
           /\ ~IsIncrease(FlowOf(e, x), OpPool) /\ ~IsDecrease(FlowOf(e, x), OpPool)
BY DEF FlowOf, Flow, IsFlow, IsIncrease, IsDecrease

LEMMA FlowsTyped ==
    ASSUME NEW l \in Seq(OpEvents), NEW x
    PROVE  /\ Len(l) \in Nat /\ Len(FlowsOf(l, x)) = Len(l)
           /\ \A i \in 1..Len(l) : FlowsOf(l, x)[i] = FlowOf(l[i], x)
BY FlowTyped, FunctionIsSeq DEF FlowsOf

LEMMA FlowsTail ==
    ASSUME NEW l \in Seq(OpEvents), NEW k \in Seq(OpEvents), TailOf(l, k), NEW x
    PROVE  TailOf(FlowsOf(l, x), FlowsOf(k, x)) /\ FlowsOf(l, x)[1] = FlowOf(l[1], x)
<1>1. PICK f, g : f = FlowsOf(l, x) /\ g = FlowsOf(k, x) OBVIOUS
<1>2. /\ Len(f) = Len(l) /\ \A i \in 1..Len(l) : f[i] = FlowOf(l[i], x)
      /\ Len(g) = Len(k) /\ \A i \in 1..Len(k) : g[i] = FlowOf(k[i], x)
  BY <1>1, FlowsTyped
<1>3. /\ Len(l) \in Nat /\ Len(k) \in Nat /\ Len(l) = Len(k) + 1 /\ 1 \in 1..Len(l)
      /\ \A i \in 1..Len(k) : k[i] = l[i + 1] /\ i + 1 \in 1..Len(l)
  BY DEF TailOf
<1>4. \A i \in 1..Len(g) : g[i] = f[i + 1] BY <1>2, <1>3
<1>. QED  BY <1>1, <1>2, <1>3, <1>4 DEF TailOf

LEMMA FlowsExtend ==
    ASSUME NEW l \in Seq(OpEvents), NEW k \in Seq(OpEvents), Extends(l, k), NEW x
    PROVE  /\ Extends(FlowsOf(l, x), FlowsOf(k, x))
           /\ After(FlowsOf(l, x), FlowsOf(k, x)) = After(l, k)
           /\ \A i \in After(l, k) : FlowsOf(k, x)[i] = FlowOf(k[i], x)
BY FlowsTyped, ExtendsPlaces DEF Extends, After

-----------------------------------------------------------------------------
(* Rows.                                                                   *)

SameFlows(old, new) ==
    /\ new.entry = old.entry /\ new.exit = old.exit /\ new.exited = old.exited
    /\ new.costs = old.costs

LEMMA OpRoi ==
    ASSUME NEW row \in OpRow, NEW next, next = Op!calculatePositionROI(row)
    PROVE  /\ next \in OpRow /\ SameFlows(row, next)
           /\ next.active = row.active /\ next.liquidity = row.liquidity
<1>1. next = IF row.active \/ ~row.exited \/ row.entry + row.costs = 0 THEN row
             ELSE [row EXCEPT !.netGain = row.exit - row.entry - row.costs]
  BY DEF Op!calculatePositionROI
<1>2. CASE next = row BY <1>2 DEF SameFlows
<1>3. CASE next = [row EXCEPT !.netGain = row.exit - row.entry - row.costs]
  BY <1>3, row \in OpRow DEF OpRow, SameFlows
<1>. QED  BY <1>1, <1>2, <1>3

LEMMA NewRow ==
    /\ Op!NewPosition \in OpRow /\ Op!NewPosition.active /\ Op!NewPosition.entry = 0
    /\ Op!NewPosition.exit = 0 /\ Op!NewPosition.costs = 0 /\ Op!NewPosition.liquidity = 0
    /\ \A c \in Int : LET row == [Op!NewPosition EXCEPT !.costs = c]
                      IN  /\ row \in OpRow /\ row.active /\ row.entry = 0 /\ row.exit = 0
                          /\ row.costs = c
<1>1. PICK new : new = Op!NewPosition OBVIOUS
<1>2. new \in OpRow /\ new.active /\ new.entry = 0 /\ new.exit = 0 /\ new.costs = 0
      /\ new.liquidity = 0
  BY <1>1 DEF Op!NewPosition, OpRow
<1>3. ASSUME NEW c \in Int, NEW row, row = [new EXCEPT !.costs = c]
      PROVE  row \in OpRow /\ row.active /\ row.entry = 0 /\ row.exit = 0 /\ row.costs = c
  BY ONLY <1>2, <1>3 DEF OpRow
<1>. QED  BY <1>1, <1>2, <1>3

\* What a refresh writes.
Writes(row, b, v, h, next) == next = [row EXCEPT !.active = b, !.usdCurrent = v, !.liquidity = h]

LEMMA Written ==
    ASSUME NEW row \in OpRow, NEW b \in BOOLEAN, NEW v \in Int, NEW h \in Int, NEW next,
           Writes(row, b, v, h, next)
    PROVE  /\ next \in OpRow /\ next.active = b /\ next.liquidity = h /\ next.usdCurrent = v
           /\ SameFlows(row, next)
BY b \in BOOLEAN, v \in Int, h \in Int DEF OpRow, Writes, SameFlows

LEMMA BalancerRow ==
    ASSUME NEW x, bpt[x] \in Nat, opPrice \in Nat, NEW row \in OpRow, NEW next,
           next = Op!BalancerRefreshed(row, x)
    PROVE  /\ next \in OpRow /\ SameFlows(row, next)
           /\ next.active <=> bpt[x] > 0
           /\ next.liquidity = bpt[x]
<1>1. PICK held, value : held = bpt[x] /\ value = bpt[x] * opPrice OBVIOUS
<1>2. held \in Nat /\ value \in Int BY <1>1
<1>3. PICK inactive : inactive = [row EXCEPT !.active = FALSE, !.usdCurrent = 0, !.liquidity = 0]
  OBVIOUS
<1>4. next = IF held > 0
             THEN [row EXCEPT !.active = TRUE, !.usdCurrent = value, !.liquidity = held]
             ELSE IF row.exited /\ row.exit > 0 THEN Op!calculatePositionROI(inactive)
                  ELSE inactive
  BY <1>1, <1>3 DEF Op!BalancerRefreshed, Op!getBPTBalance
<1>5. CASE held > 0
  <2>1. next = [row EXCEPT !.active = TRUE, !.usdCurrent = value, !.liquidity = held]
    BY <1>4, <1>5
  <2>2. PICK b \in BOOLEAN : b = TRUE OBVIOUS
  <2>3. held \in Int BY <1>2
  <2>4. Writes(row, b, value, held, next) BY <2>1, <2>2 DEF Writes
  <2>5. next \in OpRow /\ next.active = b /\ next.liquidity = held /\ SameFlows(row, next)
    BY ONLY <1>2, <2>3, <2>4, row \in OpRow, Written
  <2>. QED  BY <1>1, <1>5, <2>2, <2>5
<1>6. CASE ~(held > 0)
  <2>a. PICK b \in BOOLEAN : b = FALSE OBVIOUS
  <2>b. PICK zero \in Int : zero = 0 OBVIOUS
  <2>c. Writes(row, b, zero, zero, inactive) BY <1>3, <2>a, <2>b DEF Writes
  <2>d. /\ inactive \in OpRow /\ inactive.active = b /\ inactive.liquidity = zero
        /\ SameFlows(row, inactive)
    BY ONLY <2>c, row \in OpRow, Written
  <2>1. /\ inactive \in OpRow /\ ~inactive.active /\ inactive.liquidity = 0
        /\ SameFlows(row, inactive)
    BY <2>a, <2>b, <2>d
  <2>2. next = Op!calculatePositionROI(inactive) \/ next = inactive BY <1>4, <1>6
  <2>3. next \in OpRow /\ SameFlows(row, next) /\ ~next.active /\ next.liquidity = 0
    BY <2>1, <2>2, OpRoi DEF SameFlows
  <2>4. held = 0 BY <1>2, <1>6
  <2>. QED  BY <1>1, <1>6, <2>3, <2>4
<1>. QED  BY <1>5, <1>6

\* A log of Balancer adds to the entry, or sets the exit.
LEMMA FlowedRow ==
    ASSUME opPrice \in Nat, NEW row \in OpRow, NEW e, e.event = "Balancer", e.deltas \in OpDeltas,
           NEW next, next = Op!BalancerFlow(row, e.deltas), NEW moved,
           moved = FlowOf(e, e.liquidityProvider)
    PROVE  /\ next \in OpRow /\ next.costs = row.costs
           /\ next.entry = row.entry + PutBy(moved, OpPool, opPrice)
           /\ next.exit = IF IsDecrease(moved, OpPool) THEN moved.amount * opPrice ELSE row.exit
<1>1. PICK d, a : d = e.deltas /\ a = d[1] + d[2] OBVIOUS
<1>2. a \in Int /\ a = Change(e) BY <1>1, DeltasMean DEF Change
<1>3. row.entry \in Int /\ row.exit \in Int BY DEF OpRow
<1>4. PICK usd : usd = opPrice * a OBVIOUS
<1>5. usd \in Int BY ONLY <1>2, <1>4, opPrice \in Nat
<1>6. next = CASE Op!detectTransactionType(d) = "entry" -> [row EXCEPT !.entry = row.entry + usd]
               [] Op!detectTransactionType(d) = "exit" -> [row EXCEPT !.exit = -usd, !.exited = TRUE]
               [] OTHER -> row
  BY <1>1, <1>4 DEF Op!BalancerFlow
<1>7. CASE a > 0
  <2>1. Op!detectTransactionType(d) = "entry" BY <1>1, <1>7, DeltasMean
  <2>2. PICK entry : entry = row.entry + usd OBVIOUS
  <2>3. entry \in Int BY ONLY <1>3, <1>5, <2>2
  <2>4. next = [row EXCEPT !.entry = entry] BY <1>6, <2>1, <2>2
  <2>5. /\ next \in OpRow /\ next.costs = row.costs /\ next.entry = entry /\ next.exit = row.exit
    BY ONLY <2>3, <2>4, row \in OpRow DEF OpRow
  <2>6. moved = Flow("Increase", a) BY <1>2, <1>7 DEF FlowOf
  <2>7. IsIncrease(moved, OpPool) /\ ~IsDecrease(moved, OpPool) /\ moved.amount = a
    BY <2>6 DEF Flow, IsIncrease, IsDecrease
  <2>8. PutBy(moved, OpPool, opPrice) = a * opPrice BY <2>7 DEF PutBy
  <2>9. a * opPrice = usd BY ONLY <1>2, <1>4, opPrice \in Nat
  <2>. QED  BY <2>2, <2>5, <2>7, <2>8, <2>9
<1>8. CASE a < 0
  <2>1. Op!detectTransactionType(d) = "exit" BY <1>1, <1>8, DeltasMean
  <2>2. PICK exit : exit = -usd OBVIOUS
  <2>3. exit \in Int BY ONLY <1>5, <2>2
  <2>4. next = [row EXCEPT !.exit = exit, !.exited = TRUE] BY <1>6, <2>1, <2>2
  <2>5. /\ next \in OpRow /\ next.costs = row.costs /\ next.entry = row.entry /\ next.exit = exit
    BY ONLY <2>3, <2>4, row \in OpRow DEF OpRow
  <2>6. moved = Flow("Decrease", -a) BY <1>2, <1>8 DEF FlowOf
  <2>7. ~IsIncrease(moved, OpPool) /\ IsDecrease(moved, OpPool) /\ moved.amount = -a
    BY <2>6 DEF Flow, IsIncrease, IsDecrease
  <2>8. PutBy(moved, OpPool, opPrice) = 0 BY <2>7 DEF PutBy
  <2>9. (-a) * opPrice = exit BY ONLY <1>2, <1>4, <2>2, opPrice \in Nat
  <2>10. row.entry + 0 = row.entry BY <1>3
  <2>. QED  BY <2>5, <2>7, <2>8, <2>9, <2>10
<1>9. CASE a = 0 BY <1>1, <1>9, DeltasMean, <1>6, <1>2, NoFlow, <1>3 DEF PutBy
<1>. QED  BY <1>2, <1>7, <1>8, <1>9

\* An NFT with liquidity is valued; a row of one without is closed.
LEMMA UniRow ==
    ASSUME NEW n, opNft[n].liquidity \in Nat, opPrice \in Nat, NEW row \in OpRow, NEW next,
           next = Op!UniRefreshed(row, n)
    PROVE  /\ next \in OpRow /\ next.entry = row.entry /\ next.costs = row.costs
           /\ next.active => row.active /\ next.liquidity = opNft[n].liquidity
           /\ next.active \/ next.exited \/ ~row.active
           /\ opNft[n].liquidity # 0 => next.active = row.active
<1>1. PICK liquidity, value : liquidity = opNft[n].liquidity
                              /\ value = opNft[n].liquidity * opPrice
  OBVIOUS
<1>2. liquidity \in Nat /\ value \in Int BY <1>1
<1>3. PICK valued : valued = [row EXCEPT !.liquidity = liquidity, !.usdCurrent = value] OBVIOUS
<1>4. /\ valued \in OpRow /\ valued.entry = row.entry /\ valued.costs = row.costs
      /\ valued.active = row.active /\ valued.liquidity = liquidity
      /\ valued.usdCurrent = value
  <2>1. PICK b \in BOOLEAN : b = row.active BY DEF OpRow
  <2>2. Writes(row, b, value, liquidity, valued) BY <1>3, <2>1 DEF OpRow, Writes
  <2>3. liquidity \in Int BY <1>2
  <2>4. /\ valued \in OpRow /\ valued.active = b /\ valued.liquidity = liquidity
        /\ valued.usdCurrent = value /\ SameFlows(row, valued)
    BY ONLY <1>2, <2>2, <2>3, row \in OpRow, Written
  <2>. QED  BY <2>1, <2>4 DEF SameFlows
<1>5. PICK last : last = [valued EXCEPT !.active = FALSE, !.exit = value, !.exited = TRUE] OBVIOUS
<1>6. /\ last \in OpRow /\ ~last.active /\ last.exited /\ last.entry = row.entry
      /\ last.costs = row.costs /\ last.liquidity = liquidity
  BY ONLY <1>2, <1>4, <1>5 DEF OpRow
<1>7. next = IF liquidity = 0 THEN Op!calculatePositionROI(last) ELSE valued
  BY <1>1, <1>3, <1>4, <1>5 DEF Op!UniRefreshed, Op!isPositionClosed
<1>8. CASE liquidity = 0 BY <1>6, <1>7, <1>8, OpRoi, <1>1 DEF SameFlows
<1>9. CASE liquidity # 0 BY <1>7, <1>9, <1>1, <1>4 DEF SameFlows
<1>. QED  BY <1>8, <1>9

-----------------------------------------------------------------------------
(* The costs as the module states them.                                    *)

LEMMA SlippageMeans == ASSUME NEW ids PROVE Op!SlippageOf(ids) = SlippageIn(swap, ids)
BY OpSum DEF Op!SlippageOf, Op!SumOver, SlippageIn

LEMMA ChargeMeans ==
    ASSUME NEW x
    PROVE  Op!associateSwapsWithPosition(x) = ChargeOf(swap, Op!Associated(x))
BY SlippageMeans DEF Op!associateSwapsWithPosition, ChargeOf

LEMMA CostsMean == ASSUME OpTyped, CostsOK(swap, opPosition) PROVE Op!CostsAddUp
<1>1. /\ OpRowsTyped(opPosition) /\ swap \in Seq(OpSwap)
      /\ DOMAIN swap = 1..Len(swap)
  BY DEF OpTyped, OpSwapsTyped
<1>2. ASSUME NEW x \in OpSafes
      PROVE  LET cost(key) == opPosition[key].costs
                 costs == Op!SumOver({key \in DOMAIN opPosition : key[1] = x}, cost)
                 charged == {i \in DOMAIN swap : swap[i].agent = x /\ swap[i].isAssociated}
             IN  /\ costs >= Op!SlippageOf(charged)
                 /\ costs <= Op!SlippageOf({i \in charged : swap[i].slippageUSD > 0})
  <2>1. PICK keys, charged : /\ keys = {key \in DOMAIN opPosition : key[1] = x}
                             /\ charged = {i \in DOMAIN swap : swap[i].agent = x
                                                               /\ swap[i].isAssociated}
    OBVIOUS
  <2>2. PICK f : f = [key \in keys |-> opPosition[key].costs] OBVIOUS
  <2>3. f = Group(CostColumn(opPosition), x) BY <2>1, <2>2 DEF CostColumn, Column, Group
  <2>4. Op!SumFunction(f) = CostsOf(opPosition, x) BY <2>3, OpSum DEF CostsOf, GroupSum
  <2>5. charged = ChargedTo(swap, x) BY <1>1, <2>1 DEF ChargedTo
  <2>6. {i \in charged : swap[i].slippageUSD > 0} = LosingIn(swap, ChargedTo(swap, x))
    BY <2>5 DEF LosingIn
  <2>7. PICK costs, low, high : /\ costs = CostsOf(opPosition, x)
                                /\ low = SlippageIn(swap, ChargedTo(swap, x))
                                /\ high = SlippageIn(swap, LosingIn(swap, ChargedTo(swap, x)))
    OBVIOUS
  <2>8. costs \in Int /\ low \in Int /\ high \in Int /\ low <= costs /\ costs <= high
    BY <1>1, <2>7, SlippageTyped DEF ChargedTo, LosingIn, CostsOK, CostsRight
  <2>9. costs >= low /\ costs <= high BY ONLY <2>8
  <2>10. Op!SlippageOf(charged) = low
         /\ Op!SlippageOf({i \in charged : swap[i].slippageUSD > 0}) = high
    BY <2>5, <2>6, <2>7, SlippageMeans
  <2>. QED  BY <2>1, <2>2, <2>4, <2>7, <2>9, <2>10 DEF Op!SumOver
<1>. QED  BY <1>2 DEF Op!CostsAddUp

-----------------------------------------------------------------------------
(* A row is saved. *)

Saved(rows, next, key, row) ==
    /\ OpRowsTyped(next) /\ DOMAIN next = DOMAIN rows \cup {key} /\ next[key] = row
    /\ \A j \in DOMAIN rows : j # key => next[j] = rows[j]

SameRow(key, rows, next) ==
    /\ key \in DOMAIN next <=> key \in DOMAIN rows
    /\ key \in DOMAIN rows => next[key] = rows[key]

LEMMA PutSaves ==
    ASSUME NEW rows, OpRowsTyped(rows), NEW key \in OpKeys, NEW row \in OpRow, NEW next,
           next = Put(rows, key, row)
    PROVE  Saved(rows, next, key, row)
<1>1. PartialFn(next, OpKeys, OpRow) BY PutPartialFn DEF OpRowsTyped
<1>2. DOMAIN next = DOMAIN rows \cup {key} BY DEF Put
<1>3. IsFiniteSet(DOMAIN next) BY <1>2, FS_AddElement DEF OpRowsTyped
<1>. QED  BY <1>1, <1>2, <1>3 DEF OpRowsTyped, Saved, Put

LEMMA PutTwice ==
    ASSUME NEW rows, NEW key, NEW a, NEW b
    PROVE  Put(Put(rows, key, a), key, b) = Put(rows, key, b)
BY DEF Put

LEMMA ExceptSaves ==
    ASSUME NEW rows, OpRowsTyped(rows), NEW key \in DOMAIN rows, NEW row \in OpRow, NEW next,
           next = [rows EXCEPT ![key] = row]
    PROVE  Saved(rows, next, key, row)
BY DEF OpRowsTyped, PartialFn, Saved

\* The row under key, or a new one.
LEMMA RowLoaded ==
    ASSUME NEW rows, OpRowsTyped(rows), NEW key, NEW new \in OpRow, NEW row,
           row = LoadOr(rows, key, new)
    PROVE  /\ row \in OpRow
           /\ key \in DOMAIN rows => row = rows[key]
           /\ key \notin DOMAIN rows => row = new
BY DEF LoadOr, OpRowsTyped, PartialFn

LEMMA StoreOfOp ==
    ASSUME NEW rows, NEW key, NEW row
    PROVE  Op!Put(rows, key, row) = Put(rows, key, row)
           /\ Op!LoadOr(rows, key, row) = LoadOr(rows, key, row)
BY DEF Op!Put, Put, Op!LoadOr, LoadOr

\* The rows under other keys are the same.
LEMMA SavedElsewhere ==
    ASSUME NEW rows, NEW next, NEW key, NEW row, Saved(rows, next, key, row)
    PROVE  /\ \A j : j # key => SameRow(j, rows, next)
           /\ \A n : key[2] # n => NoRowsOf(n, rows, next)
BY DEF Saved, SameRow, NoRowsOf

LEMMA CostsSaved ==
    ASSUME NEW rows, OpRowsTyped(rows), NEW next, NEW key, NEW row, Saved(rows, next, key, row)
    PROVE  /\ key \in DOMAIN rows /\ row.costs = rows[key].costs => CostsSame(rows, next)
           /\ \A c \in Int : key \notin DOMAIN rows /\ row.costs = c =>
                 CostRaised(rows, next, key, c)
<1>1. ASSUME key \in DOMAIN rows, row.costs = rows[key].costs PROVE CostsSame(rows, next)
  BY <1>1 DEF CostsSame, Saved
<1>2. ASSUME NEW c \in Int, key \notin DOMAIN rows, row.costs = c
      PROVE  CostRaised(rows, next, key, c)
  BY <1>2 DEF Before, CostColumn, Column, Saved, CostRaised
<1>. QED  BY <1>1, <1>2

LEMMA OpEntryTyped ==
    ASSUME NEW rows, OpRowsTyped(rows)
    PROVE  /\ \A n, r : EntryOf(n, r, rows) \in Int
           /\ \A x : BptEntry(x, rows) \in Int /\ BptExit(x, rows) \in Int
           /\ \A key \in DOMAIN rows : rows[key] \in OpRow /\ rows[key].entry \in Int
                                       /\ rows[key].exit \in Int /\ rows[key].costs \in Int
BY DEF EntryOf, BptEntry, BptExit, OpRowsTyped, PartialFn, OpRow

\* A row that is the same, for an NFT and for the pool tokens of a Safe.
LEMMA SameUni ==
    ASSUME NEW n, NEW r, NEW rows, NEW next, SameRow(KeyOf(n, r), rows, next)
    PROVE  UniSame(n, r, rows, next)
BY DEF SameRow, UniSame, EntryOf, ExitsOf, UniShows, ActiveRow, UniClosed

LEMMA SameBpt ==
    ASSUME NEW x, NEW rows, NEW next, SameRow(BptKey(x), rows, next)
    PROVE  /\ BptEntry(x, next) = BptEntry(x, rows) /\ BptExit(x, next) = BptExit(x, rows)
           /\ \A held : BptShows(x, held, rows) => BptShows(x, held, next)
BY DEF SameRow, BptEntry, BptExit, BptShows

-----------------------------------------------------------------------------
(* The invariant, and how a handler keeps it. *)

OpUniOK ==
    \A n \in Nfts : UniOK(n, opNft[n], opPut[n], opTaken[n], opPrice, opPosition, opLogs)
OpBptOK ==
    \A x \in OpSafes :
       BptOK(x, bpt[x], opPut[x], opTaken[x], opPrice, opPosition, FlowsOf(opLogs, x))
OpSwapsOK == SwapsOK(opNow, swap, buffer) /\ CostsOK(swap, opPosition)
OpInv == OpTyped /\ OpSwapsOK /\ OpUniOK /\ OpBptOK

\* What a handler of the first log must do to the row of an NFT.
UniStep(n, next) ==
    /\ opNft[n].state = "unborn" => NoRowsOf(n, opPosition, next)
    /\ Own(opNft[n]) =>
          IF IsFlow(opLogs[1], n)
          THEN UniFlows(n, opNft[n], opLogs[1], opPrice, opPosition, next)
          ELSE UniSame(n, opNft[n], opPosition, next)

\* The same for the pool tokens of a Safe.
BptStep(x, next) ==
    /\ BptEntry(x, next) =
          BptEntry(x, opPosition) + PutBy(FlowOf(opLogs[1], x), OpPool, opPrice)
    /\ BptExit(x, next) =
          IF IsDecrease(FlowOf(opLogs[1], x), OpPool) THEN FlowOf(opLogs[1], x).amount * opPrice
          ELSE BptExit(x, opPosition)
    /\ \/ BptShows(x, bpt[x], next)
       \/ /\ ~IsFlow(FlowOf(opLogs[1], x), OpPool)
          /\ BptShows(x, bpt[x], opPosition) => BptShows(x, bpt[x], next)

LEMMA OpHandledFacts ==
    ASSUME OpTyped, NEW event, Op!Handled(event)
    PROVE  /\ TailOf(opLogs, opLogs') /\ opLogs' \in Seq(OpEvents) /\ Head(opLogs) = opLogs[1]
           /\ opLogs[1] \in OpEvents /\ opLogs[1].event = event
           /\ opNow' = opNow /\ opPrice' = opPrice /\ bpt' = bpt /\ opNft' = opNft
           /\ opPut' = opPut /\ opTaken' = opTaken
BY TailIsTailOf DEF Op!Handled, OpTyped, OpChainTyped

LEMMA OpHandledStep ==
    ASSUME OpInv, NEW event, Op!Handled(event),
           OpRowsTyped(opPosition'), OpSwapsTyped(swap', buffer'), SwapsOK(opNow, swap', buffer'),
           CostsOK(swap', opPosition'),
           \A n \in Nfts : UniStep(n, opPosition'),
           \A x \in OpSafes : BptStep(x, opPosition')
    PROVE  OpInv'
<1>1. OpTyped /\ OpUniOK /\ OpBptOK BY DEF OpInv
<1>2. /\ TailOf(opLogs, opLogs') /\ opLogs' \in Seq(OpEvents) /\ opLogs \in Seq(OpEvents)
      /\ opNow' = opNow /\ opPrice' = opPrice /\ bpt' = bpt /\ opNft' = opNft
      /\ opPut' = opPut /\ opTaken' = opTaken
  BY <1>1, OpHandledFacts DEF OpTyped, OpChainTyped
<1>3. OpTyped' BY <1>1, <1>2 DEF OpTyped, OpChainTyped
<1>4. OpSwapsOK' BY <1>2 DEF OpSwapsOK
<1>5. OpUniOK'
  <2>1. ASSUME NEW n \in Nfts
        PROVE  UniOK(n, opNft[n], opPut[n], opTaken[n], opPrice, opPosition', opLogs')
    <3>1. PICK r, in, out, p, rows, next, l, k :
             /\ r = opNft[n] /\ in = opPut[n] /\ out = opTaken[n] /\ p = opPrice
             /\ rows = opPosition /\ next = opPosition' /\ l = opLogs /\ k = opLogs'
      OBVIOUS
    <3>2. UniOK(n, r, in, out, p, rows, l) /\ TailOf(l, k) BY <1>1, <1>2, <3>1 DEF OpUniOK
    <3>3. r.state = "unborn" => NoRowsOf(n, rows, next) BY <3>1 DEF UniStep
    <3>4. EntryOf(n, r, rows) \in Int BY <1>1, <3>1, OpEntryTyped DEF OpTyped
    <3>5. CASE IsFlow(l[1], n) BY <3>1, <3>5, <3>2, <3>3, UniFlow DEF UniStep
    <3>6. CASE ~IsFlow(l[1], n) BY <3>1, <3>6, <3>2, <3>3, <3>4, UniQuiet DEF UniStep
    <3>. QED  BY <3>5, <3>6
  <2>. QED  BY <1>2, <2>1 DEF OpUniOK
<1>6. OpBptOK'
  <2>1. ASSUME NEW x \in OpSafes
        PROVE  BptOK(x, bpt[x], opPut[x], opTaken[x], opPrice, opPosition', FlowsOf(opLogs', x))
    BY <1>1, <1>2, FlowsTail, BptHandled DEF OpBptOK, BptStep
  <2>. QED  BY <1>2, <2>1 DEF OpBptOK
<1>. QED  BY <1>3, <1>4, <1>5, <1>6 DEF OpInv

\* Rows that the log is not about.
LEMMA UniUntouched ==
    ASSUME NEW n, NEW next, ~IsFlow(opLogs[1], n), NoRowsOf(n, opPosition, next),
           SameRow(KeyOf(n, opNft[n]), opPosition, next)
    PROVE  UniStep(n, next)
BY SameUni DEF UniStep

LEMMA BptUntouched ==
    ASSUME OpRowsTyped(opPosition), NEW x, NEW next, SameRow(BptKey(x), opPosition, next),
           opLogs[1].event # "Balancer" \/ opLogs[1].liquidityProvider # x
    PROVE  BptStep(x, next)
BY NoFlow, OpEntryTyped, SameBpt DEF PutBy, BptStep

LEMMA RowsUntouched ==
    ASSUME OpRowsTyped(opPosition),
           opLogs[1].event \notin {"Balancer", "Increase", "Decrease"}
    PROVE  /\ \A n : UniStep(n, opPosition)
           /\ \A x : BptStep(x, opPosition)
BY UniUntouched, BptUntouched DEF SameRow, IsFlow, IsIncrease, IsDecrease, NoRowsOf

LEMMA LiFiHandled == ASSUME OpAssumed, OpInv, Op!handleLiFiGenericSwapCompleted PROVE OpInv'
<1>1. PICK e : e = Head(opLogs) OBVIOUS
<1>2. /\ OpTyped /\ SwapsOK(opNow, swap, buffer) /\ CostsOK(swap, opPosition)
      /\ OpRowsTyped(opPosition) /\ OpSwapsTyped(swap, buffer) /\ opNow \in Nat
      /\ swap \in Seq(OpSwap)
  BY DEF OpInv, OpSwapsOK, OpTyped, OpChainTyped, OpSwapsTyped
<1>3. /\ Op!Handled("LiFi") /\ opPosition' = opPosition
      /\ IF e.integrator = "valory" /\ e.receiver \in OpSafes
         THEN Op!createSwapTransaction(e.receiver, e.slippage)
         ELSE swap' = swap /\ buffer' = buffer
  BY <1>1 DEF Op!handleLiFiGenericSwapCompleted, Op!isServiceAgent
<1>4. e = opLogs[1] /\ e \in OpEvents /\ e.event = "LiFi" BY <1>1, <1>2, <1>3, OpHandledFacts
<1>5. /\ OpSwapsTyped(swap', buffer') /\ SwapsOK(opNow, swap', buffer')
      /\ CostsOK(swap', opPosition)
  <2>1. CASE swap' = swap /\ buffer' = buffer BY <1>2, <2>1
  <2>2. CASE e.receiver \in OpSafes /\ Op!createSwapTransaction(e.receiver, e.slippage)
    BY <1>4, <1>2, <2>2, SwapCreated, NewSwapNotCharged DEF OpEvents
  <2>. QED  BY <1>3, <2>1, <2>2
<1>6. /\ \A n \in Nfts : UniStep(n, opPosition)
      /\ \A x \in OpSafes : BptStep(x, opPosition)
  BY <1>2, <1>4, RowsUntouched
<1>. QED  BY <1>2, <1>3, <1>5, <1>6, OpHandledStep

-----------------------------------------------------------------------------
(* The handler of the Balancer pool. *)

\* The row of the Safe shows the pool tokens, with the log in its flows.
LEMMA BptSaved ==
    ASSUME OpAssumed, OpInv, Op!Handled("Balancer"), NEW x \in OpSafes,
           opLogs[1].liquidityProvider = x, NEW row,
           Saved(opPosition, opPosition', BptKey(x), row),
           row.entry = BptEntry(x, opPosition) + PutBy(FlowOf(opLogs[1], x), OpPool, opPrice),
           row.exit = IF IsDecrease(FlowOf(opLogs[1], x), OpPool)
                      THEN FlowOf(opLogs[1], x).amount * opPrice ELSE BptExit(x, opPosition),
           row.active <=> bpt[x] > 0, row.liquidity = bpt[x],
           OpSwapsTyped(swap', buffer'), SwapsOK(opNow, swap', buffer'),
           CostsOK(swap', opPosition')
    PROVE  OpInv'
<1>1. OpTyped /\ OpRowsTyped(opPosition) /\ OpRowsTyped(opPosition')
  BY DEF OpInv, OpTyped, Saved
<1>2. opLogs[1].event = "Balancer" BY <1>1, OpHandledFacts
<1>3. /\ \A j : j # BptKey(x) => SameRow(j, opPosition, opPosition')
      /\ \A n : BptKey(x)[2] # n => NoRowsOf(n, opPosition, opPosition')
  BY SavedElsewhere
<1>4. ASSUME NEW n \in Nfts PROVE UniStep(n, opPosition')
  BY <1>2, <1>3, UniUntouched DEF OpAssumed, KeyOf, BptKey, IsFlow, IsIncrease, IsDecrease
<1>5. ASSUME NEW y \in OpSafes PROVE BptStep(y, opPosition')
  <2>1. CASE y = x BY <2>1 DEF Saved, BptEntry, BptExit, BptShows, BptStep
  <2>2. CASE y # x BY <2>2, <1>1, <1>3, BptUntouched DEF BptKey
  <2>. QED  BY <2>1, <2>2
<1>. QED  BY <1>1, <1>4, <1>5, OpHandledStep

\* A call that moves no pool tokens.
LEMMA BptNoChange ==
    ASSUME OpAssumed, OpInv, Op!Handled("Balancer"), NEW x \in OpSafes,
           opLogs[1].liquidityProvider = x, Change(opLogs[1]) = 0, Op!refreshBalancerPosition(x)
    PROVE  OpInv'
<1>1. /\ OpTyped /\ OpRowsTyped(opPosition) /\ OpSwapsTyped(swap, buffer)
      /\ SwapsOK(opNow, swap, buffer) /\ CostsOK(swap, opPosition)
      /\ bpt[x] \in Nat /\ opPrice \in Nat
  BY DEF OpInv, OpTyped, OpSwapsOK, OpChainTyped, Positives
<1>2. PICK key, new : key = BptKey(x) /\ new = Op!NewPosition OBVIOUS
<1>3. new \in OpRow /\ new.entry = 0 /\ new.exit = 0 /\ new.costs = 0 BY <1>2, NewRow
<1>4. PICK old : old = LoadOr(opPosition, key, new) OBVIOUS
<1>5. /\ old \in OpRow /\ (key \in DOMAIN opPosition => old = opPosition[key])
      /\ (key \notin DOMAIN opPosition => old = new)
  BY <1>1, <1>3, <1>4, RowLoaded
<1>6. PICK row : row = Op!BalancerRefreshed(old, x) OBVIOUS
<1>7. row \in OpRow /\ SameFlows(old, row) /\ (row.active <=> bpt[x] > 0) /\ row.liquidity = bpt[x]
  BY <1>1, <1>5, <1>6, BalancerRow
<1>8. opPosition' = Put(opPosition, key, row) /\ swap' = swap /\ buffer' = buffer
  BY <1>2, <1>4, <1>6, StoreOfOp DEF Op!refreshBalancerPosition, BptKey
<1>9. key \in OpKeys BY <1>2 DEF BptKey, OpKeys
<1>10. Saved(opPosition, opPosition', key, row) BY <1>1, <1>7, <1>8, <1>9, PutSaves
<1>11. old.entry = BptEntry(x, opPosition) /\ old.exit = BptExit(x, opPosition)
  BY <1>2, <1>3, <1>5 DEF BptEntry, BptExit
<1>12. BptEntry(x, opPosition) \in Int BY <1>1, OpEntryTyped
<1>13. PutBy(FlowOf(opLogs[1], x), OpPool, opPrice) = 0
       /\ ~IsDecrease(FlowOf(opLogs[1], x), OpPool)
  BY NoFlow DEF PutBy
<1>14. row.entry = BptEntry(x, opPosition) + PutBy(FlowOf(opLogs[1], x), OpPool, opPrice)
  BY <1>7, <1>11, <1>12, <1>13 DEF SameFlows
<1>15. row.exit = BptExit(x, opPosition) BY <1>7, <1>11 DEF SameFlows
<1>16. CostsOK(swap, opPosition')
  <2>1. CASE key \in DOMAIN opPosition
    BY <1>5, <1>7, <2>1, <1>1, <1>10, CostsSaved, NothingCharged DEF SameFlows
  <2>2. CASE key \notin DOMAIN opPosition
    <3>1. row.costs = 0 BY <1>3, <1>5, <1>7, <2>2 DEF SameFlows
    <3>2. CostRaised(opPosition, opPosition', <<x, OpPool>>, 0)
      BY <1>1, <1>2, <1>10, <2>2, <3>1, CostsSaved DEF BptKey
    <3>. QED  BY <1>1, <3>2, NothingCharged
  <2>. QED  BY <2>1, <2>2
<1>17. OpSwapsTyped(swap', buffer') /\ SwapsOK(opNow, swap', buffer') /\ CostsOK(swap', opPosition')
  BY <1>1, <1>8, <1>16
<1>18. Saved(opPosition, opPosition', BptKey(x), row) BY <1>2, <1>10
<1>. QED  BY <1>7, <1>13, <1>14, <1>15, <1>17, <1>18, BptSaved

\* The row made for x by a log with amounts is charged, or the row there is costs the same.
LEMMA RowOfFlow ==
    ASSUME OpAssumed, OpInv, NEW x \in OpSafes, NEW m \in Nfts \cup {OpPool}, NEW row,
           Saved(opPosition, opPosition', <<x, m>>, row),
           <<x, m>> \in DOMAIN opPosition => row.costs = opPosition[<<x, m>>].costs,
           <<x, m>> \notin DOMAIN opPosition => row.costs = Op!associateSwapsWithPosition(x),
           IF <<x, m>> \in DOMAIN opPosition THEN swap' = swap /\ buffer' = buffer
           ELSE Op!Associates(x)
    PROVE  /\ OpSwapsTyped(swap', buffer') /\ SwapsOK(opNow, swap', buffer')
           /\ CostsOK(swap', opPosition')
<1>1. /\ OpTyped /\ OpRowsTyped(opPosition) /\ OpSwapsTyped(swap, buffer)
      /\ SwapsOK(opNow, swap, buffer) /\ CostsOK(swap, opPosition) /\ swap \in Seq(OpSwap)
  BY DEF OpInv, OpTyped, OpSwapsOK, OpSwapsTyped
<1>2. CASE <<x, m>> \in DOMAIN opPosition BY <1>1, <1>2, CostsSaved, NothingCharged
<1>3. CASE <<x, m>> \notin DOMAIN opPosition
  <2>1. Op!Associates(x) /\ row.costs = Op!associateSwapsWithPosition(x) BY <1>3
  <2>2. PICK ids, c : ids = Op!Associated(x) /\ c = ChargeOf(swap, ids) OBVIOUS
  <2>3. \A i \in ids : i \in 1..Len(swap) /\ swap[i].agent = x /\ ~swap[i].isAssociated
    BY <1>1, <2>2, AssociatedFacts
  <2>4. ids \in SUBSET (1..Len(swap)) BY <2>3
  <2>5. c \in Int BY <1>1, <2>2, <2>4, SlippageTyped DEF ChargeOf
  <2>6. row.costs = c BY <2>1, <2>2, ChargeMeans
  <2>7. CostRaised(opPosition, opPosition', <<x, m>>, c) BY <1>1, <1>3, <2>5, <2>6, CostsSaved
  <2>8. /\ OpSwapsTyped(swap', buffer') /\ SwapsOK(opNow, swap', buffer')
        /\ SwapsMarked(swap, swap', ids)
    BY <1>1, <2>1, <2>2, SwapsTaken
  <2>9. CostsOK(swap', opPosition') BY <1>1, <2>2, <2>3, <2>4, <2>7, <2>8, RowCharged
  <2>. QED  BY <2>8, <2>9
<1>. QED  BY <1>2, <1>3

\* The new row, charged with the swaps before it.
LEMMA FreshRow ==
    ASSUME OpTyped, SwapsOK(opNow, swap, buffer), NEW x, NEW new,
           new = [Op!NewPosition EXCEPT !.costs = Op!associateSwapsWithPosition(x)]
    PROVE  /\ new \in OpRow /\ new.active /\ new.entry = 0 /\ new.exit = 0
           /\ new.costs = Op!associateSwapsWithPosition(x)
<1>1. OpSwapsTyped(swap, buffer) /\ swap \in Seq(OpSwap) BY DEF OpTyped, OpSwapsTyped
<1>2. PICK ids, c : ids = Op!Associated(x) /\ c = ChargeOf(swap, ids) OBVIOUS
<1>3. ids \in SUBSET (1..Len(swap)) BY <1>1, <1>2, AssociatedFacts
<1>4. c \in Int BY <1>1, <1>2, <1>3, SlippageTyped DEF ChargeOf
<1>5. Op!associateSwapsWithPosition(x) = c BY <1>2, ChargeMeans
<1>6. new = [Op!NewPosition EXCEPT !.costs = c] BY <1>5
<1>. QED  BY <1>4, <1>5, <1>6, NewRow

\* A join or an exit.
LEMMA BptChanged ==
    ASSUME OpAssumed, OpInv, Op!Handled("Balancer"), NEW x \in OpSafes,
           opLogs[1].liquidityProvider = x,
           Op!refreshBalancerPositionWithEventAmounts(x, opLogs[1].deltas)
    PROVE  OpInv'
<1>1. /\ OpTyped /\ OpRowsTyped(opPosition) /\ SwapsOK(opNow, swap, buffer)
      /\ bpt[x] \in Nat /\ opPrice \in Nat
  BY DEF OpInv, OpTyped, OpSwapsOK, OpChainTyped, Positives
<1>2. PICK key, new, e : /\ key = BptKey(x) /\ e = opLogs[1]
                         /\ new = [Op!NewPosition EXCEPT !.costs = Op!associateSwapsWithPosition(x)]
  OBVIOUS
<1>3. /\ new \in OpRow /\ new.entry = 0 /\ new.exit = 0
      /\ new.costs = Op!associateSwapsWithPosition(x)
  BY <1>1, <1>2, FreshRow
<1>4. e.event = "Balancer" /\ e.deltas \in OpDeltas /\ e.liquidityProvider = x
  BY <1>1, <1>2, OpHandledFacts DEF OpEvents
<1>5. PICK old : old = LoadOr(opPosition, key, new) OBVIOUS
<1>6. /\ old \in OpRow /\ (key \in DOMAIN opPosition => old = opPosition[key])
      /\ (key \notin DOMAIN opPosition => old = new)
  BY <1>1, <1>3, <1>5, RowLoaded
<1>7. PICK flowed, row : flowed = Op!BalancerFlow(old, e.deltas)
                         /\ row = Op!BalancerRefreshed(flowed, x)
  OBVIOUS
<1>8. PICK moved : moved = FlowOf(e, x) OBVIOUS
<1>9. /\ flowed \in OpRow /\ flowed.costs = old.costs
      /\ flowed.entry = old.entry + PutBy(moved, OpPool, opPrice)
      /\ flowed.exit = IF IsDecrease(moved, OpPool) THEN moved.amount * opPrice ELSE old.exit
  BY <1>1, <1>4, <1>6, <1>7, <1>8, FlowedRow
<1>10. /\ row \in OpRow /\ SameFlows(flowed, row) /\ (row.active <=> bpt[x] > 0)
       /\ row.liquidity = bpt[x]
  BY <1>1, <1>7, <1>9, BalancerRow
<1>11. opPosition' = Put(opPosition, key, row)
  BY <1>2, <1>5, <1>7, StoreOfOp DEF Op!refreshBalancerPositionWithEventAmounts, BptKey
<1>12. IF key \in DOMAIN opPosition THEN swap' = swap /\ buffer' = buffer ELSE Op!Associates(x)
  BY <1>2 DEF Op!refreshBalancerPositionWithEventAmounts, BptKey
<1>13. key \in OpKeys BY <1>2 DEF BptKey, OpKeys
<1>14. Saved(opPosition, opPosition', key, row) BY <1>1, <1>10, <1>11, <1>13, PutSaves
<1>15. old.entry = BptEntry(x, opPosition) /\ old.exit = BptExit(x, opPosition)
  BY <1>2, <1>3, <1>6 DEF BptEntry, BptExit
<1>16. /\ OpSwapsTyped(swap', buffer') /\ SwapsOK(opNow, swap', buffer')
       /\ CostsOK(swap', opPosition')
  <2>1. key = <<x, OpPool>> /\ OpPool \in Nfts \cup {OpPool} BY <1>2 DEF BptKey
  <2>2. row.costs = old.costs BY <1>9, <1>10 DEF SameFlows
  <2>3. /\ Saved(opPosition, opPosition', <<x, OpPool>>, row)
        /\ <<x, OpPool>> \in DOMAIN opPosition => row.costs = opPosition[<<x, OpPool>>].costs
        /\ <<x, OpPool>> \notin DOMAIN opPosition => row.costs = Op!associateSwapsWithPosition(x)
        /\ IF <<x, OpPool>> \in DOMAIN opPosition THEN swap' = swap /\ buffer' = buffer
           ELSE Op!Associates(x)
    BY <1>3, <1>6, <1>12, <1>14, <2>1, <2>2
  <2>. QED  BY <2>1, <2>3, RowOfFlow
<1>17. /\ row.entry = BptEntry(x, opPosition) + PutBy(FlowOf(opLogs[1], x), OpPool, opPrice)
       /\ row.exit = IF IsDecrease(FlowOf(opLogs[1], x), OpPool)
                     THEN FlowOf(opLogs[1], x).amount * opPrice ELSE BptExit(x, opPosition)
  BY <1>2, <1>8, <1>9, <1>10, <1>15 DEF SameFlows
<1>18. Saved(opPosition, opPosition', BptKey(x), row) /\ opLogs[1].liquidityProvider = x
  BY <1>2, <1>14
<1>. QED  BY <1>10, <1>16, <1>17, <1>18, BptSaved

LEMMA BalancerHandled == ASSUME OpAssumed, OpInv, Op!handlePoolBalanceChanged PROVE OpInv'
<1>1. PICK e, x : e = Head(opLogs) /\ x = e.liquidityProvider OBVIOUS
<1>2. OpTyped BY DEF OpInv
<1>3. /\ Op!Handled("Balancer")
      /\ IF x \notin OpSafes THEN TRUE
         ELSE IF Op!detectTransactionType(e.deltas) = "no-change"
         THEN Op!refreshBalancerPosition(x)
         ELSE Op!refreshBalancerPositionWithEventAmounts(x, e.deltas)
  BY <1>1 DEF Op!handlePoolBalanceChanged, Op!isServiceAgent
<1>4. e = opLogs[1] /\ e \in OpEvents /\ e.event = "Balancer" BY <1>1, <1>2, <1>3, OpHandledFacts
<1>5. x \in OpSafes /\ e.deltas \in OpDeltas BY <1>1, <1>4 DEF OpEvents
<1>6. CASE Op!detectTransactionType(e.deltas) = "no-change"
  BY <1>5, <1>6, DeltasMean, <1>1, <1>3, <1>4, BptNoChange DEF Change
<1>7. CASE Op!detectTransactionType(e.deltas) # "no-change"
  BY <1>1, <1>3, <1>4, <1>5, <1>7, BptChanged
<1>. QED  BY <1>6, <1>7

-----------------------------------------------------------------------------
(* The handlers of Uniswap V3. *)

LEMMA UniTracked ==
    ASSUME OpAssumed, OpInv, NEW n \in Nfts
    PROVE  /\ Op!Tracked(n) <=> Own(opNft[n])
           /\ Own(opNft[n]) => /\ opNft[n].owner = opNft[n].home /\ opNft[n].home \in OpSafes
                               /\ Op!Key(n) = KeyOf(n, opNft[n]) /\ KeyOf(n, opNft[n]) \in OpKeys
                               /\ opNft[n].state = "live"
           /\ opNft[n].liquidity \in Nat /\ opPrice \in Nat
           /\ UniOK(n, opNft[n], opPut[n], opTaken[n], opPrice, opPosition, opLogs)
<1>1. UniOK(n, opNft[n], opPut[n], opTaken[n], opPrice, opPosition, opLogs)
  BY DEF OpInv, OpUniOK
<1>2. opNft[n] \in OpNft /\ opPrice \in Nat BY DEF OpInv, OpTyped, OpChainTyped, Positives
<1>3. opNft[n].liquidity \in Nat BY <1>2 DEF OpNft
<1>4. opNft[n].state # "unborn" =>
         opNft[n].home \in OpSafes /\ opNft[n].owner \in {opNft[n].home, OpOutsider, OpZero}
  BY <1>1 DEF UniOK, UniBorn
<1>5. Op!Tracked(n) <=> opNft[n].state = "live" /\ opNft[n].owner \in OpSafes
  BY DEF Op!Tracked, Op!Live, Op!isServiceAgent
<1>6. OpOutsider \notin OpSafes /\ OpZero \notin OpSafes BY DEF OpAssumed
<1>7. Op!Tracked(n) <=> Own(opNft[n]) BY <1>4, <1>5, <1>6 DEF Own
<1>. QED  BY <1>1, <1>2, <1>3, <1>4, <1>7 DEF Own, Op!Key, KeyOf, OpKeys

\* A row of n is saved: what this leaves of the others.
LEMMA UniElsewhere ==
    ASSUME OpAssumed, NEW n \in Nfts, NEW r, NEW next, NEW row,
           Saved(opPosition, next, KeyOf(n, r), row)
    PROVE  /\ \A m \in Nfts \ {n} : /\ SameRow(KeyOf(m, opNft[m]), opPosition, next)
                                    /\ NoRowsOf(m, opPosition, next)
           /\ \A x : SameRow(BptKey(x), opPosition, next)
BY SavedElsewhere DEF OpAssumed, KeyOf, BptKey

\* What refreshUniV3Position does.
LEMMA UniRefreshes ==
    ASSUME OpAssumed, OpInv, NEW n \in Nfts, NEW next,
           next = Op!refreshUniV3Position(opPosition, n)
    PROVE  /\ OpRowsTyped(next) /\ CostsOK(swap, next)
           /\ \A j \in DOMAIN opPosition : j \in DOMAIN next /\ next[j].costs = opPosition[j].costs
           /\ opNft[n].state = "unborn" => next = opPosition
           /\ \A m \in Nfts \ {n} : /\ SameRow(KeyOf(m, opNft[m]), opPosition, next)
                                    /\ NoRowsOf(m, opPosition, next)
           /\ \A x : SameRow(BptKey(x), opPosition, next)
           /\ Own(opNft[n]) => /\ UniSame(n, opNft[n], opPosition, next)
                               /\ KeyOf(n, opNft[n]) \in DOMAIN next
                               /\ UniShows(n, opNft[n], next)
<1>1. PICK r, key, new : r = opNft[n] /\ key = KeyOf(n, opNft[n]) /\ new = Op!NewPosition OBVIOUS
<1>2. OpRowsTyped(opPosition) /\ CostsOK(swap, opPosition) BY DEF OpInv, OpTyped, OpSwapsOK
<1>3. /\ Op!Tracked(n) <=> Own(r)
      /\ (Own(r) => Op!Key(n) = key /\ key \in OpKeys)
      /\ opNft[n].liquidity \in Nat /\ opPrice \in Nat /\ (Own(r) => r.state = "live")
  BY <1>1, UniTracked
<1>4. new \in OpRow /\ new.active /\ new.entry = 0 /\ new.costs = 0 BY <1>1, NewRow
<1>5. PICK old, row : old = LoadOr(opPosition, key, new) /\ row = Op!UniRefreshed(old, n) OBVIOUS
<1>6. /\ old \in OpRow /\ (key \in DOMAIN opPosition => old = opPosition[key])
      /\ (key \notin DOMAIN opPosition => old = new)
  BY <1>2, <1>4, <1>5, RowLoaded
<1>7. next = IF Own(r) /\ old.active THEN Put(opPosition, key, row) ELSE opPosition
  <2>1. CASE ~Own(r) BY <1>3, <2>1 DEF Op!refreshUniV3Position
  <2>2. CASE Own(r) BY <1>3, <2>2, <1>1, <1>5, StoreOfOp DEF Op!refreshUniV3Position
  <2>. QED  BY <2>1, <2>2
<1>8. \A j : SameRow(j, opPosition, opPosition) BY DEF SameRow
<1>9. CASE next = opPosition /\ ~(Own(r) /\ old.active)
  <2>1. \A m : NoRowsOf(m, opPosition, opPosition) BY DEF NoRowsOf
  <2>2. ASSUME Own(r)
        PROVE  /\ UniSame(n, r, opPosition, next)
               /\ key \in DOMAIN next /\ UniShows(n, r, next)
    BY <1>9, <2>2, <1>4, <1>6, <1>8, SameUni, <1>1 DEF UniShows, ActiveRow
  <2>. QED  BY <1>1, <1>2, <1>8, <1>9, <2>1, <2>2
<1>10. CASE Own(r) /\ old.active
  <2>1. next = Put(opPosition, key, row) BY <1>7, <1>10
  <2>2. /\ row \in OpRow /\ row.entry = old.entry /\ row.costs = old.costs
        /\ row.active => row.liquidity = r.liquidity
        /\ row.active \/ row.exited
    BY <1>3, <1>5, <1>6, UniRow, <1>1, <1>10
  <2>12. key \in OpKeys /\ row \in OpRow BY <1>3, <1>10, <2>2
  <2>3. Saved(opPosition, next, key, row) BY <1>2, <2>1, <2>12, PutSaves
  <2>4. key \in DOMAIN next /\ next[key] = row /\ OpRowsTyped(next) BY <2>3 DEF Saved
  <2>5. CostsOK(swap, next)
    <3>1. CASE key \in DOMAIN opPosition
      BY <1>2, <1>6, <2>2, <2>3, <3>1, CostsSaved, NothingCharged
    <3>2. CASE key \notin DOMAIN opPosition
      <4>1. row.costs = 0 BY <1>4, <1>6, <2>2, <3>2
      <4>2. CostRaised(opPosition, next, key, 0) BY <1>2, <2>3, <3>2, <4>1, CostsSaved
      <4>3. key = <<r.home, n>> BY <1>1 DEF KeyOf
      <4>. QED  BY <1>2, <4>2, <4>3, NothingCharged
    <3>. QED  BY <3>1, <3>2
  <2>6. EntryOf(n, r, next) = EntryOf(n, r, opPosition)
    BY <1>1, <1>4, <1>6, <2>2, <2>4 DEF EntryOf
  <2>7. ExitsOf(n, r, opPosition) \subseteq ExitsOf(n, r, next)
    BY <1>1, <1>6, <1>10 DEF ExitsOf
  <2>8. UniShows(n, r, next) /\ UniClosed(n, r, next)
    BY <1>1, <2>2, <2>4 DEF UniShows, UniClosed, ActiveRow
  <2>9. UniSame(n, r, opPosition, next) BY <1>1, <2>4, <2>6, <2>7, <2>8 DEF UniSame
  <2>10. /\ \A m \in Nfts \ {n} : /\ SameRow(KeyOf(m, opNft[m]), opPosition, next)
                                  /\ NoRowsOf(m, opPosition, next)
         /\ \A x : SameRow(BptKey(x), opPosition, next)
    BY <1>1, <2>3, UniElsewhere
  <2>11. r.state # "unborn" BY <1>3, <1>10
  <2>13. \A j \in DOMAIN opPosition : j \in DOMAIN next /\ next[j].costs = opPosition[j].costs
    BY <1>6, <2>2, <2>3 DEF Saved
  <2>. QED  BY <1>1, <2>4, <2>5, <2>8, <2>9, <2>10, <2>11, <2>13
<1>. QED  BY <1>7, <1>9, <1>10

\* A row of n is the only one that changes.
LEMMA UniOnly ==
    ASSUME OpAssumed, OpInv, NEW event, Op!Handled(event), event # "Balancer", NEW n \in Nfts,
           \A m : m # n => ~IsFlow(opLogs[1], m),
           OpRowsTyped(opPosition'), OpSwapsTyped(swap', buffer'), SwapsOK(opNow, swap', buffer'),
           CostsOK(swap', opPosition'),
           \A m \in Nfts \ {n} : /\ SameRow(KeyOf(m, opNft[m]), opPosition, opPosition')
                                 /\ NoRowsOf(m, opPosition, opPosition'),
           \A x : SameRow(BptKey(x), opPosition, opPosition'),
           UniStep(n, opPosition')
    PROVE  OpInv'
<1>1. OpTyped /\ OpRowsTyped(opPosition) BY DEF OpInv, OpTyped
<1>2. opLogs[1].event # "Balancer" BY <1>1, OpHandledFacts
<1>3. ASSUME NEW m \in Nfts PROVE UniStep(m, opPosition')
  <2>1. CASE m = n BY <2>1
  <2>2. CASE m # n BY <2>2, UniUntouched
  <2>. QED  BY <2>1, <2>2
<1>4. \A x \in OpSafes : BptStep(x, opPosition') BY <1>1, <1>2, BptUntouched
<1>. QED  BY <1>3, <1>4, OpHandledStep

\* Rows that a handler leaves as they are.
LEMMA OpNothingDone ==
    ASSUME OpAssumed, OpInv, NEW event, Op!Handled(event), event # "Balancer",
           opPosition' = opPosition, swap' = swap, buffer' = buffer,
           \A n \in Nfts : Own(opNft[n]) => ~IsFlow(opLogs[1], n)
    PROVE  OpInv'
BY SameUni, OpHandledFacts, BptUntouched, OpHandledStep DEF OpInv, OpTyped, OpSwapsOK, SameRow,
    NoRowsOf, UniStep

\* A log that is no flow, and its row is refreshed.
LEMMA UniRefreshedStep ==
    ASSUME OpAssumed, OpInv, NEW event, Op!Handled(event),
           event \notin {"Balancer", "Increase", "Decrease"}, NEW n \in Nfts,
           opPosition' = Op!refreshUniV3Position(opPosition, n), swap' = swap, buffer' = buffer
    PROVE  OpInv'
<1>1. /\ OpTyped /\ OpSwapsTyped(swap, buffer) /\ SwapsOK(opNow, swap, buffer)
  BY DEF OpInv, OpTyped, OpSwapsOK
<1>2. opLogs[1].event = event BY <1>1, OpHandledFacts
<1>3. \A m : ~IsFlow(opLogs[1], m) BY <1>2 DEF IsFlow, IsIncrease, IsDecrease
<1>4. PICK next : next = opPosition' OBVIOUS
<1>5. next = Op!refreshUniV3Position(opPosition, n) BY <1>4
<1>6. /\ OpRowsTyped(next) /\ CostsOK(swap, next)
      /\ opNft[n].state = "unborn" => next = opPosition
      /\ \A m \in Nfts \ {n} : /\ SameRow(KeyOf(m, opNft[m]), opPosition, next)
                               /\ NoRowsOf(m, opPosition, next)
      /\ \A x : SameRow(BptKey(x), opPosition, next)
      /\ Own(opNft[n]) => UniSame(n, opNft[n], opPosition, next)
  BY <1>5, UniRefreshes
<1>7. UniStep(n, next) BY <1>3, <1>6 DEF UniStep, NoRowsOf
<1>. QED  BY <1>1, <1>3, <1>4, <1>6, <1>7, UniOnly

LEMMA CollectOfUni == ASSUME OpAssumed, OpInv, Op!handleUniV3Collect PROVE OpInv'
BY OpHandledFacts, UniRefreshedStep DEF Op!handleUniV3Collect, OpInv, OpEvents

LEMMA TransferOfUni == ASSUME OpAssumed, OpInv, Op!handleUniV3Transfer PROVE OpInv'
<1>1. PICK e, n : e = Head(opLogs) /\ n = e.id OBVIOUS
<1>2. Op!Handled("Transfer") /\ swap' = swap /\ buffer' = buffer
  BY DEF Op!handleUniV3Transfer
<1>3. e = opLogs[1] /\ e \in OpEvents /\ e.event = "Transfer"
  BY <1>1, <1>2, OpHandledFacts DEF OpInv
<1>4. n \in Nfts BY <1>1, <1>3 DEF OpEvents
<1>5. Op!SendersRow(e.from, e.id) \notin DOMAIN opPosition
  BY DEF OpInv, OpTyped, OpRowsTyped, PartialFn, OpKeys, Op!SendersRow
<1>6. \/ opPosition' = opPosition
      \/ opPosition' = Op!refreshUniV3Position(opPosition, n)
  BY <1>1, <1>5 DEF Op!handleUniV3Transfer
<1>7. CASE opPosition' = opPosition
  BY <1>3, <1>2, <1>7, OpNothingDone DEF IsFlow, IsIncrease, IsDecrease
<1>8. CASE opPosition' = Op!refreshUniV3Position(opPosition, n)
  BY <1>2, <1>4, <1>8, UniRefreshedStep
<1>. QED  BY <1>6, <1>7, <1>8

-----------------------------------------------------------------------------
(* Flows of Uniswap V3. *)

LEMMA IncreaseOfUni == ASSUME OpAssumed, OpInv, Op!handleUniV3IncreaseLiquidity PROVE OpInv'
<1>1. PICK e, n, amount : e = Head(opLogs) /\ n = e.id /\ amount = e.amount OBVIOUS
<1>2. Op!Handled("Increase") /\ Op!refreshUniV3PositionWithEventAmounts(n, amount)
  BY <1>1 DEF Op!handleUniV3IncreaseLiquidity
<1>3. e = opLogs[1] /\ e \in OpEvents /\ e.event = "Increase"
  BY <1>1, <1>2, OpHandledFacts DEF OpInv
<1>4. n \in Nfts /\ amount \in Int BY <1>1, <1>3 DEF OpEvents, Positives
<1>5. PICK r, key : r = opNft[n] /\ key = KeyOf(n, r) OBVIOUS
<1>6. /\ OpTyped /\ OpRowsTyped(opPosition) /\ SwapsOK(opNow, swap, buffer)
  BY DEF OpInv, OpTyped, OpSwapsOK
<1>7. /\ Op!Tracked(n) <=> Own(r)
      /\ Own(r) => /\ r.owner = r.home /\ r.home \in OpSafes /\ Op!Key(n) = key
                   /\ key \in OpKeys /\ r.state = "live"
      /\ opNft[n].liquidity \in Nat /\ opPrice \in Nat
      /\ UniOK(n, r, opPut[n], opTaken[n], opPrice, opPosition, opLogs)
  BY <1>4, <1>5, UniTracked
<1>8. /\ IsFlow(opLogs[1], n) /\ IsIncrease(opLogs[1], n) /\ ~IsDecrease(opLogs[1], n)
      /\ \A m : m # n => ~IsFlow(opLogs[1], m)
  BY <1>1, <1>3 DEF IsFlow, IsIncrease, IsDecrease
<1>9. CASE ~Own(r)
  BY <1>2, <1>7, <1>9, <1>5, <1>8, OpNothingDone DEF Op!refreshUniV3PositionWithEventAmounts
<1>10. CASE Own(r)
  <2>1. /\ Op!Tracked(n) /\ Op!Key(n) = key /\ key \in OpKeys /\ opNft[n].owner = r.home
        /\ r.home \in OpSafes /\ r.state = "live" /\ UniClosed(n, r, opPosition)
    BY <1>5, <1>7, <1>10 DEF UniOK, UniOwned
  <2>2. PICK x, new : x = r.home /\ new = [Op!NewPosition EXCEPT !.costs
                                                = Op!associateSwapsWithPosition(x)]
    OBVIOUS
  <2>3. /\ new \in OpRow /\ new.active /\ new.entry = 0
        /\ new.costs = Op!associateSwapsWithPosition(x)
    BY <1>6, <2>2, FreshRow
  <2>4. PICK old, paid : old = LoadOr(opPosition, key, new) /\ paid = amount * opPrice OBVIOUS
  <2>5. /\ old \in OpRow /\ (key \in DOMAIN opPosition => old = opPosition[key])
        /\ (key \notin DOMAIN opPosition => old = new)
    BY <1>6, <2>3, <2>4, RowLoaded
  <2>6. paid \in Int BY <1>4, <1>7, <2>4
  <2>7. PICK entry : entry = old.entry + paid OBVIOUS
  <2>8. entry \in Int BY <2>5, <2>6, <2>7 DEF OpRow
  <2>9. PICK raised : raised = [old EXCEPT !.entry = entry] OBVIOUS
  <2>10. /\ raised \in OpRow /\ raised.entry = entry /\ raised.costs = old.costs
         /\ raised.active = old.active /\ raised.exit = old.exit /\ raised.exited = old.exited
    BY ONLY <2>5, <2>8, <2>9 DEF OpRow
  <2>11. PICK rows, row :
            /\ rows = Put(opPosition, key, raised)
            /\ row = IF raised.active THEN Op!UniRefreshed(raised, n) ELSE raised
    OBVIOUS
  <2>12. rows[key] = raised /\ key \in DOMAIN rows BY <2>11 DEF Put
  <2>13. opPosition' = Op!refreshUniV3Position(rows, n)
    <3>1. Op!LoadOr(opPosition, Op!Key(n),
                    [Op!NewPosition EXCEPT !.costs = Op!associateSwapsWithPosition(opNft[n].owner)])
             = old
      BY <2>1, <2>2, <2>4, StoreOfOp
    <3>2. [old EXCEPT !.entry = old.entry + amount * opPrice] = raised BY <2>4, <2>7, <2>9
    <3>3. Op!Put(opPosition, Op!Key(n), raised) = rows BY <2>1, <2>11, StoreOfOp
    <3>. QED  BY <1>2, <2>1, <3>1, <3>2, <3>3 DEF Op!refreshUniV3PositionWithEventAmounts
  <2>14. opPosition' = Put(opPosition, key, row)
    BY <2>1, <2>12, StoreOfOp, <2>13, <2>11, PutTwice DEF LoadOr, Op!refreshUniV3Position
  <2>15. IF key \in DOMAIN opPosition THEN swap' = swap /\ buffer' = buffer ELSE Op!Associates(x)
    BY <1>2, <1>5, <2>1, <2>2 DEF Op!refreshUniV3PositionWithEventAmounts
  <2>16. /\ row \in OpRow /\ row.entry = entry /\ row.costs = old.costs
         /\ row.active => row.liquidity = r.liquidity
         /\ row.active \/ row.exited \/ ~old.active
         /\ ~old.active => ~row.active /\ row.exit = old.exit /\ row.exited = old.exited
    <3>1. CASE raised.active BY <2>11, <3>1, <1>7, <2>10, UniRow, <1>5
    <3>2. CASE ~raised.active BY <2>11, <3>2, <2>10
    <3>. QED  BY <3>1, <3>2
  <2>17. Saved(opPosition, opPosition', key, row) BY <1>6, <2>1, <2>14, <2>16, PutSaves
  <2>18. key \in DOMAIN opPosition' /\ opPosition'[key] = row /\ OpRowsTyped(opPosition')
    BY <2>17 DEF Saved
  <2>19. /\ OpSwapsTyped(swap', buffer') /\ SwapsOK(opNow, swap', buffer')
         /\ CostsOK(swap', opPosition')
    <3>1. key = <<x, n>> /\ x \in OpSafes /\ n \in Nfts \cup {OpPool}
      BY <1>4, <1>5, <2>1, <2>2 DEF KeyOf
    <3>2. /\ Saved(opPosition, opPosition', <<x, n>>, row)
          /\ <<x, n>> \in DOMAIN opPosition => row.costs = opPosition[<<x, n>>].costs
          /\ <<x, n>> \notin DOMAIN opPosition => row.costs = Op!associateSwapsWithPosition(x)
          /\ IF <<x, n>> \in DOMAIN opPosition THEN swap' = swap /\ buffer' = buffer
             ELSE Op!Associates(x)
      BY <2>3, <2>5, <2>15, <2>16, <2>17, <3>1
    <3>. QED  BY <3>1, <3>2, RowOfFlow
  <2>20. EntryOf(n, r, opPosition') = EntryOf(n, r, opPosition) + PutBy(opLogs[1], n, opPrice)
    <3>1. old.entry = EntryOf(n, r, opPosition) BY <1>5, <2>3, <2>5 DEF EntryOf
    <3>2. PutBy(opLogs[1], n, opPrice) = paid BY <1>1, <1>3, <1>8, <2>4 DEF PutBy
    <3>3. EntryOf(n, r, opPosition') = entry BY <1>5, <2>16, <2>18 DEF EntryOf
    <3>. QED  BY <2>7, <3>1, <3>2, <3>3
  <2>21. ExitsOf(n, r, opPosition) \subseteq ExitsOf(n, r, opPosition')
    <3>1. ASSUME NEW out \in ExitsOf(n, r, opPosition) PROVE out \in ExitsOf(n, r, opPosition')
      BY <1>5, <3>1, <2>5, <2>16, <2>18 DEF ExitsOf
    <3>. QED  BY <3>1
  <2>22. UniShows(n, r, opPosition') /\ UniClosed(n, r, opPosition')
    <3>1. row.active \/ row.exited
      <4>1. CASE key \in DOMAIN opPosition BY <1>5, <2>1, <2>5, <4>1, <2>16 DEF UniClosed
      <4>2. CASE key \notin DOMAIN opPosition BY <2>3, <2>5, <2>16, <4>2
      <4>. QED  BY <4>1, <4>2
    <3>. QED  BY <1>5, <2>16, <2>18, <3>1 DEF UniShows, UniClosed, ActiveRow
  <2>23. UniStep(n, opPosition')
    BY <1>5, <1>8, <2>18, <2>20, <2>21, <2>22, <2>1 DEF UniFlows, UniStep
  <2>24. /\ \A m \in Nfts \ {n} : /\ SameRow(KeyOf(m, opNft[m]), opPosition, opPosition')
                                  /\ NoRowsOf(m, opPosition, opPosition')
         /\ \A y : SameRow(BptKey(y), opPosition, opPosition')
    BY <1>4, <1>5, <2>17, UniElsewhere
  <2>. QED  BY <1>2, <1>4, <1>8, <2>18, <2>19, <2>23, <2>24, UniOnly
<1>. QED  BY <1>9, <1>10

LEMMA DecreaseOfUni == ASSUME OpAssumed, OpInv, Op!handleUniV3DecreaseLiquidity PROVE OpInv'
<1>1. PICK e, n, amount : e = Head(opLogs) /\ n = e.id /\ amount = e.amount OBVIOUS
<1>2. /\ Op!Handled("Decrease") /\ swap' = swap /\ buffer' = buffer
      /\ opPosition' = Op!refreshUniV3PositionWithExitAmounts(n, amount)
  BY <1>1 DEF Op!handleUniV3DecreaseLiquidity
<1>3. e = opLogs[1] /\ e \in OpEvents /\ e.event = "Decrease" /\ TailOf(opLogs, opLogs')
  BY <1>1, <1>2, OpHandledFacts DEF OpInv
<1>4. n \in Nfts /\ amount \in Int BY <1>1, <1>3 DEF OpEvents, Positives
<1>5. PICK r, key : r = opNft[n] /\ key = KeyOf(n, r) OBVIOUS
<1>6. /\ OpTyped /\ OpRowsTyped(opPosition) /\ SwapsOK(opNow, swap, buffer)
      /\ CostsOK(swap, opPosition) /\ OpSwapsTyped(swap, buffer)
  BY DEF OpInv, OpTyped, OpSwapsOK
<1>7. /\ Op!Tracked(n) <=> Own(r)
      /\ Own(r) => /\ r.owner = r.home /\ r.home \in OpSafes /\ Op!Key(n) = key
                   /\ key \in OpKeys /\ r.state = "live"
      /\ opNft[n].liquidity \in Nat /\ opPrice \in Nat
      /\ UniOK(n, r, opPut[n], opTaken[n], opPrice, opPosition, opLogs)
  BY <1>4, <1>5, UniTracked
<1>8. /\ IsFlow(opLogs[1], n) /\ ~IsIncrease(opLogs[1], n) /\ IsDecrease(opLogs[1], n)
      /\ \A m : m # n => ~IsFlow(opLogs[1], m)
  BY <1>1, <1>3 DEF IsFlow, IsIncrease, IsDecrease
<1>9. CASE ~Own(r)
  BY <1>2, <1>7, <1>9, <1>5, <1>8, OpNothingDone DEF Op!refreshUniV3PositionWithExitAmounts
<1>10. CASE Own(r)
  <2>1. /\ Op!Tracked(n) /\ Op!Key(n) = key /\ r.state = "live"
        /\ UniClosed(n, r, opPosition) /\ key \in DOMAIN opPosition
    BY <1>3, <1>5, <1>7, <1>8, <1>10, UniFound DEF UniOK, UniOwned
  <2>2. PutBy(opLogs[1], n, opPrice) = 0 /\ EntryOf(n, r, opPosition) \in Int
    BY <1>6, <1>8, OpEntryTyped DEF PutBy
  <2>3. CASE r.liquidity > 0
    <3>1. PICK next : next = opPosition' OBVIOUS
    <3>2. next = Op!refreshUniV3Position(opPosition, n)
      BY <1>2, <1>5, <2>1, <2>3, <3>1 DEF Op!refreshUniV3PositionWithExitAmounts
    <3>3. /\ OpRowsTyped(next) /\ CostsOK(swap, next)
          /\ \A m \in Nfts \ {n} : /\ SameRow(KeyOf(m, opNft[m]), opPosition, next)
                                   /\ NoRowsOf(m, opPosition, next)
          /\ \A x : SameRow(BptKey(x), opPosition, next)
          /\ UniSame(n, r, opPosition, next) /\ KeyOf(n, r) \in DOMAIN next /\ UniShows(n, r, next)
      BY <1>4, <1>5, <1>10, <3>2, UniRefreshes
    <3>4. UniFlows(n, r, opLogs[1], opPrice, opPosition, next)
      BY <2>2, <3>3, <1>5, <1>7, <2>3, <2>1 DEF UniSame, UniFlows
    <3>5. UniStep(n, next) BY <1>5, <1>8, <2>1, <3>4 DEF UniStep
    <3>. QED  BY <1>2, <1>4, <1>6, <1>8, <3>1, <3>3, <3>5, UniOnly
  <2>4. CASE ~(r.liquidity > 0)
    <3>1. PICK old, out : old = opPosition[key] /\ out = amount * opPrice OBVIOUS
    <3>2. old \in OpRow BY <1>6, <2>1, <3>1, OpEntryTyped
    <3>3. out \in Int BY <1>4, <1>7, <3>1
    <3>4. PICK last : last = [old EXCEPT !.active = FALSE, !.exit = out, !.exited = TRUE,
                                         !.usdCurrent = 0, !.liquidity = 0]
      OBVIOUS
    <3>5. /\ last \in OpRow /\ ~last.active /\ last.exited /\ last.exit = out
          /\ last.entry = old.entry /\ last.costs = old.costs
      <4>1. PICK gain, entry, costs : gain = old.netGain /\ entry = old.entry /\ costs = old.costs
        OBVIOUS
      <4>2. gain \in Int /\ entry \in Int /\ costs \in Int BY <3>2, <4>1 DEF OpRow
      <4>3. last = [active |-> FALSE, liquidity |-> 0, usdCurrent |-> 0, entry |-> entry,
                    exit |-> out, exited |-> TRUE, costs |-> costs, netGain |-> gain]
        BY <3>2, <3>4, <4>1 DEF OpRow
      <4>4. last \in OpRow BY ONLY <3>3, <4>2, <4>3 DEF OpRow
      <4>5. /\ ~last.active /\ last.exited /\ last.exit = out /\ last.entry = entry
            /\ last.costs = costs
        BY ONLY <4>3
      <4>. QED  BY <4>1, <4>4, <4>5
    <3>6. PICK row : row = Op!calculatePositionROI(last) OBVIOUS
    <3>7. /\ row \in OpRow /\ ~row.active /\ row.exited /\ row.exit = out
          /\ row.entry = old.entry /\ row.costs = old.costs
      BY <3>5, <3>6, OpRoi DEF SameFlows
    <3>8. opPosition' = [opPosition EXCEPT ![key] = row]
      BY <1>2, <1>5, <2>1, <2>4, <3>1, <3>4, <3>6 DEF Op!refreshUniV3PositionWithExitAmounts
    <3>9. Saved(opPosition, opPosition', key, row) BY <1>6, <2>1, <3>7, <3>8, ExceptSaves
    <3>10. key \in DOMAIN opPosition' /\ opPosition'[key] = row /\ OpRowsTyped(opPosition')
      BY <3>9 DEF Saved
    <3>11. CostsOK(swap, opPosition') BY <1>6, <2>1, <3>1, <3>7, <3>9, CostsSaved, NothingCharged
    <3>12. UniFlows(n, r, opLogs[1], opPrice, opPosition, opPosition')
      <4>1. EntryOf(n, r, opPosition') = EntryOf(n, r, opPosition) + PutBy(opLogs[1], n, opPrice)
        BY <1>5, <2>1, <3>1, <3>7, <3>10, <2>2 DEF EntryOf
      <4>2. opLogs[1].amount * opPrice = out BY <1>1, <1>3, <3>1
      <4>3. out \in ExitsOf(n, r, opPosition') BY <1>5, <3>3, <3>7, <3>10 DEF ExitsOf
      <4>4. UniShows(n, r, opPosition') /\ UniClosed(n, r, opPosition')
        BY <1>5, <3>7, <3>10 DEF UniShows, UniClosed, ActiveRow
      <4>. QED  BY <1>5, <1>8, <3>10, <4>1, <4>2, <4>3, <4>4 DEF UniFlows
    <3>13. UniStep(n, opPosition') BY <1>5, <1>8, <2>1, <3>12 DEF UniStep
    <3>14. /\ \A m \in Nfts \ {n} : /\ SameRow(KeyOf(m, opNft[m]), opPosition, opPosition')
                                    /\ NoRowsOf(m, opPosition, opPosition')
           /\ \A y : SameRow(BptKey(y), opPosition, opPosition')
      BY <1>4, <1>5, <3>9, UniElsewhere
    <3>. QED  BY <1>2, <1>4, <1>6, <1>8, <3>10, <3>11, <3>13, <3>14, UniOnly
  <2>. QED  BY <2>3, <2>4
<1>. QED  BY <1>9, <1>10

-----------------------------------------------------------------------------
(* No log is left: a Safe is polled, or the next block begins. *)

LEMMA OpIdleStep ==
    ASSUME OpAssumed, OpInv, Len(opLogs) = 0, opLogs' = opLogs, opPrice' \in Positives,
           opNow' \in Nat, opNow <= opNow', bpt' = bpt, opNft' = opNft, opPut' = opPut,
           opTaken' = opTaken, swap' = swap, buffer' = buffer,
           OpRowsTyped(opPosition'), CostsOK(swap, opPosition'),
           \A n \in Nfts : /\ NoRowsOf(n, opPosition, opPosition')
                           /\ Own(opNft[n]) => UniSame(n, opNft[n], opPosition, opPosition'),
           \A x \in OpSafes : /\ BptEntry(x, opPosition') = BptEntry(x, opPosition)
                              /\ BptExit(x, opPosition') = BptExit(x, opPosition)
                              /\ BptShows(x, bpt[x], opPosition) => BptShows(x, bpt[x], opPosition')
    PROVE  OpInv'
<1>1. /\ OpTyped /\ OpUniOK /\ OpBptOK /\ SwapsOK(opNow, swap, buffer)
      /\ opLogs \in Seq(OpEvents) /\ OpSwapsTyped(swap, buffer) /\ opNow \in Nat
  BY DEF OpInv, OpSwapsOK, OpTyped, OpChainTyped
<1>2. OpTyped' BY <1>1 DEF OpTyped, OpChainTyped
<1>3. OpSwapsOK' BY <1>1, TimePasses DEF OpSwapsOK
<1>4. OpUniOK'
  <2>1. ASSUME NEW n \in Nfts
        PROVE  UniOK(n, opNft[n], opPut[n], opTaken[n], opPrice', opPosition', opLogs)
    BY <1>1, UniIdle DEF OpUniOK
  <2>. QED  BY <2>1 DEF OpUniOK
<1>5. OpBptOK'
  <2>1. ASSUME NEW x \in OpSafes
        PROVE  BptOK(x, bpt[x], opPut[x], opTaken[x], opPrice', opPosition', FlowsOf(opLogs, x))
    BY <1>1, FlowsTyped, BptIdle DEF OpBptOK
  <2>. QED  BY <2>1 DEF OpBptOK
<1>. QED  BY <1>2, <1>3, <1>4, <1>5 DEF OpInv

LEMMA OpNextBlockStep == ASSUME OpAssumed, OpInv, Op!NextBlock PROVE OpInv'
<1>1. /\ opLogs = <<>> /\ opLogs' = opLogs /\ opPrice' \in OpPrices
      /\ opNow' \in {t \in opNow + 1 .. opNow + MaxStep : t <= OpMaxNow}
      /\ bpt' = bpt /\ opNft' = opNft /\ opPut' = opPut /\ opTaken' = opTaken
      /\ opPosition' = opPosition /\ swap' = swap /\ buffer' = buffer
  BY DEF Op!NextBlock
<1>2. /\ OpRowsTyped(opPosition) /\ CostsOK(swap, opPosition) /\ opNow \in Nat
  BY DEF OpInv, OpSwapsOK, OpTyped, OpChainTyped
<1>3. opPrice' \in Positives /\ Len(opLogs) = 0 BY <1>1 DEF OpAssumed
<1>4. opNow' \in Nat /\ opNow <= opNow' BY <1>1, <1>2 DEF OpAssumed
<1>5. \A j : SameRow(j, opPosition, opPosition) BY DEF SameRow
<1>6. \A n : NoRowsOf(n, opPosition, opPosition) BY DEF NoRowsOf
<1>7. \A n : UniSame(n, opNft[n], opPosition, opPosition) BY <1>5, SameUni
<1>. QED  BY <1>1, <1>2, <1>3, <1>4, <1>6, <1>7, OpIdleStep

\* A row of the Safe that is polled.
LEMMA PolledRow ==
    ASSUME OpAssumed, OpInv, NEW x \in OpSafes, NEW next,
           next = Op!refreshAllActivePositions(x), NEW key \in DOMAIN opPosition
    PROVE  /\ next[key] \in OpRow /\ next[key].costs = opPosition[key].costs
           /\ \A n \in Nfts : key = KeyOf(n, opNft[n]) /\ Own(opNft[n]) =>
                 UniSame(n, opNft[n], opPosition, next)
           /\ \A y \in OpSafes : key = BptKey(y) =>
                 /\ SameFlows(opPosition[key], next[key])
                 /\ \/ next[key] = opPosition[key]
                    \/ (next[key].active <=> bpt[y] > 0) /\ next[key].liquidity = bpt[y]
<1>1. PICK row : row = opPosition[key] OBVIOUS
<1>2. /\ OpRowsTyped(opPosition) /\ row \in OpRow /\ key \in OpKeys
      /\ bpt \in [OpSafes -> Nat] /\ opPrice \in Nat
  BY <1>1 DEF OpInv, OpTyped, OpRowsTyped, PartialFn, OpChainTyped, Positives
<1>3. DOMAIN next = DOMAIN opPosition
      /\ next[key] = IF key[1] = x /\ row.active
                     THEN IF key[2] = OpPool THEN Op!BalancerRefreshed(row, x)
                          ELSE Op!refreshUniV3Position(opPosition, key[2])[key]
                     ELSE row
  BY <1>1 DEF Op!refreshAllActivePositions
<1>4. CASE next[key] = row BY <1>1, <1>3, <1>4, <1>2, SameUni DEF SameRow, SameFlows
<1>5. CASE key[1] = x /\ key[2] = OpPool /\ next[key] = Op!BalancerRefreshed(row, x)
  BY <1>2, BalancerRow, <1>5, <1>1 DEF KeyOf, OpAssumed, BptKey, SameFlows
<1>6. CASE key[2] # OpPool /\ next[key] = Op!refreshUniV3Position(opPosition, key[2])[key]
  <2>1. PICK n, rows : n = key[2] /\ rows = Op!refreshUniV3Position(opPosition, n) OBVIOUS
  <2>2. n \in Nfts BY <1>2, <1>6, <2>1 DEF OpKeys
  <2>3. /\ OpRowsTyped(rows) /\ key \in DOMAIN rows /\ rows[key].costs = row.costs
        /\ Own(opNft[n]) => UniSame(n, opNft[n], opPosition, rows)
    BY <1>1, <2>1, <2>2, UniRefreshes
  <2>4. rows[key] = next[key] BY <1>6, <2>1
  <2>5. next[key] \in OpRow BY <2>3, <2>4, OpEntryTyped
  <2>6. ASSUME NEW m \in Nfts, key = KeyOf(m, opNft[m]), Own(opNft[m])
        PROVE  UniSame(m, opNft[m], opPosition, next)
    BY <2>1, <2>6, <2>3, <1>3, <2>4 DEF KeyOf, UniSame, EntryOf, ExitsOf, UniShows, ActiveRow,
        UniClosed
  <2>7. \A y : key # BptKey(y) BY <1>6 DEF BptKey
  <2>. QED  BY <1>1, <2>3, <2>4, <2>5, <2>6, <2>7
<1>. QED  BY <1>3, <1>4, <1>5, <1>6

LEMMA OpPolled == ASSUME OpAssumed, OpInv, NEW x \in OpSafes, Op!Poll(x) PROVE OpInv'
<1>1. /\ opLogs = <<>> /\ opPosition' = Op!refreshAllActivePositions(x)
      /\ opLogs' = opLogs /\ opPrice' = opPrice /\ opNow' = opNow
      /\ bpt' = bpt /\ opNft' = opNft /\ opPut' = opPut /\ opTaken' = opTaken
      /\ swap' = swap /\ buffer' = buffer
  BY DEF Op!Poll, Op!chain
<1>2. /\ OpRowsTyped(opPosition) /\ CostsOK(swap, opPosition) /\ opNow \in Nat
      /\ opPrice \in Positives
  BY DEF OpInv, OpSwapsOK, OpTyped, OpChainTyped
<1>3. PICK next : next = opPosition' OBVIOUS
<1>4. next = Op!refreshAllActivePositions(x) BY <1>1, <1>3
<1>5. DOMAIN next = DOMAIN opPosition /\ next = [key \in DOMAIN next |-> next[key]]
  BY <1>4 DEF Op!refreshAllActivePositions
<1>6. \A key \in DOMAIN opPosition :
         /\ next[key] \in OpRow /\ next[key].costs = opPosition[key].costs
         /\ \A n \in Nfts : key = KeyOf(n, opNft[n]) /\ Own(opNft[n]) =>
               UniSame(n, opNft[n], opPosition, next)
         /\ \A y \in OpSafes : key = BptKey(y) =>
               /\ SameFlows(opPosition[key], next[key])
               /\ \/ next[key] = opPosition[key]
                  \/ (next[key].active <=> bpt[y] > 0) /\ next[key].liquidity = bpt[y]
  BY <1>4, PolledRow
<1>7. OpRowsTyped(next) BY <1>2, <1>5, <1>6 DEF OpRowsTyped, PartialFn
<1>8. CostsOK(swap, next) BY <1>5, <1>6, <1>2, NothingCharged DEF CostsSame
<1>9. ASSUME NEW n \in Nfts
      PROVE  /\ NoRowsOf(n, opPosition, next)
             /\ Own(opNft[n]) => UniSame(n, opNft[n], opPosition, next)
  <2>1. CASE KeyOf(n, opNft[n]) \in DOMAIN opPosition BY <1>5, <1>6, <2>1 DEF NoRowsOf
  <2>2. CASE KeyOf(n, opNft[n]) \notin DOMAIN opPosition
    BY <1>5, <2>2, SameUni DEF SameRow, NoRowsOf
  <2>. QED  BY <2>1, <2>2
<1>10. ASSUME NEW y \in OpSafes
       PROVE  /\ BptEntry(y, next) = BptEntry(y, opPosition)
              /\ BptExit(y, next) = BptExit(y, opPosition)
              /\ BptShows(y, bpt[y], opPosition) => BptShows(y, bpt[y], next)
  <2>1. CASE BptKey(y) \in DOMAIN opPosition
    BY <1>5, <1>6, <2>1 DEF BptEntry, BptExit, BptShows, SameFlows
  <2>2. CASE BptKey(y) \notin DOMAIN opPosition BY <1>5, <2>2, SameBpt DEF SameRow
  <2>. QED  BY <2>1, <2>2
<1>11. Len(opLogs) = 0 /\ opNow <= opNow' BY <1>1, <1>2
<1>. QED  BY <1>1, <1>2, <1>3, <1>7, <1>8, <1>9, <1>10, <1>11, OpIdleStep

-----------------------------------------------------------------------------
(* Steps of the chain. *)

LEMMA OpEmits ==
    ASSUME OpTyped, NEW es \in Seq(OpEvents), Op!Emits(es)
    PROVE  /\ opNow' = opNow /\ opPrice' = opPrice /\ opPosition' = opPosition
           /\ swap' = swap /\ buffer' = buffer
           /\ opLogs \in Seq(OpEvents) /\ opLogs' \in Seq(OpEvents) /\ Extends(opLogs, opLogs')
           /\ \A j \in 1..Len(es) : /\ Len(opLogs) + j \in After(opLogs, opLogs')
                                    /\ opLogs'[Len(opLogs) + j] = es[j]
           /\ \A i \in After(opLogs, opLogs') :
                 \E j \in 1..Len(es) : i = Len(opLogs) + j /\ opLogs'[i] = es[j]
<1>1. /\ opLogs' = opLogs \o es /\ opNow' = opNow /\ opPrice' = opPrice
      /\ opPosition' = opPosition /\ swap' = swap /\ buffer' = buffer
  BY DEF Op!Emits
<1>2. opLogs \in Seq(OpEvents) BY DEF OpTyped, OpChainTyped
<1>3. PICK l, k : l = opLogs /\ k = opLogs' OBVIOUS
<1>4. l \in Seq(OpEvents) /\ Joined(l, es, k) BY <1>1, <1>2, <1>3 DEF Joined
<1>5. /\ k \in Seq(OpEvents) /\ Extends(l, k) /\ Len(k) = Len(l) + Len(es)
      /\ \A j \in 1..Len(es) : k[Len(l) + j] = es[j]
  BY ONLY <1>4, es \in Seq(OpEvents), Concatenated
<1>6. Len(l) \in Nat /\ Len(es) \in Nat BY <1>4
<1>7. \A j \in 1..Len(es) : Len(l) + j \in After(l, k) BY <1>5, <1>6 DEF After
<1>8. ASSUME NEW i \in After(l, k) PROVE \E j \in 1..Len(es) : i = Len(l) + j /\ k[i] = es[j]
  <2>1. i - Len(l) \in 1..Len(es) /\ i = Len(l) + (i - Len(l)) BY <1>5, <1>6 DEF After
  <2>. QED  BY <1>5, <2>1
<1>. QED  BY <1>1, <1>2, <1>3, <1>5, <1>7, <1>8

LEMMA OpChainMoves ==
    ASSUME OpInv, NEW es \in Seq(OpEvents), Op!Emits(es),
           bpt' \in [OpSafes -> Nat], opNft' \in [Nfts -> OpNft],
           opPut' \in [Nfts \cup OpSafes -> Int], opTaken' \in [Nfts \cup OpSafes -> Int],
           \A n \in Nfts :
              UniOK(n, opNft'[n], opPut'[n], opTaken'[n], opPrice, opPosition, opLogs'),
           \A x \in OpSafes : BptOK(x, bpt'[x], opPut'[x], opTaken'[x], opPrice, opPosition,
                                    FlowsOf(opLogs', x))
    PROVE  OpInv'
BY OpEmits DEF OpInv, OpTyped, OpChainTyped, OpSwapsOK, OpUniOK, OpBptOK

\* No new log is a flow of the NFT.
LEMMA UniUnmoved ==
    ASSUME OpInv, NEW es \in Seq(OpEvents), Op!Emits(es), NEW n \in Nfts,
           \A j \in 1..Len(es) : ~IsFlow(es[j], n), NEW s,
           s.state = "unborn" <=> opNft[n].state = "unborn", s.home = opNft[n].home,
           s.liquidity = opNft[n].liquidity, s.owner \in {opNft[n].owner, OpOutsider, OpZero},
           Own(s) => Own(opNft[n])
    PROVE  UniOK(n, s, opPut[n], opTaken[n], opPrice, opPosition, opLogs')
<1>1. UniOK(n, opNft[n], opPut[n], opTaken[n], opPrice, opPosition, opLogs)
  BY DEF OpInv, OpUniOK
<1>2. Extends(opLogs, opLogs') /\ \A i \in After(opLogs, opLogs') : ~IsFlow(opLogs'[i], n)
  BY OpEmits DEF OpInv
<1>. QED  BY <1>1, <1>2, UniAppended

\* No new log moves pool tokens of the Safe.
LEMMA BptUnmoved ==
    ASSUME OpInv, NEW es \in Seq(OpEvents), Op!Emits(es), NEW x \in OpSafes,
           \A j \in 1..Len(es) : es[j].event = "Balancer" =>
              es[j].liquidityProvider # x \/ Change(es[j]) = 0
    PROVE  BptOK(x, bpt[x], opPut[x], opTaken[x], opPrice, opPosition, FlowsOf(opLogs', x))
<1>1. PICK f, g : f = FlowsOf(opLogs, x) /\ g = FlowsOf(opLogs', x) OBVIOUS
<1>2. BptOK(x, bpt[x], opPut[x], opTaken[x], opPrice, opPosition, f) BY <1>1 DEF OpInv, OpBptOK
<1>3. /\ opLogs \in Seq(OpEvents) /\ opLogs' \in Seq(OpEvents) /\ Extends(opLogs, opLogs')
      /\ \A i \in After(opLogs, opLogs') :
            \E j \in 1..Len(es) : opLogs'[i] = es[j]
  BY OpEmits DEF OpInv
<1>4. /\ Extends(f, g) /\ After(f, g) = After(opLogs, opLogs')
      /\ \A i \in After(opLogs, opLogs') : g[i] = FlowOf(opLogs'[i], x)
  BY <1>1, <1>3, FlowsExtend
<1>5. \A i \in After(f, g) : ~IsFlow(g[i], OpPool) BY <1>3, <1>4, NoFlow
<1>. QED  BY <1>1, <1>2, <1>4, <1>5, BptAppended

\* Something happens to an NFT.
LEMMA UniChainStep ==
    ASSUME OpAssumed, OpInv, NEW es \in Seq(OpEvents), Op!Emits(es), NEW n \in Nfts,
           \A j \in 1..Len(es) : /\ es[j].event # "Balancer"
                                 /\ \A m \in Nfts \ {n} : ~IsFlow(es[j], m),
           bpt' = bpt, opNft' \in [Nfts -> OpNft],
           opPut' \in [Nfts \cup OpSafes -> Int], opTaken' \in [Nfts \cup OpSafes -> Int],
           \A m \in Nfts \ {n} : opNft'[m] = opNft[m],
           \A m \in (Nfts \cup OpSafes) \ {n} : opPut'[m] = opPut[m] /\ opTaken'[m] = opTaken[m],
           UniOK(n, opNft'[n], opPut'[n], opTaken'[n], opPrice, opPosition, opLogs')
    PROVE  OpInv'
<1>1. bpt \in [OpSafes -> Nat] BY DEF OpInv, OpTyped, OpChainTyped
<1>2. ASSUME NEW m \in Nfts
      PROVE  UniOK(m, opNft'[m], opPut'[m], opTaken'[m], opPrice, opPosition, opLogs')
  <2>1. CASE m = n BY <2>1
  <2>2. CASE m # n BY <2>2, UniUnmoved
  <2>. QED  BY <2>1, <2>2
<1>3. ASSUME NEW x \in OpSafes
      PROVE  BptOK(x, bpt'[x], opPut'[x], opTaken'[x], opPrice, opPosition, FlowsOf(opLogs', x))
  BY BptUnmoved DEF OpAssumed
<1>. QED  BY <1>1, <1>2, <1>3, OpChainMoves

\* The new log at place j is the only flow.
LEMMA UniOneFlow ==
    ASSUME OpTyped, NEW es \in Seq(OpEvents), Op!Emits(es), NEW n, NEW j \in 1..Len(es),
           IsFlow(es[j], n), es[j].amount \in Positives,
           \A i \in 1..Len(es) : i # j => ~IsFlow(es[i], n)
    PROVE  /\ OneFlow(n, opLogs, opLogs', Len(opLogs) + j)
           /\ opLogs'[Len(opLogs) + j] = es[j]
<1>1. PICK m, k : m = Len(opLogs) /\ k = opLogs' OBVIOUS
<1>2. /\ Extends(opLogs, k)
      /\ \A i \in 1..Len(es) : m + i \in After(opLogs, k) /\ k[m + i] = es[i]
      /\ \A i \in After(opLogs, k) : \E q \in 1..Len(es) : i = m + q /\ k[i] = es[q]
  BY <1>1, OpEmits
<1>3. m + j \in After(opLogs, k) /\ k[m + j] = es[j] BY <1>2
<1>4. \A i \in After(opLogs, k) : i # m + j => ~IsFlow(k[i], n)
  <2>1. ASSUME NEW i \in After(opLogs, k), i # m + j PROVE ~IsFlow(k[i], n)
    <3>1. PICK q \in 1..Len(es) : i = m + q /\ k[i] = es[q] BY <1>2
    <3>2. q # j BY <2>1, <3>1
    <3>. QED  BY <3>1, <3>2
  <2>. QED  BY <2>1
<1>. QED  BY <1>1, <1>2, <1>3, <1>4 DEF OneFlow

LEMMA OpCloseBlockStep == ASSUME OpInv, Op!CloseBlock PROVE OpInv'
BY DEF Op!CloseBlock, OpInv, OpTyped, OpChainTyped, OpSwapsOK, OpUniOK, OpBptOK

\* A log that changes nothing else on the chain.
LEMMA OpQuietStep ==
    ASSUME OpInv, NEW es \in Seq(OpEvents), Op!Emits(es), bpt' = bpt, opNft' = opNft,
           opPut' = opPut, opTaken' = opTaken,
           \A j \in 1..Len(es) : es[j].event \notin {"Increase", "Decrease"},
           \A j \in 1..Len(es) : es[j].event = "Balancer" => Change(es[j]) = 0
    PROVE  OpInv'
<1>1. /\ bpt \in [OpSafes -> Nat] /\ opNft \in [Nfts -> OpNft]
      /\ opPut \in [Nfts \cup OpSafes -> Int] /\ opTaken \in [Nfts \cup OpSafes -> Int]
  BY DEF OpInv, OpTyped, OpChainTyped
<1>2. ASSUME NEW n \in Nfts
      PROVE  UniOK(n, opNft[n], opPut[n], opTaken[n], opPrice, opPosition, opLogs')
  BY UniUnmoved DEF IsFlow, IsIncrease, IsDecrease
<1>3. \A x \in OpSafes :
         BptOK(x, bpt[x], opPut[x], opTaken[x], opPrice, opPosition, FlowsOf(opLogs', x))
  BY BptUnmoved
<1>. QED  BY <1>1, <1>2, <1>3, OpChainMoves

LEMMA OneLog == ASSUME NEW S, NEW e \in S, NEW es, es = <<e>>
                PROVE  es \in Seq(S) /\ Len(es) = 1 /\ \A j \in 1..Len(es) : es[j] = e
OBVIOUS

LEMMA LiFiStep ==
    ASSUME OpAssumed, OpInv, NEW x \in OpSafes \cup {OpOutsider}, NEW i \in {"valory", "other"},
           NEW s \in Slippages, Op!SwapThroughLiFi(x, i, s)
    PROVE  OpInv'
<1>1. PICK e, es : /\ e = [event |-> "LiFi", receiver |-> x, integrator |-> i, slippage |-> s]
                   /\ es = <<e>>
  OBVIOUS
<1>2. e \in OpEvents /\ e.event = "LiFi" BY <1>1 DEF OpEvents, OpAccounts, OpAssumed
<1>3. /\ Op!Emits(es) /\ bpt' = bpt /\ opNft' = opNft /\ opPut' = opPut /\ opTaken' = opTaken
  BY <1>1 DEF Op!SwapThroughLiFi
<1>4. es \in Seq(OpEvents) /\ \A j \in 1..Len(es) : es[j] = e BY <1>1, <1>2, OneLog
<1>. QED  BY <1>2, <1>3, <1>4, OpQuietStep

LEMMA PoolStep ==
    ASSUME OpAssumed, OpInv, NEW x \in OpSafes, NEW d \in OpDeltas, NEW m \in Int, d[1] + d[2] = m,
           Op!PoolBalanceChanged(x, d, m)
    PROVE  OpInv'
<1>1. PICK e, es : e = [event |-> "Balancer", liquidityProvider |-> x, deltas |-> d] /\ es = <<e>>
  OBVIOUS
<1>2. /\ e \in OpEvents /\ e.event = "Balancer" /\ e.liquidityProvider = x /\ e.deltas = d
  BY <1>1 DEF OpEvents
<1>3. PICK value : value = opPrice * m OBVIOUS
<1>4. /\ Op!Emits(es) /\ bpt[x] + m \in 0..MaxBpt
      /\ bpt' = [bpt EXCEPT ![x] = bpt[x] + m]
      /\ opPut' = IF m > 0 THEN [opPut EXCEPT ![x] = opPut[x] + value] ELSE opPut
      /\ opTaken' = IF m < 0 THEN [opTaken EXCEPT ![x] = -value] ELSE opTaken
      /\ opNft' = opNft
  BY <1>1, <1>3 DEF Op!PoolBalanceChanged
<1>5. es \in Seq(OpEvents) /\ Len(es) = 1 /\ \A j \in 1..Len(es) : es[j] = e
  BY <1>1, <1>2, OneLog
<1>6. /\ OpTyped /\ bpt \in [OpSafes -> Nat] /\ opNft \in [Nfts -> OpNft] /\ opPrice \in Int
      /\ opPut \in [Nfts \cup OpSafes -> Int] /\ opTaken \in [Nfts \cup OpSafes -> Int]
  BY DEF OpInv, OpTyped, OpChainTyped, Positives
<1>7. value \in Int BY <1>3, <1>6
<1>8. opPut[x] \in Int /\ opTaken[x] \in Int BY <1>6
<1>9. opPut[x] + value \in Int /\ -value \in Int BY <1>7, <1>8
<1>10. /\ bpt' \in [OpSafes -> Nat] /\ opNft' \in [Nfts -> OpNft]
       /\ opPut' \in [Nfts \cup OpSafes -> Int] /\ opTaken' \in [Nfts \cup OpSafes -> Int]
  BY <1>4, <1>6, <1>9 DEF OpAssumed
<1>11. ASSUME NEW n \in Nfts
       PROVE  UniOK(n, opNft'[n], opPut'[n], opTaken'[n], opPrice, opPosition, opLogs')
  BY <1>4, <1>6, <1>2, <1>5, UniUnmoved DEF OpAssumed, IsFlow, IsIncrease, IsDecrease
<1>12. ASSUME NEW y \in OpSafes, y # x \/ m = 0
       PROVE  BptOK(y, bpt'[y], opPut'[y], opTaken'[y], opPrice, opPosition, FlowsOf(opLogs', y))
  <2>1. bpt'[y] = bpt[y] /\ opPut'[y] = opPut[y] /\ opTaken'[y] = opTaken[y]
    <3>1. bpt[y] \in Nat BY <1>6
    <3>2. CASE y # x BY <1>4, <1>6, <3>2
    <3>3. CASE y = x /\ m = 0 BY <3>1, <3>3, <1>4, <1>6
    <3>. QED  BY <1>12, <3>2, <3>3
  <2>2. Change(e) = m BY <1>2 DEF Change
  <2>3. \A j \in 1..Len(es) : es[j].event = "Balancer" =>
           es[j].liquidityProvider # y \/ Change(es[j]) = 0
    BY <1>2, <1>5, <1>12, <2>2
  <2>4. BptOK(y, bpt[y], opPut[y], opTaken[y], opPrice, opPosition, FlowsOf(opLogs', y))
    BY <1>4, <1>5, <2>3, BptUnmoved
  <2>. QED  BY <2>1, <2>4
<1>13. ASSUME m # 0
       PROVE  BptOK(x, bpt'[x], opPut'[x], opTaken'[x], opPrice, opPosition, FlowsOf(opLogs', x))
  <2>1. PICK f, g : f = FlowsOf(opLogs, x) /\ g = FlowsOf(opLogs', x) OBVIOUS
  <2>2. BptOK(x, bpt[x], opPut[x], opTaken[x], opPrice, opPosition, f)
    BY <2>1 DEF OpInv, OpBptOK
  <2>3. PICK l, k : l = opLogs /\ k = opLogs' OBVIOUS
  <2>4. /\ l \in Seq(OpEvents) /\ k \in Seq(OpEvents) /\ Extends(l, k)
        /\ \A j \in 1..Len(es) : Len(l) + j \in After(l, k) /\ k[Len(l) + j] = es[j]
        /\ \A i \in After(l, k) : \E j \in 1..Len(es) : i = Len(l) + j /\ k[i] = es[j]
    BY <1>4, <1>5, <1>6, <2>3, OpEmits
  <2>5. PICK at : at = Len(l) + 1 OBVIOUS
  <2>6. at \in After(l, k) /\ k[at] = e /\ \A i \in After(l, k) : i = at BY <1>5, <2>4, <2>5
  <2>7. /\ Extends(f, g) /\ After(f, g) = After(l, k)
        /\ \A i \in After(l, k) : g[i] = FlowOf(k[i], x)
    BY <2>1, <2>3, <2>4, FlowsExtend
  <2>8. g[at] = FlowOf(e, x) /\ Change(e) = m BY <1>2, <2>6, <2>7 DEF Change
  <2>9. CASE m > 0
    <3>1. g[at] = Flow("Increase", m) BY <1>2, <2>8, <2>9 DEF FlowOf
    <3>2. IsIncrease(g[at], OpPool) /\ ~IsDecrease(g[at], OpPool) /\ g[at].amount = m
      BY <3>1 DEF Flow, IsIncrease, IsDecrease
    <3>3. OneFlow(OpPool, f, g, at)
      BY <2>6, <2>7, <2>9, <3>2 DEF OneFlow, IsFlow, Positives
    <3>4. PutBy(g[at], OpPool, opPrice) = value BY <1>6, <1>3, <3>2 DEF PutBy
    <3>5. opPut'[x] = opPut[x] + PutBy(g[at], OpPool, opPrice) /\ opTaken'[x] = opTaken[x]
      BY <2>9, <1>4, <1>6, <3>4
    <3>6. PICK held, in, out, p, rows : /\ held = bpt[x] /\ in = opPut[x] /\ out = opTaken[x]
                                        /\ p = opPrice /\ rows = opPosition
      OBVIOUS
    <3>7. BptOK(x, held, in, out, p, rows, f) /\ p \in Int BY <1>6, <2>2, <3>6
    <3>8. PICK then : then = bpt'[x] OBVIOUS
    <3>9. BptOK(x, then, in + PutBy(g[at], OpPool, p),
                IF IsDecrease(g[at], OpPool) THEN g[at].amount * p ELSE out, p, rows, g)
      BY <3>3, <3>7, BptFlowed
    <3>. QED  BY <2>1, <3>2, <3>5, <3>6, <3>8, <3>9
  <2>10. CASE m < 0
    <3>1. g[at] = Flow("Decrease", -m) BY <1>2, <2>8, <2>10 DEF FlowOf
    <3>2. ~IsIncrease(g[at], OpPool) /\ IsDecrease(g[at], OpPool) /\ g[at].amount = -m
      BY <3>1 DEF Flow, IsIncrease, IsDecrease
    <3>3. OneFlow(OpPool, f, g, at)
      BY <2>6, <2>7, <2>10, <3>2 DEF OneFlow, IsFlow, Positives
    <3>4. PutBy(g[at], OpPool, opPrice) = 0 BY <3>2 DEF PutBy
    <3>5. opPut'[x] = opPut[x] + PutBy(g[at], OpPool, opPrice) BY <2>10, <1>4, <1>8, <3>4
    <3>6. opTaken'[x] = g[at].amount * opPrice BY <1>3, <1>6, <1>4, <2>10, <3>2
    <3>7. PICK held, in, out, p, rows : /\ held = bpt[x] /\ in = opPut[x] /\ out = opTaken[x]
                                        /\ p = opPrice /\ rows = opPosition
      OBVIOUS
    <3>8. BptOK(x, held, in, out, p, rows, f) /\ p \in Int BY <1>6, <2>2, <3>7
    <3>9. PICK then : then = bpt'[x] OBVIOUS
    <3>10. BptOK(x, then, in + PutBy(g[at], OpPool, p),
                 IF IsDecrease(g[at], OpPool) THEN g[at].amount * p ELSE out, p, rows, g)
      BY <3>3, <3>8, BptFlowed
    <3>. QED  BY <2>1, <3>2, <3>5, <3>6, <3>7, <3>9, <3>10
  <2>. QED  BY <1>13, <2>9, <2>10
<1>14. \A y \in OpSafes :
          BptOK(y, bpt'[y], opPut'[y], opTaken'[y], opPrice, opPosition, FlowsOf(opLogs', y))
  BY <1>12, <1>13
<1>. QED  BY <1>4, <1>5, <1>10, <1>11, <1>14, OpChainMoves

LEMMA PoolSteps ==
    ASSUME OpAssumed, OpInv, NEW x \in OpSafes,
           \/ \E amount \in 1..MaxBpt : \/ Op!PoolBalanceChanged(x, <<amount, 0>>, amount)
                                        \/ Op!PoolBalanceChanged(x, <<-amount, 0>>, -amount)
           \/ \E d \in {<<0, 0>>, <<1, -1>>} : Op!PoolBalanceChanged(x, d, 0)
    PROVE  OpInv'
<1>1. ASSUME NEW a \in Int, Op!PoolBalanceChanged(x, <<a, 0>>, a) PROVE OpInv'
  BY <1>1, PoolStep DEF OpDeltas
<1>2. ASSUME Op!PoolBalanceChanged(x, <<1, -1>>, 0) PROVE OpInv' BY <1>2, PoolStep DEF OpDeltas
<1>3. ASSUME NEW amount \in 1..MaxBpt, Op!PoolBalanceChanged(x, <<amount, 0>>, amount) PROVE OpInv'
  BY <1>1, <1>3 DEF OpAssumed
<1>4. ASSUME NEW amount \in 1..MaxBpt, Op!PoolBalanceChanged(x, <<-amount, 0>>, -amount)
      PROVE  OpInv'
  BY <1>4, <1>1 DEF OpAssumed
<1>5. ASSUME Op!PoolBalanceChanged(x, <<0, 0>>, 0) PROVE OpInv' BY <1>5, <1>1
<1>. QED  BY <1>2, <1>3, <1>4, <1>5

-----------------------------------------------------------------------------
(* Steps of the chain that concern an NFT. *)

\* The logs of a step on the NFT n: none is of Balancer, none is a flow of another NFT.
OnlyOf(n, es) == \A j \in 1..Len(es) : /\ es[j].event # "Balancer"
                                       /\ \A m \in Nfts \ {n} : ~IsFlow(es[j], m)

LEMMA OnlyLogs ==
    ASSUME NEW n, NEW e, e.event \in {"Transfer", "Collect"} \/ IsFlow(e, n)
    PROVE  e.event # "Balancer" /\ \A m \in Nfts \ {n} : ~IsFlow(e, m)
BY DEF IsFlow, IsIncrease, IsDecrease

LEMMA TwoLogs == ASSUME NEW S, NEW a \in S, NEW b \in S, NEW es, es = <<a, b>>
                 PROVE  es \in Seq(S) /\ Len(es) = 2 /\ es[1] = a /\ es[2] = b
OBVIOUS

LEMMA ThreeLogs == ASSUME NEW S, NEW a \in S, NEW b \in S, NEW c \in S, NEW es, es = <<a, b, c>>
                   PROVE  es \in Seq(S) /\ Len(es) = 3 /\ es[1] = a /\ es[2] = b /\ es[3] = c
OBVIOUS

\* The logs of a mint; the flow is the second.
MintLogs(x, n, amount, es) ==
    \/ es = <<Op!NftTransfer(OpZero, x, n), Op!Increase(n, amount)>>
    \/ es = <<Op!NftTransfer(OpZero, OpOutsider, n), Op!Increase(n, amount),
              Op!NftTransfer(OpOutsider, x, n)>>

LEMMA OpLogs ==
    ASSUME NEW n \in Nfts
    PROVE  /\ \A from, to \in OpAccounts :
                 LET e == Op!NftTransfer(from, to, n)
                 IN  e \in OpEvents /\ e.event = "Transfer" /\ \A m : ~IsFlow(e, m)
           /\ \A amount \in Positives :
                 LET e == Op!Increase(n, amount)
                 IN  e \in OpEvents /\ IsFlow(e, n) /\ IsIncrease(e, n) /\ e.amount = amount
<1>1. ASSUME NEW from \in OpAccounts, NEW to \in OpAccounts, NEW e, e = Op!NftTransfer(from, to, n)
      PROVE  e \in OpEvents /\ e.event = "Transfer" /\ \A m : ~IsFlow(e, m)
  BY <1>1 DEF Op!NftTransfer, OpEvents, IsFlow, IsIncrease, IsDecrease
<1>2. ASSUME NEW amount \in Positives, NEW e, e = Op!Increase(n, amount)
      PROVE  e \in OpEvents /\ IsFlow(e, n) /\ IsIncrease(e, n) /\ e.amount = amount
  BY <1>2 DEF Op!Increase, OpEvents, IsFlow, IsIncrease
<1>. QED  BY <1>1, <1>2

LEMMA MintedLogs ==
    ASSUME NEW x \in OpSafes, NEW n \in Nfts, NEW amount \in Positives, NEW es,
           MintLogs(x, n, amount, es)
    PROVE  /\ es \in Seq(OpEvents) /\ 2 \in 1..Len(es) /\ OnlyOf(n, es)
           /\ IsIncrease(es[2], n) /\ IsFlow(es[2], n) /\ es[2].amount = amount
           /\ \A i \in 1..Len(es) : i # 2 => ~IsFlow(es[i], n)
<1>1. x \in OpAccounts /\ OpOutsider \in OpAccounts /\ OpZero \in OpAccounts BY DEF OpAccounts
<1>2. PICK a, b, c, d : /\ a = Op!NftTransfer(OpZero, x, n) /\ b = Op!Increase(n, amount)
                        /\ c = Op!NftTransfer(OpZero, OpOutsider, n)
                        /\ d = Op!NftTransfer(OpOutsider, x, n)
  OBVIOUS
<1>3. /\ a \in OpEvents /\ a.event = "Transfer" /\ (\A m : ~IsFlow(a, m))
      /\ c \in OpEvents /\ c.event = "Transfer" /\ (\A m : ~IsFlow(c, m))
      /\ d \in OpEvents /\ d.event = "Transfer" /\ (\A m : ~IsFlow(d, m))
  BY <1>1, <1>2, OpLogs
<1>4. b \in OpEvents /\ IsFlow(b, n) /\ IsIncrease(b, n) /\ b.amount = amount
  BY <1>2, OpLogs
<1>5. CASE es = <<a, b>> BY <1>3, <1>4, <1>5, TwoLogs, OnlyLogs DEF OnlyOf
<1>6. CASE es = <<c, b, d>> BY <1>3, <1>4, <1>6, ThreeLogs, OnlyLogs DEF OnlyOf
<1>. QED  BY <1>2, <1>5, <1>6 DEF MintLogs

LEMMA OpChainFacts ==
    ASSUME OpInv, NEW n \in Nfts
    PROVE  /\ OpTyped /\ opPrice \in Positives /\ opNft \in [Nfts -> OpNft] /\ opNft[n] \in OpNft
           /\ opPut \in [Nfts \cup OpSafes -> Int] /\ opTaken \in [Nfts \cup OpSafes -> Int]
           /\ opPut[n] \in Int /\ opTaken[n] \in Int
           /\ UniOK(n, opNft[n], opPut[n], opTaken[n], opPrice, opPosition, opLogs)
BY DEF OpInv, OpTyped, OpChainTyped, OpUniOK

LEMMA UniMintStep ==
    ASSUME OpAssumed, OpInv, NEW x \in OpSafes, NEW n \in Nfts, NEW amount \in 1..MaxLiquidity,
           Op!MintNft(x, n, amount)
    PROVE  OpInv'
<1>1. amount \in Positives /\ amount \in Nat BY DEF OpAssumed, Positives
<1>2. PICK s, in : /\ s = [state |-> "live", home |-> x, owner |-> x, liquidity |-> amount]
                   /\ in = amount * opPrice
  OBVIOUS
<1>3. /\ opNft[n].state = "unborn" /\ opNft' = [opNft EXCEPT ![n] = s]
      /\ opPut' = [opPut EXCEPT ![n] = in] /\ bpt' = bpt /\ opTaken' = opTaken
      /\ \E es : MintLogs(x, n, amount, es) /\ Op!Emits(es)
  BY <1>2 DEF Op!MintNft, MintLogs
<1>4. PICK es : MintLogs(x, n, amount, es) /\ Op!Emits(es) BY <1>3
<1>5. /\ es \in Seq(OpEvents) /\ 2 \in 1..Len(es) /\ OnlyOf(n, es)
      /\ IsIncrease(es[2], n) /\ IsFlow(es[2], n) /\ es[2].amount = amount
      /\ \A i \in 1..Len(es) : i # 2 => ~IsFlow(es[i], n)
  BY <1>1, <1>4, MintedLogs
<1>6. /\ OpTyped /\ opPrice \in Positives /\ opNft \in [Nfts -> OpNft]
      /\ opPut \in [Nfts \cup OpSafes -> Int] /\ opTaken \in [Nfts \cup OpSafes -> Int]
      /\ UniOK(n, opNft[n], opPut[n], opTaken[n], opPrice, opPosition, opLogs)
  BY OpChainFacts
<1>7. in \in Int BY <1>1, <1>2, <1>6 DEF Positives
<1>8. s \in OpNft BY <1>1, <1>2 DEF OpNft, OpAccounts
<1>9. opNft' \in [Nfts -> OpNft] /\ opPut' \in [Nfts \cup OpSafes -> Int]
      /\ opTaken' \in [Nfts \cup OpSafes -> Int] /\ opNft'[n] = s /\ opPut'[n] = in
      /\ (\A m \in Nfts \ {n} : opNft'[m] = opNft[m])
      /\ \A m \in (Nfts \cup OpSafes) \ {n} : opPut'[m] = opPut[m] /\ opTaken'[m] = opTaken[m]
  BY <1>3, <1>6, <1>7, <1>8
<1>10. UniOK(n, s, in, opTaken[n], opPrice, opPosition, opLogs')
  <2>1. PICK at, k, l : at = Len(opLogs) + 2 /\ k = opLogs' /\ l = opLogs OBVIOUS
  <2>2. OneFlow(n, l, k, at) /\ k[at] = es[2] BY <1>1, <1>4, <1>5, <1>6, <2>1, UniOneFlow
  <2>3. IsIncrease(k[at], n) /\ k[at].amount = amount BY <1>5, <2>2
  <2>4. s.state = "live" /\ s.home = x /\ s.owner = s.home /\ s.liquidity = k[at].amount
    BY <1>2, <2>3
  <2>5. PICK r, old, out, p, rows : /\ r = opNft[n] /\ old = opPut[n] /\ out = opTaken[n]
                                    /\ p = opPrice /\ rows = opPosition
    OBVIOUS
  <2>6. UniOK(n, r, old, out, p, rows, l) /\ r.state = "unborn" /\ p \in Int
    BY <1>3, <1>6, <2>1, <2>5 DEF Positives
  <2>7. UniOK(n, s, k[at].amount * p, out, p, rows, k) BY <2>2, <2>3, <2>4, <2>6, UniMinted
  <2>. QED  BY <1>2, <2>1, <2>3, <2>5, <2>7
<1>11. UniOK(n, opNft'[n], opPut'[n], opTaken'[n], opPrice, opPosition, opLogs')
  BY <1>3, <1>9, <1>10
<1>12. \A j \in 1..Len(es) : /\ es[j].event # "Balancer"
                             /\ \A m \in Nfts \ {n} : ~IsFlow(es[j], m)
  BY <1>5 DEF OnlyOf
<1>. QED  BY <1>3, <1>4, <1>5, <1>9, <1>11, <1>12, UniChainStep

\* A flow e of an NFT on the chain, and what becomes of it.
Becomes(n, e, s, in, out) ==
    /\ s \in OpNft /\ s.state = "live" /\ s.home = opNft[n].home /\ s.owner = opNft[n].owner
    /\ IsIncrease(e, n) => s.liquidity # 0
    /\ in = opPut[n] + PutBy(e, n, opPrice)
    /\ out = IF IsDecrease(e, n) THEN e.amount * opPrice ELSE opTaken[n]

BecomesOnChain(n, s, in, out) ==
    /\ opNft' = [opNft EXCEPT ![n] = s] /\ bpt' = bpt
    /\ opPut' = [opPut EXCEPT ![n] = in] /\ opTaken' = [opTaken EXCEPT ![n] = out]

FirstIsFlow(n, es, e) ==
    /\ es \in Seq(OpEvents) /\ Len(es) \in Nat \ {0} /\ es[1] = e
    /\ IsFlow(e, n) /\ e.amount \in Positives /\ OnlyOf(n, es)
    /\ \A i \in 1..Len(es) : i # 1 => ~IsFlow(es[i], n)

LEMMA UniFlowStep ==
    ASSUME OpAssumed, OpInv, NEW n \in Nfts, Op!Live(n), NEW es, Op!Emits(es),
           NEW e, FirstIsFlow(n, es, e), NEW s, NEW in, NEW out, Becomes(n, e, s, in, out),
           BecomesOnChain(n, s, in, out)
    PROVE  OpInv'
<1>a. /\ s \in OpNft /\ s.state = "live" /\ s.home = opNft[n].home /\ s.owner = opNft[n].owner
      /\ IsIncrease(e, n) => s.liquidity # 0
  BY DEF Becomes
<1>b. /\ in = opPut[n] + PutBy(e, n, opPrice)
      /\ out = IF IsDecrease(e, n) THEN e.amount * opPrice ELSE opTaken[n]
  BY DEF Becomes
<1>c. /\ es \in Seq(OpEvents) /\ Len(es) \in Nat \ {0} /\ es[1] = e
      /\ IsFlow(e, n) /\ e.amount \in Positives /\ OnlyOf(n, es)
      /\ \A i \in 1..Len(es) : i # 1 => ~IsFlow(es[i], n)
  BY DEF FirstIsFlow
<1>1. /\ OpTyped /\ opPrice \in Positives /\ opNft \in [Nfts -> OpNft] /\ opNft[n] \in OpNft
      /\ opPut \in [Nfts \cup OpSafes -> Int] /\ opTaken \in [Nfts \cup OpSafes -> Int]
      /\ opPut[n] \in Int /\ opTaken[n] \in Int
      /\ UniOK(n, opNft[n], opPut[n], opTaken[n], opPrice, opPosition, opLogs)
  BY OpChainFacts
<1>2. in \in Int /\ out \in Int BY <1>1, <1>c, <1>b DEF Positives, PutBy
<1>3. opNft' \in [Nfts -> OpNft] /\ opPut' \in [Nfts \cup OpSafes -> Int]
      /\ opTaken' \in [Nfts \cup OpSafes -> Int] /\ opNft'[n] = s /\ opPut'[n] = in
      /\ opTaken'[n] = out
      /\ (\A m \in Nfts \ {n} : opNft'[m] = opNft[m])
      /\ \A m \in (Nfts \cup OpSafes) \ {n} : opPut'[m] = opPut[m] /\ opTaken'[m] = opTaken[m]
  BY <1>1, <1>2, <1>a DEF BecomesOnChain
<1>4. UniOK(n, s, in, out, opPrice, opPosition, opLogs')
  <2>1. PICK at, k, l : at = Len(opLogs) + 1 /\ k = opLogs' /\ l = opLogs OBVIOUS
  <2>2. 1 \in 1..Len(es) /\ es[1].amount \in Positives /\ IsFlow(es[1], n) BY <1>c
  <2>3. OneFlow(n, l, k, at) /\ k[at] = e BY <1>1, <1>c, <2>1, <2>2, UniOneFlow
  <2>4. PICK r, old, last, p, rows : /\ r = opNft[n] /\ old = opPut[n] /\ last = opTaken[n]
                                     /\ p = opPrice /\ rows = opPosition
    OBVIOUS
  <2>5. /\ UniOK(n, r, old, last, p, rows, l) /\ r.state = "live" /\ p \in Int
        /\ s.home = r.home /\ s.owner = r.owner /\ (IsIncrease(k[at], n) => s.liquidity # 0)
    BY <1>1, <1>a, <2>1, <2>3, <2>4 DEF Positives, Op!Live
  <2>6. UniOK(n, s, old + PutBy(k[at], n, p),
              IF IsDecrease(k[at], n) THEN k[at].amount * p ELSE last, p, rows, k)
    BY <1>a, <2>3, <2>5, UniFlowed
  <2>. QED  BY <1>b, <2>1, <2>3, <2>4, <2>6
<1>5. UniOK(n, opNft'[n], opPut'[n], opTaken'[n], opPrice, opPosition, opLogs') BY <1>3, <1>4
<1>6. \A j \in 1..Len(es) : /\ es[j].event # "Balancer"
                            /\ \A m \in Nfts \ {n} : ~IsFlow(es[j], m)
  BY <1>c DEF OnlyOf
<1>. QED  BY <1>3, <1>5, <1>6, <1>c, UniChainStep DEF BecomesOnChain

\* The NFT with other liquidity.
LEMMA OtherLiquidity ==
    ASSUME NEW r \in OpNft, NEW h \in Nat, NEW s, s = [r EXCEPT !.liquidity = h]
    PROVE  /\ s \in OpNft /\ s.state = r.state /\ s.home = r.home /\ s.owner = r.owner
           /\ s.liquidity = h
BY DEF OpNft

LEMMA UniIncreaseStep ==
    ASSUME OpAssumed, OpInv, NEW n \in Nfts, NEW amount \in 1..MaxLiquidity,
           Op!IncreaseNft(n, amount)
    PROVE  OpInv'
<1>1. amount \in Positives /\ amount \in Nat /\ amount > 0 BY DEF OpAssumed, Positives
<1>2. PICK e, es, s, in, h : /\ e = Op!Increase(n, amount) /\ es = <<e>>
                             /\ h = opNft[n].liquidity + amount
                             /\ s = [opNft[n] EXCEPT !.liquidity = h]
                             /\ in = opPut[n] + amount * opPrice
  OBVIOUS
<1>3. /\ Op!Emits(es) /\ Op!Live(n) /\ opNft' = [opNft EXCEPT ![n] = s]
      /\ opPut' = [opPut EXCEPT ![n] = in] /\ bpt' = bpt /\ opTaken' = opTaken
  BY <1>2 DEF Op!IncreaseNft
<1>4. /\ opNft \in [Nfts -> OpNft] /\ opNft[n] \in OpNft /\ opPut[n] \in Int
      /\ opTaken \in [Nfts \cup OpSafes -> Int] /\ opNft[n].liquidity \in Nat
  BY OpChainFacts DEF OpNft
<1>5. h \in Nat /\ h # 0 BY <1>1, <1>2, <1>4
<1>6. /\ s \in OpNft /\ s.state = opNft[n].state /\ s.home = opNft[n].home
      /\ s.owner = opNft[n].owner /\ s.liquidity = h
  BY <1>2, <1>4, <1>5, OtherLiquidity
<1>7. s.state = "live" BY <1>3, <1>6 DEF Op!Live
<1>8. e \in OpEvents /\ IsFlow(e, n) /\ IsIncrease(e, n) /\ e.amount = amount
  BY <1>1, <1>2, OpLogs
<1>9. es \in Seq(OpEvents) /\ Len(es) = 1 /\ \A j \in 1..Len(es) : es[j] = e
  BY <1>2, <1>8, OneLog
<1>10. es[1] = e /\ (\A i \in 1..Len(es) : i # 1 => ~IsFlow(es[i], n)) /\ OnlyOf(n, es)
  BY <1>8, <1>9, OnlyLogs DEF OnlyOf
<1>11. in = opPut[n] + PutBy(e, n, opPrice) BY <1>2, <1>8 DEF PutBy
<1>12. ~IsDecrease(e, n) BY <1>8 DEF IsIncrease, IsDecrease
<1>13. PICK out : out = opTaken[n] OBVIOUS
<1>14. /\ opTaken' = [opTaken EXCEPT ![n] = out]
       /\ out = IF IsDecrease(e, n) THEN e.amount * opPrice ELSE opTaken[n]
  BY <1>3, <1>4, <1>12, <1>13
<1>15. Len(es) \in Nat \ {0} /\ e.amount \in Positives /\ (IsIncrease(e, n) => s.liquidity # 0)
  BY <1>1, <1>5, <1>6, <1>8, <1>9
<1>16. FirstIsFlow(n, es, e) BY <1>8, <1>9, <1>10, <1>15 DEF FirstIsFlow
<1>17. Becomes(n, e, s, in, out) BY <1>6, <1>7, <1>11, <1>14, <1>15 DEF Becomes
<1>18. BecomesOnChain(n, s, in, out) BY <1>3, <1>14 DEF BecomesOnChain
<1>. QED  BY <1>3, <1>16, <1>17, <1>18, UniFlowStep

LEMMA UniDecreaseStep ==
    ASSUME OpAssumed, OpInv, NEW n \in Nfts, NEW amount \in 1..MaxLiquidity,
           Op!DecreaseNft(n, amount)
    PROVE  OpInv'
<1>1. amount \in Positives /\ amount \in Nat BY DEF OpAssumed, Positives
<1>2. PICK e, c, es, s, out, h :
         /\ e = [event |-> "Decrease", id |-> n, amount |-> amount]
         /\ c = [event |-> "Collect", id |-> n] /\ es = <<e, c>>
         /\ h = opNft[n].liquidity - amount /\ s = [opNft[n] EXCEPT !.liquidity = h]
         /\ out = amount * opPrice
  OBVIOUS
<1>3. /\ Op!Emits(es) /\ Op!Live(n) /\ opNft' = [opNft EXCEPT ![n] = s]
      /\ opTaken' = [opTaken EXCEPT ![n] = out] /\ bpt' = bpt /\ opPut' = opPut
      /\ opNft[n].liquidity >= amount
  BY <1>2 DEF Op!DecreaseNft
<1>4. /\ opNft \in [Nfts -> OpNft] /\ opNft[n] \in OpNft /\ opPut[n] \in Int
      /\ opPut \in [Nfts \cup OpSafes -> Int] /\ opNft[n].liquidity \in Nat
  BY OpChainFacts DEF OpNft
<1>5. h \in Nat BY <1>1, <1>2, <1>3, <1>4
<1>6. /\ s \in OpNft /\ s.state = opNft[n].state /\ s.home = opNft[n].home
      /\ s.owner = opNft[n].owner
  BY <1>2, <1>4, <1>5, OtherLiquidity
<1>7. s.state = "live" BY <1>3, <1>6 DEF Op!Live
<1>8. e \in OpEvents /\ c \in OpEvents BY <1>1, <1>2 DEF OpEvents
<1>9. /\ e.event = "Decrease" /\ e.id = n /\ e.amount = amount /\ c.event = "Collect"
  BY <1>2
<1>10. /\ IsFlow(e, n) /\ IsDecrease(e, n) /\ ~IsIncrease(e, n) /\ ~IsFlow(c, n)
  BY <1>9 DEF IsFlow, IsIncrease, IsDecrease
<1>11. es \in Seq(OpEvents) /\ Len(es) = 2 /\ es[1] = e /\ es[2] = c BY <1>2, <1>8, TwoLogs
<1>12. (\A i \in 1..Len(es) : i # 1 => ~IsFlow(es[i], n)) /\ OnlyOf(n, es)
  BY <1>11, <1>9, <1>10, OnlyLogs DEF OnlyOf
<1>13. PICK in : in = opPut[n] OBVIOUS
<1>14. opPut' = [opPut EXCEPT ![n] = in] /\ in = opPut[n] + PutBy(e, n, opPrice)
  BY <1>10, <1>3, <1>4, <1>13 DEF PutBy
<1>15. out = IF IsDecrease(e, n) THEN e.amount * opPrice ELSE opTaken[n] BY <1>2, <1>9, <1>10
<1>16. Len(es) \in Nat \ {0} /\ e.amount \in Positives /\ (IsIncrease(e, n) => s.liquidity # 0)
  BY <1>1, <1>9, <1>10, <1>11
<1>17. FirstIsFlow(n, es, e) BY <1>10, <1>11, <1>12, <1>16 DEF FirstIsFlow
<1>18. Becomes(n, e, s, in, out) BY <1>6, <1>7, <1>14, <1>15, <1>16 DEF Becomes
<1>19. BecomesOnChain(n, s, in, out) BY <1>3, <1>14 DEF BecomesOnChain
<1>. QED  BY <1>3, <1>17, <1>18, <1>19, UniFlowStep

\* It leaves its Safe: it is burned, or given away.
LEMMA UniLeavesStep ==
    ASSUME OpAssumed, OpInv, NEW n \in Nfts, NEW to \in {OpZero, OpOutsider},
           NEW es, es = <<Op!NftTransfer(opNft[n].owner, to, n)>>, Op!Emits(es), Op!Live(n),
           NEW s \in OpNft, s.state # "unborn", s.home = opNft[n].home, s.owner = to,
           s.liquidity = opNft[n].liquidity,
           opNft' = [opNft EXCEPT ![n] = s], bpt' = bpt, opPut' = opPut, opTaken' = opTaken
    PROVE  OpInv'
<1>1. /\ OpTyped /\ opNft \in [Nfts -> OpNft] /\ opNft[n] \in OpNft
      /\ opPut \in [Nfts \cup OpSafes -> Int] /\ opTaken \in [Nfts \cup OpSafes -> Int]
      /\ UniOK(n, opNft[n], opPut[n], opTaken[n], opPrice, opPosition, opLogs)
  BY OpChainFacts
<1>2. opNft[n].state # "unborn" /\ opNft[n].home \in OpSafes
  BY <1>1 DEF Op!Live, UniOK, UniBorn
<1>3. ~Own(s) BY <1>2 DEF Own, OpAssumed
<1>4. PICK e : e = Op!NftTransfer(opNft[n].owner, to, n) OBVIOUS
<1>5. e \in OpEvents /\ e.event = "Transfer" /\ \A m : ~IsFlow(e, m)
  BY <1>1, <1>4, OpLogs DEF OpNft, OpAccounts
<1>6. es \in Seq(OpEvents) /\ \A j \in 1..Len(es) : es[j] = e BY <1>4, <1>5, OneLog
<1>7. /\ opNft' \in [Nfts -> OpNft] /\ opNft'[n] = s
      /\ \A m \in Nfts \ {n} : opNft'[m] = opNft[m]
  BY <1>1
<1>8. UniOK(n, s, opPut[n], opTaken[n], opPrice, opPosition, opLogs')
  BY <1>5, <1>6, <1>2, <1>3, UniUnmoved
<1>9. UniOK(n, opNft'[n], opPut'[n], opTaken'[n], opPrice, opPosition, opLogs')
  BY <1>7, <1>8
<1>10. \A j \in 1..Len(es) : /\ es[j].event # "Balancer"
                             /\ \A m \in Nfts \ {n} : ~IsFlow(es[j], m)
  BY <1>5, <1>6
<1>. QED  BY <1>1, <1>6, <1>7, <1>9, <1>10, UniChainStep

LEMMA UniBurnStep == ASSUME OpAssumed, OpInv, NEW n \in Nfts, Op!BurnNft(n) PROVE OpInv'
<1>1. PICK r, s : /\ r = opNft[n]
                  /\ s = [state |-> "burned", home |-> r.home, owner |-> OpZero,
                          liquidity |-> r.liquidity]
  OBVIOUS
<1>2. r \in OpNft /\ opNft \in [Nfts -> OpNft] BY <1>1, OpChainFacts
<1>3. s \in OpNft /\ s.state = "burned" /\ s.home = r.home /\ s.owner = OpZero
      /\ s.liquidity = r.liquidity
  BY <1>1, <1>2 DEF OpNft, OpAccounts
<1>4. /\ Op!Emits(<<Op!NftTransfer(opNft[n].owner, OpZero, n)>>) /\ Op!Live(n)
      /\ opNft' = [opNft EXCEPT ![n].state = "burned", ![n].owner = OpZero]
      /\ bpt' = bpt /\ opPut' = opPut /\ opTaken' = opTaken
  BY DEF Op!BurnNft
<1>5. opNft' = [opNft EXCEPT ![n] = s]
  <2>1. [r EXCEPT !.state = "burned", !.owner = OpZero] = s
    <3>1. PICK state, owner, t : /\ state = "burned" /\ owner = OpZero
                                 /\ t = [r EXCEPT !.state = state, !.owner = owner]
      OBVIOUS
    <3>2. t = [state |-> state, home |-> r.home, owner |-> owner, liquidity |-> r.liquidity]
      BY ONLY <1>2, <3>1 DEF OpNft
    <3>. QED  BY <1>1, <3>1, <3>2
  <2>2. opNft' = [opNft EXCEPT ![n] = [r EXCEPT !.state = "burned", !.owner = OpZero]]
    BY <1>1, <1>2, <1>4
  <2>. QED  BY <2>1, <2>2
<1>6. PICK es, to : es = <<Op!NftTransfer(opNft[n].owner, to, n)>> /\ to = OpZero OBVIOUS
<1>7. Op!Emits(es) /\ s.owner = to /\ to \in {OpZero, OpOutsider} /\ s.state # "unborn"
  BY <1>3, <1>4, <1>6
<1>. QED  BY <1>1, <1>3, <1>4, <1>5, <1>6, <1>7, UniLeavesStep

LEMMA UniGivenStep == ASSUME OpAssumed, OpInv, NEW n \in Nfts, Op!GiveNftAway(n) PROVE OpInv'
BY OpChainFacts, UniLeavesStep DEF OpNft, OpAccounts, Op!GiveNftAway, Op!Live

-----------------------------------------------------------------------------
(* The theorem. *)

LEMMA OpAssumptionMeans == Op!OptimismAssumption => OpAssumed
BY DEF Op!OptimismAssumption, OpAssumed, Positives

LEMMA OpStarts == ASSUME OpAssumed, Op!Init PROVE OpInv
<1>1. /\ opNow = 0 /\ opPrice \in OpPrices /\ opLogs = <<>>
      /\ bpt = [x \in OpSafes |-> 0]
      /\ opNft = [n \in Nfts |-> [state |-> "unborn", home |-> OpZero, owner |-> OpZero,
                                  liquidity |-> 0]]
      /\ opPut = [x \in Nfts \cup OpSafes |-> 0] /\ opTaken = [x \in Nfts \cup OpSafes |-> 0]
      /\ opPosition = Op!NoRows /\ swap = <<>> /\ buffer = Op!NoRows
  BY DEF Op!Init
<1>2. /\ DOMAIN opPosition = {} /\ opPosition = [key \in DOMAIN opPosition |-> opPosition[key]]
      /\ DOMAIN buffer = {} /\ buffer = [x \in DOMAIN buffer |-> buffer[x]]
  BY <1>1 DEF Op!NoRows
<1>3. \A n \in Nfts : opNft[n] \in OpNft /\ opNft[n].state = "unborn"
  BY <1>1 DEF OpNft, OpAccounts
<1>4. Len(opLogs) = 0 /\ Len(swap) = 0 /\ opLogs \in Seq(OpEvents) /\ swap \in Seq(OpSwap)
  BY <1>1
<1>5. OpTyped
  BY <1>1, <1>3, <1>4, <1>2, FS_EmptySet DEF OpChainTyped, OpAssumed, OpRowsTyped, PartialFn,
      OpSwapsTyped, OpTyped
<1>6. OpSwapsOK
  <2>1. SwapsOK(opNow, swap, buffer) BY <1>2, <1>4 DEF SwapsOK
  <2>2. ASSUME NEW x \in OpSafes PROVE CostsRight(swap, opPosition, x)
    <3>1. CostsOf(opPosition, x) = 0 BY <1>2, GroupEmpty DEF CostColumn, Column, CostsOf
    <3>2. ChargedTo(swap, x) = {} BY <1>4 DEF ChargedTo
    <3>3. LosingIn(swap, {}) = {} BY DEF LosingIn
    <3>4. SlippageIn(swap, {}) = 0 BY SumOfNone DEF SlippageIn
    <3>5. PICK a, b, c : /\ a = CostsOf(opPosition, x) /\ b = SlippageIn(swap, ChargedTo(swap, x))
                         /\ c = SlippageIn(swap, LosingIn(swap, ChargedTo(swap, x)))
      OBVIOUS
    <3>6. a = 0 /\ b = 0 /\ c = 0 BY <3>1, <3>2, <3>3, <3>4, <3>5
    <3>7. a \in Int /\ b <= a /\ a <= c BY ONLY <3>6
    <3>. QED  BY <3>5, <3>7 DEF CostsRight
  <2>. QED  BY <2>1, <2>2 DEF OpSwapsOK, CostsOK
<1>7. OpUniOK
  <2>1. ASSUME NEW n \in Nfts
        PROVE  UniOK(n, opNft[n], opPut[n], opTaken[n], opPrice, opPosition, opLogs)
    BY <1>2, <1>3, <1>4 DEF UniOK, UniBorn, AnyFlow, Own
  <2>. QED  BY <2>1 DEF OpUniOK
<1>8. OpBptOK
  <2>1. ASSUME NEW x \in OpSafes
        PROVE  BptOK(x, bpt[x], opPut[x], opTaken[x], opPrice, opPosition, FlowsOf(opLogs, x))
    <3>1. PICK f : f = FlowsOf(opLogs, x) OBVIOUS
    <3>2. Len(f) = 0 BY <1>4, <3>1, FlowsTyped
    <3>3. bpt[x] = 0 /\ opPut[x] = 0 /\ opTaken[x] = 0 BY <1>1
    <3>4. BptEntry(x, opPosition) = 0 /\ BptExit(x, opPosition) = 0
      BY <1>2 DEF BptEntry, BptExit
    <3>5. \A i \in 1..Len(f) : ~IsIncrease(f[i], OpPool) /\ ~IsDecrease(f[i], OpPool) BY <3>2
    <3>6. PICK zero \in Int : zero = 0 OBVIOUS
    <3>7. Adds(OpPool, zero, zero, opPrice, f) BY <3>2, <3>5, AddsNothing
    <3>8. OutOK(OpPool, {BptExit(x, opPosition)}, opTaken[x], opPrice, f)
      BY <3>3, <3>4, <3>5 DEF OutOK, NoOut
    <3>9. BptShows(x, bpt[x], opPosition) BY <1>2, <3>3 DEF BptShows
    <3>. QED  BY <3>1, <3>3, <3>4, <3>6, <3>7, <3>8, <3>9 DEF BptOK
  <2>. QED  BY <2>1 DEF OpBptOK
<1>. QED  BY <1>5, <1>6, <1>7, <1>8 DEF OpInv

LEMMA OpChainStep == ASSUME OpAssumed, OpInv, Op!Chain PROVE OpInv'
<1>1. CASE Op!CloseBlock BY <1>1, OpCloseBlockStep
<1>2. CASE Op!NextBlock BY <1>2, OpNextBlockStep
<1>3. CASE \E x \in OpSafes \cup {OpOutsider}, i \in {"valory", "other"}, s \in Slippages :
              (x \in OpSafes \/ i = "valory") /\ Op!SwapThroughLiFi(x, i, s)
  BY <1>3, LiFiStep
<1>4. CASE \E x \in OpSafes, amount \in 1..MaxBpt :
              \/ Op!PoolBalanceChanged(x, <<amount, 0>>, amount)
              \/ Op!PoolBalanceChanged(x, <<-amount, 0>>, -amount)
  BY <1>4, PoolSteps
<1>5. CASE \E x \in OpSafes : MaxBpt > 0 /\ \E d \in {<<0, 0>>, <<1, -1>>} :
              Op!PoolBalanceChanged(x, d, 0)
  BY <1>5, PoolSteps
<1>6. CASE \E n \in Nfts, amount \in 1..MaxLiquidity :
              \/ Op!IncreaseNft(n, amount) \/ Op!DecreaseNft(n, amount)
              \/ \E x \in OpSafes : Op!MintNft(x, n, amount)
  BY <1>6, UniIncreaseStep, UniDecreaseStep, UniMintStep
<1>7. CASE \E n \in Nfts : Op!BurnNft(n) \/ Op!GiveNftAway(n) BY <1>7, UniBurnStep, UniGivenStep
<1>. QED  BY <1>1, <1>2, <1>3, <1>4, <1>5, <1>6, <1>7 DEF Op!Chain

LEMMA OpSteps == ASSUME OpAssumed, OpInv, [Op!Next]_(Op!vars) PROVE OpInv'
<1>1. CASE Op!Chain BY <1>1, OpChainStep
<1>2. CASE Op!handleLiFiGenericSwapCompleted BY <1>2, LiFiHandled
<1>3. CASE Op!handlePoolBalanceChanged BY <1>3, BalancerHandled
<1>4. CASE Op!handleUniV3Transfer BY <1>4, TransferOfUni
<1>5. CASE Op!handleUniV3IncreaseLiquidity BY <1>5, IncreaseOfUni
<1>6. CASE Op!handleUniV3DecreaseLiquidity BY <1>6, DecreaseOfUni
<1>7. CASE Op!handleUniV3Collect BY <1>7, CollectOfUni
<1>8. CASE \E x \in OpSafes : Op!Poll(x) BY <1>8, OpPolled
<1>9. CASE UNCHANGED Op!vars
  BY <1>9 DEF OpInv, Op!vars, Op!chain, OpTyped, OpChainTyped, OpSwapsOK, OpUniOK, OpBptOK
<1>. QED  BY <1>1, <1>2, <1>3, <1>4, <1>5, <1>6, <1>7, <1>8, <1>9 DEF Op!Next

\* Once the logs are handled.
LEMMA OpDrainedFlows ==
    ASSUME NEW l, Len(l) = 0, NEW n
    PROVE  /\ ~AnyFlow(n, l)
           /\ \A shown, out, p : OutOK(n, shown, out, p, l) => out \in shown
           /\ \A first, last, p : Adds(n, first, last, p, l) => first = last
BY DEF AnyFlow, OutOK, LastOut, Adds

LEMMA BptDrained ==
    ASSUME OpInv, opLogs = <<>>, NEW x \in OpSafes
    PROVE  LET row == Op!LoadOr(opPosition, <<x, OpPool>>, [Op!NewPosition EXCEPT !.active = FALSE])
           IN  /\ row.active = (bpt[x] > 0) /\ row.liquidity = bpt[x]
               /\ row.entry = opPut[x] /\ row.exit = opTaken[x]
<1>1. PICK fresh, f, row : /\ fresh = [Op!NewPosition EXCEPT !.active = FALSE]
                           /\ f = FlowsOf(opLogs, x)
                           /\ row = Op!LoadOr(opPosition, <<x, OpPool>>, fresh)
  OBVIOUS
<1>2. /\ OpRowsTyped(opPosition) /\ bpt[x] \in Nat
      /\ BptOK(x, bpt[x], opPut[x], opTaken[x], opPrice, opPosition, f)
  BY <1>1 DEF OpInv, OpTyped, OpChainTyped, OpBptOK
<1>3. Len(f) = 0 BY <1>1, FlowsTyped DEF OpInv, OpTyped, OpChainTyped
<1>4. /\ BptEntry(x, opPosition) = opPut[x] /\ BptExit(x, opPosition) = opTaken[x]
      /\ BptShows(x, bpt[x], opPosition)
  BY <1>2, <1>3, OpDrainedFlows DEF BptOK
<1>5. fresh.active = FALSE /\ fresh.liquidity = 0 /\ fresh.entry = 0 /\ fresh.exit = 0
  BY <1>1 DEF Op!NewPosition
<1>6. row = LoadOr(opPosition, BptKey(x), fresh) BY <1>1, StoreOfOp DEF BptKey
<1>7. CASE BptKey(x) \in DOMAIN opPosition
  <2>1. row = opPosition[BptKey(x)] BY <1>6, <1>7 DEF LoadOr
  <2>2. row \in OpRow BY <1>2, <1>7, <2>1 DEF OpRowsTyped, PartialFn
  <2>3. /\ row.active <=> bpt[x] > 0
        /\ row.liquidity = bpt[x] /\ row.entry = opPut[x] /\ row.exit = opTaken[x]
    BY <1>4, <1>7, <2>1 DEF BptShows, BptEntry, BptExit
  <2>4. row.active \in BOOLEAN BY <2>2 DEF OpRow
  <2>5. row.active = (bpt[x] > 0) BY ONLY <2>3, <2>4
  <2>. QED  BY <1>1, <2>3, <2>5
<1>8. CASE BptKey(x) \notin DOMAIN opPosition
  <2>1. row = fresh BY <1>6, <1>8 DEF LoadOr
  <2>2. bpt[x] = 0 /\ opPut[x] = 0 /\ opTaken[x] = 0
    BY <1>4, <1>8 DEF BptShows, BptEntry, BptExit
  <2>3. PICK no \in BOOLEAN : no = FALSE OBVIOUS
  <2>a. row.active = no BY <1>5, <2>1, <2>3
  <2>b. (bpt[x] > 0) = no BY <2>2, <2>3
  <2>4. row.active = (bpt[x] > 0) BY <2>a, <2>b
  <2>. QED  BY <1>1, <1>5, <2>1, <2>2, <2>4
<1>. QED  BY <1>7, <1>8

LEMMA UniDrained ==
    ASSUME OpInv, opLogs = <<>>, NEW n \in Nfts, Own(opNft[n])
    PROVE  LET key == KeyOf(n, opNft[n])
               row == opPosition[key]
           IN  /\ key \in DOMAIN opPosition /\ row.entry = opPut[n]
               /\ row.active => opNft[n].liquidity > 0 /\ row.liquidity = opNft[n].liquidity
               /\ ~row.active => opNft[n].liquidity = 0 \/ row.exited
               /\ opNft[n].liquidity = 0 => row.exited /\ row.exit = opTaken[n]
<1>1. PICK r, key, row : r = opNft[n] /\ key = KeyOf(n, r) /\ row = opPosition[key] OBVIOUS
<1>2. /\ r.liquidity \in Nat /\ Len(opLogs) = 0
      /\ UniOwned(n, r, opPut[n], opTaken[n], opPrice, opPosition, opLogs)
  BY <1>1, OpChainFacts DEF OpNft, UniOK
<1>3. \A i \in 1..Len(opLogs) : FALSE BY <1>2
<1>4. key \in DOMAIN opPosition BY <1>1, <1>2, <1>3 DEF UniOwned, UniMade
<1>5. row.entry = opPut[n] BY <1>2, OpDrainedFlows, <1>1, <1>4 DEF UniOwned, EntryOf
<1>6. r.liquidity = 0 => ~row.active /\ row.exited /\ row.exit = opTaken[n]
  BY <1>2, OpDrainedFlows, <1>1, <1>4 DEF UniOwned, ExitsOf
<1>7. row.active => row.liquidity = r.liquidity
  BY <1>1, <1>2, <1>4, OpDrainedFlows DEF UniOwned, UniShows, ActiveRow
<1>8. row.active \/ row.exited BY <1>1, <1>2, <1>4 DEF UniOwned, UniClosed
<1>9. r.liquidity # 0 => r.liquidity > 0 BY <1>2
<1>. QED  BY <1>1, <1>4, <1>5, <1>6, <1>7, <1>8, <1>9

LEMMA OpSafe == ASSUME OpAssumed, OpInv PROVE Op!OptimismPositionsMirrorChain
<1>1. Op!SwapsKept
  BY SwapsAreKept DEF OpInv, OpTyped, OpChainTyped, OpSwapsOK
<1>2. Op!CostsAddUp BY CostsMean DEF OpInv, OpSwapsOK
<1>3. ASSUME opLogs = <<>> PROVE Op!BptMirrored
  BY <1>3, BptDrained DEF Op!BptMirrored
<1>4. ASSUME opLogs = <<>> PROVE Op!NftsMirrored
  <2>1. ASSUME NEW n \in Nfts, Op!Live(n), opNft[n].owner = opNft[n].home
        PROVE  LET row == opPosition[Op!Key(n)]
               IN  /\ Op!Key(n) \in DOMAIN opPosition /\ row.entry = opPut[n]
                   /\ row.active => opNft[n].liquidity > 0 /\ row.liquidity = opNft[n].liquidity
                   /\ ~row.active => opNft[n].liquidity = 0 \/ row.exited
                   /\ opNft[n].liquidity = 0 => row.exited /\ row.exit = opTaken[n]
    BY <2>1, <1>4, UniDrained DEF Own, Op!Live, Op!Key, KeyOf
  <2>. QED  BY <2>1 DEF Op!NftsMirrored
<1>. QED  BY <1>1, <1>2, <1>3, <1>4 DEF Op!OptimismPositionsMirrorChain, Op!Drained

\* No swap is lost before three buckets have passed and none waits twice, the positions of a Safe
\* cost what its associated swaps lost, and once the events of a block are handled, the rows of
\* its pool tokens and of its NFTs show what the chain has (addSwapToBuffer,
\* associateSwapsWithPosition, refreshBalancerPositionWithEventAmounts,
\* refreshUniV3PositionWithEventAmounts, refreshUniV3PositionWithExitAmounts).
THEOREM OptimismAlwaysMirrorsChain ==
    Op!OptimismAssumption => (Op!Spec => []Op!OptimismPositionsMirrorChain)
<1>. SUFFICES ASSUME OpAssumed PROVE Op!Spec => []Op!OptimismPositionsMirrorChain
  BY OpAssumptionMeans
<1>1. Op!Init => OpInv BY OpStarts
<1>2. OpInv /\ [Op!Next]_(Op!vars) => OpInv' BY OpSteps
<1>3. OpInv => Op!OptimismPositionsMirrorChain BY OpSafe
<1>. QED  BY <1>1, <1>2, <1>3, PTL DEF Op!Spec
=============================================================================
