------------------------------ MODULE MechFees ------------------------------
(***************************************************************************)
(* new-mech-fees: what mechs earn and collect under the four payment       *)
(* models, and the protocol fees drained, kept per mech, per mech and      *)
(* model, per day and for the whole marketplace.                           *)
(*                                                                         *)
(* The balance trackers, price feeds and pools are external: `owed' is     *)
(* what the trackers still owe a mech, and every handler reads a price     *)
(* when it runs.  Amounts in USD are amounts in raw units times a price.   *)
(***************************************************************************)
EXTENDS Counters

CONSTANTS
    Mechs, Burner,      \* mechs; the address whose withdrawals are protocol fees
    Amounts,            \* what an event may move
    Prices,             \* what a feed or a pool may answer
    OneToOne,           \* is the native token worth one USD (Gnosis)?
    Ratio, Wei, Dec,    \* credits of the NVM model: price, scale and token decimals
    DayLength, MaxNow, MaxEvents    \* ticks; bounds

\* What the constants must satisfy (MCLedgers assumes it of its instances).
FeesAssumption == /\ Burner \notin Mechs /\ Amounts \subseteq Nat /\ Prices \subseteq Nat
                  /\ {Ratio, Wei, Dec, DayLength} \subseteq Nat \ {0}
                  /\ Ratio % (Wei * Dec) = 0

VARIABLES
    \* External.
    now, events,
    owed,               \* <<mech, model>> -> raw units accrued and not withdrawn
    missed,             \* of those: accrued or withdrawn while no price could be read
    \* The store.
    global, mech, mechModel, dailyTotals, mechDaily, drainTotals,
    transaction         \* the MechTransaction rows, added up by mech, model, type and day

chain == <<now, events, owed, missed>>
fees == <<mech, mechModel, dailyTotals, mechDaily, transaction>>
vars == <<chain, global, fees, drainTotals>>

Models == {"native", "nvm", "token-olas", "token-usdc"}
Day == now \div DayLength

GlobalFields == {"totalFeesInUSD", "totalFeesOutUSD", "totalDrainedFeesUSD",
                 "totalOlasBurnedRaw", "totalOlasBurnedUSD"}
FeeFields == {"inUSD", "outUSD", "inRaw", "outRaw"}
SumFields == {"USD", "Raw"}

-----------------------------------------------------------------------------
(* Conversions.  A price of 0 stands for a call that reverted. *)

convertNativeWeiToUsd(amount, price) == IF OneToOne THEN amount ELSE amount * price

calculateNvmFeesIn(credits) == (credits * Ratio) \div (Wei * Dec)

convertUsdcToUsd(amount) == amount

\* Worth nothing when the pool or the feed cannot be read.
calculateOlasToUsd(amount, price) == amount * price

ToUsd(model, amount, price) ==
    CASE model = "native" -> convertNativeWeiToUsd(amount, price)
      [] model = "nvm" -> calculateNvmFeesIn(amount)
      [] model = "token-olas" -> calculateOlasToUsd(amount, price)
      [] model = "token-usdc" -> convertUsdcToUsd(amount)

\* What the handler of a fee gives up on: a native fee without a price, no USDC at all.
Skipped(model, amount, price) ==
    \/ model = "native" /\ ~OneToOne /\ price = 0
    \/ model = "token-usdc" /\ amount = 0

-----------------------------------------------------------------------------
(* The five levels of a fee.  dir is "in" or "out". *)

Fee(dir, usd, raw) ==
    IF dir = "in" THEN [inUSD |-> usd, inRaw |-> raw] ELSE [outUSD |-> usd, outRaw |-> raw]

updateTotalFees(dir, usd) ==
    global' = Add(global, IF dir = "in" THEN [totalFeesInUSD |-> usd] ELSE [totalFeesOutUSD |-> usd])

updateMechFees(m, delta) == mech' = AddTo(mech, m, FeeFields, delta)

updateMechModel(m, model, delta) ==
    mechModel' = AddTo(mechModel, <<m, model>>, FeeFields, delta)

updateDailyTotals(dir, usd) ==
    dailyTotals' = IF usd <= 0 THEN dailyTotals
                   ELSE AddTo(dailyTotals, Day, {"in", "out"}, [x \in {dir} |-> usd])

\* Seeded fault: what has no price is left out of the mech's day.
MechDailyPriced(m, delta, usd, raw) ==
    mechDaily' = IF usd <= 0 THEN mechDaily ELSE AddTo(mechDaily, <<m, Day>>, FeeFields, delta)

updateMechDaily(m, delta, usd, raw) ==
    mechDaily' = IF usd <= 0 /\ raw <= 0 THEN mechDaily
                 ELSE AddTo(mechDaily, <<m, Day>>, FeeFields, delta)

createMechTransaction(m, model, dir, usd, raw) ==
    transaction' = AddTo(transaction, <<m, model, dir, Day>>, SumFields,
                         [USD |-> usd, Raw |-> raw])

Booked(m, model, dir, usd, raw) ==
    LET delta == Fee(dir, usd, raw)
    IN  /\ updateTotalFees(dir, usd)
        /\ updateMechFees(m, delta)
        /\ updateMechModel(m, model, delta)
        /\ updateDailyTotals(dir, usd)
        /\ updateMechDaily(m, delta, usd, raw)
        /\ createMechTransaction(m, model, dir, usd, raw)

-----------------------------------------------------------------------------
(* Handlers. *)

Move(m, model, amount) ==
    /\ events < MaxEvents
    /\ events' = events + 1
    /\ owed' = [owed EXCEPT ![<<m, model>>] = @ + amount]
    /\ UNCHANGED <<now, drainTotals>>

handleMechBalanceAdjusted(m, model, amount, price) ==
    /\ Move(m, model, amount)
    /\ IF Skipped(model, amount, price)
       THEN /\ missed' = [missed EXCEPT ![<<m, model>>] = @ + amount]
            /\ UNCHANGED <<global, fees>>
       ELSE /\ Booked(m, model, "in", ToUsd(model, amount, price), amount)
            /\ UNCHANGED missed

\* The tokens an NVM withdrawal pays for the credits, and what the handler reads them as.
NvmTokens(credits) == (credits * Ratio) \div Wei
NvmUsd(tokens) == tokens \div Dec
NvmCredits(tokens) == (tokens * Wei * Dec) \div Ratio

\* Seeded fault: a withdrawal is booked as a fee earned.
WithdrawnIn(m, model, amount, price) ==
    Booked(m, model, "in", ToUsd(model, amount, price), amount)

Withdrawn(m, model, amount, price) ==
    IF model = "nvm"
    THEN Booked(m, model, "out", NvmUsd(NvmTokens(amount)), NvmCredits(NvmTokens(amount)))
    ELSE Booked(m, model, "out", ToUsd(model, amount, price), amount)

handleWithdraw(m, model, amount, price) ==
    /\ amount <= owed[<<m, model>>]
    /\ Move(m, model, -amount)
    /\ IF Skipped(model, amount, price)
       THEN /\ missed' = [missed EXCEPT ![<<m, model>>] = @ - amount]
            /\ UNCHANGED <<global, fees>>
       ELSE /\ Withdrawn(m, model, amount, price)
            /\ UNCHANGED missed

\* A withdrawal to the burner is nobody's fee.
handleWithdrawToBurner ==
    /\ events < MaxEvents
    /\ events' = events + 1
    /\ UNCHANGED <<now, owed, missed, global, fees, drainTotals>>

\* Seeded fault: every model's drained fees count as burned OLAS.
BurnedAlways(model, usd, raw) == [totalOlasBurnedRaw |-> raw, totalOlasBurnedUSD |-> usd]

Burned(model, usd, raw) ==
    IF model = "token-olas" THEN [totalOlasBurnedRaw |-> raw, totalOlasBurnedUSD |-> usd]
    ELSE [totalOlasBurnedRaw |-> 0, totalOlasBurnedUSD |-> 0]

\* A drain is recorded in raw units even when no price can be read.
handleDrained(model, amount, price) ==
    LET usd == ToUsd(model, amount, price)
    IN  /\ events < MaxEvents
        /\ events' = events + 1
        /\ drainTotals' = AddTo(drainTotals, model, SumFields, [USD |-> usd, Raw |-> amount])
        /\ global' = Add(Add(global, [totalDrainedFeesUSD |-> usd]), Burned(model, usd, amount))
        /\ UNCHANGED <<now, owed, missed, fees>>

Tick ==
    /\ now < MaxNow
    /\ now' = now + 1
    /\ UNCHANGED <<events, owed, missed, global, fees, drainTotals>>

Init ==
    /\ now = 0 /\ events = 0
    /\ owed = [x \in Mechs \X Models |-> 0] /\ missed = owed
    /\ global = Zeros(GlobalFields)
    /\ mech = NoRows /\ mechModel = NoRows /\ dailyTotals = NoRows /\ mechDaily = NoRows
    /\ transaction = NoRows /\ drainTotals = NoRows

Next ==
    \/ Tick
    \/ \E m \in Mechs, model \in Models, amount \in Amounts, price \in Prices :
          \/ handleMechBalanceAdjusted(m, model, amount, price)
          \/ handleWithdraw(m, model, amount, price)
    \/ handleWithdrawToBurner
    \/ \E model \in Models, amount \in Amounts, price \in Prices :
          handleDrained(model, amount, price)

Spec == Init /\ [][Next]_vars

-----------------------------------------------------------------------------
(* Properties. *)

FeesOf(f, keep(_), c) ==
    LET amount(k) == f[k][c] IN SumOver({k \in DOMAIN f : keep(k)}, amount)

\* A mech's totals are those of its models, of its days and of its transactions.
MechTotalsAgree ==
    \A m \in DOMAIN mech, c \in FeeFields :
       LET ofMech(k) == k[1] = m
           type == IF c \in {"inUSD", "inRaw"} THEN "in" ELSE "out"
           unit == IF c \in {"inUSD", "outUSD"} THEN "USD" ELSE "Raw"
           ofType(k) == k[1] = m /\ k[3] = type
       IN  /\ mech[m][c] = FeesOf(mechModel, ofMech, c)
           /\ mech[m][c] = FeesOf(mechDaily, ofMech, c)
           /\ mech[m][c] = FeesOf(transaction, ofType, unit)

\* The marketplace's totals are those of its mechs and of its days; drained fees are
\* those of the models, and what is burned is the drained OLAS.
GlobalTotalsAgree ==
    /\ global.totalFeesInUSD = Total(mech, "inUSD")
    /\ global.totalFeesOutUSD = Total(mech, "outUSD")
    /\ global.totalFeesInUSD = Total(dailyTotals, "in")
    /\ global.totalFeesOutUSD = Total(dailyTotals, "out")
    /\ global.totalDrainedFeesUSD = Total(drainTotals, "USD")
    /\ LET olas == LoadOr(drainTotals, "token-olas", Zeros(SumFields))
       IN  global.totalOlasBurnedRaw = olas.Raw /\ global.totalOlasBurnedUSD = olas.USD

MechFeesAddUp == MechTotalsAgree /\ GlobalTotalsAgree

\* What a mech earned less what it collected is what its tracker owes it, up to the
\* events that were dropped because the feed could not be read.
EarningsCoverPayouts ==
    \A x \in DOMAIN mechModel :
       x[2] # "nvm" => mechModel[x].inRaw - mechModel[x].outRaw + missed[x] = owed[x]
=============================================================================
