--------------------------- MODULE LegacyMechFees ---------------------------
(***************************************************************************)
(* legacy-mech-fees: fees paid to the two kinds of legacy mechs (on their  *)
(* own, "lm", and behind the first marketplace, "lmm") and what they pay   *)
(* out, kept per mech, per mech and day, per day and for all mechs.        *)
(*                                                                         *)
(* The mech contracts are external.  A handler that calls price() sees the *)
(* price the mech has at the end of the block (`price'), a handler that    *)
(* reads its own row sees the last price logged before the event.          *)
(***************************************************************************)
EXTENDS Counters

CONSTANTS
    Lms, Lmms,          \* mechs of either kind
    Strangers,          \* mechs with a price that no indexed factory made
    Prices, Amounts,    \* prices of a request; amounts paid out
    DayLength, MaxNow, MaxEvents    \* ticks; bounds

\* What the constants must satisfy (MCLedgers assumes it of its instances).
LegacyAssumption == /\ Lms \cap Lmms = {} /\ Strangers \cap (Lms \cup Lmms) = {}
                    /\ Prices \subseteq Nat /\ Amounts \subseteq Nat
                    /\ DayLength \in Nat \ {0}

VARIABLES
    \* External.
    now, events, price,
    stray,              \* fees of marketplace requests to mechs without a row
    \* The store: LegacyMech and LegacyMechMarketPlace rows in one function.
    mech, global, dailyFees, mechDaily

chain == <<now, events, price, stray>>
vars == <<chain, mech, global, dailyFees, mechDaily>>

Mechs == Lms \cup Lmms
Kind(m) == IF m \in Lms THEN "lm" ELSE "lmm"
Day == now \div DayLength

\* The counter of a kind and a direction: lmIn is feesInLegacyMech, and so on.
CounterOf(kind, dir) ==
    IF kind = "lm" THEN IF dir = "in" THEN "lmIn" ELSE "lmOut"
    ELSE IF dir = "in" THEN "lmmIn" ELSE "lmmOut"

KindCounters == {"lmIn", "lmOut", "lmmIn", "lmmOut"}

-----------------------------------------------------------------------------
(* The three levels above a mech. *)

updateGlobalFees(kind, dir, amount) ==
    IF amount <= 0 THEN global
    ELSE Add(global, [x \in {CounterOf(kind, dir), dir} |-> amount])

updateDailyFees(kind, dir, amount) ==
    AddTo(dailyFees, Day, KindCounters, [x \in {CounterOf(kind, dir)} |-> amount])

\* Seeded fault: a mech's day counts payments of either kind as a legacy mech's.
MechDailyOneKind(m, dir, amount) ==
    IF amount <= 0 THEN mechDaily
    ELSE AddTo(mechDaily, <<m, Day>>, KindCounters, [x \in {CounterOf("lm", dir)} |-> amount])

updateMechDailyFees(m, dir, amount) ==
    IF amount <= 0 THEN mechDaily
    ELSE AddTo(mechDaily, <<m, Day>>, KindCounters, [x \in {CounterOf(Kind(m), dir)} |-> amount])

Paid(m, dir, amount) ==
    /\ mech' = [mech EXCEPT ![m] = Add(@, [x \in {dir} |-> amount])]
    /\ global' = updateGlobalFees(Kind(m), dir, amount)
    /\ dailyFees' = updateDailyFees(Kind(m), dir, amount)
    /\ mechDaily' = updateMechDailyFees(m, dir, amount)

Event == events < MaxEvents /\ events' = events + 1 /\ UNCHANGED now

-----------------------------------------------------------------------------
(* Handlers. *)

\* A factory's second log about a mech changes nothing.
handleCreateMech(m, p) ==
    /\ Event
    /\ mech' = IF m \in DOMAIN mech THEN mech
               ELSE Put(mech, m, [in |-> 0, out |-> 0, price |-> p])
    /\ UNCHANGED <<price, stray, global, dailyFees, mechDaily>>

\* Payments to the burner and calls without value are not counted.
handleExec(m, amount, toBurner) ==
    /\ Event
    /\ m \in DOMAIN mech
    /\ IF toBurner \/ amount = 0
       THEN UNCHANGED <<mech, global, dailyFees, mechDaily>>
       ELSE Paid(m, "out", amount)
    /\ UNCHANGED <<price, stray>>

\* The prices a block's logs announce, up to the one the mech has at its end.
handlePriceUpdate(m, p) ==
    /\ Event
    /\ m \in DOMAIN mech
    /\ mech' = [mech EXCEPT ![m].price = p]
    /\ UNCHANGED <<price, stray, global, dailyFees, mechDaily>>

handleRequest(m) ==
    /\ Event
    /\ m \in DOMAIN mech
    /\ Paid(m, "in", mech[m].price)
    /\ UNCHANGED <<price, stray>>

getMechPrice(m) == price[m]

\* Seeded fault: a request to an unknown mech is dropped.
MarketplaceKnownOnly(m) ==
    /\ Event
    /\ IF m \in DOMAIN mech /\ getMechPrice(m) > 0 THEN Paid(m, "in", getMechPrice(m))
       ELSE UNCHANGED <<mech, global, dailyFees, mechDaily>>
    /\ stray' = IF m \in DOMAIN mech THEN stray ELSE stray + getMechPrice(m)
    /\ UNCHANGED price

\* A request to a mech without a row (of the marketplace kind) counts for the system
\* and for the day, but for no mech.
handleMarketplaceRequest(m) ==
    /\ Event
    /\ IF getMechPrice(m) <= 0
       THEN UNCHANGED <<mech, global, dailyFees, mechDaily, stray>>
       ELSE IF m \in Lmms \cap DOMAIN mech
       THEN Paid(m, "in", getMechPrice(m)) /\ UNCHANGED stray
       ELSE /\ global' = updateGlobalFees("lmm", "in", getMechPrice(m))
            /\ dailyFees' = updateDailyFees("lmm", "in", getMechPrice(m))
            /\ stray' = stray + getMechPrice(m)
            /\ UNCHANGED <<mech, mechDaily>>
    /\ UNCHANGED price

NextBlock ==
    /\ now < MaxNow
    /\ now' = now + 1
    /\ \E m \in DOMAIN price, p \in Prices : price' = [price EXCEPT ![m] = p]
    /\ UNCHANGED <<events, stray, mech, global, dailyFees, mechDaily>>

Init ==
    /\ now = 0 /\ events = 0 /\ stray = 0
    /\ price \in [Mechs \cup Strangers -> Prices]
    /\ mech = NoRows /\ dailyFees = NoRows /\ mechDaily = NoRows
    /\ global = Zeros(KindCounters \cup {"in", "out"})

Next ==
    \/ NextBlock
    \/ \E m \in Mechs, p \in Prices : handleCreateMech(m, p) \/ handlePriceUpdate(m, p)
    \/ \E m \in Mechs, amount \in Amounts, b \in BOOLEAN : handleExec(m, amount, b)
    \/ \E m \in Lms : handleRequest(m)
    \/ \E m \in Mechs \cup Strangers : handleMarketplaceRequest(m)

Spec == Init /\ [][Next]_vars

-----------------------------------------------------------------------------
(* Properties. *)

OfKind(f, kind) == {k \in DOMAIN f : Kind(k) = kind}

\* Each kind's totals are those of its mechs, of the days and of the mechs' days; only
\* what requests to unknown mechs paid is in the totals and in no mech.
LegacyFeesAddUp ==
    \A kind \in {"lm", "lmm"}, dir \in {"in", "out"} :
       LET c == CounterOf(kind, dir)
           ofMech(m) == mech[m][dir]
           mechs == SumOver(OfKind(mech, kind), ofMech)
           unknown == IF c = "lmmIn" THEN stray ELSE 0
       IN  /\ global[c] = mechs + unknown
           /\ global[c] = Total(dailyFees, c)
           /\ global[dir] = global[CounterOf("lm", dir)] + global[CounterOf("lmm", dir)]
           /\ \A m \in OfKind(mech, kind) :
                 LET day(k) == mechDaily[k][c]
                 IN  mech[m][dir] = SumOver({k \in DOMAIN mechDaily : k[1] = m}, day)
=============================================================================
