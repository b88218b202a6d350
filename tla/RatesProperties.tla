--------------------------- MODULE RatesProperties ---------------------------
(***************************************************************************)
(* What the rates of the exchange have to satisfy.                         *)
(***************************************************************************)
EXTENDS Rates

\* Every variable has its type, and a request has what its statement needs.
TypeCorrect ==
    /\ DOMAIN base \subseteq Currencies
    /\ \A c \in DOMAIN base : base[c] \in BaseRow /\ base[c].sheet \in Sheets[c]
    /\ DOMAIN rate \subseteq 1..made
    /\ \A i \in DOMAIN rate : rate[i] \in RateRow
    /\ history \subseteq HistoryRow
    /\ made \in 0..MaxRates /\ asked \in 0..MaxRequests
    /\ pc \in [Admins -> {"idle", "baseInsert", "basesWrite", "ratesList", "derive",
                          "deriveTo", "ratesWrite", "historyRead", "historyWrite",
                          "createFrom", "createTo", "createInsert", "noteWrite",
                          "switch", "destroy"}]
    /\ dto \in [Admins -> SUBSET Dto]
    /\ item \in [Admins -> Item]
    /\ from \in [Admins -> BaseRow]
    /\ todo \in [Admins -> SUBSET Item]
    /\ calc \in [Admins -> SUBSET Computed]
    /\ note \in [Admins -> HistoryRow \cup [id : {0}, buyRate : Int, sellRate : Int,
                                            isActive : BOOLEAN]]
    /\ held \subseteq Computed

\* While every sheet submitted brackets one price of its currency
\* (SheetsAssumption), a stored rate never gives a customer more than the cross
\* price: the formula, the rate the ticket picks and the direction it applies
\* agree with each other (currency-base.service.ts, exchange-rate.service.ts,
\* ticket.service.ts).  The pairs at the official rate and those between USD
\* and USDT are outside.
RowsFavourHouse ==
    \A i \in DOMAIN rate :
        rate[i].pair \notin Official \cup Inverted =>
            receiveAmount(rate[i].pair, rate[i], 0) <= FairAmount(rate[i].pair, 0)

\* Where the base rates of two currencies quote exactly what they are worth, the
\* formula of their pair is the cross rate of the two in the direction the
\* ticket applies it, and so is that of the older method of the pair: the three
\* tables of seven or eight currencies agree entry by entry
\* (exchange-rate.service.ts, CALCULATION_MAP of ticket.service.ts).
CrossRate(p) == IF CALCULATION_MAP(p) = "*_RATE" THEN Price[p[2]] - Price[p[1]]
                                                 ELSE Price[p[1]] - Price[p[2]]
Exact(c) == c \in DOMAIN base /\ base[c].sheet = FairSheet(c)
FormulasAreCrossRates ==
    \A p \in Pairs \ Inverted :
        Exact(p[1]) /\ Exact(p[2]) =>
            LET f == base[p[1]].sheet
                t == base[p[2]].sheet
            IN  /\ calculationMap(p, f, t) = CrossRate(p)
                /\ "USDT" \notin Ends(p) => LegacyFormula(p, f, t) = CrossRate(p)

\* A stored rate is the quote of the base rates as they are now, as long as both
\* are active and no update of them is under way: a rate is left behind only
\* by a failure after the base rates were written or by requests that derived
\* rates of its currencies at the same time
\* (updateAllRateBase, updateAllCurrencyRatesFromBase, createCurrencyRates).
RateCurrent ==
    \A i \in DOMAIN rate :
        LET p == rate[i].pair
            q == Quote(p, base[p[1]].sheet, base[p[2]].sheet)
        IN  (/\ Ends(p) \cap spoiled = {}
             /\ base[p[1]].isActive /\ base[p[2]].isActive
             /\ \A a \in Admins : Deriving(a) => Touches(a) \cap Ends(p) = {})
            => rate[i].buyRate = q.buyRate /\ rate[i].sellRate = q.sellRate

\* Every history row states a buy and a sell rate that its rate had together at
\* one time, although the row is written after the rate, from values read
\* before or after it changed (createFromCurrencyRate and its three callers).
HistoryWasHeld ==
    \A h \in history : [id |-> h.id, buyRate |-> h.buyRate, sellRate |-> h.sellRate] \in held

=============================================================================
