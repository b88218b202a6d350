----------------------------- MODULE RatesProofs -----------------------------
(***************************************************************************)
(* What holds of the rates for every set of administrators, every price    *)
(* and margin, every set of sheets that bracket the prices, and any number *)
(* of rates and requests.                                                  *)
(*                                                                         *)
(* The first part is arithmetic: what one quote of two sheets is worth.    *)
(* The second carries it through the statements: Tables says what the      *)
(* stored rows satisfy, Working what a request holds between two           *)
(* statements, and Fresh what it holds while nobody else derives rates.    *)
(***************************************************************************)
EXTENDS RatesProperties, TLAPS

\* A pair has two different currencies.
LEMMA PairIsTwo ==
    ASSUME NEW p \in Pairs
    PROVE  /\ p[1] \in Currencies /\ p[2] \in Currencies
           /\ p[1] # p[2] /\ p = <<p[1], p[2]>>
  BY DEF Pairs

\* What a spread takes off is never negative.
LEMMA MarginIsNat == ASSUME NEW p PROVE getMarginForPair(p) \in Nat
  BY MarginAssumption DEF getMarginForPair, spreadOverrides, Spreads

LEMMA SheetHasColumns ==
    ASSUME NEW s \in Sheet
    PROVE  /\ s.buyRate \in Int /\ s.sellRate \in Int /\ s.marketRate \in Int
           /\ s.dolarBcvRate \in Int /\ s.eurBcvRate \in Int
  BY DEF Sheet

\* What the formula of a pair is, less or more than what the pair is worth.
LEMMA FormulaFavours ==
    ASSUME NEW x \in Currencies, NEW y \in Currencies, x # y,
           <<x, y>> \notin Official \cup Inverted,
           NEW f \in Sheet, Brackets(x, f),
           NEW t \in Sheet, Brackets(y, t)
    PROVE  /\ calculationMap(<<x, y>>, f, t) \in Int
           /\ CALCULATION_MAP(<<x, y>>) = "*_RATE" =>
                 /\ RATE_TYPE_MAP(<<x, y>>) = "buyRate"
                 /\ calculationMap(<<x, y>>, f, t) <= Price[y] - Price[x]
           /\ CALCULATION_MAP(<<x, y>>) # "*_RATE" =>
                 /\ RATE_TYPE_MAP(<<x, y>>) = "sellRate"
                 /\ calculationMap(<<x, y>>, f, t) >= Price[x] - Price[y]
  <1>1. \A c \in Currencies : Price[c] \in Int
    BY PriceAssumption
  <1>2. Price["USD"] = 0
    BY PriceAssumption
  <1>a. /\ f.buyRate \in Int /\ f.sellRate \in Int /\ f.marketRate \in Int
        /\ t.buyRate \in Int /\ t.sellRate \in Int /\ t.marketRate \in Int
    BY SheetHasColumns
  <1>b. <<x, y>>[1] = x /\ <<x, y>>[2] = y
    OBVIOUS
  <1>3. CASE x = "PEN"
    BY <1>1, <1>2, <1>3, <1>a, <1>b, SMTT(30) DEF calculationMap, FromLocal,
       CALCULATION_MAP, RATE_TYPE_MAP, Brackets, Currencies, Local, Official, Inverted
  <1>4. CASE x = "COP"
    BY <1>1, <1>2, <1>4, <1>a, <1>b, SMTT(30) DEF calculationMap, FromLocal,
       CALCULATION_MAP, RATE_TYPE_MAP, Brackets, Currencies, Local, Official, Inverted
  <1>5. CASE x \in {"ARS", "CLP"}
    BY <1>1, <1>2, <1>5, <1>a, <1>b, SMTT(30) DEF calculationMap, FromLocal,
       CALCULATION_MAP, RATE_TYPE_MAP, Brackets, Currencies, Local, Official, Inverted
  <1>6. CASE x = "BS"
    BY <1>1, <1>2, <1>6, <1>a, <1>b, SMTT(30) DEF calculationMap, FromBs,
       CALCULATION_MAP, RATE_TYPE_MAP, Brackets, Currencies, Local, Official, Inverted
  <1>7. CASE x = "USD"
    BY <1>1, <1>2, <1>7, <1>a, <1>b, SMTT(30) DEF calculationMap, FromUsd,
       CALCULATION_MAP, RATE_TYPE_MAP, Brackets, Currencies, Local, Official, Inverted
  <1>8. CASE x = "USDT"
    BY <1>1, <1>2, <1>8, <1>a, <1>b, SMTT(30) DEF calculationMap, FromUsdt,
       CALCULATION_MAP, RATE_TYPE_MAP, Brackets, Currencies, Local, Official, Inverted
  <1>9. CASE x = "EUR"
    BY <1>1, <1>2, <1>9, <1>a, <1>b, SMTT(30) DEF calculationMap, FromEur,
       CALCULATION_MAP, RATE_TYPE_MAP, Brackets, Currencies, Local, Official, Inverted
  <1> QED
    BY <1>3, <1>4, <1>5, <1>6, <1>7, <1>8, <1>9 DEF Currencies, Local

\* The formula of every pair computes a number.
LEMMA FormulaIsInt ==
    ASSUME NEW x \in Currencies, NEW y \in Currencies, x # y,
           NEW f \in Sheet, NEW t \in Sheet
    PROVE  calculationMap(<<x, y>>, f, t) \in Int
  <1>1. CASE x \in Local
    BY <1>1, SheetHasColumns, SMTT(30) DEF calculationMap, FromLocal, Currencies, Local
  <1>2. CASE x = "BS"
    BY <1>2, SheetHasColumns, SMTT(30) DEF calculationMap, FromBs, Currencies, Local
  <1>3. CASE x = "USD"
    BY <1>3, SheetHasColumns, SMTT(30) DEF calculationMap, FromUsd, Currencies, Local
  <1>4. CASE x = "USDT"
    BY <1>4, SheetHasColumns, SMTT(30) DEF calculationMap, FromUsdt, Currencies, Local
  <1>5. CASE x = "EUR"
    BY <1>5, SheetHasColumns, SMTT(30) DEF calculationMap, FromEur, Currencies, Local
  <1> QED
    BY <1>1, <1>2, <1>3, <1>4, <1>5 DEF Currencies

\* q quotes the pair p without giving more than the money is worth.
Favours(p, q) ==
    p \notin Official \cup Inverted => receiveAmount(p, q, 0) <= FairAmount(p, 0)

\* A quote of sheets that bracket the prices favours the house.
LEMMA QuoteFavours ==
    ASSUME NEW p \in Pairs, NEW f \in Sheet, NEW t \in Sheet,
           Brackets(p[1], f), Brackets(p[2], t)
    PROVE  /\ Quote(p, f, t).buyRate \in Int /\ Quote(p, f, t).sellRate \in Int
           /\ Favours(p, Quote(p, f, t))
  <1> DEFINE c == calculationMap(p, f, t)
             m == getMarginForPair(p)
  <1>1. p = <<p[1], p[2]>> /\ p[1] \in Currencies /\ p[2] \in Currencies /\ p[1] # p[2]
    BY PairIsTwo
  <1>2. c \in Int
    BY <1>1, FormulaIsInt
  <1>3. m \in Nat
    BY MarginIsNat
  <1>4. Quote(p, f, t).buyRate = c - m /\ Quote(p, f, t).sellRate = c + m
    BY DEF Quote
  <1>5. Price[p[1]] \in Int /\ Price[p[2]] \in Int
    BY <1>1, PriceAssumption
  <1>6. ASSUME p \notin Official \cup Inverted
        PROVE  receiveAmount(p, Quote(p, f, t), 0) <= FairAmount(p, 0)
    <2>1. /\ CALCULATION_MAP(p) = "*_RATE" =>
                RATE_TYPE_MAP(p) = "buyRate" /\ c <= Price[p[2]] - Price[p[1]]
          /\ CALCULATION_MAP(p) # "*_RATE" =>
                RATE_TYPE_MAP(p) = "sellRate" /\ c >= Price[p[1]] - Price[p[2]]
      BY <1>1, <1>6, FormulaFavours
    <2> HIDE DEF c, m
    <2>2. CASE CALCULATION_MAP(p) = "*_RATE"
      BY <1>2, <1>3, <1>4, <1>5, <2>1, <2>2 DEF receiveAmount, FairAmount
    <2>3. CASE CALCULATION_MAP(p) # "*_RATE"
      BY <1>2, <1>3, <1>4, <1>5, <2>1, <2>3 DEF receiveAmount, FairAmount
    <2> QED
      BY <2>2, <2>3
  <1> HIDE DEF c, m
  <1> QED
    BY <1>2, <1>3, <1>4, <1>6 DEF Favours

\* Only the two quotes count.
LEMMA FavoursByQuote ==
    ASSUME NEW p, NEW q, NEW r,
           q.buyRate = r.buyRate, q.sellRate = r.sellRate,
           Favours(p, q)
    PROVE  Favours(p, r)
  <1>1. RATE_TYPE_MAP(p) \in {"buyRate", "sellRate"}
    BY DEF RATE_TYPE_MAP
  <1>2. q[RATE_TYPE_MAP(p)] = r[RATE_TYPE_MAP(p)]
    BY <1>1
  <1> QED
    BY <1>2 DEF Favours, receiveAmount

\* Sheets that quote exactly what the currencies are worth make every formula,
\* the newer and the older one, the cross rate of the pair.
LEMMA FormulaIsCrossRate ==
    ASSUME NEW x \in Currencies, NEW y \in Currencies, x # y,
           <<x, y>> \notin Inverted
    PROVE  LET f == FairSheet(x)
               t == FairSheet(y)
           IN  /\ calculationMap(<<x, y>>, f, t) = CrossRate(<<x, y>>)
               /\ x # "USDT" /\ y # "USDT" =>
                     LegacyFormula(<<x, y>>, f, t) = CrossRate(<<x, y>>)
  <1> DEFINE f == FairSheet(x)
             t == FairSheet(y)
  <1>1. \A c \in Currencies : Price[c] \in Int
    BY PriceAssumption
  <1>2. Price["USD"] = 0
    BY PriceAssumption
  <1>3. \A c \in Currencies :
           /\ c \notin {"EUR", "USDT"} =>
                 FairSheet(c).buyRate = Price[c] /\ FairSheet(c).sellRate = Price[c]
           /\ c \in {"EUR", "USDT"} =>
                 FairSheet(c).buyRate = -Price[c] /\ FairSheet(c).sellRate = -Price[c]
           /\ FairSheet(c).marketRate = Price[c]
           /\ FairSheet(c).dolarBcvRate = Price[c]
           /\ FairSheet(c).eurBcvRate = Price[c] - Price["EUR"]
    BY DEF FairSheet
  <1>4. /\ x \notin {"EUR", "USDT"} => f.buyRate = Price[x] /\ f.sellRate = Price[x]
        /\ x \in {"EUR", "USDT"} => f.buyRate = -Price[x] /\ f.sellRate = -Price[x]
        /\ f.marketRate = Price[x] /\ f.dolarBcvRate = Price[x]
        /\ f.eurBcvRate = Price[x] - Price["EUR"]
    BY <1>3
  <1>5. /\ y \notin {"EUR", "USDT"} => t.buyRate = Price[y] /\ t.sellRate = Price[y]
        /\ y \in {"EUR", "USDT"} => t.buyRate = -Price[y] /\ t.sellRate = -Price[y]
        /\ t.marketRate = Price[y] /\ t.dolarBcvRate = Price[y]
        /\ t.eurBcvRate = Price[y] - Price["EUR"]
    BY <1>3
  <1>6. <<x, y>>[1] = x /\ <<x, y>>[2] = y
    OBVIOUS
  <1> HIDE DEF f, t
  <1>7. calculationMap(<<x, y>>, f, t) = CrossRate(<<x, y>>)
    <2>1. CASE x \in Local
      BY <1>1, <1>2, <1>4, <1>5, <1>6, <2>1, SMTT(30) DEF calculationMap, FromLocal,
         CrossRate, CALCULATION_MAP, Currencies, Local, Inverted
    <2>2. CASE x = "BS"
      BY <1>1, <1>2, <1>4, <1>5, <1>6, <2>2, SMTT(30) DEF calculationMap, FromBs,
         CrossRate, CALCULATION_MAP, Currencies, Local, Inverted
    <2>3. CASE x = "USD"
      BY <1>1, <1>2, <1>4, <1>5, <1>6, <2>3, SMTT(30) DEF calculationMap, FromUsd,
         CrossRate, CALCULATION_MAP, Currencies, Local, Inverted
    <2>4. CASE x = "USDT"
      BY <1>1, <1>2, <1>4, <1>5, <1>6, <2>4, SMTT(30) DEF calculationMap, FromUsdt,
         CrossRate, CALCULATION_MAP, Currencies, Local, Inverted
    <2>5. CASE x = "EUR"
      BY <1>1, <1>2, <1>4, <1>5, <1>6, <2>5, SMTT(30) DEF calculationMap, FromEur,
         CrossRate, CALCULATION_MAP, Currencies, Local, Inverted
    <2> QED
      BY <2>1, <2>2, <2>3, <2>4, <2>5 DEF Currencies
  <1>8. ASSUME x # "USDT", y # "USDT"
        PROVE  LegacyFormula(<<x, y>>, f, t) = CrossRate(<<x, y>>)
    <2>1. CASE x = "ARS"
      BY <1>1, <1>2, <1>4, <1>5, <1>6, <1>8, <2>1, SMTT(30) DEF LegacyFormula,
         calculateArsTo, CrossRate, CALCULATION_MAP, Currencies, Local
    <2>2. CASE x = "CLP"
      BY <1>1, <1>2, <1>4, <1>5, <1>6, <1>8, <2>2, SMTT(30) DEF LegacyFormula,
         calculateClpTo, CrossRate, CALCULATION_MAP, Currencies, Local
    <2>3. CASE x = "BS"
      BY <1>1, <1>2, <1>4, <1>5, <1>6, <1>8, <2>3, SMTT(30) DEF LegacyFormula,
         calculateBsTo, CrossRate, CALCULATION_MAP, Currencies, Local
    <2>4. CASE x = "COP"
      BY <1>1, <1>2, <1>4, <1>5, <1>6, <1>8, <2>4, SMTT(30) DEF LegacyFormula,
         calculateCopTo, CrossRate, CALCULATION_MAP, Currencies, Local
    <2>5. CASE x = "USD"
      BY <1>1, <1>2, <1>4, <1>5, <1>6, <1>8, <2>5, SMTT(30) DEF LegacyFormula,
         calculateUsdTo, CrossRate, CALCULATION_MAP, Currencies, Local
    <2>6. CASE x = "EUR"
      BY <1>1, <1>2, <1>4, <1>5, <1>6, <1>8, <2>6, SMTT(30) DEF LegacyFormula,
         calculateEurTo, CrossRate, CALCULATION_MAP, Currencies, Local
    <2>7. CASE x = "PEN"
      BY <1>1, <1>2, <1>4, <1>5, <1>6, <1>8, <2>7, SMTT(30) DEF LegacyFormula,
         calculatePenTo, CrossRate, CALCULATION_MAP, Currencies, Local
    <2> QED
      BY <1>8, <2>1, <2>2, <2>3, <2>4, <2>5, <2>6, <2>7 DEF Currencies, Local
  <1> QED
    BY <1>7, <1>8 DEF f, t

-----------------------------------------------------------------------------
(***************************************************************************)
(* The tables and what a request carries from statement to statement.      *)
(***************************************************************************)
StepNames == {"idle", "baseInsert", "basesWrite", "ratesList", "derive", "deriveTo",
              "ratesWrite", "historyRead", "historyWrite", "createFrom", "createTo",
              "createInsert", "noteWrite", "switch", "destroy"}
NoteRow == [id : Ids \cup {0}, buyRate : Int, sellRate : Int, isActive : BOOLEAN]

Locals ==
    /\ pc \in [Admins -> StepNames]
    /\ dto = [a \in Admins |-> dto[a]] /\ item = [a \in Admins |-> item[a]]
    /\ from = [a \in Admins |-> from[a]] /\ todo = [a \in Admins |-> todo[a]]
    /\ calc = [a \in Admins |-> calc[a]] /\ note = [a \in Admins |-> note[a]]
    /\ DOMAIN alone = Admins

\* A row of the table of rates is well formed, favours the house, and its two
\* rates are among those it has had; its currencies have a base rate.
GoodRate(i) ==
    /\ rate[i] \in RateRow
    /\ Favours(rate[i].pair, rate[i])
    /\ Ends(rate[i].pair) \subseteq DOMAIN base
    /\ [id |-> i, buyRate |-> rate[i].buyRate, sellRate |-> rate[i].sellRate] \in held

Tables ==
    /\ DOMAIN base \subseteq Currencies
    /\ \A c \in DOMAIN base : base[c] \in BaseRow /\ base[c].sheet \in Sheets[c]
    /\ made \in 0..MaxRates /\ asked \in 0..MaxRequests
    /\ DOMAIN rate \subseteq 1..made
    /\ \A i \in DOMAIN rate : GoodRate(i)
    /\ held \subseteq Computed
    /\ \A q \in held : q.id \in 1..made
    /\ history \subseteq HistoryRow
    /\ \A h \in history : [id |-> h.id, buyRate |-> h.buyRate, sellRate |-> h.sellRate] \in held

\* i names a rate of the pair p, or one that was removed.
Names(i, p) ==
    /\ i \in 1..made
    /\ i \in DOMAIN rate => rate[i].pair = p
    /\ p \in Pairs
    /\ Ends(p) \subseteq DOMAIN base

\* A request at statement s with these locals has what the statement needs.
Carries(s, ds, it, fr, td, cs, nt) ==
    /\ \A d \in ds : d \in Dto /\ d.sheet \in Sheets[d.currency]
    /\ it \in Item /\ fr \in BaseRow /\ nt \in NoteRow
    /\ \A t \in td : t \in Item /\ Names(t.id, t.pair)
    /\ \A q \in cs : /\ q \in Computed
                     /\ q.id \in 1..made
                     /\ q.id \in DOMAIN rate => Favours(rate[q.id].pair, q)
    /\ s = "deriveTo" => Names(it.id, it.pair) /\ fr.sheet \in Sheets[it.pair[1]]
    /\ s = "createTo" => fr.sheet \in Sheets[it.pair[1]] /\ it.pair[1] \in DOMAIN base
    /\ s = "createInsert" => Ends(it.pair) \subseteq DOMAIN base /\ Favours(it.pair, nt)
    /\ s \in {"historyWrite", "switch", "noteWrite"} =>
          [id |-> nt.id, buyRate |-> nt.buyRate, sellRate |-> nt.sellRate] \in held

Working(a) == Carries(pc[a], dto[a], item[a], from[a], todo[a], calc[a], note[a])

IInv == Locals /\ Tables /\ \A a \in Admins : Working(a)

\* Only a's request changes what it carries.
OnlyOf(a) ==
    \A b \in Admins \ {a} :
        /\ pc'[b] = pc[b] /\ dto'[b] = dto[b] /\ item'[b] = item[b] /\ from'[b] = from[b]
        /\ todo'[b] = todo[b] /\ calc'[b] = calc[b] /\ note'[b] = note[b]

\* What every step does to the tables: no base rate goes, an identifier is never
\* given twice, and a rate keeps its pair.
Grows ==
    /\ DOMAIN base \subseteq DOMAIN base'
    /\ made <= made' /\ made' \in Nat
    /\ \A i \in DOMAIN rate' :
          i <= made => i \in DOMAIN rate /\ rate'[i].pair = rate[i].pair
    /\ held \subseteq held'

LEMMA CarriesOn ==
    ASSUME Tables, Grows,
           NEW s, NEW ds, NEW it, NEW fr, NEW td, NEW cs, NEW nt,
           Carries(s, ds, it, fr, td, cs, nt)
    PROVE  Carries(s, ds, it, fr, td, cs, nt)'
  <1>1. made \in Nat
    BY DEF Tables
  <1>2. \A i, p : Names(i, p) => Names(i, p)'
    BY <1>1 DEF Names, Grows
  <1>3. \A q : q.id \in 1..made /\ (q.id \in DOMAIN rate => Favours(rate[q.id].pair, q))
               => q.id \in 1..made' /\ (q.id \in DOMAIN rate' => Favours(rate'[q.id].pair, q))
    BY <1>1 DEF Grows
  <1>4. Ends(it.pair) \subseteq DOMAIN base => Ends(it.pair) \subseteq DOMAIN base'
    BY DEF Grows
  <1> QED
    BY <1>2, <1>3, <1>4 DEF Carries, Grows

LEMMA OthersWork ==
    ASSUME IInv, Grows, NEW a \in Admins, OnlyOf(a)
    PROVE  \A b \in Admins \ {a} : Working(b)'
  <1> SUFFICES ASSUME NEW b \in Admins \ {a} PROVE Working(b)'
    OBVIOUS
  <1>1. Carries(pc[b], dto[b], item[b], from[b], todo[b], calc[b], note[b])
    BY DEF IInv, Working
  <1>2. \A s, ds, it, fr, td, cs, nt :
           Carries(s, ds, it, fr, td, cs, nt) => Carries(s, ds, it, fr, td, cs, nt)'
    BY CarriesOn DEF IInv
  <1>3. /\ pc'[b] = pc[b] /\ dto'[b] = dto[b] /\ item'[b] = item[b] /\ from'[b] = from[b]
        /\ todo'[b] = todo[b] /\ calc'[b] = calc[b] /\ note'[b] = note[b]
    BY DEF OnlyOf
  <1>4. PICK s, ds, it, fr, td, cs, nt :
           /\ s = pc[b] /\ ds = dto[b] /\ it = item[b] /\ fr = from[b]
           /\ td = todo[b] /\ cs = calc[b] /\ nt = note[b]
    OBVIOUS
  <1>5. Carries(s, ds, it, fr, td, cs, nt)'
    BY <1>1, <1>2, <1>4
  <1> QED
    BY <1>3, <1>4, <1>5 DEF Working, Carries

\* A request that answers carries nothing.
LEMMA NothingIsCarried ==
    ASSUME NEW s \in {"idle"}
    PROVE  Carries(s, {}, NoItem, NoBase, {}, {}, NoNote)
  <1>1. NoItem \in Item
    BY DEF NoItem, Item, Pairs, Currencies, Local
  <1>2. NoBase \in BaseRow
    <2>1. FairSheet("USD") \in Sheet
      BY PriceAssumption DEF FairSheet, Sheet, Currencies, Local
    <2> QED
      BY <2>1 DEF NoBase, BaseRow
  <1>3. NoNote \in NoteRow
    BY DEF NoNote, NoteRow
  <1> QED
    BY <1>1, <1>2, <1>3 DEF Carries

\* A step is safe when the tables, the types and its own request are.
LEMMA StepWorks ==
    ASSUME IInv, Grows, NEW a \in Admins, OnlyOf(a), Locals', Tables', Working(a)'
    PROVE  IInv'
  BY OthersWork DEF IInv

\* A statement that writes no row.
LEMMA QuietWorks ==
    ASSUME IInv, NEW a \in Admins, OnlyOf(a), Locals', Working(a)',
           UNCHANGED <<base, rate, history, made, held>>, asked' \in 0..MaxRequests
    PROVE  IInv'
  <1>1. Grows
    BY DEF Grows, IInv, Tables
  <1>2. Tables'
    BY DEF IInv, Tables, GoodRate
  <1> QED
    BY <1>1, <1>2, StepWorks

\* Goto and the assignments of a statement, to a's locals alone.
LEMMA EndsAlone ==
    ASSUME IInv, NEW a \in Admins, End(a), DOMAIN alone' = Admins
    PROVE  Locals' /\ OnlyOf(a) /\ Working(a)'
  <1>1. Locals'
    BY DEF IInv, Locals, End, Goto, Set, StepNames
  <1>2. OnlyOf(a)
    BY DEF IInv, Locals, End, Goto, Set, OnlyOf
  <1>3. /\ pc'[a] = "idle" /\ dto'[a] = {} /\ item'[a] = NoItem /\ from'[a] = NoBase
        /\ todo'[a] = {} /\ calc'[a] = {} /\ note'[a] = NoNote
    BY DEF IInv, Locals, End, Goto, Set
  <1>4. Working(a)'
    <2>1. NoItem \in Item /\ NoBase \in BaseRow /\ NoNote \in NoteRow
      BY NothingIsCarried DEF Carries
    <2> QED
      BY <1>3, <2>1 DEF Working, Carries
  <1> QED
    BY <1>1, <1>2, <1>4

\* A request that answers without having written a row.
LEMMA EndWorks ==
    ASSUME IInv, NEW a \in Admins, End(a), DOMAIN alone' = Admins,
           UNCHANGED <<base, rate, history, made, asked, held>>
    PROVE  IInv'
  BY EndsAlone, QuietWorks DEF IInv, Tables

LEMMA OwnWork ==
    ASSUME IInv, NEW a \in Admins
    PROVE  Carries(pc[a], dto[a], item[a], from[a], todo[a], calc[a], note[a])
  BY DEF IInv, Working

\* An identifier that was given is one, and so is the next while there are any.
LEMMA Given ==
    ASSUME Tables
    PROVE  /\ made \in Nat
           /\ \A i \in 1..made : i \in Ids /\ i # made + 1
           /\ \A i \in DOMAIN rate : i \in 1..made /\ i \in Ids /\ GoodRate(i)
           /\ made < MaxRates => made + 1 \in Ids /\ made + 1 \in 0..MaxRates
  BY BoundsAssumption DEF Tables, Ids

LEMMA AskWorks ==
    ASSUME IInv, NEW a \in Admins, Ask(a)
    PROVE  pc[a] = "idle" /\ asked' \in 0..MaxRequests
  BY BoundsAssumption DEF IInv, Tables, Ask

\* What a request carries is measured against the tables before the step.
LEMMA WorksWith ==
    ASSUME IInv, Grows, NEW a \in Admins,
           NEW s, NEW ds, NEW it, NEW fr, NEW td, NEW cs, NEW nt,
           Carries(s, ds, it, fr, td, cs, nt),
           pc'[a] = s, dto'[a] = ds, item'[a] = it, from'[a] = fr,
           todo'[a] = td, calc'[a] = cs, note'[a] = nt
    PROVE  Working(a)'
  <1>1. Carries(s, ds, it, fr, td, cs, nt)'
    BY CarriesOn DEF IInv
  <1> QED
    BY <1>1 DEF Working, Carries

\* The same for a statement that writes no row.
LEMMA QuietWith ==
    ASSUME IInv, NEW a \in Admins, OnlyOf(a), Locals',
           UNCHANGED <<base, rate, history, made, held>>, asked' \in 0..MaxRequests,
           NEW s, NEW ds, NEW it, NEW fr, NEW td, NEW cs, NEW nt,
           Carries(s, ds, it, fr, td, cs, nt),
           pc'[a] = s, dto'[a] = ds, item'[a] = it, from'[a] = fr,
           todo'[a] = td, calc'[a] = cs, note'[a] = nt
    PROVE  IInv'
  <1>1. Grows
    BY DEF Grows, IInv, Tables
  <1>2. Working(a)'
    BY <1>1, WorksWith
  <1> QED
    BY <1>2, QuietWorks

LEMMA CreateBaseFindWorks ==
    ASSUME IInv, NEW a \in Admins, NEW c \in Currencies, NEW s \in Sheets[c],
           NEW act \in BOOLEAN, CreateBaseFind(a, c, s, act)
    PROVE  IInv'
  <1> DEFINE ds == {[currency |-> c, sheet |-> s, isActive |-> act]}
  <1>1. asked' \in 0..MaxRequests /\ pc[a] = "idle"
    BY AskWorks DEF CreateBaseFind
  <1>2. Locals' /\ OnlyOf(a)
    BY DEF IInv, Locals, CreateBaseFind, Goto, Set, OnlyOf, StepNames, ghosts
  <1>3. /\ pc'[a] = "baseInsert" /\ dto'[a] = ds /\ item'[a] = item[a] /\ from'[a] = from[a]
        /\ todo'[a] = todo[a] /\ calc'[a] = calc[a] /\ note'[a] = note[a]
        /\ UNCHANGED <<base, rate, history, made, held>>
    BY DEF CreateBaseFind, Goto, Set, IInv, Locals, rows, ghosts
  <1>4. \A d \in ds : d \in Dto /\ d.sheet \in Sheets[d.currency]
    <2>1. s \in Sheet
      BY SheetsAssumption
    <2>2. \A d \in ds : d = [currency |-> c, sheet |-> s, isActive |-> act]
      OBVIOUS
    <2> HIDE DEF ds
    <2>3. [currency |-> c, sheet |-> s, isActive |-> act] \in Dto
      BY <2>1 DEF Dto
    <2> QED
      BY <2>2, <2>3
  <1> HIDE DEF ds
  <1>5. Carries("baseInsert", ds, item[a], from[a], todo[a], calc[a], note[a])
    BY <1>1, <1>4, OwnWork DEF Carries
  <1> QED
    BY <1>1, <1>2, <1>3, <1>5, QuietWith

LEMMA UpdateBasesReadWorks ==
    ASSUME IInv, NEW a \in Admins, NEW cs \in SUBSET DOMAIN base,
           NEW s \in SheetsOf(cs), NEW act \in [cs -> BOOLEAN],
           UpdateBasesRead(a, cs, s, act)
    PROVE  IInv'
  <1>1. asked' \in 0..MaxRequests /\ pc[a] = "idle"
    BY AskWorks DEF UpdateBasesRead
  <1>2. Locals' /\ OnlyOf(a)
    BY DEF IInv, Locals, UpdateBasesRead, Goto, Set, OnlyOf, StepNames, ghosts
  <1>3. /\ pc'[a] = "basesWrite" /\ item'[a] = item[a] /\ from'[a] = from[a]
        /\ todo'[a] = todo[a] /\ calc'[a] = calc[a] /\ note'[a] = note[a]
        /\ UNCHANGED <<base, rate, history, made, held>>
    BY DEF UpdateBasesRead, Goto, Set, IInv, Locals, rows, ghosts
  <1>4. \A d \in dto'[a] : d \in Dto /\ d.sheet \in Sheets[d.currency]
    <2>1. \A c \in cs : s[c] \in Sheets[c] /\ s[c] \in Sheet /\ act[c] \in BOOLEAN
                        /\ c \in Currencies
      BY SheetsAssumption DEF SheetsOf, IInv, Tables
    <2>2. \A d \in dto'[a] :
             \E c \in cs : d = [currency |-> c, sheet |-> s[c], isActive |-> act[c]]
      BY DEF UpdateBasesRead, Set, IInv, Locals
    <2> QED
      BY <2>1, <2>2 DEF Dto
  <1>5. PICK ds : ds = dto'[a]
    OBVIOUS
  <1>6. Carries("basesWrite", ds, item[a], from[a], todo[a], calc[a], note[a])
    BY <1>1, <1>4, <1>5, OwnWork DEF Carries
  <1> QED
    BY <1>1, <1>2, <1>3, <1>5, <1>6, QuietWith

LEMMA CreateFindWorks ==
    ASSUME IInv, NEW a \in Admins, NEW p \in Pairs, CreateFind(a, p)
    PROVE  IInv'
  <1> DEFINE it == [id |-> 0, pair |-> p]
  <1>1. asked' \in 0..MaxRequests /\ pc[a] = "idle"
    BY AskWorks DEF CreateFind
  <1>2. Locals' /\ OnlyOf(a)
    BY DEF IInv, Locals, CreateFind, Goto, Set, OnlyOf, StepNames, ghosts
  <1>3. /\ pc'[a] = "createFrom" /\ dto'[a] = dto[a] /\ item'[a] = it /\ from'[a] = from[a]
        /\ todo'[a] = todo[a] /\ calc'[a] = calc[a] /\ note'[a] = note[a]
        /\ UNCHANGED <<base, rate, history, made, held>>
    BY DEF CreateFind, Goto, Set, IInv, Locals, rows, ghosts
  <1>4. it \in Item
    BY DEF Item
  <1> HIDE DEF it
  <1>5. Carries("createFrom", dto[a], it, from[a], todo[a], calc[a], note[a])
    BY <1>1, <1>4, OwnWork DEF Carries
  <1> QED
    BY <1>1, <1>2, <1>3, <1>5, QuietWith

LEMMA SwitchFindWorks ==
    ASSUME IInv, NEW a \in Admins, NEW i \in DOMAIN rate, NEW act \in BOOLEAN,
           SwitchFind(a, i, act)
    PROVE  IInv'
  <1> DEFINE nt == [id |-> i, buyRate |-> rate[i].buyRate,
                    sellRate |-> rate[i].sellRate, isActive |-> act]
  <1>1. asked' \in 0..MaxRequests /\ pc[a] = "idle"
    BY AskWorks DEF SwitchFind
  <1>2. Locals' /\ OnlyOf(a)
    BY DEF IInv, Locals, SwitchFind, Goto, Set, OnlyOf, StepNames, ghosts
  <1>3. /\ pc'[a] = "switch" /\ dto'[a] = dto[a] /\ item'[a] = item[a] /\ from'[a] = from[a]
        /\ todo'[a] = todo[a] /\ calc'[a] = calc[a] /\ note'[a] = nt
        /\ UNCHANGED <<base, rate, history, made, held>>
    BY DEF SwitchFind, Goto, Set, IInv, Locals, rows, ghosts
  <1>4. GoodRate(i) /\ i \in Ids
    BY Given DEF IInv
  <1>5. /\ nt \in NoteRow
        /\ [id |-> nt.id, buyRate |-> nt.buyRate, sellRate |-> nt.sellRate] \in held
    BY <1>4 DEF NoteRow, GoodRate, RateRow
  <1> HIDE DEF nt
  <1>6. Carries("switch", dto[a], item[a], from[a], todo[a], calc[a], nt)
    BY <1>1, <1>5, OwnWork DEF Carries
  <1> QED
    BY <1>1, <1>2, <1>3, <1>6, QuietWith

LEMMA DestroyFindWorks ==
    ASSUME IInv, NEW a \in Admins, NEW i \in DOMAIN rate, DestroyFind(a, i)
    PROVE  IInv'
  <1> DEFINE it == [id |-> i, pair |-> rate[i].pair]
  <1>1. asked' \in 0..MaxRequests /\ pc[a] = "idle"
    BY AskWorks DEF DestroyFind
  <1>2. Locals' /\ OnlyOf(a)
    BY DEF IInv, Locals, DestroyFind, Goto, Set, OnlyOf, StepNames, ghosts
  <1>3. /\ pc'[a] = "destroy" /\ dto'[a] = dto[a] /\ item'[a] = it /\ from'[a] = from[a]
        /\ todo'[a] = todo[a] /\ calc'[a] = calc[a] /\ note'[a] = note[a]
        /\ UNCHANGED <<base, rate, history, made, held>>
    BY DEF DestroyFind, Goto, Set, IInv, Locals, rows, ghosts
  <1>4. it \in Item
    <2>1. i \in Ids /\ rate[i] \in RateRow
      BY Given DEF IInv, GoodRate
    <2> QED
      BY <2>1 DEF Item, RateRow
  <1> HIDE DEF it
  <1>5. Carries("destroy", dto[a], it, from[a], todo[a], calc[a], note[a])
    BY <1>1, <1>4, OwnWork DEF Carries
  <1> QED
    BY <1>1, <1>2, <1>3, <1>5, QuietWith

\* What the statements of a request write.
LEMMA CreateBaseInsertWorks ==
    ASSUME IInv, NEW a \in Admins, CreateBaseInsert(a)
    PROVE  IInv'
  <1>1. UNCHANGED <<rate, history, made, asked, held>> /\ DOMAIN alone' = Admins
    BY DEF CreateBaseInsert, ghosts, IInv, Locals
  <1>2. PICK d \in dto[a] :
           base' = IF d.currency \in DOMAIN base THEN base
                   ELSE With(base, d.currency, [sheet |-> d.sheet, isActive |-> d.isActive])
    BY DEF CreateBaseInsert
  <1>3. d \in Dto /\ d.sheet \in Sheets[d.currency]
    BY OwnWork DEF Carries
  <1>4. /\ DOMAIN base \subseteq DOMAIN base' /\ DOMAIN base' \subseteq Currencies
        /\ \A c \in DOMAIN base' : base'[c] \in BaseRow /\ base'[c].sheet \in Sheets[c]
    BY <1>2, <1>3 DEF With, Dto, BaseRow, IInv, Tables
  <1>5. Grows
    BY <1>1, <1>4 DEF Grows, IInv, Tables
  <1>6. Tables'
    BY <1>1, <1>4 DEF IInv, Tables, GoodRate
  <1>7. Locals' /\ OnlyOf(a) /\ Working(a)'
    BY <1>1, EndsAlone DEF CreateBaseInsert
  <1> QED
    BY <1>5, <1>6, <1>7, StepWorks

LEMMA BeginKeepsNames ==
    ASSUME NEW a, NEW cs, Begin(a, cs)
    PROVE  DOMAIN alone' = Admins
  BY DEF Begin

LEMMA UpdateBasesWriteWorks ==
    ASSUME IInv, NEW a \in Admins, UpdateBasesWrite(a)
    PROVE  IInv'
  <1>1. /\ UNCHANGED <<rate, history, made, asked, held>> /\ DOMAIN alone' = Admins
        /\ pc[a] = "basesWrite"
    BY BeginKeepsNames DEF UpdateBasesWrite
  <1>2. \A d \in dto[a] : d \in Dto /\ d.sheet \in Sheets[d.currency]
    BY OwnWork DEF Carries
  <1>3. /\ DOMAIN base' = DOMAIN base
        /\ \A c \in DOMAIN base :
              \/ base'[c] = base[c]
              \/ \E d \in dto[a] : /\ d.currency = c
                                   /\ base'[c] = [sheet |-> d.sheet, isActive |-> d.isActive]
    BY DEF UpdateBasesWrite, Submitted
  <1>4. \A c \in DOMAIN base' : base'[c] \in BaseRow /\ base'[c].sheet \in Sheets[c]
    BY <1>2, <1>3 DEF Dto, BaseRow, IInv, Tables
  <1>5. Grows
    BY <1>1, <1>3 DEF Grows, IInv, Tables
  <1>6. Tables'
    BY <1>1, <1>3, <1>4 DEF IInv, Tables, GoodRate
  <1>7. Locals' /\ OnlyOf(a)
    BY <1>1 DEF IInv, Locals, UpdateBasesWrite, Goto, OnlyOf, StepNames, locals
  <1>8. /\ pc'[a] = "ratesList" /\ dto'[a] = dto[a] /\ item'[a] = item[a] /\ from'[a] = from[a]
        /\ todo'[a] = todo[a] /\ calc'[a] = calc[a] /\ note'[a] = note[a]
    BY DEF UpdateBasesWrite, Goto, IInv, Locals, locals
  <1>9. Carries("ratesList", dto[a], item[a], from[a], todo[a], calc[a], note[a])
    BY <1>1, OwnWork DEF Carries
  <1>10. Working(a)'
    BY <1>5, <1>8, <1>9, WorksWith
  <1> QED
    BY <1>5, <1>6, <1>7, <1>10, StepWorks

LEMMA RatesListWorks ==
    ASSUME IInv, NEW a \in Admins, RatesList(a)
    PROVE  IInv'
  <1>1. Locals' /\ OnlyOf(a) /\ asked' \in 0..MaxRequests
    BY DEF IInv, Locals, Tables, RatesList, Goto, Set, OnlyOf, StepNames, ghosts
  <1>2. /\ pc'[a] \in {"ratesWrite", "derive"} /\ dto'[a] = dto[a] /\ item'[a] = item[a]
        /\ from'[a] = from[a] /\ calc'[a] = calc[a] /\ note'[a] = note[a]
        /\ UNCHANGED <<base, rate, history, made, held>>
    BY DEF RatesList, Goto, Set, IInv, Locals, rows, ghosts
  <1>3. \A t \in todo'[a] : \E i \in DOMAIN rate : t = [id |-> i, pair |-> rate[i].pair]
    BY DEF RatesList, Set, IInv, Locals
  <1>4. \A t \in todo'[a] : t \in Item /\ Names(t.id, t.pair)
    <2> SUFFICES ASSUME NEW t \in todo'[a] PROVE t \in Item /\ Names(t.id, t.pair)
      OBVIOUS
    <2>1. PICK i \in DOMAIN rate : t = [id |-> i, pair |-> rate[i].pair]
      BY <1>3
    <2>2. GoodRate(i) /\ i \in Ids /\ i \in 1..made
      BY Given DEF IInv
    <2> QED
      BY <2>1, <2>2 DEF GoodRate, RateRow, Item, Names
  <1>5. PICK s, td : s = pc'[a] /\ td = todo'[a]
    OBVIOUS
  <1>6. Carries(s, dto[a], item[a], from[a], td, calc[a], note[a])
    BY <1>2, <1>4, <1>5, OwnWork DEF Carries
  <1> QED
    BY <1>1, <1>2, <1>5, <1>6, QuietWith

LEMMA DeriveFromWorks ==
    ASSUME IInv, NEW a \in Admins, DeriveFrom(a)
    PROVE  IInv'
  <1>1. Locals' /\ OnlyOf(a) /\ asked' \in 0..MaxRequests
    BY DEF IInv, Locals, Tables, DeriveFrom, Goto, Set, OnlyOf, StepNames, ghosts
  <1>2. PICK t \in todo[a] :
           /\ item'[a] = t /\ todo'[a] = todo[a] \ {t} /\ from'[a] = base[t.pair[1]]
    BY DEF DeriveFrom, Set, IInv, Locals
  <1>3. /\ pc'[a] = "deriveTo" /\ dto'[a] = dto[a] /\ calc'[a] = calc[a] /\ note'[a] = note[a]
        /\ UNCHANGED <<base, rate, history, made, held>>
    BY DEF DeriveFrom, Goto, IInv, Locals, rows, ghosts
  <1>4. t \in Item /\ Names(t.id, t.pair)
    BY OwnWork DEF Carries
  <1>5. base[t.pair[1]] \in BaseRow /\ base[t.pair[1]].sheet \in Sheets[t.pair[1]]
    BY <1>4 DEF Names, Ends, IInv, Tables
  <1>6. Carries("deriveTo", dto[a], t, base[t.pair[1]], todo[a] \ {t}, calc[a], note[a])
    BY <1>4, <1>5, OwnWork DEF Carries
  <1> QED
    BY <1>1, <1>2, <1>3, <1>6, QuietWith

\* A quote of two submitted sheets favours the house.
LEMMA SheetsQuote ==
    ASSUME NEW p \in Pairs, NEW f \in Sheets[p[1]], NEW t \in Sheets[p[2]]
    PROVE  /\ Quote(p, f, t).buyRate \in Int /\ Quote(p, f, t).sellRate \in Int
           /\ Favours(p, Quote(p, f, t))
  <1>1. p[1] \in Currencies /\ p[2] \in Currencies
    BY PairIsTwo
  <1>2. f \in Sheet /\ t \in Sheet /\ Brackets(p[1], f) /\ Brackets(p[2], t)
    BY <1>1, SheetsAssumption
  <1> QED
    BY <1>2, QuoteFavours

LEMMA DeriveToWorks ==
    ASSUME IInv, NEW a \in Admins, DeriveTo(a)
    PROVE  IInv'
  <1> DEFINE p == item[a].pair
             q == Quote(p, from[a].sheet, base[p[2]].sheet)
             r == [id |-> item[a].id, buyRate |-> q.buyRate, sellRate |-> q.sellRate]
  <1>1. Locals' /\ OnlyOf(a) /\ asked' \in 0..MaxRequests
    BY DEF IInv, Locals, Tables, DeriveTo, Goto, Set, OnlyOf, StepNames, ghosts
  <1>2. /\ pc'[a] \in {"ratesWrite", "derive"} /\ dto'[a] = dto[a] /\ item'[a] = item[a]
        /\ from'[a] = from[a] /\ todo'[a] = todo[a] /\ note'[a] = note[a]
        /\ UNCHANGED <<base, rate, history, made, held>> /\ pc[a] = "deriveTo"
    BY DEF DeriveTo, Goto, Set, IInv, Locals, rows, ghosts
  <1>3. calc'[a] \in {calc[a], calc[a] \cup {r}}
    BY DEF DeriveTo, Set, IInv, Locals
  <1>4. Names(item[a].id, p) /\ from[a].sheet \in Sheets[p[1]]
    BY <1>2, OwnWork DEF Carries
  <1>5. base[p[2]].sheet \in Sheets[p[2]] /\ p \in Pairs /\ item[a].id \in Ids
        /\ item[a].id \in 1..made
    BY <1>4, Given DEF Names, Ends, IInv, Tables
  <1>6. q.buyRate \in Int /\ q.sellRate \in Int /\ Favours(p, q)
    BY <1>4, <1>5, SheetsQuote
  <1> HIDE DEF q
  <1>7. r \in Computed /\ r.id = item[a].id
    BY <1>5, <1>6 DEF Computed
  <1>8. Favours(p, r)
    BY <1>6, FavoursByQuote
  <1> HIDE DEF r
  <1>9. r.id \in DOMAIN rate => Favours(rate[r.id].pair, r)
    BY <1>4, <1>7, <1>8 DEF Names
  <1>10. PICK s, cs : s = pc'[a] /\ cs = calc'[a]
    OBVIOUS
  <1>11. Carries(s, dto[a], item[a], from[a], todo[a], cs, note[a])
    BY <1>2, <1>3, <1>5, <1>7, <1>9, <1>10, OwnWork DEF Carries
  <1> QED
    BY <1>1, <1>2, <1>10, <1>11, QuietWith

LEMMA RatesWriteWorks ==
    ASSUME IInv, NEW a \in Admins, RatesWrite(a)
    PROVE  IInv'
  <1>1. /\ UNCHANGED <<base, history, made, asked>> /\ DOMAIN alone' = Admins
        /\ held' = held \cup calc[a]
    BY DEF RatesWrite, IInv, Locals
  <1>2. \A q \in calc[a] : /\ q \in Computed /\ q.id \in 1..made
                           /\ q.id \in DOMAIN rate => Favours(rate[q.id].pair, q)
    BY OwnWork DEF Carries
  <1>3. /\ DOMAIN rate' = DOMAIN rate
        /\ \A i \in DOMAIN rate :
              \/ rate'[i] = rate[i]
              \/ \E q \in calc[a] :
                    /\ q.id = i
                    /\ rate'[i] = [pair |-> rate[i].pair, buyRate |-> q.buyRate,
                                   sellRate |-> q.sellRate, isActive |-> rate[i].isActive]
    BY DEF RatesWrite
  <1>4. \A i \in DOMAIN rate : rate[i] \in RateRow /\ GoodRate(i)
    BY DEF IInv, Tables, GoodRate
  <1>5. \A i \in DOMAIN rate' : rate'[i].pair = rate[i].pair
    BY <1>3
  <1>6. \A i \in DOMAIN rate' :
           /\ rate'[i] \in RateRow
           /\ Favours(rate'[i].pair, rate'[i])
           /\ [id |-> i, buyRate |-> rate'[i].buyRate, sellRate |-> rate'[i].sellRate] \in held'
    <2> SUFFICES ASSUME NEW i \in DOMAIN rate
                 PROVE  /\ rate'[i] \in RateRow
                        /\ Favours(rate'[i].pair, rate'[i])
                        /\ [id |-> i, buyRate |-> rate'[i].buyRate,
                            sellRate |-> rate'[i].sellRate] \in held'
      BY <1>3
    <2>1. CASE rate'[i] = rate[i]
      BY <1>1, <1>4, <2>1 DEF GoodRate
    <2>2. ASSUME NEW q \in calc[a], q.id = i,
                 rate'[i] = [pair |-> rate[i].pair, buyRate |-> q.buyRate,
                             sellRate |-> q.sellRate, isActive |-> rate[i].isActive]
          PROVE  /\ rate'[i] \in RateRow
                 /\ Favours(rate'[i].pair, rate'[i])
                 /\ [id |-> i, buyRate |-> rate'[i].buyRate,
                     sellRate |-> rate'[i].sellRate] \in held'
      <3>1. /\ rate'[i].pair = rate[i].pair /\ rate'[i].buyRate = q.buyRate
            /\ rate'[i].sellRate = q.sellRate
        BY <2>2
      <3>2. q \in Computed /\ Favours(rate[i].pair, q)
        BY <1>2, <2>2
      <3>3. rate'[i] \in RateRow
        BY <1>4, <2>2, <3>2 DEF RateRow, Computed
      <3>4. Favours(rate'[i].pair, rate'[i])
        BY <3>1, <3>2, FavoursByQuote
      <3>5. q = [id |-> i, buyRate |-> rate'[i].buyRate, sellRate |-> rate'[i].sellRate]
        BY <2>2, <3>1, <3>2 DEF Computed
      <3> QED
        BY <1>1, <3>3, <3>4, <3>5
    <2> QED
      BY <1>3, <2>1, <2>2
  <1>7. Grows
    BY <1>1, <1>3, <1>5 DEF Grows, IInv, Tables
  <1>8. \A i \in DOMAIN rate' : GoodRate(i)'
    BY <1>1, <1>3, <1>4, <1>5, <1>6 DEF GoodRate
  <1>9. Tables'
    BY <1>1, <1>2, <1>3, <1>8 DEF IInv, Tables
  <1>10. Locals' /\ OnlyOf(a)
    BY <1>1 DEF IInv, Locals, RatesWrite, Goto, OnlyOf, StepNames, locals
  <1>11. /\ pc'[a] = "historyRead" /\ dto'[a] = dto[a] /\ item'[a] = item[a] /\ from'[a] = from[a]
         /\ todo'[a] = todo[a] /\ calc'[a] = calc[a] /\ note'[a] = note[a]
    BY DEF RatesWrite, Goto, IInv, Locals, locals
  <1>12. Carries("historyRead", dto[a], item[a], from[a], todo[a], calc[a], note[a])
    BY OwnWork DEF Carries
  <1>13. Working(a)'
    BY <1>7, <1>11, <1>12, WorksWith
  <1> QED
    BY <1>7, <1>9, <1>10, <1>13, StepWorks

LEMMA HistoryReadWorks ==
    ASSUME IInv, NEW a \in Admins, HistoryRead(a)
    PROVE  IInv'
  <1>1. Locals' /\ OnlyOf(a) /\ asked' \in 0..MaxRequests
    BY DEF IInv, Locals, Tables, HistoryRead, Goto, Set, OnlyOf, StepNames, ghosts
  <1>2. /\ dto'[a] = dto[a] /\ item'[a] = item[a] /\ from'[a] = from[a] /\ todo'[a] = todo[a]
        /\ UNCHANGED <<base, rate, history, made, held>> /\ pc[a] = "historyRead"
        /\ calc'[a] \subseteq calc[a]
    BY DEF HistoryRead, Set, IInv, Locals, rows, ghosts
  <1>3. PICK q \in calc[a] :
           IF q.id \in DOMAIN rate
           THEN /\ note'[a] = [id |-> q.id, buyRate |-> rate[q.id].buyRate,
                               sellRate |-> rate[q.id].sellRate,
                               isActive |-> rate[q.id].isActive]
                /\ pc'[a] = "historyWrite"
           ELSE note'[a] = note[a] /\ pc'[a] = pc[a]
    BY DEF HistoryRead, Set, Goto, IInv, Locals
  <1>4. PICK s, cs, nt : s = pc'[a] /\ cs = calc'[a] /\ nt = note'[a]
    OBVIOUS
  <1>5. /\ nt \in NoteRow
        /\ s \in {"historyRead", "historyWrite"}
        /\ s = "historyWrite" =>
              [id |-> nt.id, buyRate |-> nt.buyRate, sellRate |-> nt.sellRate] \in held
    <2>1. note[a] \in NoteRow
      BY OwnWork DEF Carries
    <2>2. q.id \in DOMAIN rate => GoodRate(q.id) /\ q.id \in Ids
      BY Given DEF IInv
    <2>3. CASE q.id \in DOMAIN rate
      BY <1>3, <1>4, <2>2, <2>3 DEF GoodRate, RateRow, NoteRow
    <2>4. CASE q.id \notin DOMAIN rate
      BY <1>2, <1>3, <1>4, <2>1, <2>4
    <2> QED
      BY <2>3, <2>4
  <1>6. Carries(s, dto[a], item[a], from[a], todo[a], cs, nt)
    BY <1>2, <1>4, <1>5, OwnWork DEF Carries
  <1> QED
    BY <1>1, <1>2, <1>4, <1>6, QuietWith

LEMMA HistoryWriteWorks ==
    ASSUME IInv, NEW a \in Admins, HistoryWrite(a)
    PROVE  IInv'
  <1>1. /\ UNCHANGED <<base, rate, made, asked, held>> /\ DOMAIN alone' = Admins
        /\ pc[a] = "historyWrite" /\ history' = history \cup {note[a]}
        /\ note[a].id \in DOMAIN rate
    BY DEF HistoryWrite, ghosts, IInv, Locals
  <1>2. note[a] \in NoteRow
        /\ [id |-> note[a].id, buyRate |-> note[a].buyRate, sellRate |-> note[a].sellRate] \in held
    BY <1>1, OwnWork DEF Carries
  <1>3. note[a] \in HistoryRow
    <2>1. note[a].id \in Ids
      BY <1>1, Given DEF IInv
    <2> QED
      BY <1>2, <2>1 DEF NoteRow, HistoryRow
  <1>4. Grows
    BY <1>1 DEF Grows, IInv, Tables
  <1>5. Tables'
    BY <1>1, <1>2, <1>3 DEF IInv, Tables, GoodRate
  <1>6. Locals' /\ OnlyOf(a)
    BY <1>1 DEF IInv, Locals, HistoryWrite, Goto, OnlyOf, StepNames, locals
  <1>7. /\ pc'[a] = "historyRead" /\ dto'[a] = dto[a] /\ item'[a] = item[a] /\ from'[a] = from[a]
        /\ todo'[a] = todo[a] /\ calc'[a] = calc[a] /\ note'[a] = note[a]
    BY DEF HistoryWrite, Goto, IInv, Locals, locals
  <1>8. Carries("historyRead", dto[a], item[a], from[a], todo[a], calc[a], note[a])
    BY OwnWork DEF Carries
  <1>9. Working(a)'
    BY <1>4, <1>7, <1>8, WorksWith
  <1> QED
    BY <1>4, <1>5, <1>6, <1>9, StepWorks

LEMMA CreateFromWorks ==
    ASSUME IInv, NEW a \in Admins, CreateFrom(a)
    PROVE  IInv'
  <1> DEFINE p == item[a].pair
  <1>1. /\ DOMAIN alone' = Admins /\ asked' \in 0..MaxRequests
        /\ UNCHANGED <<base, rate, history, made, held>> /\ p[1] \in DOMAIN base
    BY BeginKeepsNames DEF CreateFrom, rows, IInv, Tables
  <1>2. Locals' /\ OnlyOf(a)
    BY <1>1 DEF IInv, Locals, CreateFrom, Goto, Set, OnlyOf, StepNames
  <1>3. /\ pc'[a] = "createTo" /\ dto'[a] = dto[a] /\ item'[a] = item[a]
        /\ from'[a] = base[p[1]] /\ todo'[a] = todo[a] /\ calc'[a] = calc[a]
        /\ note'[a] = note[a]
    BY DEF CreateFrom, Goto, Set, IInv, Locals
  <1>4. base[p[1]] \in BaseRow /\ base[p[1]].sheet \in Sheets[p[1]]
    BY <1>1 DEF IInv, Tables
  <1>5. Carries("createTo", dto[a], item[a], base[p[1]], todo[a], calc[a], note[a])
    BY <1>1, <1>4, OwnWork DEF Carries
  <1> QED
    BY <1>1, <1>2, <1>3, <1>5, QuietWith

LEMMA CreateToWorks ==
    ASSUME IInv, NEW a \in Admins, CreateTo(a)
    PROVE  IInv'
  <1> DEFINE p == item[a].pair
             q == Quote(p, from[a].sheet, base[p[2]].sheet)
  <1>1. /\ asked' \in 0..MaxRequests /\ pc[a] = "createTo" /\ p[2] \in DOMAIN base
        /\ UNCHANGED <<base, rate, history, made, held>>
    BY DEF CreateTo, rows, ghosts, IInv, Tables
  <1>2. Locals' /\ OnlyOf(a)
    BY DEF IInv, Locals, CreateTo, Goto, Set, OnlyOf, StepNames, ghosts
  <1>3. PICK nt : nt = [id |-> 0, buyRate |-> q.buyRate, sellRate |-> q.sellRate,
                        isActive |-> TRUE]
    OBVIOUS
  <1>4. /\ pc'[a] = "createInsert" /\ dto'[a] = dto[a] /\ item'[a] = item[a]
        /\ from'[a] = from[a] /\ todo'[a] = todo[a] /\ calc'[a] = calc[a]
        /\ note'[a] = nt
    BY <1>3 DEF CreateTo, Goto, Set, IInv, Locals
  <1>5. item[a] \in Item /\ from[a].sheet \in Sheets[p[1]] /\ p[1] \in DOMAIN base
    BY <1>1, OwnWork DEF Carries
  <1>6. p \in Pairs /\ base[p[2]].sheet \in Sheets[p[2]]
    BY <1>1, <1>5 DEF Item, IInv, Tables
  <1>7. q.buyRate \in Int /\ q.sellRate \in Int /\ Favours(p, q)
    BY <1>5, <1>6, SheetsQuote
  <1> HIDE DEF q
  <1>8. nt \in NoteRow /\ nt.buyRate = q.buyRate /\ nt.sellRate = q.sellRate
    BY <1>3, <1>7 DEF NoteRow
  <1>9. Favours(p, nt)
    BY <1>7, <1>8, FavoursByQuote
  <1>10. Ends(p) \subseteq DOMAIN base
    BY <1>1, <1>5 DEF Ends
  <1>11. Carries("createInsert", dto[a], item[a], from[a], todo[a], calc[a], nt)
    BY <1>8, <1>9, <1>10, OwnWork DEF Carries
  <1> QED
    BY <1>1, <1>2, <1>4, <1>11, QuietWith

LEMMA CreateInsertWorks ==
    ASSUME IInv, NEW a \in Admins, CreateInsert(a)
    PROVE  IInv'
  <1> DEFINE n == made + 1
             p == item[a].pair
             r == [pair |-> p, buyRate |-> note[a].buyRate,
                   sellRate |-> note[a].sellRate, isActive |-> note[a].isActive]
             h == [id |-> n, buyRate |-> note[a].buyRate, sellRate |-> note[a].sellRate]
             m == [id |-> n, buyRate |-> note[a].buyRate,
                   sellRate |-> note[a].sellRate, isActive |-> note[a].isActive]
  <1>1. /\ UNCHANGED <<base, history, asked>> /\ DOMAIN alone' = Admins
        /\ pc[a] = "createInsert" /\ made < MaxRates /\ made' = n
        /\ rate' = With(rate, n, r) /\ held' = held \cup {h}
    BY DEF CreateInsert, IInv, Locals
  <1>2. Locals' /\ OnlyOf(a)
    BY DEF IInv, Locals, CreateInsert, Goto, Set, OnlyOf, StepNames
  <1>3. /\ pc'[a] = "noteWrite" /\ dto'[a] = dto[a] /\ item'[a] = item[a]
        /\ from'[a] = from[a] /\ todo'[a] = todo[a] /\ calc'[a] = calc[a]
        /\ note'[a] = m
    BY DEF CreateInsert, Goto, Set, IInv, Locals
  <1>4. /\ item[a] \in Item /\ note[a] \in NoteRow /\ Ends(p) \subseteq DOMAIN base
        /\ Favours(p, note[a])
    BY <1>1, OwnWork DEF Carries
  <1>5. n \in Ids /\ n \in 0..MaxRates /\ made \in Nat /\ n \notin DOMAIN rate /\ n \in 1..n
    BY <1>1, Given DEF IInv
  <1>6. /\ r \in RateRow /\ r.pair = p /\ h \in Computed /\ h.id = n /\ m \in NoteRow
        /\ r.buyRate = note[a].buyRate /\ r.sellRate = note[a].sellRate
        /\ h = [id |-> n, buyRate |-> r.buyRate, sellRate |-> r.sellRate]
        /\ h = [id |-> m.id, buyRate |-> m.buyRate, sellRate |-> m.sellRate]
    BY <1>4, <1>5 DEF RateRow, Computed, NoteRow, Item
  <1>7. Favours(p, r)
    BY <1>4, <1>6, FavoursByQuote
  <1> HIDE DEF r, h, m
  <1>8. /\ DOMAIN rate' = DOMAIN rate \cup {n} /\ rate'[n] = r
        /\ \A i \in DOMAIN rate : rate'[i] = rate[i]
    BY <1>1, <1>5 DEF With
  <1>9. 1..made \subseteq 1..made' /\ made <= made' /\ made' \in Nat /\ ~(n <= made)
    BY <1>1, <1>5
  <1>10. Grows
    BY <1>1, <1>8, <1>9 DEF Grows
  <1>11. \A i \in DOMAIN rate' : GoodRate(i)'
    <2>1. \A i \in DOMAIN rate : GoodRate(i)
      BY DEF IInv, Tables
    <2> QED
      BY <1>1, <1>4, <1>6, <1>7, <1>8, <2>1 DEF GoodRate
  <1>12. Tables'
    BY <1>1, <1>5, <1>6, <1>8, <1>9, <1>11 DEF IInv, Tables
  <1>13. Working(a)'
    <2>1. Carries("idle", dto[a], item[a], from[a], todo[a], calc[a], m)
      BY <1>6, OwnWork DEF Carries
    <2>2. PICK ds, it, fr, td, cs, nt :
             /\ ds = dto[a] /\ it = item[a] /\ fr = from[a] /\ td = todo[a]
             /\ cs = calc[a] /\ nt = m
      OBVIOUS
    <2>3. Carries("idle", ds, it, fr, td, cs, nt)'
      BY <1>10, <2>1, <2>2, CarriesOn DEF IInv
    <2> QED
      BY <1>1, <1>3, <1>6, <2>2, <2>3 DEF Working, Carries
  <1> QED
    BY <1>2, <1>10, <1>12, <1>13, StepWorks

LEMMA NoteWriteWorks ==
    ASSUME IInv, NEW a \in Admins, NoteWrite(a)
    PROVE  IInv'
  <1>1. /\ UNCHANGED <<base, rate, made, asked, held>> /\ DOMAIN alone' = Admins
        /\ pc[a] = "noteWrite" /\ End(a)
        /\ history' = IF note[a].id \in DOMAIN rate THEN history \cup {note[a]} ELSE history
    BY DEF NoteWrite, ghosts, IInv, Locals
  <1>2. note[a] \in NoteRow
        /\ [id |-> note[a].id, buyRate |-> note[a].buyRate, sellRate |-> note[a].sellRate] \in held
    BY <1>1, OwnWork DEF Carries
  <1>3. ASSUME note[a].id \in DOMAIN rate PROVE note[a] \in HistoryRow
    <2>1. note[a].id \in Ids
      BY <1>3, Given DEF IInv
    <2> QED
      BY <1>2, <2>1 DEF NoteRow, HistoryRow
  <1>4. Grows
    BY <1>1 DEF Grows, IInv, Tables
  <1>5. Tables'
    BY <1>1, <1>2, <1>3 DEF IInv, Tables, GoodRate
  <1> QED
    BY <1>1, <1>4, <1>5, EndsAlone, StepWorks

LEMMA SwitchWorks ==
    ASSUME IInv, NEW a \in Admins, Switch(a)
    PROVE  IInv'
  <1> DEFINE i == note[a].id
  <1>1. /\ UNCHANGED <<base, history, made, asked, held>> /\ DOMAIN alone' = Admins
        /\ pc[a] = "switch" /\ i \in DOMAIN rate
        /\ rate' = With(rate, i, [rate[i] EXCEPT !.isActive = note[a].isActive])
    BY DEF Switch, ghosts, IInv, Locals
  <1>2. Locals' /\ OnlyOf(a)
    BY <1>1 DEF IInv, Locals, Switch, Goto, OnlyOf, StepNames, locals
  <1>3. /\ pc'[a] = "noteWrite" /\ dto'[a] = dto[a] /\ item'[a] = item[a] /\ from'[a] = from[a]
        /\ todo'[a] = todo[a] /\ calc'[a] = calc[a] /\ note'[a] = note[a]
    BY DEF Switch, Goto, IInv, Locals, locals
  <1>4. \A j \in DOMAIN rate : GoodRate(j) /\ rate[j] \in RateRow
    BY DEF IInv, Tables, GoodRate
  <1>5. note[a].isActive \in BOOLEAN
    BY OwnWork DEF Carries, NoteRow
  <1>6. /\ DOMAIN rate' = DOMAIN rate
        /\ \A j \in DOMAIN rate : /\ rate'[j] \in RateRow
                                  /\ rate'[j].pair = rate[j].pair
                                  /\ rate'[j].buyRate = rate[j].buyRate
                                  /\ rate'[j].sellRate = rate[j].sellRate
    BY <1>1, <1>4, <1>5 DEF With, RateRow
  <1>7. \A j \in DOMAIN rate : Favours(rate'[j].pair, rate'[j])
    BY <1>4, <1>6, FavoursByQuote DEF GoodRate
  <1>8. \A j \in DOMAIN rate' : GoodRate(j)'
    BY <1>1, <1>4, <1>6, <1>7 DEF GoodRate
  <1>9. Grows
    BY <1>1, <1>6 DEF Grows, IInv, Tables
  <1>10. Tables'
    BY <1>1, <1>6, <1>8 DEF IInv, Tables
  <1>11. Carries("noteWrite", dto[a], item[a], from[a], todo[a], calc[a], note[a])
    BY <1>1, OwnWork DEF Carries
  <1>12. Working(a)'
    BY <1>3, <1>9, <1>11, WorksWith
  <1> QED
    BY <1>2, <1>9, <1>10, <1>12, StepWorks

LEMMA DestroyWorks ==
    ASSUME IInv, NEW a \in Admins, Destroy(a)
    PROVE  IInv'
  <1>1. /\ UNCHANGED <<base, made, asked, held>> /\ DOMAIN alone' = Admins /\ End(a)
    BY DEF Destroy, ghosts, IInv, Locals
  <1>2. /\ DOMAIN rate' \subseteq DOMAIN rate /\ history' \subseteq history
        /\ \A i \in DOMAIN rate' : rate'[i] = rate[i]
    BY DEF Destroy, Without
  <1>3. Grows
    BY <1>1, <1>2 DEF Grows, IInv, Tables
  <1>4. Tables'
    BY <1>1, <1>2 DEF IInv, Tables, GoodRate
  <1> QED
    BY <1>1, <1>3, <1>4, EndsAlone, StepWorks

\* Everything that only ends a request.
LEMMA EndingsWork ==
    ASSUME IInv, NEW a \in Admins,
           \/ Fail(a) \/ RatesWriteRefused(a) \/ UpdateDone(a) \/ HistoryRefused(a)
           \/ CreateRefused(a) \/ SwitchRefused(a)
    PROVE  IInv'
  <1>1. /\ End(a) /\ DOMAIN alone' = Admins
        /\ UNCHANGED <<base, rate, history, made, asked, held>>
    BY DEF Fail, RatesWriteRefused, UpdateDone, HistoryRefused, CreateRefused,
       SwitchRefused, rows, ghosts, IInv, Locals
  <1> QED
    BY <1>1, EndWorks

LEMMA InitWorks == Init => IInv
  <1> SUFFICES ASSUME Init PROVE IInv
    OBVIOUS
  <1>1. PICK s \in SheetsOf(Seeded) :
           base = [c \in Seeded |-> [sheet |-> s[c], isActive |-> TRUE]]
    BY DEF Init
  <1>2. \A c \in Seeded : c \in Currencies /\ s[c] \in Sheets[c] /\ s[c] \in Sheet
    BY ListedAssumption, SheetsAssumption DEF SheetsOf
  <1>3. DOMAIN base = Seeded
    BY <1>1
  <1>4. \A c \in Seeded : base[c] \in BaseRow /\ base[c].sheet \in Sheets[c]
    BY <1>1, <1>2 DEF BaseRow
  <1>5. Locals
    BY DEF Init, Locals, StepNames
  <1>6. Tables
    <2>1. DOMAIN rate = {} /\ held = {} /\ history = {} /\ made = 0 /\ asked = 0
      BY DEF Init
    <2>2. DOMAIN base \subseteq Currencies
      BY <1>2, <1>3
    <2> QED
      BY <1>3, <1>4, <2>1, <2>2, BoundsAssumption DEF Tables
  <1>7. ASSUME NEW a \in Admins PROVE Working(a)
    BY NothingIsCarried DEF Init, Working
  <1> QED
    BY <1>5, <1>6, <1>7 DEF IInv

LEMMA NextWorks == IInv /\ [Next]_vars => IInv'
  <1> SUFFICES ASSUME IInv, [Next]_vars PROVE IInv'
    OBVIOUS
  <1>1. CASE UNCHANGED vars
    BY <1>1 DEF vars, rows, locals, ghosts, IInv, Locals, Tables, GoodRate, Working,
       Carries, Names
  <1>2. ASSUME NEW a \in Admins, Request(a) PROVE IInv'
    <2>1. ASSUME NEW c \in Currencies, NEW s \in Sheets[c], NEW act \in BOOLEAN,
                 CreateBaseFind(a, c, s, act)
          PROVE  IInv'
      BY <2>1, CreateBaseFindWorks
    <2>2. ASSUME NEW cs \in Batches \cap SUBSET DOMAIN base, NEW s \in SheetsOf(cs),
                 NEW act \in [cs -> BOOLEAN], UpdateBasesRead(a, cs, s, act)
          PROVE  IInv'
      BY <2>2, UpdateBasesReadWorks
    <2>3. ASSUME NEW p \in Listed, CreateFind(a, p) PROVE IInv'
      BY <2>3, ListedAssumption, CreateFindWorks
    <2>4. ASSUME NEW i \in DOMAIN rate, DestroyFind(a, i) PROVE IInv'
      BY <2>4, DestroyFindWorks
    <2>5. ASSUME NEW i \in DOMAIN rate, NEW act \in BOOLEAN, SwitchFind(a, i, act)
          PROVE  IInv'
      BY <2>5, SwitchFindWorks
    <2> QED
      BY <1>2, <2>1, <2>2, <2>3, <2>4, <2>5 DEF Request
  <1>3. ASSUME NEW a \in Admins, Statement(a) PROVE IInv'
    BY <1>3, CreateBaseInsertWorks, UpdateBasesWriteWorks, RatesListWorks, DeriveFromWorks,
       DeriveToWorks, RatesWriteWorks, HistoryReadWorks, HistoryWriteWorks, CreateFromWorks,
       CreateToWorks, CreateInsertWorks, NoteWriteWorks, SwitchWorks, DestroyWorks,
       EndingsWork
    DEF Statement
  <1>4. ASSUME NEW a \in Admins, Fail(a) PROVE IInv'
    BY <1>4, EndingsWork
  <1> QED
    BY <1>1, <1>2, <1>3, <1>4 DEF Next

LEMMA IInvHolds == Spec => []IInv
  BY InitWorks, NextWorks, PTL DEF Spec

\* Every variable has its type in every behaviour, and every base rate is one of
\* the sheets somebody submitted for its currency.
THEOREM RatesHold == Spec => []TypeCorrect
  <1>1. IInv => TypeCorrect
    <2> SUFFICES ASSUME IInv PROVE TypeCorrect
      OBVIOUS
    <2>1. \A i \in DOMAIN rate : rate[i] \in RateRow
      BY DEF IInv, Tables, GoodRate
    <2>2. \A a \in Admins : /\ dto[a] \in SUBSET Dto /\ item[a] \in Item
                            /\ from[a] \in BaseRow /\ todo[a] \in SUBSET Item
                            /\ calc[a] \in SUBSET Computed /\ note[a] \in NoteRow
      BY OwnWork DEF Carries
    <2>3. NoteRow = HistoryRow \cup [id : {0}, buyRate : Int, sellRate : Int,
                                     isActive : BOOLEAN]
      BY DEF NoteRow, HistoryRow
    <2>4. dto \in [Admins -> SUBSET Dto] /\ item \in [Admins -> Item]
          /\ from \in [Admins -> BaseRow] /\ todo \in [Admins -> SUBSET Item]
          /\ calc \in [Admins -> SUBSET Computed] /\ note \in [Admins -> NoteRow]
      BY <2>2 DEF IInv, Locals
    <2> QED
      BY <2>1, <2>3, <2>4 DEF IInv, Locals, Tables, TypeCorrect, StepNames
  <1> QED
    BY <1>1, IInvHolds, PTL

\* If every sheet that is ever submitted brackets one price of its currency, no
\* stored rate of a pair gives a customer more than the cross price of the two,
\* but for the pairs at the official rate and those between USD and USDT.
THEOREM RowsHold == Spec => []RowsFavourHouse
  <1>1. IInv => RowsFavourHouse
    BY DEF IInv, Tables, GoodRate, Favours, RowsFavourHouse
  <1> QED
    BY <1>1, IInvHolds, PTL

\* For every vector of prices: at base rates that quote the prices exactly, the
\* formulas of a pair, but for USD with USDT, are the cross rate of the two.
\* It is a fact about the tables of formulas; no statement has a part in it.
THEOREM FormulasHold == Spec => []FormulasAreCrossRates
  <1>1. FormulasAreCrossRates
    <2> SUFFICES ASSUME NEW p \in Pairs \ Inverted, Exact(p[1]), Exact(p[2])
                 PROVE  LET f == base[p[1]].sheet
                            t == base[p[2]].sheet
                        IN  /\ calculationMap(p, f, t) = CrossRate(p)
                            /\ "USDT" \notin Ends(p) => LegacyFormula(p, f, t) = CrossRate(p)
      BY DEF FormulasAreCrossRates
    <2>1. p = <<p[1], p[2]>> /\ p[1] \in Currencies /\ p[2] \in Currencies /\ p[1] # p[2]
      BY PairIsTwo
    <2>2. /\ calculationMap(p, FairSheet(p[1]), FairSheet(p[2])) = CrossRate(p)
          /\ p[1] # "USDT" /\ p[2] # "USDT" =>
                LegacyFormula(p, FairSheet(p[1]), FairSheet(p[2])) = CrossRate(p)
      BY <2>1, FormulaIsCrossRate
    <2> QED
      BY <2>2 DEF Exact, Ends
  <1> QED
    BY <1>1, PTL

\* A history row states two rates its rate had together at one time, however the
\* statements of other requests fall between the read and the write.
THEOREM HistoryHolds == Spec => []HistoryWasHeld
  <1>1. IInv => HistoryWasHeld
    BY DEF IInv, Tables, HistoryWasHeld
  <1> QED
    BY <1>1, IInvHolds, PTL

-----------------------------------------------------------------------------
(***************************************************************************)
(* Why a rate is the quote of the base rates as they are.  A request that  *)
(* derives rates is alone, and then what it holds is fresh, or it is not,  *)
(* and then the currencies it touches are marked.                          *)
(***************************************************************************)
Updating(a) == pc[a] \in {"ratesList", "derive", "deriveTo", "ratesWrite"}
Quoting == {"derive", "deriveTo", "ratesWrite"}

IsQuote(p, q) ==
    LET now == Quote(p, base[p[1]].sheet, base[p[2]].sheet)
    IN  q.buyRate = now.buyRate /\ q.sellRate = now.sellRate
Live(p) == base[p[1]].isActive /\ base[p[2]].isActive
Among(p, ds) == Ends(p) \cap {d.currency : d \in ds} # {}

\* An update works only on the rates of the currencies it submits.
Aimed(s, ds, it, td, cs) ==
    s \in Quoting =>
        /\ \A t \in td : Among(t.pair, ds)
        /\ \A q \in cs : q.id \in DOMAIN rate => Among(rate[q.id].pair, ds)
        /\ s = "deriveTo" => Among(it.pair, ds)

\* A request that is alone holds the quotes of the base rates as they are, and
\* an update leaves out none of the rates it has to write.
Fresh(s, ds, it, fr, td, cs, nt) ==
    /\ s \in Quoting =>
          /\ \A q \in cs : q.id \in DOMAIN rate => IsQuote(rate[q.id].pair, q)
          /\ \A i \in DOMAIN rate :
                Among(rate[i].pair, ds) /\ Live(rate[i].pair) =>
                    \/ \E q \in cs : q.id = i
                    \/ \E t \in td : t.id = i
                    \/ s = "deriveTo" /\ it.id = i
    /\ s \in {"deriveTo", "createTo"} => fr = base[it.pair[1]]
    /\ s = "ratesWrite" => td = {}
    /\ s = "createInsert" => IsQuote(it.pair, nt)

OwnAimed(a) == Aimed(pc[a], dto[a], item[a], todo[a], calc[a])
OwnFresh(a) == Fresh(pc[a], dto[a], item[a], from[a], todo[a], calc[a], note[a])
OwnClean(a) == calc[a] # {} => pc[a] \in Quoting \cup {"historyRead", "historyWrite"}

\* A rate that nothing is said to be wrong with.
Settled(i) ==
    /\ Ends(rate[i].pair) \cap spoiled = {}
    /\ Live(rate[i].pair)
    /\ \A a \in Admins : Updating(a) => Submitted(a) \cap Ends(rate[i].pair) = {}

GInv ==
    /\ \A a \in Admins : OwnAimed(a) /\ OwnClean(a)
    /\ \A a \in Admins : Deriving(a) /\ alone[a] =>
          OwnFresh(a) /\ \A b \in Admins \ {a} : ~Deriving(b)
    /\ \A a \in Admins : Deriving(a) /\ ~alone[a] => Touches(a) \subseteq spoiled
    /\ \A i \in DOMAIN rate : Settled(i) => IsQuote(rate[i].pair, rate[i])

\* The tables do not change under the rates that are there.
Steady ==
    /\ DOMAIN base \subseteq DOMAIN base' /\ \A c \in DOMAIN base : base'[c] = base[c]
    /\ \A i \in DOMAIN rate' :
          /\ i \in DOMAIN rate
          /\ rate'[i].pair = rate[i].pair
          /\ rate'[i].buyRate = rate[i].buyRate /\ rate'[i].sellRate = rate[i].sellRate

LEMMA AimedStays ==
    ASSUME Grows, NEW s, NEW ds, NEW it, NEW fr, NEW td, NEW cs, NEW nt,
           made \in Nat, Carries(s, ds, it, fr, td, cs, nt), Aimed(s, ds, it, td, cs)
    PROVE  Aimed(s, ds, it, td, cs)'
  <1>1. \A q \in cs : q.id \in 1..made
    BY DEF Carries
  <1>2. \A q \in cs : q.id \in DOMAIN rate' =>
                         q.id \in DOMAIN rate /\ rate'[q.id].pair = rate[q.id].pair
    BY <1>1 DEF Grows
  <1> QED
    BY <1>2 DEF Aimed

LEMMA QuoteStays ==
    ASSUME Steady, NEW p, Ends(p) \subseteq DOMAIN base
    PROVE  /\ Live(p)' <=> Live(p)
           /\ \A q : IsQuote(p, q)' <=> IsQuote(p, q)
  <1>1. base'[p[1]] = base[p[1]] /\ base'[p[2]] = base[p[2]]
    BY DEF Steady, Ends
  <1> QED
    BY <1>1 DEF Live, IsQuote

\* Rates keep their quotes and their pairs in a steady step.
LEMMA RatesStay ==
    ASSUME Tables, Steady, NEW i \in DOMAIN rate'
    PROVE  /\ i \in DOMAIN rate /\ rate'[i].pair = rate[i].pair
           /\ Live(rate[i].pair)' <=> Live(rate[i].pair)
           /\ IsQuote(rate[i].pair, rate[i])' <=> IsQuote(rate[i].pair, rate[i])
           /\ \A q : IsQuote(rate[i].pair, q)' <=> IsQuote(rate[i].pair, q)
  <1>1. /\ i \in DOMAIN rate /\ rate'[i].pair = rate[i].pair
        /\ rate'[i].buyRate = rate[i].buyRate /\ rate'[i].sellRate = rate[i].sellRate
    BY DEF Steady
  <1>2. PICK p : p = rate[i].pair
    OBVIOUS
  <1>3. Ends(p) \subseteq DOMAIN base
    BY <1>1, <1>2 DEF Tables, GoodRate
  <1>4. (Live(p)' <=> Live(p)) /\ \A q : IsQuote(p, q)' <=> IsQuote(p, q)
    BY <1>3, QuoteStays
  <1> QED
    BY <1>1, <1>2, <1>4 DEF Live, IsQuote

LEMMA FreshStays ==
    ASSUME Tables, Steady, NEW s, NEW ds, NEW it, NEW fr, NEW td, NEW cs, NEW nt,
           Carries(s, ds, it, fr, td, cs, nt), Fresh(s, ds, it, fr, td, cs, nt)
    PROVE  Fresh(s, ds, it, fr, td, cs, nt)'
  <1>1. s \in {"deriveTo", "createTo"} => base'[it.pair[1]] = base[it.pair[1]]
    BY DEF Carries, Names, Ends, Steady
  <1>2. s = "createInsert" => (IsQuote(it.pair, nt)' <=> IsQuote(it.pair, nt))
    BY QuoteStays DEF Carries
  <1>3. \A i \in DOMAIN rate' :
           /\ i \in DOMAIN rate /\ rate'[i].pair = rate[i].pair
           /\ Live(rate[i].pair)' <=> Live(rate[i].pair)
           /\ \A q : IsQuote(rate[i].pair, q)' <=> IsQuote(rate[i].pair, q)
    BY RatesStay
  <1>4. s \in Quoting => \A q \in cs : q.id \in DOMAIN rate' => IsQuote(rate[q.id].pair, q)'
    BY <1>3 DEF Fresh
  <1>5. s \in Quoting =>
          \A i \in DOMAIN rate' :
                Among(rate'[i].pair, ds) /\ Live(rate[i].pair)' =>
                    \/ \E q \in cs : q.id = i
                    \/ \E t \in td : t.id = i
                    \/ s = "deriveTo" /\ it.id = i
    BY <1>3 DEF Fresh
  <1> QED
    BY <1>1, <1>2, <1>4, <1>5 DEF Fresh

\* Where the other requests stand does not change.
LEMMA OthersStand ==
    ASSUME NEW a \in Admins, OnlyOf(a), NEW b \in Admins \ {a}
    PROVE  /\ Deriving(b)' <=> Deriving(b)
           /\ Updating(b)' <=> Updating(b)
           /\ Touches(b)' = Touches(b) /\ Submitted(b)' = Submitted(b)
           /\ OwnClean(b)' <=> OwnClean(b)
  BY DEF OnlyOf, Deriving, Updating, Touches, Submitted, OwnClean

LEMMA OthersAim ==
    ASSUME IInv, GInv, Grows, NEW a \in Admins, OnlyOf(a), NEW b \in Admins \ {a}
    PROVE  OwnAimed(b)'
  <1>1. PICK s, ds, it, fr, td, cs, nt :
           /\ s = pc[b] /\ ds = dto[b] /\ it = item[b] /\ fr = from[b]
           /\ td = todo[b] /\ cs = calc[b] /\ nt = note[b]
    OBVIOUS
  <1>2. Carries(s, ds, it, fr, td, cs, nt) /\ Aimed(s, ds, it, td, cs)
    BY <1>1 DEF IInv, Working, GInv, OwnAimed
  <1>3. Aimed(s, ds, it, td, cs)'
    BY <1>2, AimedStays DEF IInv, Tables
  <1> QED
    BY <1>1, <1>3 DEF OwnAimed, Aimed, OnlyOf

LEMMA OthersFresh ==
    ASSUME IInv, Steady, NEW a \in Admins, OnlyOf(a), NEW b \in Admins \ {a}, OwnFresh(b)
    PROVE  OwnFresh(b)'
  <1>1. PICK s, ds, it, fr, td, cs, nt :
           /\ s = pc[b] /\ ds = dto[b] /\ it = item[b] /\ fr = from[b]
           /\ td = todo[b] /\ cs = calc[b] /\ nt = note[b]
    OBVIOUS
  <1>2. Carries(s, ds, it, fr, td, cs, nt) /\ Fresh(s, ds, it, fr, td, cs, nt)
    BY <1>1 DEF IInv, Working, OwnFresh
  <1>3. Fresh(s, ds, it, fr, td, cs, nt)'
    BY <1>2, FreshStays DEF IInv
  <1> QED
    BY <1>1, <1>3 DEF OwnFresh, Fresh, OnlyOf

\* A steady step keeps every settled rate a quote, if an update that ends in it
\* leaves a mark on its currencies.
LEMMA RatesSettled ==
    ASSUME IInv, GInv, Steady, NEW a \in Admins, OnlyOf(a), spoiled \subseteq spoiled',
           Updating(a) => \/ Updating(a)' /\ Submitted(a)' = Submitted(a)
                          \/ Submitted(a) \subseteq spoiled'
    PROVE  \A i \in DOMAIN rate' : Settled(i)' => IsQuote(rate[i].pair, rate[i])'
  <1> SUFFICES ASSUME NEW i \in DOMAIN rate', Settled(i)' PROVE IsQuote(rate[i].pair, rate[i])'
    OBVIOUS
  <1>1. /\ i \in DOMAIN rate /\ rate'[i].pair = rate[i].pair
        /\ Live(rate[i].pair)' <=> Live(rate[i].pair)
        /\ IsQuote(rate[i].pair, rate[i])' <=> IsQuote(rate[i].pair, rate[i])
    BY RatesStay DEF IInv
  <1>2. Ends(rate[i].pair) \cap spoiled' = {} /\ Live(rate[i].pair)
    BY <1>1 DEF Settled
  <1>3. ASSUME NEW b \in Admins, Updating(b)
        PROVE  Submitted(b) \cap Ends(rate[i].pair) = {}
    <2>1. CASE b = a
      BY <1>1, <1>2, <1>3, <2>1 DEF Settled
    <2>2. CASE b # a
      BY <1>1, <1>3, <2>2, OthersStand DEF Settled
    <2> QED
      BY <2>1, <2>2
  <1>4. Settled(i)
    BY <1>2, <1>3 DEF Settled
  <1> QED
    BY <1>1, <1>4 DEF GInv

\* A step that begins no derivation and writes no quote.
LEMMA QuietGhosts ==
    ASSUME IInv, GInv, Grows, Steady, NEW a \in Admins, OnlyOf(a),
           alone' = alone, spoiled \subseteq spoiled',
           Deriving(a)' => Deriving(a) /\ Touches(a)' = Touches(a),
           Deriving(a)' /\ alone[a] => OwnFresh(a)',
           Updating(a) => \/ Updating(a)' /\ Submitted(a)' = Submitted(a)
                          \/ Submitted(a) \subseteq spoiled',
           OwnAimed(a)', OwnClean(a)'
    PROVE  GInv'
  <1>1. \A b \in Admins : OwnAimed(b)' /\ OwnClean(b)'
    BY OthersAim, OthersStand DEF GInv
  <1>2. \A b \in Admins : Deriving(b)' => Deriving(b) /\ Touches(b)' = Touches(b)
    BY OthersStand
  <1>3. ASSUME NEW b \in Admins, Deriving(b)', alone'[b]
        PROVE  OwnFresh(b)' /\ \A c \in Admins \ {b} : ~Deriving(c)'
    <2>1. Deriving(b) /\ alone[b]
      BY <1>2, <1>3
    <2>2. \A c \in Admins \ {b} : ~Deriving(c)'
      BY <1>2, <2>1 DEF GInv
    <2>3. OwnFresh(b)'
      BY <1>3, <2>1, OthersFresh DEF GInv
    <2> QED
      BY <2>2, <2>3
  <1>4. ASSUME NEW b \in Admins, Deriving(b)', ~alone'[b]
        PROVE  Touches(b)' \subseteq spoiled'
    BY <1>2, <1>4 DEF GInv
  <1>5. \A i \in DOMAIN rate' : Settled(i)' => IsQuote(rate[i].pair, rate[i])'
    BY RatesSettled
  <1> QED
    BY <1>1, <1>3, <1>4, <1>5 DEF GInv

\* A step of a request that derives no rate, before or after it.
LEMMA IdleGhosts ==
    ASSUME IInv, GInv, Grows, Steady, NEW a \in Admins, OnlyOf(a),
           alone' = alone, spoiled \subseteq spoiled',
           ~Deriving(a), ~Deriving(a)', OwnClean(a)'
    PROVE  GInv'
  <1>1. ~Updating(a)
    BY DEF Updating, Deriving
  <1>2. OwnAimed(a)'
    BY DEF OwnAimed, Aimed, Quoting, Deriving
  <1> QED
    BY <1>1, <1>2, QuietGhosts

LEMMA SameTables ==
    ASSUME IInv, UNCHANGED <<base, rate, made, held>>
    PROVE  Grows /\ Steady
  BY DEF IInv, Tables, Grows, Steady

LEMMA RequestGhosts ==
    ASSUME IInv, GInv, NEW a \in Admins, Request(a)
    PROVE  GInv'
  <1>1. /\ pc[a] = "idle" /\ calc' = calc
        /\ pc'[a] \in {"baseInsert", "basesWrite", "createFrom", "switch", "destroy"}
        /\ UNCHANGED <<base, rate, made, held, alone, spoiled>>
    BY DEF Request, CreateBaseFind, UpdateBasesRead, CreateFind, DestroyFind, SwitchFind,
       Ask, Goto, rows, ghosts, IInv, Locals
  <1>2. OnlyOf(a)
    BY DEF Request, CreateBaseFind, UpdateBasesRead, CreateFind, DestroyFind, SwitchFind,
       Goto, Set, OnlyOf, IInv, Locals
  <1>3. OwnClean(a)'
    BY <1>1 DEF GInv, OwnClean, Quoting
  <1>4. ~Deriving(a) /\ ~Deriving(a)'
    BY <1>1 DEF Deriving
  <1> QED
    BY <1>1, <1>2, <1>3, <1>4, SameTables, IdleGhosts

\* What End leaves behind.
LEMMA EndStands ==
    ASSUME IInv, NEW a \in Admins, End(a), DOMAIN alone' = Admins
    PROVE  ~Deriving(a)' /\ ~Updating(a)' /\ OwnClean(a)' /\ OwnAimed(a)' /\ OnlyOf(a)
  <1>1. pc'[a] = "idle" /\ calc'[a] = {} /\ OnlyOf(a)
    BY EndsAlone DEF End, Goto, Set, IInv, Locals
  <1> QED
    BY <1>1 DEF Deriving, Updating, OwnClean, OwnAimed, Aimed, Quoting

\* Requests that end after an update wrote base rates mark its currencies.
LEMMA EndingsGhosts ==
    ASSUME IInv, GInv, NEW a \in Admins,
           \/ Fail(a) \/ RatesWriteRefused(a) \/ UpdateDone(a) \/ HistoryRefused(a)
           \/ CreateRefused(a) \/ SwitchRefused(a)
    PROVE  GInv'
  <1>1. /\ End(a) /\ DOMAIN alone' = Admins /\ alone' = alone
        /\ UNCHANGED <<base, rate, made, held>>
    BY DEF Fail, RatesWriteRefused, UpdateDone, HistoryRefused, CreateRefused,
       SwitchRefused, rows, ghosts, IInv, Locals
  <1>2. spoiled \subseteq spoiled' /\ (Updating(a) => Submitted(a) \subseteq spoiled')
    BY DEF Fail, RatesWriteRefused, UpdateDone, HistoryRefused, CreateRefused,
       SwitchRefused, ghosts, Abandon, Updating
  <1>3. ~Deriving(a)' /\ OwnClean(a)' /\ OwnAimed(a)' /\ OnlyOf(a)
    BY <1>1, EndStands
  <1> QED
    BY <1>1, <1>2, <1>3, SameTables, QuietGhosts

\* Statements after the rates were written, and those of requests that compute
\* none.
LEMMA LaterGhosts ==
    ASSUME IInv, GInv, NEW a \in Admins,
           \/ HistoryRead(a) \/ HistoryWrite(a) \/ NoteWrite(a)
           \/ Switch(a) \/ Destroy(a) \/ CreateBaseInsert(a)
    PROVE  GInv'
  <1>1. /\ alone' = alone /\ spoiled' = spoiled /\ DOMAIN alone' = Admins
        /\ made' = made /\ held' = held /\ made \in Nat
    BY DEF HistoryRead, HistoryWrite, NoteWrite, Switch, Destroy, CreateBaseInsert, rows,
       ghosts, IInv, Locals, Tables
  <1>2. pc[a] \in {"historyRead", "historyWrite", "noteWrite", "switch", "destroy", "baseInsert"}
    BY DEF HistoryRead, HistoryWrite, NoteWrite, Switch, Destroy, CreateBaseInsert
  <1>3. /\ pc'[a] \in {"historyRead", "historyWrite", "noteWrite", "idle"}
        /\ calc'[a] # {} => pc'[a] \in {"historyRead", "historyWrite"}
        /\ OnlyOf(a)
    <2>1. CASE HistoryRead(a)
      BY <2>1 DEF HistoryRead, Goto, Set, OnlyOf, IInv, Locals
    <2>2. CASE HistoryWrite(a)
      BY <2>2 DEF HistoryWrite, Goto, locals, OnlyOf, IInv, Locals
    <2>3. CASE NoteWrite(a) \/ Destroy(a) \/ CreateBaseInsert(a)
      <3>1. End(a)
        BY <2>3 DEF NoteWrite, Destroy, CreateBaseInsert
      <3> QED
        BY <1>1, <3>1, EndsAlone DEF End, Goto, Set, IInv, Locals
    <2>4. CASE Switch(a)
      <3>1. pc[a] = "switch" /\ pc'[a] = "noteWrite" /\ calc' = calc
        BY <2>4 DEF Switch, Goto, locals, IInv, Locals
      <3>2. calc[a] = {}
        BY <3>1 DEF GInv, OwnClean, Quoting
      <3>3. OnlyOf(a)
        BY <2>4 DEF Switch, Goto, locals, OnlyOf, IInv, Locals
      <3> QED
        BY <3>1, <3>2, <3>3
    <2> QED
      BY <2>1, <2>2, <2>3, <2>4
  <1>4. /\ DOMAIN base \subseteq DOMAIN base' /\ \A c \in DOMAIN base : base'[c] = base[c]
    <2>1. CASE CreateBaseInsert(a)
      <3>1. PICK d \in dto[a] :
               base' = IF d.currency \in DOMAIN base THEN base
                       ELSE With(base, d.currency,
                                 [sheet |-> d.sheet, isActive |-> d.isActive])
        BY <2>1 DEF CreateBaseInsert
      <3> QED
        BY <3>1 DEF With
    <2>2. CASE ~CreateBaseInsert(a)
      BY <2>2 DEF HistoryRead, HistoryWrite, NoteWrite, Switch, Destroy, rows
    <2> QED
      BY <2>1, <2>2
  <1>5. \A i \in DOMAIN rate' :
          /\ i \in DOMAIN rate
          /\ rate'[i].pair = rate[i].pair
          /\ rate'[i].buyRate = rate[i].buyRate /\ rate'[i].sellRate = rate[i].sellRate
    <2>1. CASE Switch(a)
      <3>1. \A i \in DOMAIN rate : rate[i] \in RateRow
        BY DEF IInv, Tables, GoodRate
      <3>2. /\ note[a].id \in DOMAIN rate
            /\ rate' = With(rate, note[a].id,
                            [rate[note[a].id] EXCEPT !.isActive = note[a].isActive])
        BY <2>1 DEF Switch
      <3> QED
        BY <3>1, <3>2 DEF With, RateRow
    <2>2. CASE Destroy(a)
      BY <2>2 DEF Destroy, Without
    <2>3. CASE ~Switch(a) /\ ~Destroy(a)
      BY <2>3 DEF HistoryRead, HistoryWrite, NoteWrite, CreateBaseInsert, rows
    <2> QED
      BY <2>1, <2>2, <2>3
  <1>6. Grows /\ Steady
    BY <1>1, <1>4, <1>5 DEF Grows, Steady
  <1>7. ~Deriving(a) /\ ~Deriving(a)' /\ OwnClean(a)'
    BY <1>2, <1>3 DEF Deriving, OwnClean
  <1> QED
    BY <1>1, <1>3, <1>6, <1>7, IdleGhosts

\* A statement of a derivation that writes no row: what it holds afterwards is
\* measured against the tables as they were.
LEMMA DerivingGhosts ==
    ASSUME IInv, GInv, NEW a \in Admins, OnlyOf(a),
           UNCHANGED <<base, rate, made, held, alone, spoiled>>,
           Deriving(a), Deriving(a)', Touches(a)' = Touches(a),
           Updating(a) <=> Updating(a)',
           NEW s, NEW ds, NEW it, NEW fr, NEW td, NEW cs, NEW nt,
           pc'[a] = s, dto'[a] = ds, item'[a] = it, from'[a] = fr,
           todo'[a] = td, calc'[a] = cs, note'[a] = nt,
           Aimed(s, ds, it, td, cs),
           alone[a] => Fresh(s, ds, it, fr, td, cs, nt),
           cs # {} => s \in Quoting
    PROVE  GInv'
  <1>1. Grows /\ Steady
    BY SameTables
  <1>2. OwnAimed(a)'
    BY DEF OwnAimed, Aimed
  <1>3. OwnClean(a)'
    BY DEF OwnClean
  <1>4. alone[a] => OwnFresh(a)'
    BY DEF OwnFresh, Fresh, IsQuote, Live
  <1>5. Updating(a) => Updating(a)' /\ Submitted(a)' = Submitted(a)
    BY DEF Updating, Touches
  <1> QED
    BY <1>1, <1>2, <1>3, <1>4, <1>5, QuietGhosts

LEMMA OwnGhosts ==
    ASSUME GInv, NEW a \in Admins
    PROVE  /\ OwnAimed(a) /\ OwnClean(a)
           /\ Deriving(a) /\ alone[a] => OwnFresh(a)
  BY DEF GInv

LEMMA RatesListGhosts ==
    ASSUME IInv, GInv, NEW a \in Admins, RatesList(a)
    PROVE  GInv'
  <1> DEFINE touched == {i \in DOMAIN rate : Ends(rate[i].pair) \cap Submitted(a) # {}}
  <1>1. OnlyOf(a)
    BY DEF IInv, Locals, RatesList, Goto, Set, OnlyOf
  <1>2. PICK s, td : s = pc'[a] /\ td = todo'[a]
    OBVIOUS
  <1>3. /\ td = {[id |-> i, pair |-> rate[i].pair] : i \in touched}
        /\ s = IF touched = {} THEN "ratesWrite" ELSE "derive"
    BY <1>2 DEF RatesList, Set, Goto, IInv, Locals
  <1>4. /\ dto'[a] = dto[a] /\ item'[a] = item[a] /\ from'[a] = from[a]
        /\ calc'[a] = calc[a] /\ note'[a] = note[a] /\ pc[a] = "ratesList"
        /\ UNCHANGED <<base, rate, made, held, alone, spoiled>>
    BY DEF RatesList, rows, ghosts
  <1>5. calc[a] = {}
    BY <1>4, OwnGhosts DEF OwnClean, Quoting
  <1>6. \A i \in touched : Among(rate[i].pair, dto[a])
    BY DEF Among, Submitted
  <1>7. \A t \in td : Among(t.pair, dto[a])
    BY <1>3, <1>6
  <1>8. \A i \in DOMAIN rate : Among(rate[i].pair, dto[a]) => \E t \in td : t.id = i
    <2> SUFFICES ASSUME NEW i \in DOMAIN rate, Among(rate[i].pair, dto[a])
                 PROVE  \E t \in td : t.id = i
      OBVIOUS
    <2>1. i \in touched
      BY DEF Among, Submitted
    <2> HIDE DEF touched
    <2>2. [id |-> i, pair |-> rate[i].pair] \in td
      BY <1>3, <2>1
    <2> QED
      BY <2>2
  <1>9. s \in {"derive", "ratesWrite"} /\ (s = "ratesWrite" => td = {})
    BY <1>3
  <1> HIDE DEF touched
  <1>10. Aimed(s, dto[a], item[a], td, calc[a])
    BY <1>5, <1>7, <1>9 DEF Aimed
  <1>11. Fresh(s, dto[a], item[a], from[a], td, calc[a], note[a])
    BY <1>5, <1>8, <1>9 DEF Fresh
  <1>12. /\ Deriving(a) /\ Deriving(a)' /\ Touches(a)' = Touches(a)
         /\ Updating(a) <=> Updating(a)'
    BY <1>2, <1>4, <1>9 DEF Deriving, Touches, Updating, Submitted
  <1> QED
    BY <1>1, <1>2, <1>4, <1>5, <1>10, <1>11, <1>12, DerivingGhosts

LEMMA DeriveFromGhosts ==
    ASSUME IInv, GInv, NEW a \in Admins, DeriveFrom(a)
    PROVE  GInv'
  <1>1. OnlyOf(a)
    BY DEF IInv, Locals, DeriveFrom, Goto, Set, OnlyOf
  <1>2. PICK t \in todo[a] :
           /\ item'[a] = t /\ todo'[a] = todo[a] \ {t} /\ from'[a] = base[t.pair[1]]
    BY DEF DeriveFrom, Set, IInv, Locals
  <1>3. /\ pc'[a] = "deriveTo" /\ dto'[a] = dto[a] /\ calc'[a] = calc[a] /\ note'[a] = note[a]
        /\ UNCHANGED <<base, rate, made, held, alone, spoiled>> /\ pc[a] = "derive"
    BY DEF DeriveFrom, Goto, IInv, Locals, rows, ghosts
  <1>4. /\ Deriving(a) /\ Deriving(a)' /\ Touches(a)' = Touches(a)
        /\ Updating(a) <=> Updating(a)'
    BY <1>3 DEF Deriving, Touches, Updating, Submitted
  <1>5. Aimed("deriveTo", dto[a], t, todo[a] \ {t}, calc[a])
    BY <1>3, OwnGhosts DEF OwnAimed, Aimed, Quoting
  <1>6. ASSUME alone[a]
        PROVE  Fresh("deriveTo", dto[a], t, base[t.pair[1]], todo[a] \ {t}, calc[a], note[a])
    <2>1. Fresh("derive", dto[a], item[a], from[a], todo[a], calc[a], note[a])
      BY <1>3, <1>4, <1>6, OwnGhosts DEF OwnFresh
    <2> QED
      BY <2>1 DEF Fresh, Quoting
  <1> QED
    BY <1>1, <1>2, <1>3, <1>4, <1>5, <1>6, DerivingGhosts DEF Quoting

LEMMA DeriveToGhosts ==
    ASSUME IInv, GInv, NEW a \in Admins, DeriveTo(a)
    PROVE  GInv'
  <1> DEFINE p == item[a].pair
             q == Quote(p, from[a].sheet, base[p[2]].sheet)
             r == [id |-> item[a].id, buyRate |-> q.buyRate, sellRate |-> q.sellRate]
  <1>1. OnlyOf(a)
    BY DEF IInv, Locals, DeriveTo, Goto, Set, OnlyOf
  <1>2. PICK s, cs : s = pc'[a] /\ cs = calc'[a]
    OBVIOUS
  <1>3. /\ s = IF todo[a] = {} THEN "ratesWrite" ELSE "derive"
        /\ cs = IF from[a].isActive /\ base[p[2]].isActive THEN calc[a] \cup {r} ELSE calc[a]
        /\ dto'[a] = dto[a] /\ item'[a] = item[a]
        /\ from'[a] = from[a] /\ todo'[a] = todo[a] /\ note'[a] = note[a]
        /\ UNCHANGED <<base, rate, made, held, alone, spoiled>> /\ pc[a] = "deriveTo"
    BY <1>2 DEF DeriveTo, Goto, Set, IInv, Locals, rows, ghosts
  <1>4. s \in {"derive", "ratesWrite"} /\ (s = "ratesWrite" => todo[a] = {})
    BY <1>3
  <1>5. Names(item[a].id, p)
    BY <1>3, OwnWork DEF Carries
  <1>6. r.id = item[a].id /\ r.buyRate = q.buyRate /\ r.sellRate = q.sellRate
    OBVIOUS
  <1>7. /\ Deriving(a) /\ Deriving(a)' /\ Touches(a)' = Touches(a)
        /\ Updating(a) <=> Updating(a)'
    BY <1>2, <1>3, <1>4 DEF Deriving, Touches, Updating, Submitted
  <1>8. cs \in {calc[a], calc[a] \cup {r}}
    BY <1>3
  <1>9. Aimed("deriveTo", dto[a], item[a], todo[a], calc[a])
    BY <1>3, OwnGhosts DEF OwnAimed
  <1> HIDE DEF r, q
  <1>10. Aimed(s, dto[a], item[a], todo[a], cs)
    BY <1>4, <1>5, <1>6, <1>8, <1>9 DEF Aimed, Quoting, Names
  <1>11. ASSUME alone[a]
         PROVE  Fresh(s, dto[a], item[a], from[a], todo[a], cs, note[a])
    <2>1. Fresh("deriveTo", dto[a], item[a], from[a], todo[a], calc[a], note[a])
      BY <1>3, <1>7, <1>11, OwnGhosts DEF OwnFresh
    <2>2. from[a] = base[p[1]]
      BY <2>1 DEF Fresh
    <2>3. IsQuote(p, r)
      BY <1>6, <2>2 DEF IsQuote, q
    <2>4. \A k \in cs : k.id \in DOMAIN rate => IsQuote(rate[k.id].pair, k)
      BY <1>5, <1>6, <1>8, <2>1, <2>3 DEF Fresh, Quoting, Names
    <2>5. ASSUME NEW i \in DOMAIN rate, Among(rate[i].pair, dto[a]), Live(rate[i].pair)
          PROVE  (\E k \in cs : k.id = i) \/ (\E t \in todo[a] : t.id = i)
      <3>1. CASE item[a].id = i
        <4>1. rate[i].pair = p
          BY <1>5, <3>1 DEF Names
        <4>2. cs = calc[a] \cup {r}
          BY <1>3, <2>2, <2>5, <4>1 DEF Live
        <4> QED
          BY <1>6, <3>1, <4>2
      <3>2. CASE item[a].id # i
        BY <1>8, <2>1, <2>5, <3>2 DEF Fresh, Quoting
      <3> QED
        BY <3>1, <3>2
    <2> QED
      BY <1>4, <2>4, <2>5 DEF Fresh
  <1> QED
    BY <1>1, <1>2, <1>3, <1>4, <1>7, <1>10, <1>11, DerivingGhosts DEF Quoting

LEMMA CreateToGhosts ==
    ASSUME IInv, GInv, NEW a \in Admins, CreateTo(a)
    PROVE  GInv'
  <1> DEFINE p == item[a].pair
             q == Quote(p, from[a].sheet, base[p[2]].sheet)
  <1>1. OnlyOf(a)
    BY DEF IInv, Locals, CreateTo, Goto, Set, OnlyOf
  <1>2. PICK nt : nt = [id |-> 0, buyRate |-> q.buyRate, sellRate |-> q.sellRate,
                        isActive |-> TRUE]
    OBVIOUS
  <1>3. /\ pc'[a] = "createInsert" /\ dto'[a] = dto[a] /\ item'[a] = item[a]
        /\ from'[a] = from[a] /\ todo'[a] = todo[a] /\ calc'[a] = calc[a]
        /\ note'[a] = nt /\ pc[a] = "createTo"
        /\ UNCHANGED <<base, rate, made, held, alone, spoiled>>
    BY <1>2 DEF CreateTo, Goto, Set, IInv, Locals, rows, ghosts
  <1>4. calc[a] = {}
    BY <1>3, OwnGhosts DEF OwnClean, Quoting
  <1>5. /\ Deriving(a) /\ Deriving(a)' /\ Touches(a)' = Touches(a)
        /\ Updating(a) <=> Updating(a)'
    BY <1>3 DEF Deriving, Touches, Updating
  <1>6. Aimed("createInsert", dto[a], item[a], todo[a], calc[a])
    BY DEF Aimed, Quoting
  <1>7. ASSUME alone[a]
        PROVE  Fresh("createInsert", dto[a], item[a], from[a], todo[a], calc[a], nt)
    <2>1. from[a] = base[p[1]]
      BY <1>3, <1>5, <1>7, OwnGhosts DEF OwnFresh, Fresh
    <2>2. q = Quote(p, base[p[1]].sheet, base[p[2]].sheet)
      BY <2>1
    <2> HIDE DEF q
    <2>3. IsQuote(p, nt)
      BY <1>2, <2>2 DEF IsQuote
    <2> QED
      BY <2>3 DEF Fresh, Quoting
  <1> QED
    BY <1>1, <1>3, <1>4, <1>5, <1>6, <1>7, DerivingGhosts

\* A request that begins to derive is alone, or everybody's currencies are marked.
LEMMA BeginGhosts ==
    ASSUME IInv, GInv, Grows, NEW a \in Admins, OnlyOf(a), NEW cs, Begin(a, cs),
           ~Deriving(a), Deriving(a)', Touches(a)' = cs, UNCHANGED rate,
           \A c \in DOMAIN base \ cs : base'[c] = base[c],
           \/ UNCHANGED base
           \/ Updating(a)' /\ Submitted(a)' = cs,
           OwnFresh(a)', OwnAimed(a)', OwnClean(a)'
    PROVE  GInv'
  <1> DEFINE others == {b \in Admins \ {a} : Deriving(b)}
  <1>1. /\ alone'[a] <=> others = {}
        /\ \A b \in Admins \ {a} : alone'[b] <=> alone[b] /\ b \notin others
        /\ others = {} => spoiled' = spoiled
        /\ others # {} => spoiled' = spoiled \cup cs \cup UNION {Touches(b) : b \in others}
    BY DEF Begin
  <1>2. \A b \in Admins \ {a} : (Deriving(b)' <=> b \in others) /\ Touches(b)' = Touches(b)
    BY OthersStand
  <1>3. spoiled \subseteq spoiled'
    BY <1>1
  <1>4. \A b \in Admins : OwnAimed(b)' /\ OwnClean(b)'
    BY OthersAim, OthersStand DEF GInv
  <1>5. ASSUME NEW b \in Admins, Deriving(b)', alone'[b]
        PROVE  OwnFresh(b)' /\ \A c \in Admins \ {b} : ~Deriving(c)'
    BY <1>1, <1>2, <1>5
  <1>6. ASSUME NEW b \in Admins, Deriving(b)', ~alone'[b]
        PROVE  Touches(b)' \subseteq spoiled'
    <2>1. others # {}
      BY <1>1, <1>2, <1>6
    <2>2. CASE b = a
      BY <1>1, <2>1, <2>2
    <2>3. CASE b # a
      <3>1. b \in others /\ Touches(b)' = Touches(b)
        BY <1>2, <1>6, <2>3
      <3>2. Touches(b) \subseteq UNION {Touches(c) : c \in others}
        BY <3>1
      <3> QED
        BY <1>1, <2>1, <3>1, <3>2
    <2> QED
      BY <2>2, <2>3
  <1>7. ASSUME NEW i \in DOMAIN rate', Settled(i)' PROVE IsQuote(rate[i].pair, rate[i])'
    <2>1. PICK p : p = rate[i].pair
      OBVIOUS
    <2>2. i \in DOMAIN rate /\ rate' = rate /\ Ends(p) \subseteq DOMAIN base
      BY <2>1 DEF IInv, Tables, GoodRate
    <2>3. base'[p[1]] = base[p[1]] /\ base'[p[2]] = base[p[2]]
      <3>1. CASE UNCHANGED base
        BY <3>1
      <3>2. CASE Updating(a)' /\ Submitted(a)' = cs
        <4>1. cs \cap Ends(p) = {}
          BY <1>7, <2>1, <2>2, <3>2 DEF Settled
        <4> QED
          BY <2>2, <4>1 DEF Ends
      <3> QED
        BY <3>1, <3>2
    <2>4. Live(p) /\ Ends(p) \cap spoiled = {}
      BY <1>3, <1>7, <2>1, <2>2, <2>3 DEF Settled, Live
    <2>5. ASSUME NEW b \in Admins, Updating(b) PROVE Submitted(b) \cap Ends(p) = {}
      <3>1. b # a
        BY <2>5 DEF Updating, Deriving
      <3> QED
        BY <1>7, <2>1, <2>2, <2>5, <3>1, OthersStand DEF Settled
    <2>6. IsQuote(p, rate[i])
      BY <2>1, <2>2, <2>4, <2>5 DEF Settled, GInv
    <2> QED
      BY <2>1, <2>2, <2>3, <2>6 DEF IsQuote
  <1> QED
    BY <1>4, <1>5, <1>6, <1>7 DEF GInv

LEMMA UpdateBasesWriteGhosts ==
    ASSUME IInv, GInv, NEW a \in Admins, UpdateBasesWrite(a)
    PROVE  GInv'
  <1>1. /\ pc[a] = "basesWrite" /\ pc'[a] = "ratesList"
        /\ UNCHANGED <<rate, made, held, locals>> /\ Begin(a, Submitted(a))
        /\ DOMAIN base' = DOMAIN base
        /\ \A c \in DOMAIN base \ Submitted(a) : base'[c] = base[c]
    BY DEF UpdateBasesWrite, Goto, IInv, Locals
  <1>2. Grows
    BY <1>1 DEF Grows, IInv, Tables
  <1>3. OnlyOf(a)
    BY DEF UpdateBasesWrite, Goto, OnlyOf, locals, IInv, Locals
  <1>4. calc[a] = {} /\ calc'[a] = {}
    BY <1>1, OwnGhosts DEF OwnClean, Quoting, locals
  <1>5. /\ ~Deriving(a) /\ Deriving(a)' /\ Touches(a)' = Submitted(a)
        /\ Updating(a)' /\ Submitted(a)' = Submitted(a)
    BY <1>1 DEF Deriving, Updating, Touches, Submitted, locals
  <1>6. OwnFresh(a)' /\ OwnAimed(a)' /\ OwnClean(a)'
    BY <1>1, <1>4 DEF OwnFresh, Fresh, OwnAimed, Aimed, OwnClean, Quoting
  <1>7. PICK cs : cs = Submitted(a)
    OBVIOUS
  <1> QED
    BY <1>1, <1>2, <1>3, <1>5, <1>6, <1>7, BeginGhosts

LEMMA CreateFromGhosts ==
    ASSUME IInv, GInv, NEW a \in Admins, CreateFrom(a)
    PROVE  GInv'
  <1> DEFINE p == item[a].pair
  <1>1. /\ pc[a] = "createFrom" /\ pc'[a] = "createTo" /\ from'[a] = base[p[1]]
        /\ item' = item /\ calc' = calc
        /\ UNCHANGED <<base, rate, made, held>> /\ Begin(a, Ends(p))
    BY DEF CreateFrom, Goto, Set, rows, IInv, Locals
  <1>2. Grows
    BY <1>1, SameTables
  <1>3. OnlyOf(a)
    BY DEF CreateFrom, Goto, Set, OnlyOf, IInv, Locals
  <1>4. calc'[a] = {}
    BY <1>1, OwnGhosts DEF OwnClean, Quoting
  <1>5. ~Deriving(a) /\ Deriving(a)' /\ Touches(a)' = Ends(p)
    BY <1>1 DEF Deriving, Touches
  <1>6. OwnFresh(a)' /\ OwnAimed(a)' /\ OwnClean(a)'
    BY <1>1, <1>4 DEF OwnFresh, Fresh, OwnAimed, Aimed, OwnClean, Quoting
  <1>7. PICK cs : cs = Ends(p)
    OBVIOUS
  <1> QED
    BY <1>1, <1>2, <1>3, <1>5, <1>6, <1>7, BeginGhosts

\* The rates are written: by a request that was alone they are the quotes, and by
\* another its currencies are marked.
LEMMA RatesWriteGhosts ==
    ASSUME IInv, GInv, NEW a \in Admins, RatesWrite(a)
    PROVE  GInv'
  <1>1. /\ UNCHANGED <<base, made>> /\ held \subseteq held' /\ alone' = alone
        /\ pc[a] = "ratesWrite" /\ pc'[a] = "historyRead" /\ calc'[a] = calc[a]
        /\ spoiled' = IF alone[a] THEN spoiled \ Submitted(a) ELSE spoiled
    BY DEF RatesWrite, Goto, locals, IInv, Locals
  <1>2. /\ DOMAIN rate' = DOMAIN rate
        /\ \A i \in DOMAIN rate :
              /\ rate'[i].pair = rate[i].pair
              /\ (\A q \in calc[a] : q.id # i) => rate'[i] = rate[i]
              /\ (\E q \in calc[a] : q.id = i) =>
                    \E q \in calc[a] : /\ q.id = i
                                       /\ rate'[i].buyRate = q.buyRate
                                       /\ rate'[i].sellRate = q.sellRate
    BY DEF RatesWrite
  <1>3. OnlyOf(a)
    BY DEF RatesWrite, Goto, OnlyOf, locals, IInv, Locals
  <1>4. Grows
    BY <1>1, <1>2 DEF Grows, IInv, Tables
  <1>5. Deriving(a) /\ Updating(a) /\ ~Deriving(a)' /\ ~Updating(a)' /\ Touches(a) = Submitted(a)
    BY <1>1 DEF Deriving, Updating, Touches
  <1>6. \A b \in Admins : OwnAimed(b)' /\ OwnClean(b)'
    <2>1. OwnAimed(a)' /\ OwnClean(a)'
      BY <1>1 DEF OwnAimed, Aimed, OwnClean, Quoting
    <2> QED
      BY <1>3, <1>4, <2>1, OthersAim, OthersStand DEF GInv
  <1>7. ASSUME NEW b \in Admins, Deriving(b)'
        PROVE  b # a /\ Deriving(b) /\ ~alone[a] /\ ~alone[b]
    <2>1. b # a
      BY <1>5, <1>7
    <2>2. Deriving(b)
      BY <1>3, <1>7, <2>1, OthersStand
    <2> QED
      BY <1>5, <2>1, <2>2 DEF GInv
  <1>8. ASSUME NEW b \in Admins, Deriving(b)' PROVE Touches(b)' \subseteq spoiled'
    <2>1. Touches(b)' = Touches(b)
      BY <1>3, <1>7, <1>8, OthersStand
    <2>2. Touches(b) \subseteq spoiled
      BY <1>7, <1>8 DEF GInv
    <2> QED
      BY <1>1, <1>7, <1>8, <2>1, <2>2
  <1>9. ASSUME NEW i \in DOMAIN rate', Settled(i)' PROVE IsQuote(rate[i].pair, rate[i])'
    <2>1. PICK p : p = rate[i].pair
      OBVIOUS
    <2>2. i \in DOMAIN rate /\ rate'[i].pair = p /\ base' = base
      BY <1>1, <1>2, <2>1
    <2>3. Ends(p) \cap spoiled' = {} /\ Live(p)
      BY <1>9, <2>2 DEF Settled, Live
    <2>4. \A b \in Admins \ {a} : Updating(b) => Submitted(b) \cap Ends(p) = {}
      BY <1>3, <1>9, <2>2, OthersStand DEF Settled
    <2>5. Aimed("ratesWrite", dto[a], item[a], todo[a], calc[a])
      BY <1>1, OwnGhosts DEF OwnAimed
    <2>6. CASE ~Among(p, dto[a])
      <3>1. \A q \in calc[a] : q.id # i
        BY <2>1, <2>2, <2>5, <2>6 DEF Aimed, Quoting
      <3>2. rate'[i] = rate[i]
        BY <1>2, <2>2, <3>1
      <3>3. Ends(p) \cap Submitted(a) = {}
        BY <2>6 DEF Among, Submitted
      <3>4. Ends(p) \cap spoiled = {}
        BY <1>1, <2>3, <3>3
      <3>5. Settled(i)
        BY <2>1, <2>3, <2>4, <3>3, <3>4 DEF Settled
      <3> QED
        BY <2>1, <2>2, <3>2, <3>5 DEF GInv, IsQuote
    <2>7. CASE Among(p, dto[a])
      <3>1. alone[a]
        BY <1>1, <1>5, <2>3, <2>7 DEF GInv, Among, Submitted
      <3>2. Fresh("ratesWrite", dto[a], item[a], from[a], todo[a], calc[a], note[a])
        BY <1>1, <1>5, <3>1, OwnGhosts DEF OwnFresh
      <3>3. \E q \in calc[a] : q.id = i
        BY <2>1, <2>2, <2>3, <2>7, <3>2 DEF Fresh, Quoting
      <3>4. PICK q \in calc[a] : /\ q.id = i
                                 /\ rate'[i].buyRate = q.buyRate
                                 /\ rate'[i].sellRate = q.sellRate
        BY <1>2, <2>2, <3>3
      <3>5. IsQuote(p, q)
        BY <2>1, <2>2, <3>2, <3>4 DEF Fresh, Quoting
      <3> QED
        BY <2>2, <3>4, <3>5 DEF IsQuote
    <2> QED
      BY <2>6, <2>7
  <1> QED
    BY <1>1, <1>6, <1>7, <1>8, <1>9 DEF GInv

LEMMA CreateInsertGhosts ==
    ASSUME IInv, GInv, NEW a \in Admins, CreateInsert(a)
    PROVE  GInv'
  <1> DEFINE n == made + 1
             p == item[a].pair
             r == [pair |-> p, buyRate |-> note[a].buyRate,
                   sellRate |-> note[a].sellRate, isActive |-> note[a].isActive]
  <1>1. /\ UNCHANGED <<base, alone, spoiled>> /\ held \subseteq held'
        /\ pc[a] = "createInsert" /\ pc'[a] = "noteWrite" /\ calc' = calc
        /\ made' = n /\ rate' = With(rate, n, r)
    BY DEF CreateInsert, Goto, IInv, Locals
  <1>2. OnlyOf(a)
    BY DEF CreateInsert, Goto, Set, OnlyOf, IInv, Locals
  <1>3. made \in Nat /\ n \notin DOMAIN rate
    BY Given DEF IInv
  <1>4. r.pair = p /\ r.buyRate = note[a].buyRate /\ r.sellRate = note[a].sellRate
    OBVIOUS
  <1> HIDE DEF r
  <1>5. /\ DOMAIN rate' = DOMAIN rate \cup {n} /\ rate'[n] = r
        /\ \A i \in DOMAIN rate : rate'[i] = rate[i]
    BY <1>1, <1>3 DEF With
  <1>6. Grows
    BY <1>1, <1>3, <1>5 DEF Grows
  <1>7. Deriving(a) /\ ~Updating(a) /\ ~Deriving(a)' /\ ~Updating(a)' /\ Touches(a) = Ends(p)
    BY <1>1 DEF Deriving, Updating, Touches
  <1>8. calc'[a] = {}
    BY <1>1, OwnGhosts DEF OwnClean, Quoting
  <1>9. \A b \in Admins : OwnAimed(b)' /\ OwnClean(b)'
    <2>1. OwnAimed(a)' /\ OwnClean(a)'
      BY <1>1, <1>8 DEF OwnAimed, Aimed, OwnClean, Quoting
    <2> QED
      BY <1>2, <1>6, <2>1, OthersAim, OthersStand DEF GInv
  <1>10. ASSUME NEW b \in Admins, Deriving(b)'
         PROVE  ~alone'[b] /\ Touches(b)' \subseteq spoiled'
    <2>1. b # a
      BY <1>7, <1>10
    <2>2. Deriving(b) /\ Touches(b)' = Touches(b)
      BY <1>2, <1>10, <2>1, OthersStand
    <2>3. ~alone[b]
      BY <1>7, <2>1, <2>2 DEF GInv
    <2> QED
      BY <1>1, <2>2, <2>3 DEF GInv
  <1>11. ASSUME NEW i \in DOMAIN rate', Settled(i)' PROVE IsQuote(rate[i].pair, rate[i])'
    <2>1. CASE i = n
      <3>1. rate'[i].pair = p /\ rate'[i] = r /\ base' = base
        BY <1>1, <1>4, <1>5, <2>1
      <3>2. Ends(p) \cap spoiled = {}
        BY <1>1, <1>11, <3>1 DEF Settled
      <3>3. alone[a]
        BY <1>7, <3>2 DEF GInv, Ends
      <3>4. IsQuote(p, note[a])
        BY <1>1, <1>7, <3>3, OwnGhosts DEF OwnFresh, Fresh
      <3> QED
        BY <1>4, <3>1, <3>4 DEF IsQuote
    <2>2. CASE i # n
      <3>1. i \in DOMAIN rate /\ rate'[i] = rate[i] /\ base' = base
        BY <1>1, <1>5, <2>2
      <3>2. \A b \in Admins : Updating(b) => Updating(b)' /\ Submitted(b)' = Submitted(b)
        BY <1>2, <1>7, OthersStand
      <3>3. Settled(i)
        BY <1>1, <1>11, <3>1, <3>2 DEF Settled, Live
      <3> QED
        BY <3>1, <3>3 DEF GInv, IsQuote
    <2> QED
      BY <2>1, <2>2
  <1> QED
    BY <1>9, <1>10, <1>11 DEF GInv

LEMMA NextGhosts == IInv /\ GInv /\ [Next]_vars => GInv'
  <1> SUFFICES ASSUME IInv, GInv, [Next]_vars PROVE GInv'
    OBVIOUS
  <1>1. CASE UNCHANGED vars
    <2>1. UNCHANGED <<base, rate, pc, dto, item, from, todo, calc, note, alone, spoiled>>
      BY <1>1 DEF vars, rows, locals, ghosts
    <2>2. ASSUME NEW a \in Admins
          PROVE  /\ OwnAimed(a)' = OwnAimed(a) /\ OwnClean(a)' = OwnClean(a)
                 /\ OwnFresh(a)' = OwnFresh(a)
      BY <2>1 DEF OwnAimed, Aimed, OwnClean, OwnFresh, Fresh, IsQuote, Live
    <2>3. ASSUME NEW a \in Admins
          PROVE  /\ Deriving(a)' = Deriving(a) /\ Updating(a)' = Updating(a)
                 /\ Touches(a)' = Touches(a) /\ Submitted(a)' = Submitted(a)
      BY <2>1 DEF Deriving, Updating, Touches, Submitted
    <2>4. ASSUME NEW i \in DOMAIN rate', Settled(i)' PROVE IsQuote(rate[i].pair, rate[i])'
      <3>1. Settled(i)
        BY <2>1, <2>3, <2>4 DEF Settled, Live
      <3> QED
        BY <2>1, <3>1 DEF GInv, IsQuote
    <2> QED
      BY <2>1, <2>2, <2>3, <2>4 DEF GInv
  <1>2. ASSUME NEW a \in Admins, Request(a) \/ Statement(a) \/ Fail(a) PROVE GInv'
    BY <1>2, RequestGhosts, UpdateBasesWriteGhosts, RatesListGhosts, DeriveFromGhosts,
       DeriveToGhosts, RatesWriteGhosts, CreateFromGhosts, CreateToGhosts,
       CreateInsertGhosts, LaterGhosts, EndingsGhosts
    DEF Statement
  <1> QED
    BY <1>1, <1>2 DEF Next

\* A rate is the quote of the base rates as they are, while both are active, no
\* update of them is under way, and no update of them failed half way or ran
\* beside another request that derived rates.
THEOREM CurrentHolds == Spec => []RateCurrent
  <1>1. Init => GInv
    BY DEF Init, GInv, OwnAimed, Aimed, OwnClean, Quoting, Deriving
  <1>2. GInv => RateCurrent
    <2> SUFFICES ASSUME GInv, NEW i \in DOMAIN rate,
                        Ends(rate[i].pair) \cap spoiled = {}, Live(rate[i].pair),
                        \A a \in Admins : Deriving(a) =>
                            Touches(a) \cap Ends(rate[i].pair) = {}
                 PROVE  IsQuote(rate[i].pair, rate[i])
      BY DEF RateCurrent, IsQuote, Live
    <2>1. \A a \in Admins : Updating(a) => Deriving(a) /\ Touches(a) = Submitted(a)
      BY DEF Updating, Deriving, Touches
    <2>2. Settled(i)
      BY <2>1 DEF Settled
    <2> QED
      BY <2>2 DEF GInv
  <1>3. Spec => []GInv
    BY <1>1, NextGhosts, IInvHolds, PTL DEF Spec
  <1> QED
    BY <1>2, <1>3, PTL

=============================================================================
