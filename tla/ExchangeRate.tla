---------------------------- MODULE ExchangeRate ----------------------------
(***************************************************************************)
(* The arithmetic of a quote: exchange-rate.service.ts turns the base      *)
(* rates of two currencies into the buy and the sell rate of the pair, and *)
(* ticket.service.ts turns that rate into the amount a customer receives.  *)
(*                                                                         *)
(* Rates and amounts are positive numbers, and every operation on them is  *)
(* a product or a quotient, so each is held as its logarithm on a scale of *)
(* integers: a product is a sum, a quotient a difference, and the number   *)
(* one is 0.                                                               *)
(***************************************************************************)
EXTENDS Integers

CONSTANTS
    Price,      \* what a dollar is worth in each currency, as a logarithm
    MarginLog   \* how much a spread of s percent takes off, as a logarithm

Local == {"ARS", "CLP", "COP", "PEN"}
Currencies == Local \cup {"BS", "USD", "EUR", "USDT"}
Pairs == {p \in Currencies \X Currencies : p[1] # p[2]}
Spreads == {0, 5, 7, 10}

ASSUME PriceAssumption == Price \in [Currencies -> Int] /\ Price["USD"] = 0
ASSUME MarginAssumption == MarginLog \in [Spreads -> Nat] /\ MarginLog[0] = 0

\* The columns of a base rate that a formula reads.
Sheet == [buyRate : Int, sellRate : Int, marketRate : Int,
          dolarBcvRate : Int, eurBcvRate : Int]

-----------------------------------------------------------------------------
(***************************************************************************)
(* calculationMap: f is the base rate of the first currency of the pair, t *)
(* that of the second.                                                     *)
(***************************************************************************)
\* Mutant: PEN, whose formulas are the reciprocals, is treated as the others.
FromLocalPenAsOthers(x, y, f, t) ==
    CASE y = "BS"   -> IF x = "COP" THEN f.sellRate - t.marketRate
                                    ELSE t.marketRate - f.sellRate
      [] y = "USD"  -> f.sellRate
      [] y \in {"EUR", "USDT"} -> f.sellRate + t.sellRate
      [] y \in Local -> f.sellRate - t.buyRate

FromLocal(x, y, f, t) ==
    CASE y = "BS"   -> IF x = "COP" THEN f.sellRate - t.marketRate
                                    ELSE t.marketRate - f.sellRate
      [] y = "USD"  -> f.sellRate
      [] y \in {"EUR", "USDT"} -> f.sellRate + t.sellRate
      [] y \in Local -> IF x = "PEN" THEN t.buyRate - f.sellRate
                                     ELSE f.sellRate - t.buyRate

FromBs(y, f, t) ==
    CASE y = "COP"  -> t.buyRate - f.marketRate
      [] y \in Local \ {"COP"} -> f.marketRate - t.buyRate
      [] y = "USD"  -> f.dolarBcvRate
      [] y = "EUR"  -> f.eurBcvRate
      [] y = "USDT" -> f.marketRate + t.sellRate

FromUsd(y, f, t) ==
    CASE y \in Local -> t.buyRate
      [] y = "BS"   -> t.dolarBcvRate
      [] y = "EUR"  -> f.marketRate - t.sellRate
      [] y = "USDT" -> t.sellRate

FromUsdt(y, f, t) ==
    CASE y \in Local -> f.buyRate + t.buyRate
      [] y = "BS"   -> f.buyRate + t.marketRate
      [] y = "USD"  -> f.buyRate
      [] y = "EUR"  -> f.buyRate - t.sellRate

FromEur(y, f, t) ==
    CASE y \in Local -> f.buyRate + t.buyRate
      [] y = "BS"   -> t.eurBcvRate
      [] y = "USD"  -> f.buyRate + t.marketRate
      [] y = "USDT" -> f.buyRate - t.sellRate

calculationMap(p, f, t) ==
    CASE p[1] \in Local  -> FromLocal(p[1], p[2], f, t)
      [] p[1] = "BS"   -> FromBs(p[2], f, t)
      [] p[1] = "USD"  -> FromUsd(p[2], f, t)
      [] p[1] = "USDT" -> FromUsdt(p[2], f, t)
      [] p[1] = "EUR"  -> FromEur(p[2], f, t)

\* spreadOverrides, and DEFAULT_SPREAD for the pairs it does not name.
spreadOverrides(p) ==
    CASE p = <<"USDT", "EUR">> -> 5
      [] p[2] = "USDT" \/ (p[1] = "USDT" /\ p[2] # "EUR") -> 0
      [] p \in {<<"USD", "COP">>, <<"USD", "BS">>, <<"EUR", "BS">>,
                <<"EUR", "USD">>, <<"BS", "USD">>, <<"BS", "EUR">>} -> 0
      [] p \in {<<"ARS", "BS">>, <<"EUR", "COP">>, <<"EUR", "PEN">>} -> 5
      [] p \in {<<"CLP", "BS">>, <<"PEN", "BS">>, <<"USD", "CLP">>,
                <<"USD", "ARS">>, <<"USD", "PEN">>} -> 7
      [] OTHER -> 10

getMarginForPair(p) == MarginLog[spreadOverrides(p)]

\* What calculateRate computes once it has read both base rates.
Quote(p, f, t) ==
    [buyRate  |-> calculationMap(p, f, t) - getMarginForPair(p),
     sellRate |-> calculationMap(p, f, t) + getMarginForPair(p)]

-----------------------------------------------------------------------------
(***************************************************************************)
(* The older methods of the same service, one for each pair without USDT   *)
(* and each with the fixed spread of ten percent.                          *)
(***************************************************************************)
calculateArsTo(y, f, t) ==
    CASE y = "BS"  -> t.marketRate - f.sellRate
      [] y = "USD" -> f.sellRate
      [] y = "EUR" -> f.sellRate + t.sellRate
      [] y \in {"COP", "CLP", "PEN"} -> f.sellRate - t.buyRate

calculateClpTo(y, f, t) ==
    CASE y = "BS"  -> t.marketRate - f.sellRate
      [] y \in {"ARS", "COP", "PEN"} -> f.sellRate - t.buyRate
      [] y = "EUR" -> f.sellRate + t.sellRate
      [] y = "USD" -> f.sellRate

calculateBsTo(y, f, t) ==
    CASE y = "COP" -> t.buyRate - f.marketRate
      [] y \in {"ARS", "CLP", "PEN"} -> f.marketRate - t.buyRate
      [] y = "USD" -> f.marketRate
      [] y = "EUR" -> f.marketRate + t.sellRate

calculateCopTo(y, f, t) ==
    CASE y \in {"ARS", "CLP", "PEN"} -> f.sellRate - t.buyRate
      [] y = "BS"  -> f.sellRate - t.marketRate
      [] y = "EUR" -> f.sellRate + t.sellRate
      [] y = "USD" -> f.sellRate

calculateUsdTo(y, f, t) ==
    CASE y \in Local -> t.buyRate
      [] y = "BS"  -> t.marketRate
      [] y = "EUR" -> f.marketRate - t.sellRate

calculateEurTo(y, f, t) ==
    CASE y = "USD" -> f.buyRate + t.marketRate
      [] y = "BS"  -> t.marketRate + f.buyRate
      [] y \in Local -> t.buyRate + f.buyRate

calculatePenTo(y, f, t) ==
    CASE y \in {"ARS", "COP", "CLP"} -> t.buyRate - f.sellRate
      [] y = "BS"  -> t.marketRate - f.sellRate
      [] y = "EUR" -> f.sellRate + t.sellRate
      [] y = "USD" -> f.sellRate

LegacyFormula(p, f, t) ==
    CASE p[1] = "ARS" -> calculateArsTo(p[2], f, t)
      [] p[1] = "CLP" -> calculateClpTo(p[2], f, t)
      [] p[1] = "BS"  -> calculateBsTo(p[2], f, t)
      [] p[1] = "COP" -> calculateCopTo(p[2], f, t)
      [] p[1] = "USD" -> calculateUsdTo(p[2], f, t)
      [] p[1] = "EUR" -> calculateEurTo(p[2], f, t)
      [] p[1] = "PEN" -> calculatePenTo(p[2], f, t)

-----------------------------------------------------------------------------
(***************************************************************************)
(* The ticket: which of the two rates it applies, and whether it           *)
(* multiplies the amount sent by it or divides.                            *)
(***************************************************************************)
CALCULATION_MAP(p) ==
    IF \/ p[1] \in {"USD", "EUR", "USDT"} /\ p # <<"USDT", "USD">>
       \/ p = <<"BS", "COP">>
       \/ p[1] \in {"ARS", "CLP", "PEN"} /\ p[2] = "BS"
       \/ p[1] = "PEN" /\ p[2] \in Local
    THEN "*_RATE" ELSE "/_RATE"

\* Mutant: every pair sells.
RATE_TYPE_MAPSells(p) == "sellRate"

RATE_TYPE_MAP(p) ==
    IF \/ p[1] \in {"USD", "EUR", "USDT"} /\ p # <<"USDT", "USD">>
       \/ p = <<"BS", "COP">>
       \/ p[1] \in {"ARS", "CLP", "PEN"} /\ p[2] = "BS"
       \/ p[1] = "PEN" /\ p[2] \in Local
    THEN "buyRate" ELSE "sellRate"

\* validateAndCalculate, up to the fee: what `sent` of the first currency buys.
receiveAmount(p, row, sent) ==
    IF CALCULATION_MAP(p) = "*_RATE" THEN sent + row[RATE_TYPE_MAP(p)]
                                     ELSE sent - row[RATE_TYPE_MAP(p)]

-----------------------------------------------------------------------------
(***************************************************************************)
(* What the formulas have to agree with.  A currency is worth Price, and   *)
(* the administrator's sheet of a currency brackets that value: dollars    *)
(* are bought below it and sold above it.  The columns of a local currency *)
(* count units of it in a dollar, those of EUR and USDT count dollars in   *)
(* one unit.                                                               *)
(***************************************************************************)
Brackets(c, s) ==
    /\ c \in Local => s.buyRate <= Price[c] /\ Price[c] <= s.sellRate
    /\ c \in {"EUR", "USDT"} => s.buyRate <= -Price[c] /\ -Price[c] <= s.sellRate
    /\ c \in {"BS", "USD"} => s.marketRate = Price[c]

\* What an amount of the first currency is worth in the second.
FairAmount(p, sent) == sent + Price[p[2]] - Price[p[1]]

\* The sheet that quotes exactly Price, with no distance between its columns.
FairSheet(c) ==
    [buyRate |-> IF c \in {"EUR", "USDT"} THEN -Price[c] ELSE Price[c],
     sellRate |-> IF c \in {"EUR", "USDT"} THEN -Price[c] ELSE Price[c],
     marketRate |-> Price[c],
     dolarBcvRate |-> Price[c],
     eurBcvRate |-> Price[c] - Price["EUR"]]

\* The pairs quoted at the official rate of the central bank.
Official == {<<"USD", "BS">>, <<"BS", "USD">>, <<"EUR", "BS">>, <<"BS", "EUR">>}

\* The pairs whose formula and direction do not agree on the unit.
Inverted == {<<"USD", "USDT">>, <<"USDT", "USD">>}

=============================================================================
