------------------------------- MODULE MCRates -------------------------------
(***************************************************************************)
(* Instances of the rates for TLC.  A sheet is the exact one of its        *)
(* currency moved apart by a distance d between buying and selling.        *)
(***************************************************************************)
EXTENDS RatesProperties, TLC

CONSTANTS a1, a2

MCAdmins == {a1, a2}
MCPrice == [c \in Currencies |->
               CASE c = "ARS" -> 9 [] c = "CLP" -> 7 [] c = "COP" -> 11 [] c = "PEN" -> 2
                 [] c = "BS" -> 6 [] c = "USD" -> 0 [] c = "EUR" -> -3 [] c = "USDT" -> -1]
MCMarginLog == [s \in Spreads |-> CASE s = 0 -> 0 [] s = 5 -> 1 [] s = 7 -> 2 [] s = 10 -> 3]

Spread(c, d) == [FairSheet(c) EXCEPT !.buyRate = @ - d, !.sellRate = @ + 2 * d]
MCSheets == [c \in Currencies |-> IF c = "ARS" THEN {Spread(c, 0), Spread(c, 1)}
                                               ELSE {Spread(c, 0)}]

Symmetry == Permutations(MCAdmins)

RateSeeded == {"ARS", "BS"}
RateBatches == {{"ARS", "BS"}}
RateListed == {<<"ARS", "BS">>, <<"USDT", "ARS">>}

=============================================================================
