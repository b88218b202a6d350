----------------------------- MODULE MCCatalogue -----------------------------
(* Instances of the catalogue for TLC. *)
EXTENDS CatalogueProperties, TLC

CONSTANTS n1, n2, k1, a1, r1, r2, h1, h2

MCHandlers == {h1, h2}
MCRates == {r1, r2}
MCInsts == {n1, n2}
Symmetry == Permutations(MCHandlers) \cup Permutations(MCRates) \cup Permutations(MCInsts)

=============================================================================
