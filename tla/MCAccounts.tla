------------------------------ MODULE MCAccounts ------------------------------
(* Instances of the accounts for TLC. *)
EXTENDS AccountProperties, TLC

CONSTANTS e1, h1, h2

MCHandlers == {h1, h2}
Symmetry == Permutations(MCHandlers)

=============================================================================
