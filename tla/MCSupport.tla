------------------------------ MODULE MCSupport ------------------------------
(* Instances of the support desk for TLC. *)
EXTENDS SupportProperties, TLC

CONSTANTS a1, a2, c1, m1, x1, x2, h1, h2

MCHandlers == {h1, h2}
MCSockets == {x1, x2}
MCAssessors == {a1, a2}
Symmetry == Permutations(MCHandlers) \cup Permutations(MCSockets) \cup Permutations(MCAssessors)

=============================================================================
