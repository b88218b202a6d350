-------------------------------- MODULE MCKyc --------------------------------
(* Small instances of identity verification for TLC.                       *)
EXTENDS KycProperties, TLC

CONSTANTS u1, u2, k1, k2, s1, s2

KycSymmetry == Permutations(Slots) \cup Permutations(Sessions) \cup Permutations(Users)
=============================================================================
