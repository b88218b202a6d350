------------------------------- MODULE MCDesk -------------------------------
(* Small instances of the ticket desk for TLC.                             *)
EXTENDS DeskClaims, TLC

CONSTANTS t1, t2, t3, c1, a1, a2, m1, i1, q, n1, s1, s2, s3

BothManaged == a1 :> m1 @@ a2 :> m1
Unmanaged   == [a \in Assessors |-> NoUser]
NoQr        == [t \in Tickets |-> NoImage]
AllQr       == [t \in Tickets |-> q]
FirstQr     == [t \in Tickets |-> IF t = t1 THEN q ELSE NoImage]
SlotSymmetry == Permutations(Slots)
DeskSymmetry == Permutations(Slots) \cup Permutations(Assessors)
AdmissionSymmetry == DeskSymmetry \cup Permutations(Tickets)
=============================================================================
