----------------------------- MODULE LifeProofs ------------------------------
(***************************************************************************)
(* What the contract of a ticket's life is worth: whatever implements it   *)
(* keeps its promise.                                                      *)
(***************************************************************************)
EXTENDS TicketLife, TLAPS

\* The promise, with the domains the steps update.
LifeInv ==
  /\ DOMAIN state = Ticket /\ DOMAIN holder = Ticket /\ DOMAIN proof = Ticket
  /\ state = [t \in Ticket |-> state[t]]
  /\ holder = [t \in Ticket |-> holder[t]]
  /\ proof = [t \in Ticket |-> proof[t]]
  /\ Promise

LEMMA LifeStep == LifeInv /\ [Advance]_life => LifeInv'
<1> SUFFICES ASSUME LifeInv, [Advance]_life PROVE LifeInv'
  OBVIOUS
<1> USE DEF LifeInv, Promise
<1>1. CASE UNCHANGED life
  BY <1>1 DEF life
<1>2. ASSUME NEW t \in Ticket, Open(t) PROVE LifeInv'
  BY <1>2 DEF Open
<1>3. ASSUME NEW t \in Ticket, Prove(t) PROVE LifeInv'
  BY <1>3 DEF Prove
<1>4. ASSUME NEW t \in Ticket, Close(t) PROVE LifeInv'
  BY <1>4 DEF Close
<1>5. ASSUME NEW t \in Ticket, Cancel(t) PROVE LifeInv'
  BY <1>5 DEF Cancel
<1>6. ASSUME NEW t \in Ticket, NEW a \in Holder, Hold(t, a) PROVE LifeInv'
  BY <1>6 DEF Hold
<1>7. ASSUME NEW a \in Holder, Leave(a) PROVE LifeInv'
  BY <1>7 DEF Leave
<1> QED BY <1>1, <1>2, <1>3, <1>4, <1>5, <1>6, <1>7 DEF Advance

\* A ticket that lives by the contract is closed only with a proof, and while it
\* waits nobody holds it and it has none (ticket.service.ts, create and finalizeTicket).
THEOREM PromiseKept == Life => []Promise
<1>1. Begin => LifeInv
  BY DEF Begin, LifeInv, Promise
<1>2. LifeInv => Promise
  BY DEF LifeInv
<1> QED BY <1>1, <1>2, LifeStep, PTL DEF Life
=============================================================================
