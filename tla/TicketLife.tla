----------------------------- MODULE TicketLife -----------------------------
(***************************************************************************)
(* The life of a ticket as its users may rely on it, without chats,        *)
(* notices, timers, requests or their interleavings: what DeskProperties   *)
(* shows the desk implements.                                              *)
(*                                                                         *)
(* A ticket waits until an assessor first holds it.  From then on it may   *)
(* change hands, be closed and be cancelled in any order, but it never     *)
(* waits again, it is closed only with a proof of payment, and a proof it  *)
(* has is never lost.  A holder leaves it only for another or by leaving.  *)
(***************************************************************************)
CONSTANTS Ticket, Holder, Nobody

VARIABLES state, holder, proof
life == <<state, holder, proof>>

Begin ==
  /\ state = [t \in Ticket |-> "ABSENT"]
  /\ holder = [t \in Ticket |-> Nobody]
  /\ proof = [t \in Ticket |-> FALSE]

Open(t) ==
  /\ state[t] = "ABSENT"
  /\ state' = [state EXCEPT ![t] = "PENDING"]
  /\ UNCHANGED <<holder, proof>>

\* An assessor gets the ticket: as it is created, from the queue, from another
\* assessor, or after it was closed or cancelled.
Hold(t, a) ==
  /\ state' = [state EXCEPT ![t] = "PROCESSING"]
  /\ holder' = [holder EXCEPT ![t] = a]
  /\ UNCHANGED proof

Prove(t) ==
  /\ state[t] \notin {"ABSENT", "PENDING"}
  /\ proof' = [proof EXCEPT ![t] = TRUE]
  /\ UNCHANGED <<state, holder>>

Close(t) ==
  /\ state[t] \notin {"ABSENT", "PENDING"}
  /\ state' = [state EXCEPT ![t] = "SUCCESS"]
  /\ proof' = [proof EXCEPT ![t] = TRUE]
  /\ UNCHANGED holder

Cancel(t) ==
  /\ state[t] \notin {"ABSENT", "PENDING"}
  /\ state' = [state EXCEPT ![t] = "CANCELLED"]
  /\ UNCHANGED <<holder, proof>>

\* Assessor a leaves for good, and every ticket it holds is without one.
Leave(a) ==
  /\ holder' = [t \in Ticket |-> IF holder[t] = a THEN Nobody ELSE holder[t]]
  /\ UNCHANGED <<state, proof>>

Advance ==
  \/ \E t \in Ticket : Open(t) \/ Prove(t) \/ Close(t) \/ Cancel(t)
  \/ \E t \in Ticket, a \in Holder : Hold(t, a)
  \/ \E a \in Holder : Leave(a)

Life == Begin /\ [][Advance]_life

\* What the contract is for: a closed ticket is proved, a waiting one is unheld.
Promise ==
  \A t \in Ticket :
    /\ state[t] = "SUCCESS" => proof[t]
    /\ state[t] \in {"ABSENT", "PENDING"} => holder[t] = Nobody /\ ~proof[t]
=============================================================================
