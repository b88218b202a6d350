--------------------------- MODULE DeskProperties ---------------------------
(***************************************************************************)
(* What the ticket desk must keep true, whatever the order in which its    *)
(* handlers, timers, restarts and failures interleave.                     *)
(***************************************************************************)
EXTENDS Desk

\* Every row, frame and timer has the shape its Prisma model or handler gives it.
TypeOK ==
  /\ status \in [Tickets -> TicketStatus \cup {"ABSENT"}]
  /\ client \in [Tickets -> Clients \cup {NoUser}]
  /\ assessor \in [Tickets -> Assessors \cup {NoUser}]
  /\ receipt \in [Tickets -> Images \cup {NoImage}]
  /\ chat \subseteq Tickets
  /\ messages \in [Tickets -> Seq(Message)]
  /\ notice \in [Notices -> Notice]
  /\ review \in [Tickets -> Assessors \cup {NoUser}]
  /\ accounts \subseteq Assessors /\ available \subseteq accounts
  /\ lastAssigned \in [Assessors -> Nat] /\ clock \in Nat
  /\ timers \subseteq Timer /\ timersSet \in [Tickets -> Nat]
  /\ req \in [Slots -> Frame]
  /\ faults \in Nat
  /\ served \in [Tickets -> SUBSET Assessors]
  /\ supplied \in [Tickets -> SUBSET Images]

-----------------------------------------------------------------------------
(* Closing with proof.                                                     *)

\* A ticket in SUCCESS has a receipt image, although finalizeTicket and
\* autoFinalizeTicket both decide on a row they read earlier and may leave its
\* receipt column alone, and other handlers write that column in between.
SuccessHasProof ==
  \A t \in Tickets : status[t] = "SUCCESS" => receipt[t] # NoImage

\* A receipt is an image that an assessor who has held the ticket posted in its
\* chat, or one that a manager attached: never one only the client uploaded.
ReceiptProvenance ==
  \A t \in Tickets : receipt[t] # NoImage =>
    \/ receipt[t] \in supplied[t]
    \/ \E i \in DOMAIN messages[t] : /\ messages[t][i].image = receipt[t]
                                     /\ messages[t][i].sender \in served[t]

-----------------------------------------------------------------------------
(* Waiting tickets.                                                        *)

\* A ticket is PENDING exactly while no assessor has ever held it, and until
\* then nothing else refers to it: no chat, message, receipt, notice or review.
\* A take that races the creation, a reset or a deletion never undoes this.
PendingIsUntouched ==
  \A t \in Tickets : Exists(t) =>
    /\ status[t] = "PENDING" <=> served[t] = {}
    /\ served[t] = {} =>
         /\ assessor[t] = NoUser /\ receipt[t] = NoImage /\ review[t] = NoUser
         /\ t \notin chat /\ messages[t] = <<>>
         /\ \A n \in Notices : notice[n].ticket # t

\* A served ticket without an assessor lost it to the deletion of the account
\* that held it; it has its chat, and any assessor may take it again.
OrphanLostItsAssessor ==
  \A t \in Tickets : served[t] # {} =>
    /\ t \in chat
    /\ \/ assessor[t] \in served[t] \cap accounts
       \/ assessor[t] = NoUser /\ served[t] \ accounts # {}

\* The limit on pending tickets is counted before the transaction, so requests
\* already past the count overshoot it by at most the other handlers in flight.
PendingOvershoot ==
  \A c \in Clients :
    Cardinality(PendingOf(c)) + Cardinality({s \in Slots : /\ req[s].user = c
      /\ req[s].op \in {"create.assign", "create.commit"}})
       <= MaxPending + Cardinality(Slots) - 1

-----------------------------------------------------------------------------
(* Notices and reviews.                                                    *)

\* A notice shows an image of its own ticket, names as assessor one who has held
\* the ticket and as manager that assessor's, and neither the image's message
\* nor its author is gone, even after the ticket changed hands.
NoticeEvidence ==
  \A n \in Notices : NoticeExists(n) =>
    LET t == notice[n].ticket IN
    /\ notice[n].assessor \in served[t] \cap accounts
    /\ notice[n].manager = ManagerOf[notice[n].assessor]
    /\ notice[n].image \in CandidateImages(t) \cup supplied[t]

\* A review credits an assessor who held the ticket and whose account exists,
\* though it is read before and written after a possible change of hands.
ReviewCreditsServer ==
  \A t \in Tickets : review[t] # NoUser => review[t] \in served[t] \cap accounts

-----------------------------------------------------------------------------
(* The contract.                                                           *)

Contract == INSTANCE TicketLife WITH
  Ticket <- Tickets, Holder <- Assessors, Nobody <- NoUser,
  state <- status, holder <- assessor, proof <- [t \in Tickets |-> receipt[t] # NoImage]

\* The desk implements the life of a ticket: each of its steps is one of the
\* contract's steps or leaves what the contract speaks of unchanged.
ImplementsLife == Contract!Life

-----------------------------------------------------------------------------
(* Liveness.                                                               *)

\* Handlers and due timers run to their end; nobody has to send a request.
Fairness ==
  /\ \A s \in Slots : WF_vars(Continue(s))
  /\ WF_vars(\E k \in timers : TimerFire(k))
  /\ WF_vars(\E k \in timers : AutoClose(k))

FairSpec == Spec /\ Fairness

\* What autoFinalizeTicket needs to close t.
Closable(t) == status[t] = "PROCESSING" /\ ProofToSave(t, assessor[t]) # {}

\* A timer set on a ticket with proof closes it, unless the ticket is closed or
\* handed over first or the timer is lost to a fault.
TimerCloses ==
  \A t \in Tickets, a \in Assessors, f \in 0..MaxFaults :
    (/\ Closable(t) /\ assessor[t] = a /\ faults = f
     /\ \E k \in timers : k.ticket = t)
      ~> (status[t] # "PROCESSING" \/ assessor[t] # a \/ faults # f)
=============================================================================
