------------------------------ MODULE DeskState ------------------------------
(***************************************************************************)
(* The state the ticket desk's services share, and the vocabulary their    *)
(* modules are written in.                                                 *)
(*                                                                         *)
(* Tickets, chats, notices, reviews and user rows live in PostgreSQL and   *)
(* survive a restart; the close timers live in the memory of the process   *)
(* (setTimeout) and do not.  A request handler is a chain of awaited       *)
(* statements, and between two of them every other handler, timer or       *)
(* socket callback may run: req[s] is the local frame of the handler       *)
(* occupying slot s, holding what it has read and will use later.          *)
(*                                                                         *)
(* One Prisma call is one atomic step.  User ids are the model values of   *)
(* the three role sets; roles and teams do not change.                     *)
(***************************************************************************)
EXTENDS Naturals, Sequences, FiniteSets

CONSTANTS
  Tickets,        \* ticket numbers the clients may ask for
  Clients,        \* users whose role is client
  Assessors,      \* users whose role is assessor
  Managers,       \* users whose role is manager or admin
  TicketTeam,     \* the assessors of the team named 'ticket'
  ManagerOf,      \* the manager of each assessor's team, or NoUser
  Uploads,        \* image URLs that users upload
  QrOf,           \* per ticket: the QR of the snapshotted payment method, or NoImage
  Notices,        \* ids of ticket receipt notifications (bounds their number)
  Slots,          \* handlers that may be in flight at once (bounds concurrency)
  NoUser, NoImage, NoTicket, NoNotice,   \* the database's NULLs
  MaxPending,     \* MAX_PENDING_TICKETS, 10 in the code
  MaxProcessing,  \* MAX_PROCESSING_TICKET, 6 in the code
  MaxMessages,    \* bound: messages per chat
  MaxTimers,      \* bound: timers set per ticket
  MaxFaults       \* bound: restarts and failed timer callbacks

Users  == Clients \cup Assessors \cup Managers
Images == (Uploads \cup {QrOf[t] : t \in Tickets}) \ {NoImage}

ASSUME RolesAssumption ==
  /\ Clients \cap Assessors = {} /\ Clients \cap Managers = {}
  /\ Assessors \cap Managers = {}
  /\ NoUser \notin Users
  /\ TicketTeam \subseteq Assessors
  /\ ManagerOf \in [Assessors -> Managers \cup {NoUser}]

ASSUME DataAssumption ==
  /\ NoImage \notin Uploads
  /\ NoTicket \notin Tickets /\ NoNotice \notin Notices
  /\ DOMAIN QrOf = Tickets

\* The process serves requests, and never infinitely many at once.
ASSUME SlotsAssumption == Slots # {} /\ IsFiniteSet(Slots)

ASSUME BoundsAssumption ==
  /\ MaxPending \in Nat /\ MaxProcessing \in Nat /\ MaxMessages \in Nat
  /\ MaxTimers \in Nat /\ MaxFaults \in Nat

VARIABLES
  status,        \* Ticket.status; "ABSENT" while no row has the number
  client,        \* Ticket.userId
  assessor,      \* Ticket.assessorId
  receipt,       \* Ticket.receiptImage
  chat,          \* tickets that have a Chat row
  messages,      \* Chat.messages in creation order
  notice,        \* TicketReceiptNotification rows
  review,        \* per ticket: the assessor its Review credits, or NoUser
  accounts,      \* assessors that have a User row
  available,     \* assessors with online = true and status = AVAILABLE
  lastAssigned,  \* User.lastAssignedAt as a rank; 0 is NULL
  clock,         \* the latest rank handed out
  timers,        \* setTimeout callbacks: armed, or past their read
  timersSet,     \* timers ever armed per ticket
  req,           \* the handler frame in each slot
  faults,        \* restarts and timer callbacks that failed
  served,        \* history: the assessors a ticket has been assigned to
  supplied       \* history: the images a manager attached to a ticket

ticketVars  == <<status, client, assessor, receipt>>
chatVars    == <<chat, messages>>
noticeVars  == <<notice, review>>
userVars    == <<accounts, available, lastAssigned, clock>>
timerVars   == <<timers, timersSet>>
historyVars == <<served, supplied>>
vars == <<ticketVars, chatVars, noticeVars, userVars, timerVars, req, faults,
          historyVars>>

TicketStatus == {"PENDING", "PROCESSING", "SUCCESS", "CANCELLED"}
ReceiptStatus == {"PAYMENT_VERIFIED", "CUSTOMER_PAID", "REJECTED"}

\* The await at which a handler is suspended, named for the statement to come.
Ops == {"idle", "create.assign", "create.commit", "take.write", "finalize.write",
        "welcome.read", "welcome.save", "message.write", "timer.write",
        "notice.write", "notice.update", "ticket.cancel", "ticket.attach",
        "review.write"}

Message == [sender : Users, image : Images \cup {NoImage}]
Timer   == [ticket : Tickets, nth : Nat, closing : BOOLEAN,
            image : Images \cup {NoImage}]
Notice  == [ticket : Tickets \cup {NoTicket}, assessor : Assessors \cup {NoUser},
            manager : Managers \cup {NoUser}, image : Images \cup {NoImage},
            status : ReceiptStatus]
Frame   == [op : Ops, ticket : Tickets \cup {NoTicket}, user : Users \cup {NoUser},
            pick : Assessors \cup {NoUser}, image : Images \cup {NoImage},
            notice : Notices \cup {NoNotice}, verdict : ReceiptStatus]

NoRow == [ticket |-> NoTicket, assessor |-> NoUser, manager |-> NoUser,
          image |-> NoImage, status |-> "PAYMENT_VERIFIED"]
Idle  == [op |-> "idle", ticket |-> NoTicket, user |-> NoUser, pick |-> NoUser,
          image |-> NoImage, notice |-> NoNotice, verdict |-> "PAYMENT_VERIFIED"]

-----------------------------------------------------------------------------
(* Handler frames: a request enters a free slot and leaves it empty.       *)

Start(s, frame) == req[s].op = "idle" /\ req' = [req EXCEPT ![s] = frame]
At(s, op)       == req[s].op = op
Go(s, op)       == req' = [req EXCEPT ![s].op = op]
Return(s)       == req' = [req EXCEPT ![s] = Idle]

(* Readers of the database.                                                *)

Exists(t)     == status[t] # "ABSENT"
Assigned(a)   == {t \in Tickets : assessor[t] = a}
Processing(a) == {t \in Assigned(a) : status[t] = "PROCESSING"}
PendingOf(c)  == {t \in Tickets : client[t] = c /\ status[t] = "PENDING"}
HasAccount(u) == u \in Users /\ (u \in Assessors => u \in accounts)

\* Mutation of ImagesBy: the filter on senderId is forgotten.
ImagesByAnyone(t, u) == {i \in DOMAIN messages[t] : messages[t][i].image # NoImage}

ImagesBy(t, u) ==
  {i \in DOMAIN messages[t] : messages[t][i].sender = u /\ messages[t][i].image # NoImage}

\* The latest image u posted in the chat of t: at most one member.
LatestImage(t, u) ==
  {messages[t][i].image : i \in {k \in ImagesBy(t, u) : \A j \in ImagesBy(t, u) : j <= k}}

\* What closing t on behalf of u writes to receiptImage: NoImage when the row
\* already has one and is left as it is, the latest image of u otherwise; empty
\* when there is no proof at all and closing is refused.
ProofToSave(t, u) ==
  IF receipt[t] # NoImage THEN {NoImage} ELSE LatestImage(t, u)

\* The update both finalizeTicket and autoFinalizeTicket send, by number only.
CloseTicket(t, image) ==
  /\ status' = [status EXCEPT ![t] = "SUCCESS"]
  /\ receipt' = IF image = NoImage THEN receipt ELSE [receipt EXCEPT ![t] = image]
  /\ UNCHANGED <<client, assessor>>

\* Messages stored or about to be: keeps the bound out of the handlers' way.
RoomFor(t) ==
  Len(messages[t]) + Cardinality({s \in Slots : req[s].ticket = t /\ req[s].op \in
     {"welcome.read", "welcome.save", "message.write", "timer.write"}}) < MaxMessages
=============================================================================
