-------------------------------- MODULE Desk --------------------------------
(***************************************************************************)
(* The ticket desk: TicketService, ChatService and TicketReceipt over one  *)
(* database, with assessors coming online and going offline, an            *)
(* administrator deleting assessor accounts (user.service.ts) and the      *)
(* process restarting.                                                     *)
(***************************************************************************)
EXTENDS TicketService, ChatService, TicketReceipt

Init ==
  /\ status = [t \in Tickets |-> "ABSENT"]
  /\ client = [t \in Tickets |-> NoUser]
  /\ assessor = [t \in Tickets |-> NoUser]
  /\ receipt = [t \in Tickets |-> NoImage]
  /\ chat = {}
  /\ messages = [t \in Tickets |-> <<>>]
  /\ notice = [n \in Notices |-> NoRow]
  /\ review = [t \in Tickets |-> NoUser]
  /\ accounts = Assessors
  /\ available = {}
  /\ lastAssigned = [a \in Assessors |-> 0]
  /\ clock = 0
  /\ timers = {}
  /\ timersSet = [t \in Tickets |-> 0]
  /\ req = [s \in Slots |-> Idle]
  /\ faults = 0
  /\ served = [t \in Tickets |-> {}]
  /\ supplied = [t \in Tickets |-> {}]

-----------------------------------------------------------------------------
(* UserService, as the chat gateway's connection callbacks and the         *)
(* administration call it.                                                 *)

isOnlineUser(a) ==
  /\ a \in accounts \ available
  /\ available' = available \cup {a}
  /\ UNCHANGED <<ticketVars, chatVars, noticeVars, accounts, lastAssigned, clock,
                 timerVars, req, faults, historyVars>>

\* Called when any socket of the user closes.
isOffOnlineUser(a) ==
  /\ a \in available
  /\ available' = available \ {a}
  /\ UNCHANGED <<ticketVars, chatVars, noticeVars, accounts, lastAssigned, clock,
                 timerVars, req, faults, historyVars>>

Orphaned(a) == [t \in Tickets |-> IF assessor[t] = a THEN NoUser ELSE assessor[t]]

Referenced(a) ==
  \/ \E t \in Tickets : \E i \in DOMAIN messages[t] : messages[t][i].sender = a
  \/ \E n \in Notices : notice[n].assessor = a

\* Mutations of DeleteAssessor: reviews do not restrict it, the deleted user
\* stays available, or its tickets change status as well.
DeleteAssessorReviewed(a) ==
  /\ a \in accounts /\ ~Referenced(a)
  /\ accounts' = accounts \ {a} /\ available' = available \ {a}
  /\ assessor' = Orphaned(a)
  /\ UNCHANGED <<status, client, receipt, chatVars, noticeVars, lastAssigned, clock,
                 timerVars, req, faults, historyVars>>

DeleteAssessorOnline(a) ==
  /\ a \in accounts /\ ~Referenced(a) /\ \A t \in Tickets : review[t] # a
  /\ accounts' = accounts \ {a}
  /\ assessor' = Orphaned(a)
  /\ UNCHANGED <<status, client, receipt, chatVars, noticeVars, available, lastAssigned,
                 clock, timerVars, req, faults, historyVars>>

DeleteAssessorWith(a, new) ==
  /\ a \in accounts /\ ~Referenced(a) /\ \A t \in Tickets : review[t] # a
  /\ accounts' = accounts \ {a} /\ available' = available \ {a}
  /\ assessor' = Orphaned(a)
  /\ status' = [t \in Tickets |-> IF assessor[t] = a THEN new ELSE status[t]]
  /\ UNCHANGED <<client, receipt, chatVars, noticeVars, lastAssigned, clock,
                 timerVars, req, faults, historyVars>>

DeleteAssessorRequeues(a) == DeleteAssessorWith(a, "PENDING")

\* Messages, notices and reviews restrict the deletion of their user; a ticket
\* of a deleted assessor has its assessorId set to NULL.
DeleteAssessor(a) ==
  /\ a \in accounts
  /\ ~Referenced(a) /\ \A t \in Tickets : review[t] # a
  /\ accounts' = accounts \ {a}
  /\ available' = available \ {a}
  /\ assessor' = Orphaned(a)
  /\ UNCHANGED <<status, client, receipt, chatVars, noticeVars, lastAssigned, clock,
                 timerVars, req, faults, historyVars>>

-----------------------------------------------------------------------------
(* Failures.                                                               *)

\* A statement of the handler fails (a constraint, the connection): it answers
\* with an error, keeping what its earlier statements wrote.  set-ticket-timer
\* catches the error instead (TimerWrite).
RequestError(s) ==
  /\ req[s].op \notin {"idle", "timer.write"}
  /\ Return(s)
  /\ UNCHANGED <<ticketVars, chatVars, noticeVars, userVars, timerVars, faults,
                 historyVars>>

\* The process dies and starts again: handlers in flight and timers are gone,
\* and onModuleInit marks every user offline.
Restart ==
  /\ faults < MaxFaults
  /\ faults' = faults + 1
  /\ req' = [s \in Slots |-> Idle]
  /\ timers' = {}
  /\ available' = {}
  /\ UNCHANGED <<ticketVars, chatVars, noticeVars, accounts, lastAssigned, clock,
                 timersSet, historyVars>>

-----------------------------------------------------------------------------
\* The continuation of the handler in slot s.
Continue(s) ==
  \/ CreateAssign(s) \/ CreateCommit(s) \/ TakeWrite(s) \/ FinalizeWrite(s)
  \/ WelcomeRead(s) \/ WelcomeSave(s) \/ MessageWrite(s) \/ TimerWrite(s)
  \/ \E n \in Notices : NoticeWrite(s, n)
  \/ AnswerWrite(s) \/ CancelTicket(s) \/ AttachProof(s) \/ ReviewWrite(s)
  \/ RequestError(s)

\* A user's request reaches the server and occupies slot s.
Request(s) ==
  \E t \in Tickets :
    \/ \E c \in Clients : CreateCount(s, c, t)
    \/ \E a \in Assessors : TakeCount(s, a, t) \/ FinalizeRead(s, a, t)
    \/ CheckStatus(s, t)
    \/ \E u \in Users, image \in Uploads \cup {NoImage} : SendMessage(s, u, t, image)
    \/ \E u \in Users : SetTimer(s, u, t)
    \/ \E a \in Assessors, image \in Images : NoticeRead(s, a, t, image)
    \/ ReviewRead(s, t)

Answer(s) ==
  \E n \in Notices, verdict \in ReceiptStatus, image \in Uploads \cup {NoImage} :
    AnswerRead(s, n, verdict, image)

Callback(k) == TimerFire(k) \/ AutoClose(k) \/ TimerError(k)

Presence(a) == isOnlineUser(a) \/ isOffOnlineUser(a) \/ DeleteAssessor(a)

Next ==
  \/ \E s \in Slots : Request(s) \/ Answer(s) \/ Continue(s)
  \/ \E k \in timers : Callback(k)
  \/ \E a \in Assessors : Presence(a)
  \/ Restart

Spec == Init /\ [][Next]_vars
=============================================================================
