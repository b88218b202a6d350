---------------------------- MODULE TicketReceipt ---------------------------
(***************************************************************************)
(* ticket/ticket-receipt.service.ts: an assessor reports the customer's    *)
(* proof of payment to the team's manager, who answers it; and             *)
(* review/review.service.ts: the client rates the assessor.  The manager's *)
(* answer is two separate statements, with no transaction around them.     *)
(***************************************************************************)
EXTENDS DeskState

NoticeExists(n) == notice[n].ticket # NoTicket

\* candidateUrls: the receipt and every image of the chat, whoever sent it.
CandidateImages(t) ==
  ({receipt[t]} \cup {messages[t][i].image : i \in DOMAIN messages[t]}) \ {NoImage}

-----------------------------------------------------------------------------
(* createForAssessor.                                                      *)

\* Mutation of NoticeRead: any URL is accepted.
NoticeReadUnchecked(s, a, t, image) ==
  /\ a \in accounts /\ assessor[t] = a /\ ManagerOf[a] # NoUser
  /\ Start(s, [Idle EXCEPT !.op = "notice.write", !.ticket = t, !.user = a,
                           !.image = image])
  /\ UNCHANGED <<ticketVars, chatVars, noticeVars, userVars, timerVars, faults,
                 historyVars>>

NoticeRead(s, a, t, image) ==
  /\ a \in accounts
  /\ assessor[t] = a
  /\ image \in CandidateImages(t)
  /\ ManagerOf[a] # NoUser
  /\ Start(s, [Idle EXCEPT !.op = "notice.write", !.ticket = t, !.user = a,
                           !.image = image])
  /\ UNCHANGED <<ticketVars, chatVars, noticeVars, userVars, timerVars, faults,
                 historyVars>>

NoticeWrite(s, n) ==
  LET a == req[s].user IN
  /\ At(s, "notice.write")
  /\ a \in accounts
  /\ ~NoticeExists(n)
  /\ notice' = [notice EXCEPT ![n] =
       [ticket |-> req[s].ticket, assessor |-> a, manager |-> ManagerOf[a],
        image |-> req[s].image, status |-> "PAYMENT_VERIFIED"]]
  /\ Return(s)
  /\ UNCHANGED <<ticketVars, chatVars, review, userVars, timerVars, faults, historyVars>>

-----------------------------------------------------------------------------
(* updateStatus: any answer, at any time, whatever the notice's status.    *)

AnswerRead(s, n, verdict, image) ==
  /\ NoticeExists(n)
  /\ Start(s, [Idle EXCEPT !.op = "notice.update", !.ticket = notice[n].ticket,
                           !.user = notice[n].manager, !.notice = n,
                           !.verdict = verdict, !.image = image])
  /\ UNCHANGED <<ticketVars, chatVars, noticeVars, userVars, timerVars, faults,
                 historyVars>>

AnswerWrite(s) ==
  /\ At(s, "notice.update")
  /\ notice' = [notice EXCEPT ![req[s].notice].status = req[s].verdict]
  /\ CASE req[s].verdict = "REJECTED"      -> Go(s, "ticket.cancel")
       [] req[s].verdict = "CUSTOMER_PAID" -> Go(s, "ticket.attach")
       [] OTHER                            -> Return(s)
  /\ UNCHANGED <<ticketVars, chatVars, review, userVars, timerVars, faults, historyVars>>

\* The ticket row is updated by id, whatever its status has become.
CancelTicket(s) ==
  /\ At(s, "ticket.cancel")
  /\ status' = [status EXCEPT ![req[s].ticket] = "CANCELLED"]
  /\ Return(s)
  /\ UNCHANGED <<client, assessor, receipt, chatVars, noticeVars, userVars, timerVars,
                 faults, historyVars>>

\* Mutant: the customer's image is stored instead of the manager's.
AttachProofSelected(s) ==
  /\ At(s, "ticket.attach")
  /\ receipt' = [receipt EXCEPT ![req[s].ticket] = notice[req[s].notice].image]
  /\ Return(s)
  /\ UNCHANGED <<status, client, assessor, chatVars, noticeVars, userVars, timerVars,
                 faults, historyVars>>

AttachProof(s) ==
  LET t == req[s].ticket
      image == req[s].image
  IN
  /\ At(s, "ticket.attach")
  /\ IF image = NoImage
     THEN UNCHANGED <<receipt, supplied>>
     ELSE /\ receipt' = [receipt EXCEPT ![t] = image]
          /\ supplied' = [supplied EXCEPT ![t] = @ \cup {image}]
  /\ Return(s)
  /\ UNCHANGED <<status, client, assessor, chatVars, noticeVars, userVars, timerVars,
                 faults, served>>

-----------------------------------------------------------------------------
(* ReviewService.create: the assessor read with the ticket is credited,    *)
(* whoever holds it by then; Review.ticketId is unique.                    *)

ReviewRead(s, t) ==
  /\ Exists(t)
  /\ assessor[t] # NoUser
  /\ review[t] = NoUser
  /\ Start(s, [Idle EXCEPT !.op = "review.write", !.ticket = t, !.user = client[t],
                           !.pick = assessor[t]])
  /\ UNCHANGED <<ticketVars, chatVars, noticeVars, userVars, timerVars, faults,
                 historyVars>>

ReviewWrite(s) ==
  LET t == req[s].ticket IN
  /\ At(s, "review.write")
  /\ review[t] = NoUser
  /\ req[s].pick \in accounts
  /\ review' = [review EXCEPT ![t] = req[s].pick]
  /\ Return(s)
  /\ UNCHANGED <<ticketVars, chatVars, notice, userVars, timerVars, faults, historyVars>>
=============================================================================
