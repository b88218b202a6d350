--------------------------- MODULE TicketService ---------------------------
(***************************************************************************)
(* ticket/ticket.service.ts: create with automatic assignment, takeTicket  *)
(* and finalizeTicket.  Each is split at its awaits.  The transaction of   *)
(* create is READ COMMITTED: what it reads may be stale when it commits,   *)
(* and its writes appear at once.                                          *)
(***************************************************************************)
EXTENDS DeskState

-----------------------------------------------------------------------------
(* findBestAssessor: ordered by the number of ALL tickets that point to    *)
(* the assessor, then by lastAssignedAt, where PostgreSQL sorts NULL last. *)

Candidates == available \cap TicketTeam

LastRank(a) == IF lastAssigned[a] = 0 THEN clock + 1 ELSE lastAssigned[a]

Before(a, b) ==
  \/ Cardinality(Assigned(a)) < Cardinality(Assigned(b))
  \/ /\ Cardinality(Assigned(a)) = Cardinality(Assigned(b))
     /\ LastRank(a) < LastRank(b)

BestAssessors == {b \in Candidates : \A a \in Candidates : ~Before(a, b)}

-----------------------------------------------------------------------------
(* create.                                                                 *)

\* Mutation of CreateCount: the limit itself still admits one more.
CreateCountInclusive(s, c, t) ==
  /\ Cardinality(PendingOf(c)) <= MaxPending
  /\ Start(s, [Idle EXCEPT !.op = "create.assign", !.ticket = t, !.user = c])
  /\ UNCHANGED <<ticketVars, chatVars, noticeVars, userVars, timerVars, faults,
                 historyVars>>

\* The count of pending tickets precedes the transaction.
CreateCount(s, c, t) ==
  /\ Cardinality(PendingOf(c)) < MaxPending
  /\ Start(s, [Idle EXCEPT !.op = "create.assign", !.ticket = t, !.user = c])
  /\ UNCHANGED <<ticketVars, chatVars, noticeVars, userVars, timerVars, faults,
                 historyVars>>

CreateAssign(s) ==
  /\ At(s, "create.assign")
  /\ \E b \in IF Candidates = {} THEN {NoUser} ELSE BestAssessors :
       req' = [req EXCEPT ![s].op = "create.commit", ![s].pick = b]
  /\ UNCHANGED <<ticketVars, chatVars, noticeVars, userVars, timerVars, faults,
                 historyVars>>

\* ticketNumber is unique and assessorId a foreign key: otherwise a rollback.
CreateCommit(s) ==
  LET t == req[s].ticket
      b == req[s].pick
  IN
  /\ At(s, "create.commit")
  /\ ~Exists(t)
  /\ b \in accounts \cup {NoUser}
  /\ client' = [client EXCEPT ![t] = req[s].user]
  /\ assessor' = [assessor EXCEPT ![t] = b]
  /\ status' = [status EXCEPT ![t] = IF b = NoUser THEN "PENDING" ELSE "PROCESSING"]
  /\ IF b = NoUser
     THEN UNCHANGED <<chat, lastAssigned, clock, served>>
     ELSE /\ chat' = chat \cup {t}
          /\ clock' = clock + 1
          /\ lastAssigned' = [lastAssigned EXCEPT ![b] = clock + 1]
          /\ served' = [served EXCEPT ![t] = @ \cup {b}]
  /\ Return(s)
  /\ UNCHANGED <<receipt, messages, noticeVars, accounts, available, timerVars,
                 faults, supplied>>

-----------------------------------------------------------------------------
(* takeTicket: neither the status nor the current assessor is examined.    *)

TakeCount(s, a, t) ==
  /\ a \in accounts
  /\ Exists(t)
  /\ Cardinality(Processing(a)) < MaxProcessing
  /\ Start(s, [Idle EXCEPT !.op = "take.write", !.ticket = t, !.user = a])
  /\ UNCHANGED <<ticketVars, chatVars, noticeVars, userVars, timerVars, faults,
                 historyVars>>

\* Mutations of TakeWrite: the chat, or the status, is not part of the update.
TakeWriteNoChat(s) ==
  LET t == req[s].ticket IN
  /\ At(s, "take.write") /\ req[s].user \in accounts
  /\ assessor' = [assessor EXCEPT ![t] = req[s].user]
  /\ status' = [status EXCEPT ![t] = "PROCESSING"]
  /\ served' = [served EXCEPT ![t] = @ \cup {req[s].user}]
  /\ Return(s)
  /\ UNCHANGED <<client, receipt, chatVars, noticeVars, userVars, timerVars, faults,
                 supplied>>

TakeWriteNoStatus(s) ==
  LET t == req[s].ticket IN
  /\ At(s, "take.write") /\ req[s].user \in accounts
  /\ assessor' = [assessor EXCEPT ![t] = req[s].user]
  /\ chat' = chat \cup {t}
  /\ served' = [served EXCEPT ![t] = @ \cup {req[s].user}]
  /\ Return(s)
  /\ UNCHANGED <<status, client, receipt, messages, noticeVars, userVars, timerVars,
                 faults, supplied>>

TakeWrite(s) ==
  LET t == req[s].ticket
      a == req[s].user
  IN
  /\ At(s, "take.write")
  /\ a \in accounts
  /\ assessor' = [assessor EXCEPT ![t] = a]
  /\ status' = [status EXCEPT ![t] = "PROCESSING"]
  /\ chat' = chat \cup {t}
  /\ served' = [served EXCEPT ![t] = @ \cup {a}]
  /\ Return(s)
  /\ UNCHANGED <<client, receipt, messages, noticeVars, userVars, timerVars, faults,
                 supplied>>

-----------------------------------------------------------------------------
(* finalizeTicket: checks and proof are read, then the row is updated.     *)

\* Mutation of FinalizeRead: a missing proof does not stop it.
FinalizeReadUnproved(s, a, t) ==
  /\ a \in accounts /\ assessor[t] = a /\ status[t] = "PROCESSING"
  /\ \E image \in ProofToSave(t, a) \cup {NoImage} :
       Start(s, [Idle EXCEPT !.op = "finalize.write", !.ticket = t, !.user = a,
                             !.image = image])
  /\ UNCHANGED <<ticketVars, chatVars, noticeVars, userVars, timerVars, faults,
                 historyVars>>

FinalizeRead(s, a, t) ==
  /\ a \in accounts
  /\ assessor[t] = a
  /\ status[t] = "PROCESSING"
  /\ \E image \in ProofToSave(t, a) :
       Start(s, [Idle EXCEPT !.op = "finalize.write", !.ticket = t, !.user = a,
                             !.image = image])
  /\ UNCHANGED <<ticketVars, chatVars, noticeVars, userVars, timerVars, faults,
                 historyVars>>

FinalizeWrite(s) ==
  /\ At(s, "finalize.write")
  /\ CloseTicket(req[s].ticket, req[s].image)
  /\ Return(s)
  /\ UNCHANGED <<chatVars, noticeVars, userVars, timerVars, faults, historyVars>>
=============================================================================
