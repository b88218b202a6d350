---------------------------- MODULE ChatService ----------------------------
(***************************************************************************)
(* chat/chat.service.ts and the handlers of chat/chat/chat.gateway.ts that *)
(* change state: the welcome message, send-message, set-ticket-timer and   *)
(* the timer callback that closes a ticket.  Durations are not modelled:   *)
(* an armed timer may fire at any moment, in any order.                    *)
(***************************************************************************)
EXTENDS DeskState

\* The authorisation and existence checks of saveMessage.
MaySend(t, u) ==
  /\ t \in chat
  /\ HasAccount(u)
  /\ u \in Managers \cup {client[t], assessor[t]}

Post(t, u, image) ==
  messages' = [messages EXCEPT ![t] = Append(@, [sender |-> u, image |-> image])]

-----------------------------------------------------------------------------
(* check-ticket-status and sendWelcomeMessage.                             *)

\* getTicketChatStatus answers canOpenChat; the client of t may always ask.
CheckStatus(s, t) ==
  /\ status[t] = "PROCESSING"
  /\ assessor[t] # NoUser
  /\ RoomFor(t)
  /\ Start(s, [Idle EXCEPT !.op = "welcome.read", !.ticket = t])
  /\ UNCHANGED <<ticketVars, chatVars, noticeVars, userVars, timerVars, faults,
                 historyVars>>

\* The welcome is written in the name of the assessor, with the QR if there is one.
WelcomeRead(s) ==
  LET t == req[s].ticket IN
  /\ At(s, "welcome.read")
  /\ IF t \in chat /\ assessor[t] # NoUser /\ messages[t] = <<>>
     THEN req' = [req EXCEPT ![s].op = "welcome.save", ![s].user = assessor[t],
                             ![s].image = QrOf[t]]
     ELSE Return(s)
  /\ UNCHANGED <<ticketVars, chatVars, noticeVars, userVars, timerVars, faults,
                 historyVars>>

\* saveMessage reads ticket, chat and sender again before it writes.
WelcomeSave(s) ==
  /\ At(s, "welcome.save")
  /\ IF MaySend(req[s].ticket, req[s].user) THEN Go(s, "message.write") ELSE Return(s)
  /\ UNCHANGED <<ticketVars, chatVars, noticeVars, userVars, timerVars, faults,
                 historyVars>>

-----------------------------------------------------------------------------
(* send-message.                                                           *)

SendMessage(s, u, t, image) ==
  /\ MaySend(t, u)
  /\ RoomFor(t)
  /\ Start(s, [Idle EXCEPT !.op = "message.write", !.ticket = t, !.user = u,
                           !.image = image])
  /\ UNCHANGED <<ticketVars, chatVars, noticeVars, userVars, timerVars, faults,
                 historyVars>>

MessageWrite(s) ==
  /\ At(s, "message.write")
  /\ HasAccount(req[s].user)
  /\ Post(req[s].ticket, req[s].user, req[s].image)
  /\ Return(s)
  /\ UNCHANGED <<ticketVars, chat, noticeVars, userVars, timerVars, faults, historyVars>>

-----------------------------------------------------------------------------
(* set-ticket-timer: the announcement may fail, the timer is armed anyway, *)
(* and the timers of earlier calls are left running.                       *)

Armed(t, n) == [ticket |-> t, nth |-> n, closing |-> FALSE, image |-> NoImage]

Arm(t) ==
  /\ timersSet' = [timersSet EXCEPT ![t] = @ + 1]
  /\ timers' = timers \cup {Armed(t, timersSet[t] + 1)}

SetTimer(s, u, t) ==
  /\ timersSet[t] + Cardinality({r \in Slots : req[r].op = "timer.write"}) < MaxTimers
  /\ IF MaySend(t, u)
     THEN /\ RoomFor(t)
          /\ Start(s, [Idle EXCEPT !.op = "timer.write", !.ticket = t, !.user = u])
          /\ UNCHANGED timerVars
     ELSE /\ req[s].op = "idle"
          /\ Arm(t)
          /\ UNCHANGED req
  /\ UNCHANGED <<ticketVars, chatVars, noticeVars, userVars, faults, historyVars>>

TimerWrite(s) ==
  LET t == req[s].ticket
      u == req[s].user
  IN
  /\ At(s, "timer.write")
  /\ \/ HasAccount(u) /\ Post(t, u, NoImage)
     \/ UNCHANGED messages
  /\ Arm(t)
  /\ Return(s)
  /\ UNCHANGED <<ticketVars, chat, noticeVars, userVars, faults, historyVars>>

-----------------------------------------------------------------------------
(* autoFinalizeTicket, called by the timer.                                *)

\* Mutation of TimerFire: only a receipt already stored counts as proof.
TimerFireReceiptOnly(k) ==
  /\ ~k.closing
  /\ timers' = (timers \ {k}) \cup
       (IF status[k.ticket] = "PROCESSING" /\ receipt[k.ticket] # NoImage
        THEN {[k EXCEPT !.closing = TRUE]} ELSE {})
  /\ UNCHANGED <<ticketVars, chatVars, noticeVars, userVars, timersSet, req, faults,
                 historyVars>>

TimerFire(k) ==
  LET t == k.ticket
      proofs == ProofToSave(t, assessor[t])
  IN
  /\ ~k.closing
  /\ IF status[t] = "PROCESSING" /\ proofs # {}
     THEN \E image \in proofs :
            timers' = (timers \ {k}) \cup {[k EXCEPT !.closing = TRUE, !.image = image]}
     ELSE timers' = timers \ {k}
  /\ UNCHANGED <<ticketVars, chatVars, noticeVars, userVars, timersSet, req, faults,
                 historyVars>>

AutoClose(k) ==
  /\ k.closing
  /\ CloseTicket(k.ticket, k.image)
  /\ timers' = timers \ {k}
  /\ UNCHANGED <<chatVars, noticeVars, userVars, timersSet, req, faults, historyVars>>

\* A statement of the callback fails: the error is logged and the timer is gone.
TimerError(k) ==
  /\ faults < MaxFaults
  /\ faults' = faults + 1
  /\ timers' = timers \ {k}
  /\ UNCHANGED <<ticketVars, chatVars, noticeVars, userVars, timersSet, req, historyVars>>
=============================================================================
