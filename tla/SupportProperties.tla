-------------------------- MODULE SupportProperties --------------------------
(* What presence and the support desk promise. *)
EXTENDS Support

(* Rows and handlers have their types and name nobody who was deleted, and a
   ticket has its chat exactly when it has, or has had, an assessor: whoever
   is told that the chat can be opened (getTicketChatStatus) finds one to
   write to, although the assessor is chosen in create, by takeTicket, or not
   at all before finalizeTicket, and may be deleted at any time.  A ticket in
   process whose assessor is gone stays in process, with its chat and nobody
   to answer, until somebody takes it; a waiting ticket has neither. *)
SupportCorrect ==
    /\ \A n \in DOMAIN ticket : n \in Times /\ ticket[n] \in Row
    /\ \A n \in DOMAIN ticket : ticket[n].assigned \in accounts \cup {Nobody}
    /\ \A n \in DOMAIN ticket :
          /\ n \in DOMAIN chat <=> ticket[n].assigned # Nobody \/ n \in orphans
          /\ ticket[n].assigned # Nobody => n \notin orphans
          /\ ticket[n].status = "PROCESSING" => n \in DOMAIN chat
          /\ ticket[n].status = "PENDING" => n \notin DOMAIN chat
    /\ DOMAIN chat \subseteq DOMAIN ticket
    /\ \A n \in DOMAIN chat :
          /\ chat[n] \in Seq(Message)
          /\ \A i \in DOMAIN chat[n] : HasAccount(chat[n][i].sender)
    /\ online \subseteq accounts
    /\ lastAssigned \in [Assessors -> Times \cup {Never}]
    /\ req \in [Handlers -> Frame]

(* A chat is welcomed once (sendWelcomeMessage), unless two status checks of
   it overlap: every check-ticket-status event reads the messages, then the
   ticket, then stores, and a welcome that is not the first message of its
   chat was stored by a check that had found the chat empty before another
   message got in. *)
WelcomeOnce ==
    \A n \in DOMAIN chat : \A i \in DOMAIN chat[n] :
       i > 1 /\ chat[n][i].welcome => chat[n][i].late

(* Assignment asks who is online (findBestAssessor).  A user who is marked so
   has a socket open or about to mark it offline, unless it was marked after
   its socket had closed, a closing write failed, or the clearing of all marks
   at start (onModuleInit) failed, which is only logged.  A user with an
   account and a connected socket is marked online, unless another of its
   sockets closed meanwhile. *)
PresenceFollowsSockets ==
    /\ \A a \in online \ crossed : \E x \in open \cup going : user[x] = a
    /\ \A x \in open \ coming : user[x] \in online \/ x \in dropped \/ user[x] \notin accounts

=============================================================================
