----------------------------- MODULE DeskProofs -----------------------------
(***************************************************************************)
(* Proofs about the ticket desk, for any number of tickets, users, images, *)
(* handlers and timers and any value of the bounds.                        *)
(***************************************************************************)
EXTENDS DeskProperties, FiniteSetTheorems, WellFoundedInduction, TLAPS

USE DEF ticketVars, chatVars, noticeVars, userVars, timerVars, historyVars

-----------------------------------------------------------------------------
(* Typing.  TypeOK alone is not inductive: it does not say that the frame  *)
(* of a suspended handler names a ticket, nor what role its user has.      *)

\* The frames the handlers build: all but an idle one name a ticket.
SoundFrame == {f \in Frame :
  /\ f.op # "idle" => f.ticket \in Tickets
  /\ f.op \in {"create.assign", "create.commit"} => f.user \in Clients
  /\ f.op \in {"take.write", "finalize.write", "notice.write"} => f.user \in Assessors
  /\ f.op = "notice.update" => f.notice \in Notices}

TypeInv == TypeOK /\ req \in [Slots -> SoundFrame]

LEMMA IdleSound == Idle \in SoundFrame
  BY DEF Idle, SoundFrame, Frame, Ops, ReceiptStatus

\* The QR of a ticket's payment method is an image or absent.
LEMMA QrType == \A t \in Tickets : QrOf[t] \in Images \cup {NoImage}
  BY DEF Images

\* What CloseTicket saves is an image, or nothing when there is one already.
LEMMA ProofType ==
  ASSUME TypeOK, NEW t \in Tickets, NEW u, NEW image \in ProofToSave(t, u)
  PROVE  /\ image \in Images \cup {NoImage}
         /\ image = NoImage => receipt[t] # NoImage
<1>1. CASE receipt[t] # NoImage
  BY <1>1 DEF ProofToSave
<1>2. CASE receipt[t] = NoImage
  <2>1. PICK i \in ImagesBy(t, u) : image = messages[t][i].image
    BY <1>2 DEF ProofToSave, LatestImage
  <2>2. i \in DOMAIN messages[t] /\ messages[t][i].image # NoImage
    BY <2>1 DEF ImagesBy
  <2>3. messages[t] \in Seq(Message)
    BY DEF TypeOK
  <2>4. messages[t][i] \in Message
    BY <2>2, <2>3
  <2> QED BY <2>1, <2>2, <2>4 DEF Message
<1> QED BY <1>1, <1>2

\* Entering, advancing and leaving a slot puts one frame in it.
LEMMA FrameStep ==
  ASSUME TypeInv, NEW s \in Slots
  PROVE  /\ \A f \in SoundFrame : Start(s, f) => req' \in [Slots -> SoundFrame]
         /\ \A f \in SoundFrame :
              req' = [req EXCEPT ![s] = f] => req' \in [Slots -> SoundFrame]
         /\ Return(s) => req' \in [Slots -> SoundFrame]
  BY IdleSound DEF TypeInv, Start, Return

\* A frame that goes on to a later await stays sound.
LEMMA GoStep ==
  ASSUME TypeInv, NEW s \in Slots, req[s].op # "idle",
         NEW op \in {"message.write", "ticket.cancel", "ticket.attach"}, Go(s, op)
  PROVE  req' \in [Slots -> SoundFrame]
<1>1. req[s] \in SoundFrame
  BY DEF TypeInv
<1>2. [req[s] EXCEPT !.op = op] \in SoundFrame
  BY <1>1 DEF SoundFrame, Frame, Ops
<1>3. req' = [req EXCEPT ![s] = [req[s] EXCEPT !.op = op]]
  BY DEF Go
<1> QED BY <1>2, <1>3, FrameStep

LEMMA InitType == Init => TypeInv
  BY IdleSound DEF Init, TypeInv, TypeOK, TicketStatus, NoRow, Notice, ReceiptStatus,
     SoundFrame

LEMMA CreateType ==
  ASSUME TypeInv, NEW s \in Slots
  PROVE  /\ \A c \in Clients, t \in Tickets : CreateCount(s, c, t) => TypeInv'
         /\ CreateAssign(s) => TypeInv'
         /\ CreateCommit(s) => TypeInv'
<1>1. ASSUME NEW c \in Clients, NEW t \in Tickets, CreateCount(s, c, t) PROVE TypeInv'
  <2>1. [Idle EXCEPT !.op = "create.assign", !.ticket = t, !.user = c] \in SoundFrame
    BY DEF Idle, SoundFrame, Frame, Ops, Users, ReceiptStatus
  <2>2. req' \in [Slots -> SoundFrame]
    BY <1>1, <2>1, FrameStep DEF CreateCount
  <2> QED BY <1>1, <2>2 DEF TypeInv, TypeOK, CreateCount, SoundFrame
<1>2. CASE CreateAssign(s)
  <2>1. PICK b \in IF Candidates = {} THEN {NoUser} ELSE BestAssessors :
          req' = [req EXCEPT ![s].op = "create.commit", ![s].pick = b]
    BY <1>2 DEF CreateAssign
  <2>2. b \in Assessors \cup {NoUser}
    BY RolesAssumption DEF BestAssessors, Candidates
  <2>3. req[s] \in SoundFrame /\ req[s].op = "create.assign"
    BY <1>2 DEF CreateAssign, At, TypeInv
  <2>4. [req[s] EXCEPT !.op = "create.commit", !.pick = b] \in SoundFrame
    BY <2>2, <2>3 DEF SoundFrame, Frame, Ops
  <2>5. req' = [req EXCEPT ![s] = [req[s] EXCEPT !.op = "create.commit", !.pick = b]]
    BY <2>1 DEF TypeInv
  <2>6. req' \in [Slots -> SoundFrame]
    BY <2>4, <2>5, FrameStep
  <2> QED BY <1>2, <2>6 DEF TypeInv, TypeOK, CreateAssign, SoundFrame
<1>3. CASE CreateCommit(s)
  <2>1. req' \in [Slots -> SoundFrame]
    BY <1>3, FrameStep DEF CreateCommit
  <2>2. req[s].ticket \in Tickets /\ req[s].user \in Clients
    BY <1>3 DEF CreateCommit, At, TypeInv, SoundFrame
  <2>3. status' \in [Tickets -> TicketStatus \cup {"ABSENT"}]
    BY <1>3 DEF CreateCommit, TypeInv, TypeOK, TicketStatus
  <2>4. req[s].pick \in Assessors \cup {NoUser}
    BY <1>3 DEF CreateCommit, TypeInv, TypeOK
  <2>5. /\ client' \in [Tickets -> Clients \cup {NoUser}]
        /\ assessor' \in [Tickets -> Assessors \cup {NoUser}]
    BY <1>3, <2>2, <2>4 DEF CreateCommit, TypeInv, TypeOK
  <2>6. /\ chat' \subseteq Tickets
        /\ lastAssigned' \in [Assessors -> Nat] /\ clock' \in Nat
        /\ served' \in [Tickets -> SUBSET Assessors]
    <3>1. CASE req[s].pick = NoUser
      BY <1>3, <3>1 DEF CreateCommit, TypeInv, TypeOK
    <3>2. CASE req[s].pick # NoUser
      <4>1. req[s].pick \in Assessors
        BY <2>4, <3>2
      <4>2. /\ chat' = chat \cup {req[s].ticket}
            /\ clock' = clock + 1
            /\ lastAssigned' = [lastAssigned EXCEPT ![req[s].pick] = clock + 1]
            /\ served' = [served EXCEPT ![req[s].ticket] = @ \cup {req[s].pick}]
        BY <1>3, <3>2 DEF CreateCommit
      <4>3. served' \in [Tickets -> SUBSET Assessors]
        BY <4>1, <4>2 DEF TypeInv, TypeOK
      <4>4. lastAssigned' \in [Assessors -> Nat] /\ clock' \in Nat
        <5>1. lastAssigned \in [Assessors -> Nat] /\ clock \in Nat
          BY DEF TypeInv, TypeOK
        <5>2. clock + 1 \in Nat
          BY <5>1
        <5> QED BY <4>2, <5>1, <5>2
      <4> QED BY <2>2, <4>2, <4>3, <4>4 DEF TypeInv, TypeOK
    <3> QED BY <3>1, <3>2
  <2>7. UNCHANGED <<receipt, messages, noticeVars, accounts, available, timerVars,
                    faults, supplied>>
    BY <1>3 DEF CreateCommit
  <2> QED BY <2>1, <2>3, <2>5, <2>6, <2>7 DEF TypeInv, TypeOK, SoundFrame
<1> QED BY <1>1, <1>2, <1>3

LEMMA TakeType ==
  ASSUME TypeInv, NEW s \in Slots
  PROVE  /\ \A a \in Assessors, t \in Tickets : TakeCount(s, a, t) => TypeInv'
         /\ TakeWrite(s) => TypeInv'
<1>1. ASSUME NEW a \in Assessors, NEW t \in Tickets, TakeCount(s, a, t) PROVE TypeInv'
  <2>1. [Idle EXCEPT !.op = "take.write", !.ticket = t, !.user = a] \in SoundFrame
    BY DEF Idle, SoundFrame, Frame, Ops, Users, ReceiptStatus
  <2>2. req' \in [Slots -> SoundFrame]
    BY <1>1, <2>1, FrameStep DEF TakeCount
  <2> QED BY <1>1, <2>2 DEF TypeInv, TypeOK, TakeCount, SoundFrame
<1>2. CASE TakeWrite(s)
  <2>1. req' \in [Slots -> SoundFrame]
    BY <1>2, FrameStep DEF TakeWrite
  <2>2. req[s].ticket \in Tickets /\ req[s].user \in Assessors
    BY <1>2 DEF TakeWrite, At, TypeInv, SoundFrame
  <2>3. /\ status' \in [Tickets -> TicketStatus \cup {"ABSENT"}]
        /\ assessor' \in [Tickets -> Assessors \cup {NoUser}]
    BY <1>2, <2>2 DEF TakeWrite, TypeInv, TypeOK, TicketStatus
  <2>4. chat' \subseteq Tickets /\ served' \in [Tickets -> SUBSET Assessors]
    BY <1>2, <2>2 DEF TakeWrite, TypeInv, TypeOK
  <2>5. UNCHANGED <<client, receipt, messages, noticeVars, userVars, timerVars, faults,
                    supplied>>
    BY <1>2 DEF TakeWrite
  <2> QED BY <2>1, <2>3, <2>4, <2>5 DEF TypeInv, TypeOK, SoundFrame
<1> QED BY <1>1, <1>2

\* The update that closes a ticket keeps the ticket's columns well typed.
LEMMA CloseType ==
  ASSUME TypeOK, NEW t \in Tickets, NEW image \in Images \cup {NoImage},
         CloseTicket(t, image)
  PROVE  /\ status' \in [Tickets -> TicketStatus \cup {"ABSENT"}]
         /\ receipt' \in [Tickets -> Images \cup {NoImage}]
         /\ UNCHANGED <<client, assessor>>
  BY DEF CloseTicket, TypeOK, TicketStatus

LEMMA FinalizeType ==
  ASSUME TypeInv, NEW s \in Slots
  PROVE  /\ \A a \in Assessors, t \in Tickets : FinalizeRead(s, a, t) => TypeInv'
         /\ FinalizeWrite(s) => TypeInv'
<1>1. ASSUME NEW a \in Assessors, NEW t \in Tickets, FinalizeRead(s, a, t) PROVE TypeInv'
  <2>1. PICK image \in ProofToSave(t, a) :
          Start(s, [Idle EXCEPT !.op = "finalize.write", !.ticket = t, !.user = a,
                                !.image = image])
    BY <1>1 DEF FinalizeRead
  <2>2. image \in Images \cup {NoImage}
    BY ProofType DEF TypeInv
  <2>3. [Idle EXCEPT !.op = "finalize.write", !.ticket = t, !.user = a,
                     !.image = image] \in SoundFrame
    BY <2>2 DEF Idle, SoundFrame, Frame, Ops, Users, ReceiptStatus
  <2>4. req' \in [Slots -> SoundFrame]
    BY <2>1, <2>3, FrameStep
  <2> QED BY <1>1, <2>4 DEF TypeInv, TypeOK, FinalizeRead, SoundFrame
<1>2. CASE FinalizeWrite(s)
  <2>1. req' \in [Slots -> SoundFrame]
    BY <1>2, FrameStep DEF FinalizeWrite
  <2>2. req[s].ticket \in Tickets /\ req[s].image \in Images \cup {NoImage}
    BY <1>2 DEF FinalizeWrite, At, TypeInv, SoundFrame, Frame
  <2>3. /\ status' \in [Tickets -> TicketStatus \cup {"ABSENT"}]
        /\ receipt' \in [Tickets -> Images \cup {NoImage}]
        /\ UNCHANGED <<client, assessor>>
    BY <1>2, <2>2, CloseType DEF FinalizeWrite, TypeInv
  <2>4. UNCHANGED <<chatVars, noticeVars, userVars, timerVars, faults, historyVars>>
    BY <1>2 DEF FinalizeWrite
  <2> QED BY <2>1, <2>3, <2>4 DEF TypeInv, TypeOK, SoundFrame
<1> QED BY <1>1, <1>2

LEMMA PostType ==
  ASSUME TypeOK, NEW t \in Tickets, NEW u \in Users,
         NEW image \in Images \cup {NoImage}, Post(t, u, image)
  PROVE  messages' \in [Tickets -> Seq(Message)]
<1>1. [sender |-> u, image |-> image] \in Message
  BY DEF Message
<1>2. messages \in [Tickets -> Seq(Message)]
  BY DEF TypeOK
<1>3. Append(messages[t], [sender |-> u, image |-> image]) \in Seq(Message)
  BY <1>1, <1>2
<1> QED BY <1>2, <1>3 DEF Post

LEMMA WelcomeType ==
  ASSUME TypeInv, NEW s \in Slots
  PROVE  /\ \A t \in Tickets : CheckStatus(s, t) => TypeInv'
         /\ WelcomeRead(s) => TypeInv'
         /\ WelcomeSave(s) => TypeInv'
<1>1. ASSUME NEW t \in Tickets, CheckStatus(s, t) PROVE TypeInv'
  <2>1. [Idle EXCEPT !.op = "welcome.read", !.ticket = t] \in SoundFrame
    BY DEF Idle, SoundFrame, Frame, Ops, ReceiptStatus
  <2>2. req' \in [Slots -> SoundFrame]
    BY <1>1, <2>1, FrameStep DEF CheckStatus
  <2> QED BY <1>1, <2>2 DEF TypeInv, TypeOK, CheckStatus, SoundFrame
<1>2. CASE WelcomeRead(s)
  <2> DEFINE t == req[s].ticket
             f == [req[s] EXCEPT !.op = "welcome.save", !.user = assessor[t],
                                 !.image = QrOf[t]]
  <2>1. req[s] \in SoundFrame /\ t \in Tickets
    BY <1>2 DEF WelcomeRead, At, TypeInv, SoundFrame
  <2>2. assessor[t] \in Users \cup {NoUser} /\ QrOf[t] \in Images \cup {NoImage}
    BY <2>1, QrType DEF TypeInv, TypeOK, Users
  <2>3. f \in SoundFrame
    BY <2>1, <2>2 DEF SoundFrame, Frame, Ops
  <2>4. req' = [req EXCEPT ![s] = f] \/ Return(s)
    BY <1>2 DEF WelcomeRead, TypeInv
  <2>5. req' \in [Slots -> SoundFrame]
    BY <2>3, <2>4, FrameStep
  <2> QED BY <1>2, <2>5 DEF TypeInv, TypeOK, WelcomeRead, SoundFrame
<1>3. CASE WelcomeSave(s)
  <2>1. req' \in [Slots -> SoundFrame]
    BY <1>3, FrameStep, GoStep DEF WelcomeSave, At
  <2> QED BY <1>3, <2>1 DEF TypeInv, TypeOK, WelcomeSave, SoundFrame
<1> QED BY <1>1, <1>2, <1>3

LEMMA MessageType ==
  ASSUME TypeInv, NEW s \in Slots
  PROVE  /\ \A u \in Users, t \in Tickets, image \in Uploads \cup {NoImage} :
              SendMessage(s, u, t, image) => TypeInv'
         /\ MessageWrite(s) => TypeInv'
<1>1. ASSUME NEW u \in Users, NEW t \in Tickets, NEW image \in Uploads \cup {NoImage},
             SendMessage(s, u, t, image)
      PROVE  TypeInv'
  <2>1. image \in Images \cup {NoImage}
    BY DEF Images
  <2>2. [Idle EXCEPT !.op = "message.write", !.ticket = t, !.user = u,
                     !.image = image] \in SoundFrame
    BY <2>1 DEF Idle, SoundFrame, Frame, Ops, ReceiptStatus
  <2>3. req' \in [Slots -> SoundFrame]
    BY <1>1, <2>2, FrameStep DEF SendMessage
  <2> QED BY <1>1, <2>3 DEF TypeInv, TypeOK, SendMessage, SoundFrame
<1>2. CASE MessageWrite(s)
  <2>1. req' \in [Slots -> SoundFrame]
    BY <1>2, FrameStep DEF MessageWrite
  <2>2. /\ req[s].ticket \in Tickets /\ req[s].image \in Images \cup {NoImage}
        /\ req[s].user \in Users
    BY <1>2 DEF MessageWrite, At, TypeInv, SoundFrame, Frame, HasAccount
  <2>3. messages' \in [Tickets -> Seq(Message)]
    BY <1>2, <2>2, PostType DEF MessageWrite, TypeInv
  <2>4. UNCHANGED <<ticketVars, chat, noticeVars, userVars, timerVars, faults,
                    historyVars>>
    BY <1>2 DEF MessageWrite
  <2> QED BY <2>1, <2>3, <2>4 DEF TypeInv, TypeOK, SoundFrame
<1> QED BY <1>1, <1>2

LEMMA ArmType ==
  ASSUME TypeOK, NEW t \in Tickets, Arm(t)
  PROVE  timers' \subseteq Timer /\ timersSet' \in [Tickets -> Nat]
<1>1. timers \subseteq Timer /\ timersSet \in [Tickets -> Nat]
  BY DEF TypeOK
<1>2. timersSet[t] + 1 \in Nat
  BY <1>1
<1>3. Armed(t, timersSet[t] + 1) \in Timer
  BY <1>2 DEF Armed, Timer
<1> QED BY <1>1, <1>2, <1>3 DEF Arm

LEMMA SetTimerType ==
  ASSUME TypeInv, NEW s \in Slots
  PROVE  /\ \A u \in Users, t \in Tickets : SetTimer(s, u, t) => TypeInv'
         /\ TimerWrite(s) => TypeInv'
<1>1. ASSUME NEW u \in Users, NEW t \in Tickets, SetTimer(s, u, t) PROVE TypeInv'
  <2>1. [Idle EXCEPT !.op = "timer.write", !.ticket = t, !.user = u] \in SoundFrame
    BY DEF Idle, SoundFrame, Frame, Ops, ReceiptStatus
  <2>2. req' \in [Slots -> SoundFrame]
    BY <1>1, <2>1, FrameStep DEF SetTimer, TypeInv
  <2>3. timers' \subseteq Timer /\ timersSet' \in [Tickets -> Nat]
    BY <1>1, ArmType DEF SetTimer, TypeInv, TypeOK
  <2>4. UNCHANGED <<ticketVars, chatVars, noticeVars, userVars, faults, historyVars>>
    BY <1>1 DEF SetTimer
  <2> QED BY <2>2, <2>3, <2>4 DEF TypeInv, TypeOK, SoundFrame
<1>2. CASE TimerWrite(s)
  <2>1. req' \in [Slots -> SoundFrame]
    BY <1>2, FrameStep DEF TimerWrite
  <2>2. req[s].ticket \in Tickets
    BY <1>2 DEF TimerWrite, At, TypeInv, SoundFrame
  <2>3. messages' \in [Tickets -> Seq(Message)]
    <3>1. CASE HasAccount(req[s].user) /\ Post(req[s].ticket, req[s].user, NoImage)
      BY <2>2, <3>1, PostType DEF HasAccount, TypeInv
    <3>2. CASE UNCHANGED messages
      BY <3>2 DEF TypeInv, TypeOK
    <3> QED BY <1>2, <3>1, <3>2 DEF TimerWrite
  <2>4. timers' \subseteq Timer /\ timersSet' \in [Tickets -> Nat]
    BY <1>2, <2>2, ArmType DEF TimerWrite, TypeInv
  <2>5. UNCHANGED <<ticketVars, chat, noticeVars, userVars, faults, historyVars>>
    BY <1>2 DEF TimerWrite
  <2> QED BY <2>1, <2>3, <2>4, <2>5 DEF TypeInv, TypeOK, SoundFrame
<1> QED BY <1>1, <1>2

LEMMA CallbackType ==
  ASSUME TypeInv, NEW k \in timers
  PROVE  /\ TimerFire(k) => TypeInv'
         /\ AutoClose(k) => TypeInv'
         /\ TimerError(k) => TypeInv'
<1>0. k \in Timer
  BY DEF TypeInv, TypeOK
<1>1. CASE TimerFire(k)
  <2>1. ASSUME NEW image \in ProofToSave(k.ticket, assessor[k.ticket])
        PROVE  [k EXCEPT !.closing = TRUE, !.image = image] \in Timer
    <3>1. k.ticket \in Tickets
      BY <1>0 DEF Timer
    <3>2. image \in Images \cup {NoImage}
      BY <3>1, ProofType DEF TypeInv
    <3> QED BY <1>0, <3>2 DEF Timer
  <2>2. \/ timers' = timers \ {k}
        \/ \E image \in ProofToSave(k.ticket, assessor[k.ticket]) :
             timers' = (timers \ {k}) \cup {[k EXCEPT !.closing = TRUE, !.image = image]}
    BY <1>1 DEF TimerFire
  <2>3. timers' \subseteq Timer
    BY <2>1, <2>2 DEF TypeInv, TypeOK
  <2> QED BY <1>1, <2>3 DEF TypeInv, TypeOK, TimerFire, SoundFrame
<1>2. CASE AutoClose(k)
  <2>1. /\ status' \in [Tickets -> TicketStatus \cup {"ABSENT"}]
        /\ receipt' \in [Tickets -> Images \cup {NoImage}]
        /\ UNCHANGED <<client, assessor>>
    BY <1>0, <1>2, CloseType DEF AutoClose, TypeInv, Timer
  <2>2. /\ timers' = timers \ {k}
        /\ UNCHANGED <<chatVars, noticeVars, userVars, timersSet, req, faults,
                       historyVars>>
    BY <1>2 DEF AutoClose
  <2> QED BY <2>1, <2>2 DEF TypeInv, TypeOK, SoundFrame
<1>3. CASE TimerError(k)
  <2>1. faults' \in Nat
    <3>1. faults \in Nat
      BY DEF TypeInv, TypeOK
    <3> QED BY <1>3, <3>1 DEF TimerError
  <2> QED BY <1>3, <2>1 DEF TypeInv, TypeOK, TimerError, SoundFrame
<1> QED BY <1>1, <1>2, <1>3

LEMMA NoticeType ==
  ASSUME TypeInv, NEW s \in Slots
  PROVE  /\ \A a \in Assessors, t \in Tickets, image \in Images :
              NoticeRead(s, a, t, image) => TypeInv'
         /\ \A n \in Notices : NoticeWrite(s, n) => TypeInv'
<1>1. ASSUME NEW a \in Assessors, NEW t \in Tickets, NEW image \in Images,
             NoticeRead(s, a, t, image)
      PROVE  TypeInv'
  <2>1. [Idle EXCEPT !.op = "notice.write", !.ticket = t, !.user = a,
                     !.image = image] \in SoundFrame
    BY DEF Idle, SoundFrame, Frame, Ops, Users, ReceiptStatus
  <2>2. req' \in [Slots -> SoundFrame]
    BY <1>1, <2>1, FrameStep DEF NoticeRead
  <2> QED BY <1>1, <2>2 DEF TypeInv, TypeOK, NoticeRead, SoundFrame
<1>2. ASSUME NEW n \in Notices, NoticeWrite(s, n) PROVE TypeInv'
  <2> DEFINE row == [ticket |-> req[s].ticket, assessor |-> req[s].user,
                     manager |-> ManagerOf[req[s].user], image |-> req[s].image,
                     status |-> "PAYMENT_VERIFIED"]
  <2>1. req' \in [Slots -> SoundFrame]
    BY <1>2, FrameStep DEF NoticeWrite
  <2>2. /\ req[s].ticket \in Tickets /\ req[s].user \in Assessors
        /\ req[s].image \in Images \cup {NoImage}
    BY <1>2 DEF NoticeWrite, At, TypeInv, SoundFrame, Frame
  <2>3. row \in Notice
    BY <2>2, RolesAssumption DEF Notice, ReceiptStatus
  <2>4. notice' = [notice EXCEPT ![n] = row]
    BY <1>2 DEF NoticeWrite
  <2>5. notice' \in [Notices -> Notice]
    BY <2>3, <2>4 DEF TypeInv, TypeOK
  <2>6. UNCHANGED <<ticketVars, chatVars, review, userVars, timerVars, faults, historyVars>>
    BY <1>2 DEF NoticeWrite
  <2> QED BY <2>1, <2>5, <2>6 DEF TypeInv, TypeOK, SoundFrame
<1> QED BY <1>1, <1>2

LEMMA AnswerType ==
  ASSUME TypeInv, NEW s \in Slots
  PROVE  /\ \A n \in Notices, verdict \in ReceiptStatus, image \in Uploads \cup {NoImage} :
              AnswerRead(s, n, verdict, image) => TypeInv'
         /\ AnswerWrite(s) => TypeInv'
<1>1. ASSUME NEW n \in Notices, NEW verdict \in ReceiptStatus,
             NEW image \in Uploads \cup {NoImage}, AnswerRead(s, n, verdict, image)
      PROVE  TypeInv'
  <2> DEFINE f == [Idle EXCEPT !.op = "notice.update", !.ticket = notice[n].ticket,
                               !.user = notice[n].manager, !.notice = n,
                               !.verdict = verdict, !.image = image]
  <2>1. /\ notice[n].ticket \in Tickets
        /\ notice[n].manager \in Managers \cup {NoUser}
    BY <1>1 DEF AnswerRead, NoticeExists, TypeInv, TypeOK, Notice
  <2>2. image \in Images \cup {NoImage}
    BY DEF Images
  <2>3. f \in SoundFrame
    BY <2>1, <2>2 DEF Idle, SoundFrame, Frame, Ops, Users
  <2>4. req' \in [Slots -> SoundFrame]
    BY <1>1, <2>3, FrameStep DEF AnswerRead
  <2> QED BY <1>1, <2>4 DEF TypeInv, TypeOK, AnswerRead, SoundFrame
<1>2. CASE AnswerWrite(s)
  <2>1. req' \in [Slots -> SoundFrame]
    BY <1>2, FrameStep, GoStep DEF AnswerWrite, At
  <2>2. req[s].verdict \in ReceiptStatus /\ req[s].notice \in Notices
    BY <1>2 DEF AnswerWrite, At, TypeInv, SoundFrame, Frame
  <2>3. notice' = [notice EXCEPT ![req[s].notice].status = req[s].verdict]
    BY <1>2 DEF AnswerWrite
  <2>4. notice' \in [Notices -> Notice]
    <3>1. notice \in [Notices -> Notice]
      BY DEF TypeInv, TypeOK
    <3>2. [notice[req[s].notice] EXCEPT !.status = req[s].verdict] \in Notice
      BY <2>2, <3>1 DEF Notice
    <3> QED BY <2>2, <2>3, <3>1, <3>2
  <2>5. UNCHANGED <<ticketVars, chatVars, review, userVars, timerVars, faults, historyVars>>
    BY <1>2 DEF AnswerWrite
  <2> QED BY <2>1, <2>4, <2>5 DEF TypeInv, TypeOK, SoundFrame
<1> QED BY <1>1, <1>2

LEMMA VerdictType ==
  ASSUME TypeInv, NEW s \in Slots
  PROVE  /\ CancelTicket(s) => TypeInv'
         /\ AttachProof(s) => TypeInv'
<1>1. CASE CancelTicket(s)
  <2>1. req' \in [Slots -> SoundFrame]
    BY <1>1, FrameStep DEF CancelTicket
  <2>2. status' \in [Tickets -> TicketStatus \cup {"ABSENT"}]
    BY <1>1 DEF CancelTicket, TypeInv, TypeOK, TicketStatus
  <2> QED BY <1>1, <2>1, <2>2 DEF TypeInv, TypeOK, CancelTicket, SoundFrame
<1>2. CASE AttachProof(s)
  <2>1. req' \in [Slots -> SoundFrame]
    BY <1>2, FrameStep DEF AttachProof
  <2>2. req[s].ticket \in Tickets /\ req[s].image \in Images \cup {NoImage}
    BY <1>2 DEF AttachProof, At, TypeInv, SoundFrame, Frame
  <2>3. /\ receipt' \in [Tickets -> Images \cup {NoImage}]
        /\ supplied' \in [Tickets -> SUBSET Images]
    <3>1. CASE req[s].image = NoImage
      BY <1>2, <3>1 DEF AttachProof, TypeInv, TypeOK
    <3>2. CASE req[s].image # NoImage
      <4>1. /\ receipt' = [receipt EXCEPT ![req[s].ticket] = req[s].image]
            /\ supplied' = [supplied EXCEPT ![req[s].ticket] = @ \cup {req[s].image}]
        BY <1>2, <3>2 DEF AttachProof
      <4>2. supplied \in [Tickets -> SUBSET Images] /\ req[s].image \in Images
        BY <2>2, <3>2 DEF TypeInv, TypeOK
      <4>3. supplied' \in [Tickets -> SUBSET Images]
        BY <2>2, <4>1, <4>2
      <4> QED BY <2>2, <4>1, <4>3 DEF TypeInv, TypeOK
    <3> QED BY <3>1, <3>2
  <2>4. UNCHANGED <<status, client, assessor, chatVars, noticeVars, userVars, timerVars,
                    faults, served>>
    BY <1>2 DEF AttachProof
  <2> QED BY <2>1, <2>3, <2>4 DEF TypeInv, TypeOK, SoundFrame
<1> QED BY <1>1, <1>2

LEMMA ReviewType ==
  ASSUME TypeInv, NEW s \in Slots
  PROVE  /\ \A t \in Tickets : ReviewRead(s, t) => TypeInv'
         /\ ReviewWrite(s) => TypeInv'
<1>1. ASSUME NEW t \in Tickets, ReviewRead(s, t) PROVE TypeInv'
  <2>1. client[t] \in Users \cup {NoUser} /\ assessor[t] \in Assessors \cup {NoUser}
    BY DEF TypeInv, TypeOK, Users
  <2>2. [Idle EXCEPT !.op = "review.write", !.ticket = t, !.user = client[t],
                     !.pick = assessor[t]] \in SoundFrame
    BY <2>1 DEF Idle, SoundFrame, Frame, Ops, ReceiptStatus
  <2>3. req' \in [Slots -> SoundFrame]
    BY <1>1, <2>2, FrameStep DEF ReviewRead
  <2> QED BY <1>1, <2>3 DEF TypeInv, TypeOK, ReviewRead, SoundFrame
<1>2. CASE ReviewWrite(s)
  <2>1. req' \in [Slots -> SoundFrame]
    BY <1>2, FrameStep DEF ReviewWrite
  <2>2. review' \in [Tickets -> Assessors \cup {NoUser}]
    BY <1>2 DEF ReviewWrite, TypeInv, TypeOK
  <2> QED BY <1>2, <2>1, <2>2 DEF TypeInv, TypeOK, ReviewWrite, SoundFrame
<1> QED BY <1>1, <1>2

LEMMA PresenceType ==
  ASSUME TypeInv, NEW a \in Assessors
  PROVE  /\ isOnlineUser(a) => TypeInv'
         /\ isOffOnlineUser(a) => TypeInv'
         /\ DeleteAssessor(a) => TypeInv'
<1>1. CASE isOnlineUser(a)
  BY <1>1 DEF TypeInv, TypeOK, isOnlineUser, SoundFrame
<1>2. CASE isOffOnlineUser(a)
  BY <1>2 DEF TypeInv, TypeOK, isOffOnlineUser, SoundFrame
<1>3. CASE DeleteAssessor(a)
  <2>1. assessor' \in [Tickets -> Assessors \cup {NoUser}]
    BY <1>3 DEF DeleteAssessor, Orphaned, TypeInv, TypeOK
  <2>2. accounts' \subseteq Assessors /\ available' \subseteq accounts'
    BY <1>3 DEF DeleteAssessor, TypeInv, TypeOK
  <2>3. UNCHANGED <<status, client, receipt, chatVars, noticeVars, lastAssigned, clock,
                    timerVars, req, faults, historyVars>>
    BY <1>3 DEF DeleteAssessor
  <2> QED BY <2>1, <2>2, <2>3 DEF TypeInv, TypeOK, SoundFrame
<1> QED BY <1>1, <1>2, <1>3

LEMMA FailureType ==
  ASSUME TypeInv
  PROVE  /\ \A s \in Slots : RequestError(s) => TypeInv'
         /\ Restart => TypeInv'
<1>1. ASSUME NEW s \in Slots, RequestError(s) PROVE TypeInv'
  <2>1. req' \in [Slots -> SoundFrame]
    BY <1>1, FrameStep DEF RequestError
  <2> QED BY <1>1, <2>1 DEF TypeInv, TypeOK, RequestError, SoundFrame
<1>2. CASE Restart
  <2>1. req' \in [Slots -> SoundFrame]
    BY <1>2, IdleSound DEF Restart
  <2>2. faults' \in Nat
    <3>1. faults \in Nat
      BY DEF TypeInv, TypeOK
    <3> QED BY <1>2, <3>1 DEF Restart
  <2> QED BY <1>2, <2>1, <2>2 DEF TypeInv, TypeOK, Restart, SoundFrame
<1> QED BY <1>1, <1>2

LEMMA NextType == TypeInv /\ [Next]_vars => TypeInv'
<1> SUFFICES ASSUME TypeInv, [Next]_vars PROVE TypeInv'
  OBVIOUS
<1>1. ASSUME NEW s \in Slots, Request(s) PROVE TypeInv'
  BY <1>1, CreateType, TakeType, FinalizeType, WelcomeType, MessageType, SetTimerType,
     NoticeType, ReviewType DEF Request
<1>2. ASSUME NEW s \in Slots, Answer(s) PROVE TypeInv'
  BY <1>2, AnswerType DEF Answer
<1>3. ASSUME NEW s \in Slots, Continue(s) PROVE TypeInv'
  BY <1>3, CreateType, TakeType, FinalizeType, WelcomeType, MessageType, SetTimerType,
     NoticeType, AnswerType, VerdictType, ReviewType, FailureType DEF Continue
<1>4. ASSUME NEW k \in timers, Callback(k) PROVE TypeInv'
  BY <1>4, CallbackType DEF Callback
<1>5. ASSUME NEW a \in Assessors, Presence(a) PROVE TypeInv'
  BY <1>5, PresenceType DEF Presence
<1>6. CASE Restart
  BY <1>6, FailureType
<1>7. CASE UNCHANGED vars
  BY <1>7 DEF vars, TypeInv, TypeOK, SoundFrame
<1> QED BY <1>1, <1>2, <1>3, <1>4, <1>5, <1>6, <1>7 DEF Next

LEMMA TypeInvariant == Spec => []TypeInv
<1> QED BY InitType, NextType, PTL DEF Spec

\* Type correctness: every row, frame and timer keeps the shape its Prisma model
\* or handler gives it, through every interleaving of handlers, timers, deletions
\* and restarts.
THEOREM TypeCorrect == Spec => []TypeOK
<1>1. TypeInv => TypeOK
  BY DEF TypeInv
<1> QED BY <1>1, TypeInvariant, PTL

-----------------------------------------------------------------------------
(* Closing with proof.  SuccessHasProof alone is not inductive: a handler  *)
(* or a timer that found a receipt on the row writes none of its own, so   *)
(* the receipt it found must still be there when it writes.                *)

Unproved(t) == receipt[t] = NoImage

HandlersProved ==
  \A s \in Slots : (req[s].op = "finalize.write" /\ req[s].image = NoImage)
                      => ~Unproved(req[s].ticket)

TimersProved ==
  \A k \in timers : (k.closing /\ k.image = NoImage) => ~Unproved(k.ticket)

ProofInv == TypeInv /\ SuccessHasProof /\ HandlersProved /\ TimersProved

\* What every step respects: receipts are not erased, a ticket closes with one,
\* and whoever decides to close without an image of its own has seen one.
KeepsReceipts  == \A t \in Tickets : ~Unproved(t) => receipt'[t] # NoImage
ClosesProved   == \A t \in Tickets :
                    status'[t] = "SUCCESS" => status[t] = "SUCCESS" \/ receipt'[t] # NoImage
HandlersDecide == \A s \in Slots :
                    (req'[s].op = "finalize.write" /\ req'[s].image = NoImage)
                       => req'[s] = req[s] \/ ~Unproved(req'[s].ticket)
TimersDecide   == \A k \in timers' :
                    (k.closing /\ k.image = NoImage) => k \in timers \/ ~Unproved(k.ticket)
ProofKept == KeepsReceipts /\ ClosesProved /\ HandlersDecide /\ TimersDecide

LEMMA KeptIsInductive ==
  ASSUME ProofInv, TypeInv', ProofKept
  PROVE  ProofInv'
<1>1. SuccessHasProof'
  BY DEF ProofInv, ProofKept, SuccessHasProof, KeepsReceipts, ClosesProved, Unproved
<1>2. HandlersProved'
  <2> SUFFICES ASSUME NEW s \in Slots, req'[s].op = "finalize.write",
                      req'[s].image = NoImage
               PROVE  receipt'[req'[s].ticket] # NoImage
    BY DEF HandlersProved, Unproved
  <2>1. req'[s].ticket \in Tickets
    BY DEF TypeInv, SoundFrame
  <2>2. ~Unproved(req'[s].ticket)
    BY DEF ProofInv, HandlersProved, ProofKept, HandlersDecide
  <2> QED BY <2>1, <2>2 DEF ProofKept, KeepsReceipts
<1>3. TimersProved'
  <2> SUFFICES ASSUME NEW k \in timers', k.closing, k.image = NoImage
               PROVE  receipt'[k.ticket] # NoImage
    BY DEF TimersProved, Unproved
  <2>1. k.ticket \in Tickets
    BY DEF TypeInv, TypeOK, Timer
  <2>2. ~Unproved(k.ticket)
    BY DEF ProofInv, TimersProved, ProofKept, TimersDecide
  <2> QED BY <2>1, <2>2 DEF ProofKept, KeepsReceipts
<1> QED BY <1>1, <1>2, <1>3 DEF ProofInv

\* Putting a frame that is not about to close a ticket into a slot decides nothing.
LEMMA QuietFrame ==
  ASSUME TypeInv, NEW s \in Slots
  PROVE  /\ \A f : Start(s, f) /\ f.op # "finalize.write" => HandlersDecide
         /\ \A f : req' = [req EXCEPT ![s] = f] /\ f.op # "finalize.write" => HandlersDecide
         /\ \A op \in Ops : Go(s, op) /\ op # "finalize.write" => HandlersDecide
         /\ Return(s) => HandlersDecide
  BY DEF TypeInv, Start, Go, Return, Idle, HandlersDecide, SoundFrame, Frame

\* A step that closes no ticket and leaves receipts and timers alone.
LEMMA QuietStep ==
  ASSUME TypeInv, HandlersDecide, UNCHANGED <<receipt, timers>>,
         \A t \in Tickets : status'[t] = "SUCCESS" => status[t] = "SUCCESS"
  PROVE  ProofKept
  BY DEF ProofKept, KeepsReceipts, ClosesProved, TimersDecide, Unproved

\* The update that closes a ticket, with an image or with the receipt found.
LEMMA CloseKeeps ==
  ASSUME TypeInv, NEW t \in Tickets, NEW image, CloseTicket(t, image),
         image = NoImage => ~Unproved(t)
  PROVE  KeepsReceipts /\ ClosesProved
<1>1. receipt'[t] # NoImage
  BY DEF CloseTicket, TypeInv, TypeOK, Unproved
<1>2. \A u \in Tickets \ {t} : receipt'[u] = receipt[u] /\ status'[u] = status[u]
  BY DEF CloseTicket, TypeInv, TypeOK
<1> QED BY <1>1, <1>2 DEF KeepsReceipts, ClosesProved, Unproved

LEMMA RequestKeeps ==
  ASSUME TypeInv, NEW s \in Slots, Request(s)
  PROVE  ProofKept
<1> PICK t \in Tickets :
      \/ \E c \in Clients : CreateCount(s, c, t)
      \/ \E a \in Assessors : TakeCount(s, a, t) \/ FinalizeRead(s, a, t)
      \/ CheckStatus(s, t)
      \/ \E u \in Users, image \in Uploads \cup {NoImage} : SendMessage(s, u, t, image)
      \/ \E u \in Users : SetTimer(s, u, t)
      \/ \E a \in Assessors, image \in Images : NoticeRead(s, a, t, image)
      \/ ReviewRead(s, t)
  BY DEF Request
<1>1. ASSUME NEW c \in Clients, CreateCount(s, c, t) PROVE ProofKept
  BY <1>1, QuietFrame, QuietStep DEF CreateCount, Idle
<1>2. ASSUME NEW a \in Assessors, TakeCount(s, a, t) PROVE ProofKept
  BY <1>2, QuietFrame, QuietStep DEF TakeCount, Idle
<1>3. ASSUME NEW a \in Assessors, FinalizeRead(s, a, t) PROVE ProofKept
  <2>1. PICK image \in ProofToSave(t, a) :
          Start(s, [Idle EXCEPT !.op = "finalize.write", !.ticket = t, !.user = a,
                                !.image = image])
    BY <1>3 DEF FinalizeRead
  <2>2. image = NoImage => ~Unproved(t)
    BY ProofType DEF TypeInv, Unproved
  <2>3. HandlersDecide
    BY <2>1, <2>2 DEF HandlersDecide, TypeInv, Start, Idle
  <2> QED BY <1>3, <2>3, QuietStep DEF FinalizeRead
<1>4. CASE CheckStatus(s, t)
  BY <1>4, QuietFrame, QuietStep DEF CheckStatus, Idle
<1>5. ASSUME NEW u \in Users, NEW image \in Uploads \cup {NoImage},
             SendMessage(s, u, t, image)
      PROVE  ProofKept
  BY <1>5, QuietFrame, QuietStep DEF SendMessage, Idle
<1>6. ASSUME NEW u \in Users, SetTimer(s, u, t) PROVE ProofKept
  <2>1. HandlersDecide
    <3>1. CASE MaySend(t, u)
      BY <1>6, <3>1, QuietFrame DEF SetTimer, Idle
    <3>2. CASE ~MaySend(t, u)
      BY <1>6, <3>2 DEF SetTimer, HandlersDecide
    <3> QED BY <3>1, <3>2
  <2>2. TimersDecide
    <3>1. \/ UNCHANGED timers
          \/ timers' = timers \cup {Armed(t, timersSet[t] + 1)}
      BY <1>6 DEF SetTimer, Arm
    <3> QED BY <3>1 DEF Armed, TimersDecide
  <2> QED BY <1>6, <2>1, <2>2 DEF SetTimer, ProofKept, KeepsReceipts, ClosesProved, Unproved
<1>7. ASSUME NEW a \in Assessors, NEW image \in Images, NoticeRead(s, a, t, image)
      PROVE  ProofKept
  BY <1>7, QuietFrame, QuietStep DEF NoticeRead, Idle
<1>8. CASE ReviewRead(s, t)
  BY <1>8, QuietFrame, QuietStep DEF ReviewRead, Idle
<1> QED BY <1>1, <1>2, <1>3, <1>4, <1>5, <1>6, <1>7, <1>8

LEMMA ContinueKeeps ==
  ASSUME ProofInv, NEW s \in Slots, Continue(s)
  PROVE  ProofKept
<1>0. TypeInv
  BY DEF ProofInv
<1>1. CASE CreateAssign(s)
  <2>1. HandlersDecide
    BY <1>0, <1>1 DEF CreateAssign, HandlersDecide, TypeInv, SoundFrame, Frame
  <2> QED BY <1>0, <1>1, <2>1, QuietStep DEF CreateAssign
<1>2. CASE CreateCommit(s)
  <2>1. \A t \in Tickets : status'[t] = "SUCCESS" => status[t] = "SUCCESS"
    BY <1>0, <1>2 DEF CreateCommit, TypeInv, TypeOK
  <2> QED BY <1>0, <1>2, <2>1, QuietFrame, QuietStep DEF CreateCommit
<1>3. CASE TakeWrite(s)
  <2>1. \A t \in Tickets : status'[t] = "SUCCESS" => status[t] = "SUCCESS"
    BY <1>0, <1>3 DEF TakeWrite, TypeInv, TypeOK
  <2> QED BY <1>0, <1>3, <2>1, QuietFrame, QuietStep DEF TakeWrite
<1>4. CASE FinalizeWrite(s)
  <2>1. req[s].ticket \in Tickets
    BY <1>0, <1>4 DEF FinalizeWrite, At, TypeInv, SoundFrame
  <2>2. req[s].image = NoImage => ~Unproved(req[s].ticket)
    BY <1>4 DEF FinalizeWrite, At, ProofInv, HandlersProved
  <2>3. KeepsReceipts /\ ClosesProved
    BY <1>0, <1>4, <2>1, <2>2, CloseKeeps DEF FinalizeWrite
  <2> QED BY <1>0, <1>4, <2>3, QuietFrame DEF FinalizeWrite, ProofKept, TimersDecide
<1>5. CASE WelcomeRead(s)
  <2>1. HandlersDecide
    BY <1>0, <1>5, QuietFrame DEF WelcomeRead, HandlersDecide, TypeInv, SoundFrame, Frame
  <2> QED BY <1>0, <1>5, <2>1, QuietStep DEF WelcomeRead
<1>6. CASE WelcomeSave(s)
  BY <1>0, <1>6, QuietFrame, QuietStep DEF WelcomeSave, Ops
<1>7. CASE MessageWrite(s)
  BY <1>0, <1>7, QuietFrame, QuietStep DEF MessageWrite
<1>8. CASE TimerWrite(s)
  <2>1. TimersDecide
    BY <1>8 DEF TimerWrite, Arm, Armed, TimersDecide
  <2> QED BY <1>0, <1>8, <2>1, QuietFrame
       DEF TimerWrite, ProofKept, KeepsReceipts, ClosesProved, Unproved
<1>9. ASSUME NEW n \in Notices, NoticeWrite(s, n) PROVE ProofKept
  BY <1>0, <1>9, QuietFrame, QuietStep DEF NoticeWrite
<1>10. CASE AnswerWrite(s)
  <2>1. HandlersDecide
    BY <1>0, <1>10, QuietFrame DEF AnswerWrite, Ops
  <2> QED BY <1>0, <1>10, <2>1, QuietStep DEF AnswerWrite
<1>11. CASE CancelTicket(s)
  <2>1. \A t \in Tickets : status'[t] = "SUCCESS" => status[t] = "SUCCESS"
    BY <1>0, <1>11 DEF CancelTicket, TypeInv, TypeOK
  <2> QED BY <1>0, <1>11, <2>1, QuietFrame, QuietStep DEF CancelTicket
<1>12. CASE AttachProof(s)
  <2>1. KeepsReceipts
    BY <1>0, <1>12 DEF AttachProof, KeepsReceipts, Unproved, TypeInv, TypeOK
  <2> QED BY <1>0, <1>12, <2>1, QuietFrame
       DEF AttachProof, ProofKept, ClosesProved, TimersDecide
<1>13. CASE ReviewWrite(s)
  BY <1>0, <1>13, QuietFrame, QuietStep DEF ReviewWrite
<1>14. CASE RequestError(s)
  BY <1>0, <1>14, QuietFrame, QuietStep DEF RequestError
<1> QED BY <1>1, <1>2, <1>3, <1>4, <1>5, <1>6, <1>7, <1>8, <1>9, <1>10, <1>11, <1>12,
          <1>13, <1>14 DEF Continue

LEMMA CallbackKeeps ==
  ASSUME ProofInv, NEW k \in timers, Callback(k)
  PROVE  ProofKept
<1>0. TypeInv /\ k.ticket \in Tickets
  BY DEF ProofInv, TypeInv, TypeOK, Timer
<1>1. CASE TimerFire(k)
  <2>1. TimersDecide
    <3>1. CASE timers' = timers \ {k}
      BY <3>1 DEF TimersDecide
    <3>2. ASSUME NEW image \in ProofToSave(k.ticket, assessor[k.ticket]),
                 timers' = (timers \ {k}) \cup {[k EXCEPT !.closing = TRUE, !.image = image]}
          PROVE  TimersDecide
      <4>1. image = NoImage => ~Unproved(k.ticket)
        BY <1>0, ProofType DEF TypeInv, Unproved
      <4>2. k \in Timer
        BY <1>0 DEF TypeInv, TypeOK
      <4> QED BY <3>2, <4>1, <4>2 DEF TimersDecide, Timer
    <3> QED BY <1>1, <3>1, <3>2 DEF TimerFire
  <2> QED BY <1>1, <2>1
       DEF TimerFire, ProofKept, KeepsReceipts, ClosesProved, HandlersDecide, Unproved
<1>2. CASE AutoClose(k)
  <2>1. k.image = NoImage => ~Unproved(k.ticket)
    BY <1>2 DEF AutoClose, ProofInv, TimersProved
  <2>2. KeepsReceipts /\ ClosesProved
    BY <1>0, <1>2, <2>1, CloseKeeps DEF AutoClose
  <2> QED BY <1>2, <2>2 DEF AutoClose, ProofKept, HandlersDecide, TimersDecide
<1>3. CASE TimerError(k)
  BY <1>3 DEF TimerError, ProofKept, KeepsReceipts, ClosesProved, HandlersDecide,
     TimersDecide, Unproved
<1> QED BY <1>1, <1>2, <1>3 DEF Callback

LEMMA NextKeeps == ProofInv /\ [Next]_vars => ProofInv'
<1> SUFFICES ASSUME ProofInv, [Next]_vars PROVE ProofInv'
  OBVIOUS
<1>0. TypeInv /\ TypeInv'
  BY NextType DEF ProofInv
<1>1. ASSUME NEW s \in Slots, Request(s) PROVE ProofKept
  BY <1>0, <1>1, RequestKeeps
<1>2. ASSUME NEW s \in Slots, Answer(s) PROVE ProofKept
  BY <1>0, <1>2, QuietFrame, QuietStep DEF Answer, AnswerRead, Idle
<1>3. ASSUME NEW s \in Slots, Continue(s) PROVE ProofKept
  BY <1>3, ContinueKeeps
<1>4. ASSUME NEW k \in timers, Callback(k) PROVE ProofKept
  BY <1>4, CallbackKeeps
<1>5. ASSUME NEW a \in Assessors, Presence(a) PROVE ProofKept
  BY <1>5 DEF Presence, isOnlineUser, isOffOnlineUser, DeleteAssessor, ProofKept,
     KeepsReceipts, ClosesProved, HandlersDecide, TimersDecide, Unproved
<1>6. CASE Restart
  <2>1. ProofKept
    BY <1>6 DEF Restart, Idle, ProofKept, KeepsReceipts, ClosesProved, HandlersDecide,
       TimersDecide, Unproved
  <2> QED BY <1>0, <2>1, KeptIsInductive
<1>7. CASE UNCHANGED vars
  BY <1>7, <1>0 DEF vars, ProofInv, SuccessHasProof, HandlersProved, TimersProved, Unproved
<1> QED BY <1>0, <1>1, <1>2, <1>3, <1>4, <1>5, <1>6, <1>7, KeptIsInductive DEF Next

LEMMA InitProved == Init => ProofInv
  BY InitType DEF Init, ProofInv, SuccessHasProof, HandlersProved, TimersProved, Idle

LEMMA ProofInvariant == Spec => []ProofInv
<1> QED BY InitProved, NextKeeps, PTL DEF Spec

\* A ticket in SUCCESS has a receipt image: finalizeTicket and autoFinalizeTicket
\* decide on a row they read earlier, and no handler, timer, deletion or restart
\* that runs in between can take the proof away.
THEOREM ClosedWithProof == Spec => []SuccessHasProof
<1>1. ProofInv => SuccessHasProof
  BY DEF ProofInv
<1> QED BY <1>1, ProofInvariant, PTL

-----------------------------------------------------------------------------
(* Custody and evidence.  What a ticket, a notice and a review say of each *)
(* other is kept by handlers that act on what they read earlier, so the    *)
(* invariant also says what each suspended handler and each closing timer  *)
(* knows, in terms that no later step takes back: who has held the ticket, *)
(* which images were posted in its chat, which a manager supplied.         *)

\* Nothing refers to t yet.
Blank(t) ==
  /\ assessor[t] = NoUser /\ receipt[t] = NoImage /\ review[t] = NoUser
  /\ t \notin chat /\ messages[t] = <<>>
  /\ \A n \in Notices : notice[n].ticket # t

Waiting == \A t \in Tickets : status[t] \in {"ABSENT", "PENDING"} <=> served[t] = {}

BlankUntilServed == \A t \in Tickets : served[t] = {} => Blank(t)

Custody == Waiting /\ BlankUntilServed /\ OrphanLostItsAssessor

Posted(t, image) == \E i \in DOMAIN messages[t] : messages[t][i].image = image

PostedByServer(t, image) ==
  \E i \in DOMAIN messages[t] : /\ messages[t][i].image = image
                                /\ messages[t][i].sender \in served[t]

Sourced(t, image) == image \in supplied[t] \/ PostedByServer(t, image)
Shown(t, image)   == image \in supplied[t] \/ Posted(t, image)

\* What the handler with frame f knows of its ticket while it is suspended.
Knows(f) ==
  /\ f.op = "take.write" => Exists(f.ticket)
  /\ f.op \notin {"idle", "create.assign", "create.commit", "take.write"}
       => served[f.ticket] # {}
  /\ f.op = "finalize.write" => f.image = NoImage \/ Sourced(f.ticket, f.image)
  /\ f.op = "notice.write" => /\ f.user \in served[f.ticket]
                              /\ f.image # NoImage /\ Shown(f.ticket, f.image)
  /\ f.op = "review.write" => f.pick \in served[f.ticket]

\* What a timer past its read knows of the ticket it is about to close.
Foresees(k) ==
  k.closing => /\ served[k.ticket] # {}
               /\ k.image = NoImage \/ Sourced(k.ticket, k.image)

\* The evidence of a notice, independent of what the receipt is by now.
Backed(row) ==
  /\ row.assessor \in served[row.ticket]
  /\ row.manager = ManagerOf[row.assessor]
  /\ row.image # NoImage /\ Shown(row.ticket, row.image)

NoticesBacked == \A n \in Notices :
  NoticeExists(n) => Backed(notice[n]) /\ notice[n].assessor \in accounts

FramesKnow == \A s \in Slots : Knows(req[s])
TimersKnow == \A k \in timers : Foresees(k)

DeskInv ==
  /\ TypeInv /\ Custody /\ ReceiptProvenance /\ ReviewCreditsServer /\ NoticesBacked
  /\ FramesKnow /\ TimersKnow

\* What every step respects.  What has happened stays so; a receipt, a notice or
\* a review is written with its evidence; and a handler or a timer learns only
\* what holds when it reads.
Lasts ==
  /\ \A t \in Tickets : served[t] \subseteq served'[t] /\ supplied[t] \subseteq supplied'[t]
  /\ \A t \in Tickets : Exists(t) => status'[t] # "ABSENT"
  /\ \A t \in Tickets : \A i \in DOMAIN messages[t] :
       i \in DOMAIN messages'[t] /\ messages'[t][i] = messages[t][i]

ReceiptsSourced == \A t \in Tickets :
  \/ receipt'[t] \in {receipt[t], NoImage}
  \/ receipt'[t] \in supplied'[t] \/ PostedByServer(t, receipt'[t])
NoticesEvident  == \A n \in Notices : notice'[n].ticket # NoTicket =>
  Backed(notice'[n]) /\ notice'[n].assessor \in accounts'
ReviewsEarned   == \A t \in Tickets : review'[t] # NoUser =>
  review'[t] \in served[t] \cap accounts'
FramesLearn     == \A s \in Slots : req'[s] = req[s] \/ Knows(req'[s])
TimersLearn     == \A k \in timers' : k \in timers \/ Foresees(k)

DeskKept ==
  /\ Custody' /\ Lasts /\ ReceiptsSourced /\ NoticesEvident /\ ReviewsEarned
  /\ FramesLearn /\ TimersLearn

\* Evidence, and so what a handler or a timer knows, is never lost again.
LEMMA KnowledgeLasts ==
  ASSUME Lasts
  PROVE  /\ \A t \in Tickets : \A image : Sourced(t, image) => Sourced(t, image)'
         /\ \A t \in Tickets : \A image : Shown(t, image) => Shown(t, image)'
         /\ \A f \in SoundFrame : Knows(f) => Knows(f)'
         /\ \A k \in Timer : Foresees(k) => Foresees(k)'
<1>1. ASSUME NEW t \in Tickets, NEW image, Sourced(t, image) PROVE Sourced(t, image)'
  BY <1>1 DEF Lasts, Sourced, PostedByServer
<1>2. ASSUME NEW t \in Tickets, NEW image, Shown(t, image) PROVE Shown(t, image)'
  BY <1>2 DEF Lasts, Shown, Posted
<1>3. \A t \in Tickets : /\ served[t] # {} => served'[t] # {}
                         /\ Exists(t) => Exists(t)'
                         /\ served[t] \subseteq served'[t]
  BY DEF Lasts, Exists
<1>4. ASSUME NEW f \in SoundFrame, Knows(f) PROVE Knows(f)'
  <2>1. f.op # "idle" => f.ticket \in Tickets
    BY DEF SoundFrame
  <2> QED BY <1>1, <1>2, <1>3, <1>4, <2>1 DEF Knows
<1>5. ASSUME NEW k \in Timer, Foresees(k) PROVE Foresees(k)'
  <2>1. k.ticket \in Tickets
    BY DEF Timer
  <2> QED BY <1>1, <1>3, <1>5, <2>1 DEF Foresees
<1> QED BY <1>1, <1>2, <1>4, <1>5

LEMMA DeskKeptIsInductive ==
  ASSUME DeskInv, TypeInv', DeskKept
  PROVE  DeskInv'
<1>0. Lasts
  BY DEF DeskKept
<1>1. ReceiptProvenance'
  <2> SUFFICES ASSUME NEW t \in Tickets, NEW image, image = receipt'[t], image # NoImage
               PROVE  Sourced(t, image)'
    BY DEF ReceiptProvenance, Sourced, PostedByServer
  <2>1. receipt[t] # NoImage => Sourced(t, receipt[t])
    BY DEF DeskInv, ReceiptProvenance, Sourced, PostedByServer
  <2>2. image \in supplied'[t] \/ Sourced(t, image)
    BY <2>1 DEF DeskKept, ReceiptsSourced, Sourced
  <2>3. image \in supplied'[t] \/ Sourced(t, image)'
    BY <1>0, <2>2, KnowledgeLasts
  <2> QED BY <2>3 DEF Sourced
<1>2. ReviewCreditsServer'
  BY DEF DeskKept, ReviewsEarned, Lasts, ReviewCreditsServer
<1>3. NoticesBacked'
  <2> SUFFICES ASSUME NEW n \in Notices, notice'[n].ticket # NoTicket
               PROVE  Backed(notice[n])' /\ notice'[n].assessor \in accounts'
    BY DEF NoticesBacked, NoticeExists
  <2> PICK row : row = notice'[n]
    OBVIOUS
  <2>1. row.ticket \in Tickets
    BY DEF TypeInv, TypeOK, Notice
  <2>2. Backed(row) /\ row.assessor \in accounts'
    BY DEF DeskKept, NoticesEvident
  <2>3. Shown(row.ticket, row.image)'
    BY <1>0, <2>1, <2>2, KnowledgeLasts DEF Backed
  <2>4. row.assessor \in served'[row.ticket]
    BY <1>0, <2>1, <2>2 DEF Backed, Lasts
  <2> QED BY <2>2, <2>3, <2>4 DEF Backed, Shown, Posted
<1>4. FramesKnow'
  <2> SUFFICES ASSUME NEW s \in Slots PROVE Knows(req[s])'
    BY DEF FramesKnow
  <2> PICK f : f = req'[s]
    OBVIOUS
  <2>1. f \in SoundFrame
    BY DEF TypeInv
  <2>2. Knows(f)
    BY DEF DeskInv, FramesKnow, DeskKept, FramesLearn
  <2>3. Knows(f)'
    BY <1>0, <2>1, <2>2, KnowledgeLasts
  <2> QED BY <2>3 DEF Knows, Sourced, PostedByServer, Shown, Posted, Exists
<1>5. TimersKnow'
  <2> SUFFICES ASSUME NEW k \in timers' PROVE Foresees(k)'
    BY DEF TimersKnow
  <2>1. k \in Timer
    BY DEF TypeInv, TypeOK
  <2>2. Foresees(k)
    BY DEF DeskInv, TimersKnow, DeskKept, TimersLearn
  <2> QED BY <1>0, <2>1, <2>2, KnowledgeLasts
<1> QED BY <1>1, <1>2, <1>3, <1>4, <1>5 DEF DeskInv, DeskKept

\* A frame that knows its ticket enters a slot, or the slot becomes free.
LEMMA FrameLearns ==
  ASSUME TypeInv, NEW s \in Slots
  PROVE  /\ \A f : Knows(f) /\ Start(s, f) => FramesLearn
         /\ \A f : Knows(f) /\ req' = [req EXCEPT ![s] = f] => FramesLearn
         /\ Return(s) => FramesLearn
         /\ UNCHANGED req => FramesLearn
<1>1. Knows(Idle)
  BY DEF Knows, Idle
<1> QED BY <1>1 DEF TypeInv, Start, Return, FramesLearn

\* A handler that goes on to a later await of the same ticket knows it still.
LEMMA GoLearns ==
  ASSUME DeskInv, NEW s \in Slots,
         req[s].op \in {"welcome.save", "notice.update"},
         NEW op \in {"message.write", "ticket.cancel", "ticket.attach"}, Go(s, op)
  PROVE  FramesLearn
<1>1. req[s] \in SoundFrame /\ Knows(req[s])
  BY DEF DeskInv, TypeInv, FramesKnow
<1>2. Knows([req[s] EXCEPT !.op = op])
  BY <1>1 DEF Knows, SoundFrame, Frame
<1>3. req' = [req EXCEPT ![s] = [req[s] EXCEPT !.op = op]]
  BY DEF Go
<1> QED BY <1>2, <1>3, FrameLearns DEF DeskInv

\* A step that leaves the rows alone keeps what they say of each other.
LEMMA StillStep ==
  ASSUME DeskInv, FramesLearn, TimersLearn,
         UNCHANGED <<status, assessor, receipt, chat, messages, notice, review,
                     accounts, served, supplied>>
  PROVE  DeskKept
<1>1. Custody'
  BY DEF DeskInv, Custody, Waiting, BlankUntilServed, Blank, OrphanLostItsAssessor
<1>2. Lasts /\ ReceiptsSourced
  BY DEF Lasts, Exists, ReceiptsSourced
<1>3. NoticesEvident
  BY DEF DeskInv, NoticesBacked, NoticeExists, NoticesEvident
<1>4. ReviewsEarned
  BY DEF DeskInv, ReviewCreditsServer, ReviewsEarned
<1> QED BY <1>1, <1>2, <1>3, <1>4 DEF DeskKept

\* Steps that arm, drop or leave the timers foresee nothing new.
LEMMA IdleTimers ==
  /\ UNCHANGED timers => TimersLearn
  /\ timers' \subseteq timers => TimersLearn
  /\ \A t \in Tickets : Arm(t) => TimersLearn
  BY DEF TimersLearn, Arm, Armed, Foresees

\* Whoever holds a ticket has been recorded as serving it, and a ticket with a
\* chat, a notice or a status past PENDING has been served.
LEMMA ServedTicket ==
  ASSUME DeskInv, NEW t \in Tickets
  PROVE  /\ assessor[t] # NoUser => assessor[t] \in served[t]
         /\ \/ assessor[t] # NoUser \/ t \in chat \/ status[t] \notin {"ABSENT", "PENDING"}
            \/ \E n \in Notices : notice[n].ticket = t
            => served[t] # {}
  BY DEF DeskInv, Custody, Waiting, BlankUntilServed, Blank, OrphanLostItsAssessor

\* The proof a handler or a timer reads was posted by who held the ticket then.
LEMMA ProofSourced ==
  ASSUME DeskInv, NEW t \in Tickets, NEW image \in ProofToSave(t, assessor[t])
  PROVE  image = NoImage \/ Sourced(t, image)
<1> SUFFICES ASSUME image # NoImage PROVE PostedByServer(t, image)
  BY DEF Sourced
<1>1. PICK i \in ImagesBy(t, assessor[t]) : image = messages[t][i].image
  BY DEF ProofToSave, LatestImage
<1>2. i \in DOMAIN messages[t] /\ messages[t][i].sender = assessor[t]
  BY <1>1 DEF ImagesBy
<1>3. messages[t][i] \in Message
  <2>1. messages[t] \in Seq(Message)
    BY DEF DeskInv, TypeInv, TypeOK
  <2> QED BY <1>2, <2>1
<1>4. assessor[t] # NoUser
  BY <1>2, <1>3, RolesAssumption DEF Message
<1> QED BY <1>1, <1>2, <1>4, ServedTicket DEF PostedByServer

\* Every image offered for a notice has been shown in the ticket's chat or was
\* supplied to it: even the receipt, wherever it came from.
LEMMA CandidatesShown ==
  ASSUME DeskInv, NEW t \in Tickets, NEW image \in CandidateImages(t)
  PROVE  image # NoImage /\ Shown(t, image)
<1>1. image # NoImage
  BY DEF CandidateImages
<1>2. CASE \E i \in DOMAIN messages[t] : image = messages[t][i].image
  BY <1>1, <1>2 DEF Shown, Posted
<1>3. CASE image = receipt[t]
  BY <1>1, <1>3 DEF DeskInv, ReceiptProvenance, Shown, Posted
<1> QED BY <1>1, <1>2, <1>3 DEF CandidateImages

LEMMA TicketRequestsLearn ==
  ASSUME DeskInv, NEW s \in Slots, NEW t \in Tickets
  PROVE  /\ \A c \in Clients : CreateCount(s, c, t) => DeskKept
         /\ \A a \in Assessors : TakeCount(s, a, t) => DeskKept
         /\ \A a \in Assessors : FinalizeRead(s, a, t) => DeskKept
<1>0. TypeInv
  BY DEF DeskInv
<1>1. ASSUME NEW c \in Clients, CreateCount(s, c, t) PROVE DeskKept
  <2>1. Knows([Idle EXCEPT !.op = "create.assign", !.ticket = t, !.user = c])
    BY DEF Knows, Idle
  <2>2. FramesLearn
    BY <1>0, <1>1, <2>1, FrameLearns DEF CreateCount
  <2> QED BY <1>1, <2>2, StillStep, IdleTimers DEF CreateCount
<1>2. ASSUME NEW a \in Assessors, TakeCount(s, a, t) PROVE DeskKept
  <2>1. Knows([Idle EXCEPT !.op = "take.write", !.ticket = t, !.user = a])
    BY <1>2 DEF Knows, Idle, TakeCount
  <2>2. FramesLearn
    BY <1>0, <1>2, <2>1, FrameLearns DEF TakeCount
  <2> QED BY <1>2, <2>2, StillStep, IdleTimers DEF TakeCount
<1>3. ASSUME NEW a \in Assessors, FinalizeRead(s, a, t) PROVE DeskKept
  <2>1. PICK image \in ProofToSave(t, a) :
          Start(s, [Idle EXCEPT !.op = "finalize.write", !.ticket = t, !.user = a,
                                !.image = image])
    BY <1>3 DEF FinalizeRead
  <2>2. image = NoImage \/ Sourced(t, image)
    BY <1>3, ProofSourced DEF FinalizeRead
  <2>3. served[t] # {}
    BY <1>3, ServedTicket DEF FinalizeRead
  <2>4. Knows([Idle EXCEPT !.op = "finalize.write", !.ticket = t, !.user = a,
                           !.image = image])
    BY <2>2, <2>3 DEF Knows, Idle
  <2>5. FramesLearn
    BY <1>0, <2>1, <2>4, FrameLearns
  <2> QED BY <1>3, <2>5, StillStep, IdleTimers DEF FinalizeRead
<1> QED BY <1>1, <1>2, <1>3

LEMMA ChatRequestsLearn ==
  ASSUME DeskInv, NEW s \in Slots, NEW t \in Tickets
  PROVE  /\ CheckStatus(s, t) => DeskKept
         /\ \A u \in Users : \A image \in Uploads \cup {NoImage} :
              SendMessage(s, u, t, image) => DeskKept
         /\ \A u \in Users : SetTimer(s, u, t) => DeskKept
<1>0. TypeInv
  BY DEF DeskInv
<1>1. CASE CheckStatus(s, t)
  <2>1. served[t] # {}
    BY <1>1, ServedTicket DEF CheckStatus
  <2>2. Knows([Idle EXCEPT !.op = "welcome.read", !.ticket = t])
    BY <2>1 DEF Knows, Idle
  <2>3. FramesLearn
    BY <1>0, <1>1, <2>2, FrameLearns DEF CheckStatus
  <2> QED BY <1>1, <2>3, StillStep, IdleTimers DEF CheckStatus
<1>2. ASSUME NEW u \in Users, NEW image \in Uploads \cup {NoImage},
             SendMessage(s, u, t, image)
      PROVE  DeskKept
  <2>1. served[t] # {}
    BY <1>2, ServedTicket DEF SendMessage, MaySend
  <2>2. Knows([Idle EXCEPT !.op = "message.write", !.ticket = t, !.user = u,
                           !.image = image])
    BY <2>1 DEF Knows, Idle
  <2>3. FramesLearn
    BY <1>0, <1>2, <2>2, FrameLearns DEF SendMessage
  <2> QED BY <1>2, <2>3, StillStep, IdleTimers DEF SendMessage
<1>3. ASSUME NEW u \in Users, SetTimer(s, u, t) PROVE DeskKept
  <2>1. CASE MaySend(t, u)
    <3>1. served[t] # {}
      BY <2>1, ServedTicket DEF MaySend
    <3>2. Knows([Idle EXCEPT !.op = "timer.write", !.ticket = t, !.user = u])
      BY <3>1 DEF Knows, Idle
    <3>3. FramesLearn
      BY <1>0, <1>3, <2>1, <3>2, FrameLearns DEF SetTimer
    <3> QED BY <1>3, <2>1, <3>3, StillStep, IdleTimers DEF SetTimer
  <2>2. CASE ~MaySend(t, u)
    <3>1. FramesLearn /\ TimersLearn
      BY <1>0, <1>3, <2>2, FrameLearns, IdleTimers DEF SetTimer
    <3> QED BY <1>3, <3>1, StillStep DEF SetTimer
  <2> QED BY <2>1, <2>2
<1> QED BY <1>1, <1>2, <1>3

LEMMA EvidenceRequestsLearn ==
  ASSUME DeskInv, NEW s \in Slots
  PROVE  /\ \A t \in Tickets : \A a \in Assessors : \A image \in Images :
              NoticeRead(s, a, t, image) => DeskKept
         /\ \A t \in Tickets : ReviewRead(s, t) => DeskKept
         /\ Answer(s) => DeskKept
<1>0. TypeInv
  BY DEF DeskInv
<1>1. ASSUME NEW t \in Tickets, NEW a \in Assessors, NEW image \in Images,
             NoticeRead(s, a, t, image)
      PROVE  DeskKept
  <2>1. assessor[t] = a /\ a # NoUser
    BY <1>1, RolesAssumption DEF NoticeRead, Users
  <2>2. a \in served[t]
    BY <2>1, ServedTicket
  <2>3. image # NoImage /\ Shown(t, image)
    BY <1>1, CandidatesShown DEF NoticeRead
  <2>4. Knows([Idle EXCEPT !.op = "notice.write", !.ticket = t, !.user = a,
                           !.image = image])
    BY <2>2, <2>3 DEF Knows, Idle
  <2>5. FramesLearn
    BY <1>0, <1>1, <2>4, FrameLearns DEF NoticeRead
  <2> QED BY <1>1, <2>5, StillStep, IdleTimers DEF NoticeRead
<1>2. ASSUME NEW t \in Tickets, ReviewRead(s, t) PROVE DeskKept
  <2>1. assessor[t] \in served[t]
    BY <1>2, ServedTicket DEF ReviewRead
  <2>2. Knows([Idle EXCEPT !.op = "review.write", !.ticket = t, !.user = client[t],
                           !.pick = assessor[t]])
    BY <2>1 DEF Knows, Idle
  <2>3. FramesLearn
    BY <1>0, <1>2, <2>2, FrameLearns DEF ReviewRead
  <2> QED BY <1>2, <2>3, StillStep, IdleTimers DEF ReviewRead
<1>3. ASSUME NEW n \in Notices, NEW verdict \in ReceiptStatus,
             NEW image \in Uploads \cup {NoImage}, AnswerRead(s, n, verdict, image)
      PROVE  DeskKept
  <2> DEFINE f == [Idle EXCEPT !.op = "notice.update", !.ticket = notice[n].ticket,
                               !.user = notice[n].manager, !.notice = n,
                               !.verdict = verdict, !.image = image]
  <2>1. notice[n].ticket \in Tickets
    BY <1>0, <1>3 DEF AnswerRead, NoticeExists, TypeInv, TypeOK, Notice
  <2>2. served[notice[n].ticket] # {}
    BY <2>1, ServedTicket
  <2>3. f.op = "notice.update" /\ f.ticket = notice[n].ticket
    BY DEF Idle
  <2>4. Knows(f)
    BY <2>2, <2>3 DEF Knows
  <2>5. FramesLearn
    BY <1>0, <1>3, <2>4, FrameLearns DEF AnswerRead
  <2> QED BY <1>3, <2>5, StillStep, IdleTimers DEF AnswerRead
<1> QED BY <1>1, <1>2, <1>3 DEF Answer

-----------------------------------------------------------------------------
(* The writes.                                                             *)

\* A step that changes nobody's custody and writes only to tickets that have
\* been served, which it leaves in a status past PENDING.
LEMMA SteadyCustody ==
  ASSUME DeskInv, UNCHANGED <<assessor, chat, accounts, served>>,
         \A t \in Tickets : served[t] = {} =>
           /\ status'[t] = status[t] /\ receipt'[t] = receipt[t]
           /\ messages'[t] = messages[t] /\ review'[t] = review[t],
         \A t \in Tickets : served[t] # {} => status'[t] \notin {"ABSENT", "PENDING"},
         \A n \in Notices : notice'[n].ticket # notice[n].ticket
                              => served[notice'[n].ticket] # {}
  PROVE  Custody'
<1>1. Waiting'
  BY DEF DeskInv, Custody, Waiting
<1>2. OrphanLostItsAssessor'
  BY DEF DeskInv, Custody, OrphanLostItsAssessor
<1>3. BlankUntilServed'
  <2> SUFFICES ASSUME NEW t \in Tickets, served[t] = {} PROVE Blank(t)'
    BY DEF BlankUntilServed
  <2>1. Blank(t)
    BY DEF DeskInv, Custody, BlankUntilServed
  <2> QED BY <2>1 DEF Blank
<1> QED BY <1>1, <1>2, <1>3 DEF Custody

\* The notices and reviews a step leaves alone keep their evidence.
LEMMA EvidenceKept ==
  ASSUME DeskInv, UNCHANGED accounts
  PROVE  /\ UNCHANGED notice => NoticesEvident
         /\ UNCHANGED review => ReviewsEarned
  BY DEF DeskInv, NoticesBacked, NoticeExists, NoticesEvident, ReviewCreditsServer,
     ReviewsEarned

\* The update of finalizeTicket and autoFinalizeTicket.
LEMMA CloseStep ==
  ASSUME DeskInv, FramesLearn, TimersLearn, NEW t \in Tickets, served[t] # {},
         NEW image, image = NoImage \/ Sourced(t, image), CloseTicket(t, image),
         UNCHANGED <<chat, messages, notice, review, accounts, served, supplied>>
  PROVE  DeskKept
<1>0. TypeOK /\ Waiting
  BY DEF DeskInv, TypeInv, Custody
<1>1. /\ status'[t] = "SUCCESS"
      /\ receipt'[t] = receipt[t] \/ (receipt'[t] = image /\ image # NoImage)
      /\ \A u \in Tickets \ {t} : status'[u] = status[u] /\ receipt'[u] = receipt[u]
      /\ UNCHANGED assessor
  BY <1>0 DEF CloseTicket, TypeOK
<1>2. Custody'
  <2>1. \A u \in Tickets : served[u] # {} => status'[u] \notin {"ABSENT", "PENDING"}
    BY <1>0, <1>1 DEF Waiting
  <2>2. \A u \in Tickets : served[u] = {} => /\ status'[u] = status[u] /\ receipt'[u] = receipt[u]
           /\ messages'[u] = messages[u] /\ review'[u] = review[u]
    BY <1>1
  <2>3. UNCHANGED <<assessor, chat, accounts, served>> /\ UNCHANGED notice
    BY <1>1
  <2> QED BY <2>1, <2>2, <2>3, SteadyCustody
<1>3. Lasts
  BY <1>1 DEF Lasts, Exists
<1>4. ReceiptsSourced
  BY <1>1 DEF ReceiptsSourced, Sourced
<1> QED BY <1>2, <1>3, <1>4, EvidenceKept DEF DeskKept

\* The insertion of a message in the chat of a served ticket.
LEMMA PostStep ==
  ASSUME DeskInv, FramesLearn, TimersLearn, NEW t \in Tickets, served[t] # {},
         NEW u, NEW image, Post(t, u, image),
         UNCHANGED <<status, assessor, receipt, chat, notice, review, accounts, served,
                     supplied>>
  PROVE  DeskKept
<1>0. TypeOK /\ Waiting
  BY DEF DeskInv, TypeInv, Custody
<1>1. /\ messages'[t] = Append(messages[t], [sender |-> u, image |-> image])
      /\ \A v \in Tickets \ {t} : messages'[v] = messages[v]
  BY <1>0 DEF Post, TypeOK
<1>2. \A i \in DOMAIN messages[t] :
        i \in DOMAIN messages'[t] /\ messages'[t][i] = messages[t][i]
  <2>1. messages[t] \in Seq(Message)
    BY <1>0 DEF TypeOK
  <2> QED BY <1>1, <2>1
<1>3. Custody'
  <2>1. \A v \in Tickets : served[v] # {} => status'[v] \notin {"ABSENT", "PENDING"}
    BY <1>0 DEF Waiting
  <2>2. \A v \in Tickets : served[v] = {} => /\ status'[v] = status[v] /\ receipt'[v] = receipt[v]
           /\ messages'[v] = messages[v] /\ review'[v] = review[v]
    BY <1>1
  <2> QED BY <2>1, <2>2, SteadyCustody
<1>4. Lasts
  BY <1>1, <1>2 DEF Lasts, Exists
<1>5. ReceiptsSourced
  BY DEF ReceiptsSourced
<1> QED BY <1>3, <1>4, <1>5, EvidenceKept DEF DeskKept

\* Assessor a gets ticket t: from create, from the queue or from another.
LEMMA HoldStep ==
  ASSUME DeskInv, FramesLearn, TimersLearn, NEW t \in Tickets, NEW a \in accounts,
         status' = [status EXCEPT ![t] = "PROCESSING"],
         assessor' = [assessor EXCEPT ![t] = a],
         chat' = chat \cup {t},
         served' = [served EXCEPT ![t] = @ \cup {a}],
         UNCHANGED <<receipt, messages, notice, review, accounts, supplied>>
  PROVE  DeskKept
<1>0. TypeOK /\ Waiting /\ BlankUntilServed /\ OrphanLostItsAssessor
  BY DEF DeskInv, TypeInv, Custody
<1>1. /\ served'[t] = served[t] \cup {a}
      /\ status'[t] = "PROCESSING" /\ assessor'[t] = a /\ t \in chat'
      /\ \A u \in Tickets \ {t} : /\ status'[u] = status[u] /\ assessor'[u] = assessor[u]
                                  /\ served'[u] = served[u] /\ (u \in chat' <=> u \in chat)
  BY <1>0 DEF TypeOK
<1>2. Waiting'
  BY <1>0, <1>1 DEF Waiting
<1>3. OrphanLostItsAssessor'
  BY <1>0, <1>1 DEF OrphanLostItsAssessor
<1>4. BlankUntilServed'
  <2> SUFFICES ASSUME NEW u \in Tickets, served'[u] = {} PROVE Blank(u)'
    BY DEF BlankUntilServed
  <2>1. u # t
    BY <1>1
  <2>2. Blank(u)
    BY <1>0, <1>1, <2>1 DEF BlankUntilServed
  <2> QED BY <1>1, <2>1, <2>2 DEF Blank
<1>5. Lasts
  BY <1>1 DEF Lasts, Exists
<1>6. ReceiptsSourced
  BY DEF ReceiptsSourced
<1> QED BY <1>2, <1>3, <1>4, <1>5, <1>6, EvidenceKept DEF DeskKept, Custody

LEMMA CreateKeeps ==
  ASSUME DeskInv, NEW s \in Slots
  PROVE  /\ CreateAssign(s) => DeskKept
         /\ CreateCommit(s) => DeskKept
<1>0. TypeInv /\ TypeOK /\ Waiting /\ BlankUntilServed /\ OrphanLostItsAssessor
  BY DEF DeskInv, TypeInv, Custody
<1>1. CASE CreateAssign(s)
  <2>1. PICK b \in IF Candidates = {} THEN {NoUser} ELSE BestAssessors :
          req' = [req EXCEPT ![s].op = "create.commit", ![s].pick = b]
    BY <1>1 DEF CreateAssign
  <2>2. req' = [req EXCEPT ![s] = [req[s] EXCEPT !.op = "create.commit", !.pick = b]]
    BY <1>0, <2>1 DEF TypeOK
  <2>3. req[s] \in Frame
    BY <1>0 DEF TypeOK
  <2>4. Knows([req[s] EXCEPT !.op = "create.commit", !.pick = b])
    BY <2>3 DEF Knows, Frame
  <2>5. FramesLearn
    BY <1>0, <2>2, <2>4, FrameLearns
  <2> QED BY <1>1, <2>5, StillStep, IdleTimers DEF CreateAssign
<1>2. CASE CreateCommit(s)
  <2> PICK t : t = req[s].ticket
    OBVIOUS
  <2> PICK b : b = req[s].pick
    OBVIOUS
  <2>1. t \in Tickets /\ status[t] = "ABSENT"
    BY <1>0, <1>2 DEF CreateCommit, At, TypeInv, SoundFrame, Exists
  <2>2. FramesLearn /\ TimersLearn
    BY <1>0, <1>2, FrameLearns, IdleTimers DEF CreateCommit
  <2>3. CASE b # NoUser
    <3>1. b \in accounts
      BY <1>2, <2>3 DEF CreateCommit
    <3>2. /\ status' = [status EXCEPT ![t] = "PROCESSING"]
          /\ assessor' = [assessor EXCEPT ![t] = b]
          /\ chat' = chat \cup {t}
          /\ served' = [served EXCEPT ![t] = @ \cup {b}]
          /\ UNCHANGED <<receipt, messages, notice, review, accounts, supplied>>
      BY <1>2, <2>3 DEF CreateCommit
    <3> QED BY <2>1, <2>2, <3>1, <3>2, HoldStep
  <2>4. CASE b = NoUser
    <3>1. /\ status' = [status EXCEPT ![t] = "PENDING"]
          /\ assessor' = [assessor EXCEPT ![t] = NoUser]
          /\ UNCHANGED <<receipt, chat, messages, notice, review, accounts, served,
                         supplied>>
      BY <1>2, <2>4 DEF CreateCommit
    <3>2. served[t] = {} /\ assessor[t] = NoUser
      BY <1>0, <2>1 DEF Waiting, BlankUntilServed, Blank
    <3>3. UNCHANGED assessor
      BY <1>0, <3>1, <3>2 DEF TypeOK
    <3>4. /\ status'[t] = "PENDING"
          /\ \A u \in Tickets \ {t} : status'[u] = status[u]
      BY <1>0, <2>1, <3>1 DEF TypeOK
    <3>5. Waiting'
      BY <1>0, <3>1, <3>2, <3>4 DEF Waiting
    <3>6. OrphanLostItsAssessor'
      BY <1>0, <3>1, <3>3 DEF OrphanLostItsAssessor
    <3>7. BlankUntilServed'
      BY <1>0, <3>1, <3>3 DEF BlankUntilServed, Blank
    <3>8. Lasts /\ ReceiptsSourced
      BY <3>1, <3>4 DEF Lasts, Exists, ReceiptsSourced
    <3> QED BY <2>2, <3>1, <3>5, <3>6, <3>7, <3>8, EvidenceKept DEF DeskKept, Custody
  <2> QED BY <2>3, <2>4
<1> QED BY <1>1, <1>2

LEMMA TakeKeeps ==
  ASSUME DeskInv, NEW s \in Slots, TakeWrite(s)
  PROVE  DeskKept
<1> PICK t : t = req[s].ticket
  OBVIOUS
<1> PICK a : a = req[s].user
  OBVIOUS
<1>0. TypeInv
  BY DEF DeskInv
<1>1. t \in Tickets /\ a \in accounts
  BY <1>0 DEF TakeWrite, At, TypeInv, SoundFrame
<1>2. FramesLearn /\ TimersLearn
  BY <1>0, FrameLearns, IdleTimers DEF TakeWrite
<1>3. /\ status' = [status EXCEPT ![t] = "PROCESSING"]
      /\ assessor' = [assessor EXCEPT ![t] = a]
      /\ chat' = chat \cup {t}
      /\ served' = [served EXCEPT ![t] = @ \cup {a}]
      /\ UNCHANGED <<receipt, messages, notice, review, accounts, supplied>>
  BY DEF TakeWrite
<1> QED BY <1>1, <1>2, <1>3, HoldStep

\* A handler past its first await refers to a ticket that has been served.
LEMMA FrameServed ==
  ASSUME DeskInv, NEW s \in Slots,
         req[s].op \notin {"idle", "create.assign", "create.commit", "take.write"}
  PROVE  req[s].ticket \in Tickets /\ served[req[s].ticket] # {}
  BY DEF DeskInv, TypeInv, SoundFrame, FramesKnow, Knows

LEMMA FinalizeKeeps ==
  ASSUME DeskInv, NEW s \in Slots, FinalizeWrite(s)
  PROVE  DeskKept
<1> PICK t : t = req[s].ticket
  OBVIOUS
<1> PICK image : image = req[s].image
  OBVIOUS
<1>1. t \in Tickets /\ served[t] # {}
  BY FrameServed DEF FinalizeWrite, At
<1>2. image = NoImage \/ Sourced(t, image)
  BY DEF FinalizeWrite, At, DeskInv, FramesKnow, Knows
<1>3. FramesLearn /\ TimersLearn
  BY FrameLearns, IdleTimers DEF FinalizeWrite, DeskInv
<1>4. /\ CloseTicket(t, image)
      /\ UNCHANGED <<chat, messages, notice, review, accounts, served, supplied>>
  BY DEF FinalizeWrite
<1> QED BY <1>1, <1>2, <1>3, <1>4, CloseStep

LEMMA ChatKeeps ==
  ASSUME DeskInv, NEW s \in Slots
  PROVE  /\ WelcomeRead(s) => DeskKept
         /\ WelcomeSave(s) => DeskKept
         /\ MessageWrite(s) => DeskKept
         /\ TimerWrite(s) => DeskKept
<1>0. TypeInv /\ req[s] \in SoundFrame
  BY DEF DeskInv, TypeInv
<1>1. CASE WelcomeRead(s)
  <2> DEFINE f == [req[s] EXCEPT !.op = "welcome.save", !.user = assessor[req[s].ticket],
                                 !.image = QrOf[req[s].ticket]]
  <2>1. served[req[s].ticket] # {}
    BY <1>1, FrameServed DEF WelcomeRead, At
  <2>2. f.op = "welcome.save" /\ f.ticket = req[s].ticket
    BY <1>0 DEF SoundFrame, Frame
  <2>3. Knows(f)
    BY <2>1, <2>2 DEF Knows
  <2>4. req' = [req EXCEPT ![s] = f] \/ Return(s)
    BY <1>0, <1>1 DEF WelcomeRead, TypeInv
  <2>5. FramesLearn
    BY <1>0, <2>3, <2>4, FrameLearns
  <2> QED BY <1>1, <2>5, StillStep, IdleTimers DEF WelcomeRead
<1>2. CASE WelcomeSave(s)
  <2>1. FramesLearn
    BY <1>0, <1>2, FrameLearns, GoLearns DEF WelcomeSave, At
  <2> QED BY <1>2, <2>1, StillStep, IdleTimers DEF WelcomeSave
<1>3. CASE MessageWrite(s)
  <2>1. req[s].ticket \in Tickets /\ served[req[s].ticket] # {}
    BY <1>3, FrameServed DEF MessageWrite, At
  <2>2. FramesLearn /\ TimersLearn
    BY <1>0, <1>3, FrameLearns, IdleTimers DEF MessageWrite
  <2>3. /\ Post(req[s].ticket, req[s].user, req[s].image)
        /\ UNCHANGED <<status, assessor, receipt, chat, notice, review, accounts, served,
                       supplied>>
    BY <1>3 DEF MessageWrite
  <2> QED BY <2>1, <2>2, <2>3, PostStep
<1>4. CASE TimerWrite(s)
  <2>1. req[s].ticket \in Tickets /\ served[req[s].ticket] # {}
    BY <1>4, FrameServed DEF TimerWrite, At
  <2>2. FramesLearn /\ TimersLearn
    BY <1>0, <1>4, <2>1, FrameLearns, IdleTimers DEF TimerWrite
  <2>3. /\ Post(req[s].ticket, req[s].user, NoImage) \/ UNCHANGED messages
        /\ UNCHANGED <<status, assessor, receipt, chat, notice, review, accounts, served,
                       supplied>>
    BY <1>4 DEF TimerWrite
  <2> QED BY <2>1, <2>2, <2>3, PostStep, StillStep
<1> QED BY <1>1, <1>2, <1>3, <1>4

LEMMA NoticeKeeps ==
  ASSUME DeskInv, NEW s \in Slots
  PROVE  /\ \A n \in Notices : NoticeWrite(s, n) => DeskKept
         /\ AnswerWrite(s) => DeskKept
<1>0. TypeInv /\ TypeOK /\ Waiting /\ req[s] \in SoundFrame /\ Knows(req[s])
  BY DEF DeskInv, TypeInv, Custody, FramesKnow
<1>1. ASSUME NEW n \in Notices, NoticeWrite(s, n) PROVE DeskKept
  <2> PICK row : row = [ticket |-> req[s].ticket, assessor |-> req[s].user,
                        manager |-> ManagerOf[req[s].user], image |-> req[s].image,
                        status |-> "PAYMENT_VERIFIED"]
    OBVIOUS
  <2>1. req[s].ticket \in Tickets /\ served[req[s].ticket] # {}
    BY <1>1, FrameServed DEF NoticeWrite, At
  <2>2. Backed(row) /\ row.assessor \in accounts
    BY <1>0, <1>1 DEF NoticeWrite, At, Knows, Backed
  <2>3. notice' = [notice EXCEPT ![n] = row]
    BY <1>1 DEF NoticeWrite
  <2>4. /\ notice'[n] = row
        /\ \A m \in Notices \ {n} : notice'[m] = notice[m]
    BY <1>0, <2>3 DEF TypeOK
  <2>5. UNCHANGED <<status, assessor, receipt, chat, messages, review, accounts, served,
                    supplied>>
    BY <1>1 DEF NoticeWrite
  <2>6. NoticesEvident
    BY <2>2, <2>4, <2>5 DEF DeskInv, NoticesBacked, NoticeExists, NoticesEvident
  <2>7. \A m \in Notices : notice'[m].ticket # notice[m].ticket
                             => served[notice'[m].ticket] # {}
    BY <2>1, <2>4
  <2>8. \A t \in Tickets : served[t] # {} => status'[t] \notin {"ABSENT", "PENDING"}
    BY <1>0, <2>5 DEF Waiting
  <2>9. Custody'
    BY <2>5, <2>7, <2>8, SteadyCustody
  <2>10. Lasts /\ ReceiptsSourced /\ ReviewsEarned
    BY <2>5, EvidenceKept DEF Lasts, Exists, ReceiptsSourced
  <2>11. FramesLearn /\ TimersLearn
    BY <1>0, <1>1, FrameLearns, IdleTimers DEF NoticeWrite
  <2> QED BY <2>6, <2>9, <2>10, <2>11 DEF DeskKept
<1>2. CASE AnswerWrite(s)
  <2> PICK n : n = req[s].notice
    OBVIOUS
  <2>1. n \in Notices
    BY <1>0, <1>2 DEF AnswerWrite, At, SoundFrame
  <2>2. notice' = [notice EXCEPT ![n] = [notice[n] EXCEPT !.status = req[s].verdict]]
    BY <1>0, <1>2 DEF AnswerWrite, TypeOK
  <2>3. \A m \in Notices :
          /\ notice'[m].ticket = notice[m].ticket /\ notice'[m].assessor = notice[m].assessor
          /\ notice'[m].manager = notice[m].manager /\ notice'[m].image = notice[m].image
    <3>1. notice[n] \in Notice
      BY <1>0, <2>1 DEF TypeOK
    <3>2. \A m \in Notices \ {n} : notice'[m] = notice[m]
      BY <1>0, <2>2 DEF TypeOK
    <3>3. notice'[n] = [notice[n] EXCEPT !.status = req[s].verdict]
      BY <1>0, <2>1, <2>2 DEF TypeOK
    <3> QED BY <3>1, <3>2, <3>3 DEF Notice
  <2>4. UNCHANGED <<status, assessor, receipt, chat, messages, review, accounts, served,
                    supplied>>
    BY <1>2 DEF AnswerWrite
  <2>5. NoticesEvident
    BY <2>3, <2>4 DEF DeskInv, NoticesBacked, NoticeExists, NoticesEvident, Backed
  <2>6. \A t \in Tickets : served[t] # {} => status'[t] \notin {"ABSENT", "PENDING"}
    BY <1>0, <2>4 DEF Waiting
  <2>7. Custody'
    BY <2>3, <2>4, <2>6, SteadyCustody
  <2>8. Lasts /\ ReceiptsSourced /\ ReviewsEarned
    BY <2>4, EvidenceKept DEF Lasts, Exists, ReceiptsSourced
  <2>9. FramesLearn /\ TimersLearn
    BY <1>0, <1>2, FrameLearns, GoLearns, IdleTimers DEF AnswerWrite, At
  <2> QED BY <2>5, <2>7, <2>8, <2>9 DEF DeskKept
<1> QED BY <1>1, <1>2

LEMMA VerdictKeeps ==
  ASSUME DeskInv, NEW s \in Slots
  PROVE  /\ CancelTicket(s) => DeskKept
         /\ AttachProof(s) => DeskKept
<1>0. TypeInv /\ TypeOK /\ Waiting
  BY DEF DeskInv, TypeInv, Custody
<1> PICK t : t = req[s].ticket
  OBVIOUS
<1>1. CASE CancelTicket(s)
  <2>1. t \in Tickets /\ served[t] # {}
    BY <1>1, FrameServed DEF CancelTicket, At
  <2>2. /\ status'[t] = "CANCELLED"
        /\ \A u \in Tickets \ {t} : status'[u] = status[u]
    BY <1>0, <1>1, <2>1 DEF CancelTicket, TypeOK
  <2>3. UNCHANGED <<assessor, receipt, chat, messages, notice, review, accounts, served,
                    supplied>>
    BY <1>1 DEF CancelTicket
  <2>4. \A u \in Tickets : served[u] # {} => status'[u] \notin {"ABSENT", "PENDING"}
    BY <1>0, <2>2 DEF Waiting
  <2>5. \A u \in Tickets : served[u] = {} => /\ status'[u] = status[u] /\ receipt'[u] = receipt[u]
           /\ messages'[u] = messages[u] /\ review'[u] = review[u]
    BY <2>1, <2>2, <2>3
  <2>6. Custody'
    BY <2>3, <2>4, <2>5, SteadyCustody
  <2>7. Lasts /\ ReceiptsSourced
    BY <2>2, <2>3 DEF Lasts, Exists, ReceiptsSourced
  <2>8. FramesLearn /\ TimersLearn
    BY <1>0, <1>1, FrameLearns, IdleTimers DEF CancelTicket
  <2> QED BY <2>3, <2>6, <2>7, <2>8, EvidenceKept DEF DeskKept
<1>2. CASE AttachProof(s)
  <2> PICK image : image = req[s].image
    OBVIOUS
  <2>1. t \in Tickets /\ served[t] # {}
    BY <1>2, FrameServed DEF AttachProof, At
  <2>2. FramesLearn /\ TimersLearn
    BY <1>0, <1>2, FrameLearns, IdleTimers DEF AttachProof
  <2>3. UNCHANGED <<status, assessor, chat, messages, notice, review, accounts, served>>
    BY <1>2 DEF AttachProof
  <2>4. CASE image = NoImage
    <3>1. UNCHANGED <<receipt, supplied>>
      BY <1>2, <2>4 DEF AttachProof
    <3> QED BY <2>2, <2>3, <3>1, StillStep
  <2>5. CASE image # NoImage
    <3>1. /\ receipt' = [receipt EXCEPT ![t] = image]
          /\ supplied' = [supplied EXCEPT ![t] = @ \cup {image}]
      BY <1>2, <2>5 DEF AttachProof
    <3>2. /\ receipt'[t] = image /\ supplied'[t] = supplied[t] \cup {image}
          /\ \A u \in Tickets \ {t} : receipt'[u] = receipt[u] /\ supplied'[u] = supplied[u]
      BY <1>0, <2>1, <3>1 DEF TypeOK
    <3>3. \A u \in Tickets : served[u] # {} => status'[u] \notin {"ABSENT", "PENDING"}
      BY <1>0, <2>3 DEF Waiting
    <3>4. \A u \in Tickets : served[u] = {} => /\ status'[u] = status[u] /\ receipt'[u] = receipt[u]
             /\ messages'[u] = messages[u] /\ review'[u] = review[u]
      BY <2>1, <2>3, <3>2
    <3>5. Custody'
      BY <2>3, <3>3, <3>4, SteadyCustody
    <3>6. Lasts /\ ReceiptsSourced
      BY <2>3, <3>2 DEF Lasts, Exists, ReceiptsSourced
    <3> QED BY <2>2, <2>3, <3>5, <3>6, EvidenceKept DEF DeskKept
  <2> QED BY <2>4, <2>5
<1> QED BY <1>1, <1>2

LEMMA ReviewKeeps ==
  ASSUME DeskInv, NEW s \in Slots, ReviewWrite(s)
  PROVE  DeskKept
<1>0. TypeInv /\ TypeOK /\ Waiting
  BY DEF DeskInv, TypeInv, Custody
<1> PICK t : t = req[s].ticket
  OBVIOUS
<1>1. t \in Tickets /\ served[t] # {}
  BY FrameServed DEF ReviewWrite, At
<1>2. /\ review'[t] \in served[t] \cap accounts
      /\ \A u \in Tickets \ {t} : review'[u] = review[u]
  BY <1>0, <1>1 DEF ReviewWrite, At, DeskInv, FramesKnow, Knows, TypeOK
<1>3. UNCHANGED <<status, assessor, receipt, chat, messages, notice, accounts, served,
                  supplied>>
  BY DEF ReviewWrite
<1>4. \A u \in Tickets : served[u] # {} => status'[u] \notin {"ABSENT", "PENDING"}
  BY <1>0, <1>3 DEF Waiting
<1>5. \A u \in Tickets : served[u] = {} => /\ status'[u] = status[u] /\ receipt'[u] = receipt[u]
         /\ messages'[u] = messages[u] /\ review'[u] = review[u]
  BY <1>1, <1>2, <1>3
<1>6. Custody'
  BY <1>3, <1>4, <1>5, SteadyCustody
<1>7. ReviewsEarned
  BY <1>2, <1>3 DEF DeskInv, ReviewCreditsServer, ReviewsEarned
<1>8. Lasts /\ ReceiptsSourced
  BY <1>3 DEF Lasts, Exists, ReceiptsSourced
<1>9. FramesLearn /\ TimersLearn
  BY <1>0, FrameLearns, IdleTimers DEF ReviewWrite
<1> QED BY <1>3, <1>6, <1>7, <1>8, <1>9, EvidenceKept DEF DeskKept

LEMMA TimersKeep ==
  ASSUME DeskInv, NEW k \in timers, Callback(k)
  PROVE  DeskKept
<1>0. TypeInv /\ k \in Timer /\ k.ticket \in Tickets
  BY DEF DeskInv, TypeInv, TypeOK, Timer
<1> PICK t : t = k.ticket
  OBVIOUS
<1>1. CASE TimerFire(k)
  <2>1. CASE timers' = timers \ {k}
    <3>1. FramesLearn /\ TimersLearn
      BY <1>1, <2>1, IdleTimers DEF TimerFire, FramesLearn
    <3> QED BY <1>1, <3>1, StillStep DEF TimerFire
  <2>2. ASSUME status[t] = "PROCESSING", NEW image \in ProofToSave(t, assessor[t]),
               timers' = (timers \ {k}) \cup {[k EXCEPT !.closing = TRUE, !.image = image]}
        PROVE  DeskKept
    <3> PICK j : j = [k EXCEPT !.closing = TRUE, !.image = image]
      OBVIOUS
    <3>1. j.ticket = t /\ j.image = image
      BY <1>0 DEF Timer
    <3>2. served[t] # {}
      BY <1>0, <2>2, ServedTicket
    <3>3. image = NoImage \/ Sourced(t, image)
      BY <1>0, ProofSourced
    <3>4. Foresees(j)
      BY <3>1, <3>2, <3>3 DEF Foresees
    <3>5. TimersLearn
      BY <2>2, <3>4 DEF TimersLearn
    <3>6. FramesLearn
      BY <1>1 DEF TimerFire, FramesLearn
    <3> QED BY <1>1, <3>5, <3>6, StillStep DEF TimerFire
  <2> QED BY <1>1, <2>1, <2>2 DEF TimerFire
<1>2. CASE AutoClose(k)
  <2>1. Foresees(k)
    BY DEF DeskInv, TimersKnow
  <2>2. served[t] # {} /\ (k.image = NoImage \/ Sourced(t, k.image))
    BY <1>2, <2>1 DEF AutoClose, Foresees
  <2>3. /\ CloseTicket(t, k.image)
        /\ UNCHANGED <<chat, messages, notice, review, accounts, served, supplied>>
    BY <1>2 DEF AutoClose
  <2>4. FramesLearn /\ TimersLearn
    BY <1>2, IdleTimers DEF AutoClose, FramesLearn
  <2> QED BY <1>0, <2>2, <2>3, <2>4, CloseStep
<1>3. CASE TimerError(k)
  <2>1. FramesLearn /\ TimersLearn
    BY <1>3, IdleTimers DEF TimerError, FramesLearn
  <2> QED BY <1>3, <2>1, StillStep DEF TimerError
<1> QED BY <1>1, <1>2, <1>3 DEF Callback

LEMMA PresenceKeeps ==
  ASSUME DeskInv, NEW a \in Assessors, Presence(a)
  PROVE  DeskKept
<1>0. TypeOK /\ Waiting /\ BlankUntilServed /\ OrphanLostItsAssessor
  BY DEF DeskInv, TypeInv, Custody
<1>1. CASE isOnlineUser(a) \/ isOffOnlineUser(a)
  <2>1. FramesLearn /\ TimersLearn
    BY <1>1, IdleTimers DEF isOnlineUser, isOffOnlineUser, FramesLearn
  <2> QED BY <1>1, <2>1, StillStep DEF isOnlineUser, isOffOnlineUser
<1>2. CASE DeleteAssessor(a)
  <2>1. UNCHANGED <<status, receipt, chat, messages, notice, review, served, supplied,
                    timers, req>>
    BY <1>2 DEF DeleteAssessor
  <2>2. accounts' = accounts \ {a}
    BY <1>2 DEF DeleteAssessor
  <2>3. \A t \in Tickets :
          assessor'[t] = IF assessor[t] = a THEN NoUser ELSE assessor[t]
    BY <1>2 DEF DeleteAssessor, Orphaned
  <2>4. Waiting'
    BY <1>0, <2>1 DEF Waiting
  <2>5. OrphanLostItsAssessor'
    BY <1>0, <2>1, <2>2, <2>3 DEF OrphanLostItsAssessor
  <2>6. BlankUntilServed'
    BY <1>0, <2>1, <2>3 DEF BlankUntilServed, Blank
  <2>7. Lasts /\ ReceiptsSourced
    BY <2>1 DEF Lasts, Exists, ReceiptsSourced
  <2>8. NoticesEvident
    <3>1. \A n \in Notices : notice[n].assessor # a
      BY <1>2 DEF DeleteAssessor, Referenced
    <3> QED BY <2>1, <2>2, <3>1 DEF DeskInv, NoticesBacked, NoticeExists, NoticesEvident
  <2>9. ReviewsEarned
    <3>1. \A t \in Tickets : review[t] # a
      BY <1>2 DEF DeleteAssessor
    <3> QED BY <2>1, <2>2, <3>1 DEF DeskInv, ReviewCreditsServer, ReviewsEarned
  <2>10. FramesLearn /\ TimersLearn
    BY <2>1, IdleTimers DEF FramesLearn
  <2> QED BY <2>4, <2>5, <2>6, <2>7, <2>8, <2>9, <2>10 DEF DeskKept, Custody
<1> QED BY <1>1, <1>2 DEF Presence

LEMMA FailuresKeep ==
  ASSUME DeskInv
  PROVE  /\ \A s \in Slots : RequestError(s) => DeskKept
         /\ Restart => DeskKept
<1>0. TypeInv
  BY DEF DeskInv
<1>1. ASSUME NEW s \in Slots, RequestError(s) PROVE DeskKept
  <2>1. FramesLearn /\ TimersLearn
    BY <1>0, <1>1, FrameLearns, IdleTimers DEF RequestError
  <2> QED BY <1>1, <2>1, StillStep DEF RequestError
<1>2. CASE Restart
  <2>1. Knows(Idle)
    BY DEF Knows, Idle
  <2>2. FramesLearn /\ TimersLearn
    BY <1>2, <2>1, IdleTimers DEF Restart, FramesLearn
  <2> QED BY <1>2, <2>2, StillStep DEF Restart
<1> QED BY <1>1, <1>2

LEMMA DeskNext == DeskInv /\ [Next]_vars => DeskInv'
<1> SUFFICES ASSUME DeskInv, [Next]_vars PROVE DeskInv'
  OBVIOUS
<1>0. TypeInv'
  BY NextType DEF DeskInv
<1>1. ASSUME NEW s \in Slots, Request(s) PROVE DeskKept
  BY <1>1, TicketRequestsLearn, ChatRequestsLearn, EvidenceRequestsLearn DEF Request
<1>2. ASSUME NEW s \in Slots, Answer(s) PROVE DeskKept
  BY <1>2, EvidenceRequestsLearn
<1>3. ASSUME NEW s \in Slots, Continue(s) PROVE DeskKept
  BY <1>3, CreateKeeps, TakeKeeps, FinalizeKeeps, ChatKeeps, NoticeKeeps, VerdictKeeps,
     ReviewKeeps, FailuresKeep DEF Continue
<1>4. ASSUME NEW k \in timers, Callback(k) PROVE DeskKept
  BY <1>4, TimersKeep
<1>5. ASSUME NEW a \in Assessors, Presence(a) PROVE DeskKept
  BY <1>5, PresenceKeeps
<1>6. ASSUME Restart PROVE DeskKept
  BY <1>6, FailuresKeep
<1>7. CASE UNCHANGED vars
  <2>1. UNCHANGED <<status, assessor, receipt, chat, messages, notice, review, accounts,
                    served, supplied>>
    BY <1>7 DEF vars
  <2>2. FramesLearn /\ TimersLearn
    BY <1>7, IdleTimers DEF vars, FramesLearn
  <2> QED BY <1>0, <2>1, <2>2, StillStep, DeskKeptIsInductive
<1>8. DeskKept => DeskInv'
  BY <1>0, DeskKeptIsInductive
<1> QED BY <1>1, <1>2, <1>3, <1>4, <1>5, <1>6, <1>7, <1>8 DEF Next

LEMMA DeskStart == Init => DeskInv
<1> SUFFICES ASSUME Init PROVE DeskInv
  OBVIOUS
<1>1. TypeInv
  BY InitType
<1>2. Custody
  BY DataAssumption DEF Init, Custody, Waiting, BlankUntilServed, Blank,
     OrphanLostItsAssessor, NoRow
<1>3. ReceiptProvenance /\ ReviewCreditsServer
  BY DEF Init, ReceiptProvenance, ReviewCreditsServer
<1>4. NoticesBacked
  BY DEF Init, NoticesBacked, NoticeExists, NoRow
<1>5. FramesKnow /\ TimersKnow
  BY DEF Init, FramesKnow, Knows, Idle, TimersKnow
<1> QED BY <1>1, <1>2, <1>3, <1>4, <1>5 DEF DeskInv

LEMMA DeskInvariant == Spec => []DeskInv
<1> QED BY DeskStart, DeskNext, PTL DEF Spec

\* A ticket is PENDING exactly while no assessor has ever held it, and until then
\* it has no chat, message, receipt, notice or review: a take that races the
\* creation, a late handler, a restart or a deletion never undoes this.
THEOREM WaitingIsUntouched == Spec => []PendingIsUntouched
<1>1. DeskInv => PendingIsUntouched
  BY DEF DeskInv, Custody, Waiting, BlankUntilServed, Blank, PendingIsUntouched, Exists
<1> QED BY <1>1, DeskInvariant, PTL

\* A served ticket has its chat, and it is without an assessor only when the
\* account of one who held it was deleted (user.service.ts and the schema's
\* SET NULL); an assessor it does have has an account and is on record.
THEOREM OrphansExplained == Spec => []OrphanLostItsAssessor
<1>1. DeskInv => OrphanLostItsAssessor
  BY DEF DeskInv, Custody
<1> QED BY <1>1, DeskInvariant, PTL

\* A receipt is an image a manager attached or one posted by an assessor who held
\* the ticket, although the handler or timer that writes it found it in the chat
\* before other handlers changed holder, receipt and status.
THEOREM ReceiptsHaveSource == Spec => []ReceiptProvenance
<1>1. DeskInv => ReceiptProvenance
  BY DEF DeskInv
<1> QED BY <1>1, DeskInvariant, PTL

\* A review credits an assessor who held the ticket and still has an account,
\* though it is read with the ticket and written after a possible change of hands.
THEOREM ReviewsCreditServers == Spec => []ReviewCreditsServer
<1>1. DeskInv => ReviewCreditsServer
  BY DEF DeskInv
<1> QED BY <1>1, DeskInvariant, PTL

\* A notice keeps its evidence: its assessor has held the ticket and has an
\* account, its manager is that assessor's, and its image is still in the chat,
\* still the receipt or one a manager supplied, even when the receipt it was
\* chosen from has been overwritten since.
THEOREM NoticesKeepEvidence == Spec => []NoticeEvidence
<1>1. DeskInv => NoticeEvidence
  BY DEF DeskInv, NoticesBacked, Backed, NoticeEvidence, CandidateImages, Shown, Posted
<1> QED BY <1>1, DeskInvariant, PTL

-----------------------------------------------------------------------------
(* The refinement of TicketLife, step by step.  A step of the desk is the  *)
(* contract's step of the same name for the ticket it writes, and a        *)
(* stutter when it writes no ticket; that a ticket closes with a proof and *)
(* is written only after it has been served comes from the two invariants. *)

LEMMA StutterMaps ==
  ASSUME UNCHANGED <<status, assessor, receipt>>
  PROVE  [Contract!Advance]_(Contract!life)
<1>1. UNCHANGED Contract!life
  BY DEF Contract!life
<1> QED BY <1>1

LEMMA OpenMaps ==
  ASSUME NEW t \in Tickets, status[t] = "ABSENT",
         status' = [status EXCEPT ![t] = "PENDING"], UNCHANGED <<assessor, receipt>>
  PROVE  Contract!Advance
<1>1. Contract!Open(t)
  BY DEF Contract!Open
<1> QED BY <1>1 DEF Contract!Advance

LEMMA HoldMaps ==
  ASSUME NEW t \in Tickets, NEW a \in Assessors,
         status' = [status EXCEPT ![t] = "PROCESSING"],
         assessor' = [assessor EXCEPT ![t] = a], UNCHANGED receipt
  PROVE  Contract!Advance
<1>1. Contract!Hold(t, a)
  BY DEF Contract!Hold
<1> QED BY <1>1 DEF Contract!Advance

\* A served ticket is neither absent nor pending.
LEMMA ServedIsOpen ==
  ASSUME DeskInv, NEW t \in Tickets, served[t] # {}
  PROVE  status[t] \notin {"ABSENT", "PENDING"}
  BY DEF DeskInv, Custody, Waiting

LEMMA CloseMaps ==
  ASSUME DeskInv, NEW t \in Tickets, served[t] # {}, NEW image, CloseTicket(t, image),
         image = NoImage => ~Unproved(t)
  PROVE  Contract!Advance
<1>1. receipt \in [Tickets -> Images \cup {NoImage}]
  BY DEF DeskInv, TypeInv, TypeOK
<1>2. /\ receipt'[t] # NoImage
      /\ \A u \in Tickets \ {t} : receipt'[u] = receipt[u]
  BY <1>1 DEF CloseTicket, Unproved
<1>3. [u \in Tickets |-> receipt'[u] # NoImage]
        = [[u \in Tickets |-> receipt[u] # NoImage] EXCEPT ![t] = TRUE]
  BY <1>2
<1>4. status[t] \notin {"ABSENT", "PENDING"}
  BY ServedIsOpen
<1>5. Contract!Close(t)
  BY <1>3, <1>4 DEF Contract!Close, CloseTicket
<1> QED BY <1>5 DEF Contract!Advance

LEMMA CancelMaps ==
  ASSUME DeskInv, NEW s \in Slots, CancelTicket(s)
  PROVE  Contract!Advance
<1> PICK t : t = req[s].ticket
  OBVIOUS
<1>1. t \in Tickets /\ served[t] # {}
  BY FrameServed DEF CancelTicket, At
<1>2. status[t] \notin {"ABSENT", "PENDING"}
  BY <1>1, ServedIsOpen
<1>3. Contract!Cancel(t)
  BY <1>2 DEF Contract!Cancel, CancelTicket
<1> QED BY <1>1, <1>3 DEF Contract!Advance

LEMMA AttachMaps ==
  ASSUME DeskInv, NEW s \in Slots, AttachProof(s)
  PROVE  [Contract!Advance]_(Contract!life)
<1> PICK t : t = req[s].ticket
  OBVIOUS
<1> PICK image : image = req[s].image
  OBVIOUS
<1>1. t \in Tickets /\ served[t] # {}
  BY FrameServed DEF AttachProof, At
<1>2. status[t] \notin {"ABSENT", "PENDING"}
  BY <1>1, ServedIsOpen
<1>3. CASE image = NoImage
  BY <1>3, StutterMaps DEF AttachProof
<1>4. CASE image # NoImage
  <2>1. receipt \in [Tickets -> Images \cup {NoImage}]
    BY DEF DeskInv, TypeInv, TypeOK
  <2>2. receipt' = [receipt EXCEPT ![t] = image] /\ UNCHANGED <<status, assessor>>
    BY <1>4 DEF AttachProof
  <2>3. [u \in Tickets |-> receipt'[u] # NoImage]
          = [[u \in Tickets |-> receipt[u] # NoImage] EXCEPT ![t] = TRUE]
    BY <1>1, <1>4, <2>1, <2>2
  <2>4. Contract!Prove(t)
    BY <1>2, <2>2, <2>3 DEF Contract!Prove
  <2> QED BY <1>1, <2>4 DEF Contract!Advance
<1> QED BY <1>3, <1>4

LEMMA LeaveMaps ==
  ASSUME NEW a \in Assessors, DeleteAssessor(a)
  PROVE  Contract!Advance
<1>1. Contract!Leave(a)
  BY DEF DeleteAssessor, Orphaned, Contract!Leave
<1> QED BY <1>1 DEF Contract!Advance

LEMMA ContinueMaps ==
  ASSUME DeskInv, ProofInv, NEW s \in Slots, Continue(s)
  PROVE  [Contract!Advance]_(Contract!life)
<1>0. TypeInv /\ req[s] \in SoundFrame
  BY DEF DeskInv, TypeInv
<1>1. CASE \/ CreateAssign(s) \/ WelcomeRead(s) \/ WelcomeSave(s) \/ MessageWrite(s)
           \/ TimerWrite(s) \/ \E n \in Notices : NoticeWrite(s, n)
           \/ AnswerWrite(s) \/ ReviewWrite(s) \/ RequestError(s)
  <2>1. UNCHANGED <<status, assessor, receipt>>
    BY <1>1 DEF CreateAssign, WelcomeRead, WelcomeSave, MessageWrite, TimerWrite,
       NoticeWrite, AnswerWrite, ReviewWrite, RequestError
  <2> QED BY <2>1, StutterMaps
<1>2. CASE CreateCommit(s)
  <2> PICK t : t = req[s].ticket
    OBVIOUS
  <2> PICK b : b = req[s].pick
    OBVIOUS
  <2>1. t \in Tickets /\ status[t] = "ABSENT"
    BY <1>0, <1>2 DEF CreateCommit, At, SoundFrame, Exists
  <2>2. UNCHANGED receipt
    BY <1>2 DEF CreateCommit
  <2>3. CASE b = NoUser
    <3>1. status' = [status EXCEPT ![t] = "PENDING"]
      BY <1>2, <2>3 DEF CreateCommit
    <3>2. served[t] = {} /\ assessor[t] = NoUser
      BY <2>1 DEF DeskInv, Custody, Waiting, BlankUntilServed, Blank
    <3>3. UNCHANGED assessor
      <4>1. assessor' = [assessor EXCEPT ![t] = NoUser]
        BY <1>2, <2>3 DEF CreateCommit
      <4>2. assessor \in [Tickets -> Assessors \cup {NoUser}]
        BY <1>0 DEF TypeInv, TypeOK
      <4> QED BY <2>1, <3>2, <4>1, <4>2
    <3> QED BY <2>1, <2>2, <3>1, <3>3, OpenMaps
  <2>4. CASE b # NoUser
    <3>1. b \in Assessors
      BY <1>0, <1>2, <2>4 DEF CreateCommit, TypeInv, TypeOK
    <3>2. /\ status' = [status EXCEPT ![t] = "PROCESSING"]
          /\ assessor' = [assessor EXCEPT ![t] = b]
      BY <1>2, <2>4 DEF CreateCommit
    <3> QED BY <2>1, <2>2, <3>1, <3>2, HoldMaps
  <2> QED BY <2>3, <2>4
<1>3. CASE TakeWrite(s)
  <2> PICK t : t = req[s].ticket
    OBVIOUS
  <2> PICK a : a = req[s].user
    OBVIOUS
  <2>1. t \in Tickets /\ a \in Assessors
    BY <1>0, <1>3 DEF TakeWrite, At, SoundFrame
  <2>2. /\ status' = [status EXCEPT ![t] = "PROCESSING"]
        /\ assessor' = [assessor EXCEPT ![t] = a]
        /\ UNCHANGED receipt
    BY <1>3 DEF TakeWrite
  <2> QED BY <2>1, <2>2, HoldMaps
<1>4. CASE FinalizeWrite(s)
  <2> PICK t : t = req[s].ticket
    OBVIOUS
  <2> PICK image : image = req[s].image
    OBVIOUS
  <2>1. t \in Tickets /\ served[t] # {}
    BY <1>4, FrameServed DEF FinalizeWrite, At
  <2>2. image = NoImage => ~Unproved(t)
    BY <1>4 DEF FinalizeWrite, At, ProofInv, HandlersProved
  <2>3. CloseTicket(t, image)
    BY <1>4 DEF FinalizeWrite
  <2> QED BY <2>1, <2>2, <2>3, CloseMaps
<1> QED BY <1>1, <1>2, <1>3, <1>4, CancelMaps, AttachMaps DEF Continue

LEMMA RequestMaps ==
  ASSUME NEW s \in Slots, Request(s) \/ Answer(s)
  PROVE  [Contract!Advance]_(Contract!life)
<1>1. UNCHANGED <<status, assessor, receipt>>
  BY DEF Request, CreateCount, TakeCount, FinalizeRead, CheckStatus, SendMessage, SetTimer,
     NoticeRead, ReviewRead, Answer, AnswerRead
<1> QED BY <1>1, StutterMaps

LEMMA CallbackMaps ==
  ASSUME DeskInv, ProofInv, NEW k \in timers, Callback(k)
  PROVE  [Contract!Advance]_(Contract!life)
<1>1. CASE TimerFire(k) \/ TimerError(k)
  BY <1>1, StutterMaps DEF TimerFire, TimerError
<1>2. CASE AutoClose(k)
  <2>1. k.ticket \in Tickets /\ k.closing
    BY <1>2 DEF AutoClose, DeskInv, TypeInv, TypeOK, Timer
  <2>2. served[k.ticket] # {}
    BY <2>1 DEF DeskInv, TimersKnow, Foresees
  <2>3. k.image = NoImage => ~Unproved(k.ticket)
    BY <2>1 DEF ProofInv, TimersProved
  <2>4. CloseTicket(k.ticket, k.image)
    BY <1>2 DEF AutoClose
  <2> QED BY <2>1, <2>2, <2>3, <2>4, CloseMaps
<1> QED BY <1>1, <1>2 DEF Callback

LEMMA StepMaps == DeskInv /\ ProofInv /\ [Next]_vars => [Contract!Advance]_(Contract!life)
<1> SUFFICES ASSUME DeskInv, ProofInv, [Next]_vars
             PROVE  [Contract!Advance]_(Contract!life)
  OBVIOUS
<1>1. ASSUME NEW s \in Slots, Request(s) \/ Answer(s) \/ Continue(s)
      PROVE  [Contract!Advance]_(Contract!life)
  BY <1>1, RequestMaps, ContinueMaps
<1>2. ASSUME NEW k \in timers, Callback(k) PROVE [Contract!Advance]_(Contract!life)
  BY <1>2, CallbackMaps
<1>3. ASSUME NEW a \in Assessors, Presence(a) PROVE [Contract!Advance]_(Contract!life)
  <2>1. CASE isOnlineUser(a) \/ isOffOnlineUser(a)
    BY <2>1, StutterMaps DEF isOnlineUser, isOffOnlineUser
  <2> QED BY <1>3, <2>1, LeaveMaps DEF Presence
<1>4. CASE Restart \/ UNCHANGED vars
  BY <1>4, StutterMaps DEF Restart, vars
<1> QED BY <1>1, <1>2, <1>3, <1>4 DEF Next

LEMMA StartMaps == Init => Contract!Begin
  BY DEF Init, Contract!Begin

\* The desk implements the life of a ticket: for any number of handlers, timers,
\* deletions and restarts, each step opens, assigns, proves, closes or cancels one
\* ticket as the contract allows, releases those of a deleted assessor, or leaves
\* status, assessor and receipt as the contract speaks of them unchanged.
THEOREM DeskImplementsLife == Spec => ImplementsLife
<1>1. Spec => [][Contract!Advance]_(Contract!life)
  BY StepMaps, DeskInvariant, ProofInvariant, PTL DEF Spec
<1>2. Spec => Contract!Begin
  BY StartMaps DEF Spec
<1> QED BY <1>1, <1>2, PTL DEF ImplementsLife, Contract!Life

\* What the contract is worth to the desk's users.
Kept == INSTANCE LifeProofs WITH
  Ticket <- Tickets, Holder <- Assessors, Nobody <- NoUser,
  state <- status, holder <- assessor, proof <- [t \in Tickets |-> receipt[t] # NoImage]

\* A ticket of the desk is closed only with a proof, and while it waits nobody
\* holds it and it has none, because that is true of whatever lives by the contract.
THEOREM DeskKeepsPromise == Spec => []Contract!Promise
<1>1. Kept!Life => []Kept!Promise
  BY Kept!PromiseKept
<1>2. Contract!Begin => Kept!Begin
  BY DEF Contract!Begin, Kept!Begin
<1>3. [Contract!Advance]_(Contract!life) => [Kept!Advance]_(Kept!life)
  BY DEF Contract!Advance, Kept!Advance, Contract!life, Kept!life, Contract!Open,
     Kept!Open, Contract!Hold, Kept!Hold, Contract!Prove, Kept!Prove, Contract!Close,
     Kept!Close, Contract!Cancel, Kept!Cancel, Contract!Leave, Kept!Leave
<1>4. Kept!Promise => Contract!Promise
  BY DEF Kept!Promise, Contract!Promise
<1>5. ImplementsLife => Kept!Life
  BY <1>2, <1>3, PTL DEF ImplementsLife, Contract!Life, Kept!Life
<1> QED BY <1>1, <1>4, <1>5, DeskImplementsLife, PTL

-----------------------------------------------------------------------------
(* The limit on pending tickets.  PendingOvershoot is inductive once the   *)
(* pending tickets of a client are known to be finitely many: a creation   *)
(* enters with the limit unreached, and leaves its slot as its ticket      *)
(* becomes pending.                                                        *)

Creates == {"create.assign", "create.commit"}

Creating(c) == {s \in Slots : req[s].user = c /\ req[s].op \in Creates}

Within(c) ==
  /\ IsFiniteSet(PendingOf(c))
  /\ Cardinality(PendingOf(c)) + Cardinality(Creating(c))
       <= MaxPending + Cardinality(Slots) - 1

PendingInv == TypeInv /\ \A c \in Clients : Within(c)

\* What all steps but the two of create respect.
QueuesNothing == \A t \in Tickets : status'[t] = "PENDING" =>
  status[t] = "PENDING" /\ client'[t] = client[t]
CreatesNothing == \A s \in Slots : req'[s].op \in Creates =>
  req[s].op \in Creates /\ req'[s].user = req[s].user

\* The slots of any group of handlers are finitely many.
LEMMA SomeSlots ==
  ASSUME NEW W \in SUBSET Slots
  PROVE  /\ IsFiniteSet(W) /\ Cardinality(W) \in Nat /\ Cardinality(Slots) \in Nat
         /\ Cardinality(W) <= Cardinality(Slots)
  BY SlotsAssumption, FS_Subset, FS_CardinalityType

LEMMA FewerStayWithin ==
  ASSUME PendingInv, NEW c \in Clients,
         PendingOf(c)' \subseteq PendingOf(c), Creating(c)' \subseteq Creating(c)
  PROVE  Within(c)'
<1>1. PICK P : P = PendingOf(c)
  OBVIOUS
<1>2. PICK Q : Q = PendingOf(c)'
  OBVIOUS
<1>3. PICK V : V = Creating(c)
  OBVIOUS
<1>4. PICK W : W = Creating(c)'
  OBVIOUS
<1>5. /\ IsFiniteSet(P)
      /\ Cardinality(P) + Cardinality(V) <= MaxPending + Cardinality(Slots) - 1
  BY <1>1, <1>3 DEF PendingInv, Within
<1>6. IsFiniteSet(Q) /\ Cardinality(Q) <= Cardinality(P)
  BY <1>1, <1>2, <1>5, FS_Subset
<1>7. Cardinality(P) \in Nat /\ Cardinality(Q) \in Nat
  BY <1>5, <1>6, FS_CardinalityType
<1>8. V \in SUBSET Slots /\ W \in SUBSET V
  BY <1>3, <1>4 DEF Creating
<1>9. IsFiniteSet(V) /\ Cardinality(V) \in Nat /\ Cardinality(Slots) \in Nat
  BY <1>8, SomeSlots
<1>10. Cardinality(W) <= Cardinality(V) /\ Cardinality(W) \in Nat
  BY <1>8, <1>9, FS_Subset, FS_CardinalityType
<1>11. Cardinality(Q) + Cardinality(W) <= MaxPending + Cardinality(Slots) - 1
  BY <1>5, <1>6, <1>7, <1>9, <1>10, BoundsAssumption
<1> QED BY <1>2, <1>4, <1>6, <1>11 DEF Within

LEMMA QuietQueue ==
  ASSUME PendingInv, TypeInv', QueuesNothing, CreatesNothing
  PROVE  PendingInv'
<1>1. ASSUME NEW c \in Clients PROVE Within(c)'
  <2>1. PendingOf(c)' \subseteq PendingOf(c)
    BY DEF PendingOf, QueuesNothing
  <2>2. Creating(c)' \subseteq Creating(c)
    BY DEF Creating, CreatesNothing
  <2> QED BY <2>1, <2>2, FewerStayWithin
<1> QED BY <1>1 DEF PendingInv

\* A creation enters: the count it has just read leaves room for every slot.
LEMMA EnterWithin ==
  ASSUME PendingInv, TypeInv', NEW s \in Slots, NEW d \in Clients, NEW t \in Tickets,
         CreateCount(s, d, t)
  PROVE  PendingInv'
<1>0. TypeOK
  BY DEF PendingInv, TypeInv
<1>1. /\ req'[s].user = d
      /\ \A r \in Slots \ {s} : req'[r] = req[r]
      /\ UNCHANGED <<status, client>>
  BY <1>0 DEF CreateCount, Start, TypeOK, Idle
<1>2. ASSUME NEW c \in Clients PROVE PendingOf(c)' = PendingOf(c)
  BY <1>1 DEF PendingOf
<1>3. ASSUME NEW c \in Clients, c # d PROVE Within(c)'
  <2>1. Creating(c)' \subseteq Creating(c)
    BY <1>1, <1>3 DEF Creating
  <2> QED BY <1>2, <2>1, FewerStayWithin
<1>4. Within(d)'
  <2>1. PICK P : P = PendingOf(d)
    OBVIOUS
  <2>2. PICK W : W = Creating(d)'
    OBVIOUS
  <2>3. P = PendingOf(d)'
    BY <1>2, <2>1
  <2>4. IsFiniteSet(P) /\ Cardinality(P) < MaxPending
    BY <2>1 DEF PendingInv, Within, CreateCount
  <2>5. Cardinality(P) \in Nat
    BY <2>4, FS_CardinalityType
  <2>6. W \in SUBSET Slots
    BY <2>2 DEF Creating
  <2>7. Cardinality(W) \in Nat /\ Cardinality(Slots) \in Nat
        /\ Cardinality(W) <= Cardinality(Slots)
    BY <2>6, SomeSlots
  <2>8. Cardinality(P) + Cardinality(W) <= MaxPending + Cardinality(Slots) - 1
    BY <2>4, <2>5, <2>7, BoundsAssumption
  <2> QED BY <2>2, <2>3, <2>4, <2>8 DEF Within
<1> QED BY <1>3, <1>4 DEF PendingInv

\* A creation commits: its slot makes room for the ticket it may leave pending.
LEMMA CommitWithin ==
  ASSUME PendingInv, TypeInv', NEW s \in Slots, CreateCommit(s)
  PROVE  PendingInv'
<1>0. TypeOK /\ req[s] \in SoundFrame
  BY DEF PendingInv, TypeInv
<1> PICK t : t = req[s].ticket
  OBVIOUS
<1> PICK d : d = req[s].user
  OBVIOUS
<1>1. t \in Tickets /\ d \in Clients /\ req[s].op \in Creates
  BY <1>0 DEF CreateCommit, At, SoundFrame, Creates
<1>2. /\ req'[s].op \notin Creates
      /\ \A r \in Slots \ {s} : req'[r] = req[r]
  BY <1>0 DEF CreateCommit, Return, TypeOK, Idle, Creates
<1>3. /\ client'[t] = d
      /\ \A u \in Tickets \ {t} : client'[u] = client[u] /\ status'[u] = status[u]
  BY <1>0, <1>1 DEF CreateCommit, TypeOK
<1>4. ASSUME NEW c \in Clients, c # d PROVE Within(c)'
  <2>1. PendingOf(c)' \subseteq PendingOf(c)
    BY <1>3, <1>4 DEF PendingOf
  <2>2. Creating(c)' \subseteq Creating(c)
    BY <1>2 DEF Creating
  <2> QED BY <2>1, <2>2, FewerStayWithin
<1>5. Within(d)'
  <2>1. PICK P : P = PendingOf(d)
    OBVIOUS
  <2>2. PICK Q : Q = PendingOf(d)'
    OBVIOUS
  <2>3. PICK V : V = Creating(d)
    OBVIOUS
  <2>4. PICK W : W = Creating(d)'
    OBVIOUS
  <2>5. /\ IsFiniteSet(P)
        /\ Cardinality(P) + Cardinality(V) <= MaxPending + Cardinality(Slots) - 1
    BY <1>1, <2>1, <2>3 DEF PendingInv, Within
  <2>6. Q \in SUBSET (P \cup {t})
    BY <1>3, <2>1, <2>2 DEF PendingOf
  <2>7. /\ IsFiniteSet(P \cup {t})
        /\ Cardinality(P \cup {t}) = IF t \in P THEN Cardinality(P) ELSE Cardinality(P) + 1
    BY <2>5, FS_AddElement
  <2>8. IsFiniteSet(Q) /\ Cardinality(Q) <= Cardinality(P \cup {t})
    BY <2>6, <2>7, FS_Subset
  <2>9. V \in SUBSET Slots /\ s \in V /\ W \in SUBSET (V \ {s})
    BY <1>1, <1>2, <2>3, <2>4 DEF Creating
  <2>10. IsFiniteSet(V) /\ Cardinality(V) \in Nat /\ Cardinality(Slots) \in Nat
    BY <2>9, SomeSlots
  <2>11. IsFiniteSet(V \ {s}) /\ Cardinality(V \ {s}) = Cardinality(V) - 1
    BY <2>9, <2>10, FS_RemoveElement
  <2>12. Cardinality(W) <= Cardinality(V) - 1 /\ Cardinality(W) \in Nat
    BY <2>9, <2>11, FS_Subset, FS_CardinalityType
  <2>13. Cardinality(P) \in Nat /\ Cardinality(Q) \in Nat
    BY <2>5, <2>8, FS_CardinalityType
  <2>14. Cardinality(Q) + Cardinality(W) <= MaxPending + Cardinality(Slots) - 1
    BY <2>5, <2>7, <2>8, <2>10, <2>12, <2>13, BoundsAssumption
  <2> QED BY <2>2, <2>4, <2>8, <2>14 DEF Within
<1> QED BY <1>4, <1>5 DEF PendingInv

\* A slot that gets any frame but one of create's creates nothing.
LEMMA OtherFrame ==
  ASSUME TypeInv, NEW s \in Slots
  PROVE  /\ \A f : Start(s, f) /\ f.op \notin Creates => CreatesNothing
         /\ \A f : req' = [req EXCEPT ![s] = f] /\ f.op \notin Creates => CreatesNothing
         /\ \A op \in Ops \ Creates : Go(s, op) => CreatesNothing
         /\ Return(s) => CreatesNothing
         /\ UNCHANGED req => CreatesNothing
<1>0. req \in [Slots -> Frame]
  BY DEF TypeInv, TypeOK
<1>1. ASSUME NEW f, req' = [req EXCEPT ![s] = f], f.op \notin Creates PROVE CreatesNothing
  BY <1>0, <1>1 DEF CreatesNothing
<1>2. ASSUME NEW op \in Ops \ Creates, Go(s, op) PROVE CreatesNothing
  <2>1. req' = [req EXCEPT ![s] = [req[s] EXCEPT !.op = op]]
    BY <1>2 DEF Go
  <2>2. [req[s] EXCEPT !.op = op].op = op
    BY <1>0 DEF Frame
  <2> QED BY <1>1, <2>1, <2>2
<1>3. Idle.op \notin Creates
  BY DEF Idle, Creates
<1> QED BY <1>1, <1>2, <1>3 DEF Start, Return, CreatesNothing

LEMMA OtherRequestsCreateNothing ==
  ASSUME TypeInv, NEW s \in Slots, NEW t \in Tickets
  PROVE  /\ \A a \in Assessors : TakeCount(s, a, t) => CreatesNothing
         /\ \A a \in Assessors : FinalizeRead(s, a, t) => CreatesNothing
         /\ CheckStatus(s, t) => CreatesNothing
         /\ \A u \in Users : \A image \in Uploads \cup {NoImage} :
              SendMessage(s, u, t, image) => CreatesNothing
         /\ \A u \in Users : SetTimer(s, u, t) => CreatesNothing
         /\ \A a \in Assessors : \A image \in Images :
              NoticeRead(s, a, t, image) => CreatesNothing
         /\ ReviewRead(s, t) => CreatesNothing
<1>1. ASSUME NEW a \in Assessors, TakeCount(s, a, t) PROVE CreatesNothing
  BY <1>1, OtherFrame DEF TakeCount, Idle, Creates
<1>2. ASSUME NEW a \in Assessors, FinalizeRead(s, a, t) PROVE CreatesNothing
  BY <1>2, OtherFrame DEF FinalizeRead, Idle, Creates
<1>3. CheckStatus(s, t) => CreatesNothing
  BY OtherFrame DEF CheckStatus, Idle, Creates
<1>4. ASSUME NEW u \in Users, NEW image \in Uploads \cup {NoImage},
             SendMessage(s, u, t, image)
      PROVE  CreatesNothing
  BY <1>4, OtherFrame DEF SendMessage, Idle, Creates
<1>5. ASSUME NEW u \in Users, SetTimer(s, u, t) PROVE CreatesNothing
  <2>1. CASE MaySend(t, u)
    BY <1>5, <2>1, OtherFrame DEF SetTimer, Idle, Creates
  <2>2. CASE ~MaySend(t, u)
    BY <1>5, <2>2, OtherFrame DEF SetTimer
  <2> QED BY <2>1, <2>2
<1>6. ASSUME NEW a \in Assessors, NEW image \in Images, NoticeRead(s, a, t, image)
      PROVE  CreatesNothing
  BY <1>6, OtherFrame DEF NoticeRead, Idle, Creates
<1>7. ReviewRead(s, t) => CreatesNothing
  BY OtherFrame DEF ReviewRead, Idle, Creates
<1> QED BY <1>1, <1>2, <1>3, <1>4, <1>5, <1>6, <1>7

LEMMA RequestQueues ==
  ASSUME PendingInv, TypeInv', NEW s \in Slots, Request(s) \/ Answer(s)
  PROVE  PendingInv'
<1>1. CASE \E t \in Tickets, c \in Clients : CreateCount(s, c, t)
  BY <1>1, EnterWithin
<1>2. CASE ~ \E t \in Tickets, c \in Clients : CreateCount(s, c, t)
  <2>1. CreatesNothing
    <3>1. TypeInv
      BY DEF PendingInv
    <3>2. CASE Answer(s)
      BY <3>1, <3>2, OtherFrame DEF Answer, AnswerRead, Idle, Creates
    <3>3. CASE Request(s)
      BY <1>2, <3>1, <3>3, OtherRequestsCreateNothing DEF Request
    <3> QED BY <3>2, <3>3
  <2>2. UNCHANGED <<status, client>>
    BY DEF Request, CreateCount, TakeCount, FinalizeRead, CheckStatus, SendMessage,
       SetTimer, NoticeRead, ReviewRead, Answer, AnswerRead
  <2>3. QueuesNothing
    BY <2>2 DEF QueuesNothing
  <2> QED BY <2>1, <2>3, QuietQueue
<1> QED BY <1>1, <1>2

LEMMA ContinueQueues ==
  ASSUME PendingInv, TypeInv', NEW s \in Slots, Continue(s)
  PROVE  PendingInv'
<1>0. TypeInv /\ TypeOK /\ req[s] \in SoundFrame
  BY DEF PendingInv, TypeInv
<1>1. CASE CreateCommit(s)
  BY <1>1, CommitWithin
<1>2. CASE CreateAssign(s)
  <2>1. PICK b \in IF Candidates = {} THEN {NoUser} ELSE BestAssessors :
          req' = [req EXCEPT ![s].op = "create.commit", ![s].pick = b]
    BY <1>2 DEF CreateAssign
  <2>2. req[s].op = "create.assign"
    BY <1>2 DEF CreateAssign, At
  <2>3. /\ req'[s].user = req[s].user
        /\ \A r \in Slots \ {s} : req'[r] = req[r]
    BY <1>0, <2>1 DEF TypeOK, Frame
  <2>4. CreatesNothing
    BY <2>2, <2>3 DEF CreatesNothing, Creates
  <2>5. QueuesNothing
    BY <1>2 DEF CreateAssign, QueuesNothing
  <2> QED BY <2>4, <2>5, QuietQueue
<1>3. CASE \/ TakeWrite(s) \/ FinalizeWrite(s) \/ MessageWrite(s) \/ TimerWrite(s)
           \/ \E n \in Notices : NoticeWrite(s, n)
           \/ CancelTicket(s) \/ AttachProof(s) \/ ReviewWrite(s) \/ RequestError(s)
  <2>1. Return(s)
    BY <1>3 DEF TakeWrite, FinalizeWrite, MessageWrite, TimerWrite, NoticeWrite,
       CancelTicket, AttachProof, ReviewWrite, RequestError
  <2>2. CreatesNothing
    BY <1>0, <2>1, OtherFrame
  <2>3. UNCHANGED client
    BY <1>3 DEF TakeWrite, FinalizeWrite, CloseTicket, MessageWrite, TimerWrite,
       NoticeWrite, CancelTicket, AttachProof, ReviewWrite, RequestError
  <2>4. \/ UNCHANGED status
        \/ \E t \in Tickets, new \in {"PROCESSING", "SUCCESS", "CANCELLED"} :
             status' = [status EXCEPT ![t] = new]
    BY <1>0, <1>3 DEF TakeWrite, FinalizeWrite, CloseTicket, MessageWrite, TimerWrite,
       NoticeWrite, CancelTicket, AttachProof, ReviewWrite, RequestError, At, SoundFrame
  <2>5. QueuesNothing
    BY <1>0, <2>3, <2>4 DEF QueuesNothing, TypeOK
  <2> QED BY <2>2, <2>5, QuietQueue
<1>4. CASE WelcomeRead(s) \/ WelcomeSave(s) \/ AnswerWrite(s)
  <2>1. UNCHANGED <<status, client>>
    BY <1>4 DEF WelcomeRead, WelcomeSave, AnswerWrite
  <2>2. QueuesNothing
    BY <2>1 DEF QueuesNothing
  <2>3. CreatesNothing
    <3>1. CASE WelcomeRead(s)
      <4> PICK f : f = [req[s] EXCEPT !.op = "welcome.save",
                                      !.user = assessor[req[s].ticket],
                                      !.image = QrOf[req[s].ticket]]
        OBVIOUS
      <4>1. req' = [req EXCEPT ![s] = f] \/ Return(s)
        BY <1>0, <3>1 DEF WelcomeRead, TypeOK
      <4>2. f.op \notin Creates
        BY <1>0 DEF SoundFrame, Frame, Creates
      <4> QED BY <1>0, <4>1, <4>2, OtherFrame
    <3>2. CASE WelcomeSave(s)
      <4>1. "message.write" \in Ops \ Creates
        BY DEF Ops, Creates
      <4> QED BY <1>0, <3>2, <4>1, OtherFrame DEF WelcomeSave
    <3>3. CASE AnswerWrite(s)
      <4>1. "ticket.cancel" \in Ops \ Creates /\ "ticket.attach" \in Ops \ Creates
        BY DEF Ops, Creates
      <4> QED BY <1>0, <3>3, <4>1, OtherFrame DEF AnswerWrite
    <3> QED BY <1>4, <3>1, <3>2, <3>3
  <2> QED BY <2>2, <2>3, QuietQueue
<1> QED BY <1>1, <1>2, <1>3, <1>4 DEF Continue

LEMMA PendingNext == PendingInv /\ [Next]_vars => PendingInv'
<1> SUFFICES ASSUME PendingInv, [Next]_vars PROVE PendingInv'
  OBVIOUS
<1>0. TypeInv /\ TypeInv'
  BY NextType DEF PendingInv
<1>1. ASSUME NEW s \in Slots, Request(s) \/ Answer(s) \/ Continue(s) PROVE PendingInv'
  BY <1>0, <1>1, RequestQueues, ContinueQueues
<1>2. ASSUME NEW k \in timers, Callback(k) PROVE PendingInv'
  <2>1. UNCHANGED <<client, req>>
    BY <1>2 DEF Callback, TimerFire, AutoClose, CloseTicket, TimerError
  <2>2. k.ticket \in Tickets
    BY <1>0 DEF TypeInv, TypeOK, Timer
  <2>3. UNCHANGED status \/ status' = [status EXCEPT ![k.ticket] = "SUCCESS"]
    BY <1>2 DEF Callback, TimerFire, AutoClose, CloseTicket, TimerError
  <2>4. QueuesNothing
    BY <1>0, <2>1, <2>2, <2>3 DEF QueuesNothing, TypeInv, TypeOK
  <2>5. CreatesNothing
    BY <2>1 DEF CreatesNothing
  <2> QED BY <1>0, <2>4, <2>5, QuietQueue
<1>3. ASSUME NEW a \in Assessors, Presence(a) PROVE PendingInv'
  <2>1. UNCHANGED <<status, client, req>>
    BY <1>3 DEF Presence, isOnlineUser, isOffOnlineUser, DeleteAssessor
  <2> QED BY <1>0, <2>1, QuietQueue DEF QueuesNothing, CreatesNothing
<1>4. CASE Restart
  <2>1. UNCHANGED <<status, client>> /\ req' = [s \in Slots |-> Idle]
    BY <1>4 DEF Restart
  <2>2. CreatesNothing
    BY <2>1 DEF CreatesNothing, Idle, Creates
  <2> QED BY <1>0, <2>1, <2>2, QuietQueue DEF QueuesNothing
<1>5. CASE UNCHANGED vars
  <2>1. UNCHANGED <<status, client, req>>
    BY <1>5 DEF vars
  <2> QED BY <1>0, <2>1, QuietQueue DEF QueuesNothing, CreatesNothing
<1> QED BY <1>1, <1>2, <1>3, <1>4, <1>5 DEF Next

LEMMA PendingStart == Init => PendingInv
<1> SUFFICES ASSUME Init PROVE PendingInv
  OBVIOUS
<1>1. ASSUME NEW c \in Clients PROVE Within(c)
  <2>1. PendingOf(c) = {} /\ Creating(c) = {}
    BY <1>1, RolesAssumption DEF Init, PendingOf, Creating, Idle, Creates
  <2>2. IsFiniteSet({}) /\ Cardinality({}) = 0
    BY FS_EmptySet
  <2>3. Cardinality(Slots) \in Nat /\ Cardinality(Slots) # 0
    BY SlotsAssumption, FS_EmptySet, FS_CardinalityType
  <2> QED BY <2>1, <2>2, <2>3, BoundsAssumption DEF Within
<1> QED BY <1>1, InitType DEF PendingInv

LEMMA PendingInvariant == Spec => []PendingInv
<1> QED BY PendingStart, PendingNext, PTL DEF Spec

\* The limit on pending tickets, counted before the transaction of create, is
\* overshot by at most the handlers that can be in flight besides the last one:
\* however many clients, tickets and slots there are.
THEOREM OvershootBounded == Spec => []PendingOvershoot
<1>1. PendingInv => PendingOvershoot
  BY DEF PendingInv, Within, Creating, Creates, PendingOvershoot
<1> QED BY <1>1, PendingInvariant, PTL

-----------------------------------------------------------------------------
(* Automatic assignment.  CreateAssign picks one of BestAssessors, which   *)
(* ranks by the number of tickets held and then by the last assignment:    *)
(* there is a first as long as nobody holds infinitely many.  At most one  *)
(* ticket gets a holder in a step, by the contract of TicketLife.          *)

Held == {t \in Tickets : assessor[t] # NoUser}

HeldInv == TypeInv /\ IsFiniteSet(Held)

LEMMA LifeHolds ==
  ASSUME assessor \in [Tickets -> Assessors \cup {NoUser}],
         [Contract!Advance]_(Contract!life)
  PROVE  \E t : \A u \in Tickets : u # t => assessor'[u] \in {assessor[u], NoUser}
<1>1. ASSUME NEW t \in Tickets, NEW a \in Assessors, Contract!Hold(t, a)
      PROVE  \A u \in Tickets : u # t => assessor'[u] = assessor[u]
  BY <1>1 DEF Contract!Hold
<1>2. ASSUME NEW a \in Assessors, Contract!Leave(a)
      PROVE  \A u \in Tickets : assessor'[u] \in {assessor[u], NoUser}
  BY <1>2 DEF Contract!Leave
<1>3. ASSUME NEW t \in Tickets,
             Contract!Open(t) \/ Contract!Prove(t) \/ Contract!Close(t) \/ Contract!Cancel(t)
      PROVE  assessor' = assessor
  BY <1>3 DEF Contract!Open, Contract!Prove, Contract!Close, Contract!Cancel
<1>4. UNCHANGED Contract!life => assessor' = assessor
  BY DEF Contract!life
<1> QED BY <1>1, <1>2, <1>3, <1>4 DEF Contract!Advance

LEMMA HeldNext ==
  ASSUME HeldInv, TypeInv', [Contract!Advance]_(Contract!life)
  PROVE  HeldInv'
<1>1. assessor \in [Tickets -> Assessors \cup {NoUser}]
  BY DEF HeldInv, TypeInv, TypeOK
<1>2. PICK t : \A u \in Tickets : u # t => assessor'[u] \in {assessor[u], NoUser}
  BY <1>1, LifeHolds
<1>3. PICK H : H = Held
  OBVIOUS
<1>4. PICK G : G = Held'
  OBVIOUS
<1>5. G \in SUBSET (H \cup {t})
  BY <1>2, <1>3, <1>4 DEF Held
<1>6. IsFiniteSet(H \cup {t})
  BY <1>3, FS_AddElement DEF HeldInv
<1>7. IsFiniteSet(G)
  BY <1>5, <1>6, FS_Subset
<1> QED BY <1>4, <1>7 DEF HeldInv

LEMMA HeldInvariant == Spec => []HeldInv
<1>1. Init => HeldInv
  <2> SUFFICES ASSUME Init PROVE HeldInv
    OBVIOUS
  <2>1. Held = {}
    BY DEF Init, Held
  <2> QED BY <2>1, InitType, FS_EmptySet DEF HeldInv
<1>2. HeldInv /\ DeskInv /\ ProofInv /\ [Next]_vars => HeldInv'
  BY HeldNext, StepMaps, NextType DEF HeldInv
<1> QED BY <1>1, <1>2, DeskInvariant, ProofInvariant, PTL DEF Spec

\* Every set of naturals that is not empty has a least element.
Less == {p \in Nat \X Nat : p[1] < p[2]}

LEMMA LeastNumber ==
  ASSUME NEW N \in SUBSET Nat, N # {}
  PROVE  \E m \in N : \A n \in N : ~(n < m)
<1>1. IsWellFoundedOn(OpToRel(<, Nat), Nat)
  BY NatLessThanWellFounded
<1>2. OpToRel(<, Nat) = Less
  BY DEF OpToRel, Less
<1>3. IsWellFoundedOn(Less, Nat)
  BY <1>1, <1>2
<1>4. PICK m \in N : \A n \in N : ~(<<n, m>> \in Less)
  BY <1>3, WFMin
<1>5. ASSUME NEW n \in N PROVE ~(n < m)
  BY <1>4, <1>5 DEF Less
<1> QED BY <1>5

LEMMA LeastRanked ==
  ASSUME NEW S, S # {}, NEW rank, \A x \in S : rank[x] \in Nat
  PROVE  \E x \in S : \A y \in S : ~(rank[y] < rank[x])
<1> PICK N : N = {rank[x] : x \in S}
  OBVIOUS
<1>1. N \in SUBSET Nat /\ N # {}
  OBVIOUS
<1>2. PICK m \in N : \A n \in N : ~(n < m)
  BY <1>1, LeastNumber
<1>3. PICK x \in S : rank[x] = m
  OBVIOUS
<1>4. ASSUME NEW y \in S PROVE ~(rank[y] < rank[x])
  <2>1. rank[y] \in N
    OBVIOUS
  <2> QED BY <1>2, <1>3, <2>1
<1> QED BY <1>4

\* Ranked by one number and, among equals, by a second, there still is a first.
LEMMA FirstOfTwoRanks ==
  ASSUME NEW S, S # {}, NEW load, NEW last,
         \A x \in S : load[x] \in Nat /\ last[x] \in Nat
  PROVE  \E x \in S : \A y \in S :
           ~(load[y] < load[x] \/ (load[y] = load[x] /\ last[y] < last[x]))
<1>1. PICK z \in S : \A y \in S : ~(load[y] < load[z])
  BY LeastRanked
<1> DEFINE T == {y \in S : load[y] = load[z]}
<1>2. T # {} /\ \A x \in T : last[x] \in Nat
  BY <1>1
<1>3. PICK x \in T : \A y \in T : ~(last[y] < last[x])
  BY <1>2, LeastRanked
<1>4. ASSUME NEW y \in S
      PROVE  ~(load[y] < load[x] \/ (load[y] = load[x] /\ last[y] < last[x]))
  BY <1>1, <1>3
<1> QED BY <1>3, <1>4

LEMMA SomebodyIsBest ==
  ASSUME HeldInv, Candidates # {}
  PROVE  BestAssessors # {}
<1> DEFINE load == [a \in Candidates |-> Cardinality(Assigned(a))]
           last == [a \in Candidates |-> LastRank(a)]
<1>1. ASSUME NEW a \in Candidates PROVE load[a] \in Nat /\ last[a] \in Nat
  <2>1. a \in Assessors
    BY RolesAssumption DEF HeldInv, TypeInv, TypeOK, Candidates
  <2>2. Assigned(a) \in SUBSET Held
    BY <2>1, RolesAssumption DEF Assigned, Held, Users
  <2>3. Cardinality(Assigned(a)) \in Nat
    BY <2>2, FS_Subset, FS_CardinalityType DEF HeldInv
  <2>4. LastRank(a) \in Nat
    BY <2>1 DEF LastRank, HeldInv, TypeInv, TypeOK
  <2> QED BY <2>3, <2>4
<1>2. PICK x \in Candidates : \A y \in Candidates :
        ~(load[y] < load[x] \/ (load[y] = load[x] /\ last[y] < last[x]))
  <2> HIDE DEF load, last
  <2> QED BY <1>1, FirstOfTwoRanks
<1>3. \A y \in Candidates : ~Before(y, x)
  BY <1>2 DEF Before
<1>4. x \in BestAssessors
  BY <1>3 DEF BestAssessors
<1> QED BY <1>4

\* Whenever an assessor of the team is available, the ranking of automatic assignment
\* has a first, so a creation gets an assessor however many there are and however
\* many tickets each holds (ticket.service.ts, create).
THEOREM SomebodyIsAssigned == Spec => [](Candidates # {} => BestAssessors # {})
<1>1. HeldInv => (Candidates # {} => BestAssessors # {})
  BY SomebodyIsBest
<1> QED BY <1>1, HeldInvariant, PTL

=============================================================================
