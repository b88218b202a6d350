---------------------------- MODULE SupportProofs ----------------------------
(***************************************************************************)
(* Proofs about presence and the support desk, for any numbers of users,   *)
(* sockets, handlers, messages, restarts and requests.                     *)
(***************************************************************************)
EXTENDS SupportProperties, TLAPS

-----------------------------------------------------------------------------
(* Presence.  The invariant is inductive as it stands: a closing socket    *)
(* takes the flag with it and marks the others of its user as dropped, and  *)
(* a start that fails to clear the marks leaves only marks it names.       *)

LEMMA PresenceInitially == Init => PresenceFollowsSockets
BY DEF Init, PresenceInit, PresenceFollowsSockets

LEMMA PresenceStep == PresenceFollowsSockets /\ [Next]_vars => PresenceFollowsSockets'
<1> SUFFICES ASSUME PresenceFollowsSockets, [Next]_vars
             PROVE  PresenceFollowsSockets'
  OBVIOUS
<1>1. ASSUME NEW x \in Sockets, Connect(x) PROVE PresenceFollowsSockets'
  BY <1>1 DEF Connect, PresenceFollowsSockets
<1>2. ASSUME NEW x \in Sockets, isOnlineUser(x) PROVE PresenceFollowsSockets'
  BY <1>2 DEF isOnlineUser, PresenceFollowsSockets, SocketsOf
<1>3. ASSUME NEW x \in Sockets, ConnectFail(x) PROVE PresenceFollowsSockets'
  BY <1>3 DEF ConnectFail, PresenceFollowsSockets
<1>4. ASSUME NEW x \in Sockets, Disconnect(x) PROVE PresenceFollowsSockets'
  BY <1>4 DEF Disconnect, PresenceFollowsSockets
<1>5. ASSUME NEW x \in Sockets, isOffOnlineUser(x) PROVE PresenceFollowsSockets'
  BY <1>5 DEF isOffOnlineUser, PresenceFollowsSockets, SocketsOf
<1>6. ASSUME NEW x \in Sockets, DisconnectFail(x) PROVE PresenceFollowsSockets'
  BY <1>6 DEF DisconnectFail, PresenceFollowsSockets
<1>7. CASE Restart
  BY <1>7 DEF Restart, PresenceRestart, PresenceFollowsSockets
<1>8. CASE UNCHANGED presenceVars
  BY <1>8 DEF presenceVars, PresenceFollowsSockets
<1>10. ASSUME NEW a \in Assessors, DeleteAssessor(a) PROVE PresenceFollowsSockets'
  BY <1>10 DEF DeleteAssessor, PresenceDelete, PresenceFollowsSockets
<1>9. [Next]_vars => \/ PresenceNext \/ Restart \/ UNCHANGED presenceVars
                    \/ \E a \in Assessors : DeleteAssessor(a)
  BY DEF Next, vars, Request, Statement, Fail, Tick, Create, TakeFind, FinalizeFind,
         CheckStatus, SendMessage, CreateAssign, CreateCommit, TakeWrite, FinalizeWrite,
         WelcomeRead, WelcomeSend, WelcomeSave, MessageSave, Post
<1> QED BY <1>1, <1>2, <1>3, <1>4, <1>5, <1>6, <1>7, <1>8, <1>9, <1>10 DEF PresenceNext

\* Who is marked online has a socket, and who has one is marked, but for the
\* exceptions the invariant names: a mark raised for a closed socket or left by
\* a write or a clearing that failed, a user whose other socket closed, and a
\* deleted user.  For any numbers of sockets, users and restarts.
THEOREM PresenceHolds == Spec => []PresenceFollowsSockets
BY PresenceInitially, PresenceStep, PTL DEF Spec

-----------------------------------------------------------------------------
(* The support desk.  SupportCorrect needs to know what a request in the   *)
(* middle of its statements has found: the tickets and chats it names are  *)
(* there, since neither is ever removed, and those it will write as        *)
(* assessor or sender are people of that kind, deleted since or not.  Only *)
(* tickets that were made can have lost their assessor.                    *)

Rows == \A n \in DOMAIN ticket : n \in Times /\ ticket[n] \in Row

Held == \A n \in DOMAIN ticket : ticket[n].assigned \in accounts \cup {Nobody}

Fit ==
  /\ \A n \in DOMAIN ticket :
        /\ n \in DOMAIN chat <=> ticket[n].assigned # Nobody \/ n \in orphans
        /\ ticket[n].assigned # Nobody => n \notin orphans
        /\ ticket[n].status = "PROCESSING" => n \in DOMAIN chat
        /\ ticket[n].status = "PENDING" => n \notin DOMAIN chat
  /\ DOMAIN chat \subseteq DOMAIN ticket
  /\ orphans \subseteq DOMAIN ticket

Said ==
  \A n \in DOMAIN chat :
     /\ chat[n] \in Seq(Message)
     /\ \A i \in DOMAIN chat[n] : HasAccount(chat[n][i].sender)

Tables == Rows /\ Held /\ Fit /\ Said

Present ==
  /\ online \subseteq accounts /\ accounts \subseteq Assessors
  /\ user \in [Sockets -> Assessors]
  /\ now \in Times
  /\ lastAssigned \in [Assessors -> Times \cup {Never}]

Found(f, numbers, chats) ==
  /\ f.step \in {"createAssign", "createCommit"} => f.who \in Clients
  /\ f.step \in {"takeWrite", "finalizeWrite", "welcomeRead", "welcomeSend",
                 "welcomeSave", "messageSave"} => f.ticket \in numbers
  /\ f.step = "takeWrite" => f.who \in Assessors
  /\ f.step \in {"welcomeSend", "welcomeSave"} => f.found \in Assessors /\ f.ticket \in chats
  /\ f.step = "messageSave" => f.who \in People /\ f.ticket \in chats

Asked ==
  /\ req \in [Handlers -> Frame]
  /\ \A h \in Handlers : Found(req[h], DOMAIN ticket, DOMAIN chat)

IInv == Tables /\ Present /\ Asked

LEMMA IInvCorrect == IInv => SupportCorrect
BY DEF IInv, Tables, Rows, Held, Fit, Said, Present, Asked, SupportCorrect

LEMMA RowShape ==
  \A r \in Row : /\ r.status \in {"PENDING", "PROCESSING", "SUCCESS"}
                 /\ r.client \in Clients /\ r.assigned \in Assessors \cup {Nobody}
BY DEF Row

LEMMA TablesKept ==
  ASSUME Tables, UNCHANGED <<accounts, supportVars>>
  PROVE  Tables'
BY DEF Tables, Rows, Held, Fit, Said, HasAccount, supportVars

\* A request goes on to f: the others still find what they had found.
LEMMA ReqStep ==
  ASSUME Asked, NEW h \in Handlers, NEW f \in Frame,
         req' = [req EXCEPT ![h] = f],
         DOMAIN ticket \subseteq DOMAIN ticket', DOMAIN chat \subseteq DOMAIN chat',
         Found(f, DOMAIN ticket', DOMAIN chat')
  PROVE  Asked'
<1>1. req \in [Handlers -> Frame]
  BY DEF Asked
<1>2. req' \in [Handlers -> Frame]
  BY <1>1
<1>3. ASSUME NEW k \in Handlers PROVE Found(req'[k], DOMAIN ticket', DOMAIN chat')
  <2>1. CASE k = h
    BY <2>1, <1>1
  <2>2. CASE k # h
    <3>1. Found(req[k], DOMAIN ticket, DOMAIN chat)
      BY DEF Asked
    <3>2. req'[k] = req[k]
      BY <2>2, <1>1
    <3> QED BY <3>1, <3>2 DEF Found
  <2> QED BY <2>1, <2>2
<1> QED BY <1>2, <1>3 DEF Asked

LEMMA IdleFound == Idle \in Frame /\ \A N, C : Found(Idle, N, C)
<1>1. 0 \in Times
  BY SupportAssumption DEF Times
<1>2. Idle \in Frame
  BY <1>1 DEF Idle, Frame, Steps
<1>3. \A N, C : Found(Idle, N, C)
  BY DEF Idle, Found
<1> QED BY <1>2, <1>3

\* Statements that change no row: they begin, go on, or answer with frame f.
LEMMA ReadStep ==
  ASSUME IInv, NEW h \in Handlers, NEW f \in Frame,
         req' = [req EXCEPT ![h] = f],
         UNCHANGED <<presenceVars, now, ticket, chat, lastAssigned, orphans>>,
         Found(f, DOMAIN ticket, DOMAIN chat)
  PROVE  IInv'
<1>1. Asked'
  BY ReqStep DEF IInv
<1>2. Tables'
  BY DEF IInv, Tables, Rows, Held, Fit, Said, HasAccount, presenceVars
<1>3. Present'
  BY DEF IInv, Present, presenceVars
<1> QED BY <1>1, <1>2, <1>3 DEF IInv

LEMMA AskRead ==
  ASSUME IInv, NEW h \in Handlers, NEW s \in Steps, NEW n \in Times,
         NEW u \in People \cup {Nobody}, Ask(h, s, n, u),
         UNCHANGED <<presenceVars, now, supportVars>>,
         Found([step |-> s, ticket |-> n, who |-> u, found |-> Nobody], DOMAIN ticket, DOMAIN chat)
  PROVE  IInv'
<1> DEFINE f == [step |-> s, ticket |-> n, who |-> u, found |-> Nobody]
<1>1. f \in Frame
  BY DEF Frame
<1>2. req' = [req EXCEPT ![h] = f]
  BY DEF Ask
<1> QED BY <1>1, <1>2, ReadStep DEF supportVars

LEMMA ThenRead ==
  ASSUME IInv, NEW h \in Handlers, NEW s \in Steps, NEW a \in Assessors \cup {Nobody},
         Then(h, s, a), UNCHANGED <<presenceVars, now, supportVars>>,
         Found([step |-> s, ticket |-> req[h].ticket, who |-> req[h].who, found |-> a],
               DOMAIN ticket, DOMAIN chat)
  PROVE  IInv'
<1> DEFINE f == [step |-> s, ticket |-> req[h].ticket, who |-> req[h].who, found |-> a]
<1>1. req[h] \in Frame
  BY DEF IInv, Asked
<1>2. f \in Frame
  BY <1>1 DEF Frame
<1>3. req' = [req EXCEPT ![h] = f]
  BY DEF Then
<1> QED BY <1>2, <1>3, ReadStep DEF supportVars

LEMMA RequestCorrect ==
  ASSUME IInv, NEW h \in Handlers, Request(h)
  PROVE  IInv'
<1> USE SupportAssumption DEF People
<1>0. /\ DOMAIN ticket \subseteq Times /\ now \in Times
      /\ DOMAIN chat \subseteq DOMAIN ticket
  BY DEF IInv, Tables, Rows, Fit, Present
<1>1. ASSUME NEW c \in Clients, Create(h, c) PROVE IInv'
  <2>1. Found([step |-> "createAssign", ticket |-> now, who |-> c, found |-> Nobody], DOMAIN ticket, DOMAIN chat)
    BY DEF Found
  <2> QED BY <1>0, <1>1, <2>1, AskRead DEF Create, supportNumber, Steps
<1>2. ASSUME NEW n \in DOMAIN ticket, NEW a \in Assessors, TakeFind(h, n, a) PROVE IInv'
  <2>1. Found([step |-> "takeWrite", ticket |-> n, who |-> a, found |-> Nobody], DOMAIN ticket, DOMAIN chat)
    BY DEF Found
  <2> QED BY <1>0, <1>2, <2>1, AskRead DEF TakeFind, Steps
<1>3. ASSUME NEW n \in DOMAIN ticket, FinalizeFind(h, n) PROVE IInv'
  <2>1. Found([step |-> "finalizeWrite", ticket |-> n, who |-> Nobody, found |-> Nobody], DOMAIN ticket, DOMAIN chat)
    BY DEF Found
  <2> QED BY <1>0, <1>3, <2>1, AskRead DEF FinalizeFind, Steps
<1>4. ASSUME NEW n \in DOMAIN ticket, NEW u \in People, CheckStatus(h, n, u) PROVE IInv'
  <2>1. Found([step |-> "welcomeRead", ticket |-> n, who |-> u, found |-> Nobody], DOMAIN ticket, DOMAIN chat)
    BY DEF Found
  <2> QED BY <1>0, <1>4, <2>1, AskRead DEF CheckStatus, Steps
<1>5. ASSUME NEW n \in DOMAIN ticket, NEW u \in People, SendMessage(h, n, u) PROVE IInv'
  <2>1. Found([step |-> "messageSave", ticket |-> n, who |-> u, found |-> Nobody], DOMAIN ticket, DOMAIN chat)
    BY <1>5 DEF Found, SendMessage
  <2> QED BY <1>0, <1>5, <2>1, AskRead DEF SendMessage, Steps
<1> QED BY <1>1, <1>2, <1>3, <1>4, <1>5 DEF Request

\* A statement that writes rows answers: the tables must still fit together.
LEMMA AnswerWrite ==
  ASSUME IInv, NEW h \in Handlers, Answer(h), UNCHANGED <<presenceVars, now>>,
         DOMAIN ticket \subseteq DOMAIN ticket', DOMAIN chat \subseteq DOMAIN chat',
         Tables', lastAssigned' \in [Assessors -> Times \cup {Never}]
  PROVE  IInv'
<1>1. Asked'
  BY IdleFound, ReqStep DEF IInv, Answer
<1>2. Present'
  BY DEF IInv, Present, presenceVars
<1> QED BY <1>1, <1>2 DEF IInv

\* Every chat is as before, or new and empty.
LEMMA SaidWider ==
  ASSUME Said, accounts' = accounts,
         \A m \in DOMAIN chat' : (m \in DOMAIN chat /\ chat'[m] = chat[m]) \/ chat'[m] = <<>>
  PROVE  Said'
<1> SUFFICES ASSUME NEW m \in DOMAIN chat'
             PROVE  /\ chat'[m] \in Seq(Message)
                    /\ \A i \in DOMAIN chat'[m] : HasAccount(chat'[m][i].sender)
  BY DEF Said, HasAccount
<1>1. CASE chat'[m] = <<>>
  BY <1>1
<1>2. CASE m \in DOMAIN chat /\ chat'[m] = chat[m]
  BY <1>2 DEF Said
<1> QED BY <1>1, <1>2

LEMMA CreateCommitCorrect ==
  ASSUME IInv, NEW h \in Handlers, CreateCommit(h)
  PROVE  IInv'
<1> DEFINE n == req[h].ticket
           a == req[h].found
           r == [status |-> IF a = Nobody THEN "PENDING" ELSE "PROCESSING",
                 client |-> req[h].who, assigned |-> a]
<1> USE SupportAssumption
<1>1. req[h] \in Frame /\ Found(req[h], DOMAIN ticket, DOMAIN chat) /\ Tables
  BY DEF IInv, Asked
<1>2. n \in Times /\ a \in Assessors \cup {Nobody} /\ req[h].who \in Clients
  BY <1>1 DEF Frame, Found, CreateCommit, At
<1>3. r \in Row /\ r.assigned = a /\ r.status = IF a = Nobody THEN "PENDING" ELSE "PROCESSING"
  BY <1>2 DEF Row
<1>4. /\ n \notin DOMAIN ticket
      /\ a = Nobody \/ a \in accounts
      /\ ticket' = Plus(ticket, n, r)
      /\ chat' = IF a = Nobody THEN chat ELSE Plus(chat, n, <<>>)
      /\ lastAssigned' = IF a = Nobody THEN lastAssigned
                                       ELSE [lastAssigned EXCEPT ![a] = now]
      /\ orphans' = orphans /\ accounts' = accounts
  BY DEF CreateCommit, presenceVars
<1> HIDE DEF r
<1>5. /\ DOMAIN ticket' = DOMAIN ticket \cup {n}
      /\ \A m \in DOMAIN ticket' : ticket'[m] = IF m = n THEN r ELSE ticket[m]
  BY <1>4 DEF Plus
<1>6. /\ DOMAIN chat' = IF a = Nobody THEN DOMAIN chat ELSE DOMAIN chat \cup {n}
      /\ \A m \in DOMAIN chat' : chat'[m] = IF m \in DOMAIN chat THEN chat[m] ELSE <<>>
  <2>1. n \notin DOMAIN chat
    BY <1>1, <1>4 DEF Tables, Fit
  <2> QED BY <1>4, <2>1 DEF Plus
<1>7. Tables'
  <2>1. Rows'
    BY <1>1, <1>2, <1>3, <1>5 DEF Tables, Rows
  <2>2. Held'
    BY <1>1, <1>3, <1>4, <1>5 DEF Tables, Held
  <2>3. Fit'
    BY <1>1, <1>3, <1>4, <1>5, <1>6 DEF Tables, Fit
  <2>4. Said'
    BY <1>1, <1>4, <1>6, SaidWider DEF Tables
  <2> QED BY <2>1, <2>2, <2>3, <2>4 DEF Tables
<1>8. lastAssigned' \in [Assessors -> Times \cup {Never}]
  BY <1>2, <1>4 DEF IInv, Present
<1> QED BY <1>5, <1>6, <1>7, <1>8, AnswerWrite DEF CreateCommit

LEMMA TakeWriteCorrect ==
  ASSUME IInv, NEW h \in Handlers, TakeWrite(h)
  PROVE  IInv'
<1> DEFINE n == req[h].ticket
           r == [status |-> "PROCESSING", client |-> ticket[n].client, assigned |-> req[h].who]
<1> USE SupportAssumption
<1>1. Found(req[h], DOMAIN ticket, DOMAIN chat) /\ Tables
  BY DEF IInv, Asked
<1>2. /\ n \in DOMAIN ticket /\ req[h].who \in Assessors /\ req[h].who # Nobody
      /\ req[h].who \in accounts
  BY <1>1 DEF Found, TakeWrite, At
<1>3. r \in Row /\ r.assigned = req[h].who /\ r.status = "PROCESSING"
  <2>1. ticket[n].client \in Clients
    BY <1>1, <1>2, RowShape DEF Tables, Rows
  <2> QED BY <1>2, <2>1 DEF Row
<1>4. /\ ticket' = [ticket EXCEPT ![n] = r]
      /\ chat' = IF n \in DOMAIN chat THEN chat ELSE Plus(chat, n, <<>>)
      /\ orphans' = orphans \ {n} /\ accounts' = accounts
  BY DEF TakeWrite, presenceVars
<1> HIDE DEF r
<1>5. /\ DOMAIN ticket' = DOMAIN ticket
      /\ \A m \in DOMAIN ticket' : ticket'[m] = IF m = n THEN r ELSE ticket[m]
  BY <1>4
<1>6. /\ DOMAIN chat' = DOMAIN chat \cup {n}
      /\ \A m \in DOMAIN chat' : chat'[m] = IF m \in DOMAIN chat THEN chat[m] ELSE <<>>
  BY <1>4 DEF Plus
<1>7. Tables'
  <2>1. Rows'
    BY <1>1, <1>3, <1>5 DEF Tables, Rows
  <2>2. Held'
    BY <1>1, <1>2, <1>3, <1>4, <1>5 DEF Tables, Held
  <2>3. Fit'
    BY <1>1, <1>2, <1>3, <1>4, <1>5, <1>6 DEF Tables, Fit
  <2>4. Said'
    BY <1>1, <1>4, <1>6, SaidWider DEF Tables
  <2> QED BY <2>1, <2>2, <2>3, <2>4 DEF Tables
<1>8. lastAssigned' \in [Assessors -> Times \cup {Never}]
  BY DEF IInv, Present, TakeWrite
<1> QED BY <1>5, <1>6, <1>7, <1>8, AnswerWrite DEF TakeWrite

LEMMA FinalizeWriteCorrect ==
  ASSUME IInv, NEW h \in Handlers, FinalizeWrite(h)
  PROVE  IInv'
<1> DEFINE n == req[h].ticket
           r == [status |-> "SUCCESS", client |-> ticket[n].client, assigned |-> ticket[n].assigned]
<1>1. Found(req[h], DOMAIN ticket, DOMAIN chat) /\ Tables
  BY DEF IInv, Asked
<1>2. n \in DOMAIN ticket
  BY <1>1 DEF Found, FinalizeWrite, At
<1>3. r \in Row /\ r.assigned = ticket[n].assigned /\ r.status = "SUCCESS"
  <2>1. ticket[n].client \in Clients /\ ticket[n].assigned \in Assessors \cup {Nobody}
    BY <1>1, <1>2, RowShape DEF Tables, Rows
  <2> QED BY <2>1 DEF Row
<1>4. ticket' = [ticket EXCEPT ![n] = r] /\ UNCHANGED <<chat, orphans, accounts>>
  BY DEF FinalizeWrite, presenceVars
<1> HIDE DEF r
<1>5. /\ DOMAIN ticket' = DOMAIN ticket
      /\ \A m \in DOMAIN ticket' : ticket'[m] = IF m = n THEN r ELSE ticket[m]
  BY <1>4
<1>6. Tables'
  <2>1. Rows'
    BY <1>1, <1>3, <1>5 DEF Tables, Rows
  <2>2. Held'
    BY <1>1, <1>3, <1>4, <1>5 DEF Tables, Held
  <2>3. Fit'
    BY <1>1, <1>3, <1>4, <1>5 DEF Tables, Fit
  <2>4. Said'
    BY <1>1, <1>4, SaidWider DEF Tables
  <2> QED BY <2>1, <2>2, <2>3, <2>4 DEF Tables
<1>7. lastAssigned' \in [Assessors -> Times \cup {Never}]
  BY DEF IInv, Present, FinalizeWrite
<1> QED BY <1>4, <1>5, <1>6, <1>7, AnswerWrite DEF FinalizeWrite

LEMMA PostCorrect ==
  ASSUME IInv, NEW h \in Handlers, NEW m \in Message, NEW n \in DOMAIN chat, Post(h, n, m)
  PROVE  IInv'
<1>1. Tables
  BY DEF IInv
<1>2. /\ DOMAIN chat' = DOMAIN chat /\ HasAccount(m.sender)
      /\ \A k \in DOMAIN chat : chat'[k] = IF k = n THEN Append(chat[k], m) ELSE chat[k]
      /\ UNCHANGED <<ticket, orphans, accounts, lastAssigned>>
  BY DEF Post, presenceVars
<1>3. Said'
  <2> SUFFICES ASSUME NEW k \in DOMAIN chat
               PROVE  /\ chat'[k] \in Seq(Message)
                      /\ \A i \in DOMAIN chat'[k] : HasAccount(chat'[k][i].sender)
    BY <1>2 DEF Said, HasAccount
  <2>1. chat[k] \in Seq(Message) /\ \A i \in DOMAIN chat[k] : HasAccount(chat[k][i].sender)
    BY <1>1 DEF Tables, Said
  <2>2. CASE k # n
    BY <1>2, <2>1, <2>2
  <2>3. CASE k = n
    <3>1. chat'[k] = Append(chat[k], m)
      BY <1>2, <2>3
    <3>2. chat'[k] \in Seq(Message)
      BY <2>1, <3>1
    <3>3. ASSUME NEW i \in DOMAIN chat'[k] PROVE HasAccount(chat'[k][i].sender)
      <4>0. i \in 1..Len(chat[k]) + 1 /\ DOMAIN chat[k] = 1..Len(chat[k]) /\ Len(chat[k]) \in Nat
        BY <2>1, <3>1, <3>3
      <4>1. chat'[k][i] = m \/ (i \in DOMAIN chat[k] /\ chat'[k][i] = chat[k][i])
        BY <2>1, <3>1, <4>0
      <4> QED BY <1>2, <2>1, <4>1
    <3> QED BY <3>2, <3>3
  <2> QED BY <2>2, <2>3
<1>4. Tables'
  BY <1>1, <1>2, <1>3 DEF Tables, Rows, Held, Fit
<1>5. lastAssigned' \in [Assessors -> Times \cup {Never}]
  BY <1>2 DEF IInv, Present
<1> QED BY <1>2, <1>4, <1>5, AnswerWrite DEF Post

LEMMA StatementCorrect ==
  ASSUME IInv, NEW h \in Handlers, Statement(h)
  PROVE  IInv'
<1> USE SupportAssumption
<1>1. req[h] \in Frame /\ Found(req[h], DOMAIN ticket, DOMAIN chat) /\ Tables
  BY DEF IInv, Asked
<1>2. CASE CreateAssign(h)
  <2>1. Best \subseteq Assessors \cup {Nobody}
    BY DEF Best, IInv, Present
  <2>2. PICK a \in Best : Then(h, "createCommit", a)
    BY <1>2 DEF CreateAssign
  <2>3. Found([step |-> "createCommit", ticket |-> req[h].ticket, who |-> req[h].who, found |-> a],
              DOMAIN ticket, DOMAIN chat)
    BY <1>1, <1>2 DEF Found, CreateAssign, At
  <2> QED BY <1>2, <2>1, <2>2, <2>3, ThenRead DEF CreateAssign, Steps
<1>3. CASE WelcomeRead(h)
  <2> DEFINE n == req[h].ticket
  <2>1. n \in DOMAIN chat /\ ticket[n].assigned # Nobody
    BY <1>3 DEF WelcomeRead
  <2>2. n \in DOMAIN ticket /\ ticket[n].assigned \in Assessors
    BY <1>1, <2>1, RowShape DEF Tables, Rows, Fit
  <2>3. Found([step |-> "welcomeSend", ticket |-> n, who |-> req[h].who, found |-> ticket[n].assigned],
              DOMAIN ticket, DOMAIN chat)
    BY <2>1, <2>2 DEF Found
  <2> QED BY <1>3, <2>2, <2>3, ThenRead DEF WelcomeRead, Steps
<1>4. CASE WelcomeSend(h)
  <2>1. req[h].found \in Assessors
    BY <1>1, <1>4 DEF Found, WelcomeSend, At
  <2>2. Found([step |-> "welcomeSave", ticket |-> req[h].ticket, who |-> req[h].who, found |-> req[h].found],
              DOMAIN ticket, DOMAIN chat)
    BY <1>1, <1>4 DEF Found, WelcomeSend, At
  <2> QED BY <1>4, <2>1, <2>2, ThenRead DEF WelcomeSend, Steps
<1>5. CASE WelcomeSave(h)
  <2>1. req[h].found \in People /\ req[h].ticket \in DOMAIN chat
    BY <1>1, <1>5 DEF Found, WelcomeSave, At, People
  <2>2. [sender |-> req[h].found, welcome |-> TRUE, late |-> h \in overtaken] \in Message
    BY <2>1 DEF Message
  <2> QED BY <1>5, <2>1, <2>2, PostCorrect DEF WelcomeSave
<1>6. CASE MessageSave(h)
  <2>1. req[h].who \in People /\ req[h].ticket \in DOMAIN chat
    BY <1>1, <1>6 DEF Found, MessageSave, At
  <2>2. [sender |-> req[h].who, welcome |-> FALSE, late |-> FALSE] \in Message
    BY <2>1 DEF Message
  <2> QED BY <1>6, <2>1, <2>2, PostCorrect DEF MessageSave
<1> QED BY <1>2, <1>3, <1>4, <1>5, <1>6, CreateCommitCorrect, TakeWriteCorrect,
           FinalizeWriteCorrect DEF Statement

LEMMA PresenceKeepsPresent ==
  ASSUME Present, PresenceNext \/ PresenceRestart, UNCHANGED <<now, lastAssigned>>
  PROVE  Present' /\ accounts' = accounts
BY DEF Present, PresenceNext, PresenceRestart, Connect, isOnlineUser, ConnectFail,
       Disconnect, isOffOnlineUser, DisconnectFail

\* A deleted assessor wrote nothing, and whatever was assigned to it is orphan.
LEMMA DeleteAssessorCorrect ==
  ASSUME IInv, NEW a \in Assessors, DeleteAssessor(a)
  PROVE  IInv'
<1> USE SupportAssumption
<1>1. Tables
  BY DEF IInv
<1>2. /\ accounts' = accounts \ {a} /\ online' = online \ {a} /\ user' = user
      /\ UNCHANGED <<now, chat, lastAssigned, req>>
      /\ orphans' = orphans \cup {n \in DOMAIN ticket : ticket[n].assigned = a}
      /\ \A n \in DOMAIN chat : \A i \in DOMAIN chat[n] : chat[n][i].sender # a
  BY DEF DeleteAssessor, PresenceDelete
<1>3. /\ DOMAIN ticket' = DOMAIN ticket
      /\ \A n \in DOMAIN ticket :
            /\ ticket'[n] \in Row /\ ticket'[n].status = ticket[n].status
            /\ ticket'[n].assigned = IF ticket[n].assigned = a THEN Nobody ELSE ticket[n].assigned
  <2>1. ticket' = [n \in DOMAIN ticket |->
                     [ticket[n] EXCEPT !.assigned = IF @ = a THEN Nobody ELSE @]]
    BY DEF DeleteAssessor
  <2>2. ASSUME NEW n \in DOMAIN ticket
        PROVE  /\ ticket'[n] \in Row /\ ticket'[n].status = ticket[n].status
               /\ ticket'[n].assigned = IF ticket[n].assigned = a THEN Nobody ELSE ticket[n].assigned
    BY <1>1, <2>1 DEF Tables, Rows, Row
  <2> QED BY <2>1, <2>2
<1>4. Rows'
  BY <1>1, <1>3 DEF Tables, Rows
<1>5. Held'
  BY <1>1, <1>2, <1>3 DEF Tables, Held
<1>6. Fit'
  BY <1>1, <1>2, <1>3 DEF Tables, Fit
<1>7. Said'
  BY <1>1, <1>2 DEF Tables, Said, HasAccount
<1>8. Present'
  BY <1>2 DEF IInv, Present
<1>9. Asked'
  BY <1>2, <1>3 DEF IInv, Asked, Found
<1> QED BY <1>4, <1>5, <1>6, <1>7, <1>8, <1>9 DEF IInv, Tables

LEMMA SupportStep == IInv /\ [Next]_vars => IInv'
<1> SUFFICES ASSUME IInv, [Next]_vars PROVE IInv'
  OBVIOUS
<1>1. ASSUME NEW h \in Handlers, Fail(h) PROVE IInv'
  BY <1>1, IdleFound, ReadStep DEF Fail, Leave, Answer
<1>2. CASE PresenceNext /\ UNCHANGED <<now, supportVars, req, asked>>
  <2>1. Present' /\ accounts' = accounts
    BY <1>2, PresenceKeepsPresent DEF IInv, supportVars
  <2>2. Tables'
    BY <1>2, <2>1, TablesKept DEF IInv
  <2>3. Asked'
    BY <1>2 DEF IInv, Asked, Found, supportVars
  <2> QED BY <2>1, <2>2, <2>3 DEF IInv
<1>3. CASE Tick
  <2>1. Present' /\ accounts' = accounts
    BY <1>3, SupportAssumption DEF Tick, IInv, Present, Times, presenceVars, supportVars
  <2>2. Tables'
    BY <1>3, <2>1, TablesKept DEF IInv, Tick
  <2>3. Asked'
    BY <1>3 DEF IInv, Asked, Found, supportVars, Tick
  <2> QED BY <2>1, <2>2, <2>3 DEF IInv
<1>4. CASE Restart
  <2>1. Present' /\ accounts' = accounts
    BY <1>4, PresenceKeepsPresent DEF IInv, Restart
  <2>2. Tables'
    BY <1>4, <2>1 DEF IInv, Restart, Tables, Rows, Held, Fit, Said, HasAccount
  <2>3. Asked'
    BY <1>4, IdleFound DEF Asked, Restart
  <2> QED BY <2>1, <2>2, <2>3 DEF IInv
<1>5. CASE UNCHANGED vars
  <2>1. Tables'
    BY <1>5, TablesKept DEF IInv, vars, presenceVars
  <2> QED BY <1>5, <2>1 DEF IInv, Present, Asked, Found, vars, presenceVars, supportVars
<1> QED BY <1>1, <1>2, <1>3, <1>4, <1>5, RequestCorrect, StatementCorrect,
           DeleteAssessorCorrect DEF Next

LEMMA SupportInitially == Init => IInv
<1> SUFFICES ASSUME Init PROVE IInv
  OBVIOUS
<1>1. Tables
  BY DEF Init, Tables, Rows, Held, Fit, Said
<1>2. Present
  BY SupportAssumption DEF Init, PresenceInit, Present, Times
<1>3. Asked
  BY IdleFound DEF Init, Asked
<1> QED BY <1>1, <1>2, <1>3 DEF IInv

LEMMA IInvHolds == Spec => []IInv
BY SupportInitially, SupportStep, PTL DEF Spec

\* A ticket has its chat exactly when it has, or was left by, an assessor, and
\* nothing names a deleted one: for any number of people, concurrent handlers,
\* deletions, failures and restarts.
THEOREM SupportHolds == Spec => []SupportCorrect
BY IInvCorrect, IInvHolds, PTL

-----------------------------------------------------------------------------
(* Welcomes.  A handler writes a welcome only into a chat it found empty,  *)
(* and one nobody wrote to since is empty still.                           *)

Writing(f) == f.step \in {"welcomeSend", "welcomeSave"}

Fresh ==
  \A h \in Handlers : Writing(req[h]) /\ h \notin overtaken => chat[req[h].ticket] = <<>>

\* A statement of h that leaves the chats that are there as they were.
LEMMA FreshKept ==
  ASSUME IInv, Fresh, \A n \in DOMAIN chat : chat'[n] = chat[n],
         NEW h \in Handlers, overtaken \ {h} \subseteq overtaken',
         \A g \in Handlers \ {h} : req'[g] = req[g],
         Writing(req'[h]) => h \in overtaken' \/ chat'[req'[h].ticket] = <<>>
  PROVE  Fresh'
<1> SUFFICES ASSUME NEW g \in Handlers, Writing(req'[g]), g \notin overtaken'
             PROVE  chat'[req'[g].ticket] = <<>>
  BY DEF Fresh, Writing
<1>1. CASE g = h
  BY <1>1
<1>2. CASE g # h
  <2>1. req'[g] = req[g] /\ g \notin overtaken
    BY <1>2
  <2>2. req[g].ticket \in DOMAIN chat
    BY <2>1 DEF IInv, Asked, Found, Writing
  <2> QED BY <2>1, <2>2 DEF Fresh
<1> QED BY <1>1, <1>2

LEMMA FreshPost ==
  ASSUME IInv, Fresh, NEW h \in Handlers, NEW n \in DOMAIN chat, NEW m, Post(h, n, m)
  PROVE  Fresh'
<1> SUFFICES ASSUME NEW g \in Handlers, Writing(req'[g]), g \notin overtaken'
             PROVE  chat'[req'[g].ticket] = <<>>
  BY DEF Fresh, Writing
<1>1. req \in [Handlers -> Frame]
  BY DEF IInv, Asked
<1>2. g # h
  BY <1>1 DEF Post, Answer, Idle, Writing
<1>3. req'[g] = req[g]
  BY <1>1, <1>2 DEF Post, Answer
<1>4. g \notin overtaken /\ req[g].ticket # n
  BY <1>2, <1>3 DEF Post, Writing
<1>5. req[g].ticket \in DOMAIN chat
  BY <1>3 DEF IInv, Asked, Found, Writing
<1>6. chat'[req[g].ticket] = chat[req[g].ticket]
  BY <1>4, <1>5 DEF Post
<1> QED BY <1>3, <1>4, <1>6 DEF Fresh

\* What a statement may do to a chat: leave it, make it empty, or store one
\* message at its end, a welcome that is not late only into an empty chat.
LEMMA WelcomeStored ==
  ASSUME IInv, WelcomeOnce, NEW h \in Handlers, NEW n \in DOMAIN chat, NEW m \in Message,
         Post(h, n, m), m.welcome => m.late \/ chat[n] = <<>>
  PROVE  WelcomeOnce'
<1> SUFFICES ASSUME NEW k \in DOMAIN chat', NEW i \in DOMAIN chat'[k], i > 1, chat'[k][i].welcome
             PROVE  chat'[k][i].late
  BY DEF WelcomeOnce
<1>1. chat' = [chat EXCEPT ![n] = Append(@, m)]
  BY DEF Post
<1>2. k \in DOMAIN chat /\ chat[k] \in Seq(Message)
  BY <1>1 DEF IInv, Tables, Said
<1>3. CASE k # n
  BY <1>1, <1>2, <1>3 DEF WelcomeOnce
<1>4. CASE k = n
  <2>1. chat'[k] = Append(chat[k], m)
    BY <1>1, <1>2, <1>4
  <2>2. CASE i \in DOMAIN chat[k]
    <3>1. chat'[k][i] = chat[k][i]
      BY <1>2, <2>1, <2>2
    <3> QED BY <1>2, <2>2, <3>1 DEF WelcomeOnce
  <2>3. CASE i \notin DOMAIN chat[k]
    <3>1. i = Len(chat[k]) + 1 /\ chat'[k][i] = m
      BY <1>2, <2>1, <2>3
    <3>2. chat[k] # <<>>
      BY <1>2, <3>1
    <3> QED BY <1>4, <3>1, <3>2
  <2> QED BY <2>2, <2>3
<1> QED BY <1>3, <1>4

\* Chats are as before, or new and empty.
LEMMA WelcomesKept ==
  ASSUME WelcomeOnce,
         \A n \in DOMAIN chat' : (n \in DOMAIN chat /\ chat'[n] = chat[n]) \/ chat'[n] = <<>>
  PROVE  WelcomeOnce'
<1> SUFFICES ASSUME NEW n \in DOMAIN chat', NEW i \in DOMAIN chat'[n], i > 1, chat'[n][i].welcome
             PROVE  chat'[n][i].late
  BY DEF WelcomeOnce
<1>1. n \in DOMAIN chat /\ chat'[n] = chat[n]
  OBVIOUS
<1> QED BY <1>1 DEF WelcomeOnce

LEMMA WelcomeSaved ==
  ASSUME IInv, Fresh, WelcomeOnce, NEW h \in Handlers, WelcomeSave(h) \/ MessageSave(h)
  PROVE  Fresh' /\ WelcomeOnce'
<1> DEFINE n == req[h].ticket
<1>1. Found(req[h], DOMAIN ticket, DOMAIN chat) /\ n \in DOMAIN chat
  BY DEF IInv, Asked, Found, WelcomeSave, MessageSave, At
<1>2. CASE WelcomeSave(h)
  <2> DEFINE m == [sender |-> req[h].found, welcome |-> TRUE, late |-> h \in overtaken]
  <2>1. Post(h, n, m) /\ req[h].step = "welcomeSave"
    BY <1>2 DEF WelcomeSave, At
  <2>2. m \in Message /\ (m.late \/ h \notin overtaken)
    <3>1. m \in Message
      BY <1>1, <2>1 DEF Found, Message, People
    <3>2. m.late <=> h \in overtaken
      OBVIOUS
    <3> QED BY <3>1, <3>2
  <2>3. m.late \/ chat[n] = <<>>
    BY <2>1, <2>2 DEF Fresh, Writing
  <2> HIDE DEF m
  <2> QED BY <1>1, <2>1, <2>2, <2>3, FreshPost, WelcomeStored
<1>3. CASE MessageSave(h)
  <2> DEFINE m == [sender |-> req[h].who, welcome |-> FALSE, late |-> FALSE]
  <2>1. Post(h, n, m) /\ req[h].step = "messageSave"
    BY <1>3 DEF MessageSave, At
  <2>2. m \in Message /\ ~m.welcome
    BY <1>1, <2>1 DEF Found, Message
  <2> HIDE DEF m
  <2> QED BY <1>1, <2>1, <2>2, FreshPost, WelcomeStored
<1> QED BY <1>2, <1>3

LEMMA WelcomeStep ==
  ASSUME IInv, Fresh, WelcomeOnce, [Next]_vars
  PROVE  Fresh' /\ WelcomeOnce'
<1>1. req \in [Handlers -> Frame]
  BY DEF IInv, Asked
<1>2. ASSUME NEW h \in Handlers, Request(h) PROVE Fresh' /\ WelcomeOnce'
  <2>1. chat' = chat /\ overtaken' = overtaken
    BY <1>2 DEF Request, Create, TakeFind, FinalizeFind, CheckStatus, SendMessage, supportVars
  <2>2. ~Writing(req'[h]) /\ \A g \in Handlers \ {h} : req'[g] = req[g]
    BY <1>1, <1>2 DEF Request, Create, TakeFind, FinalizeFind, CheckStatus, SendMessage, Ask, Writing
  <2>3. Fresh'
    BY <2>1, <2>2, FreshKept
  <2> QED BY <2>1, <2>3, WelcomesKept
<1>3. ASSUME NEW h \in Handlers, Fail(h) PROVE Fresh' /\ WelcomeOnce'
  <2>1. chat' = chat /\ overtaken' = overtaken \ {h}
    BY <1>3 DEF Fail, Leave
  <2>2. ~Writing(req'[h]) /\ \A g \in Handlers \ {h} : req'[g] = req[g]
    BY <1>1, <1>3 DEF Fail, Leave, Answer, Idle, Writing
  <2>3. Fresh'
    BY <2>1, <2>2, FreshKept
  <2> QED BY <2>1, <2>3, WelcomesKept
<1>4. ASSUME NEW h \in Handlers, CreateCommit(h) \/ TakeWrite(h) \/ FinalizeWrite(h)
      PROVE  Fresh' /\ WelcomeOnce'
  <2>1. /\ overtaken' = overtaken /\ \A n \in DOMAIN chat : chat'[n] = chat[n]
        /\ \A n \in DOMAIN chat' : (n \in DOMAIN chat /\ chat'[n] = chat[n]) \/ chat'[n] = <<>>
    <3>1. CASE TakeWrite(h) \/ FinalizeWrite(h)
      BY <3>1 DEF TakeWrite, FinalizeWrite, Plus
    <3>2. CASE CreateCommit(h)
      <4>1. req[h].ticket \notin DOMAIN chat
        BY <3>2 DEF CreateCommit, IInv, Tables, Fit
      <4> QED BY <3>2, <4>1 DEF CreateCommit, Plus
    <3> QED BY <1>4, <3>1, <3>2
  <2>2. ~Writing(req'[h]) /\ \A g \in Handlers \ {h} : req'[g] = req[g]
    BY <1>1, <1>4 DEF CreateCommit, TakeWrite, FinalizeWrite, Answer, Idle, Writing
  <2>3. Fresh'
    BY <2>1, <2>2, FreshKept
  <2> QED BY <2>1, <2>3, WelcomesKept
<1>5. ASSUME NEW h \in Handlers, CreateAssign(h) \/ WelcomeRead(h) \/ WelcomeSend(h)
      PROVE  Fresh' /\ WelcomeOnce'
  <2>1. chat' = chat /\ overtaken' = overtaken
    BY <1>5 DEF CreateAssign, WelcomeRead, WelcomeSend, supportVars
  <2>2. /\ \A g \in Handlers \ {h} : req'[g] = req[g]
        /\ Writing(req'[h]) => h \in overtaken' \/ chat'[req'[h].ticket] = <<>>
    <3>1. CASE CreateAssign(h)
      BY <1>1, <3>1 DEF CreateAssign, Then, Writing
    <3>2. CASE WelcomeRead(h)
      BY <1>1, <2>1, <3>2 DEF WelcomeRead, Then
    <3>3. CASE WelcomeSend(h)
      <4>1. Writing(req[h]) /\ req'[h].ticket = req[h].ticket
        BY <1>1, <3>3 DEF WelcomeSend, Then, At, Writing
      <4>2. \A g \in Handlers \ {h} : req'[g] = req[g]
        BY <1>1, <3>3 DEF WelcomeSend, Then
      <4> QED BY <2>1, <4>1, <4>2 DEF Fresh
    <3> QED BY <1>5, <3>1, <3>2, <3>3
  <2>3. Fresh'
    BY <2>1, <2>2, FreshKept
  <2> QED BY <2>1, <2>3, WelcomesKept
<1>6. CASE UNCHANGED <<supportVars, req>>
  BY <1>6 DEF supportVars, Fresh, WelcomeOnce, Writing
<1>7. CASE Restart
  <2>1. chat' = chat /\ \A g \in Handlers : ~Writing(req'[g])
    BY <1>7 DEF Restart, Idle, Writing
  <2> QED BY <2>1 DEF Fresh, WelcomeOnce, Writing
<1>8. ASSUME NEW a \in Assessors, DeleteAssessor(a) PROVE Fresh' /\ WelcomeOnce'
  <2>1. UNCHANGED <<chat, overtaken, req>>
    BY <1>8 DEF DeleteAssessor
  <2> QED BY <2>1 DEF Fresh, WelcomeOnce, Writing
<1>9. \/ \E h \in Handlers : Request(h) \/ Statement(h) \/ Fail(h)
      \/ UNCHANGED <<supportVars, req>> \/ Restart
      \/ \E a \in Assessors : DeleteAssessor(a)
  BY DEF Next, Tick, vars
<1> QED BY <1>2, <1>3, <1>4, <1>5, <1>6, <1>7, <1>8, <1>9, WelcomeSaved DEF Statement

\* A welcome that is not the first message of its chat was stored by a check
\* that had found the chat empty, and past which another message got in:
\* checks one after the other welcome once, for any numbers of both.
THEOREM WelcomesBounded == Spec => []WelcomeOnce
<1>1. Init => Fresh /\ WelcomeOnce
  BY DEF Init, Fresh, WelcomeOnce, Writing, Idle
<1>2. IInv /\ Fresh /\ WelcomeOnce /\ [Next]_vars => Fresh' /\ WelcomeOnce'
  BY WelcomeStep
<1> QED BY <1>1, <1>2, IInvHolds, PTL DEF Spec

=============================================================================
