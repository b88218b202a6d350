------------------------------- MODULE Support -------------------------------
(***************************************************************************)
(* The support desk: requests for help (SupportTicket), their assignment   *)
(* to the assessors who are online, and their chats, with the branches of  *)
(* chat.service.ts that serve numbers beginning with SUP-.  A handler is a *)
(* chain of awaited statements; between two of them the others run.        *)
(***************************************************************************)
EXTENDS Presence, Integers, Sequences

CONSTANTS
    Clients,      \* users who ask for help
    Staff,        \* administrators and managers
    Handlers,     \* requests and events that may be handled at once
    Nobody,       \* no assessor
    MaxTicks,     \* bound: the time, in the units the support number keeps
    MaxMessages,  \* bound: messages of a chat
    MaxRequests   \* bound: requests and events ever handled

ASSUME SupportAssumption ==
    /\ Assessors \cap (Clients \cup Staff) = {} /\ Nobody \notin Assessors \cup Clients \cup Staff
    /\ MaxTicks \in Nat /\ MaxMessages \in Nat /\ MaxRequests \in Nat

VARIABLES
    now,          \* Date.now() without its last digit
    ticket,       \* SupportTicket: number -> row
    chat,         \* messages of each chat, in order
    lastAssigned, \* User.lastAssignedAt: when each assessor was last given a ticket
    req,          \* what each handler is doing
    asked,        \* requests and events so far
    orphans,      \* ghost: tickets whose assessor was deleted since
    overtaken     \* ghost: handlers that found a chat empty which is not any more

supportVars == <<ticket, chat, lastAssigned, orphans, overtaken>>
vars == <<presenceVars, now, supportVars, req, asked>>

\* The number is the time cut to 16 characters, the random part cut off.
supportNumber == now
Times == 0..MaxTicks
Never == -1

Row == [status : {"PENDING", "PROCESSING", "SUCCESS"}, client : Clients,
        assigned : Assessors \cup {Nobody}]

People == Assessors \cup Clients \cup Staff

\* late (ghost): a message was stored after its handler found the chat empty.
Message == [sender : People, welcome : BOOLEAN, late : BOOLEAN]

Steps == {"idle", "createAssign", "createCommit", "takeWrite", "finalizeWrite",
          "welcomeRead", "welcomeSend", "welcomeSave", "messageSave"}

\* who asked, and the assessor a statement found.
Idle == [step |-> "idle", ticket |-> 0, who |-> Nobody, found |-> Nobody]
Frame == [step : Steps, ticket : Times, who : People \cup {Nobody},
          found : Assessors \cup {Nobody}]

Init ==
    /\ PresenceInit
    /\ now = 0
    /\ ticket = [n \in {} |-> Idle]
    /\ chat = [n \in {} |-> <<>>]
    /\ lastAssigned = [a \in Assessors |-> Never]
    /\ req = [h \in Handlers |-> Idle]
    /\ asked = 0
    /\ orphans = {} /\ overtaken = {}

-----------------------------------------------------------------------------
At(h, s) == req[h].step = s
Ask(h, s, n, u) ==
    /\ At(h, "idle") /\ asked < MaxRequests
    /\ asked' = asked + 1
    /\ req' = [req EXCEPT ![h] = [step |-> s, ticket |-> n, who |-> u, found |-> Nobody]]
Then(h, s, a) ==
    /\ req' = [req EXCEPT ![h] = [step |-> s, ticket |-> req[h].ticket,
                                  who |-> req[h].who, found |-> a]]
    /\ UNCHANGED asked
Answer(h) ==
    /\ req' = [req EXCEPT ![h] = Idle]
    /\ UNCHANGED asked
Leave(h) == Answer(h) /\ overtaken' = overtaken \ {h}

Fail(h) ==
    /\ ~At(h, "idle")
    /\ Leave(h)
    /\ UNCHANGED <<presenceVars, now, ticket, chat, lastAssigned, orphans>>

Tick ==
    /\ now < MaxTicks
    /\ now' = now + 1
    /\ UNCHANGED <<presenceVars, supportVars, req, asked>>

Plus(f, i, r) == [j \in DOMAIN f \cup {i} |-> IF j = i THEN r ELSE f[j]]

-----------------------------------------------------------------------------
(* Support tickets (support-ticket.service.ts). *)

\* The database's order puts those never assigned, whose time is NULL, last.
Best ==
    LET served == {a \in online : lastAssigned[a] # Never}
    IN  IF online = {} THEN {Nobody}
        ELSE IF served = {} THEN online
        ELSE {a \in served : \A b \in served : lastAssigned[a] <= lastAssigned[b]}

\* The number is made before the transaction that looks for an assessor.
Create(h, c) ==
    /\ Ask(h, "createAssign", supportNumber, c)
    /\ UNCHANGED <<presenceVars, now, supportVars>>

CreateAssign(h) ==
    /\ At(h, "createAssign")
    /\ \E a \in Best : Then(h, "createCommit", a)
    /\ UNCHANGED <<presenceVars, now, supportVars>>

\* The unique number refuses the second request of the same time, the foreign
\* key an assessor deleted meanwhile.
CreateCommit(h) ==
    /\ At(h, "createCommit")
    /\ LET n == req[h].ticket  a == req[h].found IN
       /\ n \notin DOMAIN ticket
       /\ a = Nobody \/ a \in accounts
       /\ ticket' = Plus(ticket, n, [status |-> IF a = Nobody THEN "PENDING" ELSE "PROCESSING",
                                     client |-> req[h].who, assigned |-> a])
       /\ chat' = IF a = Nobody THEN chat ELSE Plus(chat, n, <<>>)
       /\ lastAssigned' = IF a = Nobody THEN lastAssigned
                                        ELSE [lastAssigned EXCEPT ![a] = now]
    /\ Answer(h)
    /\ UNCHANGED <<presenceVars, now, orphans, overtaken>>

TakeFind(h, n, a) ==
    /\ n \in DOMAIN ticket
    /\ Ask(h, "takeWrite", n, a)
    /\ UNCHANGED <<presenceVars, now, supportVars>>

\* Mutant: the chat is not connected or created.
TakeWriteOnly(h) ==
    /\ At(h, "takeWrite") /\ req[h].who \in accounts
    /\ ticket' = [ticket EXCEPT ![req[h].ticket] =
                     [status |-> "PROCESSING", client |-> @.client, assigned |-> req[h].who]]
    /\ orphans' = orphans \ {req[h].ticket}
    /\ Answer(h)
    /\ UNCHANGED <<presenceVars, now, chat, lastAssigned, overtaken>>

\* Whoever has it and whatever its status: a closed ticket is open again.
TakeWrite(h) ==
    /\ At(h, "takeWrite") /\ req[h].who \in accounts
    /\ LET n == req[h].ticket IN
       /\ ticket' = [ticket EXCEPT ![n] =
                        [status |-> "PROCESSING", client |-> @.client, assigned |-> req[h].who]]
       /\ chat' = IF n \in DOMAIN chat THEN chat ELSE Plus(chat, n, <<>>)
       /\ orphans' = orphans \ {n}
    /\ Answer(h)
    /\ UNCHANGED <<presenceVars, now, lastAssigned, overtaken>>

FinalizeFind(h, n) ==
    /\ n \in DOMAIN ticket
    /\ Ask(h, "finalizeWrite", n, Nobody)
    /\ UNCHANGED <<presenceVars, now, supportVars>>

FinalizeWrite(h) ==
    /\ At(h, "finalizeWrite")
    /\ ticket' = [ticket EXCEPT ![req[h].ticket] =
                     [status |-> "SUCCESS", client |-> @.client, assigned |-> @.assigned]]
    /\ Answer(h)
    /\ UNCHANGED <<presenceVars, now, chat, lastAssigned, orphans, overtaken>>

-----------------------------------------------------------------------------
(* Its chat (chat.service.ts, chat.gateway.ts). *)

\* The assessor the ticket has now, its client, and administrators and managers.
MayWrite(n, u) == u \in Staff \cup {ticket[n].client, ticket[n].assigned}

HasAccount(u) == u \in Assessors => u \in accounts

canOpenChat(n) == ticket[n].status = "PROCESSING" /\ ticket[n].assigned # Nobody

\* check-ticket-status: the status is told, and the welcome looked for.  Nothing
\* is asked of one whose account is gone.
CheckStatus(h, n, u) ==
    /\ n \in DOMAIN ticket
    /\ HasAccount(u) => MayWrite(n, u)
    /\ canOpenChat(n)
    /\ Ask(h, "welcomeRead", n, u)
    /\ UNCHANGED <<presenceVars, now, supportVars>>

\* Mutant: a chat with one message gets a welcome too.
WelcomeReadLate(h) ==
    /\ At(h, "welcomeRead")
    /\ LET n == req[h].ticket IN
       /\ n \in DOMAIN chat /\ Len(chat[n]) <= 1 /\ ticket[n].assigned # Nobody
       /\ Then(h, "welcomeSend", ticket[n].assigned)
    /\ UNCHANGED <<presenceVars, now, supportVars>>

\* The welcome is sent to an empty chat.
WelcomeRead(h) ==
    /\ At(h, "welcomeRead")
    /\ LET n == req[h].ticket IN
       /\ n \in DOMAIN chat /\ chat[n] = <<>> /\ ticket[n].assigned # Nobody
       /\ Then(h, "welcomeSend", ticket[n].assigned)
    /\ UNCHANGED <<presenceVars, now, supportVars>>

\* saveMessage reads the ticket again: it refuses one who lost it meanwhile.
WelcomeSend(h) ==
    /\ At(h, "welcomeSend")
    /\ MayWrite(req[h].ticket, req[h].found) /\ HasAccount(req[h].found)
    /\ Then(h, "welcomeSave", req[h].found)
    /\ UNCHANGED <<presenceVars, now, supportVars>>

\* The sender is a foreign key.
Post(h, n, m) ==
    /\ HasAccount(m.sender) /\ Len(chat[n]) < MaxMessages
    /\ chat' = [chat EXCEPT ![n] = Append(@, m)]
    /\ overtaken' = (overtaken \cup {g \in Handlers : /\ req[g].ticket = n
                                                   /\ req[g].step \in {"welcomeSend", "welcomeSave"}})
                    \ {h}
    /\ Answer(h)
    /\ UNCHANGED <<presenceVars, now, ticket, lastAssigned, orphans>>

WelcomeSave(h) ==
    /\ At(h, "welcomeSave")
    /\ Post(h, req[h].ticket, [sender |-> req[h].found, welcome |-> TRUE, late |-> h \in overtaken])

SendMessage(h, n, u) ==
    /\ n \in DOMAIN chat
    /\ MayWrite(n, u) /\ HasAccount(u)
    /\ Ask(h, "messageSave", n, u)
    /\ UNCHANGED <<presenceVars, now, supportVars>>

MessageSave(h) ==
    /\ At(h, "messageSave")
    /\ Post(h, req[h].ticket, [sender |-> req[h].who, welcome |-> FALSE, late |-> FALSE])

-----------------------------------------------------------------------------
Request(h) ==
    \/ \E c \in Clients : Create(h, c)
    \/ \E n \in DOMAIN ticket :
          \/ \E a \in Assessors : TakeFind(h, n, a)
          \/ FinalizeFind(h, n)
          \/ \E u \in People : CheckStatus(h, n, u) \/ SendMessage(h, n, u)

Statement(h) ==
    \/ CreateAssign(h) \/ CreateCommit(h) \/ TakeWrite(h) \/ FinalizeWrite(h)
    \/ WelcomeRead(h) \/ WelcomeSend(h) \/ WelcomeSave(h) \/ MessageSave(h)

\* Messages restrict the deletion of their sender (user.service.ts); a ticket
\* of a deleted assessor has its assignedToId set to NULL.
DeleteAssessor(a) ==
    /\ \A n \in DOMAIN chat : \A i \in DOMAIN chat[n] : chat[n][i].sender # a
    /\ PresenceDelete(a)
    /\ ticket' = [n \in DOMAIN ticket |->
                    [ticket[n] EXCEPT !.assigned = IF @ = a THEN Nobody ELSE @]]
    /\ orphans' = orphans \cup {n \in DOMAIN ticket : ticket[n].assigned = a}
    /\ UNCHANGED <<now, chat, lastAssigned, overtaken, req, asked>>

\* Requests in flight die with the process; rows stay.
Restart ==
    /\ PresenceRestart
    /\ req' = [h \in Handlers |-> Idle]
    /\ overtaken' = {}
    /\ UNCHANGED <<now, ticket, chat, lastAssigned, orphans, asked>>

Next ==
    \/ \E h \in Handlers : Request(h) \/ Statement(h) \/ Fail(h)
    \/ PresenceNext /\ UNCHANGED <<now, supportVars, req, asked>>
    \/ \E a \in Assessors : DeleteAssessor(a)
    \/ Tick
    \/ Restart

Spec == Init /\ [][Next]_vars

=============================================================================
