------------------------------ MODULE Presence ------------------------------
(***************************************************************************)
(* Who is online: the sockets of chat.gateway.ts and the flag they write   *)
(* through user.service.ts.  handleConnection and handleDisconnect are     *)
(* asynchronous: a socket may close while its connection is still being    *)
(* written, and the two writes land in either order.  Accounts may be      *)
(* deleted meanwhile; a token outlives its account.                        *)
(***************************************************************************)
EXTENDS Naturals

CONSTANTS
    Assessors,   \* the users whose presence matters: findBestAssessor asks for it
    Sockets,     \* connections ever made; one is used once
    MaxRestarts  \* bound: restarts of the process

ASSUME RestartsAssumption == MaxRestarts \in Nat

VARIABLES
    accounts,  \* users who have a row
    online,    \* users whose row says online and AVAILABLE
    user,      \* whose socket it is
    open,      \* sockets whose transport is open
    coming,    \* sockets whose handleConnection has the write of the row to come
    going,     \* sockets whose handleDisconnect has the write of the row to come
    restarts,  \* restarts so far
    used,      \* sockets that were made
    crossed,   \* ghost: users whose flag was raised for a socket already closed,
               \* or left by a closing write, or a clearing, that failed
    dropped    \* ghost: sockets whose user was marked offline by another one,
               \* or by a closing write that failed

presenceVars == <<accounts, online, user, open, coming, going, restarts, used, crossed, dropped>>

PresenceInit ==
    /\ accounts = Assessors
    /\ online = {}
    /\ user \in [Sockets -> Assessors]
    /\ open = {} /\ coming = {} /\ going = {} /\ used = {}
    /\ restarts = 0
    /\ crossed = {} /\ dropped = {}

SocketsOf(a) == {x \in open : user[x] = a}

-----------------------------------------------------------------------------
\* A token was verified; the row is written after more awaits.
Connect(x) ==
    /\ x \notin used
    /\ used' = used \cup {x}
    /\ open' = open \cup {x}
    /\ coming' = coming \cup {x}
    /\ UNCHANGED <<accounts, online, user, going, restarts, crossed, dropped>>

\* handleConnection goes on although the socket may have closed meanwhile.
isOnlineUser(x) ==
    /\ x \in coming /\ user[x] \in accounts
    /\ coming' = coming \ {x}
    /\ online' = online \cup {user[x]}
    /\ crossed' = IF x \in open \cup going THEN crossed \ {user[x]} ELSE crossed \cup {user[x]}
    /\ dropped' = dropped \ SocketsOf(user[x])
    /\ UNCHANGED <<accounts, user, open, going, restarts, used>>

\* The write fails, or there is no row: the socket is closed from here.
ConnectFail(x) ==
    /\ x \in coming
    /\ coming' = coming \ {x}
    /\ open' = open \ {x}
    /\ going' = IF x \in open THEN going \cup {x} ELSE going
    /\ UNCHANGED <<accounts, online, user, restarts, used, crossed, dropped>>

Disconnect(x) ==
    /\ x \in open
    /\ open' = open \ {x}
    /\ going' = going \cup {x}
    /\ UNCHANGED <<accounts, online, user, coming, restarts, used, crossed, dropped>>

\* Every socket that closes marks its user offline, whatever others are open.
isOffOnlineUser(x) ==
    /\ x \in going /\ user[x] \in accounts
    /\ going' = going \ {x}
    /\ online' = online \ {user[x]}
    /\ crossed' = crossed \ {user[x]}
    /\ dropped' = dropped \cup SocketsOf(user[x])
    /\ UNCHANGED <<accounts, user, open, coming, restarts, used>>

\* The database fails, or the token of an unknown socket has expired.
DisconnectFail(x) ==
    /\ x \in going
    /\ going' = going \ {x}
    /\ crossed' = IF user[x] \in online THEN crossed \cup {user[x]} ELSE crossed
    /\ UNCHANGED <<accounts, online, user, open, coming, restarts, used, dropped>>

\* Mutant: nobody is marked offline when the process starts.
PresenceRestartAsLeft ==
    /\ restarts < MaxRestarts
    /\ restarts' = restarts + 1
    /\ open' = {} /\ coming' = {} /\ going' = {}
    /\ crossed' = {} /\ dropped' = {}
    /\ UNCHANGED <<accounts, online, user, used>>

\* Sockets and handlers are gone.  onModuleInit marks everybody offline; when
\* that fails it is logged, and the process starts with the marks as they were.
PresenceRestart ==
    /\ restarts < MaxRestarts
    /\ restarts' = restarts + 1
    /\ online' \in {{}, online}
    /\ open' = {} /\ coming' = {} /\ going' = {}
    /\ crossed' = online' /\ dropped' = {}
    /\ UNCHANGED <<accounts, user, used>>

\* The row goes, with its flag; sockets and tokens stay.
PresenceDelete(a) ==
    /\ a \in accounts
    /\ accounts' = accounts \ {a}
    /\ online' = online \ {a}
    /\ crossed' = crossed \ {a}
    /\ UNCHANGED <<user, open, coming, going, restarts, used, dropped>>

PresenceNext ==
    \E x \in Sockets :
       \/ Connect(x) \/ isOnlineUser(x) \/ ConnectFail(x)
       \/ Disconnect(x) \/ isOffOnlineUser(x) \/ DisconnectFail(x)

=============================================================================
