--------------------------------- MODULE Kyc ---------------------------------
(***************************************************************************)
(* kyc/kyc.service.ts: identity verification of clients at Didit, with the *)
(* administrator's and the user's own operations of user.service.ts on the *)
(* same columns.  Didit is external: it decides a session as often as it   *)
(* likes and delivers each webhook any number of times, late and in any    *)
(* order.  A handler is split at its awaits; every statement of a webhook  *)
(* finds its user again by the session.                                    *)
(***************************************************************************)
EXTENDS Naturals, FiniteSets

CONSTANTS
  Users,        \* clients
  Sessions,     \* Didit session ids (bounds their number)
  Slots,        \* handlers that may be in flight at once (bounds concurrency)
  Verdicts,     \* the session statuses Didit may report
  NoUser, NoSession,
  MaxAttempts,  \* MAX_KYC_ATTEMPTS, 3 in the code
  MaxHooks      \* bound: different webhooks Didit sends

DiditStatuses == {"Approved", "Declined", "Abandoned", "In Progress", "In Review",
                  "Not Started", "Kyc Expired"}

ASSUME KycAssumption ==
  /\ NoUser \notin Users /\ NoSession \notin Sessions
  /\ Verdicts \subseteq DiditStatuses
  /\ MaxAttempts \in Nat /\ MaxHooks \in Nat

VARIABLES
  kycStatus, kycAttempts, kycSessionId,  \* columns of User
  active, verified,
  name,      \* the session whose identity the account's name was copied from
  info,      \* likewise for the document number of its InformationUser row
  decided,   \* Didit: the status of each session, "" until it is created
  madeFor,   \* Didit: the user a session was created for
  hooks,     \* Didit: the webhooks sent so far
  req,       \* the handler frame in each slot
  removed,   \* history: users who deleted their account
  blocked    \* history: users a webhook deactivated and nobody reactivated

userVars  == <<kycStatus, kycAttempts, kycSessionId, active, verified, name, info>>
diditVars == <<decided, madeFor, hooks>>
vars == <<userVars, diditVars, req, removed, blocked>>

KycStatus == {"NOT_STARTED", "IN_PROGRESS", "IN_REVIEW", "APPROVED", "DECLINED",
              "ABANDONED"}

\* Mutation of mapDiditStatus: Didit's word is stored as it comes.
mapDiditStatusAsIs(status) == status

mapDiditStatus(status) ==
  CASE status = "Approved"    -> "APPROVED"
    [] status = "Declined"    -> "DECLINED"
    [] status = "Abandoned"   -> "ABANDONED"
    [] status = "In Review"   -> "IN_REVIEW"
    [] status = "Not Started" -> "NOT_STARTED"
    [] OTHER                  -> "IN_PROGRESS"

Ops == {"idle", "session.read", "session.post", "session.save", "hook.approve",
        "hook.count", "hook.ask", "hook.overrule", "hook.block", "hook.decline",
        "hook.sync", "hook.document", "hook.notify"}

Hook  == [session : Sessions, status : DiditStatuses, fraud : BOOLEAN]
Frame == [op : Ops, user : Users \cup {NoUser}, session : Sessions \cup {NoSession},
          final : KycStatus]
Idle  == [op |-> "idle", user |-> NoUser, session |-> NoSession, final |-> "NOT_STARTED"]

Start(s, frame) == req[s].op = "idle" /\ req' = [req EXCEPT ![s] = frame]
At(s, op)       == req[s].op = op
Go(s, op)       == req' = [req EXCEPT ![s].op = op]
Return(s)       == req' = [req EXCEPT ![s] = Idle]

\* Mutation of Holders: the session's user, whether or not it is still the user's session.
HoldersByOwner(k) == {u \in Users : madeFor[k] = u}

\* The rows that where: { kycSessionId: k } finds.
Holders(k) == {u \in Users : kycSessionId[u] = k}

Init ==
  /\ kycStatus = [u \in Users |-> "NOT_STARTED"]
  /\ kycAttempts = [u \in Users |-> 0]
  /\ kycSessionId = [u \in Users |-> NoSession]
  /\ active = [u \in Users |-> TRUE]
  /\ verified = [u \in Users |-> TRUE]
  /\ name = [u \in Users |-> NoSession]
  /\ info = [u \in Users |-> NoSession]
  /\ decided = [k \in Sessions |-> ""]
  /\ madeFor = [k \in Sessions |-> NoUser]
  /\ hooks = {}
  /\ req = [s \in Slots |-> Idle]
  /\ removed = {}
  /\ blocked = {}

-----------------------------------------------------------------------------
(* createDiditSession.                                                     *)

\* AuthGuard lets active users pass.
RequestSession(s, u) ==
  /\ active[u]
  /\ Start(s, [Idle EXCEPT !.op = "session.read", !.user = u])
  /\ UNCHANGED <<userVars, diditVars, removed, blocked>>

SessionRead(s) ==
  LET u == req[s].user IN
  /\ At(s, "session.read")
  /\ kycStatus[u] # "APPROVED"
  /\ ~(kycAttempts[u] >= MaxAttempts /\ ~active[u])
  /\ Go(s, "session.post")
  /\ UNCHANGED <<userVars, diditVars, removed, blocked>>

\* Didit creates the session; the database does not know of it yet.
SessionPost(s, k) ==
  /\ At(s, "session.post")
  /\ decided[k] = ""
  /\ decided' = [decided EXCEPT ![k] = "Not Started"]
  /\ madeFor' = [madeFor EXCEPT ![k] = req[s].user]
  /\ req' = [req EXCEPT ![s].op = "session.save", ![s].session = k]
  /\ UNCHANGED <<userVars, hooks, removed, blocked>>

\* Mutation of SessionSave: the status of the former session stays.
SessionSaveKeeps(s) ==
  LET u == req[s].user IN
  /\ At(s, "session.save")
  /\ kycSessionId' = [kycSessionId EXCEPT ![u] = req[s].session]
  /\ kycAttempts' = [kycAttempts EXCEPT ![u] = @ + 1]
  /\ Return(s)
  /\ UNCHANGED <<kycStatus, active, verified, name, info, diditVars, removed, blocked>>

\* The row is found by the user's id, whatever became of it meanwhile.
SessionSave(s) ==
  LET u == req[s].user IN
  /\ At(s, "session.save")
  /\ kycSessionId' = [kycSessionId EXCEPT ![u] = req[s].session]
  /\ kycStatus' = [kycStatus EXCEPT ![u] = "IN_PROGRESS"]
  /\ kycAttempts' = [kycAttempts EXCEPT ![u] = @ + 1]
  /\ Return(s)
  /\ UNCHANGED <<active, verified, name, info, diditVars, removed, blocked>>

-----------------------------------------------------------------------------
(* handleDiditWebhook, statement by statement.                             *)

HookReceive(s, h) ==
  LET status == mapDiditStatus(h.status)
      next   == CASE status = "APPROVED" -> "hook.approve"
                  [] status # "APPROVED" /\ h.fraud -> "hook.count"
                  [] OTHER -> "hook.notify"
  IN
  \E u \in Holders(h.session) :
    /\ Start(s, [Idle EXCEPT !.op = next, !.session = h.session, !.final = status])
    /\ kycStatus' = [kycStatus EXCEPT ![u] = status]
    /\ verified' = IF status = "APPROVED" THEN [verified EXCEPT ![u] = TRUE] ELSE verified
    /\ UNCHANGED <<kycAttempts, kycSessionId, active, name, info, diditVars, removed, blocked>>

\* The update both an approval and an overruled decline send.
Approve(k) ==
  \E u \in Holders(k) :
    /\ kycStatus' = [kycStatus EXCEPT ![u] = "APPROVED"]
    /\ verified' = [verified EXCEPT ![u] = TRUE]
    /\ active' = [active EXCEPT ![u] = TRUE]
    /\ blocked' = blocked \ {u}
    /\ UNCHANGED <<kycAttempts, kycSessionId, name, info>>

HookApprove(s) ==
  /\ At(s, "hook.approve")
  /\ Approve(req[s].session)
  /\ Go(s, "hook.sync")
  /\ UNCHANGED <<diditVars, removed>>

\* Mutation of HookCount: the last attempt is already one too many.
HookCountEarly(s) ==
  LET k == req[s].session IN
  /\ At(s, "hook.count")
  /\ Go(s, IF \E u \in Holders(k) : kycAttempts[u] + 1 >= MaxAttempts
           THEN "hook.ask" ELSE "hook.decline")
  /\ UNCHANGED <<userVars, diditVars, removed, blocked>>

\* With fraud warnings, the attempts decide; no row counts as no attempt.
HookCount(s) ==
  LET k == req[s].session IN
  /\ At(s, "hook.count")
  /\ Go(s, IF \E u \in Holders(k) : kycAttempts[u] >= MaxAttempts
           THEN "hook.ask" ELSE "hook.decline")
  /\ UNCHANGED <<userVars, diditVars, removed, blocked>>

\* verifySessionWithDidit: an error of the call counts as a decline.
HookAsk(s) ==
  /\ At(s, "hook.ask")
  /\ \/ mapDiditStatus(decided[req[s].session]) = "APPROVED" /\ Go(s, "hook.overrule")
     \/ Go(s, "hook.block")
  /\ UNCHANGED <<userVars, diditVars, removed, blocked>>

\* All three ways out of the fraud branch set finalStatus to DECLINED.
Conclude(s) == req' = [req EXCEPT ![s].op = "hook.notify", ![s].final = "DECLINED"]

HookOverrule(s) ==
  /\ At(s, "hook.overrule")
  /\ Approve(req[s].session)
  /\ Conclude(s)
  /\ UNCHANGED <<diditVars, removed>>

HookBlock(s) ==
  /\ At(s, "hook.block")
  /\ \E u \in Holders(req[s].session) :
       /\ kycStatus' = [kycStatus EXCEPT ![u] = "DECLINED"]
       /\ active' = [active EXCEPT ![u] = FALSE]
       /\ blocked' = blocked \cup {u}
  /\ Conclude(s)
  /\ UNCHANGED <<kycAttempts, kycSessionId, verified, name, info, diditVars, removed>>

\* Mutation of HookDecline: keeping the account active is written out.
HookDeclineReactivates(s) ==
  /\ At(s, "hook.decline")
  /\ \E u \in Holders(req[s].session) :
       /\ kycStatus' = [kycStatus EXCEPT ![u] = "DECLINED"]
       /\ active' = [active EXCEPT ![u] = TRUE]
  /\ Conclude(s)
  /\ UNCHANGED <<kycAttempts, kycSessionId, verified, name, info, diditVars,
                 removed, blocked>>

HookDecline(s) ==
  /\ At(s, "hook.decline")
  /\ \E u \in Holders(req[s].session) :
       kycStatus' = [kycStatus EXCEPT ![u] = "DECLINED"]
  /\ Conclude(s)
  /\ UNCHANGED <<kycAttempts, kycSessionId, active, verified, name, info, diditVars,
                 removed, blocked>>

\* Mutation of HookSync: the name goes to the user the session was made for.
HookSyncByOwner(s) ==
  LET k == req[s].session
      u == madeFor[k]
  IN
  /\ At(s, "hook.sync")
  /\ u \in Users
  /\ name' \in {name, [name EXCEPT ![u] = k]}
  /\ req' = [req EXCEPT ![s].op = "hook.document", ![s].user = u]
  /\ UNCHANGED <<kycStatus, kycAttempts, kycSessionId, active, verified, info, diditVars,
                 removed, blocked>>

\* syncUserDataFromKyc: the name, unless it is invalid or the same, is written to
\* the session's user; without a user the rest is skipped.
HookSync(s) ==
  LET k == req[s].session IN
  /\ At(s, "hook.sync")
  /\ IF Holders(k) = {}
     THEN Go(s, "hook.notify") /\ UNCHANGED name
     ELSE \E u \in Holders(k) :
            /\ name' \in {name, [name EXCEPT ![u] = k]}
            /\ req' = [req EXCEPT ![s].op = "hook.document", ![s].user = u]
  /\ UNCHANGED <<kycStatus, kycAttempts, kycSessionId, active, verified, info, diditVars,
                 removed, blocked>>

\* Mutation of HookDocument: the session is read again from the user's row.
HookDocumentRereads(s) ==
  /\ At(s, "hook.document")
  /\ info' \in {info} \cup (IF req[s].user \in removed THEN {}
                            ELSE {[info EXCEPT ![req[s].user] = kycSessionId[req[s].user]]})
  /\ Go(s, "hook.notify")
  /\ UNCHANGED <<kycStatus, kycAttempts, kycSessionId, active, verified, name, diditVars,
                 removed, blocked>>

\* The document goes to the information row of the user read above, if it has one.
HookDocument(s) ==
  /\ At(s, "hook.document")
  /\ info' \in {info} \cup (IF req[s].user \in removed THEN {}
                            ELSE {[info EXCEPT ![req[s].user] = req[s].session]})
  /\ Go(s, "hook.notify")
  /\ UNCHANGED <<kycStatus, kycAttempts, kycSessionId, active, verified, name, diditVars,
                 removed, blocked>>

\* The user of the session is told req[s].final.
HookNotify(s) ==
  /\ At(s, "hook.notify")
  /\ Return(s)
  /\ UNCHANGED <<userVars, diditVars, removed, blocked>>

\* A check or a statement fails, or the process dies: a webhook was answered
\* before it is handled, so nobody tries again.
HandlerError(s) ==
  /\ req[s].op # "idle"
  /\ Return(s)
  /\ UNCHANGED <<userVars, diditVars, removed, blocked>>

-----------------------------------------------------------------------------
(* Other operations on the same columns.                                   *)

resetKycForUser(u) ==
  /\ kycStatus' = [kycStatus EXCEPT ![u] = "NOT_STARTED"]
  /\ kycAttempts' = [kycAttempts EXCEPT ![u] = 0]
  /\ kycSessionId' = [kycSessionId EXCEPT ![u] = NoSession]
  /\ active' = [active EXCEPT ![u] = TRUE]
  /\ verified' = [verified EXCEPT ![u] = FALSE]
  /\ blocked' = blocked \ {u}
  /\ UNCHANGED <<name, info, diditVars, req, removed>>

setActive(u, to) ==
  /\ active' = [active EXCEPT ![u] = to]
  /\ blocked' = blocked \ {u}
  /\ UNCHANGED <<kycStatus, kycAttempts, kycSessionId, verified, name, info, diditVars,
                 req, removed>>

\* The session, the attempts and verified stay on the row.
confirmDeleteAccount(u) ==
  /\ active[u]
  /\ active' = [active EXCEPT ![u] = FALSE]
  /\ kycStatus' = [kycStatus EXCEPT ![u] = "NOT_STARTED"]
  /\ name' = [name EXCEPT ![u] = NoSession]
  /\ info' = [info EXCEPT ![u] = NoSession]
  /\ removed' = removed \cup {u}
  /\ UNCHANGED <<kycAttempts, kycSessionId, verified, diditVars, req, blocked>>

\* Didit decides a session, or an operator changes its decision, and a webhook
\* tells of it.
DiditDecides(k, status, fraud) ==
  /\ decided[k] # ""
  /\ Cardinality(hooks) < MaxHooks
  /\ decided' = [decided EXCEPT ![k] = status]
  /\ hooks' = hooks \cup {[session |-> k, status |-> status, fraud |-> fraud]}
  /\ UNCHANGED <<userVars, madeFor, req, removed, blocked>>

-----------------------------------------------------------------------------
Handle(s) ==
  \/ SessionRead(s) \/ SessionSave(s)
  \/ \E k \in Sessions : SessionPost(s, k)
  \/ HookApprove(s) \/ HookCount(s) \/ HookAsk(s) \/ HookOverrule(s) \/ HookBlock(s)
  \/ HookDecline(s) \/ HookSync(s) \/ HookDocument(s) \/ HookNotify(s) \/ HandlerError(s)

Arrive(s) ==
  \/ \E u \in Users : RequestSession(s, u)
  \/ \E h \in hooks : HookReceive(s, h)

Administer(u) == resetKycForUser(u) \/ \E to \in BOOLEAN : setActive(u, to)

Next ==
  \/ \E s \in Slots : Arrive(s) \/ Handle(s)
  \/ \E u \in Users : Administer(u) \/ confirmDeleteAccount(u)
  \/ \E k \in Sessions, status \in Verdicts, fraud \in BOOLEAN : DiditDecides(k, status, fraud)

Spec == Init /\ [][Next]_vars
=============================================================================
