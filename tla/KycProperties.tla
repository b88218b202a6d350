---------------------------- MODULE KycProperties ----------------------------
(***************************************************************************)
(* What identity verification must keep true while webhooks are late,      *)
(* repeated and out of order, sessions are replaced and administrators     *)
(* intervene.                                                              *)
(***************************************************************************)
EXTENDS Kyc

\* Every column, Didit record and frame has the type its code gives it.
KycTypeOK ==
  /\ kycStatus \in [Users -> KycStatus]
  /\ kycAttempts \in [Users -> Nat]
  /\ kycSessionId \in [Users -> Sessions \cup {NoSession}]
  /\ active \in [Users -> BOOLEAN] /\ verified \in [Users -> BOOLEAN]
  /\ name \in [Users -> Sessions \cup {NoSession}]
  /\ info \in [Users -> Sessions \cup {NoSession}]
  /\ decided \in [Sessions -> DiditStatuses \cup {""}]
  /\ madeFor \in [Sessions -> Users \cup {NoUser}]
  /\ hooks \subseteq Hook
  /\ req \in [Slots -> Frame]
  /\ removed \subseteq Users /\ blocked \subseteq Users

\* Didit has said at some time that session k is approved.
SaidApproved(k) == \E h \in hooks : h.session = k /\ mapDiditStatus(h.status) = "APPROVED"

\* An account is APPROVED, which is what KycGuard lets through, only by a decision
\* on the session it has now and that was made for it: an approval of a session
\* it has replaced, or of before a reset, never counts, however late it arrives.
CurrentApproval ==
  \A u \in Users : kycStatus[u] = "APPROVED" =>
    /\ kycSessionId[u] \in Sessions
    /\ madeFor[kycSessionId[u]] = u
    /\ SaidApproved(kycSessionId[u])
    /\ verified[u]

\* A reset is final: until the user has stored a new session, no webhook still
\* under way changes the status or the attempts of the account.
ResetIsFinal ==
  \A u \in Users : kycSessionId[u] = NoSession =>
    kycStatus[u] = "NOT_STARTED" /\ kycAttempts[u] = 0

\* A webhook deactivates an account only after all its attempts, and only over a
\* fraud warning on a session made for that user.
BlockedExhausted ==
  \A u \in blocked :
    /\ ~active[u]
    /\ kycAttempts[u] >= MaxAttempts
    /\ \E h \in hooks : h.fraud /\ madeFor[h.session] = u

\* An inactive account becomes active again only by an administrator or as its
\* current session is approved; a webhook that was told to block it cannot.
Reactivation ==
  [][\A u \in Users : ~active[u] /\ active'[u] =>
       \/ kycStatus'[u] = "APPROVED" /\ SaidApproved(kycSessionId[u])
       \/ Administer(u)]_vars

\* The name and the document an account was given by a verification are those of
\* a session that was made for it and approved, even when the session has been
\* replaced between the two statements that copy them.
IdentityVouched ==
  \A u \in Users : \A k \in {name[u], info[u]} \ {NoSession} :
    madeFor[k] = u /\ SaidApproved(k)

\* What a webhook tells of its session, and what has been told so far.
Tale(h) == [session |-> h.session, outcome |-> mapDiditStatus(h.status), fraud |-> h.fraud]
Told    == {Tale(h) : h \in hooks}

Contract == INSTANCE Verification WITH
  Account <- Users, Session <- Sessions, Nobody <- NoUser, None <- NoSession,
  Outcome <- KycStatus, Limit <- MaxAttempts,
  status <- kycStatus, active <- active, session <- kycSessionId,
  attempts <- kycAttempts, name <- name, document <- info, owner <- madeFor, told <- Told

\* Statement by statement, with what they read between statements stale, webhooks
\* and requests do no more than the atomic verification of accounts: a statement
\* that cannot be explained by what was told of the present session never runs.
ImplementsVerification == Contract!Verified

-----------------------------------------------------------------------------
(* What texts of the repository say and the code does not do.              *)

\* handleDiditWebhook: "Didit ya aprobó -> no bloquear, aprobar"
\* (kyc.service.ts:189): the user of an account approved so is told APPROVED.
OverruledIsTold ==
  [][\A s \in Slots : (req[s].op = "hook.overrule" /\ req'[s].op = "hook.notify")
        => req'[s].final = "APPROVED"]_vars
=============================================================================
