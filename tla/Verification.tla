---------------------------- MODULE Verification -----------------------------
(***************************************************************************)
(* The verification of accounts as their owners may rely on it, without    *)
(* handlers, their order or what of them is lost: what KycProperties shows *)
(* identity verification implements.                                       *)
(*                                                                         *)
(* Whatever a verdict does to an account, it does in one step, to the      *)
(* account the session was made for and only while that is the session the *)
(* account has.  A block needs a fraud warning on that session and all the *)
(* attempts used; name and document come from approved sessions alone.     *)
(***************************************************************************)
EXTENDS Naturals

CONSTANTS Account, Session, Nobody, None, Outcome, Limit

VARIABLES
  status, active, session, attempts,  \* of each account
  name, document,                     \* the sessions these were copied from
  owner,                              \* whom each session was made for
  told                                \* what has been said of the sessions so far

account      == <<status, active, session, attempts, name, document>>
verification == <<account, owner, told>>

Begin ==
  /\ status = [a \in Account |-> "NOT_STARTED"]
  /\ active = [a \in Account |-> TRUE]
  /\ session = [a \in Account |-> None]
  /\ attempts = [a \in Account |-> 0]
  /\ name = [a \in Account |-> None]
  /\ document = [a \in Account |-> None]
  /\ owner = [k \in Session |-> Nobody]
  /\ told = {}

Approved(k)  == \E v \in told : v.session = k /\ v.outcome = "APPROVED"
Suspected(k) == \E v \in told : v.session = k /\ v.fraud

Make(a, k) ==
  /\ owner[k] = Nobody
  /\ owner' = [owner EXCEPT ![k] = a]
  /\ UNCHANGED <<account, told>>

Tell(k, outcome, fraud) ==
  /\ owner[k] # Nobody
  /\ told' = told \cup {[session |-> k, outcome |-> outcome, fraud |-> fraud]}
  /\ UNCHANGED <<account, owner>>

\* The account takes a session of its own that no account has.
Take(a, k) ==
  /\ owner[k] = a
  /\ \A b \in Account : session[b] # k
  /\ session' = [session EXCEPT ![a] = k]
  /\ status' = [status EXCEPT ![a] = "IN_PROGRESS"]
  /\ attempts' = [attempts EXCEPT ![a] = @ + 1]
  /\ UNCHANGED <<active, name, document, owner, told>>

Follow(a) ==
  /\ \E v \in told : v.session = session[a] /\ status' = [status EXCEPT ![a] = v.outcome]
  /\ UNCHANGED <<active, session, attempts, name, document, owner, told>>

Approve(a) ==
  /\ Approved(session[a])
  /\ status' = [status EXCEPT ![a] = "APPROVED"]
  /\ active' = [active EXCEPT ![a] = TRUE]
  /\ UNCHANGED <<session, attempts, name, document, owner, told>>

Decline(a) ==
  /\ Suspected(session[a])
  /\ status' = [status EXCEPT ![a] = "DECLINED"]
  /\ UNCHANGED <<active, session, attempts, name, document, owner, told>>

Block(a) ==
  /\ Suspected(session[a])
  /\ attempts[a] >= Limit
  /\ status' = [status EXCEPT ![a] = "DECLINED"]
  /\ active' = [active EXCEPT ![a] = FALSE]
  /\ UNCHANGED <<session, attempts, name, document, owner, told>>

CopyName(a) ==
  /\ Approved(session[a])
  /\ name' = [name EXCEPT ![a] = session[a]]
  /\ UNCHANGED <<status, active, session, attempts, document, owner, told>>

\* The document may follow when the account already has another session.
CopyDocument(a, k) ==
  /\ owner[k] = a /\ Approved(k)
  /\ document' = [document EXCEPT ![a] = k]
  /\ UNCHANGED <<status, active, session, attempts, name, owner, told>>

Reset(a) ==
  /\ status' = [status EXCEPT ![a] = "NOT_STARTED"]
  /\ active' = [active EXCEPT ![a] = TRUE]
  /\ session' = [session EXCEPT ![a] = None]
  /\ attempts' = [attempts EXCEPT ![a] = 0]
  /\ UNCHANGED <<name, document, owner, told>>

Switch(a, to) ==
  /\ active' = [active EXCEPT ![a] = to]
  /\ UNCHANGED <<status, session, attempts, name, document, owner, told>>

Remove(a) ==
  /\ active[a]
  /\ status' = [status EXCEPT ![a] = "NOT_STARTED"]
  /\ active' = [active EXCEPT ![a] = FALSE]
  /\ name' = [name EXCEPT ![a] = None]
  /\ document' = [document EXCEPT ![a] = None]
  /\ UNCHANGED <<session, attempts, owner, told>>

Advance ==
  \/ \E a \in Account : \/ Follow(a) \/ Approve(a) \/ Decline(a) \/ Block(a)
                        \/ CopyName(a) \/ Reset(a) \/ Remove(a)
                        \/ \E to \in BOOLEAN : Switch(a, to)
  \/ \E a \in Account, k \in Session : Make(a, k) \/ Take(a, k) \/ CopyDocument(a, k)
  \/ \E k \in Session, outcome \in Outcome, fraud \in BOOLEAN : Tell(k, outcome, fraud)

Verified == Begin /\ [][Advance]_verification
=============================================================================
