------------------------------ MODULE KycProofs ------------------------------
(***************************************************************************)
(* Proofs about identity verification, for any number of users, sessions   *)
(* and handlers and any value of the bounds.  What a webhook handler does  *)
(* at its last statement rests on what was true at its first: the          *)
(* invariant says what each frame still knows by then.                     *)
(***************************************************************************)
EXTENDS KycProperties, TLAPS

USE DEF userVars, diditVars

-----------------------------------------------------------------------------
(* The inductive invariant.                                                *)

FraudOps == {"hook.count", "hook.ask", "hook.overrule", "hook.block", "hook.decline"}

\* The frames the handlers build.
SoundFrame == {f \in Frame :
  /\ f.op \in {"session.read", "session.post", "session.save", "hook.document"}
       => f.user \in Users
  /\ f.op \notin {"idle", "session.read", "session.post"} => f.session \in Sessions}

TypeInv == KycTypeOK /\ req \in [Slots -> SoundFrame]

\* Didit has sent a fraud warning on session k.
SaidFraud(k) == \E h \in hooks : h.session = k /\ h.fraud

\* A stored session was created for the account that stores it, a webhook tells
\* of a session that exists, and Didit approves none without saying so.
Records ==
  /\ \A u \in Users : kycSessionId[u] # NoSession =>
       decided[kycSessionId[u]] # "" /\ madeFor[kycSessionId[u]] = u
  /\ \A h \in hooks : decided[h.session] # ""
  /\ \A k \in Sessions : mapDiditStatus(decided[k]) = "APPROVED" => SaidApproved(k)

\* What a frame still knows when it is resumed.
Sound(f) ==
  /\ f.session # NoSession => decided[f.session] # ""
  /\ f.op = "session.save" => madeFor[f.session] = f.user /\ Holders(f.session) = {}
  /\ f.op \in {"hook.approve", "hook.overrule"} => SaidApproved(f.session)
  /\ f.op \in FraudOps => SaidFraud(f.session)
  /\ f.op \in {"hook.ask", "hook.block"} =>
       \A u \in Holders(f.session) : kycAttempts[u] >= MaxAttempts

Frames == \A s \in Slots : Sound(req[s])

\* While a session is still to be stored, no other handler works on it.
Pending == \A s, r \in Slots :
  req[s].op = "session.save" /\ r # s => req[r].session # req[s].session

Kept   == Records /\ Frames /\ Pending
Goals  == CurrentApproval /\ ResetIsFinal /\ BlockedExhausted
KycInv == TypeInv /\ Kept /\ Goals

-----------------------------------------------------------------------------
(* Lemmas on frames and records.                                           *)

LEMMA IdleSound == Idle \in SoundFrame /\ Idle.op = "idle" /\ Idle.session = NoSession
  BY DEF Idle, SoundFrame, Frame, Ops, KycStatus

LEMMA InitKept == Init => KycInv
<1> SUFFICES ASSUME Init PROVE KycInv
  OBVIOUS
<1>1. TypeInv
  BY IdleSound DEF Init, TypeInv, KycTypeOK, KycStatus, SoundFrame
<1>2. Records
  BY DEF Init, Records, mapDiditStatus
<1>3. Frames /\ Pending
  BY DEF Init, Frames, Pending, Sound, Idle, FraudOps
<1>4. Goals
  BY DEF Init, Goals, CurrentApproval, ResetIsFinal, BlockedExhausted
<1> QED BY <1>1, <1>2, <1>3, <1>4 DEF KycInv, Kept

\* mapDiditStatus yields a status of the account.
LEMMA StatusType == \A d : mapDiditStatus(d) \in KycStatus
  BY DEF mapDiditStatus, KycStatus

\* Nobody holds the session NoSession.
LEMMA HoldersType ==
  ASSUME TypeInv, NEW k \in Sessions, NEW u \in Holders(k)
  PROVE  u \in Users /\ kycSessionId[u] = k /\ k # NoSession
  BY KycAssumption DEF Holders

\* A session has one holder, the account it was created for.
LEMMA HolderUnique ==
  ASSUME KycInv, NEW k \in Sessions, NEW u \in Holders(k)
  PROVE  u = madeFor[k]
<1>1. u \in Users /\ kycSessionId[u] = k /\ k # NoSession
  BY HoldersType DEF KycInv
<1> QED BY <1>1 DEF KycInv, Kept, Records

\* A slot may take any sound frame that is not about to store a session and that
\* stays with its session or takes one that is stored: the records, and what the
\* frames know, are kept as long as the steps leave them alone.
LEMMA FrameKept ==
  ASSUME KycInv, NEW s \in Slots, NEW f \in SoundFrame,
         Sound(f), f.op # "session.save",
         f.session \in {NoSession, req[s].session} \/ Holders(f.session) # {},
         req' = [req EXCEPT ![s] = f],
         UNCHANGED <<kycAttempts, kycSessionId, diditVars>>
  PROVE  req' \in [Slots -> SoundFrame] /\ Kept'
<1>1. req' \in [Slots -> SoundFrame]
  BY DEF KycInv, TypeInv
<1>2. Records'
  BY DEF KycInv, Kept, Records, SaidApproved
<1>3. \A r \in Slots : req'[r] = IF r = s THEN f ELSE req[r]
  BY DEF KycInv, TypeInv
<1>4. Frames'
  <2> SUFFICES ASSUME NEW r \in Slots PROVE Sound(req[r])'
    BY DEF Frames
  <2>1. Sound(req'[r])
    BY <1>3 DEF KycInv, Kept, Frames
  <2> QED BY <2>1 DEF Sound, Holders, SaidApproved, SaidFraud
<1>5. Pending'
  <2> SUFFICES ASSUME NEW p \in Slots, NEW r \in Slots, r # p,
                      req'[p].op = "session.save"
               PROVE  req'[r].session # req'[p].session
    BY DEF Pending
  <2>1. p # s /\ req'[p] = req[p]
    BY <1>3
  <2>2. Holders(req[p].session) = {} /\ req[p].session \in Sessions
    BY <2>1 DEF KycInv, Kept, Frames, Sound, TypeInv, SoundFrame
  <2>3. CASE r = s
    <3>1. req[s].session # req[p].session
      BY <2>1 DEF KycInv, Kept, Pending
    <3> QED BY <1>3, <2>1, <2>2, <2>3, <3>1, KycAssumption
  <2>4. CASE r # s
    BY <1>3, <2>1, <2>4 DEF KycInv, Kept, Pending
  <2> QED BY <2>3, <2>4
<1> QED BY <1>1, <1>2, <1>4, <1>5 DEF Kept

\* Leaving the handler is such a step.
LEMMA ReturnKept ==
  ASSUME KycInv, NEW s \in Slots, Return(s),
         UNCHANGED <<kycAttempts, kycSessionId, diditVars>>
  PROVE  req' \in [Slots -> SoundFrame] /\ Kept'
<1>1. Sound(Idle)
  BY IdleSound DEF Sound, FraudOps
<1> QED BY <1>1, IdleSound, FrameKept DEF Return

\* A step on the accounts' other columns keeps them too.
LEMMA AccountsKept ==
  ASSUME KycInv, UNCHANGED <<kycAttempts, kycSessionId, diditVars, req>>
  PROVE  req' \in [Slots -> SoundFrame] /\ Kept'
<1>1. req' \in [Slots -> SoundFrame] /\ Pending'
  BY DEF KycInv, TypeInv, Kept, Pending
<1>2. Records'
  BY DEF KycInv, Kept, Records, SaidApproved
<1>3. Frames'
  BY DEF KycInv, Kept, Frames, Sound, Holders, SaidApproved, SaidFraud
<1> QED BY <1>1, <1>2, <1>3 DEF Kept

\* A step that leaves accounts and Didit alone keeps every property.
LEMMA GoalsKept ==
  ASSUME KycInv, UNCHANGED <<userVars, diditVars, removed, blocked>>,
         req' \in [Slots -> SoundFrame], Kept'
  PROVE  KycInv'
<1>1. TypeInv'
  BY DEF KycInv, TypeInv, KycTypeOK, SoundFrame
<1>2. Goals'
  BY DEF KycInv, Goals, CurrentApproval, ResetIsFinal, BlockedExhausted, SaidApproved
<1> QED BY <1>1, <1>2 DEF KycInv

\* The frame of slot s at the handler's next await, sound when the old one was.
Onward(s, op) ==
  [op |-> op, user |-> req[s].user, session |-> req[s].session, final |-> req[s].final]

LEMMA GoSound ==
  ASSUME TypeInv, NEW s \in Slots, NEW op \in Ops \ {"idle", "session.read"}, Go(s, op),
         req[s].op \notin {"idle", "session.read", "session.post"} \/ op = "session.post",
         op \in {"session.post", "session.save", "hook.document"} => req[s].user \in Users
  PROVE  Onward(s, op) \in SoundFrame /\ req' = [req EXCEPT ![s] = Onward(s, op)]
<1>1. req[s] \in SoundFrame
  BY DEF TypeInv
<1>2. [req[s] EXCEPT !.op = op] = Onward(s, op)
  BY <1>1 DEF SoundFrame, Frame, Onward
<1>3. Onward(s, op) \in SoundFrame
  BY <1>1 DEF SoundFrame, Frame, Onward
<1>4. req' = [req EXCEPT ![s] = [req[s] EXCEPT !.op = op]]
  BY DEF Go
<1> QED BY <1>2, <1>3, <1>4

-----------------------------------------------------------------------------
(* Steps that only move a frame on.                                        *)

LEMMA RequestKept ==
  ASSUME KycInv, NEW s \in Slots, NEW u \in Users, RequestSession(s, u)
  PROVE  KycInv'
<1> DEFINE f == [Idle EXCEPT !.op = "session.read", !.user = u]
<1>1. f \in SoundFrame /\ f.op = "session.read" /\ f.session = NoSession
  BY DEF Idle, SoundFrame, Frame, Ops, KycStatus
<1>2. Sound(f)
  BY <1>1 DEF Sound, FraudOps
<1>3. req' = [req EXCEPT ![s] = f] /\ UNCHANGED <<userVars, diditVars, removed, blocked>>
  BY DEF RequestSession, Start
<1>4. req' \in [Slots -> SoundFrame] /\ Kept'
  BY <1>1, <1>2, <1>3, FrameKept
<1> QED BY <1>3, <1>4, GoalsKept

LEMMA ReadKept ==
  ASSUME KycInv, NEW s \in Slots, SessionRead(s)
  PROVE  KycInv'
<1> DEFINE f == Onward(s, "session.post")
<1>1. req[s].user \in Users /\ Sound(req[s])
  BY DEF KycInv, TypeInv, SoundFrame, Kept, Frames, SessionRead, At
<1>2. f \in SoundFrame /\ req' = [req EXCEPT ![s] = f]
  BY <1>1, GoSound DEF KycInv, SessionRead, Ops
<1>3. f.op = "session.post" /\ f.session = req[s].session
  BY DEF Onward
<1>4. Sound(f)
  BY <1>1, <1>3 DEF Sound, FraudOps
<1>5. UNCHANGED <<userVars, diditVars, removed, blocked>>
  BY DEF SessionRead
<1>6. req' \in [Slots -> SoundFrame] /\ Kept'
  BY <1>2, <1>3, <1>4, <1>5, FrameKept
<1> QED BY <1>5, <1>6, GoalsKept

\* A webhook's handler goes to a next statement that knows no more than it finds.
LEMMA HookGoes ==
  ASSUME KycInv, NEW s \in Slots,
         NEW op \in Ops \ {"idle", "session.read", "session.post", "session.save",
                           "hook.document"},
         req[s].op \notin {"idle", "session.read", "session.post"}, Go(s, op),
         op \in {"hook.approve", "hook.overrule"} => SaidApproved(req[s].session),
         op \in FraudOps => SaidFraud(req[s].session),
         op \in {"hook.ask", "hook.block"} =>
           \A u \in Holders(req[s].session) : kycAttempts[u] >= MaxAttempts,
         UNCHANGED <<kycAttempts, kycSessionId, diditVars>>
  PROVE  req' \in [Slots -> SoundFrame] /\ Kept'
<1> DEFINE f == Onward(s, op)
<1>1. f \in SoundFrame /\ req' = [req EXCEPT ![s] = f]
  BY GoSound DEF KycInv
<1>2. f.op = op /\ f.session = req[s].session
  BY DEF Onward
<1>3. Sound(req[s])
  BY DEF KycInv, Kept, Frames
<1>4. Sound(f)
  BY <1>2, <1>3 DEF Sound
<1> QED BY <1>1, <1>2, <1>4, FrameKept

LEMMA CountKept ==
  ASSUME KycInv, NEW s \in Slots, HookCount(s)
  PROVE  KycInv'
<1>1. /\ req[s].op = "hook.count" /\ UNCHANGED <<userVars, diditVars, removed, blocked>>
      /\ SaidFraud(req[s].session) /\ req[s].session \in Sessions
  BY DEF HookCount, At, KycInv, Kept, Frames, Sound, FraudOps, TypeInv, SoundFrame
<1>2. CASE \E u \in Holders(req[s].session) : kycAttempts[u] >= MaxAttempts
  <2>1. Go(s, "hook.ask")
    BY <1>2 DEF HookCount
  <2>2. \A u \in Holders(req[s].session) : kycAttempts[u] >= MaxAttempts
    <3>1. \A u \in Holders(req[s].session) : u = madeFor[req[s].session]
      BY <1>1, HolderUnique
    <3> QED BY <1>2, <3>1
  <2>3. req' \in [Slots -> SoundFrame] /\ Kept'
    BY <1>1, <2>1, <2>2, HookGoes DEF Ops
  <2> QED BY <1>1, <2>3, GoalsKept
<1>3. CASE ~\E u \in Holders(req[s].session) : kycAttempts[u] >= MaxAttempts
  <2>1. Go(s, "hook.decline")
    BY <1>3 DEF HookCount
  <2>2. req' \in [Slots -> SoundFrame] /\ Kept'
    BY <1>1, <2>1, HookGoes DEF Ops
  <2> QED BY <1>1, <2>2, GoalsKept
<1> QED BY <1>2, <1>3

LEMMA AskKept ==
  ASSUME KycInv, NEW s \in Slots, HookAsk(s)
  PROVE  KycInv'
<1>1. /\ req[s].op = "hook.ask" /\ UNCHANGED <<userVars, diditVars, removed, blocked>>
      /\ SaidFraud(req[s].session) /\ req[s].session \in Sessions
      /\ \A u \in Holders(req[s].session) : kycAttempts[u] >= MaxAttempts
  BY DEF HookAsk, At, KycInv, Kept, Frames, Sound, FraudOps, TypeInv, SoundFrame
<1>2. \A k \in Sessions : mapDiditStatus(decided[k]) = "APPROVED" => SaidApproved(k)
  BY DEF KycInv, Kept, Records
<1>3. \/ mapDiditStatus(decided[req[s].session]) = "APPROVED" /\ Go(s, "hook.overrule")
      \/ Go(s, "hook.block")
  BY DEF HookAsk
<1>4. CASE Go(s, "hook.block")
  <2>1. req' \in [Slots -> SoundFrame] /\ Kept'
    BY <1>1, <1>4, HookGoes DEF Ops
  <2> QED BY <1>1, <2>1, GoalsKept
<1>5. CASE mapDiditStatus(decided[req[s].session]) = "APPROVED" /\ Go(s, "hook.overrule")
  <2>1. SaidApproved(req[s].session)
    BY <1>1, <1>2, <1>5
  <2>2. req' \in [Slots -> SoundFrame] /\ Kept'
    BY <1>1, <1>5, <2>1, HookGoes DEF Ops
  <2> QED BY <1>1, <2>2, GoalsKept
<1> QED BY <1>3, <1>4, <1>5

LEMMA LeaveKept ==
  ASSUME KycInv, NEW s \in Slots, HookNotify(s) \/ HandlerError(s)
  PROVE  KycInv'
<1>1. Return(s) /\ UNCHANGED <<userVars, diditVars, removed, blocked>>
  BY DEF HookNotify, HandlerError
<1>2. req' \in [Slots -> SoundFrame] /\ Kept'
  BY <1>1, ReturnKept
<1> QED BY <1>1, <1>2, GoalsKept

-----------------------------------------------------------------------------
(* The statements of a webhook that write the account.                     *)

LEMMA ReceiveKept ==
  ASSUME KycInv, NEW s \in Slots, NEW h \in hooks, HookReceive(s, h)
  PROVE  KycInv'
<1> DEFINE status == mapDiditStatus(h.status)
           next   == CASE status = "APPROVED" -> "hook.approve"
                       [] status # "APPROVED" /\ h.fraud -> "hook.count"
                       [] OTHER -> "hook.notify"
           f == [Idle EXCEPT !.op = next, !.session = h.session, !.final = status]
<1>1. PICK u \in Holders(h.session) :
        /\ Start(s, f)
        /\ kycStatus' = [kycStatus EXCEPT ![u] = status]
        /\ verified' = IF status = "APPROVED" THEN [verified EXCEPT ![u] = TRUE] ELSE verified
        /\ UNCHANGED <<kycAttempts, kycSessionId, active, name, info, diditVars,
                       removed, blocked>>
  BY DEF HookReceive
<1>2. h \in Hook /\ h.session \in Sessions /\ status \in KycStatus
  BY StatusType DEF KycInv, TypeInv, KycTypeOK, Hook
<1>3. u \in Users /\ kycSessionId[u] = h.session /\ madeFor[h.session] = u
  BY <1>2, HoldersType, HolderUnique DEF KycInv
<1>4. status = "APPROVED" => SaidApproved(h.session)
  BY DEF SaidApproved
<1>5. next \in {"hook.approve", "hook.count", "hook.notify"}
  OBVIOUS
<1>6. next = "hook.approve" => status = "APPROVED"
  OBVIOUS
<1>7. next = "hook.count" => h.fraud
  OBVIOUS
<1> HIDE DEF next, status
<1>8. f \in SoundFrame
  BY <1>2, <1>5 DEF Idle, SoundFrame, Frame, Ops
<1>9. f.op = next /\ f.session = h.session
  BY DEF Idle
<1>10. decided[h.session] # ""
  BY DEF KycInv, Kept, Records
<1>11. h.fraud => SaidFraud(h.session)
  BY DEF SaidFraud
<1> HIDE DEF f
<1>12. Sound(f)
  BY <1>4, <1>5, <1>6, <1>7, <1>9, <1>10, <1>11 DEF Sound, FraudOps
<1>13. req' = [req EXCEPT ![s] = f]
  BY <1>1 DEF Start
<1>14. Holders(f.session) # {} /\ f.op # "session.save"
  BY <1>1, <1>5, <1>9
<1>15. req' \in [Slots -> SoundFrame] /\ Kept'
  BY <1>1, <1>8, <1>12, <1>13, <1>14, FrameKept
<1>16. /\ kycStatus' \in [Users -> KycStatus] /\ verified' \in [Users -> BOOLEAN]
       /\ kycStatus'[u] = status /\ (status = "APPROVED" => verified'[u])
       /\ \A v \in Users \ {u} : kycStatus'[v] = kycStatus[v] /\ verified'[v] = verified[v]
  BY <1>1, <1>2, <1>3 DEF KycInv, TypeInv, KycTypeOK
<1>17. TypeInv'
  BY <1>1, <1>15, <1>16 DEF KycInv, TypeInv, KycTypeOK, SoundFrame
<1>18. CurrentApproval'
  BY <1>1, <1>2, <1>3, <1>4, <1>16 DEF KycInv, Goals, CurrentApproval, SaidApproved
<1>19. ResetIsFinal'
  <2>1. kycSessionId[u] # NoSession
    BY <1>2, <1>3, KycAssumption
  <2> QED BY <1>1, <1>16, <2>1 DEF KycInv, Goals, ResetIsFinal
<1>20. BlockedExhausted'
  BY <1>1 DEF KycInv, Goals, BlockedExhausted
<1> QED BY <1>15, <1>17, <1>18, <1>19, <1>20 DEF KycInv, Goals

\* Approving the account of session k, on Didit's word.
LEMMA ApproveKept ==
  ASSUME KycInv, NEW k \in Sessions, SaidApproved(k), Approve(k),
         UNCHANGED <<diditVars, removed>>, req' \in [Slots -> SoundFrame], Kept'
  PROVE  KycInv'
<1>1. PICK u \in Holders(k) :
        /\ kycStatus' = [kycStatus EXCEPT ![u] = "APPROVED"]
        /\ verified' = [verified EXCEPT ![u] = TRUE]
        /\ active' = [active EXCEPT ![u] = TRUE]
        /\ blocked' = blocked \ {u}
        /\ UNCHANGED <<kycAttempts, kycSessionId, name, info>>
  BY DEF Approve
<1>2. u \in Users /\ kycSessionId[u] = k /\ k # NoSession /\ madeFor[k] = u
  BY HoldersType, HolderUnique DEF KycInv
<1>3. /\ kycStatus' \in [Users -> KycStatus] /\ verified' \in [Users -> BOOLEAN]
      /\ active' \in [Users -> BOOLEAN] /\ blocked' \subseteq Users
      /\ verified'[u]
      /\ \A v \in Users \ {u} : /\ kycStatus'[v] = kycStatus[v]
                                /\ verified'[v] = verified[v] /\ active'[v] = active[v]
  BY <1>1, <1>2 DEF KycInv, TypeInv, KycTypeOK, KycStatus
<1>4. TypeInv'
  BY <1>1, <1>3 DEF KycInv, TypeInv, KycTypeOK, SoundFrame
<1>5. CurrentApproval'
  BY <1>1, <1>2, <1>3 DEF KycInv, Goals, CurrentApproval, SaidApproved
<1>6. ResetIsFinal'
  BY <1>1, <1>2, <1>3 DEF KycInv, Goals, ResetIsFinal
<1>7. BlockedExhausted'
  <2>1. blocked \subseteq Users
    BY DEF KycInv, TypeInv, KycTypeOK
  <2> QED BY <1>1, <1>3, <2>1 DEF KycInv, Goals, BlockedExhausted
<1> QED BY <1>4, <1>5, <1>6, <1>7 DEF KycInv, Goals

\* The frame after the fraud branch.
LEMMA ConcludeKept ==
  ASSUME KycInv, NEW s \in Slots, Conclude(s),
         req[s].op \in {"hook.overrule", "hook.block", "hook.decline"},
         UNCHANGED <<kycAttempts, kycSessionId, diditVars>>
  PROVE  req' \in [Slots -> SoundFrame] /\ Kept'
<1> DEFINE f == [op |-> "hook.notify", user |-> req[s].user, session |-> req[s].session,
                 final |-> "DECLINED"]
<1>1. req[s] \in SoundFrame /\ Sound(req[s])
  BY DEF KycInv, TypeInv, Kept, Frames
<1>2. f \in SoundFrame
  BY <1>1 DEF SoundFrame, Frame, Ops, KycStatus
<1>3. [req[s] EXCEPT !.op = "hook.notify"] =
        [op |-> "hook.notify", user |-> req[s].user, session |-> req[s].session,
         final |-> req[s].final]
  BY <1>1 DEF SoundFrame, Frame
<1>4. [[op |-> "hook.notify", user |-> req[s].user, session |-> req[s].session,
         final |-> req[s].final] EXCEPT !.final = "DECLINED"] = f
  OBVIOUS
<1>5. req' = [req EXCEPT ![s] = f]
  <2>1. req' = [req EXCEPT ![s] = [[req[s] EXCEPT !.op = "hook.notify"]
                                     EXCEPT !.final = "DECLINED"]]
    BY DEF Conclude
  <2> QED BY <1>3, <1>4, <2>1
<1>6. f.op = "hook.notify" /\ f.session = req[s].session
  OBVIOUS
<1>7. Sound(f)
  BY <1>1, <1>6 DEF Sound, FraudOps
<1> QED BY <1>2, <1>5, <1>6, <1>7, FrameKept

LEMMA ApprovalsKept ==
  ASSUME KycInv, NEW s \in Slots, HookApprove(s) \/ HookOverrule(s)
  PROVE  KycInv'
<1>1. /\ req[s].op \in {"hook.approve", "hook.overrule"}
      /\ Approve(req[s].session) /\ UNCHANGED <<diditVars, removed>>
  BY DEF HookApprove, HookOverrule, At
<1>2. req[s].session \in Sessions /\ SaidApproved(req[s].session)
  BY <1>1 DEF KycInv, TypeInv, SoundFrame, Kept, Frames, Sound
<1>3. UNCHANGED <<kycAttempts, kycSessionId>>
  BY <1>1 DEF Approve
<1>4. CASE HookApprove(s)
  <2>1. Go(s, "hook.sync")
    BY <1>4 DEF HookApprove
  <2>2. req' \in [Slots -> SoundFrame] /\ Kept'
    BY <1>1, <1>3, <2>1, HookGoes DEF Ops, FraudOps
  <2> QED BY <1>1, <1>2, <2>2, ApproveKept
<1>5. CASE HookOverrule(s)
  <2>1. req' \in [Slots -> SoundFrame] /\ Kept'
    BY <1>1, <1>3, <1>5, ConcludeKept DEF HookOverrule, At
  <2> QED BY <1>1, <1>2, <2>1, ApproveKept
<1> QED BY <1>4, <1>5

LEMMA BlockKept ==
  ASSUME KycInv, NEW s \in Slots, HookBlock(s)
  PROVE  KycInv'
<1> DEFINE k == req[s].session
<1>1. PICK u \in Holders(k) :
        /\ kycStatus' = [kycStatus EXCEPT ![u] = "DECLINED"]
        /\ active' = [active EXCEPT ![u] = FALSE]
        /\ blocked' = blocked \cup {u}
  BY DEF HookBlock
<1>2. /\ req[s].op = "hook.block" /\ Conclude(s)
      /\ UNCHANGED <<kycAttempts, kycSessionId, verified, name, info, diditVars, removed>>
  BY DEF HookBlock, At
<1>3. /\ k \in Sessions /\ SaidFraud(k)
      /\ \A v \in Holders(k) : kycAttempts[v] >= MaxAttempts
  BY <1>2 DEF KycInv, TypeInv, SoundFrame, Kept, Frames, Sound, FraudOps
<1>4. /\ u \in Users /\ kycSessionId[u] = k /\ k # NoSession /\ madeFor[k] = u
      /\ kycAttempts[u] >= MaxAttempts
  BY <1>3, HoldersType, HolderUnique DEF KycInv
<1>5. req' \in [Slots -> SoundFrame] /\ Kept'
  BY <1>2, ConcludeKept
<1> HIDE DEF k
<1>6. /\ kycStatus' \in [Users -> KycStatus] /\ active' \in [Users -> BOOLEAN]
      /\ blocked' \subseteq Users
      /\ kycStatus'[u] = "DECLINED" /\ ~active'[u]
      /\ \A v \in Users \ {u} : kycStatus'[v] = kycStatus[v] /\ active'[v] = active[v]
  BY <1>1, <1>4 DEF KycInv, TypeInv, KycTypeOK, KycStatus
<1>7. TypeInv'
  BY <1>2, <1>5, <1>6 DEF KycInv, TypeInv, KycTypeOK, SoundFrame
<1>8. CurrentApproval'
  BY <1>2, <1>6 DEF KycInv, Goals, CurrentApproval, SaidApproved
<1>9. ResetIsFinal'
  BY <1>2, <1>4, <1>6 DEF KycInv, Goals, ResetIsFinal
<1>10. BlockedExhausted'
  <2>1. blocked \subseteq Users
    BY DEF KycInv, TypeInv, KycTypeOK
  <2>2. \E h \in hooks : h.fraud /\ madeFor[h.session] = u
    BY <1>3, <1>4 DEF SaidFraud
  <2> QED BY <1>1, <1>2, <1>4, <1>6, <2>1, <2>2 DEF KycInv, Goals, BlockedExhausted
<1> QED BY <1>5, <1>7, <1>8, <1>9, <1>10 DEF KycInv, Goals

LEMMA DeclineKept ==
  ASSUME KycInv, NEW s \in Slots, HookDecline(s)
  PROVE  KycInv'
<1>1. PICK u \in Holders(req[s].session) : kycStatus' = [kycStatus EXCEPT ![u] = "DECLINED"]
  BY DEF HookDecline
<1>2. /\ req[s].op = "hook.decline" /\ Conclude(s)
      /\ UNCHANGED <<kycAttempts, kycSessionId, active, verified, name, info, diditVars,
                     removed, blocked>>
  BY DEF HookDecline, At
<1>3. req[s].session \in Sessions
  BY <1>2 DEF KycInv, TypeInv, SoundFrame
<1>4. u \in Users /\ kycSessionId[u] # NoSession
  BY <1>3, HoldersType DEF KycInv
<1>5. req' \in [Slots -> SoundFrame] /\ Kept'
  BY <1>2, ConcludeKept
<1>6. /\ kycStatus' \in [Users -> KycStatus] /\ kycStatus'[u] = "DECLINED"
      /\ \A v \in Users \ {u} : kycStatus'[v] = kycStatus[v]
  BY <1>1, <1>4 DEF KycInv, TypeInv, KycTypeOK, KycStatus
<1>7. TypeInv'
  BY <1>2, <1>5, <1>6 DEF KycInv, TypeInv, KycTypeOK, SoundFrame
<1>8. CurrentApproval'
  BY <1>2, <1>6 DEF KycInv, Goals, CurrentApproval, SaidApproved
<1>9. ResetIsFinal'
  BY <1>2, <1>4, <1>6 DEF KycInv, Goals, ResetIsFinal
<1>10. BlockedExhausted'
  BY <1>2 DEF KycInv, Goals, BlockedExhausted
<1> QED BY <1>5, <1>7, <1>8, <1>9, <1>10 DEF KycInv, Goals

\* The columns of identity data are in no property but their type.
LEMMA IdentityKept ==
  ASSUME KycInv, UNCHANGED <<kycStatus, kycAttempts, kycSessionId, active, verified,
                             diditVars, removed, blocked>>,
         name' \in [Users -> Sessions \cup {NoSession}],
         info' \in [Users -> Sessions \cup {NoSession}],
         req' \in [Slots -> SoundFrame], Kept'
  PROVE  KycInv'
<1>1. TypeInv'
  BY DEF KycInv, TypeInv, KycTypeOK, SoundFrame
<1>2. Goals'
  BY DEF KycInv, Goals, CurrentApproval, ResetIsFinal, BlockedExhausted, SaidApproved
<1> QED BY <1>1, <1>2 DEF KycInv

LEMMA SyncKept ==
  ASSUME KycInv, NEW s \in Slots, HookSync(s)
  PROVE  KycInv'
<1> DEFINE k == req[s].session
<1>1. /\ req[s].op = "hook.sync"
      /\ UNCHANGED <<kycStatus, kycAttempts, kycSessionId, active, verified, info,
                     diditVars, removed, blocked>>
  BY DEF HookSync, At
<1>2. req[s] \in SoundFrame /\ k \in Sessions /\ Sound(req[s])
  BY <1>1 DEF KycInv, TypeInv, SoundFrame, Kept, Frames
<1>3. /\ name \in [Users -> Sessions \cup {NoSession}]
      /\ info \in [Users -> Sessions \cup {NoSession}]
  BY DEF KycInv, TypeInv, KycTypeOK
<1>4. CASE Holders(k) = {}
  <2>1. Go(s, "hook.notify") /\ UNCHANGED name
    BY <1>4 DEF HookSync
  <2>2. req' \in [Slots -> SoundFrame] /\ Kept'
    BY <1>1, <2>1, HookGoes DEF Ops, FraudOps
  <2> QED BY <1>1, <1>3, <2>1, <2>2, IdentityKept
<1>5. CASE Holders(k) # {}
  <2>1. PICK u \in Holders(k) :
          /\ name' \in {name, [name EXCEPT ![u] = k]}
          /\ req' = [req EXCEPT ![s].op = "hook.document", ![s].user = u]
    BY <1>5 DEF HookSync
  <2>2. u \in Users
    BY <1>2, HoldersType DEF KycInv
  <2> DEFINE f == [op |-> "hook.document", user |-> u, session |-> k, final |-> req[s].final]
  <2>3. f \in SoundFrame
    BY <1>2, <2>2 DEF SoundFrame, Frame, Ops
  <2>4. [req[s] EXCEPT !.op = "hook.document"] =
          [op |-> "hook.document", user |-> req[s].user, session |-> k, final |-> req[s].final]
    BY <1>2 DEF SoundFrame, Frame
  <2>5. [[op |-> "hook.document", user |-> req[s].user, session |-> k,
          final |-> req[s].final] EXCEPT !.user = u] = f
    OBVIOUS
  <2>6. req' = [req EXCEPT ![s] = f]
    <3>1. req' = [req EXCEPT ![s] = [[req[s] EXCEPT !.op = "hook.document"]
                                       EXCEPT !.user = u]]
      BY <2>1
    <3> QED BY <2>4, <2>5, <3>1
  <2>7. f.op = "hook.document" /\ f.session = req[s].session
    OBVIOUS
  <2>8. Sound(f)
    BY <1>2, <2>7 DEF Sound, FraudOps
  <2>9. req' \in [Slots -> SoundFrame] /\ Kept'
    BY <1>1, <2>3, <2>6, <2>7, <2>8, FrameKept
  <2>10. name' \in [Users -> Sessions \cup {NoSession}]
    BY <1>2, <1>3, <2>1, <2>2
  <2> QED BY <1>1, <1>3, <2>9, <2>10, IdentityKept
<1> QED BY <1>4, <1>5

LEMMA DocumentKept ==
  ASSUME KycInv, NEW s \in Slots, HookDocument(s)
  PROVE  KycInv'
<1>1. /\ req[s].op = "hook.document" /\ Go(s, "hook.notify")
      /\ UNCHANGED <<kycStatus, kycAttempts, kycSessionId, active, verified, name,
                     diditVars, removed, blocked>>
  BY DEF HookDocument, At
<1>2. req[s].user \in Users /\ req[s].session \in Sessions
  BY <1>1 DEF KycInv, TypeInv, SoundFrame
<1>3. /\ name \in [Users -> Sessions \cup {NoSession}]
      /\ info \in [Users -> Sessions \cup {NoSession}]
  BY DEF KycInv, TypeInv, KycTypeOK
<1>4. info' = info \/ info' = [info EXCEPT ![req[s].user] = req[s].session]
  BY DEF HookDocument
<1>5. info' \in [Users -> Sessions \cup {NoSession}]
  BY <1>2, <1>3, <1>4
<1>6. req' \in [Slots -> SoundFrame] /\ Kept'
  BY <1>1, HookGoes DEF Ops, FraudOps
<1> QED BY <1>1, <1>3, <1>5, <1>6, IdentityKept

-----------------------------------------------------------------------------
(* Sessions are created, stored and decided.                               *)

LEMMA PostKept ==
  ASSUME KycInv, NEW s \in Slots, NEW k \in Sessions, SessionPost(s, k)
  PROVE  KycInv'
<1>1. /\ req[s].op = "session.post" /\ decided[k] = ""
      /\ decided' = [decided EXCEPT ![k] = "Not Started"]
      /\ madeFor' = [madeFor EXCEPT ![k] = req[s].user]
      /\ UNCHANGED <<userVars, hooks, removed, blocked>>
  BY DEF SessionPost, At
<1>2. req[s] \in SoundFrame /\ req[s].user \in Users /\ k # NoSession
  BY <1>1, KycAssumption DEF KycInv, TypeInv, SoundFrame
<1> DEFINE f == [op |-> "session.save", user |-> req[s].user, session |-> k,
                 final |-> req[s].final]
<1>3. f \in SoundFrame
  BY <1>2 DEF SoundFrame, Frame, Ops
<1>4. req' = [req EXCEPT ![s] = f]
  <2>1. [req[s] EXCEPT !.op = "session.save"] =
          [op |-> "session.save", user |-> req[s].user, session |-> req[s].session,
           final |-> req[s].final]
    BY <1>2 DEF SoundFrame, Frame
  <2>2. [[op |-> "session.save", user |-> req[s].user, session |-> req[s].session,
          final |-> req[s].final] EXCEPT !.session = k] = f
    OBVIOUS
  <2>3. req' = [req EXCEPT ![s] = [[req[s] EXCEPT !.op = "session.save"]
                                     EXCEPT !.session = k]]
    BY DEF SessionPost
  <2> QED BY <2>1, <2>2, <2>3
<1>5. f.op = "session.save" /\ f.session = k /\ f.user = req[s].user
  OBVIOUS
<1> HIDE DEF f
<1>6. \A r \in Slots : req'[r] = IF r = s THEN f ELSE req[r]
  BY <1>4 DEF KycInv, TypeInv
<1>7. /\ decided' \in [Sessions -> DiditStatuses \cup {""}]
      /\ madeFor' \in [Sessions -> Users \cup {NoUser}]
      /\ decided'[k] = "Not Started" /\ madeFor'[k] = req[s].user
      /\ \A j \in Sessions \ {k} : decided'[j] = decided[j] /\ madeFor'[j] = madeFor[j]
  BY <1>1, <1>2 DEF KycInv, TypeInv, KycTypeOK, DiditStatuses
<1>8. TypeInv'
  BY <1>1, <1>3, <1>4, <1>7 DEF KycInv, TypeInv, KycTypeOK, SoundFrame
\* Nobody knows of a session that does not exist yet.
<1>9. \A u \in Users : kycSessionId[u] # k
  BY <1>1, <1>2 DEF KycInv, Kept, Records
<1>10. \A h \in hooks : h.session \in Sessions \ {k}
  BY <1>1 DEF KycInv, Kept, Records, TypeInv, KycTypeOK, Hook
<1>11. \A r \in Slots : req[r].session # k /\ req[r].session \in Sessions \cup {NoSession}
  BY <1>1, <1>2 DEF KycInv, Kept, Frames, Sound, TypeInv, SoundFrame, Frame
<1>12. \A u \in Users : kycSessionId[u] \in Sessions \cup {NoSession}
  BY DEF KycInv, TypeInv, KycTypeOK
<1>13. Records'
  <2>1. \A u \in Users : kycSessionId'[u] # NoSession =>
          decided'[kycSessionId'[u]] # "" /\ madeFor'[kycSessionId'[u]] = u
    BY <1>1, <1>7, <1>9, <1>12 DEF KycInv, Kept, Records
  <2>2. \A h \in hooks' : decided'[h.session] # ""
    BY <1>1, <1>7, <1>10 DEF KycInv, Kept, Records
  <2>3. \A j \in Sessions : mapDiditStatus(decided'[j]) = "APPROVED" => SaidApproved(j)'
    <3> SUFFICES ASSUME NEW j \in Sessions, mapDiditStatus(decided'[j]) = "APPROVED"
                 PROVE  SaidApproved(j)'
      OBVIOUS
    <3>1. mapDiditStatus("Not Started") = "NOT_STARTED"
      BY DEF mapDiditStatus
    <3>2. j # k
      BY <1>7, <3>1
    <3>3. decided'[j] = decided[j]
      BY <1>7, <3>2
    <3>4. SaidApproved(j)
      BY <3>3 DEF KycInv, Kept, Records
    <3> QED BY <1>1, <3>4 DEF SaidApproved
  <2> QED BY <2>1, <2>2, <2>3 DEF Records
<1>14. Frames'
  <2> SUFFICES ASSUME NEW r \in Slots PROVE Sound(req[r])'
    BY DEF Frames
  <2>1. CASE r = s
    <3>1. req'[r] = f
      BY <1>6, <2>1
    <3>2. decided'[f.session] # "" /\ madeFor'[f.session] = f.user
      BY <1>5, <1>7
    <3>3. {u \in Users : kycSessionId'[u] = f.session} = {}
      BY <1>1, <1>5, <1>9
    <3> QED BY <1>5, <3>1, <3>2, <3>3 DEF Sound, Holders, FraudOps
  <2>2. CASE r # s
    <3>1. req'[r] = req[r] /\ Sound(req[r])
      BY <1>6, <2>2 DEF KycInv, Kept, Frames
    <3>2. req[r].session # NoSession =>
            /\ decided'[req[r].session] = decided[req[r].session]
            /\ madeFor'[req[r].session] = madeFor[req[r].session]
      BY <1>7, <1>11
    <3>3. req[r].op = "session.save" => req[r].session # NoSession
      BY KycAssumption DEF KycInv, TypeInv, SoundFrame
    <3> QED BY <1>1, <3>1, <3>2, <3>3 DEF Sound, Holders, SaidApproved, SaidFraud
  <2> QED BY <2>1, <2>2
<1>15. Pending'
  BY <1>5, <1>6, <1>11 DEF KycInv, Kept, Pending
<1>16. CurrentApproval'
  <2> SUFFICES ASSUME NEW u \in Users, kycStatus'[u] = "APPROVED"
               PROVE  /\ kycSessionId'[u] \in Sessions
                      /\ madeFor'[kycSessionId'[u]] = u
                      /\ SaidApproved(kycSessionId[u])'
                      /\ verified'[u]
    BY DEF CurrentApproval
  <2>1. /\ kycSessionId[u] \in Sessions /\ madeFor[kycSessionId[u]] = u
        /\ SaidApproved(kycSessionId[u]) /\ verified[u]
    BY <1>1 DEF KycInv, Goals, CurrentApproval
  <2>2. madeFor'[kycSessionId[u]] = madeFor[kycSessionId[u]]
    BY <1>7, <1>9, <2>1
  <2> QED BY <1>1, <2>1, <2>2 DEF SaidApproved
<1>17. ResetIsFinal'
  BY <1>1 DEF KycInv, Goals, ResetIsFinal
<1>18. BlockedExhausted'
  BY <1>1, <1>7, <1>10 DEF KycInv, Goals, BlockedExhausted
<1> QED BY <1>8, <1>13, <1>14, <1>15, <1>16, <1>17, <1>18 DEF KycInv, Kept, Goals

LEMMA SaveKept ==
  ASSUME KycInv, NEW s \in Slots, SessionSave(s)
  PROVE  KycInv'
<1> DEFINE u == req[s].user
           k == req[s].session
<1>1. /\ req[s].op = "session.save" /\ Return(s)
      /\ kycSessionId' = [kycSessionId EXCEPT ![u] = k]
      /\ kycStatus' = [kycStatus EXCEPT ![u] = "IN_PROGRESS"]
      /\ kycAttempts' = [kycAttempts EXCEPT ![u] = @ + 1]
      /\ UNCHANGED <<active, verified, name, info, diditVars, removed, blocked>>
  BY DEF SessionSave, At
<1>2. /\ u \in Users /\ k \in Sessions /\ k # NoSession
      /\ decided[k] # "" /\ madeFor[k] = u /\ Holders(k) = {}
  BY <1>1, KycAssumption DEF KycInv, TypeInv, SoundFrame, Kept, Frames, Sound
<1>3. req' \in [Slots -> SoundFrame]
  BY <1>1, IdleSound DEF KycInv, TypeInv, Return
<1>4. \A r \in Slots : req'[r] = IF r = s THEN Idle ELSE req[r]
  BY <1>1 DEF KycInv, TypeInv, Return
<1>5. kycAttempts \in [Users -> Nat] /\ kycAttempts[u] + 1 \in Nat
  <2>1. kycAttempts \in [Users -> Nat]
    BY DEF KycInv, TypeInv, KycTypeOK
  <2>2. kycAttempts[u] \in Nat
    BY <1>2, <2>1
  <2> QED BY <2>1, <2>2
<1>6. /\ kycSessionId' \in [Users -> Sessions \cup {NoSession}]
      /\ kycStatus' \in [Users -> KycStatus]
      /\ kycSessionId'[u] = k /\ kycStatus'[u] = "IN_PROGRESS"
      /\ \A v \in Users \ {u} : /\ kycSessionId'[v] = kycSessionId[v]
                                /\ kycStatus'[v] = kycStatus[v]
  BY <1>1, <1>2 DEF KycInv, TypeInv, KycTypeOK, KycStatus
<1>7. /\ kycAttempts' \in [Users -> Nat] /\ kycAttempts'[u] = kycAttempts[u] + 1
      /\ \A v \in Users \ {u} : kycAttempts'[v] = kycAttempts[v]
  BY <1>1, <1>2, <1>5
<1>8. \A v \in Users, n \in Nat : kycAttempts[v] >= n => kycAttempts'[v] >= n
  <2> SUFFICES ASSUME NEW v \in Users, NEW n \in Nat, kycAttempts[v] >= n
               PROVE  kycAttempts'[v] >= n
    OBVIOUS
  <2>1. kycAttempts[v] \in Nat
    BY <1>5
  <2>2. kycAttempts'[v] = kycAttempts[v] \/ kycAttempts'[v] = kycAttempts[v] + 1
    BY <1>7
  <2> QED BY <2>1, <2>2
<1>9. TypeInv'
  BY <1>1, <1>3, <1>6, <1>7 DEF KycInv, TypeInv, KycTypeOK, SoundFrame
\* No other handler works on the session, and nobody else holds it.
<1>10. \A r \in Slots \ {s} : req[r].session # k
  BY <1>1 DEF KycInv, Kept, Pending
<1> HIDE DEF u, k
<1>11. Records'
  <2>1. \A v \in Users : kycSessionId'[v] # NoSession =>
          decided'[kycSessionId'[v]] # "" /\ madeFor'[kycSessionId'[v]] = v
    BY <1>1, <1>2, <1>6 DEF KycInv, Kept, Records
  <2>2. \A h \in hooks' : decided'[h.session] # ""
    BY <1>1 DEF KycInv, Kept, Records
  <2>3. \A j \in Sessions : mapDiditStatus(decided[j]) = "APPROVED" => SaidApproved(j)
    BY DEF KycInv, Kept, Records
  <2>4. \A j \in Sessions : mapDiditStatus(decided'[j]) = "APPROVED" => SaidApproved(j)'
    BY <1>1, <2>3 DEF SaidApproved
  <2> QED BY <2>1, <2>2, <2>4 DEF Records
<1>12. Frames'
  <2> SUFFICES ASSUME NEW r \in Slots PROVE Sound(req[r])'
    BY DEF Frames
  <2>1. CASE r = s
    <3>1. req'[r] = Idle
      BY <1>4, <2>1
    <3> QED BY <3>1, IdleSound DEF Sound, FraudOps
  <2>2. CASE r # s
    <3>1. req'[r] = req[r] /\ Sound(req[r]) /\ req[r].session # k
      BY <1>4, <1>10, <2>2 DEF KycInv, Kept, Frames
    <3>2. \A v \in Users : kycSessionId'[v] = req[r].session =>
            v # u /\ kycSessionId[v] = req[r].session
      BY <1>6, <3>1
    <3>3. \A v \in Users : kycSessionId'[v] = req[r].session => v \in Holders(req[r].session)
      BY <3>2 DEF Holders
    <3>4. MaxAttempts \in Nat
      BY KycAssumption
    <3>5. req[r].op \in {"hook.ask", "hook.block"} =>
            \A v \in Users : kycSessionId'[v] = req[r].session => kycAttempts'[v] >= MaxAttempts
      BY <1>8, <3>1, <3>3, <3>4 DEF Sound
    <3>6. req[r].op = "session.save" =>
            {v \in Users : kycSessionId'[v] = req[r].session} = {}
      BY <3>1, <3>2 DEF Sound, Holders
    <3> QED BY <1>1, <3>1, <3>5, <3>6 DEF Sound, Holders, SaidApproved, SaidFraud
  <2> QED BY <2>1, <2>2
<1>13. Pending'
  BY <1>2, <1>4, IdleSound, <1>9, KycAssumption DEF KycInv, Kept, Pending, TypeInv, SoundFrame
<1>14. CurrentApproval'
  BY <1>1, <1>6 DEF KycInv, Goals, CurrentApproval, SaidApproved
<1>15. ResetIsFinal'
  BY <1>2, <1>6, <1>7 DEF KycInv, Goals, ResetIsFinal
<1>16. BlockedExhausted'
  <2>1. blocked \subseteq Users /\ MaxAttempts \in Nat
    BY KycAssumption DEF KycInv, TypeInv, KycTypeOK
  <2> QED BY <1>1, <1>8, <2>1 DEF KycInv, Goals, BlockedExhausted
<1> QED BY <1>9, <1>11, <1>12, <1>13, <1>14, <1>15, <1>16 DEF KycInv, Kept, Goals

\* A reset leaves no session to act on, and forgets that the account was blocked.
LEMMA ResetKept ==
  ASSUME KycInv, NEW u \in Users, resetKycForUser(u)
  PROVE  KycInv'
<1>1. /\ blocked' = blocked \ {u} /\ UNCHANGED <<name, info, diditVars, req, removed>>
      /\ kycStatus' \in [Users -> KycStatus] /\ kycAttempts' \in [Users -> Nat]
      /\ kycSessionId' \in [Users -> Sessions \cup {NoSession}]
      /\ active' \in [Users -> BOOLEAN] /\ verified' \in [Users -> BOOLEAN]
  BY DEF resetKycForUser, KycInv, TypeInv, KycTypeOK, KycStatus
<1>2. /\ kycStatus'[u] = "NOT_STARTED" /\ kycAttempts'[u] = 0 /\ kycSessionId'[u] = NoSession
      /\ \A v \in Users \ {u} :
           /\ kycStatus'[v] = kycStatus[v] /\ kycAttempts'[v] = kycAttempts[v]
           /\ kycSessionId'[v] = kycSessionId[v]
           /\ active'[v] = active[v] /\ verified'[v] = verified[v]
  BY DEF resetKycForUser, KycInv, TypeInv, KycTypeOK
<1>3. TypeInv'
  BY <1>1 DEF KycInv, TypeInv, KycTypeOK, SoundFrame
<1>4. Records'
  <2>1. \A v \in Users : kycSessionId'[v] # NoSession => kycSessionId'[v] = kycSessionId[v]
    BY <1>2
  <2>2. \A v \in Users : kycSessionId'[v] # NoSession =>
          decided'[kycSessionId'[v]] # "" /\ madeFor'[kycSessionId'[v]] = v
    BY <1>1, <2>1 DEF KycInv, Kept, Records
  <2> QED BY <1>1, <2>2 DEF KycInv, Kept, Records, SaidApproved
<1>5. Frames'
  <2> SUFFICES ASSUME NEW r \in Slots PROVE Sound(req[r])'
    BY DEF Frames
  <2>1. Sound(req[r])
    BY DEF KycInv, Kept, Frames
  <2>2. req[r].op \in {"session.save", "hook.ask", "hook.block"} =>
          req[r].session # NoSession
    BY KycAssumption DEF KycInv, TypeInv, SoundFrame
  <2>3. req[r].session # NoSession =>
          \A v \in Users : kycSessionId'[v] = req[r].session =>
            kycSessionId[v] = req[r].session /\ kycAttempts'[v] = kycAttempts[v]
    BY <1>2
  <2> QED BY <1>1, <2>1, <2>2, <2>3 DEF Sound, Holders, SaidApproved, SaidFraud
<1>6. Pending'
  BY <1>1 DEF KycInv, Kept, Pending
<1>7. CurrentApproval'
  BY <1>1, <1>2 DEF KycInv, Goals, CurrentApproval, SaidApproved
<1>8. ResetIsFinal'
  BY <1>2 DEF KycInv, Goals, ResetIsFinal
<1>9. BlockedExhausted'
  <2>1. blocked \subseteq Users
    BY DEF KycInv, TypeInv, KycTypeOK
  <2> QED BY <1>1, <1>2, <2>1 DEF KycInv, Goals, BlockedExhausted
<1> QED BY <1>3, <1>4, <1>5, <1>6, <1>7, <1>8, <1>9 DEF KycInv, Kept, Goals

LEMMA SetActiveKept ==
  ASSUME KycInv, NEW u \in Users, NEW to \in BOOLEAN, setActive(u, to)
  PROVE  KycInv'
<1>1. /\ active' = [active EXCEPT ![u] = to] /\ blocked' = blocked \ {u}
      /\ UNCHANGED <<kycStatus, kycAttempts, kycSessionId, verified, name, info, diditVars,
                     req, removed>>
  BY DEF setActive
<1>2. Kept'
  BY <1>1, AccountsKept
<1>3. active' \in [Users -> BOOLEAN] /\ \A v \in Users \ {u} : active'[v] = active[v]
  BY <1>1 DEF KycInv, TypeInv, KycTypeOK
<1>4. blocked \subseteq Users
  BY DEF KycInv, TypeInv, KycTypeOK
<1>5. TypeInv'
  BY <1>1, <1>3, <1>4 DEF KycInv, TypeInv, KycTypeOK, SoundFrame
<1>6. CurrentApproval' /\ ResetIsFinal'
  BY <1>1 DEF KycInv, Goals, CurrentApproval, ResetIsFinal, SaidApproved
<1>7. BlockedExhausted'
  BY <1>1, <1>3, <1>4 DEF KycInv, Goals, BlockedExhausted
<1> QED BY <1>2, <1>5, <1>6, <1>7 DEF KycInv, Goals

LEMMA DeleteKept ==
  ASSUME KycInv, NEW u \in Users, confirmDeleteAccount(u)
  PROVE  KycInv'
<1>1. /\ active' = [active EXCEPT ![u] = FALSE]
      /\ kycStatus' = [kycStatus EXCEPT ![u] = "NOT_STARTED"]
      /\ name' = [name EXCEPT ![u] = NoSession] /\ info' = [info EXCEPT ![u] = NoSession]
      /\ removed' = removed \cup {u}
      /\ UNCHANGED <<kycAttempts, kycSessionId, verified, diditVars, req, blocked>>
  BY DEF confirmDeleteAccount
<1>2. Kept'
  BY <1>1, AccountsKept
<1>3. /\ active' \in [Users -> BOOLEAN] /\ kycStatus' \in [Users -> KycStatus]
      /\ kycStatus'[u] = "NOT_STARTED" /\ ~active'[u]
      /\ \A v \in Users \ {u} : active'[v] = active[v] /\ kycStatus'[v] = kycStatus[v]
  BY <1>1 DEF KycInv, TypeInv, KycTypeOK, KycStatus
<1>4. /\ name' \in [Users -> Sessions \cup {NoSession}]
      /\ info' \in [Users -> Sessions \cup {NoSession}]
      /\ removed' \subseteq Users
  BY <1>1 DEF KycInv, TypeInv, KycTypeOK
<1>5. TypeInv'
  BY <1>1, <1>3, <1>4 DEF KycInv, TypeInv, KycTypeOK, SoundFrame
<1>6. CurrentApproval'
  BY <1>1, <1>3 DEF KycInv, Goals, CurrentApproval, SaidApproved
<1>7. ResetIsFinal'
  BY <1>1, <1>3 DEF KycInv, Goals, ResetIsFinal
<1>8. BlockedExhausted'
  <2>1. blocked \subseteq Users
    BY DEF KycInv, TypeInv, KycTypeOK
  <2> QED BY <1>1, <1>3, <2>1 DEF KycInv, Goals, BlockedExhausted
<1> QED BY <1>2, <1>5, <1>6, <1>7, <1>8 DEF KycInv, Goals

LEMMA DecideKept ==
  ASSUME KycInv, NEW k \in Sessions, NEW status \in Verdicts, NEW fraud \in BOOLEAN,
         DiditDecides(k, status, fraud)
  PROVE  KycInv'
<1> DEFINE h == [session |-> k, status |-> status, fraud |-> fraud]
<1>1. /\ decided[k] # "" /\ decided' = [decided EXCEPT ![k] = status]
      /\ hooks' = hooks \cup {h}
      /\ UNCHANGED <<userVars, madeFor, req, removed, blocked>>
  BY DEF DiditDecides
<1>2. status \in DiditStatuses /\ status # "" /\ h \in Hook
  BY KycAssumption DEF Hook, DiditStatuses
<1>3. h.session = k /\ h.status = status
  OBVIOUS
<1> HIDE DEF h
<1>4. hooks \subseteq Hook /\ decided \in [Sessions -> DiditStatuses \cup {""}]
  BY DEF KycInv, TypeInv, KycTypeOK
<1>5. /\ decided' \in [Sessions -> DiditStatuses \cup {""}]
      /\ decided'[k] = status
      /\ \A j \in Sessions \ {k} : decided'[j] = decided[j]
      /\ \A j \in Sessions : decided[j] # "" => decided'[j] # ""
  BY <1>1, <1>2, <1>4
<1>6. TypeInv'
  BY <1>1, <1>2, <1>4, <1>5 DEF KycInv, TypeInv, KycTypeOK, SoundFrame
\* What Didit has said stays said.
<1>7. \A j : (SaidApproved(j) => SaidApproved(j)') /\ (SaidFraud(j) => SaidFraud(j)')
  BY <1>1 DEF SaidApproved, SaidFraud
<1>8. Records'
  <2>1. \A u \in Users : kycSessionId'[u] # NoSession =>
          decided'[kycSessionId'[u]] # "" /\ madeFor'[kycSessionId'[u]] = u
    BY <1>1, <1>5 DEF KycInv, Kept, Records, TypeInv, KycTypeOK
  <2>2. \A g \in hooks' : decided'[g.session] # ""
    <3>1. \A g \in hooks : g.session \in Sessions /\ decided[g.session] # ""
      BY <1>4 DEF KycInv, Kept, Records, Hook
    <3> QED BY <1>1, <1>2, <1>3, <1>5, <3>1
  <2>3. ASSUME NEW j \in Sessions, mapDiditStatus(decided'[j]) = "APPROVED"
        PROVE  SaidApproved(j)'
    <3>1. CASE j = k
      <4>1. h.session = j /\ mapDiditStatus(h.status) = "APPROVED"
        BY <1>3, <1>5, <2>3, <3>1
      <4>2. h \in hooks'
        BY <1>1
      <4> QED BY <4>1, <4>2 DEF SaidApproved
    <3>2. CASE j # k
      <4>1. decided'[j] = decided[j]
        BY <1>5, <3>2
      <4>2. SaidApproved(j)
        BY <2>3, <4>1 DEF KycInv, Kept, Records
      <4> QED BY <1>7, <4>2
    <3> QED BY <3>1, <3>2
  <2> QED BY <2>1, <2>2, <2>3 DEF Records
<1>9. Frames'
  <2> SUFFICES ASSUME NEW r \in Slots PROVE Sound(req[r])'
    BY DEF Frames
  <2>1. Sound(req[r]) /\ req[r].session \in Sessions \cup {NoSession}
    BY DEF KycInv, Kept, Frames, TypeInv, SoundFrame, Frame
  <2>2. req[r].session # NoSession => decided'[req[r].session] # ""
    BY <1>5, <2>1 DEF Sound
  <2> QED BY <1>1, <2>1, <2>2 DEF Sound, Holders, SaidApproved, SaidFraud
<1>10. Pending'
  BY <1>1 DEF KycInv, Kept, Pending
<1>11. CurrentApproval'
  BY <1>1 DEF KycInv, Goals, CurrentApproval, SaidApproved
<1>12. ResetIsFinal' /\ BlockedExhausted'
  BY <1>1 DEF KycInv, Goals, ResetIsFinal, BlockedExhausted
<1> QED BY <1>6, <1>8, <1>9, <1>10, <1>11, <1>12 DEF KycInv, Kept, Goals

-----------------------------------------------------------------------------
(* The theorems.                                                           *)

LEMMA NextKept == KycInv /\ [Next]_vars => KycInv'
<1> SUFFICES ASSUME KycInv, [Next]_vars PROVE KycInv'
  OBVIOUS
<1>1. CASE UNCHANGED vars
  <2>1. Kept'
    BY <1>1, AccountsKept DEF vars
  <2> QED BY <1>1, <2>1, GoalsKept DEF vars, KycInv, TypeInv, SoundFrame
<1>2. ASSUME NEW s \in Slots, Arrive(s) PROVE KycInv'
  BY <1>2, RequestKept, ReceiveKept DEF Arrive
<1>3. ASSUME NEW s \in Slots, Handle(s) PROVE KycInv'
  BY <1>3, ReadKept, SaveKept, PostKept, ApprovalsKept, CountKept, AskKept, BlockKept,
     DeclineKept, SyncKept, DocumentKept, LeaveKept DEF Handle
<1>4. ASSUME NEW u \in Users, Administer(u) \/ confirmDeleteAccount(u) PROVE KycInv'
  BY <1>4, ResetKept, SetActiveKept, DeleteKept DEF Administer
<1>5. ASSUME NEW k \in Sessions, NEW status \in Verdicts, NEW fraud \in BOOLEAN,
             DiditDecides(k, status, fraud)
      PROVE  KycInv'
  BY <1>5, DecideKept
<1> QED BY <1>1, <1>2, <1>3, <1>4, <1>5 DEF Next

LEMMA Invariance == Spec => []KycInv
<1> QED BY InitKept, NextKept, PTL DEF Spec

\* Columns, frames and Didit's records keep their types: in particular a status
\* is one of the enumeration whatever Didit reports (kyc.service.ts, mapDiditStatus).
THEOREM KycTypeCorrect == Spec => []KycTypeOK
<1>1. KycInv => KycTypeOK
  BY DEF KycInv, TypeInv
<1> QED BY <1>1, Invariance, PTL

\* However late, repeated or reordered webhooks are, an account is APPROVED only by
\* a decision on the session it has now (kyc.service.ts, handleDiditWebhook).
THEOREM ApprovalIsCurrent == Spec => []CurrentApproval
<1>1. KycInv => CurrentApproval
  BY DEF KycInv, Goals
<1> QED BY <1>1, Invariance, PTL

\* After an administrator's reset no handler still under way changes the account's
\* status or attempts before a new session is stored (kyc.service.ts, resetKycForUser).
THEOREM ResetHolds == Spec => []ResetIsFinal
<1>1. KycInv => ResetIsFinal
  BY DEF KycInv, Goals
<1> QED BY <1>1, Invariance, PTL

\* Although the attempts are read, then Didit is asked, and only then the account
\* is blocked, who is blocked has used all attempts and has had a fraud warning on
\* a session of its own (kyc.service.ts, the fraud branch of handleDiditWebhook).
THEOREM BlockIsEarned == Spec => []BlockedExhausted
<1>1. KycInv => BlockedExhausted
  BY DEF KycInv, Goals
<1> QED BY <1>1, Invariance, PTL

\* An approval activates the account it approves, on Didit's word about its session.
LEMMA ApproveActivates ==
  ASSUME KycInv, NEW s \in Slots, HookApprove(s) \/ HookOverrule(s),
         NEW u \in Users, ~active[u], active'[u]
  PROVE  kycStatus'[u] = "APPROVED" /\ SaidApproved(kycSessionId[u])
<1>1. req[s].op \in {"hook.approve", "hook.overrule"} /\ Approve(req[s].session)
  BY DEF HookApprove, HookOverrule, At
<1>2. req[s].session \in Sessions /\ SaidApproved(req[s].session)
  BY <1>1 DEF KycInv, TypeInv, SoundFrame, Kept, Frames, Sound
<1>3. PICK v \in Holders(req[s].session) :
        /\ kycStatus' = [kycStatus EXCEPT ![v] = "APPROVED"]
        /\ active' = [active EXCEPT ![v] = TRUE]
  BY <1>1 DEF Approve
<1>4. v \in Users /\ kycSessionId[v] = req[s].session
  BY <1>2, HoldersType DEF KycInv
<1>5. active \in [Users -> BOOLEAN] /\ kycStatus \in [Users -> KycStatus]
  BY DEF KycInv, TypeInv, KycTypeOK
<1>6. u = v
  BY <1>3, <1>4, <1>5
<1> QED BY <1>2, <1>3, <1>4, <1>5, <1>6

LEMMA ActivationStep ==
  ASSUME KycInv, Next, NEW u \in Users, ~active[u], active'[u]
  PROVE  \/ kycStatus'[u] = "APPROVED" /\ SaidApproved(kycSessionId[u])
         \/ Administer(u)
<1>1. active \in [Users -> BOOLEAN]
  BY DEF KycInv, TypeInv, KycTypeOK
<1>2. active' # active
  OBVIOUS
<1>3. ASSUME NEW s \in Slots, Arrive(s) PROVE FALSE
  BY <1>2, <1>3 DEF Arrive, RequestSession, HookReceive
<1>4. ASSUME NEW s \in Slots, Handle(s) PROVE HookApprove(s) \/ HookOverrule(s)
  <2>1. ~HookBlock(s)
    <3> SUFFICES ASSUME HookBlock(s) PROVE FALSE
      OBVIOUS
    <3>1. PICK v \in Holders(req[s].session) : active' = [active EXCEPT ![v] = FALSE]
      BY DEF HookBlock
    <3> QED BY <1>1, <3>1
  <2>2. ~(SessionRead(s) \/ SessionSave(s) \/ \E k \in Sessions : SessionPost(s, k))
    BY <1>2 DEF SessionRead, SessionSave, SessionPost
  <2>3. ~(HookCount(s) \/ HookAsk(s) \/ HookNotify(s) \/ HandlerError(s))
    BY <1>2 DEF HookCount, HookAsk, HookNotify, HandlerError
  <2>4. ~(HookDecline(s) \/ HookSync(s) \/ HookDocument(s))
    BY <1>2 DEF HookDecline, HookSync, HookDocument
  <2> QED BY <1>4, <2>1, <2>2, <2>3, <2>4 DEF Handle
<1>5. ASSUME NEW v \in Users, Administer(v) PROVE v = u
  <2>1. CASE resetKycForUser(v)
    BY <1>1, <2>1 DEF resetKycForUser
  <2>2. ASSUME NEW to \in BOOLEAN, setActive(v, to) PROVE v = u
    BY <1>1, <2>2 DEF setActive
  <2> QED BY <1>5, <2>1, <2>2 DEF Administer
<1>6. ASSUME NEW v \in Users, confirmDeleteAccount(v) PROVE FALSE
  BY <1>1, <1>6 DEF confirmDeleteAccount
<1>7. ASSUME NEW k \in Sessions, NEW status \in Verdicts, NEW fraud \in BOOLEAN,
             DiditDecides(k, status, fraud)
      PROVE  FALSE
  BY <1>2, <1>7 DEF DiditDecides
<1> QED BY <1>3, <1>4, <1>5, <1>6, <1>7, ApproveActivates DEF Next

\* No webhook reactivates an account except by approving its current session; what
\* else does is an administrator (kyc.service.ts, handleDiditWebhook; user.service.ts,
\* setActive).
THEOREM ReactivationIsEarned == Spec => Reactivation
<1>1. KycInv /\ [Next]_vars =>
        [\A u \in Users : ~active[u] /\ active'[u] =>
           \/ kycStatus'[u] = "APPROVED" /\ SaidApproved(kycSessionId[u])
           \/ Administer(u)]_vars
  BY ActivationStep
<1> QED BY <1>1, Invariance, PTL DEF Spec, Reactivation

-----------------------------------------------------------------------------
(* Where names and documents come from.  Copying them is two statements    *)
(* after the approval, the second on the user the first one found.         *)

\* What a frame that copies identity data knows of the session it copies from.
Vouched(f) ==
  /\ f.op \in {"hook.sync", "hook.document"} => SaidApproved(f.session)
  /\ f.op = "hook.document" => madeFor[f.session] = f.user

\* A session has an owner from the moment Didit creates it.
Owned == \A k \in Sessions : decided[k] = "" <=> madeFor[k] = NoUser

Origins == Owned /\ IdentityVouched /\ \A s \in Slots : Vouched(req[s])

\* While Didit's records stay, columns that got an approved session of their account
\* stay vouched for.
LEMMA CopiesVouched ==
  ASSUME IdentityVouched, NEW k, NEW u \in Users, SaidApproved(k), madeFor[k] = u,
         UNCHANGED diditVars,
         \A v \in Users : name'[v] = name[v] \/ (name'[v] = k /\ v = u),
         \A v \in Users : info'[v] = info[v] \/ (info'[v] = k /\ v = u)
  PROVE  IdentityVouched'
<1>1. \A j : SaidApproved(j)' <=> SaidApproved(j)
  BY DEF SaidApproved
<1>2. ASSUME NEW v \in Users, NEW j \in {name'[v], info'[v]} \ {NoSession}
      PROVE  madeFor[j] = v /\ SaidApproved(j)'
  BY <1>1, <1>2 DEF IdentityVouched
<1>3. madeFor' = madeFor
  OBVIOUS
<1> QED BY <1>2, <1>3 DEF IdentityVouched

\* Then only the frame of the slot that moved has to be looked at.
LEMMA CopyVouched ==
  ASSUME KycInv, Origins, NEW s \in Slots, NEW f \in SoundFrame, Vouched(f),
         req' = [req EXCEPT ![s] = f], UNCHANGED diditVars, IdentityVouched'
  PROVE  Origins'
<1>1. Owned'
  BY DEF Origins, Owned
<1>2. \A r \in Slots : Vouched(req'[r])
  BY DEF KycInv, TypeInv, Origins
<1>3. ASSUME NEW r \in Slots PROVE Vouched(req[r])'
  BY <1>2 DEF Vouched, SaidApproved
<1> QED BY <1>1, <1>3 DEF Origins

LEMMA FrameVouched ==
  ASSUME KycInv, Origins, NEW s \in Slots, NEW f \in SoundFrame, Vouched(f),
         req' = [req EXCEPT ![s] = f], UNCHANGED <<diditVars, name, info>>
  PROVE  Origins'
<1>1. \A j : SaidApproved(j)' <=> SaidApproved(j)
  BY DEF SaidApproved
<1>2. ASSUME NEW u \in Users, NEW j \in {name[u], info[u]} \ {NoSession}
      PROVE  madeFor'[j] = u /\ SaidApproved(j)'
  BY <1>1, <1>2 DEF Origins, IdentityVouched
<1>3. name' = name /\ info' = info
  OBVIOUS
<1>4. IdentityVouched'
  BY <1>2, <1>3 DEF IdentityVouched
<1> QED BY <1>4, CopyVouched

LEMMA ReturnVouched ==
  ASSUME KycInv, Origins, NEW s \in Slots, Return(s), UNCHANGED <<diditVars, name, info>>
  PROVE  Origins'
<1>1. Vouched(Idle)
  BY IdleSound DEF Vouched
<1> QED BY <1>1, IdleSound, FrameVouched DEF Return

\* A statement that goes on to one that copies nothing.
LEMMA GoVouched ==
  ASSUME KycInv, Origins, NEW s \in Slots,
         NEW op \in Ops \ {"idle", "session.read", "hook.sync", "hook.document"},
         Go(s, op),
         req[s].op \notin {"idle", "session.read", "session.post"} \/ op = "session.post",
         op \in {"session.post", "session.save"} => req[s].user \in Users,
         UNCHANGED <<diditVars, name, info>>
  PROVE  Origins'
<1>1. Onward(s, op) \in SoundFrame /\ req' = [req EXCEPT ![s] = Onward(s, op)]
  BY GoSound DEF KycInv
<1>2. Vouched(Onward(s, op))
  BY DEF Vouched, Onward
<1> QED BY <1>1, <1>2, FrameVouched

LEMMA OriginsStart == Init => Origins
<1> SUFFICES ASSUME Init PROVE Origins
  OBVIOUS
<1>1. Owned
  BY DEF Init, Owned
<1>2. IdentityVouched
  BY DEF Init, IdentityVouched
<1>3. \A s \in Slots : Vouched(req[s])
  BY IdleSound DEF Init, Vouched
<1> QED BY <1>1, <1>2, <1>3 DEF Origins

\* A handler that begins, ends or leaves the identity alone.
LEMMA ArriveVouched ==
  ASSUME KycInv, Origins, NEW s \in Slots, Arrive(s)
  PROVE  Origins'
<1>1. ASSUME NEW u \in Users, RequestSession(s, u) PROVE Origins'
  <2> DEFINE f == [Idle EXCEPT !.op = "session.read", !.user = u]
  <2>1. f \in SoundFrame /\ f.op = "session.read"
    BY DEF Idle, SoundFrame, Frame, Ops, KycStatus
  <2>2. Vouched(f)
    BY <2>1 DEF Vouched
  <2>3. req' = [req EXCEPT ![s] = f] /\ UNCHANGED <<diditVars, name, info>>
    BY <1>1 DEF RequestSession, Start
  <2> HIDE DEF f
  <2> QED BY <2>1, <2>2, <2>3, FrameVouched
<1>2. ASSUME NEW h \in hooks, HookReceive(s, h) PROVE Origins'
  <2> DEFINE status == mapDiditStatus(h.status)
             next   == CASE status = "APPROVED" -> "hook.approve"
                         [] status # "APPROVED" /\ h.fraud -> "hook.count"
                         [] OTHER -> "hook.notify"
             f == [Idle EXCEPT !.op = next, !.session = h.session, !.final = status]
  <2>1. Start(s, f) /\ UNCHANGED <<diditVars, name, info>>
    BY <1>2 DEF HookReceive
  <2>2. h.session \in Sessions /\ status \in KycStatus
    BY StatusType DEF KycInv, TypeInv, KycTypeOK, Hook
  <2>3. next \in {"hook.approve", "hook.count", "hook.notify"}
    OBVIOUS
  <2> HIDE DEF next, status
  <2>4. f \in SoundFrame /\ f.op = next
    BY <2>2, <2>3 DEF Idle, SoundFrame, Frame, Ops
  <2>5. Vouched(f)
    BY <2>3, <2>4 DEF Vouched
  <2>6. req' = [req EXCEPT ![s] = f]
    BY <2>1 DEF Start
  <2> HIDE DEF f
  <2> QED BY <2>1, <2>4, <2>5, <2>6, FrameVouched
<1> QED BY <1>1, <1>2 DEF Arrive

LEMMA QuietVouched ==
  ASSUME KycInv, Origins, NEW s \in Slots,
         \/ SessionRead(s) \/ SessionSave(s) \/ HookCount(s) \/ HookAsk(s)
         \/ HookNotify(s) \/ HandlerError(s)
  PROVE  Origins'
<1>1. UNCHANGED <<diditVars, name, info>>
  BY DEF SessionRead, SessionSave, HookCount, HookAsk, HookNotify, HandlerError
<1>2. CASE SessionSave(s) \/ HookNotify(s) \/ HandlerError(s)
  BY <1>1, <1>2, ReturnVouched DEF SessionSave, HookNotify, HandlerError
<1>3. CASE SessionRead(s)
  <2>1. req[s].user \in Users /\ Go(s, "session.post")
    BY <1>3 DEF KycInv, TypeInv, SoundFrame, SessionRead, At
  <2> QED BY <1>1, <2>1, GoVouched DEF Ops
<1>4. CASE HookCount(s) \/ HookAsk(s)
  <2>1. req[s].op \in {"hook.count", "hook.ask"}
    BY <1>4 DEF HookCount, HookAsk, At
  <2>2. PICK op \in {"hook.ask", "hook.decline", "hook.overrule", "hook.block"} : Go(s, op)
    BY <1>4 DEF HookCount, HookAsk
  <2> QED BY <1>1, <2>1, <2>2, GoVouched DEF Ops
<1> QED BY <1>2, <1>3, <1>4

\* The fraud branch ends by telling the user, with DECLINED.
LEMMA ConcludeVouched ==
  ASSUME KycInv, Origins, NEW s \in Slots, HookOverrule(s) \/ HookBlock(s) \/ HookDecline(s)
  PROVE  Origins'
<1> DEFINE f == [req[s] EXCEPT !.op = "hook.notify", !.final = "DECLINED"]
<1>1. Conclude(s) /\ UNCHANGED <<diditVars, name, info>>
  BY DEF HookOverrule, HookBlock, HookDecline, Approve
<1>2. req[s].op \in {"hook.overrule", "hook.block", "hook.decline"} /\ req[s] \in SoundFrame
  BY DEF HookOverrule, HookBlock, HookDecline, At, KycInv, TypeInv
<1>3. f \in SoundFrame /\ f.op = "hook.notify"
  BY <1>2 DEF SoundFrame, Frame, Ops, KycStatus
<1>4. req' = [req EXCEPT ![s] = f]
  BY <1>1 DEF Conclude
<1>5. Vouched(f)
  BY <1>3 DEF Vouched
<1> HIDE DEF f
<1> QED BY <1>1, <1>3, <1>4, <1>5, FrameVouched

\* The handler that approved is the one that copies.
LEMMA ApproveVouched ==
  ASSUME KycInv, Origins, NEW s \in Slots, HookApprove(s)
  PROVE  Origins'
<1>1. req[s].op = "hook.approve" /\ Go(s, "hook.sync") /\ UNCHANGED <<diditVars, name, info>>
  BY DEF HookApprove, At, Approve
<1>2. SaidApproved(req[s].session)
  BY <1>1 DEF KycInv, Kept, Frames, Sound
<1>3. /\ Onward(s, "hook.sync") \in SoundFrame
      /\ req' = [req EXCEPT ![s] = Onward(s, "hook.sync")]
  BY <1>1, GoSound DEF KycInv, Ops
<1>4. Vouched(Onward(s, "hook.sync"))
  BY <1>2 DEF Vouched, Onward
<1> QED BY <1>1, <1>3, <1>4, FrameVouched

\* The two statements that copy: what they write is vouched for, and so is what
\* the handler knows next.
LEMMA SyncVouched ==
  ASSUME KycInv, Origins, NEW s \in Slots, HookSync(s)
  PROVE  Origins'
<1> DEFINE k == req[s].session
<1>1. req[s].op = "hook.sync" /\ UNCHANGED <<diditVars, info>>
  BY DEF HookSync, At
<1>2. req[s] \in SoundFrame /\ k \in Sessions
  BY <1>1 DEF KycInv, TypeInv, SoundFrame
<1>3. SaidApproved(k)
  BY <1>1 DEF Origins, Vouched
<1>4. CASE Holders(k) = {}
  <2>1. Go(s, "hook.notify") /\ UNCHANGED name
    BY <1>4 DEF HookSync
  <2> QED BY <1>1, <2>1, GoVouched DEF Ops
<1>5. CASE Holders(k) # {}
  <2>1. PICK u \in Holders(k) :
          /\ name' \in {name, [name EXCEPT ![u] = k]}
          /\ req' = [req EXCEPT ![s].op = "hook.document", ![s].user = u]
    BY <1>5 DEF HookSync
  <2>2. u \in Users /\ madeFor[k] = u
    BY <1>2, HoldersType, HolderUnique DEF KycInv
  <2> DEFINE f == [op |-> "hook.document", user |-> u, session |-> k, final |-> req[s].final]
  <2>3. f \in SoundFrame
    BY <1>2, <2>2 DEF SoundFrame, Frame, Ops
  <2>4. req' = [req EXCEPT ![s] = f]
    <3>1. [req[s] EXCEPT !.op = "hook.document"] =
            [op |-> "hook.document", user |-> req[s].user, session |-> k,
             final |-> req[s].final]
      BY <1>2 DEF SoundFrame, Frame
    <3>2. [[op |-> "hook.document", user |-> req[s].user, session |-> k,
            final |-> req[s].final] EXCEPT !.user = u] = f
      OBVIOUS
    <3>3. req' = [req EXCEPT ![s] = [[req[s] EXCEPT !.op = "hook.document"]
                                       EXCEPT !.user = u]]
      BY <2>1
    <3> QED BY <3>1, <3>2, <3>3
  <2>5. Vouched(f)
    BY <1>3, <2>2 DEF Vouched
  <2> HIDE DEF f
  <2>6. \A v \in Users : name'[v] = name[v] \/ (name'[v] = k /\ v = u)
    BY <2>1, <2>2 DEF KycInv, TypeInv, KycTypeOK
  <2>7. IdentityVouched'
    BY <1>1, <1>3, <2>2, <2>6, CopiesVouched DEF Origins
  <2> QED BY <1>1, <2>3, <2>4, <2>5, <2>7, CopyVouched
<1> QED BY <1>4, <1>5

LEMMA DocumentVouched ==
  ASSUME KycInv, Origins, NEW s \in Slots, HookDocument(s)
  PROVE  Origins'
<1> DEFINE k == req[s].session
           u == req[s].user
           f == Onward(s, "hook.notify")
<1>1. req[s].op = "hook.document" /\ Go(s, "hook.notify") /\ UNCHANGED <<diditVars, name>>
  BY DEF HookDocument, At
<1>2. u \in Users /\ k \in Sessions /\ SaidApproved(k) /\ madeFor[k] = u
  BY <1>1 DEF KycInv, TypeInv, SoundFrame, Origins, Vouched
<1>3. info' = info \/ info' = [info EXCEPT ![u] = k]
  BY DEF HookDocument
<1>4. \A v \in Users : info'[v] = info[v] \/ (info'[v] = k /\ v = u)
  BY <1>2, <1>3 DEF KycInv, TypeInv, KycTypeOK
<1>5. IdentityVouched'
  BY <1>1, <1>2, <1>4, CopiesVouched DEF Origins
<1>6. f \in SoundFrame /\ req' = [req EXCEPT ![s] = f]
  BY <1>1, GoSound DEF KycInv, Ops
<1>7. Vouched(f)
  BY DEF Vouched, Onward
<1> QED BY <1>1, <1>5, <1>6, <1>7, CopyVouched

\* A session is made for somebody as Didit creates it: no column and no frame
\* named it before.
LEMMA PostVouched ==
  ASSUME KycInv, Origins, NEW s \in Slots, NEW k \in Sessions, SessionPost(s, k)
  PROVE  Origins'
<1>1. /\ req[s].op = "session.post" /\ decided[k] = ""
      /\ decided' = [decided EXCEPT ![k] = "Not Started"]
      /\ madeFor' = [madeFor EXCEPT ![k] = req[s].user]
      /\ req' = [req EXCEPT ![s].op = "session.save", ![s].session = k]
      /\ UNCHANGED <<userVars, hooks>>
  BY DEF SessionPost, At
<1>2. req[s].user \in Users /\ req[s].user # NoUser
  BY <1>1, KycAssumption DEF KycInv, TypeInv, SoundFrame
<1>3. /\ decided'[k] = "Not Started" /\ madeFor'[k] = req[s].user
      /\ \A j \in Sessions \ {k} : decided'[j] = decided[j] /\ madeFor'[j] = madeFor[j]
  BY <1>1 DEF KycInv, TypeInv, KycTypeOK
<1>4. Owned'
  BY <1>2, <1>3 DEF Origins, Owned
<1>5. \A h \in hooks : h.session # k
  BY <1>1 DEF KycInv, Kept, Records, TypeInv, KycTypeOK, Hook
<1>6. ~SaidApproved(k)
  BY <1>5 DEF SaidApproved
<1>7. \A j : SaidApproved(j)' <=> SaidApproved(j)
  BY <1>1 DEF SaidApproved
<1>8. IdentityVouched'
  <2>1. \A u \in Users : name[u] \in Sessions \cup {NoSession}
                         /\ info[u] \in Sessions \cup {NoSession}
    BY DEF KycInv, TypeInv, KycTypeOK
  <2>2. ASSUME NEW u \in Users, NEW j \in {name[u], info[u]} \ {NoSession}
        PROVE  madeFor'[j] = u /\ SaidApproved(j)'
    <3>1. madeFor[j] = u /\ SaidApproved(j) /\ j \in Sessions
      BY <2>1, <2>2 DEF Origins, IdentityVouched
    <3> QED BY <1>3, <1>6, <1>7, <3>1
  <2>3. name' = name /\ info' = info
    BY <1>1
  <2> QED BY <2>2, <2>3 DEF IdentityVouched
<1>9. ASSUME NEW r \in Slots PROVE Vouched(req[r])'
  <2>1. CASE r = s
    <3>1. req'[s].op = "session.save"
      BY <1>1 DEF KycInv, TypeInv, SoundFrame, Frame
    <3> QED BY <2>1, <3>1 DEF Vouched
  <2>2. CASE r # s
    <3>1. req'[r] = req[r] /\ Vouched(req[r]) /\ req[r] \in SoundFrame
      BY <1>1, <2>2 DEF KycInv, TypeInv, Origins
    <3>2. req[r].op = "hook.document" => req[r].session \in Sessions \ {k}
      BY <1>6, <3>1 DEF Vouched, SoundFrame
    <3> QED BY <1>3, <1>7, <3>1, <3>2 DEF Vouched
  <2> QED BY <2>1, <2>2
<1> QED BY <1>4, <1>8, <1>9 DEF Origins

\* What Didit decides adds to what it has said.
LEMMA DecideVouched ==
  ASSUME KycInv, Origins, NEW k \in Sessions, NEW status \in Verdicts, NEW fraud \in BOOLEAN,
         DiditDecides(k, status, fraud)
  PROVE  Origins'
<1>1. /\ decided[k] # "" /\ decided' = [decided EXCEPT ![k] = status]
      /\ hooks' = hooks \cup {[session |-> k, status |-> status, fraud |-> fraud]}
      /\ UNCHANGED <<userVars, madeFor, req>>
  BY DEF DiditDecides
<1>2. status # ""
  BY KycAssumption DEF DiditStatuses
<1>3. \A j \in Sessions : decided'[j] = "" <=> decided[j] = ""
  BY <1>1, <1>2 DEF KycInv, TypeInv, KycTypeOK
<1>4. Owned'
  BY <1>1, <1>3 DEF Origins, Owned
<1>5. \A j : SaidApproved(j) => SaidApproved(j)'
  BY <1>1 DEF SaidApproved
<1>6. IdentityVouched'
  <2>1. ASSUME NEW u \in Users, NEW j \in {name[u], info[u]} \ {NoSession}
        PROVE  madeFor[j] = u /\ SaidApproved(j)'
    BY <1>5, <2>1 DEF Origins, IdentityVouched
  <2>2. name' = name /\ info' = info /\ madeFor' = madeFor
    BY <1>1
  <2> QED BY <2>1, <2>2 DEF IdentityVouched
<1>7. ASSUME NEW r \in Slots PROVE Vouched(req[r])'
  <2>1. Vouched(req[r])
    BY DEF Origins
  <2> QED BY <1>1, <1>5, <2>1 DEF Vouched
<1> QED BY <1>4, <1>6, <1>7 DEF Origins

\* Administrators leave the identity alone; a deletion only clears it.
LEMMA ColumnsVouched ==
  ASSUME KycInv, Origins, NEW u \in Users, Administer(u) \/ confirmDeleteAccount(u)
  PROVE  Origins'
<1>1. UNCHANGED <<diditVars, req>>
  BY DEF Administer, resetKycForUser, setActive, confirmDeleteAccount
<1>2. \/ UNCHANGED <<name, info>>
      \/ name' = [name EXCEPT ![u] = NoSession] /\ info' = [info EXCEPT ![u] = NoSession]
  BY DEF Administer, resetKycForUser, setActive, confirmDeleteAccount
<1>3. \A v \in Users : /\ name'[v] = name[v] \/ name'[v] = NoSession
                       /\ info'[v] = info[v] \/ info'[v] = NoSession
  BY <1>2 DEF KycInv, TypeInv, KycTypeOK
<1>4. \A j : SaidApproved(j)' <=> SaidApproved(j)
  BY <1>1 DEF SaidApproved
<1>5. IdentityVouched'
  <2>1. ASSUME NEW v \in Users, NEW j \in {name'[v], info'[v]} \ {NoSession}
        PROVE  madeFor[j] = v /\ SaidApproved(j)'
    <3>1. j \in {name[v], info[v]} \ {NoSession}
      BY <1>3, <2>1
    <3> QED BY <1>4, <3>1 DEF Origins, IdentityVouched
  <2>2. madeFor' = madeFor
    BY <1>1
  <2> QED BY <2>1, <2>2 DEF IdentityVouched
<1>6. ASSUME NEW r \in Slots PROVE Vouched(req[r])'
  <2>1. Vouched(req[r])
    BY DEF Origins
  <2> QED BY <1>1, <1>4, <2>1 DEF Vouched
<1>7. Owned'
  BY <1>1 DEF Origins, Owned
<1> QED BY <1>5, <1>6, <1>7 DEF Origins

LEMMA OriginsNext == KycInv /\ Origins /\ [Next]_vars => Origins'
<1> SUFFICES ASSUME KycInv, Origins, [Next]_vars PROVE Origins'
  OBVIOUS
<1>1. CASE UNCHANGED vars
  <2>1. \A j : SaidApproved(j)' <=> SaidApproved(j)
    BY <1>1 DEF vars, SaidApproved
  <2>2. ASSUME NEW r \in Slots PROVE Vouched(req[r])'
    BY <1>1, <2>1 DEF vars, Origins, Vouched
  <2>3. Owned'
    BY <1>1 DEF vars, Origins, Owned
  <2>4. IdentityVouched'
    BY <1>1, <2>1 DEF vars, Origins, IdentityVouched
  <2> QED BY <2>2, <2>3, <2>4 DEF Origins
<1>2. ASSUME NEW s \in Slots, Arrive(s) PROVE Origins'
  BY <1>2, ArriveVouched
<1>3. ASSUME NEW s \in Slots, Handle(s) PROVE Origins'
  BY <1>3, QuietVouched, PostVouched, ApproveVouched, ConcludeVouched, SyncVouched,
     DocumentVouched DEF Handle
<1>4. ASSUME NEW u \in Users, Administer(u) \/ confirmDeleteAccount(u) PROVE Origins'
  BY <1>4, ColumnsVouched
<1>5. ASSUME NEW k \in Sessions, NEW status \in Verdicts, NEW fraud \in BOOLEAN,
             DiditDecides(k, status, fraud)
      PROVE  Origins'
  BY <1>5, DecideVouched
<1> QED BY <1>1, <1>2, <1>3, <1>4, <1>5 DEF Next

LEMMA OriginsInvariance == Spec => []Origins
<1> QED BY OriginsStart, OriginsNext, Invariance, PTL DEF Spec

\* Although name and document are copied in two statements, each on a row found
\* before, they are of sessions made for the account and approved
\* (kyc.service.ts, syncUserDataFromKyc).
THEOREM IdentityIsVouched == Spec => []IdentityVouched
<1>1. Origins => IdentityVouched
  BY DEF Origins
<1> QED BY <1>1, OriginsInvariance, PTL

-----------------------------------------------------------------------------
(* The refinement of Verification, step by step.  Statements that move a   *)
(* frame are stutters; one that writes an account does, by what its frame  *)
(* still knows, one atomic step of the account it finds.                   *)

LEMMA TaleTells ==
  ASSUME NEW h
  PROVE  /\ Tale(h).session = h.session /\ Tale(h).fraud = h.fraud
         /\ Tale(h).outcome = mapDiditStatus(h.status)
  BY DEF Tale

LEMMA ToldApproved ==
  ASSUME NEW k
  PROVE  Contract!Approved(k) <=> SaidApproved(k)
  BY TaleTells DEF Contract!Approved, Told, SaidApproved

LEMMA ToldSuspected ==
  ASSUME NEW k
  PROVE  Contract!Suspected(k) <=> SaidFraud(k)
  BY TaleTells DEF Contract!Suspected, Told, SaidFraud

LEMMA ToldStays ==
  ASSUME UNCHANGED hooks
  PROVE  Told' = Told
  BY DEF Told

LEMMA KycStutters ==
  ASSUME UNCHANGED <<userVars, diditVars>>
  PROVE  [Contract!Advance]_(Contract!verification)
<1>1. UNCHANGED Contract!verification
  BY ToldStays DEF Contract!verification, Contract!account
<1> QED BY <1>1

\* The account a webhook's statement finds, and what the frame knows of its session.
LEMMA HookFinds ==
  ASSUME KycInv, Origins, NEW s \in Slots, NEW u \in Holders(req[s].session),
         req[s].op \notin {"idle", "session.read", "session.post", "session.save"}
  PROVE  /\ u \in Users /\ kycSessionId[u] = req[s].session
         /\ req[s].op \in {"hook.approve", "hook.overrule", "hook.sync", "hook.document"} =>
              Contract!Approved(kycSessionId[u])
         /\ req[s].op \in FraudOps => Contract!Suspected(kycSessionId[u])
         /\ req[s].op = "hook.block" => kycAttempts[u] >= MaxAttempts
<1>1. req[s].session \in Sessions /\ Sound(req[s]) /\ Vouched(req[s])
  BY DEF KycInv, TypeInv, SoundFrame, Kept, Frames, Origins
<1>2. u \in Users /\ kycSessionId[u] = req[s].session
  BY <1>1, HoldersType DEF KycInv
<1>3. req[s].op \in {"hook.approve", "hook.overrule", "hook.sync", "hook.document"} =>
        SaidApproved(kycSessionId[u])
  BY <1>1, <1>2 DEF Sound, Vouched
<1>4. req[s].op \in FraudOps => SaidFraud(kycSessionId[u])
  BY <1>1, <1>2 DEF Sound
<1>5. req[s].op = "hook.block" => kycAttempts[u] >= MaxAttempts
  BY <1>1 DEF Sound
<1> QED BY <1>2, <1>3, <1>4, <1>5, ToldApproved, ToldSuspected

LEMMA ReceiveMaps ==
  ASSUME KycInv, NEW s \in Slots, NEW h \in hooks, HookReceive(s, h)
  PROVE  Contract!Advance
<1> DEFINE v == Tale(h)
<1>1. PICK u \in Holders(h.session) :
        /\ kycStatus' = [kycStatus EXCEPT ![u] = mapDiditStatus(h.status)]
        /\ UNCHANGED <<kycAttempts, kycSessionId, active, name, info, diditVars>>
  BY DEF HookReceive
<1>2. h.session \in Sessions
  BY DEF KycInv, TypeInv, KycTypeOK, Hook
<1>3. u \in Users /\ kycSessionId[u] = h.session
  BY <1>1, <1>2, HoldersType DEF KycInv
<1>4. v \in Told
  BY DEF Told
<1>5. v.session = h.session /\ v.outcome = mapDiditStatus(h.status)
  BY TaleTells
<1>6. Told' = Told
  BY <1>1, ToldStays
<1> HIDE DEF v
<1>7. Contract!Follow(u)
  BY <1>1, <1>3, <1>4, <1>5, <1>6 DEF Contract!Follow
<1> QED BY <1>3, <1>7 DEF Contract!Advance

LEMMA ApproveMaps ==
  ASSUME KycInv, Origins, NEW s \in Slots, HookApprove(s) \/ HookOverrule(s)
  PROVE  Contract!Advance
<1>1. /\ req[s].op \in {"hook.approve", "hook.overrule"} /\ Approve(req[s].session)
      /\ UNCHANGED diditVars
  BY DEF HookApprove, HookOverrule, At
<1>2. PICK u \in Holders(req[s].session) :
        /\ kycStatus' = [kycStatus EXCEPT ![u] = "APPROVED"]
        /\ active' = [active EXCEPT ![u] = TRUE]
        /\ UNCHANGED <<kycAttempts, kycSessionId, name, info>>
  BY <1>1 DEF Approve
<1>3. u \in Users /\ Contract!Approved(kycSessionId[u])
  BY <1>1, HookFinds
<1>4. Contract!Approve(u)
  BY <1>1, <1>2, <1>3, ToldStays DEF Contract!Approve
<1> QED BY <1>3, <1>4 DEF Contract!Advance

LEMMA BlockMaps ==
  ASSUME KycInv, Origins, NEW s \in Slots, HookBlock(s)
  PROVE  Contract!Advance
<1>1. req[s].op = "hook.block" /\ UNCHANGED <<kycAttempts, kycSessionId, name, info, diditVars>>
  BY DEF HookBlock, At
<1>2. PICK u \in Holders(req[s].session) :
        /\ kycStatus' = [kycStatus EXCEPT ![u] = "DECLINED"]
        /\ active' = [active EXCEPT ![u] = FALSE]
  BY DEF HookBlock
<1>3. u \in Users /\ Contract!Suspected(kycSessionId[u]) /\ kycAttempts[u] >= MaxAttempts
  BY <1>1, HookFinds DEF FraudOps
<1>4. Contract!Block(u)
  BY <1>1, <1>2, <1>3, ToldStays DEF Contract!Block
<1> QED BY <1>3, <1>4 DEF Contract!Advance

LEMMA DeclineMaps ==
  ASSUME KycInv, Origins, NEW s \in Slots, HookDecline(s)
  PROVE  Contract!Advance
<1>1. /\ req[s].op = "hook.decline"
      /\ UNCHANGED <<kycAttempts, kycSessionId, active, name, info, diditVars>>
  BY DEF HookDecline, At
<1>2. PICK u \in Holders(req[s].session) : kycStatus' = [kycStatus EXCEPT ![u] = "DECLINED"]
  BY DEF HookDecline
<1>3. u \in Users /\ Contract!Suspected(kycSessionId[u])
  BY <1>1, HookFinds DEF FraudOps
<1>4. Contract!Decline(u)
  BY <1>1, <1>2, <1>3, ToldStays DEF Contract!Decline
<1> QED BY <1>3, <1>4 DEF Contract!Advance

LEMMA SyncMaps ==
  ASSUME KycInv, Origins, NEW s \in Slots, HookSync(s)
  PROVE  [Contract!Advance]_(Contract!verification)
<1>1. /\ req[s].op = "hook.sync"
      /\ UNCHANGED <<kycStatus, kycAttempts, kycSessionId, active, verified, info, diditVars>>
  BY DEF HookSync, At
<1>2. ASSUME UNCHANGED name PROVE [Contract!Advance]_(Contract!verification)
  BY <1>1, <1>2, KycStutters
<1>3. ASSUME NEW u \in Holders(req[s].session), name' = [name EXCEPT ![u] = req[s].session]
      PROVE  Contract!Advance
  <2>1. /\ u \in Users /\ kycSessionId[u] = req[s].session
        /\ Contract!Approved(kycSessionId[u])
    BY <1>1, HookFinds
  <2>2. Contract!CopyName(u)
    BY <1>1, <1>3, <2>1, ToldStays DEF Contract!CopyName
  <2> QED BY <2>1, <2>2 DEF Contract!Advance
<1>4. \/ UNCHANGED name
      \/ \E u \in Holders(req[s].session) : name' = [name EXCEPT ![u] = req[s].session]
  BY DEF HookSync
<1> QED BY <1>2, <1>3, <1>4

LEMMA DocumentMaps ==
  ASSUME KycInv, Origins, NEW s \in Slots, HookDocument(s)
  PROVE  [Contract!Advance]_(Contract!verification)
<1> DEFINE u == req[s].user
           k == req[s].session
<1>1. /\ req[s].op = "hook.document"
      /\ UNCHANGED <<kycStatus, kycAttempts, kycSessionId, active, verified, name, diditVars>>
  BY DEF HookDocument, At
<1>2. u \in Users /\ k \in Sessions /\ madeFor[k] = u /\ Contract!Approved(k)
  BY <1>1, ToldApproved DEF KycInv, TypeInv, SoundFrame, Origins, Vouched
<1>3. ASSUME UNCHANGED info PROVE [Contract!Advance]_(Contract!verification)
  BY <1>1, <1>3, KycStutters
<1>4. ASSUME info' = [info EXCEPT ![u] = k] PROVE Contract!Advance
  <2>1. Contract!CopyDocument(u, k)
    BY <1>1, <1>2, <1>4, ToldStays DEF Contract!CopyDocument
  <2> QED BY <1>2, <2>1 DEF Contract!Advance
<1>5. UNCHANGED info \/ info' = [info EXCEPT ![u] = k]
  BY DEF HookDocument
<1> QED BY <1>3, <1>4, <1>5

LEMMA PostMaps ==
  ASSUME KycInv, Origins, NEW s \in Slots, NEW k \in Sessions, SessionPost(s, k)
  PROVE  Contract!Advance
<1>1. /\ req[s].op = "session.post" /\ decided[k] = ""
      /\ madeFor' = [madeFor EXCEPT ![k] = req[s].user]
      /\ UNCHANGED <<userVars, hooks>>
  BY DEF SessionPost, At
<1>2. req[s].user \in Users /\ madeFor[k] = NoUser
  BY <1>1 DEF KycInv, TypeInv, SoundFrame, Origins, Owned
<1>3. Contract!Make(req[s].user, k)
  BY <1>1, <1>2, ToldStays DEF Contract!Make, Contract!account
<1> QED BY <1>2, <1>3 DEF Contract!Advance

LEMMA SaveMaps ==
  ASSUME KycInv, NEW s \in Slots, SessionSave(s)
  PROVE  Contract!Advance
<1> DEFINE u == req[s].user
           k == req[s].session
<1>1. /\ req[s].op = "session.save"
      /\ kycSessionId' = [kycSessionId EXCEPT ![u] = k]
      /\ kycStatus' = [kycStatus EXCEPT ![u] = "IN_PROGRESS"]
      /\ kycAttempts' = [kycAttempts EXCEPT ![u] = @ + 1]
      /\ UNCHANGED <<active, name, info, diditVars>>
  BY DEF SessionSave, At
<1>2. u \in Users /\ k \in Sessions /\ madeFor[k] = u /\ Holders(k) = {}
  BY <1>1 DEF KycInv, TypeInv, SoundFrame, Kept, Frames, Sound
<1>3. \A v \in Users : kycSessionId[v] # k
  BY <1>2 DEF Holders
<1>4. Contract!Take(u, k)
  BY <1>1, <1>2, <1>3, ToldStays DEF Contract!Take
<1> QED BY <1>2, <1>4 DEF Contract!Advance

LEMMA ColumnsMap ==
  ASSUME NEW u \in Users, Administer(u) \/ confirmDeleteAccount(u)
  PROVE  Contract!Advance
<1>1. Told' = Told
  BY ToldStays DEF Administer, resetKycForUser, setActive, confirmDeleteAccount
<1>2. ASSUME resetKycForUser(u) PROVE Contract!Advance
  <2>1. Contract!Reset(u)
    BY <1>1, <1>2 DEF resetKycForUser, Contract!Reset
  <2> QED BY <2>1 DEF Contract!Advance
<1>3. ASSUME NEW to \in BOOLEAN, setActive(u, to) PROVE Contract!Advance
  <2>1. Contract!Switch(u, to)
    BY <1>1, <1>3 DEF setActive, Contract!Switch
  <2> QED BY <2>1 DEF Contract!Advance
<1>4. ASSUME confirmDeleteAccount(u) PROVE Contract!Advance
  <2>1. Contract!Remove(u)
    BY <1>1, <1>4 DEF confirmDeleteAccount, Contract!Remove
  <2> QED BY <2>1 DEF Contract!Advance
<1> QED BY <1>2, <1>3, <1>4 DEF Administer

LEMMA DecideMaps ==
  ASSUME KycInv, Origins, NEW k \in Sessions, NEW status \in Verdicts, NEW fraud \in BOOLEAN,
         DiditDecides(k, status, fraud)
  PROVE  Contract!Advance
<1> DEFINE outcome == mapDiditStatus(status)
           h == [session |-> k, status |-> status, fraud |-> fraud]
<1>1. decided[k] # "" /\ hooks' = hooks \cup {h} /\ UNCHANGED <<userVars, madeFor>>
  BY DEF DiditDecides
<1>2. madeFor[k] # NoUser /\ outcome \in KycStatus
  BY <1>1, StatusType DEF Origins, Owned
<1>3. Told' = Told \cup {[session |-> k, outcome |-> outcome, fraud |-> fraud]}
  <2>1. Tale(h) = [session |-> k, outcome |-> outcome, fraud |-> fraud]
    BY DEF Tale
  <2> HIDE DEF h
  <2>2. Told' = Told \cup {Tale(h)}
    BY <1>1 DEF Told
  <2> QED BY <2>1, <2>2
<1>4. Contract!Tell(k, outcome, fraud)
  BY <1>1, <1>2, <1>3 DEF Contract!Tell, Contract!account
<1> HIDE DEF outcome
<1> QED BY <1>2, <1>4 DEF Contract!Advance

LEMMA KycStepMaps ==
  KycInv /\ Origins /\ [Next]_vars => [Contract!Advance]_(Contract!verification)
<1> SUFFICES ASSUME KycInv, Origins, [Next]_vars
             PROVE  [Contract!Advance]_(Contract!verification)
  OBVIOUS
<1>1. CASE UNCHANGED vars
  BY <1>1, KycStutters DEF vars
<1>2. ASSUME NEW s \in Slots, Arrive(s) PROVE [Contract!Advance]_(Contract!verification)
  <2>1. ASSUME NEW u \in Users, RequestSession(s, u)
        PROVE  [Contract!Advance]_(Contract!verification)
    BY <2>1, KycStutters DEF RequestSession
  <2> QED BY <1>2, <2>1, ReceiveMaps DEF Arrive
<1>3. ASSUME NEW s \in Slots, Handle(s) PROVE [Contract!Advance]_(Contract!verification)
  <2>1. ASSUME \/ SessionRead(s) \/ HookCount(s) \/ HookAsk(s)
               \/ HookNotify(s) \/ HandlerError(s)
        PROVE  [Contract!Advance]_(Contract!verification)
    BY <2>1, KycStutters DEF SessionRead, HookCount, HookAsk, HookNotify, HandlerError
  <2> QED BY <1>3, <2>1, SaveMaps, PostMaps, ApproveMaps, BlockMaps, DeclineMaps,
             SyncMaps, DocumentMaps DEF Handle
<1>4. ASSUME NEW u \in Users, Administer(u) \/ confirmDeleteAccount(u)
      PROVE  [Contract!Advance]_(Contract!verification)
  BY <1>4, ColumnsMap
<1>5. ASSUME NEW k \in Sessions, NEW status \in Verdicts, NEW fraud \in BOOLEAN,
             DiditDecides(k, status, fraud)
      PROVE  [Contract!Advance]_(Contract!verification)
  BY <1>5, DecideMaps
<1> QED BY <1>1, <1>2, <1>3, <1>4, <1>5 DEF Next

LEMMA KycStartMaps == Init => Contract!Begin
  BY DEF Init, Contract!Begin, Told

\* The statements of concurrent webhooks and requests, late, repeated, interleaved or
\* broken off, add up to atomic verdicts on the session an account has
\* (kyc.service.ts, handleDiditWebhook and createDiditSession).
THEOREM KycImplementsVerification == Spec => ImplementsVerification
<1>1. Spec => []KycInv /\ []Origins
  BY Invariance, OriginsInvariance
<1>2. Spec => Contract!Begin
  BY KycStartMaps DEF Spec
<1>3. []KycInv /\ []Origins /\ [][Next]_vars => [][Contract!Advance]_(Contract!verification)
  BY KycStepMaps, PTL
<1> QED BY <1>1, <1>2, <1>3, PTL DEF Spec, ImplementsVerification, Contract!Verified

=============================================================================
