------------------------------- MODULE Profiles -------------------------------
(***************************************************************************)
(* The rest of user.service.ts: a person's own profile and what            *)
(* administrators do to accounts.                                          *)
(***************************************************************************)
EXTENDS AccountState

Having(s, i, found) ==
    [step |-> s, email |-> NoMail, id |-> i, code |-> 0, password |-> "random",
     flag |-> found]

\* Most of these updates name the row by its identifier.
Saves(h, s) == At(h, s) /\ req[h].id \in DOMAIN rows

-----------------------------------------------------------------------------
\* Mutant: the identity is taken from the form whatever the KYC status.
ProfileFindUnsafe(h, i) ==
    /\ rows[i].active
    /\ Ask(h, Having("profileSave", i, FALSE))
    /\ UNCHANGED <<tables, mailed, codes, ghosts>>

\* updateOwnProfile: an approved identity is not the person's to change.
ProfileFind(h, i) ==
    /\ rows[i].active
    /\ Ask(h, Having("profileSave", i, rows[i].kyc))
    /\ UNCHANGED <<tables, mailed, codes, ghosts>>

\* The row and its information in one transaction.
ProfileSave(h) ==
    /\ Saves(h, "profileSave")
    /\ LET r == rows[req[h].id]
       IN  Write(req[h].id,
                 [r EXCEPT !.name = IF req[h].flag THEN r.name ELSE "own",
                           !.info = TRUE])
    /\ Answer(h)
    /\ UNCHANGED <<temp, made, mailed, codes, asked, ghosts>>

-----------------------------------------------------------------------------
(* What kyc.service.ts writes to an account, one statement at a time, by   *)
(* whichever webhook or request: module Kyc says when.  An anonymised      *)
(* account keeps its session, and gets no other treatment.                 *)

\* The account is approved: from now on its name should be the document's, but
\* a profile that is being saved may have been read before.
Approved(i) ==
    marks' = IF rows[i].kyc THEN marks
             ELSE marks \cup {<<i, "uncopied">>}
                        \cup {<<i, "profile">> : h \in {k \in Handlers :
                                 At(k, "profileSave") /\ req[k].id = i /\ ~req[k].flag}}

\* handleDiditWebhook stores the status it was sent, first of all.
KycStatus(i) ==
    /\ Write(i, [rows[i] EXCEPT !.kyc = TRUE])
    /\ Approved(i)
    /\ UNCHANGED copying

\* It approves and reactivates, at once or overruling a decline that Didit does
\* not confirm, and may go on to syncUserDataFromKyc.
KycApprove(i) ==
    /\ Write(i, [rows[i] EXCEPT !.kyc = TRUE, !.active = TRUE])
    /\ Approved(i)
    /\ copying' = copying \cup {i}

\* syncUserDataFromKyc writes the document's name; another webhook of the same
\* account may still be about to.
KycCopy(i) ==
    /\ i \in copying
    /\ Write(i, [rows[i] EXCEPT !.name = "kyc"])
    /\ marks' = marks \ {<<i, "uncopied">>}
    /\ copying' \in {copying, copying \ {i}}

\* It writes nothing: no decision or no usable name came, the name read was
\* already the document's, the session was replaced, or a statement failed.
KycStop(i) ==
    /\ i \in copying
    /\ copying' = copying \ {i}
    /\ UNCHANGED <<rows, marks>>

\* Every other status: one that Didit sent, the blocking of the account, a new
\* session, and a reset.
KycWithdraw(i) ==
    /\ \E active \in BOOLEAN :
          Write(i, [rows[i] EXCEPT !.kyc = FALSE, !.active = active])
    /\ UNCHANGED <<marks, copying>>

KycNext ==
    /\ asked < MaxRequests /\ asked' = asked + 1
    /\ \E i \in DOMAIN rows : \/ KycStatus(i) \/ KycApprove(i) \/ KycCopy(i)
                              \/ KycStop(i) \/ KycWithdraw(i)
    /\ UNCHANGED <<temp, made, req, mailed, codes, entered, stranded, local, spent>>

-----------------------------------------------------------------------------
\* createUserAdmin: never a client.
AdminCreateFind(h, e) ==
    /\ ~Registered(e)
    /\ Ask(h, [step |-> "adminCreate", email |-> e, id |-> 0, code |-> 0,
               password |-> "admin", flag |-> FALSE])
    /\ UNCHANGED <<tables, mailed, codes, ghosts>>

AdminCreate(h) ==
    /\ At(h, "adminCreate")
    /\ ~Registered(req[h].email)
    /\ Insert(req[h].email, "admin", "staff", FALSE, FALSE, "admin")
    /\ Answer(h)
    /\ UNCHANGED <<temp, mailed, codes, asked, stranded, spent>>

\* updateUserAdmin: the name, and a role that is not the client's.
AdminFind(h, i, promote) ==
    /\ Ask(h, Having("adminSave", i, promote))
    /\ UNCHANGED <<tables, mailed, codes, ghosts>>

AdminSave(h) ==
    /\ Saves(h, "adminSave")
    /\ LET r == rows[req[h].id]
       IN  Write(req[h].id, [r EXCEPT !.name = "admin",
                                      !.role = IF req[h].flag THEN "staff" ELSE r.role])
    /\ Answer(h)
    /\ UNCHANGED <<temp, made, mailed, codes, asked, ghosts>>

\* changeRole: any role.
RoleFind(h, i, toClient) ==
    /\ Ask(h, Having("roleSave", i, toClient))
    /\ UNCHANGED <<tables, mailed, codes, ghosts>>

RoleSave(h) ==
    /\ Saves(h, "roleSave")
    /\ Write(req[h].id, [rows[req[h].id] EXCEPT
                            !.role = IF req[h].flag THEN "client" ELSE "staff"])
    /\ Answer(h)
    /\ UNCHANGED <<temp, made, mailed, codes, asked, ghosts>>

\* setActive
ActiveFind(h, i, active) ==
    /\ Ask(h, Having("activeSave", i, active))
    /\ UNCHANGED <<tables, mailed, codes, ghosts>>

ActiveSave(h) ==
    /\ Saves(h, "activeSave")
    /\ Write(req[h].id, [rows[req[h].id] EXCEPT !.active = req[h].flag])
    /\ Answer(h)
    /\ UNCHANGED <<temp, made, mailed, codes, asked, ghosts>>

\* delete: the information, settings and providers of a row hold on to it.
RemoveFind(h, i) ==
    /\ Ask(h, Having("removeSave", i, FALSE))
    /\ UNCHANGED <<tables, mailed, codes, ghosts>>

Removable(i) == i \in DOMAIN rows /\ ~rows[i].info /\ ~rows[i].google
RemoveSave(h) ==
    /\ At(h, "removeSave")
    /\ Removable(req[h].id)
    /\ rows' = [i \in DOMAIN rows \ {req[h].id} |-> rows[i]]
    /\ Answer(h)
    /\ UNCHANGED <<temp, made, mailed, codes, asked, ghosts>>

-----------------------------------------------------------------------------
\* login: an active account and its password.
login(e, p) == \E i \in IdsOf(e) : rows[i].active /\ rows[i].password = p

ProfilesNext(h) ==
    \/ \E i \in DOMAIN rows :
          \/ ProfileFind(h, i) \/ RemoveFind(h, i)
          \/ \E b \in BOOLEAN : \/ AdminFind(h, i, b) \/ RoleFind(h, i, b)
                                \/ ActiveFind(h, i, b)
    \/ \E e \in Emails : AdminCreateFind(h, e)
    \/ ProfileSave(h) \/ AdminCreate(h) \/ AdminSave(h) \/ RoleSave(h)
    \/ ActiveSave(h) \/ RemoveSave(h)
    \/ Refused(h, "adminCreate", ~Registered(req[h].email))
    \/ Refused(h, "removeSave", Removable(req[h].id))
    \/ \E s \in {"profileSave", "adminSave", "roleSave", "activeSave"} :
          Refused(h, s, req[h].id \in DOMAIN rows)

=============================================================================
