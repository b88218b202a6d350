----------------------------- MODULE Registration -----------------------------
(***************************************************************************)
(* Sign-up: the first half of auth.service.ts.                             *)
(***************************************************************************)
EXTENDS AccountState

\* A request about mail e that remembers little else.
About(s, e, c, p, found) ==
    [step |-> s, email |-> e, id |-> 0, code |-> c, password |-> p, flag |-> found]

-----------------------------------------------------------------------------
(* tempRegister: refused while the mail has a temporary row or an account. *)

TempFind(h, e) ==
    /\ temp[e] = NoRow
    /\ ~Registered(e)
    /\ \E c \in Codes : Generate(c) /\ Ask(h, About("tempCreate", e, c, "random", FALSE))
    /\ UNCHANGED <<tables, mailed, ghosts>>

\* The row is created and the code mailed side by side: each may fail while
\* the other is done, and the row is refused when there is one by now.
TempCreate(h) ==
    /\ At(h, "tempCreate")
    /\ \E created, sent \in BOOLEAN :
          /\ created => temp[req[h].email] = NoRow
          /\ temp' = IF created THEN [temp EXCEPT ![req[h].email] = req[h].code] ELSE temp
          /\ mailed' = IF sent THEN mailed \cup {req[h].code} ELSE mailed
    /\ Answer(h)
    /\ UNCHANGED <<rows, made, codes, asked, ghosts>>

-----------------------------------------------------------------------------
(* tempRegisterMobile: a new code replaces the one of an earlier attempt. *)

MobileFind(h, e) ==
    /\ ~Registered(e)
    /\ \E c \in Codes :
          /\ Generate(c)
          /\ Ask(h, About("mobileSave", e, c, "random", temp[e] # NoRow))
    /\ UNCHANGED <<tables, mailed, ghosts>>

MobileSaves(h) == req[h].flag <=> temp[req[h].email] # NoRow
MobileSave(h) ==
    /\ At(h, "mobileSave")
    /\ MobileSaves(h)
    /\ temp' = [temp EXCEPT ![req[h].email] = req[h].code]
    /\ Then(h, "tempMail")
    /\ UNCHANGED <<rows, made, mailed, codes, asked, ghosts>>

TempMail(h) ==
    /\ At(h, "tempMail")
    /\ Mail(h)
    /\ Answer(h)
    /\ UNCHANGED <<tables, codes, asked, ghosts>>

-----------------------------------------------------------------------------
(* isValidTokenTempUser finds the row by its code, verifyOtpMobile by its  *)
(* mail and compares; both then clear the code of that mail's row.         *)

VerifyFind(h, c) ==
    /\ \E e \in Emails :
          /\ temp[e] = c
          /\ Ask(h, About("verifySave", e, c, "random", FALSE))
    /\ UNCHANGED <<tables, mailed, codes, ghosts>>

\* Mutant: the temporary row is removed with its code.
VerifySaveRemoves(h) ==
    /\ At(h, "verifySave")
    /\ temp[req[h].email] # NoRow
    /\ temp' = [temp EXCEPT ![req[h].email] = NoRow]
    /\ entered' = entered \cup {req[h].email}
    /\ Answer(h)
    /\ UNCHANGED <<rows, made, mailed, codes, asked, stranded, marks, local, spent>>

VerifySave(h) ==
    /\ At(h, "verifySave")
    /\ temp[req[h].email] # NoRow
    /\ temp' = [temp EXCEPT ![req[h].email] = Used]
    /\ entered' = entered \cup {req[h].email}
    /\ Answer(h)
    /\ UNCHANGED <<rows, made, mailed, codes, asked, stranded, marks, local, spent>>

-----------------------------------------------------------------------------
(* register: the temporary row goes first, the account comes after it. *)

RegisterFind(h, e, p) ==
    /\ temp[e] # NoRow
    /\ Ask(h, About("registerDelete", e, 0, p, FALSE))
    /\ UNCHANGED <<tables, mailed, codes, ghosts>>

RegisterDelete(h) ==
    /\ At(h, "registerDelete")
    /\ temp[req[h].email] # NoRow
    /\ temp' = [temp EXCEPT ![req[h].email] = NoRow]
    /\ Then(h, "registerCreate")
    /\ UNCHANGED <<rows, made, mailed, codes, asked, ghosts>>

\* Mutant: nothing keeps the mail unique.
RegisterCreateTwice(h) ==
    /\ At(h, "registerCreate")
    /\ Insert(req[h].email, req[h].password, "client", FALSE, TRUE, "own")
    /\ Answer(h)
    /\ UNCHANGED <<temp, mailed, codes, asked, stranded, spent>>

\* The account with its information and notification settings, in one insert.
RegisterCreate(h) ==
    /\ At(h, "registerCreate")
    /\ ~Registered(req[h].email)
    /\ Insert(req[h].email, req[h].password, "client", FALSE, TRUE, "own")
    /\ Answer(h)
    /\ UNCHANGED <<temp, mailed, codes, asked, stranded, spent>>

-----------------------------------------------------------------------------
(* syncGoogleUser *)

\* Mutant: whoever has an account is signed in, whatever its provider.
GoogleFindAny(h, e) ==
    /\ Ask(h, About("googleTransaction", e, 0, "random", FALSE))
    /\ UNCHANGED <<tables, mailed, codes, ghosts>>

\* An account that was not made with Google is turned away.
GoogleFind(h, e) ==
    /\ \A i \in IdsOf(e) : rows[i].google
    /\ Ask(h, About("googleTransaction", e, 0, "random", FALSE))
    /\ UNCHANGED <<tables, mailed, codes, ghosts>>

\* The transaction looks again: an account that is there by now is taken as it
\* is, and gets the provider if it has none; otherwise one is created.
GoogleTransaction(h) ==
    /\ At(h, "googleTransaction")
    /\ LET e == req[h].email
       IN  IF Registered(e)
           THEN /\ LET i == CHOOSE i \in IdsOf(e) : TRUE
                   IN  IF rows[i].google
                       THEN Answer(h)
                       ELSE req' = [req EXCEPT ![h] =
                                [step |-> "googleProvider", email |-> e, id |-> i,
                                 code |-> 0, password |-> "random", flag |-> FALSE]]
                /\ UNCHANGED <<rows, made, entered, marks, local>>
           ELSE /\ Insert(e, "random", "client", TRUE, FALSE, "own")
                /\ Answer(h)
    /\ UNCHANGED <<temp, mailed, codes, asked, stranded, spent>>

GoogleProvider(h) ==
    /\ At(h, "googleProvider")
    /\ req[h].id \in DOMAIN rows
    /\ Write(req[h].id, [rows[req[h].id] EXCEPT !.google = TRUE])
    /\ Answer(h)
    /\ UNCHANGED <<temp, made, mailed, codes, asked, ghosts>>

-----------------------------------------------------------------------------
RegistrationNext(h) ==
    \/ \E e \in Emails : \/ TempFind(h, e) \/ MobileFind(h, e) \/ GoogleFind(h, e)
                         \/ \E p \in Chosen : RegisterFind(h, e, p)
    \/ \E c \in mailed : VerifyFind(h, c)
    \/ TempCreate(h)
    \/ MobileSave(h) \/ Refused(h, "mobileSave", MobileSaves(h))
    \/ TempMail(h)
    \/ VerifySave(h)
    \/ Refused(h, "verifySave", temp[req[h].email] # NoRow)
    \/ RegisterDelete(h)
    \/ Refused(h, "registerDelete", temp[req[h].email] # NoRow)
    \/ RegisterCreate(h)
    \/ GoogleTransaction(h) \/ GoogleProvider(h)
    \/ Refused(h, "googleProvider", req[h].id \in DOMAIN rows)

=============================================================================
