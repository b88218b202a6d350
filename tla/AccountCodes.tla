----------------------------- MODULE AccountCodes -----------------------------
(***************************************************************************)
(* What a mailed code is for once there is an account: changing the        *)
(* password (the second half of auth.service.ts) and deleting the account  *)
(* (the end of user.service.ts).  Both keep their code in User.token.      *)
(***************************************************************************)
EXTENDS AccountState

Of(s, i, c, p, found) ==
    [step |-> s, email |-> rows[i].email, id |-> i, code |-> c, password |-> p,
     flag |-> found]

\* Nothing keeps a request from naming an account by its anonymised address.
Addressed(i) ==
    marks' = IF Deleted(i) THEN marks \cup {<<i, "addressed">>} ELSE marks

-----------------------------------------------------------------------------
(* sendEmailchangePassword, sendForgotPasswordOtpMobile and                *)
(* requestChangePasswordOtp: the account is found by its mail, and updated *)
(* by its mail, with a code that is mailed afterwards.                     *)

CodeFind(h, i) ==
    /\ \E c \in Codes : Generate(c) /\ Ask(h, Of("codeSave", i, c, "random", FALSE))
    /\ Addressed(i)
    /\ UNCHANGED <<tables, mailed, entered, stranded, local, spent>>

CodeSave(h) ==
    /\ At(h, "codeSave")
    /\ \E i \in IdsOf(req[h].email) : Write(i, [rows[i] EXCEPT !.token = req[h].code])
    /\ Then(h, "codeMail")
    /\ UNCHANGED <<temp, made, mailed, codes, asked, ghosts>>

CodeMail(h) ==
    /\ At(h, "codeMail")
    /\ Mail(h)
    /\ Answer(h)
    /\ UNCHANGED <<tables, codes, asked, ghosts>>

-----------------------------------------------------------------------------
(* verifyForgotPasswordOtp, verifyChangePasswordOtp and                    *)
(* isValidTokenAuthUser only look at the code.                             *)
(*                                                                         *)
(* updateChangePassword: the account is found by the code, the password is *)
(* hashed, and the account updated by the code, which is cleared.          *)

verifyForgotPasswordOtp(i, c) == c # 0 /\ rows[i].token = c

ChangeFind(h, i, c, p) ==
    /\ verifyForgotPasswordOtp(i, c)
    /\ Ask(h, Of("changeSave", i, c, p, FALSE))
    /\ UNCHANGED <<tables, mailed, codes, ghosts>>

\* Mutant: the account that was found is updated, not the one with the code.
ChangeSaveFound(h) ==
    /\ At(h, "changeSave")
    /\ req[h].id \in DOMAIN rows
    /\ Write(req[h].id, [rows[req[h].id] EXCEPT !.token = 0, !.password = req[h].password])
    /\ spent' = [spent EXCEPT ![req[h].code] = @ + 1]
    /\ Answer(h)
    /\ UNCHANGED <<temp, made, mailed, codes, asked, entered, stranded, marks, local>>

ChangeSave(h) ==
    /\ At(h, "changeSave")
    /\ \E i \in IdsWithToken(req[h].code) :
          Write(i, [rows[i] EXCEPT !.token = 0, !.password = req[h].password])
    /\ spent' = [spent EXCEPT ![req[h].code] = @ + 1]
    /\ Answer(h)
    /\ UNCHANGED <<temp, made, mailed, codes, asked, entered, stranded, marks, local>>

-----------------------------------------------------------------------------
(* updatePasswordByEmail, updatePasswordAuthenticated: the code was looked *)
(* at by an earlier request, and is cleared here whatever it is.           *)

ByEmailFind(h, i, p) ==
    /\ Ask(h, Of("byEmailSave", i, 0, p, FALSE))
    /\ Addressed(i)
    /\ UNCHANGED <<tables, mailed, codes, entered, stranded, local, spent>>

\* Mutant: the account that was found is updated, not the one with the mail.
ByEmailSaveFound(h) ==
    /\ At(h, "byEmailSave")
    /\ req[h].id \in DOMAIN rows
    /\ Write(req[h].id, [rows[req[h].id] EXCEPT !.token = 0, !.password = req[h].password])
    /\ Answer(h)
    /\ UNCHANGED <<temp, made, mailed, codes, asked, ghosts>>

ByEmailSave(h) ==
    /\ At(h, "byEmailSave")
    /\ \E i \in IdsOf(req[h].email) :
          Write(i, [rows[i] EXCEPT !.token = 0, !.password = req[h].password])
    /\ Answer(h)
    /\ UNCHANGED <<temp, made, mailed, codes, asked, ghosts>>

\* resetPassword: an administrator sets the password of somebody who is not a
\* client.
ResetFind(h, i) ==
    /\ rows[i].role # "client"
    /\ Ask(h, Of("resetSave", i, 0, "admin", FALSE))
    /\ UNCHANGED <<tables, mailed, codes, ghosts>>

ResetSave(h) ==
    /\ At(h, "resetSave")
    /\ req[h].id \in DOMAIN rows
    /\ Write(req[h].id, [rows[req[h].id] EXCEPT !.password = "admin"])
    /\ Answer(h)
    /\ UNCHANGED <<temp, made, mailed, codes, asked, ghosts>>

-----------------------------------------------------------------------------
(* requestDeleteAccount, requestDeleteAccountMobile *)

DeleteFind(h, i) ==
    /\ rows[i].active
    /\ \E c \in Codes : Generate(c) /\ Ask(h, Of("deleteSave", i, c, "random", FALSE))
    /\ UNCHANGED <<tables, mailed, ghosts>>

DeleteSave(h) ==
    /\ At(h, "deleteSave")
    /\ req[h].id \in DOMAIN rows
    /\ Write(req[h].id, [rows[req[h].id] EXCEPT !.token = req[h].code])
    /\ marks' = IF Deleted(req[h].id)
                  THEN marks \cup {<<req[h].id, "deletion">>} ELSE marks
    /\ Then(h, "deleteMail")
    /\ UNCHANGED <<temp, made, mailed, codes, asked, entered, stranded, local, spent>>

DeleteMail(h) ==
    /\ At(h, "deleteMail")
    /\ Mail(h)
    /\ Answer(h)
    /\ UNCHANGED <<tables, codes, asked, ghosts>>

\* confirmDeleteAccount: the code is the account's, and the password too unless
\* the account has the Google provider; validateDeleteToken asks the same
\* without the password and changes nothing.
ConfirmFind(h, i, c, p) ==
    /\ rows[i].active
    /\ verifyForgotPasswordOtp(i, c)
    /\ rows[i].google \/ rows[i].password = p
    /\ Ask(h, Of("confirmSave", i, c, "random", FALSE))
    /\ UNCHANGED <<tables, mailed, codes, ghosts>>

\* Everything that tells who the person was goes in one transaction.
ConfirmSave(h) ==
    /\ At(h, "confirmSave")
    /\ req[h].id \in DOMAIN rows
    /\ Write(req[h].id,
             [email |-> Anonymised(req[h].id), password |-> "random", token |-> 0, active |-> FALSE,
              role |-> rows[req[h].id].role, google |-> FALSE, info |-> FALSE,
              name |-> "anonymous", kyc |-> FALSE])
    /\ marks' = marks \ {<<req[h].id, "profile">>}
    /\ Answer(h)
    /\ UNCHANGED <<temp, made, mailed, codes, asked, entered, stranded, local, spent>>

-----------------------------------------------------------------------------
CodesNext(h) ==
    \/ \E i \in DOMAIN rows :
          \/ CodeFind(h, i) \/ ResetFind(h, i) \/ DeleteFind(h, i)
          \/ \E p \in Chosen : ByEmailFind(h, i, p)
          \/ \E c \in mailed, p \in Chosen : ChangeFind(h, i, c, p)
          \/ \E c \in mailed, p \in Chosen \cup {"admin"} : ConfirmFind(h, i, c, p)
    \/ CodeSave(h) \/ Refused(h, "codeSave", Registered(req[h].email))
    \/ CodeMail(h)
    \/ ChangeSave(h) \/ Refused(h, "changeSave", IdsWithToken(req[h].code) # {})
    \/ ByEmailSave(h) \/ Refused(h, "byEmailSave", Registered(req[h].email))
    \/ ResetSave(h) \/ Refused(h, "resetSave", req[h].id \in DOMAIN rows)
    \/ DeleteSave(h) \/ Refused(h, "deleteSave", req[h].id \in DOMAIN rows)
    \/ DeleteMail(h)
    \/ ConfirmSave(h) \/ Refused(h, "confirmSave", req[h].id \in DOMAIN rows)

=============================================================================
