----------------------------- MODULE AccountState -----------------------------
(***************************************************************************)
(* The tables behind sign-up, passwords and profiles (UserTemp and User),  *)
(* and the requests under way on them.  Every request is a sequence of     *)
(* awaited statements; between two of them the statements of other         *)
(* requests run, and any of them may fail.                                 *)
(***************************************************************************)
EXTENDS Integers

CONSTANTS
    Emails,       \* the mail addresses of people
    Handlers,     \* requests that may be in flight at once
    MaxUsers,     \* bound: user rows ever created
    MaxCodes,     \* bound: codes ever generated
    MaxRequests   \* bound: requests ever made, and statements of the KYC service

ASSUME EmailsAssumption == \A i \in 0..MaxUsers : i \notin Emails
ASSUME BoundsAssumption == MaxUsers \in Nat /\ MaxCodes \in Nat /\ MaxRequests \in Nat

VARIABLES
    temp,      \* UserTemp: mail -> NoRow, Used, or the code of the row
    rows,      \* User: identifier -> row
    req,       \* the request each handler is working on
    mailed,    \* the codes that reached somebody's mail box
    made,      \* user rows created so far
    codes,     \* codes generated so far
    asked,     \* requests made and statements of the KYC service run so far
    entered,   \* ghost: mails that entered their code and have no account yet
    stranded,  \* ghost: mails whose registration stopped half way
    marks,     \* ghost: accounts with what happened to them that a promise excepts
    local,     \* ghost: accounts that were made with a password
    spent,     \* ghost: how many passwords each code changed
    copying    \* accounts whose document's name a webhook is about to copy

tables == <<temp, rows, made>>
ghosts == <<entered, stranded, marks, local, spent>>
vars == <<tables, req, mailed, codes, asked, ghosts, copying>>

NoRow == -1   \* the mail has no temporary row
Used == 0     \* the row's token was cleared
Codes == 1..MaxCodes
Ids == 1..MaxUsers

\* The address an anonymised row gets is made from its identifier, which stands
\* for it here; it is nobody's mail, but an address like any other to a request.
Anonymised(i) == i
NoMail == 0
Addresses == Emails \cup {Anonymised(i) : i \in Ids}

\* What a mark says: the account was made during a Google sign-in of its mail;
\* it was approved while its profile was being saved, or the name of its
\* document was not copied since it was approved; it was anonymised, and then
\* stored a code to delete it, or was named by its anonymised address.
Marks == {"google", "profile", "uncopied", "deletion", "addressed"}

\* Passwords by who knows them: one that somebody chose, one an administrator
\* set, and the hash of a random string.
Chosen == {"chosen"}
Passwords == Chosen \cup {"admin", "random"}

\* token is 0 where the column is null; google says that the account has that
\* provider, info that it has an InformationUser row, name whose word it is.
Row == [email : Addresses, password : Passwords, token : Codes \cup {0},
        active : BOOLEAN, role : {"client", "staff"}, google : BOOLEAN,
        info : BOOLEAN, name : {"own", "admin", "kyc", "anonymous"}, kyc : BOOLEAN]

Steps == {"idle", "tempCreate", "mobileSave", "tempMail", "verifySave",
          "registerDelete", "registerCreate", "googleTransaction", "googleProvider",
          "codeSave", "codeMail", "changeSave", "byEmailSave", "resetSave",
          "deleteSave", "deleteMail", "confirmSave", "removeSave", "profileSave",
          "adminCreate", "adminSave", "roleSave", "activeSave"}

\* What a request remembers; flag is what its first statement found.
Frame == [step : Steps, email : Addresses \cup {NoMail}, id : Ids \cup {0},
          code : Codes \cup {0}, password : Passwords, flag : BOOLEAN]

Idle == [step |-> "idle", email |-> NoMail, id |-> 0, code |-> 0,
         password |-> "random", flag |-> FALSE]

Init ==
    /\ temp = [e \in Emails |-> NoRow]
    /\ rows = [i \in {} |-> Idle]
    /\ req = [h \in Handlers |-> Idle]
    /\ mailed = {}
    /\ made = 0 /\ codes = 0 /\ asked = 0
    /\ entered = {} /\ stranded = {} /\ marks = {} /\ local = {}
    /\ spent = [c \in Codes |-> 0] /\ copying = {}

-----------------------------------------------------------------------------
(* Requests. *)

\* A request starts with what its first statement read.
Ask(h, f) ==
    /\ req[h].step = "idle"
    /\ asked < MaxRequests
    /\ asked' = asked + 1
    /\ req' = [req EXCEPT ![h] = f]

At(h, s) == req[h].step = s

\* It goes on with its next statement, or answers.
Then(h, s) ==
    req' = [req EXCEPT ![h] =
               [step |-> s, email |-> req[h].email, id |-> req[h].id,
                code |-> req[h].code, password |-> req[h].password,
                flag |-> req[h].flag]]
Answer(h) == req' = [req EXCEPT ![h] = Idle]

\* A statement's update names a row that is no longer there, or an insert a
\* value that is taken: the request fails at this statement.
Refused(h, s, ok) ==
    /\ At(h, s)
    /\ ~ok
    /\ Answer(h)
    /\ UNCHANGED <<tables, mailed, codes, asked, ghosts>>

\* The database or the mail server fails in the middle of a request.
Fail(h) ==
    /\ ~At(h, "idle")
    /\ Answer(h)
    /\ stranded' = IF At(h, "registerCreate") THEN stranded \cup {req[h].email}
                                              ELSE stranded
    /\ UNCHANGED <<tables, mailed, codes, asked, entered, marks, local, spent>>

-----------------------------------------------------------------------------
(* Rows. *)

Deleted(i) == rows[i].email = Anonymised(i)
IdsOf(e) == {i \in DOMAIN rows : rows[i].email = e}
Registered(e) == IdsOf(e) # {}
IdsWithToken(c) == {i \in DOMAIN rows : rows[i].token = c}

Write(i, r) == rows' = [rows EXCEPT ![i] = r]

\* Everybody who is somewhere in the middle of signing e in with Google.
Syncing(e) == \E h \in Handlers : At(h, "googleTransaction") /\ req[h].email = e

\* user.create: mail and identifier are unique.
Insert(e, password, role, google, info, name) ==
    /\ made < MaxUsers
    /\ made' = made + 1
    /\ rows' = [i \in DOMAIN rows \cup {made + 1} |->
                   IF i = made + 1
                   THEN [email |-> e, password |-> password, token |-> 0,
                         active |-> TRUE, role |-> role, google |-> google,
                         info |-> info, name |-> name, kyc |-> FALSE]
                   ELSE rows[i]]
    /\ entered' = entered \ {e}
    /\ local' = IF google THEN local ELSE local \cup {made + 1}
    /\ marks' = IF ~google /\ Syncing(e) THEN marks \cup {<<made + 1, "google">>}
                                          ELSE marks

\* generateRandomCode, generateOTP: a code nobody has.  One that somebody has
\* is refused as not unique, which is Fail.
Generate(c) == codes < MaxCodes /\ codes' = codes + 1 /\ c = codes + 1

\* The mail server took the code of the request; if it does not, that is Fail.
Mail(h) == mailed' = mailed \cup {req[h].code}

=============================================================================
