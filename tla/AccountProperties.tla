--------------------------- MODULE AccountProperties ---------------------------
(***************************************************************************)
(* What sign-up, codes and profiles have to keep true of an account.       *)
(***************************************************************************)
EXTENDS Accounts

\* Every table and request has its shape, and the unique columns are unique:
\* no two accounts share a mail or a code.
TablesCorrect ==
    /\ temp \in [Emails -> Codes \cup {NoRow, Used}]
    /\ made \in 0..MaxUsers /\ codes \in 0..MaxCodes /\ asked \in 0..MaxRequests
    /\ DOMAIN rows \subseteq 1..made
    /\ \A i \in DOMAIN rows : rows[i] \in Row
    /\ \A i, j \in DOMAIN rows :
          i # j => /\ rows[i].email # rows[j].email
                   /\ rows[i].token = rows[j].token => rows[i].token = 0
    /\ req \in [Handlers -> Frame]
    /\ mailed \subseteq 1..codes
    /\ marks \subseteq Ids \X Marks /\ local \subseteq Ids /\ copying \subseteq Ids
    /\ spent \in [Codes -> Nat]

\* A person who entered the code of a mail can register with it: the temporary
\* row stays until an account takes its place, unless a registration failed
\* between removing the one and creating the other (register, tempRegister and
\* its mobile form, verifyOtpMobile).
EnteredCanRegister ==
    \A e \in entered \ stranded :
        \/ temp[e] # NoRow
        \/ \E h \in Handlers : At(h, "registerCreate") /\ req[h].email = e

\* An account made with a password does not become a Google account, unless it
\* was made while somebody was signing its mail in with Google
\* (syncGoogleUser looks twice, and believes what it sees second).
GoogleStaysApart ==
    \A i \in DOMAIN rows : rows[i].google /\ <<i, "google">> \notin marks => i \notin local

\* A code changes a password once, however many requests carry it at once
\* (updateChangePassword finds and updates by the code).
CodeUsedOnce == \A c \in Codes : spent[c] <= 1

\* Whatever was under way when an account was anonymised gets nothing through: a
\* code asked for, a change of password by code or by mail that had found the
\* account before does not find it again, and its password stays random.  Only a
\* deletion stored on the anonymised row, whose code then counts, and a request
\* that names the anonymised address, to which the by-mail paths are open, can
\* give it a password that somebody chose (confirmDeleteAccount,
\* updateChangePassword, updatePasswordByEmail).
DeletedLockedOut ==
    \A i \in DOMAIN rows :
        Deleted(i) /\ <<i, "deletion">> \notin marks /\ <<i, "addressed">> \notin marks
           => rows[i].password \notin Chosen

\* Once the document's name was copied to an approved account, its name is that
\* one or one an administrator gave it, for as long as the account is approved,
\* unless the approval came while the person was saving the profile
\* (updateOwnProfile reads the status before it writes the name;
\* syncUserDataFromKyc writes the name after the status, or never).
ApprovedIdentity ==
    \A i \in DOMAIN rows :
        rows[i].kyc /\ <<i, "uncopied">> \notin marks /\ <<i, "profile">> \notin marks
           => rows[i].name \in {"kyc", "admin"}

=============================================================================
