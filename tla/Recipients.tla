----------------------------- MODULE Recipients -----------------------------
(***************************************************************************)
(* The recipients and their payment details, as clients keep them          *)
(* (recipient.service.ts) and as orders find or make them                  *)
(* (ticket.service.ts, create).                                            *)
(***************************************************************************)
EXTENDS Wallet

\* Document and mail are unique columns.
IdentFree(d, r) == \A s \in DOMAIN recipient \ {r} : recipient[s].ident # d
MailFree(m, r) == \A s \in DOMAIN recipient \ {r} : recipient[s].mail # m

DetailsOf(r) == {d \in DOMAIN detail : detail[d].of = r}
DetailsAt(r, b) == {d \in DetailsOf(r) : detail[d].bank = b}

\* The third-party tickets whose destination a write to these details changes.
TicketsTo(r) == {t.id : t \in {x \in tickets : Third(x) /\ x.of = r}}
TicketsAt(r, b) == {t.id : t \in {x \in tickets : Third(x) /\ x.of = r /\ x.bank = b}}

\* Orders that looked at the details of a recipient.
Watching(r) == {g \in Handlers : /\ req[g].step = "thirdCommit"
                                 /\ req[g].found = r}

NoDetail == 0
NoRecipient == 0

-----------------------------------------------------------------------------
(* Recipients of clients. *)

CreateRecipientFind(h, p, m, ds) ==
    /\ ~\E r \in DOMAIN recipient : recipient[r].ident = <<"doc", p>> /\ recipient[r].active
    /\ LET R == {r \in DOMAIN recipient : recipient[r].ident = <<"doc", p>>}
       IN  \E r \in IF R = {} THEN {NoRecipient} ELSE R :
              Ask(h, [step |-> IF R = {} THEN "recipientInsert" ELSE "recipientReactivate",
                      id |-> Number, person |-> p, mail |-> m, details |-> ds, found |-> r])
    /\ UNCHANGED <<tables, ghosts>>

\* The mail it has when none is given.
MailFor(p, m) == IF m = Keep THEN <<"noemail", p>> ELSE <<"mail", m>>

CreateRecipientInsert(h) ==
    /\ At(h, "recipientInsert")
    /\ LET f == req[h]  m == MailFor(f.person, f.mail) IN
       /\ IdentFree(<<"doc", f.person>>, f.id) /\ MailFree(m, f.id)
       /\ recipient' = Plus(recipient, f.id,
             [ident |-> <<"doc", f.person>>, mail |-> m, active |-> TRUE])
       /\ \E b \in Insts, n \in Numbers :
             detail' = IF f.details THEN Plus(detail, f.id, [of |-> f.id, bank |-> b, number |-> n])
                                    ELSE detail
    /\ Answer(h)
    /\ UNCHANGED <<account, tickets, asked, ghosts>>

\* A removed recipient comes back with new details in place of all it had.
Reactivate(h) ==
    /\ At(h, "recipientReactivate")
    /\ LET f == req[h]  r == f.found
           m == IF f.mail = Keep THEN recipient[r].mail ELSE <<"mail", f.mail>>
       IN
       /\ IdentFree(<<"doc", f.person>>, r) /\ MailFree(m, r)
       /\ recipient' = [recipient EXCEPT ![r] =
             [ident |-> <<"doc", f.person>>, mail |-> m, active |-> TRUE]]
       /\ IF f.details
          THEN /\ \E b \in Insts, n \in Numbers :
                     detail' = Plus(Without(detail, DetailsOf(r)), f.id,
                                    [of |-> r, bank |-> b, number |-> n])
               /\ superseded' = superseded \cup TicketsTo(r)
               /\ AnswerStaling(h, Watching(r))
          ELSE Answer(h) /\ UNCHANGED <<detail, superseded>>
    /\ UNCHANGED <<account, tickets, asked, late, edited, sealer>>

\* The personal data are written at once, the detail with the next statement;
\* a further detail would be one more of those.
UpdateRecipientSave(h, r, d, m, change) ==
    /\ req[h].step = "idle" /\ asked < MaxRequests
    /\ r \in DOMAIN recipient
    /\ LET ident == IF d = Keep THEN recipient[r].ident ELSE <<"doc", d>>
           mail == IF m = Keep THEN recipient[r].mail ELSE <<"mail", m>>
       IN
       /\ IdentFree(ident, r) /\ MailFree(mail, r)
       /\ recipient' = [recipient EXCEPT ![r] =
             [ident |-> ident, mail |-> mail, active |-> @.active]]
       /\ edited' = IF d = Keep /\ m = Keep THEN edited ELSE edited \cup {r}
    /\ asked' = asked + 1
    /\ req' = IF change = Keep THEN req
              ELSE [req EXCEPT ![h] = [step |-> "detailSave", id |-> Number, of |-> r,
                                       change |-> change]]
    /\ UNCHANGED <<account, detail, tickets, stale, late, superseded, sealer>>

\* A detail with an identifier is updated, one without is added.
UpdateDetailSave(h) ==
    /\ At(h, "detailSave")
    /\ LET f == req[h]  d == f.change.detail
           row == [of |-> f.of, bank |-> f.change.bank, number |-> f.change.number]
       IN
       /\ d # NoDetail => d \in DOMAIN detail
       /\ detail' = Plus(detail, IF d = NoDetail THEN f.id ELSE d, row)
       /\ superseded' = IF d = NoDetail THEN superseded
                        ELSE superseded \cup TicketsAt(f.of, detail[d].bank)
       /\ AnswerStaling(h, Watching(f.of))
    /\ UNCHANGED <<account, recipient, tickets, asked, late, edited, sealer>>

\* Mutant: the row is deleted.
RemoveRecipientRow(h, r) ==
    /\ req[h].step = "idle" /\ asked < MaxRequests
    /\ asked' = asked + 1
    /\ recipient' = Without(recipient, {r})
    /\ UNCHANGED <<account, detail, tickets, req, stale, ghosts>>

\* Orders go on using a removed recipient, and do not bring it back.
RemoveRecipient(h, r) ==
    /\ req[h].step = "idle" /\ asked < MaxRequests
    /\ asked' = asked + 1
    /\ r \in DOMAIN recipient
    /\ recipient' = [recipient EXCEPT ![r].active = FALSE]
    /\ UNCHANGED <<account, detail, tickets, req, stale, ghosts>>

-----------------------------------------------------------------------------
(* Orders to an account of the table. *)

\* Any client may name any account.
OrderSelf(h, u, a) ==
    /\ a \in DOMAIN account
    /\ Ask(h, [step |-> "selfFind", id |-> Number, by |-> u, account |-> a,
               row |-> account[a]])
    /\ UNCHANGED <<tables, ghosts>>

\* Mutant: the mail of the owner stands for every account.
SelfMailOfUser(row) == <<"mail", row.owner>>

\* What stands for the holder is what the account keeps encrypted, or the
\* client who orders; what stands for the mail, or the mail of the owner.
SelfIdent(row, u) == IF row.holder = 0 THEN <<"user", u>> ELSE <<"seal", row.holder>>
SelfMail(row) == IF row.mail = 0 THEN <<"mail", row.owner>> ELSE <<"seal", row.mail>>

\* The first row with the document or with the mail: no order is asked for.
SelfFind(h) ==
    /\ At(h, "selfFind")
    /\ LET row == req[h].row
           R == {r \in DOMAIN recipient : \/ recipient[r].ident = SelfIdent(row, req[h].by)
                                          \/ recipient[r].mail = SelfMail(row)}
       IN  \E r \in IF R = {} THEN {NoRecipient} ELSE R :
              Then(h, [step |-> "selfCommit", id |-> req[h].id, by |-> req[h].by, row |-> row,
                       account |-> req[h].account, found |-> r])
    /\ UNCHANGED <<tables, asked, ghosts>>

SelfCommit(h) ==
    /\ At(h, "selfCommit")
    /\ LET f == req[h]  new == f.found = NoRecipient
           r == IF new THEN f.id ELSE f.found
           ident == SelfIdent(f.row, f.by)
       IN
       /\ new => IdentFree(ident, r) /\ MailFree(SelfMail(f.row), r)
       /\ recipient' = IF new THEN Plus(recipient, r, [ident |-> ident,
                                                       mail |-> SelfMail(f.row),
                                                       active |-> TRUE])
                       ELSE recipient
       /\ tickets' = tickets \cup {[id |-> f.id, of |-> r, by |-> f.by,
                                    account |-> f.account, ownMail |-> f.row.mail # 0]}
    /\ Answer(h)
    /\ UNCHANGED <<account, detail, asked, ghosts>>

-----------------------------------------------------------------------------
(* Orders to a third party. *)

\* Mutant: any detail of the recipient is taken for that of the bank.
DetailForAny(r, b) ==
    IF DetailsOf(r) = {} THEN {NoDetail} ELSE DetailsOf(r)

DetailFor(r, b) ==
    IF DetailsAt(r, b) = {} THEN {NoDetail} ELSE DetailsAt(r, b)

\* A recipient is found by its document whoever made it, removed or not.
\* Without a document it is the first of the table, and none can be made.
OrderThird(h, p, m, b, n) ==
    /\ LET R == {r \in DOMAIN recipient : p # Keep => recipient[r].ident = <<"doc", p>>} IN
       /\ p = Keep => R # {}
       /\ \E r \in IF R = {} THEN {NoRecipient} ELSE R :
          \E d \in DetailFor(r, b) :
          Ask(h, [step |-> "thirdCommit", id |-> Number, person |-> p, mail |-> m,
                  bank |-> b, number |-> n, found |-> r, detail |-> d])
    /\ UNCHANGED <<tables, ghosts>>

\* The detail of the bank gets the account of this order: orders before it
\* that go to the same recipient and bank are sent there as well.
ThirdCommit(h) ==
    /\ At(h, "thirdCommit")
    /\ LET f == req[h]  new == f.found = NoRecipient
           r == IF new THEN f.id ELSE f.found
           d == IF f.detail = NoDetail THEN f.id ELSE f.detail
           m == MailFor(f.person, f.mail)
       IN
       /\ new => IdentFree(<<"doc", f.person>>, r) /\ MailFree(m, r)
       /\ f.detail # NoDetail => d \in DOMAIN detail
       /\ recipient' = IF new THEN Plus(recipient, r, [ident |-> <<"doc", f.person>>,
                                                       mail |-> m, active |-> TRUE])
                       ELSE recipient
       /\ detail' = Plus(detail, d, [of |-> r, bank |-> f.bank, number |-> f.number])
       /\ tickets' = tickets \cup {[id |-> f.id, of |-> r, bank |-> f.bank,
                                    number |-> f.number]}
       /\ superseded' = superseded \cup (IF h \in stale THEN TicketsTo(r) ELSE TicketsAt(r, f.bank))
       /\ AnswerStaling(h, Watching(r))
    /\ UNCHANGED <<account, asked, late, edited, sealer>>

-----------------------------------------------------------------------------
Statement(h) ==
    \/ CreateAccountCheck(h) \/ CreateAccountInsert(h) \/ UpdateAccountSave(h)
    \/ DeleteAccount(h) \/ ToggleAccount(h)
    \/ CreateRecipientInsert(h) \/ Reactivate(h) \/ UpdateDetailSave(h)
    \/ SelfFind(h) \/ SelfCommit(h) \/ ThirdCommit(h)

\* Updates give one field at a time, which is enough.
Nothing == [inst |-> Keep, holder |-> FALSE, mail |-> FALSE, active |-> Keep]
AccountChanges ==
    {[Nothing EXCEPT !.inst = i] : i \in Insts} \cup
    {[Nothing EXCEPT !.holder = TRUE], [Nothing EXCEPT !.mail = TRUE]} \cup
    {[Nothing EXCEPT !.active = b] : b \in BOOLEAN}
DetailChanges(r) == [detail : DetailsOf(r) \cup {NoDetail}, bank : Insts, number : Numbers]

AccountRequest(h) ==
    \/ \E u \in Users, i \in Insts, holder, mail \in BOOLEAN :
          CreateAccountCount(h, u, i, holder, mail)
    \/ \E a \in DOMAIN account :
          \/ \E d \in AccountChanges : UpdateAccountFind(h, a, d)
          \/ DeleteAccountFind(h, a) \/ ToggleAccountFind(h, a)
          \/ \E u \in Users : OrderSelf(h, u, a)

RecipientRequest(h) ==
    \/ \E p \in Persons, m \in Users \cup {Keep} :
          \/ \E ds \in BOOLEAN : CreateRecipientFind(h, p, m, ds)
          \/ \E b \in Insts, n \in Numbers : OrderThird(h, p, m, b, n)
    \/ \E b \in Insts, n \in Numbers : OrderThird(h, Keep, Keep, b, n)
    \/ \E r \in DOMAIN recipient :
          \/ \E d \in Persons : UpdateRecipientSave(h, r, d, Keep, Keep)
          \/ \E m \in Users : UpdateRecipientSave(h, r, Keep, m, Keep)
          \/ \E c \in DetailChanges(r) : UpdateRecipientSave(h, r, Keep, Keep, c)
          \/ RemoveRecipient(h, r)

Next == \E h \in Handlers : AccountRequest(h) \/ RecipientRequest(h) \/ Statement(h) \/ Fail(h)

Spec == Init /\ [][Next]_vars

=============================================================================
