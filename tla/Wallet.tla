------------------------------- MODULE Wallet -------------------------------
(***************************************************************************)
(* Where the money of an order goes: the bank accounts of a client         *)
(* (BankAccount), the recipients all clients share (Recipient), their      *)
(* payment details (PaymentDetail), and the part of an order that finds or *)
(* makes the recipient of its ticket.  A request is a sequence of awaited  *)
(* statements; between two of them the statements of others run.  The      *)
(* statements of create in ticket.service.ts run in a transaction: what it *)
(* reads may be written by others before it commits, what it writes is     *)
(* seen when it does.                                                      *)
(***************************************************************************)
EXTENDS Integers, FiniteSets

CONSTANTS
    Users,        \* clients
    Insts,        \* financial institutions
    Persons,      \* documents of third parties
    Numbers,      \* account numbers of third parties
    Keep,         \* a field the request leaves alone
    Handlers,     \* requests that may be in flight at once
    Limit,        \* accounts a client may have (10 in the code)
    MaxRequests   \* bound: requests ever made

ASSUME KeepAssumption == Keep \notin Insts \cup Users \cup Persons \cup BOOLEAN
ASSUME WalletAssumption == Limit \in Nat /\ MaxRequests \in Nat

VARIABLES
    account,     \* BankAccount: identifier -> row
    recipient,   \* Recipient: identifier -> row
    detail,      \* PaymentDetail: identifier -> row
    tickets,     \* what the tickets refer to
    req,         \* the request each handler is working on
    asked,       \* requests made so far; also what the next row is numbered
    stale,       \* ghost: handlers whose reads were written to since
    late,        \* ghost: accounts a client got after another of its own was added
    edited,      \* ghost: recipients whose document or mail a client changed
    superseded,  \* ghost: tickets whose destination somebody wrote later
    sealer       \* ghost: the account whose fields a request encrypted, or 0

tables == <<account, recipient, detail, tickets>>
ghosts == <<late, edited, superseded, sealer>>
vars == <<tables, req, asked, stale, ghosts>>

\* A request makes at most one row of each kind and encrypts a field once, so
\* its number names them: encrypting the same text again gives another seal.
Ids == 1..MaxRequests

\* The document and the mail of an account are seals, or 0 when not given.
Account == [owner : Users, inst : Insts, holder : Ids \cup {0}, mail : Ids \cup {0},
            active : BOOLEAN]

\* A recipient made for an own account holds seals, or the identifier of the
\* client who ordered and the mail of the owner; one made for a third party
\* holds plain text.
Idents == ({"seal"} \X Ids) \cup ({"user"} \X Users) \cup ({"doc"} \X Persons)
Mails == ({"seal"} \X Ids) \cup ({"mail"} \X Users) \cup ({"noemail"} \X Persons)
Recipient == [ident : Idents, mail : Mails, active : BOOLEAN]
Detail == [of : Ids, bank : Insts, number : Numbers]

\* A ticket keeps its client and its recipient; the rest is what was asked for.
SelfTicket == [id : Ids, of : Ids, by : Users, account : Ids, ownMail : BOOLEAN]
ThirdTicket == [id : Ids, of : Ids, bank : Insts, number : Numbers]
Third(t) == "bank" \in DOMAIN t

Steps == {"idle", "accountCheck", "accountInsert", "accountSave", "accountDelete",
          "accountToggle", "recipientInsert", "recipientReactivate", "detailSave",
          "selfFind", "selfCommit", "thirdCommit"}

Idle == [step |-> "idle"]
Empty == [i \in {} |-> Idle]

Init ==
    /\ account = Empty /\ recipient = Empty /\ detail = Empty
    /\ tickets = {}
    /\ req = [h \in Handlers |-> Idle]
    /\ asked = 0
    /\ stale = {}
    /\ late = [u \in Users |-> 0]
    /\ edited = {} /\ superseded = {}
    /\ sealer = [i \in Ids |-> 0]

-----------------------------------------------------------------------------
(* Requests. *)

\* A statement read something and the request goes on with it.
Then(h, f) == req' = [req EXCEPT ![h] = f] /\ UNCHANGED stale

\* The next request's number names what it makes.
Ask(h, f) ==
    /\ req[h].step = "idle"
    /\ asked < MaxRequests
    /\ asked' = asked + 1
    /\ Then(h, f)
Number == asked + 1

At(h, s) == req[h].step = s
Answer(h) == req' = [req EXCEPT ![h] = Idle] /\ stale' = stale \ {h}

\* It writes and answers; the handlers in S read what it wrote: they are stale.
AnswerStaling(h, S) ==
    /\ req' = [req EXCEPT ![h] = Idle]
    /\ stale' = (stale \cup S) \ {h}

\* A statement that is refused, or a database that fails, ends the request.
Fail(h) ==
    /\ ~At(h, "idle")
    /\ Answer(h)
    /\ UNCHANGED <<tables, asked, ghosts>>

Given(v, old) == IF v = Keep THEN old ELSE v
Without(f, S) == [i \in DOMAIN f \ S |-> f[i]]
Plus(f, i, r) == [j \in DOMAIN f \cup {i} |-> IF j = i THEN r ELSE f[j]]

-----------------------------------------------------------------------------
(* Own accounts (bank-account.service.ts). *)

AccountsOf(u) == {a \in DOMAIN account : account[a].owner = u}
HasInst(a, i) == account[a].inst = i

\* Mutant: the limit is passed by one.
CreateAccountCountOneMore(h, u, i, holder, mail) ==
    /\ Cardinality(AccountsOf(u)) <= Limit
    /\ Ask(h, [step |-> "accountCheck", id |-> Number, owner |-> u, inst |-> i,
               holder |-> holder, mail |-> mail])
    /\ UNCHANGED <<tables, ghosts>>

CreateAccountCount(h, u, i, holder, mail) ==
    /\ Cardinality(AccountsOf(u)) < Limit
    /\ Ask(h, [step |-> "accountCheck", id |-> Number, owner |-> u, inst |-> i,
               holder |-> holder, mail |-> mail])
    /\ UNCHANGED <<tables, ghosts>>

\* validateBankAccount compares the plain number with encrypted ones: it never
\* finds it, and neither does the unique index, so numbers are left out.
CreateAccountCheck(h) ==
    /\ At(h, "accountCheck")
    /\ \A a \in AccountsOf(req[h].owner) : ~HasInst(a, req[h].inst)
    /\ Then(h, [step |-> "accountInsert", id |-> req[h].id, owner |-> req[h].owner,
                inst |-> req[h].inst, holder |-> req[h].holder, mail |-> req[h].mail])
    /\ UNCHANGED <<tables, asked, ghosts>>

\* An optional field is encrypted when it is given.
Sealed(given, n) == IF given THEN n ELSE 0

\* The institution is unique among the accounts of all clients.
CreateAccountInsert(h) ==
    /\ At(h, "accountInsert")
    /\ \A a \in DOMAIN account : ~HasInst(a, req[h].inst)
    /\ LET f == req[h]  u == f.owner IN
       /\ account' = Plus(account, f.id,
             [owner |-> u, inst |-> f.inst, holder |-> Sealed(f.holder, f.id),
              mail |-> Sealed(f.mail, f.id), active |-> TRUE])
       /\ sealer' = [sealer EXCEPT ![f.id] = f.id]
       /\ late' = IF h \in stale THEN [late EXCEPT ![u] = @ + 1] ELSE late
       /\ AnswerStaling(h, {g \in Handlers :
                               /\ req[g].step \in {"accountCheck", "accountInsert"}
                               /\ req[g].owner = u})
    /\ UNCHANGED <<recipient, detail, tickets, asked, edited, superseded>>

UpdateAccountFind(h, a, d) ==
    /\ a \in DOMAIN account
    /\ Ask(h, [step |-> "accountSave", id |-> Number, account |-> a, data |-> d])
    /\ UNCHANGED <<tables, ghosts>>

\* Whatever is given is encrypted again, the same text included.
UpdateAccountSave(h) ==
    /\ At(h, "accountSave")
    /\ LET a == req[h].account  d == req[h].data  n == req[h].id IN
       /\ a \in DOMAIN account
       /\ \A b \in DOMAIN account \ {a} : ~HasInst(b, d.inst)
       /\ account' = [account EXCEPT ![a] =
             [owner |-> @.owner, inst |-> Given(d.inst, @.inst),
              holder |-> IF d.holder THEN n ELSE @.holder,
              mail |-> IF d.mail THEN n ELSE @.mail,
              active |-> Given(d.active, @.active)]]
       /\ sealer' = [sealer EXCEPT ![n] = a]
    /\ Answer(h)
    /\ UNCHANGED <<recipient, detail, tickets, asked, late, edited, superseded>>

DeleteAccountFind(h, a) ==
    /\ a \in DOMAIN account
    /\ Ask(h, [step |-> "accountDelete", account |-> a])
    /\ UNCHANGED <<tables, ghosts>>

DeleteAccount(h) ==
    /\ At(h, "accountDelete")
    /\ req[h].account \in DOMAIN account
    /\ account' = Without(account, {req[h].account})
    /\ Answer(h)
    /\ UNCHANGED <<recipient, detail, tickets, asked, ghosts>>

ToggleAccountFind(h, a) ==
    /\ a \in DOMAIN account
    /\ Ask(h, [step |-> "accountToggle", account |-> a, active |-> account[a].active])
    /\ UNCHANGED <<tables, ghosts>>

\* It writes the opposite of what it read, not of what there is.
ToggleAccount(h) ==
    /\ At(h, "accountToggle")
    /\ req[h].account \in DOMAIN account
    /\ account' = [account EXCEPT ![req[h].account].active = ~req[h].active]
    /\ Answer(h)
    /\ UNCHANGED <<recipient, detail, tickets, asked, ghosts>>

=============================================================================
