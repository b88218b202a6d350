-------------------------- MODULE WalletProperties --------------------------
(* What the accounts and recipients of orders promise. *)
EXTENDS Recipients

(* The tables hold rows of their types, unique columns are unique, details
   and tickets point to recipients that exist (schema.prisma: recipients are
   never deleted, only their isActive is cleared). *)
WalletCorrect ==
    /\ \A a \in DOMAIN account : a \in Ids /\ account[a] \in Account
    /\ \A a, b \in DOMAIN account : account[a].inst = account[b].inst => a = b
    /\ \A r \in DOMAIN recipient : r \in Ids /\ recipient[r] \in Recipient
    /\ \A r, s \in DOMAIN recipient :
          \/ recipient[r].ident = recipient[s].ident
          \/ recipient[r].mail = recipient[s].mail
          => r = s
    /\ \A d \in DOMAIN detail : detail[d] \in Detail /\ detail[d].of \in DOMAIN recipient
    /\ \A t \in tickets : /\ t \in SelfTicket \cup ThirdTicket
                          /\ t.of \in DOMAIN recipient
    /\ \A h \in Handlers : req[h].step \in Steps

(* A client has at most Limit accounts (createBankAccount): the count is made
   before the insert, so that it has one more for each account it added with
   a request that had counted before another of its own was added. *)
AccountsWithinLimit ==
    \A u \in Users : Cardinality(AccountsOf(u)) <= Limit + late[u]

(* An order to an account that has a mail of its own goes to the holder of that
   account, as the account says or said, or to a client who ordered to it when
   it named no holder, and never to the holder of another account, although
   the recipient is found by document or mail, whichever comes first (create),
   updateBankAccount changes either behind its back, and anybody may order to
   anybody's account.  That client need not be the owner, nor the one who
   orders now: whoever ordered first is paid by the orders of the others.  Not
   so for an account without a mail, which shares the recipients of its
   owner's mail, and for recipients whose document or mail a client changed. *)
OrderedTo(a) == {t.by : t \in {x \in tickets : ~Third(x) /\ x.account = a}}
SelfRecipientIsHolder ==
    \A t \in {x \in tickets : ~Third(x)} :
       t.ownMail /\ t.of \notin edited =>
          \/ \E v \in OrderedTo(t.account) : recipient[t.of].ident = <<"user", v>>
          \/ \E n \in Ids : recipient[t.of].ident = <<"seal", n>> /\ sealer[n] = t.account

(* The account a client asked to send the money to stays among the details of
   the ticket's recipient, which is all the ticket keeps of it, until somebody
   else's order or edit says otherwise for the same person and bank (create
   overwrites the detail of that bank; recipient.service.ts the one it is
   told, or all when a removed recipient comes back), or an order that looked
   at the details before they were written. *)
DestinationKept ==
    \A t \in {x \in tickets : Third(x)} :
       \/ t.id \in superseded
       \/ \E d \in DetailsAt(t.of, t.bank) : detail[d].number = t.number

=============================================================================
