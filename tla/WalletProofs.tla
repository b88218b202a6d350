---------------------------- MODULE WalletProofs ----------------------------
(***************************************************************************)
(* Proofs about accounts and recipients, for any numbers of clients,       *)
(* institutions and requests in flight.                                    *)
(*                                                                         *)
(* Two things hold the four properties together.  An identifier or a seal  *)
(* a request is going to make is nobody's yet (Names), so that what is new *)
(* never takes the place of what is there.  And the seals lead from        *)
(* recipients back to accounts: the mail a recipient was made with belongs *)
(* to the account whose holder it names, or to which the client it names   *)
(* has ordered (RecipientTable), however often the account was changed or  *)
(* deleted since.                                                          *)
(***************************************************************************)
EXTENDS WalletProperties, FiniteSetTheorems, TLAPS

\* The seals of the row of account a are of that account.
SealedFor(row, a, sl) ==
  /\ row.holder # 0 => sl[row.holder] = a
  /\ row.mail # 0 => sl[row.mail] = a

\* Recipient r is the holder of account a, or a client with a ticket for it.
HolderOf(r, a, tk, sl) ==
  \/ \E t \in tk : ~Third(t) /\ t.account = a /\ r.ident = <<"user", t.by>>
  \/ \E n \in Ids : r.ident = <<"seal", n>> /\ sl[n] = a

AccountTable ==
  /\ \A a \in DOMAIN account : a \in Ids /\ account[a] \in Account /\ SealedFor(account[a], a, sealer)
  /\ \A a, b \in DOMAIN account : account[a].inst = account[b].inst => a = b
  /\ late \in [Users -> Nat]
  /\ sealer \in [Ids -> Ids \cup {0}]

RecipientTable ==
  /\ \A r \in DOMAIN recipient : r \in Ids /\ recipient[r] \in Recipient
  /\ \A r, s \in DOMAIN recipient :
        \/ recipient[r].ident = recipient[s].ident
        \/ recipient[r].mail = recipient[s].mail
        => r = s
  /\ \A r \in DOMAIN recipient \ edited, m \in Ids :
        recipient[r].mail = <<"seal", m>> =>
           /\ sealer[m] # 0
           /\ HolderOf(recipient[r], sealer[m], tickets, sealer)

DetailTable ==
  /\ \A d \in DOMAIN detail : d \in Ids /\ detail[d] \in Detail /\ detail[d].of \in DOMAIN recipient
  /\ \A t \in tickets : t \in SelfTicket \cup ThirdTicket /\ t.of \in DOMAIN recipient

-----------------------------------------------------------------------------
(* Requests in flight. *)

\* Those that may make a row or a seal, under their number.
Makers == Steps \ {"idle", "accountDelete", "accountToggle"}
PersonSteps == {"recipientInsert", "recipientReactivate", "thirdCommit"}
Change == [detail : Ids \cup {0}, bank : Insts, number : Numbers]

Busy(f, n) ==
  /\ f.step \in Steps
  /\ f.step \in Makers => f.id \in 1..n
  /\ f.step \in {"accountCheck", "accountInsert"} => f.owner \in Users /\ f.inst \in Insts
  /\ f.step = "accountSave" => f.data \in AccountChanges
  /\ f.step = "accountToggle" => f.active \in BOOLEAN
  /\ f.step \in PersonSteps => f.mail \in Users \cup {Keep}
  /\ f.step \in PersonSteps =>
       f.person \in Persons \/ (f.step = "thirdCommit" /\ f.person = Keep /\ f.found # 0)
  /\ f.step = "detailSave" => f.change \in Change
  /\ f.step \in {"selfFind", "selfCommit"} =>
       f.row \in Account /\ f.account \in Ids /\ f.by \in Users
  /\ f.step = "thirdCommit" => f.bank \in Insts /\ f.number \in Numbers

\* The detail a request is to write over, if it is still there.
Refers(f) == IF f.step = "detailSave" THEN f.change.detail
             ELSE IF f.step = "thirdCommit" THEN f.detail ELSE 0

\* What a request knows of recipients rec, details det, seals sl, tickets tk and
\* of who is edited (ed); the last line only while it is not stale (st).
Knows(f, st, rec, det, sl, ed, tk) ==
  /\ f.step = "recipientReactivate" =>
       f.found \in DOMAIN rec /\ (f.found \in ed \/ rec[f.found].ident = <<"doc", f.person>>)
  /\ f.step = "detailSave" =>
       f.of \in DOMAIN rec /\ (f.change.detail \in DOMAIN det => det[f.change.detail].of = f.of)
  /\ f.step \in {"selfFind", "selfCommit"} => SealedFor(f.row, f.account, sl)
  /\ f.step = "selfCommit" /\ f.found # 0 =>
       /\ f.found \in DOMAIN rec
       /\ \/ f.found \in ed \/ f.row.mail = 0 \/ rec[f.found].ident = <<"user", f.by>>
          \/ HolderOf(rec[f.found], f.account, tk, sl)
  /\ f.step = "thirdCommit" =>
       /\ f.found # 0 => f.found \in DOMAIN rec
       /\ f.found = 0 => f.detail = 0
       /\ f.detail \in DOMAIN det => det[f.detail].of = f.found
       /\ f.detail \in DOMAIN det /\ ~st => det[f.detail].bank = f.bank

Requests ==
  /\ DOMAIN req = Handlers
  /\ asked \in 0..MaxRequests
  /\ \A h \in Handlers :
        Busy(req[h], asked) /\ Knows(req[h], h \in stale, recipient, detail, sealer, edited, tickets)

\* A request that is to add an account counted fewer than Limit.
Counted ==
  \A h \in Handlers \ stale :
     req[h].step \in {"accountCheck", "accountInsert"} =>
        Cardinality(AccountsOf(req[h].owner)) < Limit

Unused(n) ==
  /\ n \notin DOMAIN account /\ n \notin DOMAIN recipient /\ n \notin DOMAIN detail
  /\ sealer[n] = 0
  /\ \A g \in Handlers : Refers(req[g]) # n

Names ==
  /\ \A n \in Ids : n > asked => Unused(n)
  /\ \A h \in Handlers : req[h].step \in Makers => Unused(req[h].id)
  /\ \A g, h \in Handlers : /\ g # h /\ req[g].step \in Makers /\ req[h].step \in Makers
                            => req[g].id # req[h].id

IInv == /\ AccountTable /\ RecipientTable /\ DetailTable
        /\ Requests /\ Counted /\ Names
        /\ AccountsWithinLimit /\ SelfRecipientIsHolder /\ DestinationKept

-----------------------------------------------------------------------------
(* Fields of rows and frames. *)

LEMMA AccountFields ==
  \A a \in Account : /\ a.owner \in Users /\ a.inst \in Insts /\ a.active \in BOOLEAN
                     /\ a.holder \in Ids \cup {0} /\ a.mail \in Ids \cup {0}
BY DEF Account

LEMMA RecipientFields ==
  \A r \in Recipient : r.ident \in Idents /\ r.mail \in Mails /\ r.active \in BOOLEAN
BY DEF Recipient

LEMMA DetailFields ==
  \A d \in Detail : d.of \in Ids /\ d.bank \in Insts /\ d.number \in Numbers
BY DEF Detail

LEMMA TicketKinds ==
  /\ \A t \in SelfTicket : ~Third(t)
  /\ \A t \in ThirdTicket : Third(t) /\ t.bank \in Insts /\ t.number \in Numbers
BY DEF SelfTicket, ThirdTicket, Third

LEMMA IdsArePositive == Ids \subseteq Nat /\ 0 \notin Ids /\ IsFiniteSet(Ids)
<1>1. IsFiniteSet(Ids)
  BY FS_Interval, WalletAssumption DEF Ids
<1> QED BY <1>1, WalletAssumption DEF Ids

LEMMA IdleIsFine ==
  /\ \A n : Busy(Idle, n)
  /\ \A st, rec, det, sl, ed, tk : Knows(Idle, st, rec, det, sl, ed, tk)
  /\ Refers(Idle) = 0 /\ Idle.step \notin Makers
  /\ Idle.step \notin {"accountCheck", "accountInsert"}
BY DEF Busy, Knows, Idle, Steps, Makers, Refers, PersonSteps

\* Seals are written once.
LEMMA SealsLast ==
  ASSUME IInv, NEW n \in Ids, Unused(n), NEW x \in Ids, sealer' = [sealer EXCEPT ![n] = x]
  PROVE  /\ sealer' \in [Ids -> Ids \cup {0}]
         /\ \A k \in Ids : sealer[k] # 0 => sealer'[k] = sealer[k]
         /\ sealer'[n] = x
         /\ \A k \in Ids : k # n => sealer'[k] = sealer[k]
BY DEF IInv, AccountTable, Unused

-----------------------------------------------------------------------------
(* What the other requests keep when one has written. *)

LEMMA HolderKept ==
  ASSUME NEW a \in Ids, NEW tk, NEW tk2, NEW r, NEW s, NEW sl, NEW sl2, r.ident = s.ident,
         tk \subseteq tk2, \A n \in Ids : sl[n] # 0 => sl2[n] = sl[n],
         HolderOf(r, a, tk, sl)
  PROVE  HolderOf(s, a, tk2, sl2)
<1>1. \A n \in Ids : sl[n] = a => sl[n] # 0
  BY IdsArePositive
<1> QED BY <1>1 DEF HolderOf

\* Recipients changed only as clients may, details replaced in place or new.
RecipientsKept ==
  /\ DOMAIN recipient \subseteq DOMAIN recipient'
  /\ edited \subseteq edited' /\ tickets \subseteq tickets'
  /\ \A r \in DOMAIN recipient : r \in edited' \/ recipient'[r].ident = recipient[r].ident
SealsKept == \A n \in Ids : sealer[n] # 0 => sealer'[n] = sealer[n]
DetailKept(d) ==
  d \in DOMAIN detail' => d \in DOMAIN detail /\ detail'[d].of = detail[d].of

LEMMA KnowsKept ==
  ASSUME IInv, NEW k \in Handlers, RecipientsKept, SealsKept, DetailKept(Refers(req[k])),
         k \in stale => k \in stale',
         req[k].step = "thirdCommit" /\ k \notin stale' /\ req[k].detail \in DOMAIN detail' =>
            detail'[req[k].detail].bank = detail[req[k].detail].bank
  PROVE  Knows(req[k], k \in stale', recipient', detail', sealer', edited', tickets')
<1> DEFINE f == req[k]
<1>1. Knows(f, k \in stale, recipient, detail, sealer, edited, tickets) /\ Busy(f, asked)
  BY DEF IInv, Requests
<1>2. CASE f.step = "recipientReactivate"
  BY <1>1, <1>2 DEF Knows, RecipientsKept
<1>3. CASE f.step = "detailSave"
  BY <1>1, <1>3 DEF Knows, RecipientsKept, DetailKept, Refers
<1>4. CASE f.step \in {"selfFind", "selfCommit"}
  <2>1. /\ f.account \in Ids /\ f.row \in Account /\ f.row.owner \in Users
        /\ f.row.holder \in Ids \cup {0} /\ f.row.mail \in Ids \cup {0}
    BY <1>1, <1>4, AccountFields DEF Busy
  <2>2. f.account # 0
    BY <2>1, IdsArePositive
  <2>3. SealedFor(f.row, f.account, sealer)
    BY <1>1, <1>4 DEF Knows
  <2>4. SealedFor(f.row, f.account, sealer')
    BY <2>1, <2>2, <2>3 DEF SealedFor, SealsKept
  <2>5. ASSUME f.step = "selfCommit", f.found # 0
        PROVE  /\ f.found \in DOMAIN recipient'
               /\ \/ f.found \in edited' \/ f.row.mail = 0
                  \/ recipient'[f.found].ident = <<"user", f.by>>
                  \/ HolderOf(recipient'[f.found], f.account, tickets', sealer')
    <3>1. /\ f.found \in DOMAIN recipient
          /\ \/ f.found \in edited \/ f.row.mail = 0
             \/ recipient[f.found].ident = <<"user", f.by>>
             \/ HolderOf(recipient[f.found], f.account, tickets, sealer)
      BY <1>1, <2>5 DEF Knows
    <3>2. CASE HolderOf(recipient[f.found], f.account, tickets, sealer) /\ f.found \notin edited'
      <4>1. recipient'[f.found].ident = recipient[f.found].ident
        BY <3>1, <3>2 DEF RecipientsKept
      <4>2. HolderOf(recipient'[f.found], f.account, tickets', sealer')
        BY <2>1, <3>2, <4>1, HolderKept DEF SealsKept, RecipientsKept
      <4> QED BY <3>1, <4>2 DEF RecipientsKept
    <3> QED BY <3>1, <3>2 DEF RecipientsKept
  <2> QED BY <1>4, <2>4, <2>5 DEF Knows
<1>5. CASE f.step = "thirdCommit"
  <2>1. /\ f.found # 0 => f.found \in DOMAIN recipient
        /\ f.found = 0 => f.detail = 0
        /\ f.detail \in DOMAIN detail => detail[f.detail].of = f.found
        /\ f.detail \in DOMAIN detail /\ k \notin stale => detail[f.detail].bank = f.bank
    BY <1>1, <1>5 DEF Knows
  <2>2. f.detail \in DOMAIN detail' =>
           f.detail \in DOMAIN detail /\ detail'[f.detail].of = detail[f.detail].of
    BY <1>5 DEF DetailKept, Refers
  <2> QED BY <1>5, <2>1, <2>2 DEF Knows, RecipientsKept
<1> QED BY <1>2, <1>3, <1>4, <1>5 DEF Knows

\* A request that ends may have used its number, and nothing else.
LEMMA NamesKept ==
  ASSUME IInv, NEW h \in Handlers, NEW S,
         S = {} \/ (req[h].step \in Makers /\ S = {req[h].id}),
         req' = [req EXCEPT ![h] = Idle], asked' = asked,
         DOMAIN account' \subseteq DOMAIN account \cup S,
         DOMAIN recipient' \subseteq DOMAIN recipient \cup S,
         DOMAIN detail' \subseteq DOMAIN detail \cup S,
         \A n \in Ids \ S : sealer'[n] = sealer[n]
  PROVE  Names'
<1>1. DOMAIN req' = Handlers /\ \A k \in Handlers : req'[k] = IF k = h THEN Idle ELSE req[k]
  BY DEF IInv, Requests
<1>2. \A n \in Ids \ S : Unused(n) => Unused(n)'
  <2>1. \A n \in Ids \ S : Unused(n) => \A g \in Handlers : Refers(req'[g]) # n
    BY <1>1, IdleIsFine, IdsArePositive DEF Unused
  <2> QED BY <2>1 DEF Unused
<1>3. \A k \in Handlers : req[k].step \in Makers => req[k].id \in Ids /\ req[k].id <= asked
  BY WalletAssumption DEF IInv, Requests, Busy, Ids
<1>4. \A n \in Ids : n > asked' => Unused(n)'
  BY <1>2, <1>3, IdsArePositive DEF IInv, Names, Requests
<1>5. \A k \in Handlers : req'[k].step \in Makers => req'[k] = req[k] /\ req[k].id \in Ids \ S
  BY <1>1, <1>3, IdleIsFine DEF IInv, Names
<1>6. \A k \in Handlers, n \in Ids : req'[k].step \in Makers /\ n = req'[k].id => Unused(n)'
  BY <1>2, <1>5 DEF IInv, Names
<1>7. \A g, k \in Handlers : /\ g # k /\ req'[g].step \in Makers /\ req'[k].step \in Makers
                             => req'[g].id # req'[k].id
  BY <1>1, IdleIsFine DEF IInv, Names
<1> QED BY <1>4, <1>5, <1>6, <1>7 DEF Names, Unused

\* What a write must leave alone for those who are not stale after it.
BankKept(k) ==
  req[k].step = "thirdCommit" /\ k \notin stale' /\ req[k].detail \in DOMAIN detail' =>
     detail'[req[k].detail].bank = detail[req[k].detail].bank

LEMMA AnswerStep ==
  ASSUME IInv, NEW h \in Handlers, NEW S,
         S = {} \/ (req[h].step \in Makers /\ S = {req[h].id}),
         req' = [req EXCEPT ![h] = Idle], asked' = asked, stale \ {h} \subseteq stale',
         DOMAIN account' \subseteq DOMAIN account \cup S,
         DOMAIN recipient' \subseteq DOMAIN recipient \cup S,
         DOMAIN detail' \subseteq DOMAIN detail \cup S,
         \A n \in Ids \ S : sealer'[n] = sealer[n],
         RecipientsKept, SealsKept,
         \A k \in Handlers \ {h} : DetailKept(Refers(req[k])) /\ BankKept(k)
  PROVE  Requests' /\ Names'
<1>1. DOMAIN req' = Handlers /\ \A k \in Handlers : req'[k] = IF k = h THEN Idle ELSE req[k]
  BY DEF IInv, Requests
<1>2. ASSUME NEW k \in Handlers
      PROVE  /\ Busy(req'[k], asked)
             /\ Knows(req'[k], k \in stale', recipient', detail', sealer', edited', tickets')
  <2>1. CASE k = h
    BY <1>1, <2>1, IdleIsFine
  <2>2. CASE k # h
    <3>1. DetailKept(Refers(req[k])) /\ BankKept(k)
      BY <2>2
    <3>2. Knows(req[k], k \in stale', recipient', detail', sealer', edited', tickets')
      BY <2>2, <3>1, KnowsKept DEF BankKept
    <3> QED BY <1>1, <2>2, <3>2 DEF IInv, Requests
  <2> QED BY <2>1, <2>2
<1>3. Requests'
  BY <1>1, <1>2 DEF Requests, IInv
<1>4. Names'
  BY NamesKept
<1> QED BY <1>3, <1>4

LEMMA OneMore ==
  ASSUME NEW S, NEW x, IsFiniteSet(S)
  PROVE  /\ Cardinality(S \cup {x}) \in Nat
         /\ Cardinality(S \cup {x}) <= Cardinality(S) + 1
<1>1. Cardinality(S) \in Nat
  BY FS_CardinalityType
<1>2. Cardinality(S \cup {x}) = IF x \in S THEN Cardinality(S) ELSE Cardinality(S) + 1
  BY FS_AddElement
<1> QED BY <1>1, <1>2

LEMMA CountsKept ==
  ASSUME NEW u, IInv, {a \in DOMAIN account' : account'[a].owner = u} \subseteq AccountsOf(u),
         Cardinality(AccountsOf(u)) \in Nat
  PROVE  /\ Cardinality({a \in DOMAIN account' : account'[a].owner = u}) \in Nat
         /\ Cardinality({a \in DOMAIN account' : account'[a].owner = u})
              <= Cardinality(AccountsOf(u))
<1>1. IsFiniteSet(AccountsOf(u))
  BY IdsArePositive, FS_Subset DEF AccountsOf, IInv, AccountTable
<1> QED BY <1>1, FS_Subset, FS_CardinalityType

LEMMA AccountsAreCounted ==
  ASSUME IInv, NEW u
  PROVE  IsFiniteSet(AccountsOf(u)) /\ Cardinality(AccountsOf(u)) \in Nat
<1>1. IsFiniteSet(AccountsOf(u))
  BY IdsArePositive, FS_Subset DEF AccountsOf, IInv, AccountTable
<1> QED BY <1>1, FS_CardinalityType

\* Nobody not stale has an account more.
LEMMA CountedKept ==
  ASSUME IInv, NEW h \in Handlers, req' = [req EXCEPT ![h] = Idle], stale \ {h} \subseteq stale',
         \A k \in Handlers \ {h} :
            req[k].step \in {"accountCheck", "accountInsert"} /\ k \notin stale' =>
               {a \in DOMAIN account' : account'[a].owner = req[k].owner}
                  \subseteq AccountsOf(req[k].owner)
  PROVE  Counted'
<1>1. DOMAIN req' = Handlers /\ \A k \in Handlers : req'[k] = IF k = h THEN Idle ELSE req[k]
  BY DEF IInv, Requests
<1> SUFFICES ASSUME NEW k \in Handlers, k \notin stale',
                    req'[k].step \in {"accountCheck", "accountInsert"}
             PROVE  Cardinality({a \in DOMAIN account' : account'[a].owner = req'[k].owner}) < Limit
  BY DEF Counted, AccountsOf
<1>2. k # h /\ req'[k] = req[k] /\ k \notin stale
  BY <1>1, IdleIsFine
<1>3. Cardinality(AccountsOf(req[k].owner)) < Limit
  BY <1>2 DEF IInv, Counted
<1> QED BY <1>2, <1>3, CountsKept, AccountsAreCounted, WalletAssumption

-----------------------------------------------------------------------------
(* Requests that start or go on. *)

LEMMA AskStep ==
  ASSUME IInv, NEW h \in Handlers, NEW f, Ask(h, f), UNCHANGED <<tables, ghosts>>,
         Busy(f, asked + 1), f.step \in Makers => f.id = Number,
         Knows(f, h \in stale, recipient, detail, sealer, edited, tickets),
         Refers(f) \in DOMAIN detail \cup {0},
         f.step \in {"accountCheck", "accountInsert"} => Cardinality(AccountsOf(f.owner)) < Limit
  PROVE  IInv'
<1>1. /\ account' = account /\ recipient' = recipient /\ detail' = detail /\ tickets' = tickets
      /\ late' = late /\ edited' = edited /\ superseded' = superseded /\ sealer' = sealer
      /\ stale' = stale /\ asked' = asked + 1 /\ asked \in Nat /\ asked + 1 \in Ids
      /\ asked' \in 0..MaxRequests
  BY WalletAssumption DEF Ask, Then, tables, ghosts, IInv, Requests, Ids
<1>2. DOMAIN req' = Handlers /\ \A k \in Handlers : req'[k] = IF k = h THEN f ELSE req[k]
  BY DEF IInv, Requests, Ask, Then
<1>3. \A k \in Handlers : Busy(req'[k], asked')
  <2>1. \A k \in Handlers : Busy(req[k], asked + 1)
    BY <1>1 DEF IInv, Requests, Busy
  <2> QED BY <1>1, <1>2, <2>1
<1>4. Requests'
  BY <1>1, <1>2, <1>3 DEF Requests, IInv
<1>5. Counted'
  <2> SUFFICES ASSUME NEW k \in Handlers, k \notin stale',
                      req'[k].step \in {"accountCheck", "accountInsert"}
               PROVE  Cardinality({a \in DOMAIN account' : account'[a].owner = req'[k].owner}) < Limit
    BY DEF Counted, AccountsOf
  <2>1. Cardinality(AccountsOf(req'[k].owner)) < Limit
    BY <1>1, <1>2 DEF IInv, Counted
  <2> QED BY <1>1, <2>1 DEF AccountsOf
<1>6. \A n \in Ids : Unused(n) => Unused(n)'
  BY <1>1, <1>2, IdsArePositive DEF Unused
<1>7. Unused(asked + 1)
  BY <1>1, IdsArePositive DEF IInv, Names
<1>8. \A k \in Handlers : req[k].step \in Makers => req[k].id \in Ids /\ req[k].id <= asked
  BY <1>1, WalletAssumption DEF IInv, Requests, Busy, Ids
<1>9. Names'
  <2>1. \A n \in Ids : n > asked' => Unused(n)'
    BY <1>1, <1>6, IdsArePositive DEF IInv, Names
  <2>2. \A k \in Handlers, n \in Ids : req'[k].step \in Makers /\ n = req'[k].id => Unused(n)'
    BY <1>2, <1>6, <1>7, <1>8 DEF IInv, Names, Number
  <2>3. \A g, k \in Handlers : /\ g # k /\ req'[g].step \in Makers /\ req'[k].step \in Makers
                               => req'[g].id # req'[k].id
    BY <1>1, <1>2, <1>8, IdsArePositive DEF IInv, Names, Number
  <2>4. \A k \in Handlers : req'[k].step \in Makers => req'[k].id \in Ids
    BY <1>1, <1>2, <1>8 DEF Number
  <2> QED BY <2>1, <2>2, <2>3, <2>4 DEF Names, Unused
<1>10. AccountTable' /\ RecipientTable' /\ DetailTable'
  BY <1>1 DEF IInv, AccountTable, RecipientTable, DetailTable
<1>11. AccountsWithinLimit' /\ SelfRecipientIsHolder' /\ DestinationKept'
  BY <1>1 DEF IInv, AccountsWithinLimit, SelfRecipientIsHolder, OrderedTo, DestinationKept, AccountsOf,
              DetailsAt, DetailsOf
<1> QED BY <1>4, <1>5, <1>9, <1>10, <1>11 DEF IInv

LEMMA ThenStep ==
  ASSUME IInv, NEW h \in Handlers, NEW f, Then(h, f), UNCHANGED <<tables, asked, ghosts>>,
         Busy(f, asked), req[h].step \in Makers, f.step \in Makers, f.id = req[h].id,
         Knows(f, h \in stale, recipient, detail, sealer, edited, tickets), Refers(f) = 0,
         f.step \in {"accountCheck", "accountInsert"} /\ h \notin stale =>
            Cardinality(AccountsOf(f.owner)) < Limit
  PROVE  IInv'
<1>1. /\ account' = account /\ recipient' = recipient /\ detail' = detail /\ tickets' = tickets
      /\ late' = late /\ edited' = edited /\ superseded' = superseded /\ sealer' = sealer
      /\ stale' = stale /\ asked' = asked
  BY DEF Then, tables, ghosts
<1>2. DOMAIN req' = Handlers /\ \A k \in Handlers : req'[k] = IF k = h THEN f ELSE req[k]
  BY DEF IInv, Requests, Then
<1>3. Requests'
  BY <1>1, <1>2 DEF Requests, IInv
<1>4. Counted'
  <2> SUFFICES ASSUME NEW k \in Handlers, k \notin stale',
                      req'[k].step \in {"accountCheck", "accountInsert"}
               PROVE  Cardinality({a \in DOMAIN account' : account'[a].owner = req'[k].owner}) < Limit
    BY DEF Counted, AccountsOf
  <2>1. Cardinality(AccountsOf(req'[k].owner)) < Limit
    BY <1>1, <1>2 DEF IInv, Counted
  <2> QED BY <1>1, <2>1 DEF AccountsOf
<1>5. Names'
  <2>1. \A n \in Ids : Unused(n) => Unused(n)'
    BY <1>1, <1>2, IdsArePositive DEF Unused
  <2>2. \A k \in Handlers : req[k].step \in Makers => req[k].id \in Ids
    BY WalletAssumption DEF IInv, Requests, Busy, Ids
  <2>3. \A k \in Handlers, n \in Ids : req'[k].step \in Makers /\ n = req'[k].id => Unused(n)'
    BY <1>2, <2>1, <2>2 DEF IInv, Names
  <2>4. \A n \in Ids : n > asked' => Unused(n)'
    BY <1>1, <2>1 DEF IInv, Names
  <2>5. \A g, k \in Handlers : /\ g # k /\ req'[g].step \in Makers /\ req'[k].step \in Makers
                               => req'[g].id # req'[k].id
    BY <1>2 DEF IInv, Names
  <2>6. \A k \in Handlers : req'[k].step \in Makers => req'[k].id \in Ids
    BY <1>2, <2>2
  <2> QED BY <2>3, <2>4, <2>5, <2>6 DEF Names, Unused
<1>6. AccountTable' /\ RecipientTable' /\ DetailTable'
  BY <1>1 DEF IInv, AccountTable, RecipientTable, DetailTable
<1>7. AccountsWithinLimit' /\ SelfRecipientIsHolder' /\ DestinationKept'
  BY <1>1 DEF IInv, AccountsWithinLimit, SelfRecipientIsHolder, OrderedTo, DestinationKept, AccountsOf,
              DetailsAt, DetailsOf
<1> QED BY <1>3, <1>4, <1>5, <1>6, <1>7 DEF IInv

LEMMA NumberIsNext == ASSUME IInv, asked < MaxRequests PROVE Number \in 1..(asked + 1)
BY DEF Number, IInv, Requests

LEMMA AccountRequestCorrect ==
  ASSUME IInv, NEW h \in Handlers, AccountRequest(h)
  PROVE  IInv'
<1>1. ASSUME NEW u \in Users, NEW i \in Insts, NEW holder \in BOOLEAN, NEW mail \in BOOLEAN,
             CreateAccountCount(h, u, i, holder, mail)
      PROVE  IInv'
  <2> DEFINE f == [step |-> "accountCheck", id |-> Number, owner |-> u, inst |-> i,
                   holder |-> holder, mail |-> mail]
  <2>1. Ask(h, f) /\ UNCHANGED <<tables, ghosts>> /\ Cardinality(AccountsOf(u)) < Limit
    BY <1>1 DEF CreateAccountCount
  <2>2. Busy(f, asked + 1) /\ Refers(f) = 0 /\ f.id = Number
    BY <2>1, NumberIsNext DEF Busy, Steps, PersonSteps, Refers, Ask
  <2>3. Knows(f, h \in stale, recipient, detail, sealer, edited, tickets)
    BY DEF Knows
  <2> QED BY <2>1, <2>2, <2>3, AskStep
<1>2. ASSUME NEW a \in DOMAIN account, NEW d \in AccountChanges, UpdateAccountFind(h, a, d)
      PROVE  IInv'
  <2> DEFINE f == [step |-> "accountSave", id |-> Number, account |-> a, data |-> d]
  <2>1. Ask(h, f) /\ UNCHANGED <<tables, ghosts>>
    BY <1>2 DEF UpdateAccountFind
  <2>2. Busy(f, asked + 1) /\ Refers(f) = 0 /\ f.id = Number
    BY <2>1, NumberIsNext DEF Busy, Steps, PersonSteps, Refers, Ask
  <2>3. Knows(f, h \in stale, recipient, detail, sealer, edited, tickets)
    BY DEF Knows
  <2> QED BY <2>1, <2>2, <2>3, AskStep
<1>3. ASSUME NEW a \in DOMAIN account, DeleteAccountFind(h, a)
      PROVE  IInv'
  <2> DEFINE f == [step |-> "accountDelete", account |-> a]
  <2>1. Ask(h, f) /\ UNCHANGED <<tables, ghosts>>
    BY <1>3 DEF DeleteAccountFind
  <2>2. Busy(f, asked + 1) /\ Refers(f) = 0 /\ f.step \notin Makers
    BY DEF Busy, Steps, PersonSteps, Refers, Makers
  <2>3. Knows(f, h \in stale, recipient, detail, sealer, edited, tickets)
    BY DEF Knows
  <2> QED BY <2>1, <2>2, <2>3, AskStep
<1>4. ASSUME NEW a \in DOMAIN account, ToggleAccountFind(h, a)
      PROVE  IInv'
  <2> DEFINE f == [step |-> "accountToggle", account |-> a, active |-> account[a].active]
  <2>1. Ask(h, f) /\ UNCHANGED <<tables, ghosts>>
    BY <1>4 DEF ToggleAccountFind
  <2>2. account[a].active \in BOOLEAN
    BY AccountFields DEF IInv, AccountTable
  <2>3. Busy(f, asked + 1) /\ Refers(f) = 0 /\ f.step \notin Makers
    BY <2>2 DEF Busy, Steps, PersonSteps, Refers, Makers
  <2>4. Knows(f, h \in stale, recipient, detail, sealer, edited, tickets)
    BY DEF Knows
  <2> QED BY <2>1, <2>3, <2>4, AskStep
<1>5. ASSUME NEW a \in DOMAIN account, NEW u \in Users, OrderSelf(h, u, a)
      PROVE  IInv'
  <2> DEFINE f == [step |-> "selfFind", id |-> Number, by |-> u, account |-> a, row |-> account[a]]
  <2>1. Ask(h, f) /\ UNCHANGED <<tables, ghosts>>
    BY <1>5 DEF OrderSelf
  <2>2. account[a] \in Account /\ a \in Ids /\ SealedFor(account[a], a, sealer)
    BY DEF IInv, AccountTable
  <2>3. Busy(f, asked + 1) /\ Refers(f) = 0 /\ f.id = Number
    BY <2>1, <2>2, NumberIsNext DEF Busy, Steps, PersonSteps, Refers, Ask
  <2>4. Knows(f, h \in stale, recipient, detail, sealer, edited, tickets)
    BY <2>2 DEF Knows
  <2> QED BY <2>1, <2>3, <2>4, AskStep
<1> QED BY <1>1, <1>2, <1>3, <1>4, <1>5 DEF AccountRequest

-----------------------------------------------------------------------------
(* Own accounts. *)

\* A statement that writes accounts and seals only.
LEMMA RecipientsUntouched ==
  ASSUME IInv, UNCHANGED <<recipient, detail, tickets, edited, superseded>>, SealsKept
  PROVE  /\ RecipientTable' /\ DetailTable' /\ SelfRecipientIsHolder' /\ DestinationKept'
         /\ RecipientsKept
         /\ \A k \in Handlers : DetailKept(Refers(req[k])) /\ BankKept(k)
<1>1. \A n \in Ids, a \in Ids : sealer[n] = a => sealer'[n] = sealer[n]
  BY IdsArePositive DEF SealsKept
<1>2. \A n \in Ids : sealer[n] # 0 => sealer[n] \in Ids
  BY DEF IInv, AccountTable
<1>3. RecipientTable'
  <2>1. \A r \in DOMAIN recipient \ edited, m \in Ids :
           recipient[r].mail = <<"seal", m>> =>
              /\ sealer'[m] # 0
              /\ HolderOf(recipient[r], sealer'[m], tickets, sealer')
    BY <1>2, HolderKept DEF IInv, RecipientTable, SealsKept
  <2> QED BY <2>1 DEF IInv, RecipientTable
<1>4. DetailTable' /\ DestinationKept'
  BY DEF IInv, DetailTable, DestinationKept, DetailsAt, DetailsOf
<1>5. SelfRecipientIsHolder'
  <2>1. \A t \in tickets : ~Third(t) => t.account \in Ids
    BY TicketKinds DEF IInv, DetailTable, SelfTicket
  <2> QED BY <1>1, <2>1 DEF IInv, SelfRecipientIsHolder, OrderedTo
<1>6. RecipientsKept /\ \A k \in Handlers : DetailKept(Refers(req[k])) /\ BankKept(k)
  BY DEF RecipientsKept, DetailKept, BankKept
<1> QED BY <1>3, <1>4, <1>5, <1>6

LEMMA FailCorrect ==
  ASSUME IInv, NEW h \in Handlers, Fail(h)
  PROVE  IInv'
<1>1. /\ UNCHANGED <<recipient, detail, tickets, edited, superseded>>
      /\ account' = account /\ late' = late /\ sealer' = sealer
      /\ req' = [req EXCEPT ![h] = Idle] /\ stale' = stale \ {h} /\ asked' = asked
  BY DEF Fail, Answer, tables, ghosts
<1>2. SealsKept
  BY <1>1 DEF SealsKept
<1>3. /\ RecipientTable' /\ DetailTable' /\ SelfRecipientIsHolder' /\ DestinationKept'
      /\ RecipientsKept
      /\ \A k \in Handlers : DetailKept(Refers(req[k])) /\ BankKept(k)
  BY <1>1, <1>2, RecipientsUntouched
<1> DEFINE S == {}
<1>4. /\ DOMAIN account' \subseteq DOMAIN account \cup S
      /\ DOMAIN recipient' \subseteq DOMAIN recipient \cup S
      /\ DOMAIN detail' \subseteq DOMAIN detail \cup S
      /\ \A n \in Ids \ S : sealer'[n] = sealer[n]
  BY <1>1
<1> HIDE DEF S
<1>5. Requests' /\ Names'
  BY <1>1, <1>2, <1>3, <1>4, AnswerStep DEF S
<1>6. Counted'
  BY <1>1, CountedKept DEF AccountsOf
<1>7. AccountTable' /\ AccountsWithinLimit'
  BY <1>1 DEF IInv, AccountTable, AccountsWithinLimit, AccountsOf
<1> QED BY <1>3, <1>5, <1>6, <1>7 DEF IInv

LEMMA CreateAccountCheckCorrect ==
  ASSUME IInv, NEW h \in Handlers, CreateAccountCheck(h)
  PROVE  IInv'
<1> DEFINE f == [step |-> "accountInsert", id |-> req[h].id, owner |-> req[h].owner,
                 inst |-> req[h].inst, holder |-> req[h].holder, mail |-> req[h].mail]
<1>1. Then(h, f) /\ UNCHANGED <<tables, asked, ghosts>> /\ req[h].step = "accountCheck"
  BY DEF CreateAccountCheck, At
<1>2. Busy(req[h], asked) /\ req[h].step \in Makers /\ f.step \in Makers
  BY <1>1 DEF IInv, Requests, Makers, Steps
<1>3. Busy(f, asked) /\ Refers(f) = 0
  BY <1>1, <1>2 DEF Busy, Steps, PersonSteps, Refers
<1>4. Knows(f, h \in stale, recipient, detail, sealer, edited, tickets)
  BY DEF Knows
<1>5. h \notin stale => Cardinality(AccountsOf(f.owner)) < Limit
  BY <1>1 DEF IInv, Counted
<1> QED BY <1>1, <1>2, <1>3, <1>4, <1>5, ThenStep

LEMMA CreateAccountInsertCorrect ==
  ASSUME IInv, NEW h \in Handlers, CreateAccountInsert(h)
  PROVE  IInv'
<1> DEFINE n == req[h].id
           u == req[h].owner
           x == n
           row == [owner |-> u, inst |-> req[h].inst, holder |-> Sealed(req[h].holder, n),
                   mail |-> Sealed(req[h].mail, n), active |-> TRUE]
           readers == {g \in Handlers : /\ req[g].step \in {"accountCheck", "accountInsert"}
                                        /\ req[g].owner = u}
<1>1. /\ UNCHANGED <<recipient, detail, tickets, edited, superseded>>
      /\ account' = Plus(account, n, row) /\ sealer' = [sealer EXCEPT ![n] = x]
      /\ late' = IF h \in stale THEN [late EXCEPT ![u] = @ + 1] ELSE late
      /\ req' = [req EXCEPT ![h] = Idle] /\ stale' = (stale \cup readers) \ {h} /\ asked' = asked
      /\ \A a \in DOMAIN account : account[a].inst # req[h].inst
      /\ req[h].step = "accountInsert"
  BY DEF CreateAccountInsert, AnswerStaling, At, HasInst
<1>2. req[h].step \in Makers /\ Busy(req[h], asked)
  BY <1>1 DEF IInv, Requests, Makers, Steps
<1>3. n \in Ids /\ u \in Users /\ req[h].inst \in Insts /\ x \in Ids
  BY <1>1, <1>2, WalletAssumption DEF Busy, Ids, IInv, Requests
<1>4. Unused(n)
  BY <1>2 DEF IInv, Names
<1>5. /\ sealer' \in [Ids -> Ids \cup {0}] /\ SealsKept /\ sealer'[n] = x
      /\ \A k \in Ids \ {n} : sealer'[k] = sealer[k]
  BY <1>1, <1>3, <1>4, SealsLast DEF SealsKept
<1>6. /\ DOMAIN account' = DOMAIN account \cup {n} /\ account'[n] = row
      /\ \A a \in DOMAIN account : account'[a] = account[a]
  BY <1>1, <1>4 DEF Plus, Unused
<1>7. row \in Account /\ row.owner = u /\ row.inst = req[h].inst /\ SealedFor(row, n, sealer')
  BY <1>3, <1>5 DEF Account, Sealed, SealedFor
<1>8. \A a \in DOMAIN account : SealedFor(account[a], a, sealer')
  <2> SUFFICES ASSUME NEW a \in DOMAIN account PROVE SealedFor(account[a], a, sealer')
    OBVIOUS
  <2>1. SealedFor(account[a], a, sealer) /\ account[a] \in Account
    BY DEF IInv, AccountTable
  <2>2. a # 0
    BY IdsArePositive DEF IInv, AccountTable
  <2> QED BY <2>1, <2>2, <1>5, AccountFields DEF SealedFor, SealsKept
<1> HIDE DEF row, x, n, u, readers
<1>9. late' \in [Users -> Nat] /\ \A v \in Users : late'[v] \in Nat /\ late[v] <= late'[v]
  BY <1>1, <1>3 DEF IInv, AccountTable
<1>10. AccountTable'
  <2>1. \A a, b \in DOMAIN account' : account'[a].inst = account'[b].inst => a = b
    BY <1>1, <1>6, <1>7 DEF IInv, AccountTable
  <2>2. \A a \in DOMAIN account' :
           a \in Ids /\ account'[a] \in Account /\ SealedFor(account'[a], a, sealer')
    BY <1>3, <1>6, <1>7, <1>8 DEF IInv, AccountTable
  <2> QED BY <1>5, <1>9, <2>1, <2>2 DEF AccountTable
<1>11. /\ RecipientTable' /\ DetailTable' /\ SelfRecipientIsHolder' /\ DestinationKept'
       /\ RecipientsKept
       /\ \A k \in Handlers : DetailKept(Refers(req[k])) /\ BankKept(k)
  BY <1>1, <1>5, RecipientsUntouched
<1>12. Requests' /\ Names'
  BY <1>1, <1>2, <1>5, <1>6, <1>11, AnswerStep DEF n
<1>13. Counted'
  <2>1. ASSUME NEW k \in Handlers \ {h}, k \notin stale',
               req[k].step \in {"accountCheck", "accountInsert"}
        PROVE  {a \in DOMAIN account' : account'[a].owner = req[k].owner}
                  \subseteq AccountsOf(req[k].owner)
    BY <1>1, <1>6, <1>7, <2>1 DEF AccountsOf, readers
  <2> QED BY <1>1, <2>1, CountedKept
<1>14. AccountsWithinLimit'
  <2> SUFFICES ASSUME NEW v \in Users PROVE Cardinality(AccountsOf(v)') <= Limit + late'[v]
    BY DEF AccountsWithinLimit
  <2> DEFINE was == Cardinality(AccountsOf(v))
             now == Cardinality(AccountsOf(v)')
  <2>1. was <= Limit + late[v] /\ late[v] \in Nat /\ late'[v] \in Nat /\ late[v] <= late'[v]
    BY <1>9 DEF IInv, AccountsWithinLimit, AccountTable
  <2>2. IsFiniteSet(AccountsOf(v)) /\ was \in Nat
    BY AccountsAreCounted
  <2>3. CASE v # u
    <3>1. AccountsOf(v)' = AccountsOf(v)
      BY <1>6, <1>7, <2>3 DEF AccountsOf
    <3>2. now = was
      BY <3>1
    <3>3. now <= Limit + late'[v]
      <4> HIDE DEF now, was
      <4> QED BY <2>1, <2>2, <3>2, WalletAssumption
    <3> QED BY <3>3
  <2>4. CASE v = u
    <3>1. AccountsOf(v)' = AccountsOf(v) \cup {n}
      BY <1>6, <1>7, <2>4 DEF AccountsOf
    <3>2. now <= was + 1 /\ now \in Nat
      BY <2>2, <3>1, OneMore
    <3>3. h \in stale => late'[v] = late[v] + 1
      BY <1>1, <2>4 DEF IInv, AccountTable
    <3>4. h \notin stale => was < Limit
      BY <1>1, <2>4 DEF IInv, Counted, u
    <3>5. now <= Limit + late'[v]
      <4> HIDE DEF now, was
      <4> QED BY <2>1, <2>2, <3>2, <3>3, <3>4, WalletAssumption
    <3> QED BY <3>5
  <2> QED BY <2>3, <2>4
<1> QED BY <1>10, <1>11, <1>12, <1>13, <1>14 DEF IInv

\* A statement that leaves every account with its owner, or removes some.
LEMMA OwnersKept ==
  ASSUME IInv, NEW h \in Handlers, req' = [req EXCEPT ![h] = Idle], stale' = stale \ {h},
         DOMAIN account' \subseteq DOMAIN account, late' = late,
         \A a \in DOMAIN account' : account'[a].owner = account[a].owner
  PROVE  Counted' /\ AccountsWithinLimit'
<1>1. \A v : {a \in DOMAIN account' : account'[a].owner = v} \subseteq AccountsOf(v)
  BY DEF AccountsOf
<1>2. Counted'
  BY <1>1, CountedKept
<1>3. AccountsWithinLimit'
  <2> SUFFICES ASSUME NEW v \in Users
               PROVE  Cardinality({a \in DOMAIN account' : account'[a].owner = v}) <= Limit + late[v]
    BY DEF AccountsWithinLimit, AccountsOf
  <2>1. Cardinality(AccountsOf(v)) <= Limit + late[v] /\ late[v] \in Nat
    BY DEF IInv, AccountsWithinLimit, AccountTable
  <2> DEFINE was == Cardinality(AccountsOf(v))
             now == Cardinality({a \in DOMAIN account' : account'[a].owner = v})
  <2>2. now <= was /\ now \in Nat /\ was \in Nat
    BY <1>1, CountsKept, AccountsAreCounted
  <2>3. now <= Limit + late[v]
    <3> HIDE DEF now
    <3> QED BY <2>1, <2>2, WalletAssumption
  <2> QED BY <2>3
<1> QED BY <1>2, <1>3

LEMMA UpdateAccountSaveCorrect ==
  ASSUME IInv, NEW h \in Handlers, UpdateAccountSave(h)
  PROVE  IInv'
<1> DEFINE n == req[h].id
           a == req[h].account
           d == req[h].data
           old == account[a]
           x == a
           row == [owner |-> old.owner, inst |-> Given(d.inst, old.inst),
                   holder |-> IF d.holder THEN n ELSE old.holder,
                   mail |-> IF d.mail THEN n ELSE old.mail,
                   active |-> Given(d.active, old.active)]
<1>1. /\ UNCHANGED <<recipient, detail, tickets, edited, superseded>>
      /\ a \in DOMAIN account /\ account' = [account EXCEPT ![a] = row]
      /\ sealer' = [sealer EXCEPT ![n] = x] /\ late' = late
      /\ req' = [req EXCEPT ![h] = Idle] /\ stale' = stale \ {h} /\ asked' = asked
      /\ \A b \in DOMAIN account \ {a} : account[b].inst # d.inst
      /\ req[h].step = "accountSave"
  BY DEF UpdateAccountSave, Answer, At, HasInst
<1>2. req[h].step \in Makers /\ Busy(req[h], asked)
  BY <1>1 DEF IInv, Requests, Makers, Steps
<1>3. /\ n \in Ids /\ a \in Ids /\ old \in Account /\ SealedFor(old, a, sealer) /\ x \in Ids
      /\ old.owner \in Users /\ old.inst \in Insts /\ old.active \in BOOLEAN
      /\ old.holder \in Ids \cup {0} /\ old.mail \in Ids \cup {0}
  <2>1. n \in Ids
    BY <1>1, <1>2, WalletAssumption DEF Busy, Ids, IInv, Requests
  <2>2. a \in Ids /\ old \in Account /\ SealedFor(old, a, sealer)
    BY <1>1 DEF IInv, AccountTable
  <2> QED BY <2>1, <2>2, AccountFields
<1>4. Unused(n)
  BY <1>2 DEF IInv, Names
<1>5. /\ sealer' \in [Ids -> Ids \cup {0}] /\ SealsKept /\ sealer'[n] = x
      /\ \A k \in Ids \ {n} : sealer'[k] = sealer[k]
  BY <1>1, <1>3, <1>4, SealsLast DEF SealsKept
<1>6. /\ DOMAIN account' = DOMAIN account /\ account'[a] = row
      /\ \A b \in DOMAIN account \ {a} : account'[b] = account[b]
  <2> HIDE DEF row
  <2> QED BY <1>1
<1>7. \A b \in DOMAIN account : SealedFor(account[b], b, sealer')
  <2> SUFFICES ASSUME NEW b \in DOMAIN account PROVE SealedFor(account[b], b, sealer')
    OBVIOUS
  <2>1. SealedFor(account[b], b, sealer) /\ account[b] \in Account
    BY DEF IInv, AccountTable
  <2>2. b # 0
    BY IdsArePositive DEF IInv, AccountTable
  <2> QED BY <2>1, <2>2, <1>5, AccountFields DEF SealedFor, SealsKept
<1>8. /\ d.inst \in Insts \cup {Keep} /\ d.active \in BOOLEAN \cup {Keep}
      /\ d.holder \in BOOLEAN /\ d.mail \in BOOLEAN
  BY <1>1, <1>2 DEF Busy, AccountChanges, Nothing
<1>9. row \in Account /\ row.owner = old.owner /\ SealedFor(row, a, sealer')
  <2>1. Given(d.inst, old.inst) \in Insts /\ Given(d.active, old.active) \in BOOLEAN
    BY <1>3, <1>8 DEF Given
  <2>2. SealedFor(old, a, sealer')
    BY <1>1, <1>7
  <2>3. row \in Account
    BY <1>3, <2>1 DEF Account
  <2>4. SealedFor(row, a, sealer')
    BY <1>5, <2>2 DEF SealedFor
  <2> QED BY <2>3, <2>4
<1>10. \A b \in DOMAIN account \ {a} : account[b].inst # row.inst
  BY <1>1 DEF Given, IInv, AccountTable
<1> HIDE DEF row, x, n, d, old
<1>11. AccountTable'
  <2>1. \A b, c \in DOMAIN account' : account'[b].inst = account'[c].inst => b = c
    BY <1>6, <1>10 DEF IInv, AccountTable
  <2>2. \A b \in DOMAIN account' :
           b \in Ids /\ account'[b] \in Account /\ SealedFor(account'[b], b, sealer')
    BY <1>3, <1>6, <1>7, <1>9 DEF IInv, AccountTable
  <2> QED BY <1>1, <1>5, <2>1, <2>2 DEF IInv, AccountTable
<1>12. /\ RecipientTable' /\ DetailTable' /\ SelfRecipientIsHolder' /\ DestinationKept'
       /\ RecipientsKept
       /\ \A k \in Handlers : DetailKept(Refers(req[k])) /\ BankKept(k)
  BY <1>1, <1>5, RecipientsUntouched
<1>13. Requests' /\ Names'
  BY <1>1, <1>2, <1>5, <1>6, <1>12, AnswerStep DEF n
<1>14. Counted' /\ AccountsWithinLimit'
  BY <1>1, <1>6, <1>9, OwnersKept DEF old
<1> QED BY <1>11, <1>12, <1>13, <1>14 DEF IInv

LEMMA DeleteAccountCorrect ==
  ASSUME IInv, NEW h \in Handlers, DeleteAccount(h)
  PROVE  IInv'
<1>1. /\ UNCHANGED <<recipient, detail, tickets, edited, superseded>>
      /\ account' = Without(account, {req[h].account}) /\ late' = late /\ sealer' = sealer
      /\ req' = [req EXCEPT ![h] = Idle] /\ stale' = stale \ {h} /\ asked' = asked
  BY DEF DeleteAccount, Answer, ghosts
<1>2. /\ DOMAIN account' \subseteq DOMAIN account
      /\ \A a \in DOMAIN account' : account'[a] = account[a]
  BY <1>1 DEF Without
<1>3. SealsKept
  BY <1>1 DEF SealsKept
<1>4. /\ RecipientTable' /\ DetailTable' /\ SelfRecipientIsHolder' /\ DestinationKept'
      /\ RecipientsKept
      /\ \A k \in Handlers : DetailKept(Refers(req[k])) /\ BankKept(k)
  BY <1>1, <1>3, RecipientsUntouched
<1> DEFINE S == {}
<1>5. /\ DOMAIN account' \subseteq DOMAIN account \cup S
      /\ DOMAIN recipient' \subseteq DOMAIN recipient \cup S
      /\ DOMAIN detail' \subseteq DOMAIN detail \cup S
      /\ \A n \in Ids \ S : sealer'[n] = sealer[n]
  BY <1>1, <1>2
<1> HIDE DEF S
<1>6. Requests' /\ Names'
  BY <1>1, <1>3, <1>4, <1>5, AnswerStep DEF S
<1>7. AccountTable'
  BY <1>1, <1>2 DEF IInv, AccountTable
<1>8. Counted' /\ AccountsWithinLimit'
  BY <1>1, <1>2, OwnersKept
<1> QED BY <1>4, <1>6, <1>7, <1>8 DEF IInv

LEMMA ToggleAccountCorrect ==
  ASSUME IInv, NEW h \in Handlers, ToggleAccount(h)
  PROVE  IInv'
<1> DEFINE b == req[h].account
           x == ~req[h].active
<1>1. /\ UNCHANGED <<recipient, detail, tickets, edited, superseded>>
      /\ b \in DOMAIN account
      /\ account' = [account EXCEPT ![b].active = x] /\ late' = late /\ sealer' = sealer
      /\ req' = [req EXCEPT ![h] = Idle] /\ stale' = stale \ {h} /\ asked' = asked
  BY DEF ToggleAccount, Answer, ghosts
<1>2. x \in BOOLEAN
  OBVIOUS
<1>3. /\ DOMAIN account' = DOMAIN account
      /\ \A a \in DOMAIN account :
            /\ account'[a] \in Account
            /\ account'[a].owner = account[a].owner /\ account'[a].inst = account[a].inst
            /\ account'[a].holder = account[a].holder /\ account'[a].mail = account[a].mail
  <2>1. \A a \in DOMAIN account : account[a] \in Account
    BY DEF IInv, AccountTable
  <2> HIDE DEF x
  <2> QED BY <1>1, <1>2, <2>1 DEF Account
<1>4. SealsKept
  BY <1>1 DEF SealsKept
<1>5. /\ RecipientTable' /\ DetailTable' /\ SelfRecipientIsHolder' /\ DestinationKept'
      /\ RecipientsKept
      /\ \A k \in Handlers : DetailKept(Refers(req[k])) /\ BankKept(k)
  BY <1>1, <1>4, RecipientsUntouched
<1> DEFINE S == {}
<1>6. /\ DOMAIN account' \subseteq DOMAIN account \cup S
      /\ DOMAIN recipient' \subseteq DOMAIN recipient \cup S
      /\ DOMAIN detail' \subseteq DOMAIN detail \cup S
      /\ \A n \in Ids \ S : sealer'[n] = sealer[n]
  BY <1>1, <1>3
<1> HIDE DEF S
<1>7. Requests' /\ Names'
  BY <1>1, <1>4, <1>5, <1>6, AnswerStep DEF S
<1>8. AccountTable'
  BY <1>1, <1>3 DEF IInv, AccountTable, SealedFor
<1>9. Counted' /\ AccountsWithinLimit'
  BY <1>1, <1>3, OwnersKept
<1> QED BY <1>5, <1>7, <1>8, <1>9 DEF IInv

-----------------------------------------------------------------------------
(* Recipients and details: what a write must do to keep the tables. *)

LEMMA RecipientsWritten ==
  ASSUME IInv, NEW S \in SUBSET Ids, DOMAIN recipient' = DOMAIN recipient \cup S,
         \A r \in S : r \notin DOMAIN recipient,
         \A r \in DOMAIN recipient' : recipient'[r] \in Recipient,
         \A r, s \in DOMAIN recipient' :
            \/ recipient'[r].ident = recipient'[s].ident
            \/ recipient'[r].mail = recipient'[s].mail
            => r = s,
         edited \subseteq edited', sealer' = sealer,
         \A r \in DOMAIN recipient :
            \/ r \in edited'
            \/ /\ recipient'[r].ident = recipient[r].ident
               /\ \/ recipient'[r].mail = recipient[r].mail
                  \/ \A m \in Ids : recipient'[r].mail # <<"seal", m>>,
         \A r \in S, m \in Ids :
            recipient'[r].mail = <<"seal", m>> =>
               /\ sealer[m] # 0
               /\ HolderOf(recipient'[r], sealer[m], tickets', sealer),
         tickets \subseteq tickets',
         \A t \in tickets' \ tickets :
            ~Third(t) /\ t.ownMail /\ t.of \notin edited' =>
               HolderOf(recipient'[t.of], t.account, tickets', sealer)
  PROVE  RecipientTable' /\ SelfRecipientIsHolder' /\ RecipientsKept
<1>1. RecipientsKept
  BY DEF RecipientsKept
<1>2. RecipientTable'
  <2>1. ASSUME NEW r \in DOMAIN recipient' \ edited', NEW m \in Ids,
               recipient'[r].mail = <<"seal", m>>
        PROVE  /\ sealer[m] # 0
               /\ HolderOf(recipient'[r], sealer[m], tickets', sealer)
    <3>1. CASE r \in S
      BY <2>1, <3>1
    <3>2. CASE r \in DOMAIN recipient
      BY <2>1, <3>2 DEF IInv, RecipientTable, HolderOf
    <3> QED BY <3>1, <3>2
  <2>2. DOMAIN recipient' \subseteq Ids
    BY DEF IInv, RecipientTable
  <2> QED BY <2>1, <2>2 DEF RecipientTable
<1>3. SelfRecipientIsHolder'
  <2>1. ASSUME NEW t \in tickets', ~Third(t), t.ownMail, t.of \notin edited'
        PROVE  HolderOf(recipient'[t.of], t.account, tickets', sealer)
    <3>1. CASE t \in tickets
      <4>1. t.of \in DOMAIN recipient /\ HolderOf(recipient[t.of], t.account, tickets, sealer)
        BY <2>1, <3>1 DEF IInv, DetailTable, SelfRecipientIsHolder, OrderedTo, HolderOf
      <4> QED BY <2>1, <4>1 DEF HolderOf
    <3> QED BY <2>1, <3>1
  <2>2. SUFFICES ASSUME NEW t \in tickets', ~Third(t), t.ownMail, t.of \notin edited'
                 PROVE  \/ \E x \in tickets' : /\ ~Third(x) /\ x.account = t.account
                                               /\ recipient'[t.of].ident = <<"user", x.by>>
                        \/ \E n \in Ids : /\ recipient'[t.of].ident = <<"seal", n>>
                                           /\ sealer[n] = t.account
    BY DEF SelfRecipientIsHolder, OrderedTo
  <2> QED BY <2>1, <2>2 DEF HolderOf
<1> QED BY <1>1, <1>2, <1>3

LEMMA DetailsWritten ==
  ASSUME IInv, NEW n \in Ids, NEW row \in Detail, row.of \in DOMAIN recipient',
         DOMAIN recipient \subseteq DOMAIN recipient',
         n \in DOMAIN detail', detail'[n] = row,
         \A d \in DOMAIN detail' \ {n} : d \in DOMAIN detail /\ detail'[d] = detail[d],
         superseded \subseteq superseded',
         \A d \in DOMAIN detail :
            d = n \/ d \notin DOMAIN detail' =>
               TicketsAt(detail[d].of, detail[d].bank) \subseteq superseded',
         tickets \subseteq tickets',
         \A t \in tickets' \ tickets :
            /\ t \in SelfTicket \cup ThirdTicket /\ t.of \in DOMAIN recipient'
            /\ Third(t) => t.of = row.of /\ t.bank = row.bank /\ t.number = row.number
  PROVE  DetailTable' /\ DestinationKept'
<1>1. DetailTable'
  BY DEF IInv, DetailTable
<1>2. DestinationKept'
  <2>1. ASSUME NEW t \in tickets', Third(t), t.id \notin superseded'
        PROVE  \E d \in DOMAIN detail' : /\ detail'[d].of = t.of /\ detail'[d].bank = t.bank
                                         /\ detail'[d].number = t.number
    <3>1. CASE t \in tickets
      <4>1. PICK d \in DOMAIN detail : /\ detail[d].of = t.of /\ detail[d].bank = t.bank
                                       /\ detail[d].number = t.number
        BY <2>1, <3>1 DEF IInv, DestinationKept, DetailsAt, DetailsOf
      <4>2. t.id \in TicketsAt(detail[d].of, detail[d].bank)
        BY <2>1, <3>1, <4>1 DEF TicketsAt
      <4>3. d \in DOMAIN detail' /\ d # n
        BY <2>1, <4>2
      <4> QED BY <4>1, <4>3
    <3> QED BY <2>1, <3>1
  <2> QED BY <2>1 DEF DestinationKept, DetailsAt, DetailsOf
<1> QED BY <1>1, <1>2

\* A detail is new, or written over for its own recipient under the eyes of those who watch it.
LEMMA WatchersKept ==
  ASSUME IInv, NEW h \in Handlers, NEW n \in Ids, NEW row \in Detail,
         n \in DOMAIN detail', detail'[n] = row,
         \A d \in DOMAIN detail' \ {n} : d \in DOMAIN detail /\ detail'[d] = detail[d],
         \/ Unused(n)
         \/ n \in DOMAIN detail /\ detail[n].of = row.of /\ Watching(row.of) \ {h} \subseteq stale'
  PROVE  \A k \in Handlers \ {h} : DetailKept(Refers(req[k])) /\ BankKept(k)
<1> SUFFICES ASSUME NEW k \in Handlers, k # h PROVE DetailKept(Refers(req[k])) /\ BankKept(k)
  OBVIOUS
<1>1. CASE Unused(n)
  <2>1. Refers(req[k]) # n
    BY <1>1 DEF Unused
  <2> QED BY <2>1 DEF DetailKept, BankKept, Refers
<1>2. CASE n \in DOMAIN detail /\ detail[n].of = row.of /\ Watching(row.of) \ {h} \subseteq stale'
  <2>1. DetailKept(Refers(req[k]))
    BY <1>2 DEF DetailKept
  <2>2. ASSUME req[k].step = "thirdCommit", k \notin stale', req[k].detail \in DOMAIN detail'
        PROVE  req[k].detail # n
    <3>1. req[k].detail = n => detail[n].of = req[k].found
      BY <1>2, <2>2 DEF IInv, Requests, Knows
    <3>2. req[k].found # row.of
      BY <1>2, <2>2 DEF Watching
    <3> QED BY <1>2, <3>1, <3>2
  <2>3. BankKept(k)
    BY <2>2 DEF BankKept
  <2> QED BY <2>1, <2>3
<1> QED BY <1>1, <1>2

\* A statement that leaves accounts and seals alone.
LEMMA AccountsUntouched ==
  ASSUME IInv, NEW h \in Handlers, account' = account, late' = late, sealer' = sealer
  PROVE  /\ AccountTable' /\ AccountsWithinLimit' /\ SealsKept
         /\ req' = [req EXCEPT ![h] = Idle] /\ stale \ {h} \subseteq stale' => Counted'
<1>1. AccountTable' /\ AccountsWithinLimit' /\ SealsKept
  BY DEF IInv, AccountTable, AccountsWithinLimit, SealsKept, AccountsOf
<1>2. ASSUME req' = [req EXCEPT ![h] = Idle], stale \ {h} \subseteq stale' PROVE Counted'
  BY <1>2, CountedKept DEF AccountsOf
<1> QED BY <1>1, <1>2

-----------------------------------------------------------------------------
(* Recipients of clients. *)

\* A request whose first statement writes a recipient goes on with f, or has ended.
LEMMA WriteFirstStep ==
  ASSUME IInv, NEW h \in Handlers, NEW f, req[h].step = "idle", asked < MaxRequests,
         asked' = asked + 1, stale' = stale,
         req' = [req EXCEPT ![h] = f] \/ (req' = req /\ f = req[h]),
         account' = account, detail' = detail, sealer' = sealer, late' = late,
         DOMAIN recipient' = DOMAIN recipient, RecipientsKept,
         Busy(f, asked + 1), f.step \in Makers => f.id = Number,
         Knows(f, h \in stale, recipient', detail, sealer, edited', tickets'),
         Refers(f) \in DOMAIN detail \cup {0}, f.step \notin {"accountCheck", "accountInsert"}
  PROVE  Requests' /\ Names' /\ Counted'
<1>1. asked \in Nat /\ asked + 1 \in Ids /\ asked' \in 0..MaxRequests
  BY WalletAssumption DEF IInv, Requests, Ids
<1>2. DOMAIN req' = Handlers /\ \A k \in Handlers : req'[k] = IF k = h THEN f ELSE req[k]
  BY DEF IInv, Requests
<1>3. \A k \in Handlers : Busy(req'[k], asked')
  <2>1. \A k \in Handlers : Busy(req[k], asked + 1)
    BY <1>1 DEF IInv, Requests, Busy
  <2> QED BY <1>1, <1>2, <2>1
<1>4. \A k \in Handlers : k # h => Knows(req[k], k \in stale', recipient', detail', sealer', edited', tickets')
  BY KnowsKept DEF SealsKept, DetailKept
<1>5. Requests'
  BY <1>1, <1>2, <1>3, <1>4 DEF Requests
<1>6. Counted'
  <2> SUFFICES ASSUME NEW k \in Handlers, k \notin stale',
                      req'[k].step \in {"accountCheck", "accountInsert"}
               PROVE  Cardinality({a \in DOMAIN account' : account'[a].owner = req'[k].owner}) < Limit
    BY DEF Counted, AccountsOf
  <2>1. Cardinality(AccountsOf(req'[k].owner)) < Limit
    BY <1>2 DEF IInv, Counted
  <2> QED BY <2>1 DEF AccountsOf
<1>7. \A n \in Ids : Unused(n) => Unused(n)'
  BY <1>2, IdsArePositive DEF Unused
<1>8. Unused(asked + 1)
  BY <1>1, IdsArePositive DEF IInv, Names
<1>9. \A k \in Handlers : req[k].step \in Makers => req[k].id \in Ids /\ req[k].id <= asked
  BY <1>1, WalletAssumption DEF IInv, Requests, Busy, Ids
<1>10. Names'
  <2>1. \A n \in Ids : n > asked' => Unused(n)'
    BY <1>1, <1>7, IdsArePositive DEF IInv, Names
  <2>2. \A k \in Handlers, n \in Ids : req'[k].step \in Makers /\ n = req'[k].id => Unused(n)'
    BY <1>2, <1>7, <1>8, <1>9 DEF IInv, Names, Number
  <2>3. \A g, k \in Handlers : /\ g # k /\ req'[g].step \in Makers /\ req'[k].step \in Makers
                               => req'[g].id # req'[k].id
    BY <1>1, <1>2, <1>9, IdsArePositive DEF IInv, Names, Number
  <2>4. \A k \in Handlers : req'[k].step \in Makers => req'[k].id \in Ids
    BY <1>1, <1>2, <1>9 DEF Number
  <2> QED BY <2>1, <2>2, <2>3, <2>4 DEF Names, Unused
<1> QED BY <1>5, <1>6, <1>10

LEMMA UpdateRecipientSaveCorrect ==
  ASSUME IInv, NEW h \in Handlers, NEW r \in DOMAIN recipient,
         NEW d \in Persons \cup {Keep}, NEW m \in Users \cup {Keep},
         NEW c \in DetailChanges(r) \cup {Keep},
         UpdateRecipientSave(h, r, d, m, c)
  PROVE  IInv'
<1> DEFINE old == recipient[r]
           ident == IF d = Keep THEN old.ident ELSE <<"doc", d>>
           mail == IF m = Keep THEN old.mail ELSE <<"mail", m>>
           row == [ident |-> ident, mail |-> mail, active |-> old.active]
           f == IF c = Keep THEN req[h]
                ELSE [step |-> "detailSave", id |-> Number, of |-> r, change |-> c]
<1>1. /\ req[h].step = "idle" /\ asked < MaxRequests /\ asked' = asked + 1 /\ stale' = stale
      /\ req' = [req EXCEPT ![h] = f] \/ (req' = req /\ f = req[h])
      /\ account' = account /\ detail' = detail /\ sealer' = sealer /\ late' = late
      /\ tickets' = tickets /\ superseded' = superseded
      /\ IdentFree(ident, r) /\ MailFree(mail, r)
      /\ recipient' = [recipient EXCEPT ![r] = row]
      /\ edited' = IF d = Keep /\ m = Keep THEN edited ELSE edited \cup {r}
  BY DEF UpdateRecipientSave
<1>2. /\ old \in Recipient /\ old.ident \in Idents /\ old.mail \in Mails /\ old.active \in BOOLEAN
      /\ r \in Ids
  BY RecipientFields DEF IInv, RecipientTable
<1>3. row \in Recipient /\ row.ident = ident /\ row.mail = mail
  <2>1. ident \in Idents /\ mail \in Mails
    BY <1>2 DEF Idents, Mails
  <2> HIDE DEF ident, mail
  <2> QED BY <1>2, <2>1 DEF Recipient
<1>4. r \in edited' \/ (ident = old.ident /\ mail = old.mail)
  BY <1>1
<1>5. /\ DOMAIN recipient' = DOMAIN recipient /\ recipient'[r] = row
      /\ \A s \in DOMAIN recipient \ {r} : recipient'[s] = recipient[s]
  <2> HIDE DEF row
  <2> QED BY <1>1
<1>6. \A s \in DOMAIN recipient \ {r} : recipient[s].ident # ident /\ recipient[s].mail # mail
  BY <1>1 DEF IdentFree, MailFree
<1>7. edited \subseteq edited'
  BY <1>1
<1> HIDE DEF row, ident, mail
<1>8. RecipientTable' /\ SelfRecipientIsHolder' /\ RecipientsKept
  <2>1. \A s \in DOMAIN recipient' : recipient'[s] \in Recipient
    BY <1>3, <1>5 DEF IInv, RecipientTable
  <2>2. \A s, q \in DOMAIN recipient' :
           \/ recipient'[s].ident = recipient'[q].ident
           \/ recipient'[s].mail = recipient'[q].mail
           => s = q
    BY <1>3, <1>5, <1>6 DEF IInv, RecipientTable
  <2>3. \A s \in DOMAIN recipient :
           \/ s \in edited'
           \/ /\ recipient'[s].ident = recipient[s].ident
              /\ recipient'[s].mail = recipient[s].mail
    BY <1>3, <1>4, <1>5
  <2> DEFINE S == {}
  <2>4. S \in SUBSET Ids /\ DOMAIN recipient' = DOMAIN recipient \cup S /\ \A s \in S : FALSE
    BY <1>5
  <2> HIDE DEF S
  <2> QED BY <1>1, <1>7, <2>1, <2>2, <2>3, <2>4, RecipientsWritten
<1>9. Requests' /\ Names' /\ Counted'
  <2>1. Busy(f, asked + 1) /\ f.step \notin {"accountCheck", "accountInsert"}
    <3>1. CASE c = Keep
      BY <1>1, <3>1 DEF Busy, Steps, Makers, PersonSteps
    <3>2. CASE c # Keep
      <4>1. c \in Change
        BY <3>2 DEF DetailChanges, Change, DetailsOf, NoDetail, IInv, DetailTable
      <4> QED BY <1>1, <3>2, <4>1, NumberIsNext DEF Busy, Steps, PersonSteps
    <3> QED BY <3>1, <3>2
  <2>2. f.step \in Makers => f.id = Number
    BY <1>1 DEF Makers
  <2>3. Knows(f, h \in stale, recipient', detail, sealer, edited', tickets')
    <3>1. c # Keep => (c.detail \in DOMAIN detail => detail[c.detail].of = r)
      BY IdsArePositive DEF DetailChanges, DetailsOf, NoDetail, IInv, DetailTable
    <3> QED BY <1>1, <1>5, <3>1 DEF Knows
  <2>4. Refers(f) \in DOMAIN detail \cup {0}
    BY <1>1 DEF Refers, DetailChanges, DetailsOf, NoDetail
  <2> HIDE DEF f
  <2> QED BY <1>1, <1>5, <1>8, <2>1, <2>2, <2>3, <2>4, WriteFirstStep
<1>10. DetailTable' /\ DestinationKept'
  BY <1>1, <1>5 DEF IInv, DetailTable, DestinationKept, DetailsAt, DetailsOf
<1>11. AccountTable' /\ AccountsWithinLimit'
  BY <1>1, AccountsUntouched
<1> QED BY <1>8, <1>9, <1>10, <1>11 DEF IInv

LEMMA RemoveRecipientCorrect ==
  ASSUME IInv, NEW h \in Handlers, NEW r \in DOMAIN recipient, RemoveRecipient(h, r)
  PROVE  IInv'
<1>1. /\ req[h].step = "idle" /\ asked < MaxRequests /\ asked' = asked + 1 /\ stale' = stale
      /\ req' = req /\ account' = account /\ detail' = detail /\ sealer' = sealer
      /\ late' = late /\ edited' = edited
      /\ tickets' = tickets /\ superseded' = superseded
      /\ recipient' = [recipient EXCEPT ![r].active = FALSE]
  BY DEF RemoveRecipient, ghosts
<1>2. /\ DOMAIN recipient' = DOMAIN recipient
      /\ \A s \in DOMAIN recipient :
            /\ recipient'[s] \in Recipient
            /\ recipient'[s].ident = recipient[s].ident
            /\ recipient'[s].mail = recipient[s].mail
  <2>1. \A s \in DOMAIN recipient : recipient[s] \in Recipient
    BY DEF IInv, RecipientTable
  <2> QED BY <1>1, <2>1 DEF Recipient
<1>3. RecipientTable' /\ SelfRecipientIsHolder' /\ RecipientsKept
  <2>1. \A s, q \in DOMAIN recipient' :
           \/ recipient'[s].ident = recipient'[q].ident
           \/ recipient'[s].mail = recipient'[q].mail
           => s = q
    BY <1>2 DEF IInv, RecipientTable
  <2> DEFINE S == {}
  <2>2. S \in SUBSET Ids /\ DOMAIN recipient' = DOMAIN recipient \cup S /\ \A s \in S : FALSE
    BY <1>2
  <2> HIDE DEF S
  <2> QED BY <1>1, <1>2, <2>1, <2>2, RecipientsWritten
<1>4. Requests' /\ Names' /\ Counted'
  <2> DEFINE f == req[h]
  <2>1. Busy(f, asked + 1) /\ f.step \notin Makers /\ Refers(f) = 0
        /\ f.step \notin {"accountCheck", "accountInsert"}
    BY <1>1 DEF Busy, Steps, Makers, PersonSteps, Refers
  <2>2. Knows(f, h \in stale, recipient', detail, sealer, edited', tickets')
    BY <1>1 DEF Knows
  <2> HIDE DEF f
  <2>3. f = req[h]
    BY DEF f
  <2> QED BY <1>1, <1>2, <1>3, <2>1, <2>2, <2>3, WriteFirstStep
<1>5. DetailTable' /\ DestinationKept'
  BY <1>1, <1>2 DEF IInv, DetailTable, DestinationKept, DetailsAt, DetailsOf
<1>6. AccountTable' /\ AccountsWithinLimit'
  BY <1>1, AccountsUntouched
<1> QED BY <1>3, <1>4, <1>5, <1>6 DEF IInv

LEMMA NoneIsNoRecipient == IInv => 0 \notin DOMAIN recipient
BY IdsArePositive DEF IInv, RecipientTable

LEMMA RecipientRequestCorrect ==
  ASSUME IInv, NEW h \in Handlers, RecipientRequest(h)
  PROVE  IInv'
<1>1. ASSUME NEW p \in Persons, NEW m \in Users \cup {Keep}, NEW ds \in BOOLEAN,
             CreateRecipientFind(h, p, m, ds)
      PROVE  IInv'
  <2> DEFINE R == {r \in DOMAIN recipient : recipient[r].ident = <<"doc", p>>}
             f(r) == [step |-> IF R = {} THEN "recipientInsert" ELSE "recipientReactivate",
                      id |-> Number, person |-> p, mail |-> m, details |-> ds, found |-> r]
  <2>1. UNCHANGED <<tables, ghosts>> /\ asked < MaxRequests
    BY <1>1 DEF CreateRecipientFind, Ask
  <2>2. PICK r \in IF R = {} THEN {NoRecipient} ELSE R : Ask(h, f(r))
    BY <1>1 DEF CreateRecipientFind
  <2>3. Busy(f(r), asked + 1) /\ Refers(f(r)) = 0 /\ f(r).id = Number
        /\ f(r).step \notin {"accountCheck", "accountInsert"}
    BY <2>1, NumberIsNext DEF Busy, Steps, PersonSteps, Refers
  <2>4. Knows(f(r), h \in stale, recipient, detail, sealer, edited, tickets)
    BY <2>2 DEF Knows
  <2> HIDE DEF f
  <2> QED BY <2>1, <2>2, <2>3, <2>4, AskStep
<1>2. ASSUME NEW p \in Persons \cup {Keep}, NEW m \in Users \cup {Keep}, NEW b \in Insts,
             NEW n \in Numbers,
             OrderThird(h, p, m, b, n)
      PROVE  IInv'
  <2> DEFINE R == {r \in DOMAIN recipient : p # Keep => recipient[r].ident = <<"doc", p>>}
             f(r, d) == [step |-> "thirdCommit", id |-> Number, person |-> p, mail |-> m,
                         bank |-> b, number |-> n, found |-> r, detail |-> d]
  <2>1. UNCHANGED <<tables, ghosts>> /\ asked < MaxRequests /\ (p = Keep => R # {})
    BY <1>2 DEF OrderThird, Ask
  <2>2. PICK r \in IF R = {} THEN {NoRecipient} ELSE R : \E d \in DetailFor(r, b) : Ask(h, f(r, d))
    BY <1>2 DEF OrderThird
  <2>3. PICK d \in DetailFor(r, b) : Ask(h, f(r, d))
    BY <2>2
  <2>4. /\ p = Keep => r # 0
        /\ r # 0 => r \in DOMAIN recipient
        /\ d # 0 => d \in DOMAIN detail /\ detail[d].of = r /\ detail[d].bank = b
    BY <2>1, <2>2, <2>3, NoneIsNoRecipient DEF NoRecipient, DetailFor, DetailsAt, DetailsOf, NoDetail
  <2>5. r = 0 => d = 0
    BY <2>4, DetailFields, IdsArePositive DEF IInv, DetailTable
  <2>6. 0 \notin DOMAIN detail
    BY IdsArePositive DEF IInv, DetailTable
  <2>7. Busy(f(r, d), asked + 1) /\ Refers(f(r, d)) \in DOMAIN detail \cup {0}
        /\ f(r, d).id = Number /\ f(r, d).step \notin {"accountCheck", "accountInsert"}
    BY <2>1, <2>4, NumberIsNext DEF Busy, Steps, PersonSteps, Refers
  <2>8. Knows(f(r, d), h \in stale, recipient, detail, sealer, edited, tickets)
    BY <2>4, <2>5, <2>6 DEF Knows
  <2> HIDE DEF f
  <2> QED BY <2>1, <2>3, <2>7, <2>8, AskStep
<1>3. ASSUME NEW r \in DOMAIN recipient, NEW d \in Persons, UpdateRecipientSave(h, r, d, Keep, Keep)
      PROVE  IInv'
  BY <1>3, UpdateRecipientSaveCorrect
<1>4. ASSUME NEW r \in DOMAIN recipient, NEW m \in Users, UpdateRecipientSave(h, r, Keep, m, Keep)
      PROVE  IInv'
  BY <1>4, UpdateRecipientSaveCorrect
<1>5. ASSUME NEW r \in DOMAIN recipient, NEW c \in DetailChanges(r),
             UpdateRecipientSave(h, r, Keep, Keep, c)
      PROVE  IInv'
  BY <1>5, UpdateRecipientSaveCorrect
<1>6. ASSUME NEW r \in DOMAIN recipient, RemoveRecipient(h, r)
      PROVE  IInv'
  BY <1>6, RemoveRecipientCorrect
<1> QED BY <1>1, <1>2, <1>3, <1>4, <1>5, <1>6 DEF RecipientRequest

\* What a request that writes a person's row makes of its mail.
LEMMA MailForIsPlain ==
  ASSUME NEW p \in Persons, NEW m \in Users \cup {Keep}
  PROVE  /\ MailFor(p, m) \in Mails /\ <<"doc", p>> \in Idents
         /\ \A k \in Ids : MailFor(p, m) # <<"seal", k>>
BY DEF MailFor, Mails, Idents

LEMMA CreateRecipientInsertCorrect ==
  ASSUME IInv, NEW h \in Handlers, CreateRecipientInsert(h)
  PROVE  IInv'
<1> DEFINE n == req[h].id
           p == req[h].person
           mail == MailFor(p, req[h].mail)
           row == [ident |-> <<"doc", p>>, mail |-> mail, active |-> TRUE]
<1>1. /\ req[h].step = "recipientInsert"
      /\ IdentFree(<<"doc", p>>, n) /\ MailFree(mail, n)
      /\ recipient' = Plus(recipient, n, row)
      /\ req' = [req EXCEPT ![h] = Idle] /\ stale' = stale \ {h} /\ asked' = asked
      /\ account' = account /\ late' = late /\ sealer' = sealer /\ edited' = edited
      /\ tickets' = tickets /\ superseded' = superseded
  BY DEF CreateRecipientInsert, Answer, At, ghosts
<1>2. PICK b \in Insts, k \in Numbers :
         detail' = IF req[h].details THEN Plus(detail, n, [of |-> n, bank |-> b, number |-> k])
                                     ELSE detail
  BY DEF CreateRecipientInsert
<1> DEFINE new == [of |-> n, bank |-> b, number |-> k]
<1>3. req[h].step \in Makers /\ Busy(req[h], asked)
  BY <1>1 DEF IInv, Requests, Makers, Steps
<1>4. n \in Ids /\ p \in Persons /\ req[h].mail \in Users \cup {Keep} /\ Unused(n)
  <2>1. Unused(n)
    BY <1>3 DEF IInv, Names
  <2> QED BY <1>1, <1>3, <2>1, WalletAssumption DEF Busy, PersonSteps, Ids, IInv, Requests
<1>5. /\ row \in Recipient /\ row.ident = <<"doc", p>> /\ row.mail = mail /\ new \in Detail
      /\ \A m \in Ids : row.mail # <<"seal", m>>
  BY <1>4, MailForIsPlain DEF Recipient, Detail
<1>6. /\ DOMAIN recipient' = DOMAIN recipient \cup {n} /\ recipient'[n] = row
      /\ \A s \in DOMAIN recipient : recipient'[s] = recipient[s]
      /\ n \notin DOMAIN recipient
  BY <1>1, <1>4 DEF Plus, Unused
<1>7. \A s \in DOMAIN recipient : recipient[s].ident # row.ident /\ recipient[s].mail # row.mail
  BY <1>1, <1>6 DEF IdentFree, MailFree
<1> HIDE DEF row, mail
<1>8. RecipientTable' /\ SelfRecipientIsHolder' /\ RecipientsKept
  <2>1. \A s \in DOMAIN recipient' : recipient'[s] \in Recipient
    BY <1>5, <1>6 DEF IInv, RecipientTable
  <2>2. \A s, q \in DOMAIN recipient' :
           \/ recipient'[s].ident = recipient'[q].ident
           \/ recipient'[s].mail = recipient'[q].mail
           => s = q
    BY <1>6, <1>7 DEF IInv, RecipientTable
  <2> DEFINE S == {n}
  <2>3. /\ S \in SUBSET Ids /\ DOMAIN recipient' = DOMAIN recipient \cup S
        /\ \A s \in S : s \notin DOMAIN recipient
        /\ \A s \in S, m \in Ids :
              recipient'[s].mail = <<"seal", m>> =>
                 /\ sealer[m] # 0
                 /\ HolderOf(recipient'[s], sealer[m], tickets', sealer)
    BY <1>4, <1>5, <1>6
  <2>4. \A s \in DOMAIN recipient : /\ recipient'[s].ident = recipient[s].ident
                                    /\ recipient'[s].mail = recipient[s].mail
    BY <1>6
  <2>5. /\ tickets \subseteq tickets' /\ edited \subseteq edited' /\ sealer' = sealer
        /\ \A t \in tickets' \ tickets : FALSE
    BY <1>1
  <2> HIDE DEF S
  <2> QED BY <2>1, <2>2, <2>3, <2>4, <2>5, RecipientsWritten
<1>9. /\ DetailTable' /\ DestinationKept' /\ DOMAIN detail' \subseteq DOMAIN detail \cup {n}
      /\ \A j \in Handlers \ {h} : DetailKept(Refers(req[j])) /\ BankKept(j)
  <2>1. CASE req[h].details
    <3>1. /\ DOMAIN detail' = DOMAIN detail \cup {n} /\ detail'[n] = new /\ new.of = n
          /\ \A d \in DOMAIN detail' \ {n} : d \in DOMAIN detail /\ detail'[d] = detail[d]
          /\ n \notin DOMAIN detail
      BY <1>2, <1>4, <2>1 DEF Plus, Unused
    <3> HIDE DEF new
    <3>2. DetailTable' /\ DestinationKept'
      BY <1>1, <1>4, <1>5, <1>6, <3>1, DetailsWritten
    <3>3. \A j \in Handlers \ {h} : DetailKept(Refers(req[j])) /\ BankKept(j)
      BY <1>4, <1>5, <3>1, WatchersKept
    <3> QED BY <3>1, <3>2, <3>3
  <2>2. CASE ~req[h].details
    BY <1>1, <1>2, <1>6, <2>2 DEF IInv, DetailTable, DestinationKept, DetailsAt, DetailsOf,
                                  DetailKept, BankKept
  <2> QED BY <2>1, <2>2
<1>10. AccountTable' /\ AccountsWithinLimit' /\ SealsKept /\ Counted'
  BY <1>1, AccountsUntouched
<1>11. Requests' /\ Names'
  BY <1>1, <1>3, <1>6, <1>8, <1>9, <1>10, AnswerStep DEF n
<1> QED BY <1>8, <1>9, <1>10, <1>11 DEF IInv

LEMMA ReactivateCorrect ==
  ASSUME IInv, NEW h \in Handlers, Reactivate(h)
  PROVE  IInv'
<1> DEFINE n == req[h].id
           r == req[h].found
           p == req[h].person
           old == recipient[r]
           mail == IF req[h].mail = Keep THEN old.mail ELSE <<"mail", req[h].mail>>
           row == [ident |-> <<"doc", p>>, mail |-> mail, active |-> TRUE]
<1>1. /\ req[h].step = "recipientReactivate"
      /\ IdentFree(<<"doc", p>>, r) /\ MailFree(mail, r)
      /\ recipient' = [recipient EXCEPT ![r] = row]
      /\ req' = [req EXCEPT ![h] = Idle] /\ stale \ {h} \subseteq stale' /\ asked' = asked
      /\ account' = account /\ late' = late /\ sealer' = sealer /\ edited' = edited
      /\ tickets' = tickets
  BY DEF Reactivate, Answer, AnswerStaling, At
<1>2. IF req[h].details
      THEN /\ superseded' = superseded \cup TicketsTo(r)
           /\ Watching(r) \ {h} \subseteq stale'
           /\ \E b \in Insts, k \in Numbers :
                 detail' = Plus(Without(detail, DetailsOf(r)), n, [of |-> r, bank |-> b, number |-> k])
      ELSE detail' = detail /\ superseded' = superseded
  BY DEF Reactivate, AnswerStaling
<1>3. req[h].step \in Makers /\ Busy(req[h], asked)
  BY <1>1 DEF IInv, Requests, Makers, Steps
<1>4. n \in Ids /\ p \in Persons /\ req[h].mail \in Users \cup {Keep} /\ Unused(n)
  <2>1. Unused(n)
    BY <1>3 DEF IInv, Names
  <2> QED BY <1>1, <1>3, <2>1, WalletAssumption DEF Busy, PersonSteps, Ids, IInv, Requests
<1>5. r \in DOMAIN recipient /\ (r \in edited \/ old.ident = <<"doc", p>>)
  BY <1>1 DEF IInv, Requests, Knows
<1>6. old \in Recipient /\ old.mail \in Mails /\ r \in Ids
  BY <1>5, RecipientFields DEF IInv, RecipientTable
<1>7. /\ row \in Recipient /\ row.ident = <<"doc", p>> /\ row.mail = mail
      /\ mail = old.mail \/ \A m \in Ids : mail # <<"seal", m>>
  <2>1. mail \in Mails /\ <<"doc", p>> \in Idents
    BY <1>4, <1>6 DEF Mails, Idents
  <2>2. mail = old.mail \/ \A m \in Ids : mail # <<"seal", m>>
    OBVIOUS
  <2> HIDE DEF mail
  <2> QED BY <1>4, <1>6, <2>1, <2>2 DEF Recipient
<1>8. /\ DOMAIN recipient' = DOMAIN recipient /\ recipient'[r] = row
      /\ \A s \in DOMAIN recipient \ {r} : recipient'[s] = recipient[s]
  <2> HIDE DEF row
  <2> QED BY <1>1, <1>5
<1>9. \A s \in DOMAIN recipient \ {r} : recipient[s].ident # row.ident /\ recipient[s].mail # row.mail
  BY <1>1 DEF IdentFree, MailFree
<1> HIDE DEF row, mail
<1>10. RecipientTable' /\ SelfRecipientIsHolder' /\ RecipientsKept
  <2>1. \A s \in DOMAIN recipient' : recipient'[s] \in Recipient
    BY <1>7, <1>8 DEF IInv, RecipientTable
  <2>2. \A s, q \in DOMAIN recipient' :
           \/ recipient'[s].ident = recipient'[q].ident
           \/ recipient'[s].mail = recipient'[q].mail
           => s = q
    BY <1>7, <1>8, <1>9 DEF IInv, RecipientTable
  <2> DEFINE S == {}
  <2>3. S \in SUBSET Ids /\ DOMAIN recipient' = DOMAIN recipient \cup S /\ \A s \in S : FALSE
    BY <1>8
  <2>4. \A s \in DOMAIN recipient :
            \/ s \in edited'
            \/ /\ recipient'[s].ident = recipient[s].ident
               /\ \/ recipient'[s].mail = recipient[s].mail
                  \/ \A m \in Ids : recipient'[s].mail # <<"seal", m>>
    BY <1>1, <1>5, <1>7, <1>8
  <2>5. /\ tickets \subseteq tickets' /\ edited \subseteq edited' /\ sealer' = sealer
        /\ \A t \in tickets' \ tickets : FALSE
    BY <1>1
  <2> HIDE DEF S
  <2> QED BY <2>1, <2>2, <2>3, <2>4, <2>5, RecipientsWritten
<1>11. /\ DetailTable' /\ DestinationKept' /\ DOMAIN detail' \subseteq DOMAIN detail \cup {n}
       /\ \A j \in Handlers \ {h} : DetailKept(Refers(req[j])) /\ BankKept(j)
  <2>1. CASE req[h].details
    <3> PICK b \in Insts, k \in Numbers :
             detail' = Plus(Without(detail, DetailsOf(r)), n, [of |-> r, bank |-> b, number |-> k])
      BY <1>2, <2>1
    <3> DEFINE new == [of |-> r, bank |-> b, number |-> k]
    <3>0. new \in Detail
      BY <1>6 DEF Detail
    <3>1. /\ n \in DOMAIN detail' /\ detail'[n] = new /\ new.of = r
          /\ \A d \in DOMAIN detail' \ {n} : d \in DOMAIN detail /\ detail'[d] = detail[d]
          /\ n \notin DOMAIN detail
          /\ \A d \in DOMAIN detail \ DOMAIN detail' : detail[d].of = r
          /\ DOMAIN detail' \subseteq DOMAIN detail \cup {n}
      BY <1>4 DEF Plus, Without, DetailsOf, Unused
    <3>2. \A d \in DOMAIN detail : d = n \/ d \notin DOMAIN detail' =>
             TicketsAt(detail[d].of, detail[d].bank) \subseteq superseded'
      BY <1>2, <2>1, <3>1 DEF TicketsAt, TicketsTo
    <3>3. /\ superseded \subseteq superseded' /\ tickets \subseteq tickets'
          /\ \A t \in tickets' \ tickets : FALSE
      BY <1>1, <1>2, <2>1
    <3> HIDE DEF new
    <3>4. DetailTable' /\ DestinationKept'
      BY <1>4, <1>5, <1>8, <3>0, <3>1, <3>2, <3>3, DetailsWritten
    <3>5. \A j \in Handlers \ {h} : DetailKept(Refers(req[j])) /\ BankKept(j)
      BY <1>2, <1>4, <2>1, <3>0, <3>1, WatchersKept
    <3> QED BY <3>1, <3>4, <3>5
  <2>2. CASE ~req[h].details
    BY <1>1, <1>2, <1>8, <2>2 DEF IInv, DetailTable, DestinationKept, DetailsAt, DetailsOf,
                                  DetailKept, BankKept
  <2> QED BY <2>1, <2>2
<1>12. AccountTable' /\ AccountsWithinLimit' /\ SealsKept /\ Counted'
  BY <1>1, AccountsUntouched
<1>13. Requests' /\ Names'
  BY <1>1, <1>3, <1>8, <1>10, <1>11, <1>12, AnswerStep DEF n
<1> QED BY <1>10, <1>11, <1>12, <1>13 DEF IInv

LEMMA UpdateDetailSaveCorrect ==
  ASSUME IInv, NEW h \in Handlers, UpdateDetailSave(h)
  PROVE  IInv'
<1> DEFINE c == req[h].change
           n == IF c.detail = 0 THEN req[h].id ELSE c.detail
           r == req[h].of
           row == [of |-> r, bank |-> c.bank, number |-> c.number]
<1>1. /\ req[h].step = "detailSave"
      /\ c.detail # 0 => c.detail \in DOMAIN detail
      /\ detail' = Plus(detail, n, row)
      /\ superseded' = IF c.detail = 0 THEN superseded
                       ELSE superseded \cup TicketsAt(r, detail[c.detail].bank)
      /\ req' = [req EXCEPT ![h] = Idle] /\ stale \ {h} \subseteq stale' /\ asked' = asked
      /\ Watching(r) \ {h} \subseteq stale'
      /\ account' = account /\ late' = late /\ sealer' = sealer /\ edited' = edited
      /\ tickets' = tickets /\ recipient' = recipient
  BY DEF UpdateDetailSave, AnswerStaling, At, NoDetail
<1>2. req[h].step \in Makers /\ Busy(req[h], asked)
  BY <1>1 DEF IInv, Requests, Makers, Steps
<1>3. req[h].id \in Ids /\ Unused(req[h].id) /\ c \in Change
  <2>1. Unused(req[h].id)
    BY <1>2 DEF IInv, Names
  <2> QED BY <1>1, <1>2, <2>1, WalletAssumption DEF Busy, Ids, IInv, Requests
<1>4. /\ r \in DOMAIN recipient /\ r \in Ids
      /\ c.detail \in DOMAIN detail => detail[c.detail].of = r
  BY <1>1 DEF IInv, Requests, Knows, RecipientTable
<1>5. n \in Ids /\ row \in Detail /\ row.of = r
  BY <1>3, <1>4 DEF Change, Detail
<1>6. /\ n \in DOMAIN detail' /\ detail'[n] = row
      /\ \A d \in DOMAIN detail' \ {n} : d \in DOMAIN detail /\ detail'[d] = detail[d]
      /\ DOMAIN detail \subseteq DOMAIN detail'
      /\ DOMAIN detail' \subseteq DOMAIN detail \cup {req[h].id}
  <2> HIDE DEF row
  <2> QED BY <1>1 DEF Plus
<1>7. \/ Unused(n)
      \/ n \in DOMAIN detail /\ detail[n].of = row.of /\ Watching(row.of) \ {h} \subseteq stale'
  BY <1>1, <1>3, <1>4
<1>8. \A d \in DOMAIN detail :
         d = n \/ d \notin DOMAIN detail' =>
            TicketsAt(detail[d].of, detail[d].bank) \subseteq superseded'
  <2>1. n \in DOMAIN detail => n = c.detail /\ c.detail # 0 /\ detail[n].of = r
    BY <1>3, <1>4 DEF Unused
  <2> QED BY <1>1, <1>6, <2>1
<1>9. /\ superseded \subseteq superseded' /\ tickets \subseteq tickets'
      /\ \A t \in tickets' \ tickets : FALSE
  BY <1>1
<1> HIDE DEF n, row
<1>10. DetailTable' /\ DestinationKept'
  BY <1>1, <1>4, <1>5, <1>6, <1>8, <1>9, DetailsWritten
<1>11. \A j \in Handlers \ {h} : DetailKept(Refers(req[j])) /\ BankKept(j)
  BY <1>5, <1>6, <1>7, WatchersKept
<1>12. RecipientTable' /\ SelfRecipientIsHolder' /\ RecipientsKept
  BY <1>1 DEF IInv, RecipientTable, SelfRecipientIsHolder, OrderedTo, RecipientsKept
<1>13. AccountTable' /\ AccountsWithinLimit' /\ SealsKept /\ Counted'
  BY <1>1, AccountsUntouched
<1>14. Requests' /\ Names'
  BY <1>1, <1>2, <1>6, <1>11, <1>12, <1>13, AnswerStep
<1> QED BY <1>10, <1>12, <1>13, <1>14 DEF IInv

-----------------------------------------------------------------------------
(* Orders. *)

LEMMA SelfFindCorrect ==
  ASSUME IInv, NEW h \in Handlers, SelfFind(h)
  PROVE  IInv'
<1> DEFINE row == req[h].row
           a == req[h].account
           u == req[h].by
           R == {r \in DOMAIN recipient : \/ recipient[r].ident = SelfIdent(row, u)
                                          \/ recipient[r].mail = SelfMail(row)}
           f(r) == [step |-> "selfCommit", id |-> req[h].id, by |-> u, row |-> row,
                    account |-> a, found |-> r]
<1>1. req[h].step = "selfFind" /\ UNCHANGED <<tables, asked, ghosts>>
  BY DEF SelfFind, At
<1>2. PICK r \in IF R = {} THEN {NoRecipient} ELSE R : Then(h, f(r))
  BY DEF SelfFind
<1>3. req[h].step \in Makers /\ Busy(req[h], asked)
  BY <1>1 DEF IInv, Requests, Makers, Steps
<1>4. /\ row \in Account /\ a \in Ids /\ SealedFor(row, a, sealer) /\ u \in Users
      /\ row.holder \in Ids \cup {0} /\ row.mail \in Ids \cup {0}
  BY <1>1, <1>3, AccountFields DEF Busy, IInv, Requests, Knows
<1>5. ASSUME r # 0, r \notin edited, row.mail # 0
      PROVE  recipient[r].ident = <<"user", u>> \/ HolderOf(recipient[r], a, tickets, sealer)
  <2>1. r \in DOMAIN recipient
    BY <1>2, <1>5 DEF NoRecipient
  <2>2. CASE recipient[r].ident = SelfIdent(row, u)
    BY <1>4, <2>2 DEF SelfIdent, HolderOf, SealedFor
  <2>3. CASE recipient[r].mail = SelfMail(row)
    <3>1. recipient[r].mail = <<"seal", row.mail>> /\ row.mail \in Ids
      BY <1>4, <1>5, <2>3 DEF SelfMail
    <3>2. HolderOf(recipient[r], sealer[row.mail], tickets, sealer)
      BY <1>5, <2>1, <3>1 DEF IInv, RecipientTable
    <3>3. sealer[row.mail] = a
      BY <1>4, <1>5 DEF SealedFor
    <3> QED BY <3>2, <3>3
  <2> QED BY <1>2, <1>5, <2>2, <2>3 DEF NoRecipient
<1>6. Busy(f(r), asked) /\ Refers(f(r)) = 0 /\ f(r).id = req[h].id /\ f(r).step \in Makers
      /\ f(r).step \notin {"accountCheck", "accountInsert"}
  BY <1>3, <1>4 DEF Busy, Steps, PersonSteps, Refers, Makers
<1>7. Knows(f(r), h \in stale, recipient, detail, sealer, edited, tickets)
  BY <1>2, <1>4, <1>5 DEF Knows, NoRecipient
<1> HIDE DEF f
<1> QED BY <1>1, <1>2, <1>3, <1>6, <1>7, ThenStep

LEMMA SelfCommitCorrect ==
  ASSUME IInv, NEW h \in Handlers, SelfCommit(h)
  PROVE  IInv'
<1> DEFINE row == req[h].row
           a == req[h].account
           u == req[h].by
           n == req[h].id
           fresh == req[h].found = 0
           r == IF fresh THEN n ELSE req[h].found
           ident == SelfIdent(row, u)
           mail == SelfMail(row)
           new == [ident |-> ident, mail |-> mail, active |-> TRUE]
           ticket == [id |-> n, of |-> r, by |-> u, account |-> a,
                      ownMail |-> row.mail # 0]
<1>1. /\ req[h].step = "selfCommit"
      /\ fresh => IdentFree(ident, r) /\ MailFree(mail, r)
      /\ recipient' = IF fresh THEN Plus(recipient, r, new) ELSE recipient
      /\ tickets' = tickets \cup {ticket}
      /\ req' = [req EXCEPT ![h] = Idle] /\ stale \ {h} \subseteq stale' /\ asked' = asked
      /\ account' = account /\ late' = late /\ sealer' = sealer /\ edited' = edited
      /\ detail' = detail /\ superseded' = superseded
  BY DEF SelfCommit, Answer, At, ghosts, NoRecipient
<1>2. req[h].step \in Makers /\ Busy(req[h], asked)
  BY <1>1 DEF IInv, Requests, Makers, Steps
<1>3. /\ row \in Account /\ a \in Ids /\ SealedFor(row, a, sealer) /\ u \in Users /\ row.owner \in Users
      /\ row.holder \in Ids \cup {0} /\ row.mail \in Ids \cup {0}
  BY <1>1, <1>2, AccountFields DEF Busy, IInv, Requests, Knows
<1>4. n \in Ids /\ Unused(n)
  <2>1. Unused(n)
    BY <1>2 DEF IInv, Names
  <2> QED BY <1>1, <1>2, <2>1, WalletAssumption DEF Busy, Ids, IInv, Requests
<1>5. ~fresh => /\ req[h].found \in DOMAIN recipient
                /\ \/ req[h].found \in edited \/ row.mail = 0
                   \/ recipient[req[h].found].ident = <<"user", u>>
                   \/ HolderOf(recipient[req[h].found], a, tickets, sealer)
  BY <1>1 DEF IInv, Requests, Knows
<1>6. new \in Recipient /\ new.ident = ident /\ new.mail = mail
  <2>1. ident \in Idents /\ mail \in Mails
    BY <1>3 DEF SelfIdent, SelfMail, Idents, Mails
  <2> HIDE DEF ident, mail
  <2> QED BY <2>1 DEF Recipient
<1>7. \/ new.ident = <<"user", u>>
      \/ \E k \in Ids : new.ident = <<"seal", k>> /\ sealer[k] = a
  BY <1>3 DEF SelfIdent, SealedFor
<1>8. \A m \in Ids : mail = <<"seal", m>> =>
         sealer[m] # 0 /\ sealer[m] = a
  <2>1. \A m \in Ids : mail = <<"seal", m>> => m = row.mail /\ row.mail # 0
    BY <1>3, IdsArePositive DEF SelfMail
  <2>2. a # 0
    BY <1>3, IdsArePositive
  <2> QED BY <1>3, <2>1, <2>2 DEF SealedFor
<1>9. fresh => \A s \in DOMAIN recipient : recipient[s].ident # ident /\ recipient[s].mail # mail
  BY <1>1, <1>4 DEF IdentFree, MailFree, Unused
<1>10. /\ fresh => /\ DOMAIN recipient' = DOMAIN recipient \cup {n} /\ recipient'[n] = new
                   /\ n \notin DOMAIN recipient /\ r = n
       /\ \A s \in DOMAIN recipient : s \in DOMAIN recipient' /\ recipient'[s] = recipient[s]
       /\ ~fresh => recipient' = recipient /\ r \in DOMAIN recipient
  BY <1>1, <1>4, <1>5 DEF Plus, Unused
<1> HIDE DEF new, ident, mail
<1>11. /\ ticket \in SelfTicket /\ ticket.of = r /\ r \in DOMAIN recipient'
       /\ ~Third(ticket) /\ ticket.account = a /\ ticket.by = u
       /\ ticket.ownMail = (row.mail # 0)
  <2>1. r \in DOMAIN recipient' /\ r \in Ids
    BY <1>4, <1>10 DEF IInv, RecipientTable
  <2>2. ticket \in SelfTicket
    BY <1>3, <1>4, <2>1 DEF SelfTicket
  <2> QED BY <2>1, <2>2, TicketKinds
<1>12. /\ fresh => HolderOf(recipient'[r], a, tickets', sealer)
       /\ r \notin edited /\ row.mail # 0 => HolderOf(recipient'[r], a, tickets', sealer)
  <2> HIDE DEF ticket
  <2>1. recipient'[r].ident = <<"user", u>> => HolderOf(recipient'[r], a, tickets', sealer)
    BY <1>1, <1>11 DEF HolderOf
  <2>2. tickets \subseteq tickets'
    BY <1>1
  <2>3. CASE fresh
    BY <1>7, <1>10, <2>1, <2>3 DEF HolderOf
  <2>4. CASE ~fresh /\ r \notin edited /\ row.mail # 0
    BY <1>5, <1>10, <2>1, <2>2, <2>4 DEF HolderOf
  <2> QED BY <2>3, <2>4
<1>13. RecipientTable' /\ SelfRecipientIsHolder' /\ RecipientsKept
  <2> DEFINE S == IF fresh THEN {n} ELSE {}
  <2>1. \A s \in DOMAIN recipient' : recipient'[s] \in Recipient
    BY <1>6, <1>10 DEF IInv, RecipientTable
  <2>2. \A s, q \in DOMAIN recipient' :
           \/ recipient'[s].ident = recipient'[q].ident
           \/ recipient'[s].mail = recipient'[q].mail
           => s = q
    BY <1>6, <1>9, <1>10 DEF IInv, RecipientTable
  <2>3. /\ S \in SUBSET Ids /\ DOMAIN recipient' = DOMAIN recipient \cup S
        /\ \A s \in S : s \notin DOMAIN recipient
        /\ \A s \in S, m \in Ids :
              recipient'[s].mail = <<"seal", m>> =>
                 /\ sealer[m] # 0
                 /\ HolderOf(recipient'[s], sealer[m], tickets', sealer)
    BY <1>4, <1>6, <1>8, <1>10, <1>12
  <2>4. \A s \in DOMAIN recipient : /\ recipient'[s].ident = recipient[s].ident
                                    /\ recipient'[s].mail = recipient[s].mail
    BY <1>10
  <2>5. /\ tickets \subseteq tickets' /\ edited \subseteq edited' /\ sealer' = sealer
        /\ \A t \in tickets' \ tickets : t = ticket
    BY <1>1
  <2>6. \A t \in tickets' \ tickets :
           ~Third(t) /\ t.ownMail /\ t.of \notin edited' =>
              HolderOf(recipient'[t.of], t.account, tickets', sealer)
    <3> HIDE DEF ticket
    <3> QED BY <1>1, <1>11, <1>12, <2>5
  <2> HIDE DEF S
  <2> QED BY <2>1, <2>2, <2>3, <2>4, <2>5, <2>6, RecipientsWritten
<1>14. DetailTable' /\ DestinationKept'
  <2> HIDE DEF ticket
  <2>1. DetailTable'
    BY <1>1, <1>10, <1>11 DEF IInv, DetailTable
  <2>2. DestinationKept'
    BY <1>1, <1>11 DEF IInv, DestinationKept, DetailsAt, DetailsOf
  <2> QED BY <2>1, <2>2
<1>15. AccountTable' /\ AccountsWithinLimit' /\ SealsKept /\ Counted'
  BY <1>1, AccountsUntouched
<1>16. Requests' /\ Names'
  <2>1. \A k \in Handlers : DetailKept(Refers(req[k])) /\ BankKept(k)
    BY <1>1 DEF DetailKept, BankKept
  <2>2. DOMAIN recipient' \subseteq DOMAIN recipient \cup {n}
    BY <1>10
  <2>3. /\ req' = [req EXCEPT ![h] = Idle] /\ stale \ {h} \subseteq stale' /\ asked' = asked
        /\ DOMAIN account' \subseteq DOMAIN account \cup {n}
        /\ DOMAIN detail' \subseteq DOMAIN detail \cup {n}
        /\ \A k \in Ids \ {n} : sealer'[k] = sealer[k]
    BY <1>1
  <2> HIDE DEF ticket, r, fresh, row, a
  <2> QED BY <1>2, <1>13, <1>15, <2>1, <2>2, <2>3, AnswerStep DEF n
<1> QED BY <1>13, <1>14, <1>15, <1>16 DEF IInv

LEMMA ThirdCommitCorrect ==
  ASSUME IInv, NEW h \in Handlers, ThirdCommit(h)
  PROVE  IInv'
<1> DEFINE f == req[h]
           n == req[h].id
           p == req[h].person
           fresh == req[h].found = 0
           r == IF fresh THEN n ELSE req[h].found
           d == IF req[h].detail = 0 THEN n ELSE req[h].detail
           mail == MailFor(p, req[h].mail)
           new == [ident |-> <<"doc", p>>, mail |-> mail, active |-> TRUE]
           row == [of |-> r, bank |-> req[h].bank, number |-> req[h].number]
           ticket == [id |-> n, of |-> r, bank |-> req[h].bank, number |-> req[h].number]
<1>1. /\ req[h].step = "thirdCommit"
      /\ fresh => IdentFree(<<"doc", p>>, r) /\ MailFree(mail, r)
      /\ f.detail # 0 => d \in DOMAIN detail
      /\ recipient' = IF fresh THEN Plus(recipient, r, new) ELSE recipient
      /\ detail' = Plus(detail, d, row)
      /\ tickets' = tickets \cup {ticket}
      /\ superseded' = superseded \cup (IF h \in stale THEN TicketsTo(r) ELSE TicketsAt(r, f.bank))
      /\ req' = [req EXCEPT ![h] = Idle] /\ stale \ {h} \subseteq stale' /\ asked' = asked
      /\ Watching(r) \ {h} \subseteq stale'
      /\ account' = account /\ late' = late /\ sealer' = sealer /\ edited' = edited
  BY DEF ThirdCommit, AnswerStaling, At, NoRecipient, NoDetail
<1>2. req[h].step \in Makers /\ Busy(req[h], asked)
  BY <1>1 DEF IInv, Requests, Makers, Steps
<1>3. n \in Ids /\ Unused(n) /\ (fresh => p \in Persons) /\ f.mail \in Users \cup {Keep}
      /\ f.bank \in Insts /\ f.number \in Numbers
  <2>1. Unused(n)
    BY <1>2 DEF IInv, Names
  <2> QED BY <1>1, <1>2, <2>1, WalletAssumption DEF Busy, PersonSteps, Ids, IInv, Requests
<1>4. /\ ~fresh => f.found \in DOMAIN recipient
      /\ fresh => f.detail = 0
      /\ f.detail \in DOMAIN detail => detail[f.detail].of = f.found
      /\ f.detail \in DOMAIN detail /\ h \notin stale => detail[f.detail].bank = f.bank
  BY <1>1 DEF IInv, Requests, Knows
<1>5. fresh => /\ new \in Recipient /\ new.ident = <<"doc", p>> /\ new.mail = mail
               /\ \A m \in Ids : new.mail # <<"seal", m>>
  BY <1>3, MailForIsPlain DEF Recipient
<1>6. fresh => \A s \in DOMAIN recipient : recipient[s].ident # new.ident /\ recipient[s].mail # new.mail
  BY <1>1, <1>3, <1>5 DEF IdentFree, MailFree, Unused
<1>7. /\ fresh => /\ DOMAIN recipient' = DOMAIN recipient \cup {n} /\ recipient'[n] = new
                  /\ n \notin DOMAIN recipient /\ r = n
      /\ \A s \in DOMAIN recipient : s \in DOMAIN recipient' /\ recipient'[s] = recipient[s]
      /\ ~fresh => recipient' = recipient /\ r \in DOMAIN recipient
      /\ r \in DOMAIN recipient'
  <2> HIDE DEF new
  <2> QED BY <1>1, <1>3, <1>4 DEF Plus, Unused
<1>8. r \in Ids /\ d \in Ids /\ row \in Detail /\ row.of = r /\ row.bank = f.bank
      /\ row.number = f.number
  <2>1. r \in Ids
    BY <1>3, <1>7 DEF IInv, RecipientTable
  <2>2. d \in Ids
    BY <1>1, <1>3 DEF IInv, DetailTable
  <2> QED BY <1>3, <2>1, <2>2 DEF Detail
<1>9. /\ d \in DOMAIN detail' /\ detail'[d] = row
      /\ \A e \in DOMAIN detail' \ {d} : e \in DOMAIN detail /\ detail'[e] = detail[e]
      /\ DOMAIN detail \subseteq DOMAIN detail'
      /\ DOMAIN detail' \subseteq DOMAIN detail \cup {n}
  <2> HIDE DEF row
  <2> QED BY <1>1 DEF Plus
<1>10. d \in DOMAIN detail => d = f.detail /\ detail[d].of = r
  BY <1>1, <1>3, <1>4, IdsArePositive DEF Unused, IInv, DetailTable
<1>11. \/ Unused(d)
       \/ d \in DOMAIN detail /\ detail[d].of = row.of /\ Watching(row.of) \ {h} \subseteq stale'
  BY <1>1, <1>3, <1>8, <1>10
<1>12. \A e \in DOMAIN detail :
          e = d \/ e \notin DOMAIN detail' =>
             TicketsAt(detail[e].of, detail[e].bank) \subseteq superseded'
  <2> SUFFICES ASSUME d \in DOMAIN detail
               PROVE  TicketsAt(detail[d].of, detail[d].bank) \subseteq superseded'
    BY <1>9
  <2>1. CASE h \in stale
    BY <1>1, <1>10, <2>1 DEF TicketsAt, TicketsTo
  <2>2. CASE h \notin stale
    <3>1. detail[d].of = r /\ detail[d].bank = f.bank
      BY <1>4, <1>10, <2>2
    <3> QED BY <1>1, <2>2, <3>1
  <2> QED BY <2>1, <2>2
<1>13. ticket \in ThirdTicket /\ ticket.of = r /\ ticket.bank = row.bank /\ ticket.number = row.number
       /\ Third(ticket)
  <2>1. ticket \in ThirdTicket
    BY <1>3, <1>8 DEF ThirdTicket
  <2> QED BY <2>1, <1>8, TicketKinds
<1>14. /\ superseded \subseteq superseded' /\ tickets \subseteq tickets' /\ edited \subseteq edited'
       /\ \A t \in tickets' \ tickets : t = ticket
       /\ sealer' = sealer /\ account' = account /\ late' = late
       /\ req' = [req EXCEPT ![h] = Idle] /\ stale \ {h} \subseteq stale' /\ asked' = asked
       /\ DOMAIN account' \subseteq DOMAIN account \cup {n}
       /\ DOMAIN recipient' \subseteq DOMAIN recipient \cup {n}
       /\ DOMAIN recipient \subseteq DOMAIN recipient'
       /\ \A k \in Ids \ {n} : sealer'[k] = sealer[k]
  BY <1>1, <1>7
<1>15. RecipientTable' /\ SelfRecipientIsHolder' /\ RecipientsKept
  <2> DEFINE S == IF fresh THEN {n} ELSE {}
  <2> HIDE DEF new, mail, row, ticket, d
  <2>1. \A s \in DOMAIN recipient' : recipient'[s] \in Recipient
    BY <1>5, <1>7 DEF IInv, RecipientTable
  <2>2. \A s, q \in DOMAIN recipient' :
           \/ recipient'[s].ident = recipient'[q].ident
           \/ recipient'[s].mail = recipient'[q].mail
           => s = q
    BY <1>6, <1>7 DEF IInv, RecipientTable
  <2>3. /\ S \in SUBSET Ids /\ DOMAIN recipient' = DOMAIN recipient \cup S
        /\ \A s \in S : s \notin DOMAIN recipient
        /\ \A s \in S, m \in Ids :
              recipient'[s].mail = <<"seal", m>> =>
                 /\ sealer[m] # 0
                 /\ HolderOf(recipient'[s], sealer[m], tickets', sealer)
    BY <1>3, <1>5, <1>7
  <2>4. \A s \in DOMAIN recipient : /\ recipient'[s].ident = recipient[s].ident
                                    /\ recipient'[s].mail = recipient[s].mail
    BY <1>7
  <2>5. \A t \in tickets' \ tickets : Third(t)
    BY <1>13, <1>14
  <2> HIDE DEF S, r, fresh, n, p, f
  <2> QED BY <1>14, <2>1, <2>2, <2>3, <2>4, <2>5, RecipientsWritten
<1> HIDE DEF new, mail, row, ticket, d, r, fresh, p, f
<1>16. DetailTable' /\ DestinationKept'
  <2>1. \A t \in tickets' \ tickets :
           /\ t \in SelfTicket \cup ThirdTicket /\ t.of \in DOMAIN recipient'
           /\ Third(t) => t.of = row.of /\ t.bank = row.bank /\ t.number = row.number
    BY <1>7, <1>8, <1>13, <1>14
  <2> QED BY <1>7, <1>8, <1>9, <1>12, <1>14, <2>1, DetailsWritten
<1>17. \A k \in Handlers \ {h} : DetailKept(Refers(req[k])) /\ BankKept(k)
  BY <1>8, <1>9, <1>11, WatchersKept
<1>18. AccountTable' /\ AccountsWithinLimit' /\ SealsKept /\ Counted'
  BY <1>14, AccountsUntouched
<1>19. Requests' /\ Names'
  <2>1. /\ req' = [req EXCEPT ![h] = Idle] /\ stale \ {h} \subseteq stale' /\ asked' = asked
        /\ DOMAIN account' \subseteq DOMAIN account \cup {n}
        /\ DOMAIN recipient' \subseteq DOMAIN recipient \cup {n}
        /\ DOMAIN detail' \subseteq DOMAIN detail \cup {n}
        /\ \A k \in Ids \ {n} : sealer'[k] = sealer[k]
    BY <1>9, <1>14
  <2>2. RecipientsKept /\ SealsKept
    BY <1>15, <1>18
  <2> QED BY <1>2, <1>17, <2>1, <2>2, AnswerStep DEF n
<1> QED BY <1>15, <1>16, <1>18, <1>19 DEF IInv

-----------------------------------------------------------------------------
(* The invariant. *)

LEMMA InitCorrect == Init => IInv
<1> SUFFICES ASSUME Init PROVE IInv
  OBVIOUS
<1>1. /\ DOMAIN account = {} /\ DOMAIN recipient = {} /\ DOMAIN detail = {} /\ tickets = {}
      /\ DOMAIN req = Handlers /\ \A h \in Handlers : req[h] = Idle
      /\ asked = 0 /\ sealer = [i \in Ids |-> 0] /\ late = [u \in Users |-> 0]
  BY DEF Init, Empty
<1>2. AccountTable /\ RecipientTable /\ DetailTable
  BY <1>1 DEF AccountTable, RecipientTable, DetailTable
<1>3. Requests /\ Counted
  BY <1>1, IdleIsFine, WalletAssumption DEF Requests, Counted
<1>4. Names
  BY <1>1, IdleIsFine, IdsArePositive DEF Names, Unused
<1>5. AccountsWithinLimit
  <2>1. \A u : AccountsOf(u) = {}
    BY <1>1 DEF AccountsOf
  <2>2. \A u \in Users : late[u] = 0
    BY <1>1
  <2>3. Cardinality({}) = 0
    BY FS_EmptySet
  <2>4. \A u \in Users : Cardinality(AccountsOf(u)) <= Limit + late[u]
    BY <2>1, <2>2, <2>3, WalletAssumption
  <2> QED BY <2>4 DEF AccountsWithinLimit
<1>6. SelfRecipientIsHolder
  <2>1. \A t \in {x \in tickets : ~Third(x)} : FALSE
    BY <1>1
  <2> QED BY <2>1 DEF SelfRecipientIsHolder
<1> QED BY <1>1, <1>2, <1>3, <1>4, <1>5, <1>6 DEF IInv, DestinationKept

LEMMA StutterCorrect == IInv /\ UNCHANGED vars => IInv'
<1> SUFFICES ASSUME IInv, UNCHANGED vars PROVE IInv'
  OBVIOUS
<1>1. /\ account' = account /\ recipient' = recipient /\ detail' = detail /\ tickets' = tickets
      /\ late' = late /\ edited' = edited /\ superseded' = superseded /\ sealer' = sealer
      /\ req' = req /\ asked' = asked /\ stale' = stale
  BY DEF vars, tables, ghosts
<1>2. Requests' /\ Counted' /\ Names'
  BY <1>1 DEF IInv, Requests, Counted, Names, Unused, AccountsOf
<1>3. AccountTable' /\ RecipientTable' /\ DetailTable'
  BY <1>1 DEF IInv, AccountTable, RecipientTable, DetailTable
<1>4. AccountsWithinLimit' /\ SelfRecipientIsHolder' /\ DestinationKept'
  BY <1>1 DEF IInv, AccountsWithinLimit, SelfRecipientIsHolder, OrderedTo, DestinationKept, AccountsOf,
              DetailsAt, DetailsOf
<1> QED BY <1>2, <1>3, <1>4 DEF IInv

LEMMA StepCorrect == IInv /\ [Next]_vars => IInv'
<1> SUFFICES ASSUME IInv, [Next]_vars PROVE IInv'
  OBVIOUS
<1>1. ASSUME NEW h \in Handlers, Statement(h) PROVE IInv'
  BY <1>1, CreateAccountCheckCorrect, CreateAccountInsertCorrect, UpdateAccountSaveCorrect,
     DeleteAccountCorrect, ToggleAccountCorrect, CreateRecipientInsertCorrect,
     ReactivateCorrect, UpdateDetailSaveCorrect, SelfFindCorrect, SelfCommitCorrect,
     ThirdCommitCorrect DEF Statement
<1>2. ASSUME NEW h \in Handlers, AccountRequest(h) \/ RecipientRequest(h) \/ Fail(h) PROVE IInv'
  BY <1>2, AccountRequestCorrect, RecipientRequestCorrect, FailCorrect
<1>3. CASE UNCHANGED vars
  BY <1>3, StutterCorrect
<1> QED BY <1>1, <1>2, <1>3 DEF Next

LEMMA InvariantHolds == Spec => []IInv
BY InitCorrect, StepCorrect, PTL DEF Spec

(* The tables keep rows of their types, their unique columns unique, and
   details and tickets the recipients they point to. *)
THEOREM WalletHolds == Spec => []WalletCorrect
<1>1. IInv => WalletCorrect
  BY DEF IInv, AccountTable, RecipientTable, DetailTable, Requests, Busy, WalletCorrect
<1> QED BY <1>1, InvariantHolds, PTL

(* However many requests race, a client exceeds the limit of accounts only by
   those whose insert another insert of its own overtook. *)
THEOREM LimitHolds == Spec => []AccountsWithinLimit
<1>1. IInv => AccountsWithinLimit
  BY DEF IInv
<1> QED BY <1>1, InvariantHolds, PTL

(* The seals of a recipient lead back to the account an order was made with,
   whoever ordered and whatever happened to that account since; a recipient
   without a seal is a client who ordered to that account. *)
THEOREM HolderHolds == Spec => []SelfRecipientIsHolder
<1>1. IInv => SelfRecipientIsHolder
  BY DEF IInv
<1> QED BY <1>1, InvariantHolds, PTL

(* The destination of a ticket stays where its recipient keeps it until an
   order or an edit for that recipient replaces it. *)
THEOREM DestinationHolds == Spec => []DestinationKept
<1>1. IInv => DestinationKept
  BY DEF IInv
<1> QED BY <1>1, InvariantHolds, PTL

=============================================================================
