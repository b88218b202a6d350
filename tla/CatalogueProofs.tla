--------------------------- MODULE CatalogueProofs ---------------------------
(***************************************************************************)
(* Proofs about the catalogue of payment methods, for any numbers of       *)
(* institutions, rates, rows and requests in flight.                       *)
(*                                                                         *)
(* What the four properties need to be inductive is what a request between *)
(* two statements knows: as long as nothing it read was written since, the *)
(* pair it is to write is still free, the row it found is still as it was, *)
(* and the fee is still the fee.                                           *)
(***************************************************************************)
EXTENDS CatalogueProperties, TLAPS

Change == [rate : Rates \cup {None}, method : Ids \cup {None}, fee : Fees \cup {None}]
FeeIsDue(fee, due) == IF due = {} THEN fee = 0 ELSE fee \in due

\* What a request in flight carries.
Busy(f) ==
  /\ f.step \in Steps
  /\ f.step = "methodInsert" => f.row \in Method
  /\ f.step = "methodSave" => f.row \in MethodChanges
  /\ f.step = "linkInsert" => f.row \in Link
  /\ f.step \in {"linkCheck", "linkSave"} => f.row \in Change
  /\ f.step = "linkSwitch" => f.active \in BOOLEAN
  /\ f.step \in {"orderAccount", "orderInsert"} => f.rate \in Rates /\ f.fee \in Fees \cup {0}
  /\ f.step = "orderInsert" =>
       f.method \in Ids /\ f.due \in SUBSET Fees /\ f.alone \in BOOLEAN

SamePair(l, k) == l.rate = k.rate /\ l.method = k.method
NamedBy(lk, md, r, n) == {l \in DOMAIN lk : lk[l].rate = r /\ md[lk[l].method].inst = n}

\* What a request knows of links lk and methods md while it is not stale.
Knows(f, lk, md) ==
  /\ f.step = "linkInsert" => \A l \in DOMAIN lk : ~SamePair(lk[l], f.row)
  /\ f.step \in {"linkCheck", "linkDelete"} =>
       f.id \in DOMAIN lk /\ SamePair(f.found, lk[f.id])
  /\ f.step = "linkSave" =>
       /\ f.id \in DOMAIN lk
       /\ f.row.rate # None \/ f.row.method # None =>
            \A l \in DOMAIN lk \ {f.id} :
               ~(/\ lk[l].rate = Given(f.row.rate, lk[f.id].rate)
                 /\ lk[l].method = Given(f.row.method, lk[f.id].method))
  /\ f.step = "orderAccount" =>
       FeeIsDue(f.fee, {lk[l].fee : l \in NamedBy(lk, md, f.rate, f.inst)})
  /\ f.step = "orderInsert" => (f.alone => FeeIsDue(f.fee, f.due))

Tables ==
  /\ rates \subseteq Rates
  /\ DOMAIN method \subseteq 1..made.methods
  /\ \A i \in DOMAIN method : method[i] \in Method
  /\ DOMAIN link \subseteq 1..made.links
  /\ \A l \in DOMAIN link : /\ link[l] \in Link
                            /\ link[l].rate \in rates /\ link[l].method \in DOMAIN method
  /\ \A t \in tickets : t \in Ticket /\ t.rate \in rates

Counts == made \in [methods : 0..MaxRows, links : 0..MaxRows]

Requests ==
  /\ DOMAIN req = Handlers
  /\ \A h \in Handlers : Busy(req[h])
  /\ \A h \in Handlers : h \notin stale => Knows(req[h], link, method)

Ghosts == gone \subseteq 1..made.links

IInv == /\ Tables /\ Counts /\ Requests /\ Ghosts
        /\ OneLinkPerPair /\ DeletedLinksGone /\ FeeOfAccount

-----------------------------------------------------------------------------
(* The fields of rows. *)

LEMMA LinkFields ==
  \A l \in Link : l.rate \in Rates /\ l.method \in Ids /\ l.fee \in Fees /\ l.active \in BOOLEAN
BY DEF Link

LEMMA MethodFields ==
  \A m \in Method : /\ m.inst \in Insts /\ m.kind \in Kinds
                    /\ m.number \in Numbers \cup {None} /\ m.active \in BOOLEAN
BY DEF Method

LEMMA CountsUp ==
  ASSUME Counts
  PROVE  /\ made.methods \in Nat /\ made.links \in Nat
         /\ made.methods < MaxRows => [made EXCEPT !.methods = @ + 1] =
              [methods |-> made.methods + 1, links |-> made.links]
         /\ made.links < MaxRows => [made EXCEPT !.links = @ + 1] =
              [methods |-> made.methods, links |-> made.links + 1]
BY CatalogueBounds DEF Counts

-----------------------------------------------------------------------------
(* Requests. *)

\* A statement that only reads: the request goes on with f.
LEMMA ReadStep ==
  ASSUME IInv, NEW h \in Handlers, NEW f, Then(h, f), UNCHANGED <<tables, ghosts>>,
         Busy(f), h \notin stale => Knows(f, link, method)
  PROVE  IInv'
<1>1. /\ method' = method /\ link' = link /\ stale' = stale /\ rates' = rates
      /\ tickets' = tickets /\ made' = made /\ raced' = raced /\ gone' = gone
  BY DEF Then, tables, ghosts
<1>2. DOMAIN req = Handlers /\ req' = [req EXCEPT ![h] = f]
  BY DEF IInv, Requests, Then
<1>3. DOMAIN req' = Handlers /\ \A k \in Handlers : req'[k] = IF k = h THEN f ELSE req[k]
  BY <1>2
<1>4. Requests'
  <2>1. \A k \in Handlers : Busy(req'[k])
    BY <1>3 DEF IInv, Requests
  <2>2. \A k \in Handlers : k \notin stale => Knows(req'[k], link, method)
    BY <1>3 DEF IInv, Requests
  <2> QED BY <1>1, <1>3, <2>1, <2>2 DEF Requests
<1>5. Tables' /\ Counts' /\ Ghosts'
  BY <1>1 DEF IInv, Tables, Counts, Ghosts
<1>6. OneLinkPerPair' /\ DeletedLinksGone' /\ FeeOfAccount'
  BY <1>1 DEF IInv, OneLinkPerPair, DeletedLinksGone, FeeOfAccount
<1> QED BY <1>4, <1>5, <1>6 DEF IInv

LEMMA IdleIsFine == Busy(Idle) /\ \A lk, md : Knows(Idle, lk, md)
BY DEF Busy, Knows, Idle, Steps

\* A statement that writes links makes everybody stale whose reads it touched.
LEMMA LinksWritten ==
  ASSUME IInv, NEW h \in Handlers, AnswerStaling(h, LinkSteps)
  PROVE  Requests'
<1>1. DOMAIN req' = Handlers /\ \A k \in Handlers : req'[k] = IF k = h THEN Idle ELSE req[k]
  BY DEF IInv, Requests, AnswerStaling
<1>2. \A k \in Handlers : Busy(req'[k])
  BY <1>1, IdleIsFine DEF IInv, Requests
<1>3. ASSUME NEW k \in Handlers, k \notin stale'
      PROVE  Knows(req'[k], link', method')
  <2>1. CASE k = h
    BY <1>1, <2>1, IdleIsFine
  <2>2. CASE k # h
    <3>1. k \notin stale /\ req[k].step \notin LinkSteps /\ req'[k] = req[k]
      BY <1>1, <1>3, <2>2 DEF AnswerStaling
    <3>2. Knows(req[k], link, method)
      BY <3>1 DEF IInv, Requests
    <3> QED BY <3>1, <3>2 DEF Knows, LinkSteps, OrderSteps
  <2> QED BY <2>1, <2>2
<1> QED BY <1>1, <1>2, <1>3 DEF Requests

\* A statement that leaves the pairs of links alone makes the orders stale.
LEMMA OthersWritten ==
  ASSUME IInv, NEW h \in Handlers, AnswerStaling(h, OrderSteps),
         DOMAIN link' = DOMAIN link, \A l \in DOMAIN link : SamePair(link'[l], link[l])
  PROVE  Requests'
<1>1. DOMAIN req' = Handlers /\ \A k \in Handlers : req'[k] = IF k = h THEN Idle ELSE req[k]
  BY DEF IInv, Requests, AnswerStaling
<1>2. \A k \in Handlers : Busy(req'[k])
  BY <1>1, IdleIsFine DEF IInv, Requests
<1>3. ASSUME NEW k \in Handlers, k \notin stale'
      PROVE  Knows(req'[k], link', method')
  <2>1. CASE k = h
    BY <1>1, <2>1, IdleIsFine
  <2>2. CASE k # h
    <3>1. k \notin stale /\ req[k].step \notin OrderSteps /\ req'[k] = req[k]
      BY <1>1, <1>3, <2>2 DEF AnswerStaling
    <3>2. Knows(req[k], link, method)
      BY <3>1 DEF IInv, Requests
    <3> QED BY <3>1, <3>2 DEF Knows, OrderSteps, SamePair
  <2> QED BY <2>1, <2>2
<1> QED BY <1>1, <1>2, <1>3 DEF Requests

LEMMA IdsOfRows ==
  ASSUME IInv
  PROVE  DOMAIN method \subseteq Ids /\ DOMAIN link \subseteq Ids
BY CatalogueBounds DEF IInv, Tables, Counts, Ids

LEMMA ChangesAreChanges ==
  ASSUME IInv
  PROVE  LinkChanges \subseteq Change
BY IdsOfRows DEF LinkChanges, Change

LEMMA RequestCorrect ==
  ASSUME IInv, NEW h \in Handlers, Request(h)
  PROVE  IInv'
<1>1. ASSUME NEW r \in {m \in Method : m.active}, CreateMethodFind(h, r) PROVE IInv'
  <2> DEFINE f == [step |-> "methodInsert", row |-> r]
  <2>1. Busy(f) /\ Knows(f, link, method)
    BY DEF Busy, Knows, Steps
  <2> QED BY <1>1, <2>1, ReadStep DEF CreateMethodFind, Ask
<1>2. ASSUME NEW i \in DOMAIN method, NEW r \in MethodChanges, UpdateMethodFind(h, i, r) PROVE IInv'
  <2> DEFINE f == [step |-> "methodSave", id |-> i, row |-> r]
  <2>1. Busy(f) /\ Knows(f, link, method)
    BY DEF Busy, Knows, Steps
  <2> QED BY <1>2, <2>1, ReadStep DEF UpdateMethodFind, Ask
<1>3. ASSUME NEW i \in DOMAIN method, DeleteMethodFind(h, i) PROVE IInv'
  <2> DEFINE f == [step |-> "methodDelete", id |-> i]
  <2>1. Busy(f) /\ Knows(f, link, method)
    BY DEF Busy, Knows, Steps
  <2> QED BY <1>3, <2>1, ReadStep DEF DeleteMethodFind, Ask
<1>4. ASSUME NEW r \in {l \in Link : l.active}, CreateLinkFind(h, r) PROVE IInv'
  <2> DEFINE f == [step |-> "linkInsert", row |-> r]
  <2>1. Busy(f) /\ Knows(f, link, method)
    BY <1>4 DEF Busy, Knows, Steps, CreateLinkFind, SamePair
  <2> QED BY <1>4, <2>1, ReadStep DEF CreateLinkFind, Ask
<1>5. ASSUME NEW l \in DOMAIN link, NEW r \in LinkChanges, UpdateLinkFind(h, l, r) PROVE IInv'
  <2> DEFINE f == [step |-> "linkCheck", id |-> l, row |-> r, found |-> link[l]]
  <2>1. Busy(f) /\ Knows(f, link, method)
    BY ChangesAreChanges DEF Busy, Knows, Steps, SamePair
  <2> QED BY <1>5, <2>1, ReadStep DEF UpdateLinkFind, Ask
<1>6. ASSUME NEW l \in DOMAIN link, NEW a \in BOOLEAN, SwitchLinkFind(h, l, a) PROVE IInv'
  <2> DEFINE f == [step |-> "linkSwitch", id |-> l, active |-> a]
  <2>1. Busy(f) /\ Knows(f, link, method)
    BY DEF Busy, Knows, Steps
  <2> QED BY <1>6, <2>1, ReadStep DEF SwitchLinkFind, Ask
<1>7. ASSUME NEW l \in DOMAIN link, DeleteLinkFind(h, l) PROVE IInv'
  <2> DEFINE f == [step |-> "linkDelete", id |-> l, found |-> link[l]]
  <2>1. Busy(f) /\ Knows(f, link, method)
    BY DEF Busy, Knows, Steps, SamePair
  <2> QED BY <1>7, <2>1, ReadStep DEF DeleteLinkFind, Ask
<1>8. ASSUME NEW r \in Rates, NEW n \in Insts, OrderRate(h, r, n) PROVE IInv'
  <2> DEFINE L == LinksNamed(r, n)
  <2>1. L = NamedBy(link, method, r, n) /\ L \subseteq DOMAIN link
    BY DEF LinksNamed, NamedBy
  <2>2. PICK fee \in IF L = {} THEN {0} ELSE {link[l].fee : l \in L} :
             Ask(h, [step |-> "orderAccount", rate |-> r, inst |-> n, fee |-> fee])
    BY <1>8 DEF OrderRate
  <2>3. FeeIsDue(fee, {link[l].fee : l \in L})
    BY DEF FeeIsDue
  <2>4. fee \in Fees \cup {0}
    BY <2>1, LinkFields DEF IInv, Tables
  <2> DEFINE f == [step |-> "orderAccount", rate |-> r, inst |-> n, fee |-> fee]
  <2>5. Busy(f)
    BY <2>4 DEF Busy, Steps
  <2>6. Knows(f, link, method)
    <3> HIDE DEF L
    <3> QED BY <2>1, <2>3 DEF Knows
  <2> QED BY <1>8, <2>2, <2>5, <2>6, ReadStep DEF OrderRate, Ask
<1> QED BY <1>1, <1>2, <1>3, <1>4, <1>5, <1>6, <1>7, <1>8 DEF Request

LEMMA UpdateLinkCheckCorrect ==
  ASSUME IInv, NEW h \in Handlers, UpdateLinkCheck(h)
  PROVE  IInv'
<1> DEFINE f == [step |-> "linkSave", id |-> req[h].id, row |-> req[h].row]
<1>1. Busy(req[h]) /\ req[h].step = "linkCheck" /\ Then(h, f)
  BY DEF IInv, Requests, UpdateLinkCheck, At
<1>2. Busy(f)
  BY <1>1 DEF Busy, Steps
<1>3. h \notin stale => Knows(f, link, method)
  <2>1. SUFFICES ASSUME h \notin stale PROVE Knows(f, link, method)
    OBVIOUS
  <2>2. req[h].id \in DOMAIN link /\ SamePair(req[h].found, link[req[h].id])
    BY <1>1, <2>1 DEF IInv, Requests, Knows
  <2>3. req[h].row.rate # None \/ req[h].row.method # None =>
          ~\E l \in DOMAIN link \ {req[h].id} :
             /\ link[l].rate = Given(req[h].row.rate, req[h].found.rate)
             /\ link[l].method = Given(req[h].row.method, req[h].found.method)
    BY DEF UpdateLinkCheck
  <2> QED BY <2>2, <2>3 DEF Knows, SamePair
<1> QED BY <1>1, <1>2, <1>3, ReadStep DEF UpdateLinkCheck

LEMMA OrderAccountCorrect ==
  ASSUME IInv, NEW h \in Handlers, OrderAccount(h)
  PROVE  IInv'
<1> DEFINE n == req[h].inst
           r == req[h].rate
<1>1. Busy(req[h]) /\ req[h].step = "orderAccount"
  BY DEF IInv, Requests, OrderAccount, At
<1>2. PICK i \in DOMAIN method :
        /\ method[i].inst = n
        /\ Then(h, [step |-> "orderInsert", rate |-> r, fee |-> req[h].fee, method |-> i,
                    due |-> FeesOf(i, r),
                    alone |-> \A j \in DOMAIN method \ {i} : method[j].inst # n])
  BY DEF OrderAccount
<1> DEFINE alone == \A j \in DOMAIN method \ {i} : method[j].inst # n
           f == [step |-> "orderInsert", rate |-> r, fee |-> req[h].fee, method |-> i,
                 due |-> FeesOf(i, r), alone |-> alone]
<1>3. FeesOf(i, r) \in SUBSET Fees
  BY LinkFields DEF FeesOf, LinksOf, IInv, Tables
<1>4. Busy(f)
  BY <1>1, <1>2, <1>3, IdsOfRows DEF Busy, Steps
<1>5. ASSUME h \notin stale, alone PROVE FeeIsDue(req[h].fee, FeesOf(i, r))
  <2>1. FeeIsDue(req[h].fee, {link[l].fee : l \in NamedBy(link, method, r, n)})
    BY <1>1, <1>5 DEF IInv, Requests, Knows
  <2>2. NamedBy(link, method, r, n) = {k \in LinksOf(i) : link[k].rate = r}
    BY <1>2, <1>5 DEF NamedBy, LinksOf, IInv, Tables
  <2> QED BY <2>1, <2>2 DEF FeesOf
<1>6. h \notin stale => Knows(f, link, method)
  BY <1>5 DEF Knows
<1> QED BY <1>2, <1>4, <1>6, ReadStep DEF OrderAccount

LEMMA FailCorrect ==
  ASSUME IInv, NEW h \in Handlers, Fail(h)
  PROVE  IInv'
<1>1. /\ method' = method /\ link' = link /\ stale' = stale \ {h} /\ rates' = rates
      /\ tickets' = tickets /\ made' = made /\ raced' = raced /\ gone' = gone
  BY DEF Fail, Answer, tables, ghosts
<1>2. DOMAIN req' = Handlers /\ \A k \in Handlers : req'[k] = IF k = h THEN Idle ELSE req[k]
  BY DEF IInv, Requests, Fail, Answer
<1>3. Requests'
  <2>1. \A k \in Handlers : Busy(req'[k])
    BY <1>2, IdleIsFine DEF IInv, Requests
  <2>2. \A k \in Handlers : k \notin stale' => Knows(req'[k], link, method)
    BY <1>1, <1>2, IdleIsFine DEF IInv, Requests
  <2> QED BY <1>1, <1>2, <2>1, <2>2 DEF Requests
<1>4. Tables' /\ Counts' /\ Ghosts'
  BY <1>1 DEF IInv, Tables, Counts, Ghosts
<1>5. OneLinkPerPair' /\ DeletedLinksGone' /\ FeeOfAccount'
  BY <1>1 DEF IInv, OneLinkPerPair, DeletedLinksGone, FeeOfAccount
<1> QED BY <1>3, <1>4, <1>5 DEF IInv

-----------------------------------------------------------------------------
(* Payment methods. *)

LEMMA CreateMethodInsertCorrect ==
  ASSUME IInv, NEW h \in Handlers, CreateMethodInsert(h)
  PROVE  IInv'
<1> DEFINE i == made.methods + 1
<1>1. /\ link' = link /\ rates' = rates /\ tickets' = tickets
      /\ raced' = raced /\ gone' = gone /\ method' = Plus(method, i, req[h].row)
      /\ AnswerStaling(h, OrderSteps)
      /\ made' = [methods |-> i, links |-> made.links] /\ i \in 1..MaxRows
  BY CountsUp, CatalogueBounds DEF CreateMethodInsert, ghosts, IInv, Counts
<1>2. req[h].row \in Method
  BY DEF IInv, Requests, Busy, CreateMethodInsert, At
<1>3. Requests'
  BY <1>1, OthersWritten DEF SamePair
<1>4. Counts' /\ Ghosts'
  BY <1>1, CatalogueBounds DEF IInv, Counts, Ghosts
<1>5. DOMAIN method' = DOMAIN method \cup {i} /\ \A j \in DOMAIN method' : method'[j] \in Method
  BY <1>1, <1>2 DEF Plus, IInv, Tables
<1>6. Tables'
  BY <1>1, <1>5, CountsUp DEF IInv, Tables
<1>7. OneLinkPerPair' /\ DeletedLinksGone' /\ FeeOfAccount'
  BY <1>1 DEF IInv, OneLinkPerPair, DeletedLinksGone, FeeOfAccount
<1> QED BY <1>3, <1>4, <1>6, <1>7 DEF IInv

LEMMA UpdateMethodSaveCorrect ==
  ASSUME IInv, NEW h \in Handlers, UpdateMethodSave(h)
  PROVE  IInv'
<1> DEFINE i == req[h].id
           r == req[h].row
           new == [inst |-> Given(r.inst, method[i].inst), kind |-> Given(r.kind, method[i].kind),
                   number |-> method[i].number, active |-> Given(r.active, method[i].active)]
<1>1. /\ link' = link /\ rates' = rates /\ tickets' = tickets /\ made' = made
      /\ raced' = raced /\ gone' = gone /\ AnswerStaling(h, OrderSteps)
      /\ i \in DOMAIN method /\ method' = [method EXCEPT ![i] = new]
  BY DEF UpdateMethodSave, ghosts
<1>2. r \in MethodChanges
  BY DEF IInv, Requests, Busy, UpdateMethodSave, At
<1>3. new \in Method
  <2>1. /\ r.inst \in Insts \cup {None} /\ r.kind \in Kinds \cup {None}
        /\ r.active \in BOOLEAN \cup {None}
    BY <1>2 DEF MethodChanges
  <2>2. /\ method[i].inst \in Insts /\ method[i].kind \in Kinds
        /\ method[i].number \in Numbers \cup {None} /\ method[i].active \in BOOLEAN
    BY <1>1, MethodFields DEF IInv, Tables
  <2>3. /\ Given(r.inst, method[i].inst) \in Insts /\ Given(r.kind, method[i].kind) \in Kinds
        /\ Given(r.active, method[i].active) \in BOOLEAN
    BY <2>1, <2>2 DEF Given
  <2> QED BY <2>2, <2>3 DEF Method
<1>4. Requests'
  BY <1>1, OthersWritten DEF SamePair
<1>5. Counts' /\ Ghosts'
  BY <1>1 DEF IInv, Counts, Ghosts
<1>6. DOMAIN method' = DOMAIN method /\ \A j \in DOMAIN method' : method'[j] \in Method
  <2> HIDE DEF new
  <2> QED BY <1>1, <1>3 DEF IInv, Tables
<1>7. Tables'
  BY <1>1, <1>6 DEF IInv, Tables
<1>8. OneLinkPerPair' /\ DeletedLinksGone' /\ FeeOfAccount'
  BY <1>1 DEF IInv, OneLinkPerPair, DeletedLinksGone, FeeOfAccount
<1> QED BY <1>4, <1>5, <1>7, <1>8 DEF IInv

LEMMA DeleteMethodCorrect ==
  ASSUME IInv, NEW h \in Handlers, DeleteMethod(h)
  PROVE  IInv'
<1> DEFINE i == req[h].id
<1>1. /\ rates' = rates /\ tickets' = tickets /\ made' = made
      /\ raced' = raced /\ gone' = gone /\ AnswerStaling(h, LinkSteps)
      /\ method' = Without(method, {i}) /\ link' = Without(link, LinksOf(i))
  BY DEF DeleteMethod, ghosts
<1>2. Requests'
  BY <1>1, LinksWritten
<1>3. Counts' /\ Ghosts'
  BY <1>1 DEF IInv, Counts, Ghosts
<1>4. /\ DOMAIN link' = {l \in DOMAIN link : link[l].method # i}
      /\ \A l \in DOMAIN link' : link'[l] = link[l]
      /\ DOMAIN method' = DOMAIN method \ {i}
      /\ \A j \in DOMAIN method' : method'[j] = method[j]
  BY <1>1 DEF Without, LinksOf
<1>5. Tables'
  BY <1>1, <1>4 DEF IInv, Tables
<1>6. OneLinkPerPair' /\ DeletedLinksGone' /\ FeeOfAccount'
  BY <1>1, <1>4 DEF IInv, OneLinkPerPair, DeletedLinksGone, FeeOfAccount
<1> QED BY <1>2, <1>3, <1>5, <1>6 DEF IInv

-----------------------------------------------------------------------------
(* Links. *)

LEMMA CreateLinkInsertCorrect ==
  ASSUME IInv, NEW h \in Handlers, CreateLinkInsert(h)
  PROVE  IInv'
<1> DEFINE n == made.links + 1
           r == req[h].row
<1>1. /\ method' = method /\ rates' = rates /\ tickets' = tickets /\ gone' = gone
      /\ link' = Plus(link, n, r) /\ r.rate \in rates /\ r.method \in DOMAIN method
      /\ AnswerStaling(h, LinkSteps)
      /\ raced' = IF h \in stale THEN raced \cup {n} ELSE raced
      /\ made' = [methods |-> made.methods, links |-> n] /\ n \in 1..MaxRows
  BY CountsUp, CatalogueBounds DEF CreateLinkInsert, IInv, Counts
<1>2. r \in Link /\ req[h].step = "linkInsert"
  BY DEF IInv, Requests, Busy, CreateLinkInsert, At
<1>3. Requests'
  BY <1>1, LinksWritten
<1>4. n \notin DOMAIN link /\ n \notin gone
  BY CountsUp DEF IInv, Tables, Ghosts
<1>5. /\ DOMAIN link' = DOMAIN link \cup {n} /\ link'[n] = r
      /\ \A l \in DOMAIN link : link'[l] = link[l]
  BY <1>1, <1>4 DEF Plus
<1>6. Counts' /\ Ghosts'
  BY <1>1, CountsUp, CatalogueBounds DEF IInv, Counts, Ghosts
<1>7. Tables'
  <2>1. DOMAIN link' \subseteq 1..n
    BY <1>5, CountsUp DEF IInv, Tables
  <2>2. \A l \in DOMAIN link' : /\ link'[l] \in Link /\ link'[l].rate \in rates
                                /\ link'[l].method \in DOMAIN method
    BY <1>1, <1>2, <1>5 DEF IInv, Tables
  <2> QED BY <1>1, <2>1, <2>2 DEF IInv, Tables
<1>8. OneLinkPerPair'
  <2> SUFFICES ASSUME NEW l \in DOMAIN link', NEW k \in DOMAIN link', l # k,
                      SamePair(link'[l], link'[k])
               PROVE  l \in raced' \/ k \in raced'
    BY DEF OneLinkPerPair, SamePair
  <2>1. h \notin stale => \A j \in DOMAIN link : ~SamePair(link[j], r)
    BY <1>2 DEF IInv, Requests, Knows
  <2>2. CASE l \in DOMAIN link /\ k \in DOMAIN link
    BY <1>1, <1>5, <2>2 DEF IInv, OneLinkPerPair, SamePair
  <2>3. CASE l = n \/ k = n
    BY <1>1, <1>5, <2>1, <2>3 DEF SamePair
  <2> QED BY <1>5, <2>2, <2>3
<1>9. DeletedLinksGone' /\ FeeOfAccount'
  BY <1>1, <1>4, <1>5 DEF IInv, DeletedLinksGone, FeeOfAccount
<1> QED BY <1>3, <1>6, <1>7, <1>8, <1>9 DEF IInv

LEMMA UpdateLinkSaveCorrect ==
  ASSUME IInv, NEW h \in Handlers, UpdateLinkSave(h)
  PROVE  IInv'
<1> DEFINE n == req[h].id
           r == req[h].row
           old == link[n]
           new == [rate |-> Given(r.rate, old.rate), method |-> Given(r.method, old.method),
                   fee |-> Given(r.fee, old.fee), active |-> old.active]
           moved == r.rate # None \/ r.method # None
<1>1. /\ method' = method /\ rates' = rates /\ tickets' = tickets /\ gone' = gone
      /\ made' = made /\ AnswerStaling(h, LinkSteps)
      /\ n \in DOMAIN link /\ link' = [link EXCEPT ![n] = new]
      /\ r.rate # None => r.rate \in rates
      /\ r.method # None => r.method \in DOMAIN method
      /\ raced' = IF h \in stale /\ moved THEN raced \cup {n} ELSE raced
  BY DEF UpdateLinkSave
<1>2. r \in Change /\ req[h].step = "linkSave"
  BY DEF IInv, Requests, Busy, UpdateLinkSave, At
<1>3. Requests'
  BY <1>1, LinksWritten
<1>4. old \in Link /\ old.rate \in rates /\ old.method \in DOMAIN method
  BY <1>1 DEF IInv, Tables
<1>5. new \in Link /\ new.rate \in rates /\ new.method \in DOMAIN method
  <2>1. /\ r.rate \in Rates \cup {None} /\ r.method \in Ids \cup {None}
        /\ r.fee \in Fees \cup {None}
    BY <1>2 DEF Change
  <2>2. old.rate \in Rates /\ old.method \in Ids /\ old.fee \in Fees /\ old.active \in BOOLEAN
    BY <1>4, LinkFields
  <2> HIDE DEF old, r
  <2>3. /\ Given(r.rate, old.rate) \in Rates /\ Given(r.method, old.method) \in Ids
        /\ Given(r.fee, old.fee) \in Fees
        /\ Given(r.rate, old.rate) \in rates /\ Given(r.method, old.method) \in DOMAIN method
    BY <1>1, <1>4, <2>1, <2>2 DEF Given
  <2> QED BY <2>2, <2>3 DEF Link
<1>6. /\ DOMAIN link' = DOMAIN link /\ link'[n] = new
      /\ \A l \in DOMAIN link \ {n} : link'[l] = link[l]
  <2> HIDE DEF new
  <2> QED BY <1>1
<1>7. Counts' /\ Ghosts'
  BY <1>1 DEF IInv, Counts, Ghosts
<1>8. Tables'
  <2> HIDE DEF new
  <2>1. \A l \in DOMAIN link' : /\ link'[l] \in Link /\ link'[l].rate \in rates
                                /\ link'[l].method \in DOMAIN method
    BY <1>5, <1>6 DEF IInv, Tables
  <2> QED BY <1>1, <1>6, <2>1 DEF IInv, Tables
<1>9. OneLinkPerPair'
  <2> SUFFICES ASSUME NEW l \in DOMAIN link', NEW k \in DOMAIN link', l # k,
                      SamePair(link'[l], link'[k])
               PROVE  l \in raced' \/ k \in raced'
    BY DEF OneLinkPerPair, SamePair
  <2>1. h \notin stale /\ moved =>
          \A j \in DOMAIN link \ {n} : ~SamePair(link[j], new)
    BY <1>2 DEF IInv, Requests, Knows, SamePair
  <2>2. ~moved => SamePair(new, old)
    BY DEF SamePair, Given
  <2>3. raced \subseteq raced'
    BY <1>1
  <2> HIDE DEF new, moved
  <2>4. CASE l # n /\ k # n
    BY <1>6, <2>3, <2>4 DEF IInv, OneLinkPerPair, SamePair
  <2>5. CASE (l = n \/ k = n) /\ ~moved
    BY <1>6, <2>2, <2>3, <2>5 DEF IInv, OneLinkPerPair, SamePair
  <2>6. CASE (l = n \/ k = n) /\ moved
    BY <1>1, <1>6, <2>1, <2>6 DEF SamePair
  <2> QED BY <2>4, <2>5, <2>6
<1>10. DeletedLinksGone' /\ FeeOfAccount'
  BY <1>1, <1>6 DEF IInv, DeletedLinksGone, FeeOfAccount
<1> QED BY <1>3, <1>7, <1>8, <1>9, <1>10 DEF IInv

LEMMA SwitchLinkCorrect ==
  ASSUME IInv, NEW h \in Handlers, SwitchLink(h)
  PROVE  IInv'
<1> DEFINE n == req[h].id
           a == req[h].active
<1>1. /\ method' = method /\ rates' = rates /\ tickets' = tickets /\ gone' = gone
      /\ made' = made /\ raced' = raced /\ AnswerStaling(h, OrderSteps)
      /\ n \in DOMAIN link /\ link' = [link EXCEPT ![n].active = a]
  BY DEF SwitchLink, ghosts
<1>2. a \in BOOLEAN
  BY DEF IInv, Requests, Busy, SwitchLink, At
<1>3. \A l \in DOMAIN link : link[l] \in Link
  BY DEF IInv, Tables
<1>4. /\ DOMAIN link' = DOMAIN link
      /\ \A l \in DOMAIN link :
            /\ link'[l] \in Link
            /\ link'[l].rate = link[l].rate /\ link'[l].method = link[l].method
  BY <1>1, <1>2, <1>3 DEF Link
<1>5. Requests'
  BY <1>1, <1>4, OthersWritten DEF SamePair
<1>6. Counts' /\ Ghosts'
  BY <1>1 DEF IInv, Counts, Ghosts
<1>7. Tables'
  BY <1>1, <1>4 DEF IInv, Tables
<1>8. OneLinkPerPair' /\ DeletedLinksGone' /\ FeeOfAccount'
  BY <1>1, <1>4 DEF IInv, OneLinkPerPair, DeletedLinksGone, FeeOfAccount
<1> QED BY <1>5, <1>6, <1>7, <1>8 DEF IInv

LEMMA DeleteLinkCorrect ==
  ASSUME IInv, NEW h \in Handlers, DeleteLink(h)
  PROVE  IInv'
<1> DEFINE n == req[h].id
           i == req[h].found.method
<1>1. /\ method' = method /\ rates' = rates /\ tickets' = tickets
      /\ made' = made /\ raced' = raced /\ AnswerStaling(h, LinkSteps)
      /\ link' = Without(link, LinksOf(i))
      /\ gone' = IF h \in stale THEN gone ELSE gone \cup {n}
  BY DEF DeleteLink
<1>2. h \notin stale => n \in DOMAIN link /\ link[n].method = i
  BY DEF IInv, Requests, Knows, DeleteLink, At, SamePair
<1>3. /\ DOMAIN link' = {l \in DOMAIN link : link[l].method # i}
      /\ \A l \in DOMAIN link' : link'[l] = link[l]
  BY <1>1 DEF Without, LinksOf
<1>4. Requests'
  BY <1>1, LinksWritten
<1>5. Counts' /\ Ghosts'
  BY <1>1, <1>2 DEF IInv, Counts, Ghosts, Tables
<1>6. Tables'
  BY <1>1, <1>3 DEF IInv, Tables
<1>7. OneLinkPerPair' /\ FeeOfAccount'
  BY <1>1, <1>3 DEF IInv, OneLinkPerPair, FeeOfAccount
<1>8. DeletedLinksGone'
  BY <1>1, <1>2, <1>3 DEF IInv, DeletedLinksGone
<1> QED BY <1>4, <1>5, <1>6, <1>7, <1>8 DEF IInv

-----------------------------------------------------------------------------
(* Rates and orders. *)

LEMMA DestroyRateCorrect ==
  ASSUME IInv, NEW r, DestroyRate(r)
  PROVE  IInv'
<1>1. /\ rates' = rates \ {r}
      /\ \A l \in DOMAIN link : link[l].rate # r
      /\ \A t \in tickets : t.rate # r
      /\ method' = method /\ link' = link /\ tickets' = tickets /\ made' = made
      /\ req' = req /\ stale' = stale /\ raced' = raced /\ gone' = gone
  BY DEF DestroyRate, ghosts
<1>2. Tables' /\ Counts' /\ Ghosts' /\ Requests'
  BY <1>1 DEF IInv, Tables, Counts, Ghosts, Requests
<1> QED BY <1>1, <1>2 DEF IInv, OneLinkPerPair, DeletedLinksGone, FeeOfAccount

LEMMA OrderInsertCorrect ==
  ASSUME IInv, NEW h \in Handlers, OrderInsert(h)
  PROVE  IInv'
<1> DEFINE t == [rate |-> req[h].rate, fee |-> req[h].fee, method |-> req[h].method,
                 due |-> req[h].due, alone |-> req[h].alone, stale |-> h \in stale]
<1>1. /\ method' = method /\ link' = link /\ rates' = rates /\ made' = made
      /\ raced' = raced /\ gone' = gone /\ stale' = stale \ {h}
      /\ tickets' = tickets \cup {t} /\ req' = [req EXCEPT ![h] = Idle]
      /\ req[h].rate \in rates /\ req[h].step = "orderInsert"
  BY DEF OrderInsert, ghosts, Answer, At
<1>2. DOMAIN req' = Handlers /\ \A k \in Handlers : req'[k] = IF k = h THEN Idle ELSE req[k]
  BY <1>1 DEF IInv, Requests
<1>3. Requests'
  <2>1. \A k \in Handlers : Busy(req'[k])
    BY <1>2, IdleIsFine DEF IInv, Requests
  <2>2. \A k \in Handlers : k \notin stale' => Knows(req'[k], link, method)
    BY <1>1, <1>2, IdleIsFine DEF IInv, Requests
  <2> QED BY <1>1, <1>2, <2>1, <2>2 DEF Requests
<1>4. t \in Ticket
  BY <1>1 DEF IInv, Requests, Busy, Ticket
<1>5. Tables' /\ Counts' /\ Ghosts'
  <2> HIDE DEF t
  <2>1. t.rate \in rates
    BY <1>1 DEF t
  <2> QED BY <1>1, <1>4, <2>1 DEF IInv, Tables, Counts, Ghosts
<1>6. t.alone /\ ~t.stale => FeeIsDue(t.fee, t.due)
  BY <1>1 DEF IInv, Requests, Knows
<1>7. FeeOfAccount'
  <2> HIDE DEF t
  <2> QED BY <1>1, <1>6 DEF IInv, FeeOfAccount, FeeIsDue
<1> QED BY <1>1, <1>3, <1>5, <1>7 DEF IInv, OneLinkPerPair, DeletedLinksGone

-----------------------------------------------------------------------------
(* The invariant. *)

LEMMA InitCorrect == Init => IInv
<1> SUFFICES ASSUME Init PROVE IInv
  OBVIOUS
<1>1. Tables /\ Counts /\ Ghosts
  BY CatalogueBounds DEF Init, Tables, Counts, Ghosts
<1>2. Requests
  BY IdleIsFine DEF Init, Requests
<1> QED BY <1>1, <1>2 DEF Init, IInv, OneLinkPerPair, DeletedLinksGone, FeeOfAccount

LEMMA StutterCorrect == IInv /\ UNCHANGED vars => IInv'
<1> SUFFICES ASSUME IInv, UNCHANGED vars PROVE IInv'
  OBVIOUS
<1>1. /\ method' = method /\ link' = link /\ rates' = rates /\ made' = made /\ req' = req
      /\ stale' = stale /\ tickets' = tickets /\ raced' = raced /\ gone' = gone
  BY DEF vars, tables, ghosts
<1> QED BY <1>1 DEF IInv, Tables, Counts, Ghosts, Requests, OneLinkPerPair, DeletedLinksGone,
                    FeeOfAccount

LEMMA StepCorrect == IInv /\ [Next]_vars => IInv'
<1> SUFFICES ASSUME IInv, [Next]_vars PROVE IInv'
  OBVIOUS
<1>1. ASSUME NEW h \in Handlers, Statement(h) PROVE IInv'
  BY <1>1, CreateMethodInsertCorrect, UpdateMethodSaveCorrect, DeleteMethodCorrect,
     CreateLinkInsertCorrect, UpdateLinkCheckCorrect, UpdateLinkSaveCorrect,
     SwitchLinkCorrect, DeleteLinkCorrect, OrderAccountCorrect, OrderInsertCorrect
     DEF Statement
<1>2. ASSUME NEW h \in Handlers, Request(h) \/ Fail(h) PROVE IInv'
  BY <1>2, RequestCorrect, FailCorrect
<1>3. ASSUME NEW r \in Rates, DestroyRate(r) PROVE IInv'
  BY <1>3, DestroyRateCorrect
<1>4. CASE UNCHANGED vars
  BY <1>4, StutterCorrect
<1> QED BY <1>1, <1>2, <1>3, <1>4 DEF Next

LEMMA InvariantHolds == Spec => []IInv
BY InitCorrect, StepCorrect, PTL DEF Spec

(* The tables keep rows of their types and no dangling reference: no order of
   the statements of any number of requests takes a method or a rate away from
   under a link or a ticket. *)
THEOREM CatalogueHolds == Spec => []CatalogueCorrect
<1>1. IInv => CatalogueCorrect
  BY DEF IInv, Tables, Requests, Busy, CatalogueCorrect
<1> QED BY <1>1, InvariantHolds, PTL

(* Two links of one rate and one method only where a request was overtaken. *)
THEOREM LinksApart == Spec => []OneLinkPerPair
<1>1. IInv => OneLinkPerPair
  BY DEF IInv
<1> QED BY <1>1, InvariantHolds, PTL

(* A removed link never comes back, whatever was in flight when it went. *)
THEOREM RemovedForGood == Spec => []DeletedLinksGone
<1>1. IInv => DeletedLinksGone
  BY DEF IInv
<1> QED BY <1>1, InvariantHolds, PTL

(* The fee charged is one its account has, unless the name is ambiguous or the
   catalogue changed between the two look-ups. *)
THEOREM FeesAreDue == Spec => []FeeOfAccount
<1>1. IInv => FeeOfAccount
  BY DEF IInv
<1> QED BY <1>1, InvariantHolds, PTL

=============================================================================
