------------------------------ MODULE Catalogue ------------------------------
(***************************************************************************)
(* The house's payment methods (OurPaymentMethod), the rates they are      *)
(* offered for and with what fee (CurrencyPaymentMethod, here a link), and *)
(* the part of an order that reads them: the fee it charges and the        *)
(* account it tells the client to pay to.  A request is a sequence of      *)
(* awaited statements; between two of them the statements of others run.   *)
(* That the caller is an administrator is checked before and left out, and *)
(* so are reads before a write that refuse what the write would refuse.    *)
(***************************************************************************)
EXTENDS Integers

CONSTANTS
    Insts,        \* names of financial institutions
    Kinds,        \* a country and a type: what the key of a method adds to the name
    Numbers,      \* account numbers
    Rates,        \* the rates there are at first
    Fees,         \* what the client pays on top
    None,         \* no number; a field the request leaves alone
    Handlers,     \* requests that may be in flight at once
    MaxRows,      \* bound: methods, and links, ever made
    MaxRequests   \* bound: requests ever made

ASSUME FeesAssumption == Fees \subseteq Nat
ASSUME NoneAssumption == None \notin Insts \cup Kinds \cup Numbers \cup Rates \cup Nat \cup BOOLEAN
ASSUME CatalogueBounds == MaxRows \in Nat /\ MaxRequests \in Nat


VARIABLES
    rates,     \* the rates there are
    method,    \* OurPaymentMethod: identifier -> row
    link,      \* CurrencyPaymentMethod: identifier -> row
    tickets,   \* what tickets were told
    req,       \* the request each handler is working on
    made,      \* methods, and links, made so far
    asked,     \* requests made so far
    stale,     \* ghost: handlers whose reads were written to since
    raced,     \* ghost: links given their pair by a request that links changed under
    gone       \* ghost: links removed by a request that none changed under

tables == <<rates, method, link, tickets, made>>
ghosts == <<raced, gone>>
vars == <<tables, req, asked, stale, ghosts>>

Ids == 1..MaxRows
Method == [inst : Insts, kind : Kinds, number : Numbers \cup {None}, active : BOOLEAN]
Link == [rate : Rates, method : Ids, fee : Fees, active : BOOLEAN]

\* What a ticket keeps: the rate, the fee and the method of the snapshot.
\* Ghosts: the fees its rate had for that very method, whether no other
\* method had its name, and whether the catalogue changed meanwhile.
Ticket == [rate : Rates, fee : Fees \cup {0}, method : Ids,
           due : SUBSET Fees, alone : BOOLEAN, stale : BOOLEAN]

Steps == {"idle", "methodInsert", "methodSave", "methodDelete",
          "linkInsert", "linkCheck", "linkSave", "linkSwitch", "linkDelete",
          "orderAccount", "orderInsert"}

\* A request in flight keeps its step, the identifier of the row it is about
\* (id), what it will write (row) and what it found.
Idle == [step |-> "idle"]

Init ==
    /\ rates = Rates
    /\ method = [i \in {} |-> Idle]
    /\ link = [i \in {} |-> Idle]
    /\ tickets = {}
    /\ req = [h \in Handlers |-> Idle]
    /\ made = [methods |-> 0, links |-> 0]
    /\ asked = 0
    /\ stale = {}
    /\ raced = {}
    /\ gone = {}

-----------------------------------------------------------------------------
(* Requests. *)

\* A statement read something and the request goes on with it.
Then(h, f) == req' = [req EXCEPT ![h] = f] /\ UNCHANGED stale

\* A request starts with what its first statement read.
Ask(h, f) ==
    /\ req[h].step = "idle"
    /\ asked < MaxRequests
    /\ asked' = asked + 1
    /\ Then(h, f)

At(h, s) == req[h].step = s
Answer(h) == req' = [req EXCEPT ![h] = Idle] /\ stale' = stale \ {h}

\* It writes and answers; the others that stand at one of the steps read before.
AnswerStaling(h, steps) ==
    /\ req' = [req EXCEPT ![h] = Idle]
    /\ stale' = (stale \cup {g \in Handlers : req[g].step \in steps}) \ {h}

OrderSteps == {"orderAccount"}
LinkSteps == {"linkInsert", "linkCheck", "linkSave", "linkDelete"} \cup OrderSteps

\* The database fails, or the insert of the recipient or of the ticket does.
Fail(h) ==
    /\ ~At(h, "idle")
    /\ Answer(h)
    /\ UNCHANGED <<tables, asked, ghosts>>

\* A field the request gives, or the one there is.
Given(v, old) == IF v = None THEN old ELSE v
Without(f, S) == [i \in DOMAIN f \ S |-> f[i]]
Plus(f, i, r) == [j \in DOMAIN f \cup {i} |-> IF j = i THEN r ELSE f[j]]

-----------------------------------------------------------------------------
(* Payment methods (our-payment-method.service.ts). *)

\* A number is part of the key only when the request gives one.
SameMethod(m, r) ==
    /\ m.inst = r.inst /\ m.kind = r.kind
    /\ r.number # None => m.number = r.number

CreateMethodFind(h, r) ==
    /\ ~\E i \in DOMAIN method : SameMethod(method[i], r)
    /\ Ask(h, [step |-> "methodInsert", row |-> r])
    /\ UNCHANGED <<tables, ghosts>>

CreateMethodInsert(h) ==
    /\ At(h, "methodInsert")
    /\ made.methods < MaxRows
    /\ made' = [made EXCEPT !.methods = @ + 1]
    /\ method' = Plus(method, made.methods + 1, req[h].row)
    /\ AnswerStaling(h, OrderSteps)
    /\ UNCHANGED <<rates, link, tickets, asked, ghosts>>

\* Nothing looks for a method that already is what this one becomes.
UpdateMethodFind(h, i, r) ==
    /\ i \in DOMAIN method
    /\ Ask(h, [step |-> "methodSave", id |-> i, row |-> r])
    /\ UNCHANGED <<tables, ghosts>>

\* updatePaymentMethodActive writes the same way, with the flag alone.
UpdateMethodSave(h) ==
    /\ At(h, "methodSave")
    /\ LET i == req[h].id  r == req[h].row IN
       /\ i \in DOMAIN method
       /\ method' = [method EXCEPT ![i] =
             [inst |-> Given(r.inst, @.inst), kind |-> Given(r.kind, @.kind),
              number |-> @.number, active |-> Given(r.active, @.active)]]
    /\ AnswerStaling(h, OrderSteps)
    /\ UNCHANGED <<rates, link, tickets, made, asked, ghosts>>

DeleteMethodFind(h, i) ==
    /\ i \in DOMAIN method
    /\ Ask(h, [step |-> "methodDelete", id |-> i])
    /\ UNCHANGED <<tables, ghosts>>

LinksOf(i) == {l \in DOMAIN link : link[l].method = i}

\* Mutant: the links of the method stay.
DeleteMethodAlone(h) ==
    /\ At(h, "methodDelete")
    /\ req[h].id \in DOMAIN method
    /\ method' = Without(method, {req[h].id})
    /\ AnswerStaling(h, LinkSteps)
    /\ UNCHANGED <<rates, link, tickets, made, asked, ghosts>>

\* The method's links go with it; tickets keep its number and their snapshot.
DeleteMethod(h) ==
    /\ At(h, "methodDelete")
    /\ req[h].id \in DOMAIN method
    /\ method' = Without(method, {req[h].id})
    /\ link' = Without(link, LinksOf(req[h].id))
    /\ AnswerStaling(h, LinkSteps)
    /\ UNCHANGED <<rates, tickets, made, asked, ghosts>>

-----------------------------------------------------------------------------
(* Links (currency-payment-method.service.ts). *)

CreateLinkFind(h, r) ==
    /\ r.rate \in rates /\ r.method \in DOMAIN method
    /\ ~\E l \in DOMAIN link : link[l].rate = r.rate /\ link[l].method = r.method
    /\ Ask(h, [step |-> "linkInsert", row |-> r])
    /\ UNCHANGED <<tables, ghosts>>

\* No index keeps two links of a rate and a method apart.
CreateLinkInsert(h) ==
    /\ At(h, "linkInsert")
    /\ made.links < MaxRows
    /\ req[h].row.rate \in rates /\ req[h].row.method \in DOMAIN method
    /\ made' = [made EXCEPT !.links = @ + 1]
    /\ link' = Plus(link, made.links + 1, req[h].row)
    /\ raced' = IF h \in stale THEN raced \cup {made.links + 1} ELSE raced
    /\ AnswerStaling(h, LinkSteps)
    /\ UNCHANGED <<rates, method, tickets, asked, gone>>

UpdateLinkFind(h, l, r) ==
    /\ l \in DOMAIN link
    /\ Ask(h, [step |-> "linkCheck", id |-> l, row |-> r, found |-> link[l]])
    /\ UNCHANGED <<tables, ghosts>>

\* Mutant: a link is compared with the others only when its rate changes.
UpdateLinkCheckRateOnly(h) ==
    /\ At(h, "linkCheck")
    /\ LET f == req[h].found  r == req[h].row
           rate == Given(r.rate, f.rate)  i == Given(r.method, f.method)
       IN  r.rate # None =>
              ~\E l \in DOMAIN link \ {req[h].id} : link[l].rate = rate /\ link[l].method = i
    /\ Then(h, [step |-> "linkSave", id |-> req[h].id, row |-> req[h].row])
    /\ UNCHANGED <<tables, asked, ghosts>>

\* The pair the link will have is composed from the row read before.
UpdateLinkCheck(h) ==
    /\ At(h, "linkCheck")
    /\ LET f == req[h].found  r == req[h].row
           rate == Given(r.rate, f.rate)  i == Given(r.method, f.method)
       IN  r.rate # None \/ r.method # None =>
              ~\E l \in DOMAIN link \ {req[h].id} : link[l].rate = rate /\ link[l].method = i
    /\ Then(h, [step |-> "linkSave", id |-> req[h].id, row |-> req[h].row])
    /\ UNCHANGED <<tables, asked, ghosts>>

UpdateLinkSave(h) ==
    /\ At(h, "linkSave")
    /\ LET l == req[h].id  r == req[h].row IN
       /\ l \in DOMAIN link
       /\ r.rate # None => r.rate \in rates
       /\ r.method # None => r.method \in DOMAIN method
       /\ link' = [link EXCEPT ![l] =
             [rate |-> Given(r.rate, @.rate), method |-> Given(r.method, @.method),
              fee |-> Given(r.fee, @.fee), active |-> @.active]]
       /\ raced' = IF h \in stale /\ (r.rate # None \/ r.method # None)
                   THEN raced \cup {l} ELSE raced
    /\ AnswerStaling(h, LinkSteps)
    /\ UNCHANGED <<rates, method, tickets, made, asked, gone>>

SwitchLinkFind(h, l, active) ==
    /\ l \in DOMAIN link
    /\ Ask(h, [step |-> "linkSwitch", id |-> l, active |-> active])
    /\ UNCHANGED <<tables, ghosts>>

SwitchLink(h) ==
    /\ At(h, "linkSwitch")
    /\ req[h].id \in DOMAIN link
    /\ link' = [link EXCEPT ![req[h].id].active = req[h].active]
    /\ AnswerStaling(h, OrderSteps)
    /\ UNCHANGED <<rates, method, tickets, made, asked, ghosts>>

DeleteLinkFind(h, l) ==
    /\ l \in DOMAIN link
    /\ Ask(h, [step |-> "linkDelete", id |-> l, found |-> link[l]])
    /\ UNCHANGED <<tables, ghosts>>

\* Mutant: of the method's links those of other rates are removed.
DeleteLinkOthers(h) ==
    /\ At(h, "linkDelete")
    /\ link' = Without(link, LinksOf(req[h].found.method) \ {req[h].id})
    /\ gone' = IF h \in stale THEN gone ELSE gone \cup {req[h].id}
    /\ AnswerStaling(h, LinkSteps)
    /\ UNCHANGED <<rates, method, tickets, made, asked, raced>>

\* It removes the links of every rate with the method the link was read with.
DeleteLink(h) ==
    /\ At(h, "linkDelete")
    /\ link' = Without(link, LinksOf(req[h].found.method))
    /\ gone' = IF h \in stale THEN gone ELSE gone \cup {req[h].id}
    /\ AnswerStaling(h, LinkSteps)
    /\ UNCHANGED <<rates, method, tickets, made, asked, raced>>

\* destroyCurrencyRate, which links and tickets of the rate forbid.
DestroyRate(r) ==
    /\ r \in rates
    /\ \A l \in DOMAIN link : link[l].rate # r
    /\ \A t \in tickets : t.rate # r
    /\ rates' = rates \ {r}
    /\ UNCHANGED <<method, link, tickets, made, req, asked, stale, ghosts>>

-----------------------------------------------------------------------------
(* Orders (ticket.service.ts, create). *)

\* Mutant: the fee is that of any link of the rate.
LinksNamedAny(r, n) == {l \in DOMAIN link : link[l].rate = r}

\* A link is found by the name of its institution, active or not.
LinksNamed(r, n) == {l \in DOMAIN link : link[l].rate = r /\ method[link[l].method].inst = n}

\* The fees a rate has for one method.
FeesOf(i, r) == {link[l].fee : l \in {k \in LinksOf(i) : link[k].rate = r}}

\* The fee is read with the rate, before the account is looked for.
OrderRate(h, r, n) ==
    /\ r \in rates
    /\ \E fee \in IF LinksNamed(r, n) = {} THEN {0}
                                           ELSE {link[l].fee : l \in LinksNamed(r, n)} :
          Ask(h, [step |-> "orderAccount", rate |-> r, inst |-> n, fee |-> fee])
    /\ UNCHANGED <<tables, ghosts>>

\* The account is an active one of that name, whatever its links say.
OrderAccount(h) ==
    /\ At(h, "orderAccount")
    /\ \E i \in DOMAIN method :
          /\ method[i].inst = req[h].inst /\ method[i].active
          /\ Then(h, [step |-> "orderInsert", rate |-> req[h].rate, fee |-> req[h].fee,
                      method |-> i, due |-> FeesOf(i, req[h].rate),
                      alone |-> \A j \in DOMAIN method \ {i} : method[j].inst # req[h].inst])
    /\ UNCHANGED <<tables, asked, ghosts>>

OrderInsert(h) ==
    /\ At(h, "orderInsert")
    /\ req[h].rate \in rates
    /\ tickets' = tickets \cup
          {[rate |-> req[h].rate, fee |-> req[h].fee, method |-> req[h].method,
            due |-> req[h].due, alone |-> req[h].alone, stale |-> h \in stale]}
    /\ Answer(h)
    /\ UNCHANGED <<rates, method, link, made, asked, ghosts>>

-----------------------------------------------------------------------------
Statement(h) ==
    \/ CreateMethodInsert(h) \/ UpdateMethodSave(h) \/ DeleteMethod(h)
    \/ CreateLinkInsert(h) \/ UpdateLinkCheck(h) \/ UpdateLinkSave(h)
    \/ SwitchLink(h) \/ DeleteLink(h)
    \/ OrderAccount(h) \/ OrderInsert(h)

\* What an update of a method may give: one field at a time is enough.
MethodChanges ==
    {[inst |-> n, kind |-> None, active |-> None] : n \in Insts} \cup
    {[inst |-> None, kind |-> k, active |-> None] : k \in Kinds} \cup
    {[inst |-> None, kind |-> None, active |-> a] : a \in BOOLEAN}

LinkChanges ==
    [rate : Rates \cup {None}, method : DOMAIN method \cup {None}, fee : {None}] \cup
    [rate : {None}, method : {None}, fee : Fees]

\* New rows are active unless the request says otherwise, which a switch does too.
Request(h) ==
    \/ \E r \in {m \in Method : m.active} : CreateMethodFind(h, r)
    \/ \E i \in DOMAIN method :
          \/ \E r \in MethodChanges : UpdateMethodFind(h, i, r)
          \/ DeleteMethodFind(h, i)
    \/ \E r \in {l \in Link : l.active} : CreateLinkFind(h, r)
    \/ \E l \in DOMAIN link :
          \/ \E r \in LinkChanges : UpdateLinkFind(h, l, r)
          \/ \E a \in BOOLEAN : SwitchLinkFind(h, l, a)
          \/ DeleteLinkFind(h, l)
    \/ \E r \in Rates, n \in Insts : OrderRate(h, r, n)

Next ==
    \/ \E h \in Handlers : Request(h) \/ Statement(h) \/ Fail(h)
    \/ \E r \in Rates : DestroyRate(r)

Spec == Init /\ [][Next]_vars

=============================================================================
