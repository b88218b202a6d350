-------------------------------- MODULE Rates --------------------------------
(***************************************************************************)
(* The exchange rates an administrator keeps: currency-base.service.ts,    *)
(* currency-rate.service.ts and currency-rate-history.service.ts over the  *)
(* tables CurrencyBaseRate, CurrencyRate and CurrencyRateHistory.          *)
(*                                                                         *)
(* A rate is derived from the base rates of its two currencies, and is     *)
(* stored.  A request is a sequence of awaited statements, each an action  *)
(* here, so that requests of several administrators interleave between     *)
(* them and a request may fail before any of them.                         *)
(***************************************************************************)
EXTENDS ExchangeRate

CONSTANTS
    Admins,       \* administrators, each with one request in flight at most
    Sheets,       \* the sheets an administrator may submit for a currency
    Seeded,       \* the currencies the seed gives a base rate
    Batches,      \* the sets of currencies an administrator may submit together
    Listed,       \* the pairs an administrator may ask to create
    MaxRates,     \* bound: rates ever created
    MaxRequests   \* bound: requests ever made

ASSUME SheetsAssumption ==
    /\ Sheets \in [Currencies -> SUBSET Sheet]
    /\ \A c \in Currencies : \A s \in Sheets[c] : Brackets(c, s)
ASSUME ListedAssumption ==
    Seeded \subseteq Currencies /\ Batches \subseteq SUBSET Currencies /\ Listed \subseteq Pairs
ASSUME BoundsAssumption == MaxRates \in Nat /\ MaxRequests \in Nat

VARIABLES
    base,      \* CurrencyBaseRate: currency -> its sheet and isActive
    rate,      \* CurrencyRate: identifier -> pair, rates and isActive
    history,   \* CurrencyRateHistory: the rows
    pc,        \* the statement each administrator's request is about to run
    dto,       \* the base rates the request submits
    item,      \* the rate it works on: identifier and pair
    from,      \* the base rate of the first currency as it was read
    todo,      \* the rates it has yet to work on
    calc,      \* the quotes it has computed
    note,      \* the history row it is about to write
    made,      \* rates created so far
    asked,     \* requests made so far
    held,      \* ghost: every quote a rate has had
    alone,     \* ghost: no other request derived rates at the same time
    spoiled    \* ghost: currencies whose rates an overlap or a failure left behind

rows == <<base, rate, history, made>>
locals == <<dto, item, from, todo, calc, note>>
ghosts == <<held, alone, spoiled>>
vars == <<rows, pc, locals, asked, ghosts>>

Ids == 1..MaxRates
BaseRow == [sheet : Sheet, isActive : BOOLEAN]
Dto == [currency : Currencies, sheet : Sheet, isActive : BOOLEAN]
Item == [id : Ids \cup {0}, pair : Pairs]
RateRow == [pair : Pairs, buyRate : Int, sellRate : Int, isActive : BOOLEAN]
Computed == [id : Ids, buyRate : Int, sellRate : Int]
HistoryRow == [id : Ids, buyRate : Int, sellRate : Int, isActive : BOOLEAN]

NoItem == [id |-> 0, pair |-> <<"USD", "BS">>]
NoBase == [sheet |-> FairSheet("USD"), isActive |-> FALSE]
NoNote == [id |-> 0, buyRate |-> 0, sellRate |-> 0, isActive |-> FALSE]

\* One sheet for each of the currencies cs.
SheetsOf(cs) == {f \in [cs -> UNION {Sheets[c] : c \in cs}] : \A c \in cs : f[c] \in Sheets[c]}

With(f, k, v) == [j \in DOMAIN f \cup {k} |-> IF j = k THEN v ELSE f[j]]
Without(f, k) == [j \in DOMAIN f \ {k} |-> f[j]]

Submitted(a) == {d.currency : d \in dto[a]}
Ends(p) == {p[1], p[2]}
PairTaken(p) == \E i \in DOMAIN rate : rate[i].pair = p

\* The steps between the first base rate that counts and the rates written.
Deriving(a) ==
    pc[a] \in {"ratesList", "derive", "deriveTo", "ratesWrite",
               "createTo", "createInsert"}
Touches(a) ==
    IF pc[a] \in {"createTo", "createInsert"} THEN Ends(item[a].pair) ELSE Submitted(a)

-----------------------------------------------------------------------------
Init ==
    /\ \E s \in SheetsOf(Seeded) :
          base = [c \in Seeded |-> [sheet |-> s[c], isActive |-> TRUE]]
    /\ rate = [i \in {} |-> 0]
    /\ history = {}
    /\ pc = [a \in Admins |-> "idle"]
    /\ dto = [a \in Admins |-> {}]
    /\ item = [a \in Admins |-> NoItem]
    /\ from = [a \in Admins |-> NoBase]
    /\ todo = [a \in Admins |-> {}]
    /\ calc = [a \in Admins |-> {}]
    /\ note = [a \in Admins |-> NoNote]
    /\ made = 0
    /\ asked = 0
    /\ held = {}
    /\ alone = [a \in Admins |-> TRUE]
    /\ spoiled = {}

-----------------------------------------------------------------------------
(* Requests. *)

Ask(a) == pc[a] = "idle" /\ asked < MaxRequests /\ asked' = asked + 1
Goto(a, step) == pc' = [pc EXCEPT ![a] = step]
Set(var, a, v) == var' = [var EXCEPT ![a] = v]

\* The request answers, with an error or without, and is forgotten.
End(a) ==
    /\ Goto(a, "idle")
    /\ Set(dto, a, {})
    /\ Set(item, a, NoItem)
    /\ Set(from, a, NoBase)
    /\ Set(todo, a, {})
    /\ Set(calc, a, {})
    /\ Set(note, a, NoNote)

\* Ghost: a's request begins to derive rates of the currencies cs.
Begin(a, cs) ==
    LET others == {b \in Admins \ {a} : Deriving(b)}
    IN  /\ alone' = [b \in Admins |->
                        IF b = a THEN others = {} ELSE alone[b] /\ b \notin others]
        /\ spoiled' = IF others = {} THEN spoiled
                      ELSE spoiled \cup cs \cup UNION {Touches(b) : b \in others}

\* Ghost: an update stops after the base rates were written.
Abandon(a) ==
    spoiled' = IF pc[a] \in {"ratesList", "derive", "deriveTo", "ratesWrite"}
               THEN spoiled \cup Submitted(a) ELSE spoiled

\* Any statement may fail: the request answers with an error, and what its
\* earlier statements wrote stays.
Fail(a) ==
    /\ pc[a] # "idle"
    /\ Abandon(a)
    /\ End(a)
    /\ UNCHANGED <<rows, asked, held, alone>>

-----------------------------------------------------------------------------
(* createRateBase: the currency is looked up, then inserted; it is unique. *)

CreateBaseFind(a, c, s, act) ==
    /\ Ask(a)
    /\ c \notin DOMAIN base
    /\ Set(dto, a, {[currency |-> c, sheet |-> s, isActive |-> act]})
    /\ Goto(a, "baseInsert")
    /\ UNCHANGED <<rows, item, from, todo, calc, note, ghosts>>

CreateBaseInsert(a) ==
    /\ pc[a] = "baseInsert"
    /\ \E d \in dto[a] :
          base' = IF d.currency \in DOMAIN base THEN base
                  ELSE With(base, d.currency,
                            [sheet |-> d.sheet, isActive |-> d.isActive])
    /\ End(a)
    /\ UNCHANGED <<rate, history, made, asked, ghosts>>

-----------------------------------------------------------------------------
(* updateAllRateBase: only the base rates that differ from the stored ones *)
(* are written, in one transaction, and only their rates derived again.    *)

UpdateBasesRead(a, cs, s, act) ==
    /\ Ask(a)
    /\ cs \subseteq DOMAIN base
    /\ Set(dto, a, {[currency |-> c, sheet |-> s[c], isActive |-> act[c]] :
                       c \in {c \in cs : \/ s[c] # base[c].sheet
                                         \/ act[c] # base[c].isActive}})
    /\ dto'[a] # {}
    /\ Goto(a, "basesWrite")
    /\ UNCHANGED <<rows, item, from, todo, calc, note, ghosts>>

\* Mutant: the stored rows are matched with the submitted ones by position
\* instead of by currency.
UpdateBasesWriteByPosition(a) ==
    /\ pc[a] = "basesWrite"
    /\ base' = [c \in DOMAIN base |->
                   IF c \in Submitted(a)
                   THEN LET d == CHOOSE d \in dto[a] : TRUE
                        IN  [sheet |-> d.sheet, isActive |-> d.isActive]
                   ELSE base[c]]
    /\ Begin(a, Submitted(a))
    /\ Goto(a, "ratesList")
    /\ UNCHANGED <<rate, history, made, locals, asked, held>>

UpdateBasesWrite(a) ==
    /\ pc[a] = "basesWrite"
    /\ base' = [c \in DOMAIN base |->
                   IF c \in Submitted(a)
                   THEN LET d == CHOOSE d \in dto[a] : d.currency = c
                        IN  [sheet |-> d.sheet, isActive |-> d.isActive]
                   ELSE base[c]]
    /\ Begin(a, Submitted(a))
    /\ Goto(a, "ratesList")
    /\ UNCHANGED <<rate, history, made, locals, asked, held>>

\* Mutant: only the rates from an updated currency are listed, not those to it.
RatesListFromOnly(a) ==
    /\ pc[a] = "ratesList"
    /\ LET touched == {i \in DOMAIN rate : rate[i].pair[1] \in Submitted(a)}
       IN  /\ Set(todo, a, {[id |-> i, pair |-> rate[i].pair] : i \in touched})
           /\ Goto(a, IF touched = {} THEN "ratesWrite" ELSE "derive")
    /\ UNCHANGED <<rows, dto, item, from, calc, note, asked, ghosts>>

\* updateAllCurrencyRatesFromBase: the rates are listed once, then each that
\* has an updated currency is computed from base rates read again.
RatesList(a) ==
    /\ pc[a] = "ratesList"
    /\ LET touched == {i \in DOMAIN rate : Ends(rate[i].pair) \cap Submitted(a) # {}}
       IN  /\ Set(todo, a, {[id |-> i, pair |-> rate[i].pair] : i \in touched})
           /\ Goto(a, IF touched = {} THEN "ratesWrite" ELSE "derive")
    /\ UNCHANGED <<rows, dto, item, from, calc, note, asked, ghosts>>

DeriveFrom(a) ==
    /\ pc[a] = "derive"
    /\ \E t \in todo[a] :
          /\ Set(item, a, t)
          /\ Set(todo, a, todo[a] \ {t})
          /\ Set(from, a, base[t.pair[1]])
    /\ Goto(a, "deriveTo")
    /\ UNCHANGED <<rows, dto, calc, note, asked, ghosts>>

\* A currency that is not active makes calculateRate throw, and the rate is
\* left as it is.
DeriveTo(a) ==
    /\ pc[a] = "deriveTo"
    /\ LET p == item[a].pair
           t == base[p[2]]
           q == Quote(p, from[a].sheet, t.sheet)
       IN  Set(calc, a,
               IF from[a].isActive /\ t.isActive
               THEN calc[a] \cup {[id |-> item[a].id, buyRate |-> q.buyRate,
                                   sellRate |-> q.sellRate]}
               ELSE calc[a])
    /\ Goto(a, IF todo[a] = {} THEN "ratesWrite" ELSE "derive")
    /\ UNCHANGED <<rows, dto, item, from, todo, note, asked, ghosts>>

\* The updates run in one transaction, which fails when one of the rates is
\* no longer there.
RatesWrite(a) ==
    /\ pc[a] = "ratesWrite"
    /\ \A q \in calc[a] : q.id \in DOMAIN rate
    /\ rate' = [i \in DOMAIN rate |->
                   IF \E q \in calc[a] : q.id = i
                   THEN LET q == CHOOSE q \in calc[a] : q.id = i
                        IN  [pair |-> rate[i].pair, buyRate |-> q.buyRate,
                             sellRate |-> q.sellRate, isActive |-> rate[i].isActive]
                   ELSE rate[i]]
    /\ held' = held \cup calc[a]
    /\ spoiled' = IF alone[a] THEN spoiled \ Submitted(a) ELSE spoiled
    /\ Goto(a, "historyRead")
    /\ UNCHANGED <<base, history, made, locals, asked, alone>>

RatesWriteRefused(a) ==
    /\ pc[a] = "ratesWrite"
    /\ \E q \in calc[a] : q.id \notin DOMAIN rate
    /\ Abandon(a)
    /\ End(a)
    /\ UNCHANGED <<rows, asked, held, alone>>

\* Mutant: the buy rate is the one computed, the sell rate the one read again.
HistoryReadMixed(a) ==
    /\ pc[a] = "historyRead"
    /\ \E q \in calc[a] :
          /\ Set(calc, a, calc[a] \ {q})
          /\ IF q.id \in DOMAIN rate
             THEN /\ Set(note, a, [id |-> q.id, buyRate |-> q.buyRate,
                                   sellRate |-> rate[q.id].sellRate,
                                   isActive |-> rate[q.id].isActive])
                  /\ Goto(a, "historyWrite")
             ELSE UNCHANGED <<note, pc>>
    /\ UNCHANGED <<rows, dto, item, from, todo, asked, ghosts>>

\* The histories follow one by one: each rate is read again, and a rate that
\* is gone by then gets none.
HistoryRead(a) ==
    /\ pc[a] = "historyRead"
    /\ \E q \in calc[a] :
          /\ Set(calc, a, calc[a] \ {q})
          /\ IF q.id \in DOMAIN rate
             THEN /\ Set(note, a, [id |-> q.id, buyRate |-> rate[q.id].buyRate,
                                   sellRate |-> rate[q.id].sellRate,
                                   isActive |-> rate[q.id].isActive])
                  /\ Goto(a, "historyWrite")
             ELSE UNCHANGED <<note, pc>>
    /\ UNCHANGED <<rows, dto, item, from, todo, asked, ghosts>>

UpdateDone(a) ==
    /\ pc[a] = "historyRead"
    /\ calc[a] = {}
    /\ End(a)
    /\ UNCHANGED <<rows, asked, ghosts>>

\* CurrencyRateHistoryService.create: a history names its rate, so the row is
\* refused when the rate is gone, and the request ends there.
HistoryWrite(a) ==
    /\ pc[a] = "historyWrite"
    /\ note[a].id \in DOMAIN rate
    /\ history' = history \cup {note[a]}
    /\ Goto(a, "historyRead")
    /\ UNCHANGED <<base, rate, made, locals, asked, ghosts>>

HistoryRefused(a) ==
    /\ pc[a] = "historyWrite"
    /\ note[a].id \notin DOMAIN rate
    /\ End(a)
    /\ UNCHANGED <<rows, asked, ghosts>>

-----------------------------------------------------------------------------
(* createCurrencyRates: the pair is looked up, computed and inserted. *)

CreateFind(a, p) ==
    /\ Ask(a)
    /\ ~PairTaken(p)
    /\ Set(item, a, [id |-> 0, pair |-> p])
    /\ Goto(a, "createFrom")
    /\ UNCHANGED <<rows, dto, from, todo, calc, note, ghosts>>

CreateFrom(a) ==
    /\ pc[a] = "createFrom"
    /\ item[a].pair[1] \in DOMAIN base
    /\ Set(from, a, base[item[a].pair[1]])
    /\ Begin(a, Ends(item[a].pair))
    /\ Goto(a, "createTo")
    /\ UNCHANGED <<rows, dto, item, todo, calc, note, asked, held>>

CreateTo(a) ==
    /\ pc[a] = "createTo"
    /\ item[a].pair[2] \in DOMAIN base
    /\ LET p == item[a].pair
           t == base[p[2]]
           q == Quote(p, from[a].sheet, t.sheet)
       IN  /\ from[a].isActive /\ t.isActive
           /\ Set(note, a, [id |-> 0, buyRate |-> q.buyRate,
                            sellRate |-> q.sellRate, isActive |-> TRUE])
    /\ Goto(a, "createInsert")
    /\ UNCHANGED <<rows, dto, item, from, todo, calc, asked, ghosts>>

\* A base rate that is missing or not active is an error.
CreateRefused(a) ==
    /\ LET p == item[a].pair
       IN  \/ pc[a] = "createFrom" /\ p[1] \notin DOMAIN base
           \/ pc[a] = "createTo" /\ p[2] \notin DOMAIN base
           \/ /\ pc[a] = "createTo"
              /\ p[2] \in DOMAIN base
              /\ ~(from[a].isActive /\ base[p[2]].isActive)
           \/ pc[a] = "createInsert" /\ PairTaken(p)
    /\ End(a)
    /\ UNCHANGED <<rows, asked, ghosts>>

\* The pair is unique: the row is refused when another request inserted it.
CreateInsert(a) ==
    /\ pc[a] = "createInsert"
    /\ made < MaxRates
    /\ ~PairTaken(item[a].pair)
    /\ made' = made + 1
    /\ rate' = With(rate, made + 1,
                    [pair |-> item[a].pair, buyRate |-> note[a].buyRate,
                     sellRate |-> note[a].sellRate, isActive |-> note[a].isActive])
    /\ held' = held \cup {[id |-> made + 1, buyRate |-> note[a].buyRate,
                           sellRate |-> note[a].sellRate]}
    /\ Set(note, a, [id |-> made + 1, buyRate |-> note[a].buyRate,
                     sellRate |-> note[a].sellRate, isActive |-> note[a].isActive])
    /\ Goto(a, "noteWrite")
    /\ UNCHANGED <<base, history, dto, item, from, todo, calc, asked, alone, spoiled>>

\* The history of a created or switched rate: its failure is only logged.
NoteWrite(a) ==
    /\ pc[a] = "noteWrite"
    /\ history' = IF note[a].id \in DOMAIN rate THEN history \cup {note[a]} ELSE history
    /\ End(a)
    /\ UNCHANGED <<base, rate, made, asked, ghosts>>

-----------------------------------------------------------------------------
(* updateIsActiveRate: the rate is read, switched, and its history written *)
(* with the quotes that were read.                                         *)

SwitchFind(a, i, act) ==
    /\ Ask(a)
    /\ i \in DOMAIN rate
    /\ Set(note, a, [id |-> i, buyRate |-> rate[i].buyRate,
                     sellRate |-> rate[i].sellRate, isActive |-> act])
    /\ Goto(a, "switch")
    /\ UNCHANGED <<rows, dto, item, from, todo, calc, ghosts>>

Switch(a) ==
    /\ pc[a] = "switch"
    /\ note[a].id \in DOMAIN rate
    /\ rate' = With(rate, note[a].id,
                    [rate[note[a].id] EXCEPT !.isActive = note[a].isActive])
    /\ Goto(a, "noteWrite")
    /\ UNCHANGED <<base, history, made, locals, asked, ghosts>>

SwitchRefused(a) ==
    /\ pc[a] = "switch"
    /\ note[a].id \notin DOMAIN rate
    /\ End(a)
    /\ UNCHANGED <<rows, asked, ghosts>>

-----------------------------------------------------------------------------
(* destroyCurrencyRate: the history and the rate go in one transaction.    *)

DestroyFind(a, i) ==
    /\ Ask(a)
    /\ i \in DOMAIN rate
    /\ Set(item, a, [id |-> i, pair |-> rate[i].pair])
    /\ Goto(a, "destroy")
    /\ UNCHANGED <<rows, dto, from, todo, calc, note, ghosts>>

Destroy(a) ==
    /\ pc[a] = "destroy"
    /\ LET i == item[a].id
       IN  IF i \in DOMAIN rate
           THEN /\ rate' = Without(rate, i)
                /\ history' = {h \in history : h.id # i}
           ELSE UNCHANGED <<rate, history>>
    /\ End(a)
    /\ UNCHANGED <<base, made, asked, ghosts>>

-----------------------------------------------------------------------------
Statement(a) ==
    \/ CreateBaseInsert(a)
    \/ UpdateBasesWrite(a) \/ RatesList(a) \/ DeriveFrom(a) \/ DeriveTo(a)
    \/ RatesWrite(a) \/ RatesWriteRefused(a)
    \/ HistoryRead(a) \/ UpdateDone(a) \/ HistoryWrite(a) \/ HistoryRefused(a)
    \/ CreateFrom(a) \/ CreateTo(a) \/ CreateRefused(a) \/ CreateInsert(a)
    \/ NoteWrite(a)
    \/ Switch(a) \/ SwitchRefused(a)
    \/ Destroy(a)

Request(a) ==
    \/ \E c \in Currencies : \E s \in Sheets[c], act \in BOOLEAN : CreateBaseFind(a, c, s, act)
    \/ \E cs \in Batches \cap SUBSET (DOMAIN base) :
          \E s \in SheetsOf(cs), act \in [cs -> BOOLEAN] :
             UpdateBasesRead(a, cs, s, act)
    \/ \E p \in Listed : CreateFind(a, p)
    \/ \E i \in DOMAIN rate : \/ DestroyFind(a, i)
                              \/ \E act \in BOOLEAN : SwitchFind(a, i, act)

Next == \E a \in Admins : Request(a) \/ Statement(a) \/ Fail(a)

Spec == Init /\ [][Next]_vars

=============================================================================
