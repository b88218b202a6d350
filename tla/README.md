# Verification of vertice-back

This directory holds a TLA+ model of vertice-back, the back end of a currency
exchange (NestJS, Prisma, PostgreSQL, socket.io): modules that model its
services, TLC configurations that check them on small instances, and theorems
checked by TLAPS. `PROJECT.json` maps every definition to the source lines it
models and lists the runs, the hazards of the code and the findings.

## The system

| component | state it keeps | operations | hard behaviour | what makes it correct |
|---|---|---|---|---|
| Ticket service (`ticket/ticket.service.ts`) | `Ticket` rows: status, client, assessor, receipt image | create (with automatic assignment), takeTicket, finalizeTicket, queries | checks on a row read earlier, updates by number only; the pending count is outside the transaction | a closed ticket has a proof of payment from somebody entitled to give it; waiting tickets are untouched; a ticket loses its assessor only when the account goes |
| Ticket receipt service (`ticket/ticket-receipt.service.ts`) | `TicketReceiptNotification` rows | createForAssessor, updateStatus | two statements without a transaction; a notice may be answered repeatedly, whatever became of the ticket | a notice shows an image of its own ticket and names an assessor who held it; only a reported ticket is cancelled |
| Chat service and gateway (`chat/`) | `Chat`, `Message` rows; close timers in memory | send-message, check-ticket-status and the welcome message, set-ticket-timer and its callback autoFinalizeTicket, connections | timers race with requests and with one another and are lost on a restart | a due timer closes a ticket that has proof |
| Review service (`review/`) | `Review` rows | create | the assessor is read before and stored after a possible change of hands | the review credits somebody who served the ticket |
| User service (`user/`) | `User` rows: presence, role, account, last assignment | presence from socket callbacks, administration, profile, deletion | deletion empties or is restricted by other rows; presence is per user, not per socket | an available assessor exists; no row names a user who is gone |
| Support desk (`support-ticket/`) | `SupportTicket` rows, their chats | create (with automatic assignment), take, finalize, welcome | as the ticket service; the number is a truncated clock; two status checks both find the chat empty | a ticket has a chat exactly when it has had an assessor; a deleted assessor leaves the ticket its chat; one welcome unless status checks overlap |
| KYC (`kyc/`) | KYC columns of `User`; sessions at Didit | createDiditSession, webhook, status, reset | webhooks late, repeated and out of order; the session is created remotely before it is stored | an approval is Didit's, for the current session; a reset is final |
| Authentication (`auth/`) and accounts (`user/`) | `UserTemp`, `User` with its code and provider | sign-up on the web, on the phone and with Google; codes for passwords and for deletion; profile, administration | several awaited statements per operation, some naming the row by mail, some by identifier, some by code; one column for all codes | who entered a code can register; a code works once; Google and password accounts stay apart; what was under way when an account was deleted gets nothing through |
| Rates (`admin/service/currency-base`, `currency-rate`, `currency-rate-history`, `exchange-rate`) | `CurrencyBaseRate`, `CurrencyRate`, `CurrencyRateHistory` | update base rates and derive all pairs from them, create, switch, destroy a pair | statements one by one with failures between them; a table of 56 formulas and two more of directions | formulas err on the house's side; a rate follows from the base rates; the history is true |
| Payment methods (`our-payment-method`, `currency-payment-method`) | `OurPaymentMethod` and its links to rates, with fees | create, update, switch, delete; the order's look-ups | uniqueness only in code; methods found by name in two reads | one link per pair; the fee is that of the account told |
| Recipients and bank accounts (`recipient/`, `bank-account/`) | `BankAccount`, `Recipient`, `PaymentDetail` | keep accounts and recipients; the order's find or make | rows shared by all clients and rewritten by orders; encrypted columns that compare unequal | an order goes to the holder of the account it names, or to one who ordered to it before; the account a client named stays |
| Offices, teams, files, seed, e-mails | their own tables | one statement each | none beyond a call | see *Not modelled* |

How they interact: controllers call services; `TicketService`, `TicketReceiptService`
and `SupportTicketService` emit through the `ChatGateway`; the gateway calls
`ChatService` and tells `UserService` who is connected; automatic assignment reads
the presence that the gateway wrote; everything else is shared through the database.
A Node process runs one callback at a time, and every `await` is a point where any
other handler, timer or socket callback may run.

## Modules

| module | contents |
|---|---|
| `DeskState` | the rows the desk's services share, the handler frames, readers, and the update that closes a ticket |
| `TicketService` | create, takeTicket, finalizeTicket, findBestAssessor |
| `ChatService` | saveMessage, the welcome message, set-ticket-timer, autoFinalizeTicket |
| `TicketReceipt` | receipt notices and their answers; reviews |
| `Desk` | the composition, with presence, deletion of assessors, failing statements and restarts |
| `DeskProperties` | type invariant, safety, liveness, and the refinement of `TicketLife` |
| `TicketLife` | the contract: what a user may rely on in the life of a ticket |
| `DeskClaims` | sentences of the repository that the code does not keep |
| `DeskProofs`, `LifeProofs` | theorems about the desk and about the contract |
| `MCDesk` | instances of the desk for TLC |
| `Kyc` | identity verification: createDiditSession, the webhook statement by statement, resets, setActive, confirmDeleteAccount; Didit as an external actor |
| `KycProperties` | its type invariant, safety and action properties, a claim, and the refinement of `Verification` |
| `Verification` | the contract: verdicts that change an account in one step, each on the session the account has |
| `KycProofs` | the theorems about it |
| `MCKyc` | instances of it for TLC |
| `AccountState` | the tables and frames of sign-up, codes and profiles |
| `Registration`, `AccountCodes`, `Profiles` | `auth.service.ts` up to registration and Google; every use of a mailed code, deletion included; the rest of `user.service.ts`, and what `kyc.service.ts` writes to an account |
| `Accounts`, `AccountProperties`, `AccountProofs`, `MCAccounts` | the three together; what they promise; theorems; the instance |
| `ExchangeRate` | the formulas, margins and directions of all pairs, and the amount a ticket pays |
| `Rates`, `RatesProperties`, `RatesProofs`, `MCRates` | base rates, derived rates and their history, statement by statement, on `ExchangeRate` |
| `Catalogue`, `CatalogueProperties`, `CatalogueProofs`, `MCCatalogue` | payment methods, their links to rates, and what an order reads from them |
| `Wallet`, `Recipients` | the accounts of a client; recipients, payment details and the recipient of an order |
| `WalletProperties`, `WalletProofs`, `MCWallet` | what the two promise; theorems; the instance |
| `Presence` | sockets, the writes of their handlers in any order, deleted accounts, restarts whose clearing may fail |
| `Support` | support tickets, their assignment over `Presence`, and their chats |
| `SupportProperties`, `SupportProofs`, `MCSupport` | what the two promise; theorems; the instance |

The desk and identity verification meet in `KycGuard`, which lets a client create a ticket only
while the account is APPROVED. The desk model lets any client create one at any moment, which
includes every moment an approved client may; so the two are checked apart, and what the guard is
worth is `CurrentApproval`.

### How state and actions correspond to the code

Each column of a row is a function over ids (`status[t]` is `Ticket.status`,
`"ABSENT"` while there is no row). A handler in flight occupies a slot: `req[s]`
is the frame of its local variables, with the statement it awaits as `op`. A
handler is one action per stretch between awaits whose order matters: `FinalizeRead` is
`finalizeTicket` up to the end of its checks, `FinalizeWrite` its update. Consecutive reads
are one action where nothing read by the first can be changed to any effect before the
second (the existence and the count in `takeTicket`, the ticket and the review
in `ReviewService.create`, which the unique index checks again). The
transaction of `create` runs at READ COMMITTED, PostgreSQL's default: it reads who is available
at one moment (`CreateAssign`) and its writes appear together at a later one
(`CreateCommit`), or roll back. A close timer is an element of `timers`, first armed,
then (`closing`) past its read. `RequestError` lets any statement of a
handler fail, keeping what earlier statements wrote; `Restart` empties slots and
timers and marks everybody offline, as `onModuleInit` does. Deleting an assessor
applies the schema's referential actions: a ticket's optional `assessorId` becomes
NULL, messages, notices and reviews restrict.

`served` and `supplied` are history variables: who has held a ticket, which
images a manager attached. `faults`, `timersSet` and the length of chats only
bound the exploration.

What is abstracted: one Prisma call is one atomic step, its includes as well; images
are model values and a text message has `NoImage` (an empty string is taken as absent, as the code's truth tests do);
the QR of the payment method a ticket was created with is the constant `QrOf`; roles, teams and their managers are
constants; the time a timer waits is not modelled, so it fires at any moment;
money, recipients and emitted events are left out; a handler starts for a user of the role
its guard demands.

Identity verification (`Kyc`). The columns of `User` are functions over users;
`name` and `info` hold, in place of the text, the session whose identity they were copied from.
`createDiditSession` is `SessionRead` (its checks), `SessionPost` (Didit has the
session, the database not yet) and `SessionSave`. `handleDiditWebhook` finds the
user anew in every statement, by `kycSessionId`; so does the model: each
statement is an action on `Holders(session)`, and without a holder the statement throws, which is
`HandlerError`. That action also stands for a failing call and for the death
of the process: the controller answers a webhook before it is handled and catches whatever the handler
throws, so nobody tries again. The read and the update of the name are one
step, because the update finds no row when the read
would no longer do. Didit decides a session, or an operator changes the
decision, any number of times (`DiditDecides`), and each webhook it has sent is received any number of times, in
any order, by any free slot; asking it (`HookAsk`) yields its present decision or an error.
Whether a name or a document is usable is a choice, which covers accounts
without an information row. `removed` and `blocked` are history variables.
Signatures and time stamps of webhooks are not modelled: a webhook is one Didit sent.

The other five models share one form. A request occupies a handler, an administrator's slot or an event's; its frame
holds the next awaited statement and what the earlier ones found. `XFind` is the stretch up to and with the
first read, `XSave`, `XInsert` and the like are the later statements, each one action. A statement that names a row that
is gone, or inserts a value that a unique column has, fails the request (`Refused`), and any statement may
fail for its own reasons (`Fail`), keeping what was written. History variables, marked *ghost* in the
modules, say which requests overlapped: several promises hold except under a named overlap, and the property
names it.

*Accounts.* Rows carry the columns that decide: mail, code, password (whose it is rather than its text), provider,
name (whose word it is), approval. `generateRandomCode` yields a code nobody has, and one that somebody has fails. `User.token` is one
column for every purpose, as in the schema. What the KYC service writes to an account comes one statement at a time, in any
order and any number of times: the status (`KycStatus`), the approval that reactivates (`KycApprove`), the name
(`KycCopy`, only while somebody is in `copying`), nothing in place of the name (`KycStop`: no decision, no usable name, another
session, a failure), and every other status (`KycWithdraw`). An overruled decline is a `KycApprove` that is followed by
no copy. `Kyc` says which webhook gets how far. An anonymised row is treated as any other row: it has a mail that can be computed and
named, and a session that can be approved. `marks` says which account is in which exception. Hashing, tokens of sessions and levels of roles are left out.

*Rates.* Rates and amounts are logarithms on an integer scale, so that the products and quotients of the formulas are sums and
differences and comparisons are exact; the 56 entries of the formula map, the direction map and the rate-type map are all there. A base rate
may be created inactive. An update of base rates is `basesWrite`, then `derive` and `deriveTo` for each rate, `ratesWrite` for all, and `historyRead` and `historyWrite` for each; `alone` and
`spoiled` say whom another derivation or a failure left behind.

*Catalogue.* That the caller may do this is checked before and left out; reads that refuse only what the write would refuse are merged with it. The
key of a method is global: the name of the institution with country and type. An order is two look-ups by
name (`orderAccount`, `orderInsert`), whose links and methods may be inactive, as in the code. Deleting a link deletes
those of all rates with the method.

*Wallet.* Encryption of a field is a fresh seal, because its initialisation vector is random: two encryptions of one
text differ, so a number or mail is never found by encrypting it again, and unique columns hold of the seals. An order names any account of the table, its own or not, and makes
or finds a recipient with the document of the account or, when that has none, of the client who orders; an order without a document
takes the first recipient. `sealer` remembers for which account a document was encrypted. An institution is
one account's only, as `schema.prisma` has it. The order's statements run in its transaction and appear at its commit. Orders
may use a recipient that was removed, as the code lets them.

*Presence and support.* `handleConnection` and `handleDisconnect` are asynchronous, so a socket has a connecting
write and a closing write on their way (`coming`, `going`), which land in any order or fail. The clearing of marks at a start may fail as well. Deleting an assessor empties
`assigned` of its tickets, which keep status and chat (`orphans`), unless it wrote a message; its requests and sockets
live on. Administrators and managers (`Staff`) write in every chat. A status check that found the chat empty before a message
got in is in `overtaken`, and the welcome it stores is `late`. The clock
is `now`, in units of ten milliseconds, and the support number is `now`. An assessor who was never given a ticket comes last in
`findBestAssessor`: an ascending order puts NULLs last in PostgreSQL.

## Runs

| run | instance | shows |
|---|---|---|
| `desk_admission` | 3 tickets, 1 client, 1 assessor, 3 handlers, limit 1 pending and 1 in process, 1 restart | the limit of pending tickets is overshot by at most the other handlers in flight; a served ticket without an assessor lost it to a deletion |
| `desk_close` | 1 ticket, 2 assessors, 2 handlers, 1 message, 1 timer, 1 fault | types; closing with proof; where receipts come from; waiting tickets; whom reviews credit; the contract `TicketLife` |
| `desk_receipt` | 1 ticket, 2 assessors of one manager, 2 handlers, 1 notice, 1 message | the same under the manager's answers; what a notice shows; cancelling |
| `desk_timers` | 1 ticket, 2 assessors, 1 handler, 2 timers, 1 fault, fair | a timer closes a ticket with proof |
| `kyc` | 1 user, 2 sessions, 3 different webhooks, 2 handlers, 2 attempts | types; whose approval counts; a reset is final; who is blocked; who becomes active again; whose name and document are copied; the contract `Verification` |
| `rates` | 2 administrators, 2 currencies with base rates, 2 derived rates, 3 requests | types; rows of fair sheets favour the house against a fixed price; the tables of formulas agree; which rates are current; what history says |
| `accounts` | 1 mail, 2 handlers, 2 accounts, 2 codes, 6 requests and statements of the KYC service | shape and uniqueness; registration stays open; Google; codes; deletion; approved names |
| `catalogue` | 2 institutions, 2 rates, 2 fees, 2 handlers, 2 methods and 2 links ever, 5 requests | references; links; fees |
| `wallet` | 2 clients, 2 institutions, 1 third party with 2 numbers, 2 handlers, limit 1, 4 requests | references; the limit; destinations of orders |
| `support` | 2 assessors, 1 client, 1 manager, 2 sockets, 2 handlers, 1 restart, 2 messages, 3 requests | chats; welcomes; presence |
| `claim_*` | one each | refute two sentences, below |

`desk_close` has no notices, so that the clause of `PendingIsUntouched` about them is empty there; the theorem `WaitingIsUntouched` has
it for any notices.

Bounds. Interference needs two handlers on one ticket, and two assessors for a
change of hands, which `desk_close` and `desk_receipt` have together with a
timer or a notice; overshooting a limit needs more handlers than the limit, which
`desk_admission` has with three. One message is enough for either image to be the
proof or to be missing; two timers are needed, and enough, for one to make the other
late. `MAX_PENDING_TICKETS` (10) and `MAX_PROCESSING_TICKET` (6) are scaled down to 1: they are
compared with counts and nothing else. Slots, assessors and, in `desk_admission`,
tickets are interchangeable, so those runs use symmetry; the run with liveness does not.
Deadlock is not checked: the desk may rightly come to rest, for instance
when no assessor account is left and the client has reached its limit.

In `kyc`, a session may be replaced (two sessions), a webhook may be overtaken by another
of the same or the other session (two handlers, three webhooks, each
received any number of times), and an account may be decided, reset and decided again. `MAX_KYC_ATTEMPTS` (3) is scaled to 2:
one attempt before the limit and one at it. Every handler finds a single user by its session, so one user is enough
for TLC; the theorems hold for any number. Deadlock is checked and there is none.

In the last five runs two requests in flight are what every listed race takes, and the number of requests is the
longest story a property needs: sign-up on the phone or with Google, and a code, a deletion, a profile or statements of the KYC service on top, fit in six in `accounts`;
two links made and a third request that updates or deletes one is five in `catalogue`; an account, an edit of it, an order to it and an order or
edit that overwrites it is four in `wallet`. A second mail adds nothing, since requests meet on one. `wallet` has two clients, since
anybody may order to anybody's account, and starts (`SpecAfterFirst`) where the first of the four requests has failed or made an account,
of either client and with or without a document and a mail of its own: no property is about a table without accounts, and the theorems are about the
empty start and any number. In `support` one ticket is created, and two more requests or events meet on it or one comes after the other,
which a second welcome, a lost chat or a repeated taking needs; reassignment and deletion of its assessor fall between them. The limit of ten accounts (`bank-account.service.ts:43`) is scaled to 1. In `rates` ARS has two
sheets and the others one, so that an update changes a rate or leaves it; the arithmetic of the other pairs is covered by
the theorems, for any price and any sheet. Handlers, rates, institutions, numbers, sockets and assessors are
interchangeable, hence symmetry. Deadlock is not checked in these runs: requests are bounded, so the system stops.

Fairness (`desk_timers` only): weak fairness of every handler in flight, because
an awaited promise settles and its continuation is queued, and of the timer
callbacks, because the event loop runs a due timer. No fairness is assumed of
users, presence, deletion or faults. With it, `TimerCloses` holds: an armed timer on a
ticket that has proof closes it unless it is closed or handed over first or a fault loses the timer.

### Findings

* `LeastBusyChosen`: automatic assignment counts closed tickets as well
  (`ticket.service.ts:882`).
* `OverruledIsTold`: the user of an account approved because Didit overruled a decline is
  told DECLINED, and no identity data is copied (`kyc.service.ts:189`, `:222`).

### Observed while modelling

No run refutes a sentence of the repository with these; the properties name them as exceptions
or the models contain them.

* A ticket cancelled while `finalizeTicket` is between its check and its update ends in SUCCESS
  (`ticket.service.ts:814`, `:831`), and the QR code the welcome message posts in the assessor's name passes as the
  photo of the proof (`:826`, `chat.service.ts:303`).
* A timer set earlier closes the ticket although the assessor has changed the closing time (`chat.gateway.ts:202`, `:228`), and a timer
  may be armed on a ticket that waits.
* A notice may be rejected while its ticket lives on: the cancelling is a second statement (`ticket-receipt.service.ts:195`).
* A link that changed its method between a deletion's read and its write survives, and the links of the method it had go
  (`currency-payment-method.service.ts:501`).
* Deleting an account keeps its session at Didit, so a later approval reactivates the anonymised row and writes a name back
  onto it (`user.service.ts:574`, `kyc.service.ts:165`, `:309`); `CurrentApproval` and `Reactivation` allow it.
* The address of an anonymised row can be computed, and the by-mail paths ask for nothing but an address: a request that names it can
  set a password or ask for a code (`auth.service.ts:843`, `:877`; `"addressed"`).
* An account approved by overruling a decline, or whose webhook finds no decision or stops half way, keeps the name its
  owner gave it (`kyc.service.ts:191`, `:226`; `"uncopied"`).
* A code for a password overwrites one for deletion, and the other way round: there is one column. A deletion
  that is asked for twice can leave a code on the anonymised row (`"deletion"`).
* Registration removes the temporary row before it creates the account; a failure in between sends the person back to the
  start (`stranded`).
* An account made by password during a Google sign-in of the same mail gets the provider (`"google"`).
* The quote from USD to USDT multiplies by the selling rate of USDT in dollars, where dividing would be the cross rate
  (`exchange-rate.service.ts:76`): `RowsFavourHouse` and `FormulasAreCrossRates` leave that pair and its
  reverse out (`Inverted`), and `RowsFavourHouse` also the pairs at the official rate (`Official`).
* Two overlapping switches of one bank account lose one of them: each writes the opposite of what it read.
* Two creations make two links of one rate and method, with two fees (`raced`).
* An order may name an account of somebody else; if that account has no holder of its own, whoever ordered to it first is the
  recipient of the orders of all others (`ticket.service.ts:214`, `:226`).
* An order to a third party without a document takes the first recipient of the table and rewrites it (`ticket.service.ts:258`).
* A support ticket whose assessor was deleted stays PROCESSING, with a chat and nobody to answer, until somebody takes it
  (`orphans`); a socket of a deleted user may go on asking for the status of any ticket.
* After a failed clearing at the start users without a socket are online, and tickets are assigned to them (`user.service.ts:41`).

## Proofs

All invariants and action properties of the passing runs are theorems, and so are the two refinements. Only
`TimerCloses` is model-checked alone: the prover does not reach liveness under fairness. (`RECURSIVE` operators and induction
over data are out of its reach too; no module needs them.)

`DeskProofs` proves the following, for every value of the constants that satisfies the
assumptions of `DeskState` (roles are disjoint, absent values are no values, bounds are naturals,
and the process has at least one slot for a handler and finitely many).

* `TypeCorrect`, `Spec => []TypeOK`. `TypeOK` is not inductive: it does not say that the frame
  of a suspended handler names a ticket, so a write through that frame could
  leave the tables' domains. `TypeInv` adds `SoundFrame`: which fields each
  kind of frame has filled in. There is a lemma per handler, with a fact for each of its
  actions, and `NextType` puts them together.
* `ClosedWithProof`, `Spec => []SuccessHasProof`. The invariant is not inductive either: whoever
  found a receipt on the row writes none itself. `ProofInv` adds that such a
  handler (`HandlersProved`) or timer (`TimersProved`) still finds a receipt there
  when it writes. That is kept because no step erases a receipt (`KeepsReceipts`), and every step
  either decides nothing or has seen a receipt (`HandlersDecide`, `TimersDecide`);
  `KeptIsInductive` derives the invariant from these four facts about a step, and
  `RequestKeeps`, `ContinueKeeps` and `CallbackKeeps` show them action by action.
* `WaitingIsUntouched`, `OrphansExplained`, `ReceiptsHaveSource`, `ReviewsCreditServers` and `NoticesKeepEvidence`, from
  one invariant, `DeskInv`. A handler writes on the strength of a row it read before other handlers ran, so
  what it knows is put in terms that no later step takes back: who has ever served the ticket, what was
  ever supplied for it, what stands in its chat (`Knows` for a frame, `Foresees` for a timer). `Custody` says the same of the
  rows: nothing is on a ticket nobody has served, and a served ticket without an assessor lost it to a deletion.
  `DeskKept` states what a step does in six facts (knowledge lasts; receipts, notices and reviews that are written
  have a source; frames and timers learn only what is so), `DeskKeptIsInductive` derives the invariant from them, and
  there is a lemma for each kind of write (`CloseStep`, `PostStep`, `HoldStep`) under those of the actions.
* `DeskImplementsLife`, `Spec => ImplementsLife`. A step of the desk is the step of the contract that bears its name for the ticket
  it writes, or a stutter (`StepMaps`). It takes both invariants: `ProofInv`, so that a closing step has a proof, and
  `DeskInv`, so that what is cancelled, proved or closed has been served and thus no longer waits.
  `DeskKeepsPromise` draws the conclusion: the promise `LifeProofs` proves of the contract holds of the desk.
* `OvershootBounded`, `Spec => []PendingOvershoot`. `PendingInv` adds that a client's pending tickets are finitely many, without which
  their number says nothing. A creation enters with the limit unreached, whatever the other slots do (`EnterWithin`), and
  gives up its slot as its ticket becomes pending (`CommitWithin`); nothing else queues or creates.
* `SomebodyIsAssigned`: whenever an assessor of the team is available, the ranking of automatic assignment has a first, so `CreateAssign`
  is never stuck for want of one. It needs that finitely many tickets are held, which follows from the
  contract (one more per step, `HeldNext`), and the least-number principle, twice (`FirstOfTwoRanks`).

`LifeProofs` proves `PromiseKept`: whatever implements `TicketLife` closes tickets only with a proof, and waiting tickets are unheld and have none.

`KycProofs` proves all properties of the run `kyc`, for any number of users, sessions and handlers and any
limits, from `KycAssumption` (NULLs are no values, Didit reports one of its statuses):
`KycTypeCorrect`, `ApprovalIsCurrent`, `ResetHolds`, `BlockIsEarned`, `ReactivationIsEarned`, `IdentityIsVouched` and `KycImplementsVerification`.
The first five share one invariant, `KycInv`, since none is inductive alone: what a handler writes at its last statement rests on
what it knew at its first. `Records` says that a stored session was made for the account that
stores it and that Didit approves no session without a webhook; `Frames` says what each
suspended handler still knows (an approving one, that Didit said so; one about to block, that every
holder of its session has used up the attempts); `Pending` says that nobody works on a session
that is still to be stored, which is why storing it cannot give a half-finished webhook a
user it did not count. `FrameKept`, `AccountsKept` and `GoalsKept` dispose of what a step leaves
alone, and one lemma per action does the rest; `NextKept` puts them together. `Origins` carries the approval on to the
two statements that copy name and document (`Vouched`): the second runs on a user found before, who may have another
session by then, so it remembers whom the session was made for. With both invariants every statement
maps to one atomic step of `Verification` or to a stutter: `HookFinds` says of all of them what their frame still knows
of the session of the account they find, and there is a lemma per statement (`ReceiveMaps`, `ApproveMaps`, `BlockMaps`, ...).

The five remaining models have all their properties proved, for any sets and bounds, from the assumptions in their
first module (absent values are no values; bounds are naturals; in `Rates`, every submitted sheet brackets the prices).

`AccountProofs`: `AccountsHold`, `RegistrationOpen`, `GoogleHolds`, `CodesHold`, `LockedOutHolds` and `IdentityHolds`. `DeletedLockedOut` and
`ApprovedIdentity` say what they do of accounts outside the exceptions above, which `marks` names, and the proofs follow the marks: an
anonymised address reaches a request only with its account marked (`ByItsAddress`), and an approval marks its account `"uncopied"` until a copy
comes. A row keeps its
promises by itself (`GoodRow`); `Knows` says what of a request's reading is still true when it writes: the code it will store
is nobody's and unspent, an account made under a Google sign-in is marked, and so is one approved
under a saved profile. Statements that change no row go through `QuietStep`; those that write one through `WriteStep`, whose `Becomes` says which
changes of a row leave everybody else's knowledge true; new rows through `InsertStep`.

`RatesProofs`: `RatesHold`, `RowsHold`, `FormulasHold`, `HistoryHolds`, `CurrentHolds`. The first part is arithmetic: if every submitted sheet
brackets one fixed price of its currency, the formula of every pair errs on the house's side of the cross rate, and at sheets that
quote the price exactly it is the cross rate (`FormulasHold`, a constant fact about the tables for every price). Prices that move between two
statements, the pairs at the official rate and those of USD with USDT are not in these two. `IInv` then carries it through the statements: `Tables` says that
every stored row favours the house, `Working` that what a request holds between two statements does. `CurrentHolds` needs a
second invariant, `GInv`: while nobody else derives, what a request has computed and what it has still
to do together make every rate of its currencies a quote of the present base rates (`OwnFresh`); whoever is not alone has spoiled
its currencies.

`CatalogueProofs`: `CatalogueHolds`, `LinksApart`, `RemovedForGood`, `FeesAreDue`. The invariant adds `Knows`: until something it
read is written (`stale`), the pair a request will write is free, the row it found is as it was, and the fee is the fee.

`WalletProofs`: `WalletHolds`, `LimitHolds`, `HolderHolds`, `DestinationHolds`. An identifier or seal a request will make is nobody's
yet (`Names`), and the seals lead from recipients back to accounts (`RecipientTable`): the mail a recipient was made with belongs to the
account whose holder it names, or to which the client it names has ordered, however often the account was changed or deleted since. The
limit holds because a request nothing overtook since it counted still finds room (`Counted`), and every other is counted in `late`.

`SupportProofs`: `PresenceHolds`, which is inductive as it stands. `SupportHolds` needs what requests in the middle of their statements have
found (`Asked`: the tickets and chats they will write to are there, since neither is ever removed; the people they found may have been deleted
since) and that no deleted account is online (`Present`); `DeleteAssessorCorrect` shows that emptying `assigned` of the tickets and
naming them `orphans` keeps the rest. `WelcomesBounded` needs `Fresh`: a handler with a welcome on its way has an empty chat before
it, or was overtaken, and only the welcome of one overtaken is stored late.

## Plan

What would come next, in this order:

1. A contract for accounts (sign-up, code, password, deletion in one step each) and its refinement by `Accounts`,
   whose invariant already says what each request still knows.
2. Rooms and emitted events: which client is told what, and when an event precedes its commit.

## Not modelled

* Rooms, typing events and the delivery of emitted events: the gateway keeps nothing about them and nothing in `src/` reads them back.
* Lists, detail queries and look-ups, which change nothing.
* Teams and assessors: `team.service.ts` writes one row a call and `assessor.service.ts` only reads; who manages whom is a
  constant of the desk. Offices, files and the seed: one statement, an upload, or a fixture. The templates of e-mails are text; that a mail arrives
  or fails is `Mail`.
* Cryptography, JSON web tokens, hashes, signatures and time stamps of webhooks; the wording of messages.
* In `Support`, the deletion of clients, which their tickets refuse, and of administrators, which changes none of its rows; levels
  of roles. In `Accounts`, sessions at Didit: which webhook may still write to an account is the question of `Kyc`.
* The rounding of amounts: prices are exact logarithms, so a loss of the last cent would not show.

`PROJECT.json` gives the state and the reason for each component.
