# Chaudron in TLA+

Chaudron keeps the pantry of a household: what is in stock, when it expires, what
to buy, what to cook, what it cost. Several phones of one household use it at once.
The backend (`src/backend/src/chaudron`) is a FastAPI application over PostgreSQL,
and an integration for Home Assistant polls it. This directory specifies what they
promise when requests overlap, fail half-way, are lost or are sent again, checks it
with TLC on small instances, and proves much of it with TLAPS for every size.

- [The system](#the-system)
- [The modules](#the-modules)
- [The runs](#the-runs)
- [Bounds](#bounds)
- [Fairness](#fairness)
- [The proofs](#the-proofs)
- [Disagreements found](#disagreements-found)
- [What is left out](#what-is-left-out)
- [Plan](#plan)

## The system

One HTTP request is one PostgreSQL transaction at READ COMMITTED
(`infra/db.py`, `Database.session`): it rolls back when the handler raises or is
cancelled. Four consequences shape every module:

- two requests interleave between any two statements; each statement sees what is
  committed when it starts, and the request's own writes;
- nothing is serialised unless the code asks for it: `SELECT ... FOR UPDATE`, a
  unique index, a foreign key or a conditional `UPDATE`;
- an ORM update writes only the columns whose value differs from the one that was
  read, `WHERE id = ...` and nothing more; a waiting writer finds its row again once
  the holder ends;
- the transaction commits when the dependency that opened it is closed, which is after
  the answer has left. `Accounts`, where mail is sent and cookies are handed over,
  models the answer and the commit as two steps; elsewhere the answer is given with the
  commit.

Rate limiters are the exception: they commit in transactions of their own, on a pool
of their own, so that a refused or failed request still spends its token.

| Component | State | Operations | What is hard | What makes it correct |
|---|---|---|---|---|
| Inventory (`services/inventory.py`, `infra/repositories/inventory.py`) | lots, stock movements | add, update, freeze, thaw, remove | merging intakes, swaps of places, row locks and an index that waits | the count is the sum of the movements; one active lot per merge key; no lost update; depletion is final |
| Shelf life (`domain/shelf_life.py`, `domain/frozen_life.py`) | none | effective expiry | a date that gets younger by opening, freezing, thawing | a date of freezing or of thawing is written once |
| Receipts (`services/receipts.py`) | receipts, lines, products created on confirmation | import, confirm, discard | a long unlocked read-then-write, a file sent twice, a failing fifth line | a proposal has stocked nothing; a decided line is decided once |
| Reading of receipts (`services/receipt_text.py`, `domain/labels`, `infra/documents`) | none; a pool of processes | parse a text, a photograph, an abbreviated label | columns in every layout, a process that dies under a neighbour's document | numbers stay with their article; a shown name is sure; a document is judged alone |
| Shopping list (`services/shopping_lists.py`, `services/shopping_import.py`) | lists, items, declined repurchases | read, add, import, edit, remove, decline, undecline | creation of the first list by a GET, unlocked edits | edits do not undo each other; an import accounts for its document |
| Throttling (`infra/rate_limits.py`, `api/throttling.py`) | buckets, slots of a worker, two pools | acquire, refund, sweep, forget, slot | time that runs backwards across transactions, pools that feed each other | no more than a bucket and what the rate adds; slots never leak |
| Tenancy (`infra/db.py`, `api/deps.py`, migrations) | the setting of a pooled connection | resolve, post, savepoint, forget | one connection serves two households in turn | a request reaches its own household, all of it and no other |
| Accounts (`services/auth.py`) | accounts, sessions, reset links | register, sign in and out, reset, change | a session touched while it is revoked, a link consumed twice | what was revoked stays revoked and opens nothing |
| Memberships, tokens (`services/memberships.py`, `services/tokens.py`) | memberships, invitations, machine tokens | issue, revoke, redeem, remove, leave, use | an invitation redeemed twice, the last owner | redeemed once; a household that stands has an owner |
| Privacy (`services/privacy.py`) | erases every row of a household or an account; reads them all | export, erase | writers at work while rows disappear, tables read one by one | what is erased leaves nothing; an export is whole |
| Retention (`scripts/purge_*.py`) | dead credentials, frozen inventories | sweep | several dates end one credential | a sweep takes the dead, all of them and nothing else |
| Product catalogue (`services/products.py`, `infra/openfoodfacts.py`) | shared cache of barcodes, sliding window of calls | lookup | concurrent lookups, stale and absent answers, callers that sleep | never more calls in a window than the budget; a known product is kept |
| AI providers (`services/providers.py`, `infra/llm`) | configurations, consents, capabilities | create, edit, probe, consent, withdraw, load, call | a consent withdrawn under a request, a probe that takes its time | a withdrawal reaches the next use; every attempt is accounted for |
| Credential sealing (`infra/crypto.py`, `infra/todo/credentials.py`) | sealed columns | seal, archive, open; rotate, restore | a ciphertext parted from its key or its row | a secret opens for its own row only |
| List exports (`services/export_targets.py`, `services/shopping_export.py`, `infra/todo`) | agreement, registered target | register, withdraw, send | lost answers, batches applied in part | a receipt means accepted |
| Recipes, dietary rules (`services/recipes.py`, `domain/dietary.py`) | suggestions, verdicts, eaters | suggest, decide, clear, declare | declarations edited while the model thinks | an ingredient ruled out is never kept |
| Budget, balance (`services/budget.py`, `services/balance.py`) | targets | report, set a target | period and zone arithmetic | periods tile the history; a meal fills its gap |
| Calendar feed (`api/routers/calendar.py`, `services/calendar.py`) | revocation epoch | sync, subscribe, revoke | a tag that must change with its content | a phone told "nothing new" shows what is published |
| Home Assistant (`src/homeassistant`) | one entry, a snapshot | refresh, edit, set up, reconfigure | four awaited requests while the household moves | entities end up showing what the token allows |
| Web client, mail, seeding, scripts | none of record | — | — | — |

Components interact through rows and calls. A receipt confirmation calls the same
intake as the inventory screen and creates products the catalogue then holds; the
shopping list reads depleted lots and remembers refusals; a suggestion passes the
throttles before it reads the stock and calls a provider, under a consent and with a
sealed key; an erasure removes what all of them wrote; and everything passes through
tenancy. `PROJECT.json` lists every component with its status, and each hazard with
the line where it bites and the properties that watch it.

## The modules

| Module | What it is |
|---|---|
| `StockLedger` | the abstract stock that `Inventory` implements: a lot holds an amount, and every change of it is an entry of its ledger at the same instant |
| `Inventory` | lots and their ledger under concurrent requests, the two forms of a quantity and their rounding, the effective expiry of a lot |
| `Receipts` | import, confirmation and discard of receipts; the intake of a line is Inventory's "add" seen from outside |
| `Documents`, `Labels`, `ReceiptText`, `ReceiptReading` | which reader a file gets; the abbreviated label; the text of a till or a recap; one receipt from upload to review |
| `Sandbox` | the pool of processes that read PDFs |
| `Tenancy` | the household of a transaction, and what the policies let its statements reach |
| `ShoppingLists`, `ShoppingImport` | the current list, its items and the refused repurchases; the proposal made of a pasted document |
| `Parts` | `ShoppingLists`, `Tenancy` and `Sandbox` side by side |
| `Throttling` | buckets, slots, pools, sweep and erasure around a costly request |
| `ProductCatalogue` | a barcode looked up in the shared cache, then at Open Food Facts through a sliding window |
| `Memberships` | members, invitations, machine tokens and the erasure of a household or an account |
| `Accounts` | accounts, sessions, reset links |
| `Providers`, `Inference` | the configurations of a model with their consents; one call to it |
| `Sealing` | the secrets a household entrusts, and the events that part a ciphertext from what opens it |
| `ListExports` | the agreement to send the list elsewhere, and the sends |
| `HouseholdExport`, `Upkeep` | the document a household may ask for; the sweeps of the operator |
| `Service` | what guards the service side by side: `ProductCatalogue`, `Throttling`, `Memberships`, `Providers`, `ListExports`, `Sealing`, `HouseholdExport`, `Upkeep` and `Inference` |
| `Dietary`, `Recipes` | reading a product's record and screening; suggestions and verdicts |
| `Budget`, `Balance` | periods, reports and targets; what was eaten against the benchmarks |
| `CalendarFeed`, `HomeAssistant` | a phone that polls the feed; an entry that polls the instance |
| `*Proofs` | `InventoryProofs`, `ReceiptsProofs`, `AccountsProofs`, `MembershipsProofs`, `SealingProofs`, `ServiceProofs` (with the catalogue's and the limits'), `RecipesProofs`, `PartsProofs` (with the feed's) |
| `MC*` | the small instances: `MCInventory` (with `MCReviews`, what is printed on its documents), `MCPurchases`, `MCAccounts`, `MCService`, `MCHousehold`, `MCEdge` |

The state machines have one frame. `tx[c]` is the transaction of client `c`: a `step`
or `phase` (the program counter of the handler, one value per statement that other
requests can see or delay), what it has read, and what it has written and not
committed. `reply[c]` is the last answer. The row variables hold committed rows only.
`Begin` accepts a request, `Serve(c)` is the disjunction of its statements, `Commit`
publishes everything it wrote at once, `Rollback` nothing. `Interrupt` is the client
hanging up or the process dying, at any phase; `DeadlockVictim` is PostgreSQL
cancelling one member of a cycle of waits. Early refusals, which touch nothing but the
transaction's snapshot, are decided with the read that precedes them.

**Compositions.** Modules that share no state are explored in one run: a variable
(`scenario`, `about` or `part`) chosen in the initial state says which of them moves,
and the others rest in one of their initial states. `MCInventory` has, beside the
shelf, a receipt of `ReceiptReading`; `MCPurchases` has `Receipts`, `ShoppingImport` and
the three parts of `Parts`, which are `ShoppingLists`, `Tenancy` and `Sandbox`;
`MCHousehold` has `Recipes`, `Budget` and `Balance`; `MCEdge` has
`CalendarFeed` and `HomeAssistant`. `Service` is the same for any values of the
constants, which is how it can be proved about: each part is an `INSTANCE` under names
of its own (`mtx`, `ptx`, ...), `ServiceNext` moves one and leaves the `Others`;
`MCService` gives it an instance and adds `part`. `Parts` too is for any constants; its
parts have no common next step, and each has its own specification.

**Inventory.** `lots[l]` is an `inventory_lot` row, `ledger[l]` the sums of
`delta_canonical` by kind of movement, `lock[l]` the request that holds the row
`FOR UPDATE`. `find → lock → decide → write → index → commit`: `FindRow` and
`LockRow` are two steps because a locked read may wait, and a row that changed in
between is evaluated again (`LockStaleRow`). `InsertLot`, `MergeIntoLot`,
`UpdateLot`, `FreezeLot`, `ThawLot` and `RemoveLot` each write the row and its
movement as one pending version; `EnterIndex` waits for a claimed merge key and
`LoseIndex` is the 409. Amounts are integers in grains, `Grain` to a quantum, so
rounding is the code's rounding. `today` moves between any two steps.

**Receipts.** `intakes[r][n]` counts the committed intakes of line `n` of receipt
`r`, which no column stores: it is a history of what the stock received.
A confirmation reads the receipt without a lock (`Require`), loads its lines, and
for each decision drops it or resolves a product, finds a lot, stocks it and marks
the line; then settles the receipt. Waits are derived from what each transaction has
written (`WaitsFor`): rows, unique digests, foreign keys and the cascade of a
discard. Products carry who created them, because nothing makes a name unique.

**Reading a receipt.** A ticket is a sequence of lines, each a record of what the
parser's patterns find in it; `ReceiptText` is the reader line by line, columns and
recaps included, as recursive operators. `Labels` cuts a printed label into segments
with the lexicon, longest form first, and says what it knows of each. `ReceiptReading`
follows one receipt: its text (`ReadPdf`) or its photograph (`ReadPhoto`, `ModelAnswers`)
is read, matched with products, stored (`Store`) and shown again as a proposal (`Show`),
with the model and the products changing meanwhile. `Documents` has the
bounds a file must meet. `Sandbox` runs documents through processes that die, time out
or grow; what a worker measures is what its process ever spent.

**Tenancy.** A request resolves a household from its credential, posts it to its
connection (`guc`), and every statement after that reaches what the row policies let it
reach (`Visible`, `Writable`, `Deletable`); savepoints nest and roll back; the
connection returns to the pool and serves another. What stops an instance that bypasses
the policies, or meets an older schema, is a set of guards on serving anything.

**ShoppingLists.** `items` is the sequence of rows ever committed, `Gone` once
removed. `read` in a transaction is the row it loaded, and `Written` is the ORM's
rule. A tick is sent by the query for the units, so a request with an unknown unit waits
for the row before it is refused (`TickDiffers`). `lists` is the set of live default
lists; `CreateList` waits for, then loses to,
another creation. `declined` is filled row after row with `ON CONFLICT DO NOTHING`.
`ShoppingImport` is a document: read line by line, put to a splitter that may answer
anything (this build ships none), and proposed.

**Throttling.** `bucket[k]` is the committed row; `tx[c].at` is the `now()` of a limiter
transaction, which is when it began and may precede the row it ends up reading.
`spent[k][t]` is the history of grants less refunds, up to each time they were
committed. `inFlight` and `running` are what a worker believes is under way, by key and
altogether; the requests at phase `work` are what is true. A suggestion takes a session
connection, then a limiter connection, then a slot; a poll spends a token, checks the
credential and gives the token back when it is good; a sweep and an erasure delete rows
under everyone's feet; `Restart` empties a worker.

**ProductCatalogue.** `row[g]` is the public row of a barcode: its source, whether it is
archived, the document it was made from (`payload`, `Absent` for a remembered absence)
and two columns that stand for the others: `declared` for what is read from the
taxonomies, `label` for the rest. A lookup is `acquire → ask → store → flush → commit`
in one transaction that stays open during the call. `calls[w]` is the deque of a worker,
pruned (`Dropped`, `Remembered`), tested and filled without an `await` in between, so
`Acquire` is one step; a refused caller sleeps until `wake` and contends again. `Store`
reads the row again, unlocked (`base`), and `Changed` writes the columns that differ
from it over whatever the row is by then. `Flush` is where the unique index answers. A
lookup of an unknown barcode ends in an exception, so its entry is rolled back with it.
`made` lists the times of the calls really made, which no part of the code remembers.
`Edit` is the public changing Open Food Facts.

**Memberships.** `members[h][a]` is a role or nothing; `invitations` and `tokens` are
rows, `Gone` once erased. A statement names the rows it writes (`Written`, found among
those committed) and the rows its foreign keys share (`Shared`), and takes them
together (`Write`); everyone who needs one of them waits. What a commit does is
then read off the rows the transaction owns. Redemption is `Resolve → CheckMember →
Spend → Join`: the value is resolved without a lock, and the conditional UPDATE
(`Spendable`) decides. Erasure deletes the root row, then `Cascade` needs every
dependent row. `past` is what had expired when the transaction began, since its `now()`
stands still; `late` is the history of whether what it presents has been dead ever since.

**Accounts.** A sign-in, a sliding session, a change and a reset of the password are
the statements they send. `Respond` and `Commit` are two steps, with the mail
(`Deliver`) between. `Touch`, which slides a session, writes a row another request may be
revoking; a link is consumed by a conditional `UPDATE`; `Lapse` takes sessions and links
past their ends; `Disable` is an operator.

**Providers.** `configs[k]` is a configuration row; a transaction holds the row it read
(`row`) and the columns it will write (`set`), computed by `Changes` against what was
read and laid `Over` whatever is there at the commit. `ApplyProbe` has interrogated an
endpoint between the two. `Load`, `SealedCredential` and `Transmit` are a use of the
model; `barred` is the history of what a request has known unpermitted since it began.
`Inference` is what `Transmit` then does: the addresses of a name resolved twice, the
attempts, the retries and the bill.

**ListExports.** `Register` hands over the token of a person; `ExporterFor`,
`BuildExport`, `PostBatch` and `Receipt` are a send, whose answers may be late, partial or
lost; `outside` counts what the application at the other end really holds. `Tick`,
`Archive`, `Leave` and `Rejoin` are commits of other requests (the list's and the
memberships') that a send may meet between two of its readings.

**Sealing.** A sealed column opens under the key and the binding (the associated data)
it was made with and no other; `due` is the history of what was last entered. Events
around the requests restart the service under another master key, take and restore a
dump, carry columns between rows, or cut one short.

**HouseholdExport.** `at` counts the statements: a table each, then the accounts, then
the public products; rows come, go and move between any two of them. `steady` and
`stayed` are the histories of the rows and members that were there all along, `late` of
the rows born meanwhile.

**Upkeep.** Sessions and machine tokens with their dates, suggestions with the inventory
frozen in them; days pass, sessions slide, holders are disabled and enabled, leave and are
invited again, the household is archived, and each sweep is one statement with a cut-off.
Three things differ and are kept apart: a credential is over by its own dates
(`SessionRuns`, `TokenRuns`), it opens what its holder may open (`Resolves`, `Admits`, with
the account, the membership and the household the resolvers join), and it is swept.
`endedSince` and `deadSince` are the histories of the first day of each of the first two:
a sweep goes by the dates alone, so a token that never expires, of a member who was
removed, opens nothing and is kept (`purge_expired_credentials.py:86`).

**Recipes and Dietary.** `Dietary` is the reading of a record, the union of the eaters
and the screening as pure operators; `Recipes` the suggestion (`ReadEaters`,
`ReadStock`, `Generate`, and what of the answer is kept) and the verdicts, whose row is
held by the `UPDATE` and tested by the checks of its table.

**Budget, Balance.** A day has two instants and a zone is an offset in half days, so a
receipt can fall on either side of midnight; a report is a function of the rows, setting a
target a read and a write. The balance is a function of movements, labels and day; an
intake, a consumption or a removal writes its movement and changes the lot in one action, as
the inventory does in one transaction.

**CalendarFeed, HomeAssistant.** The phone holds a token and a listing; `Sync` answers
what changed, or that nothing did, from a tag computed of what is published. The Home
Assistant entry refreshes through four awaited requests, learns the scopes it has,
honours `Retry-After`, writes the shopping list back, and is set up and reconfigured by
four forms. What it shows of the budget is a set of currencies; which of them have a sensor
is fixed at set-up.

## The runs

Six runs pass; each of the other six checks one sentence of the repository that the code
does not keep (see [Disagreements found](#disagreements-found)).

| Run | Instance | Properties |
|---|---|---|
| `inventory_race` | two requests on two lots; every refusal and field one request at a time over five days; two lots moved onto each other's place; a receipt up to the review screen | `LedgerIsTruth`, `OneLotPerMergeKey`, `ClocksStartOnce`, `NoLostUpdate`, `DepletedIsFinal`, `ImplementsStockLedger`; `NumbersStayTogether`, `ShownNamesAreVouchedFor` |
| `purchases_race` | two requests over two receipts whose reviews repeat, mistake or cannot stock a line; two phones on the list of a new household; a pasted document; one pooled connection; documents through the pool of processes | `LinesFollowTheReceipt`; `EditsDoNotUndoEachOther`, `RemovedIsFinal`; `ImportReportsTheDocument`; `RequestsReachTheirHousehold`; `DocumentsAreJudgedAlone`; `EveryRequestAnswered` |
| `accounts_race` | two requests around one account, with links, expiry and an operator | `WithdrawnIsFinal`, `RemediesReachEverySession`, `DeadCredentialsOpenNothing`, `EveryRequestAnswered` |
| `service_race` | the nine parts of `Service`, one at a time | `CallsStayInBudget`, `NothingIsWithheld`, `KnownIsKept`, `MembershipsAreSound`, `ErasureIsComplete`, `WithdrawnIsFinal`, `WithdrawalReachesTheNextUse`, `RecordsAreKept`, `SentMeansAccepted`, `KeysOpenOnlyAtHome`, `DocumentIsWhole`, `SweepsTakeOnlyTheDead`, `AttemptsAreAccountedFor` |
| `household` | suggestions and verdicts for two people; receipts in periods; meals in the balance | `SuggestedCanBeServed`, `CookingsAreKept`, `EveryReceiptIsCountedOnce`, `MealsMoveTheBalance` |
| `edge` | a phone on the feed; a Home Assistant entry | `SyncTellsTheTruth`, `RevokedReadsNothing`, `PhoneShowsTheFeed`, `EntitiesCatchUp` |

What they show:

- **Inventory.** Whatever interleaves, is interrupted or is deadlocked, the count of a
  lot is the sum of its movements, two active lots never share a merge key, no commit
  overwrites what it has not seen and a removed lot is history; a date of freezing or of
  thawing is written once, what was thawed is not frozen again nor what has expired
  frozen, and only these and a correction move the day a lot becomes unfit; the whole is
  the abstract `StockLedger`.
- **Reading.** A line bears no count or measure but those of the article it names, and the
  total is the one printed as such. Its prices too are its own wherever what the reader
  supposes of a recap holds of the text (`NextPricesAreFurther`: after an article that
  prints no price, the next one's are out of reach); nothing makes documents comply, and
  `inventory_prices` reads one that does not. A name shown in place of the printed one is a
  reading of all its words that somebody vouches for.
- **Tenancy.** A request reaches the household its credential proves, all of it, no
  other, whichever request held the connection before.
- **Purchases.** A receipt is all proposal or all decided, stock included. A tick and a
  correction survive each other; what was removed stays so. Every request is answered.
- **Documents.** A document is judged by what its own reading spent. The run checks
  deadlock, so every document is answered.
- **Accounts.** What was revoked or consumed stays so and opens nothing; a remedy reaches
  every session there was when it looked.
- **Service.** Buckets, windows, slots and pools keep their promises; a known product is
  never lost; every membership is earned; an erasure leaves no row; a withdrawal reaches
  the next use and only a new agreement undoes it; a receipt for an export means every
  line arrived; a secret goes where it was entered; an exported document is whole; a
  sweep takes what its own dates have ended for longer than the retention, all and only,
  and never what opened something within it; attempts and their bill agree.
- **Household.** What is suggested can be served to the eaters it was made for, as they
  were read; a cooking somebody was told of is kept, whatever verdicts and withdrawals
  cross it, and none is shown that has no date; each receipt is in one period; a meal
  takes its serving off the gaps it fills, and throwing food away changes nothing.
- **Edge.** A phone told that nothing changed holds what is published, and ends up
  showing it; the entities of Home Assistant end up showing the household.

Each property of a passing run comes with a mutant in `PROJECT.json`: a definition of
the module and the operator (`Mut...`, beside the definition) that changes it the way a
plausible bug would. Under the mutant the same run fails, so no property holds by vacuity.
(For the liveness of the requests, the bug is a refusal that is answered and leaves its
transaction open, so that the rows it holds are never let go.)

## Bounds

`MaxRequests` and its kind bound the requests of a behaviour and are named in a guard of
`Begin`; sets of identifiers bound the rows that can be created; `MaxDay`, `MaxNow`,
`LastInstant` and their kind bound the clocks. Clients return to idle and issue again, so
"two clients, four requests" is a history of four requests of which any two overlap.

- Two clients are enough for the conflicts here: every statement of the code that
  waits or loses does so against one row or one index entry of one other
  transaction, and the properties relate at most two lots, receipts or items. A
  third transaction can make a cycle longer but adds no kind of wait.
- Inventory: two lots are what a merge key, a swap or a twin in the freezer need;
  four requests allow two set-up intakes and the two that race. Two days give each
  date a before and an after; the rules have five, past every figure of the
  instance (one day opened, three frozen, three thawed). A kilogram is two canonical
  units and a quantum three grains, so amounts round up, down and to nothing.
- Tenancy: two requests in turn and one change of household are what a setting left on a
  connection needs. Documents: three uploads are one that kills or fattens a process, one
  beside it and one after.
- Receipts: two lines give a confirmation a first and a last; two receipts let two
  confirmations cross on the same products in opposite orders; four requests are two
  imports and two reviews. Lists: three requests are the one that creates and the two
  that race on what it created. A pasted document has up to four lines, one more than is
  read, two of which go to a model.
- Accounts: four sessions and three links are those of the instance and those that three
  requests can create; two passwords tell the old from the new.
- Catalogue: one worker, since workers share no window, that makes one call in two
  ticks, so the second of two phones always contends; a wait of one tick is shorter than
  the window, so both refusals and waits happen. One edit makes a product appear, change
  or vanish.
- Throttling: one token, three grains regained at two a tick, makes every grant meet the
  limit; pools of two and one, and of one and two, make either the narrow one. The cutoff
  and the longest transaction satisfy the inequality the deployed figures do
  (`ThrottlingAssumption`).
- Memberships: three requests are an invitation and two that meet on it, or a token, a
  removal and a use; four accounts give two people who race for one invitation besides a
  member and the owner. Providers and exports: three requests are an agreement, its
  withdrawal and a use; a batch of one line makes two lines two batches.
- Sealing: three rows (two kinds, and one to carry a column from), two masters, two requests
  and two events. Export of a household: three tables, one naming another, four row
  identifiers, two households. Sweeps: two credentials of one holder, of which a sweep may
  take one, meet while the holder may use both; five days pass every figure (sessions of
  three days that lie unused for two, tokens of one day, a retention of one). Inference: one
  call, of two attempts at most; a name of two addresses, which changes twice, before and
  between the attempts; three reports, of which one says nothing.
- Household: two people, three products and dishes that the filters treat differently;
  zones on both sides of UTC at the turn of a month; a balance over two days.
- Edge: two lots over four half days, where a lot appears, changes, ages out and loses its
  alarm; one change, fault and edit for the entry.

`service_race` takes the symmetry of the clients, which are interchangeable in every part
and in every property of that run, none of which is a liveness property. No other run
takes symmetry. `edge` does not check deadlock, because there the
world may simply come to rest; every other run does.

## Fairness

`FairSpec` adds `WF_vars(Serve(c))` for each client and nothing else (in
`FairPurchasesSpec`, for the clients of the receipts or of the lists, whichever moves):
a request that has begun goes on to its next statement whenever that statement can run.
The event loop schedules every runnable handler, and PostgreSQL grants a lock once it is
free and breaks a cycle of waits after `deadlock_timeout`; a statement that waits is
disabled in the model. `DeadlockVictim` is part of `Serve`, because that detector is
what ends a cycle. No fairness is assumed of `Begin`, `Interrupt`, `Tick` or `Restart`:
nobody has to ask, hang up or crash. Weak fairness is enough: locks are not taken from a
waiter for ever, since requests are finite in number.

For the phone, `CalendarFeed!Fairness` is weak for the steps of a poll, the refilling of its
limits and the commit of a revocation under way, and strong for `Subscribe`: a person who
finds the feed refused enters the current address at last, between two polls, however
often the phone asks again meanwhile. For Home Assistant, it is weak for the set-up and the
refresh (`Polling`), for an edit under way (`AskEdit`), and for the end of a wait that was
asked for (`HoldEnds`): that is what Home Assistant's timers do. Edits, forms, faults and
changes of the household have none.

## The proofs

Eight modules prove, for every set of clients, lots, products, places, units, receipts,
lists and items, connections, documents, workers, buckets, barcodes, accounts, sessions,
links, households, rows, keys, tables, days, members, records, tasks and credentials, and
for every bound:

| Theorem | States | In |
|---|---|---|
| `TypeCorrect`, `CoherentTransactions` | `[]TypeOK`, `[]TransactionsCoherent` | `InventoryProofs` |
| `LedgerCorrect` | `[]LedgerIsTruth` | `InventoryProofs` |
| `UpdatesAreNotLost` | `NoLostUpdate` | `InventoryProofs` |
| `DepletionIsFinal` | `DepletedIsFinal` | `InventoryProofs` |
| `OneLotPerKey` | `[]OneLotPerMergeKey` | `InventoryProofs` |
| `NoClockStartsTwice` | `ClocksStartOnce` | `InventoryProofs` |
| `RequestsAreSingleOperations` | `ImplementsStockLedger` | `InventoryProofs` |
| `ReceiptsAreWhole` | `[]LinesFollowTheReceipt` | `ReceiptsProofs` |
| `KnownProductsAreKept`, `ServiceKeepsProducts` | `KnownIsKept`, alone and in the service | `ServiceProofs` |
| `WithdrawnStaysWithdrawn` | `WithdrawnIsFinal` of `Accounts` | `AccountsProofs` |
| `RemediesReachAll` | `RemediesReachEverySession` | `AccountsProofs` |
| `DeadCredentialsGetNothing` | `DeadCredentialsOpenNothing` | `AccountsProofs` |
| `SecretsOpenAtHome`, `KeysOpenAtHome` | `[]KeysOpenOnlyAtHome`, alone and in the service | `SealingProofs`, `ServiceProofs` |
| `ErasureLeavesNothing`, `ErasuresAreComplete` | `[]ErasureIsComplete`, alone and in the service | `MembershipsProofs`, `ServiceProofs` |
| `MembershipsStaySound` | `[]MembershipsAreSound`, alone and in the service | `MembershipsProofs`, `ServiceProofs` |
| `WithdrawnGetsNothing` | `WithdrawnIsFinal`, alone and in the service | `MembershipsProofs`, `ServiceProofs` |
| `WithdrawalsReachTheNextUse` | `[]WithdrawalReachesTheNextUse` | `ServiceProofs` |
| `ConsentRecordsAreKept` | `RecordsAreKept` | `ServiceProofs` |
| `DocumentsAreWhole` | `[]DocumentIsWhole` | `ServiceProofs` |
| `SweepsAreRight` | `SweepsTakeOnlyTheDead` | `ServiceProofs` |
| `SuggestionsCanBeServed` | `[]SuggestedCanBeServed` | `RecipesProofs` |
| `NoCookingIsLost` | `[]CookingsAreKept` | `RecipesProofs` |
| `UnchangedMeansUnchanged` | `[]SyncTellsTheTruth` | `PartsProofs` |
| `RevokedCredentialsReadNothing` | `[]RevokedReadsNothing` | `PartsProofs` |
| `RemovedItemsStayRemoved` | `RemovedIsFinal` | `PartsProofs` |
| `EditsKeepWhatOthersWrote` | `EditsDoNotUndoEachOther` | `PartsProofs` |
| `HouseholdsAreKeptApart` | `[]RequestsReachTheirHousehold` | `PartsProofs` |
| `NoDocumentPaysForAnother` | `[]DocumentsAreJudgedAlone` | `PartsProofs` |
| `CallsAreBudgeted` | `[]CallsStayInBudget` | `ServiceProofs` |
| `NothingIsLost` | `[]NothingIsWithheld` | `ServiceProofs` |
| `ReceiptsAreHonest` | `[]SentMeansAccepted` | `ServiceProofs` |
| `EveryAttemptIsAccountedFor` | `[]AttemptsAreAccountedFor` | `ServiceProofs` |

Each follows from `Spec` (or `ServiceSpec`, or the `Spec` of its part in `Parts`)
without fairness. The assumptions are those named in the modules: units have positive
factors and figures are days or nothing (`UnitsAssumption`, `InventoryAssumption`);
requests carry the fields the schemas ask for and marks such as `None` are not values
(every module); each guest of a household came by an invitation of its own
(`MembershipsAssumption`); a request that needs an address or a link has one
(`AccountsAssumption`); tables come after those they name (`HouseholdExportAssumption`);
a bucket idle for the cutoff has refilled even for a transaction a little older, no wait
empties a bucket, and caps and pools admit somebody (`ThrottlingAssumption`); a window
has a length and admits a call (`CatalogueAssumption`); a list has finitely many lines and a
batch holds one at least (`ListExportsAssumption`); a request proves real households
(`TenancyAssumption`); addresses are finitely many numbers (`InferenceAssumption`). TLC
evaluates each in a run. `Service` and `Parts` state the assumptions of their parts for
themselves (`KeysAssumption`, `ListsAssumption` and the like); in the theorems of
`SealingProofs` and `MembershipsProofs`, which are instantiated, they are hypotheses.

**The ledger.** `LedgerIsTruth` is not inductive. `Commit` adds `tx[c].delta` to a ledger
and replaces a row by `tx[c].new`; that keeps the sum only if the pending version
differs by that very amount from the row that is committed *now*, not when it was
read. The inductive invariant is

    IInv == TypeOK /\ LedgerIsTruth /\ TransactionsCoherent

where `TransactionsCoherent` says, of every transaction: what it read is locked by
it and is still what is committed (`ReadIsCurrent`); what it will write differs from
what it read by the movement it will record, and is active exactly when it is not
empty (`WriteIsAccounted`); and its phase agrees with both (`PhaseIsConsistent`).
The first part is what `FOR UPDATE` buys: a commit of another client cannot touch a
lot this one holds, since it holds it too, and `lock` is a function
(`OthersStayCoherent`). One lemma per action shows that it keeps `IInv`; the
conversions of quantities and the rows built by `Draft`, `Merged`, `Updated` and
`Depleted` have lemmas of their own. `NoLostUpdate` and `DepletedIsFinal` follow
because only `Commit` writes rows (`OnlyCommitWrites`) and it replaces what it read
(`CommitReplacesWhatItRead`).

**The index.** `OneLotPerMergeKey` needs that a version past the index shares its key
neither with a committed lot nor with another version past it (`IndexedApart`, in
`IndexInv`): `EnterIndex` tests both, and what others commit meanwhile was tested against
it.

**The clocks.** `ClocksStartOnce` rests on `Clocks`: the version in hand of a lot that was
read moves its clocks only as `ClocksMove` allows, on the day it was decided, and time
only ends a fitness, so the commit may come days later. That what it read is still the
row (`ReadIsCurrent`) makes it a statement about what is committed: two requests that both
saw a lot out of the freezer cannot both put it in.

**The refinement.** The implementation of `StockLedger` maps a lot to the quantity of its
row (`held`, with `None` before the intake) and the ledger to itself (`entries`). Every
step but `Commit` is a stutter. A commit is the operation its movement is named after, and
that needs more than `IInv`: the name has to fit the change. `Labels` says it of every
pending version: a first version is an intake, an intake adds, a consumption or waste
leaves nothing, and no quantity is negative. It is inductive beside `IInv`
(`NextKeepsLabels`), because the version and the movement are written by one statement.
Then, by the kind of the movement, the commit is `Receive`, `Recount` or `Empty`, or, when
none is recorded, changes no quantity (`CommitIsOneOperation`).

**Receipts.** A confirmation commits many rows at once, over rows it read without a
lock. `Knows` says what a transaction has already decided in each phase (its lines are
those of its receipt, and a commit that confirms has all of them; what it is to write
over is there); `Apart` that no two transactions have written one receipt, since a
writer waits for the other (`WaitsFor`); `NothingWithoutAReceipt` that a receipt that is
gone, or not there yet, has no intake. With them a commit replaces one whole story by
another. A second confirmation that writes after the first has committed writes the same
story again, which is the double stock of `receipts_double`: the property survives it.

**The catalogue.** A lookup writes over a row it read earlier and did not lock, so what it
read must still say something of the row: `BasesAreReal` keeps that a row once read is
still there, is a product, and has the source it had; with it, an UPDATE of any of its
columns leaves a product (`UpdatesKeepProducts`), and one by a lookup that read a
correction changes nothing but its age (`CorrectionsStand`). An INSERT needs that there is
nothing in its place: `EntriesAreNew` says so of who is past `Flush`, and survives the
commits of others because `WritersAreSole`, which is the unique index and the row lock at
work. `RowsAreKnown` states a consequence of the rollback: no absence is ever committed.

**Accounts.** Every request follows a fixed list of statements (`Route`), so what it has
found and done depends on how many are left of it: `IsTail` keeps that the list in hand is a
tail of the route, and `Order` says of each kind of request which statement comes at which
length; there is one lemma per route. The invariant is

    IInv == Tables /\ Apart /\ \A c \in Clients : InHand(tx[c])

`InHand`: what has been found by now stands (`Routed`, `Finds`); the sessions a request saw
when it looked are still those of its account (`Remembers`); a remedy that has aimed at
them has each in its aim, and one that has swept has written each, unless it was revoked
meanwhile by another (`Reaches`); who came too late has done nothing and what it presents
is still dead (`Waits`). No two requests insert one row (`Apart`). Others keep all of it
because rows only go on (`RowsGoOn`): a session keeps its account, and nothing undoes a
withdrawal or a deadline, since a statement writes over the committed row the columns it
names, and none but a withdrawal names `revoked` or `consumed`.

**Sealing.** `SealingInv` says of the table, of the dump and of what a request has read
(`Coherent`): a ciphertext's secret was entered for the row it is bound to (`Rooted`), and
what is due of a row is what the row holds, whole and in its place (`Holds`). Bindings of
two rows differ (`BindingsAreDistinct`), so a column carried to another row opens nothing
there. Opening takes two statements, so a request remembers what was due at each, and the
second is due under the key of the first or the one in use.

**Memberships.** The invariant is about who holds which row:

    IInv == /\ Types
            /\ \A c \in Clients : Holds(tx[c]) /\ Stands(tx[c])
            /\ \A c, d \in Clients : c # d => Apart(c, d)
            /\ Founded /\ ErasureIsComplete /\ MembershipsAreEarned

`Apart`: a row that is written is held by one transaction, and a row that a foreign key
names is not written by another while it is shared. `Holds`: what a transaction has
written and shared in each phase. `Stands`: what it has found is still there, since it
holds or shares it. An erasure at its commit owns every dependent row, and any that
appeared since would have shared the root it owns: nothing is left. Only founders are
owners (`Founded`) and none leaves while alone, so a household that stands keeps one; nor
can an issuer's account go while the household stands, which keeps the spent invitation
behind each membership. `WithdrawnIsFinal` is an action property: a request that has been
late from its start never passes its first reading.

**The service.** The parts share nothing, so a step of the service is a step of each part
or leaves it alone (`ServiceSteps`). The keys and the memberships are shown to read alike
under the names of the composition (`SealingReadsAlike`, `MembershipsReadAlike`) and
inherit their theorems. The others have their invariants in `ServiceProofs`:

- *Use* (`BarredAreUnpermitted`, `KnownAreWithdrawn`): what a request has known
  unpermitted since it began is unpermitted now, whoever edits, withdraws, leaves or points
  a name elsewhere; a load reads one committed row and judges that one, so it never hands a
  request a row it has known barred.
- *Records* (`ProvidersInv`): rows are typed; a creation's identifier is no other
  request's and has no row (`Creation`); the columns an edit will write never take a row
  out of the archive and, unless it is a new agreement, never undo a withdrawal
  (`Change`). Since an edit writes those columns and no other over whatever is there,
  archive and withdrawal survive every crossing (`EditsKeepRecords`).
- *Document* (`DocumentInv`): a row that was there all along is in the document once its
  table is read (`SteadyRowsAreRead`), a member that stayed is named (`StayedAreNamed`),
  and what a row names is told, was born meanwhile or is public (`NamesAreTold`): a table
  is read before those that name it, and a product is deleted only with its household.
- *Sweeps* (`UpkeepInv`): a credential has been over since the first of the days that end
  it (`SessionsAreDated`, `TokensAreDated`), so a test of any one date against the cut-off
  is a test of that first day; and it has opened nothing for at least as long, whatever its
  holder was meanwhile, since what it opens asks its dates first.

**The limits.** `CallsStayInBudget` bounds what any two moments have between them, so the
invariant (`BudgetInv`) carries the whole history. `Within` relates what is left in a
bucket to what was granted since each earlier time: together no more than a full bucket
and what the rate adds, with one `MaxWait` of grace, because a transaction decides at the
time it began. A transaction that is older than the row it reads is what makes this
delicate: it moves the row back in time, and takes from it what the rate adds in between,
so the two must balance.
Grants, refunds, waits, sweeps and erasures have a lemma each (`SpendingWithin`,
`RefundingWithin`, `WaitingWithin`, `SweepingWithin`), which is where the arithmetic is.
That a swept bucket had refilled needs `CutoffRefills`, and that nobody is about to spend
from it needs `HeldApart`: who drops a row or decides on it holds it. `SlotsInv` is that
what a worker counts is what it has at work, key by key and altogether, and within the
caps. `NothingIsWithheld` follows from both, and from the pools not being empty: a slot
that nobody holds is counted by nobody, and whoever waits for a connection of a pool that
has none left waits for a request that has one.

**The window.** `WindowInv` splits the calls ever made by a worker in two: those forgotten,
which have expired, and those its deque remembers, in order. Pruning stops at the first
call still in the window, so it drops only what has expired (`DroppedHaveExpired`), and a
full deque refuses: of more than `MaxCalls` calls in a row, the first had been forgotten
when the last was made.

**The lists.** `ListsIInv` says that the columns a request was not asked to write are still
those of the committed row, though it read them earlier and without a lock (`Hand`): the
row is held from the flush to the commit, and an UPDATE names only what changed. With it
and `Apart` (no two requests have written one item), a commit changes the columns its
request asked for and never brings back a row that is gone.

**Households.** `TenancyIInv` follows a connection. It is lent to one request at a time and
comes back without a household (`Lent`); the request that has it goes by one household,
which is in force at every level of its savepoints that it will still use (`GoesBy`); so
what it saw and wrote is that household's or the public catalogue's, and all of it
(`Reached`). The last needs an instance that has verified that the policies bind it,
which no migration undoes (`Verified`).

**Documents.** `SandboxIInv` keeps that a document given to a process is given to one that
has read nothing (`Placed`), and that a pool is thrown away only once one of its processes
died (`ThrownAway`), so an answer that is not the document's own has a dead process
behind it (`Judged`).

**The sends.** A send cuts its lines into batches, and each answer may leave some out.
`SendsInv` says of every send that, as long as nothing was refused, what was accepted and
what is left are together as many as the lines that were read, and each line that is not
left is in the account over there (`Posts`). The lines in order have one place each
(`InOrderIsASequence`: a line comes after as many as there are up to it), so a batch is as
many lines as it has places; as many accepted as posted is all of them, and nothing that
has arrived goes away (`Onward`), whatever other requests do to the list, the destination
or the members.

**The attempts.** `AskInv` says of a call that is underway that its bill has one entry for
each body that was answered (`Billed`), and of a household's own model that there is one
body per attempt, each to an address of the first answer of the name, and each but the last
answered with what could not be read (`Peers`). No attempt follows the second, so the
bill has one or two entries, and the sum over the answers and the fold over the bill both
unfold to the same one or two figures (`SumOfTwo`, `TotalOfTwo`); no induction is needed.
The addresses to dial are in the order of `InOrderIsASequence`.

**Recipes.** What a suggestion promises rests on `Dietary`, so its operators have lemmas
first. The union of the eaters is at least as strict as each of them (`StrictestDiet`,
`UnionCovers`), in diet, allergens, strictness about traces and certification; a product
that no filter withholds is safe for each (`OfferedPasses`, `OfferedIsSafe`), which needs
what a record says to be said by its generated columns too: an unknown record names
nothing. An ingredient is resolved to the offered line of the least position that holds
it (`LeastExists`, `ResolveFinds`), so what is accepted names only lines that were offered
(`AcceptedCanBeServed`). The invariant is

    IInv == Tables /\ Hands /\ Ahead /\ Told

`Tables`: the row of a product is what its record reads to, and each suggestion kept could
be served to the eaters it was made for, and has the date of its cooking if it says it was
cooked. `Hands`: what each request has in hand at each place of its route, which is read
before the model answers and used after it; the answer may be anything of its type.
`Ahead`: a cooking that a verdict has read is still there, and the row it is about to commit
has the date if the committed row has it or if the request says so; for no UPDATE names a
date it did not set, and a row is held by one request at a time. `Told`: who was told that
a cooking is noted still finds its date (`CookingsAreKept`). `RecipesAssumption`
asks that the initial tables be such tables, and that requests name rows and carry the
fields their schemas ask for.

**The feed.** A phone is told that nothing changed when the tag it presents is the tag of
the tasks now published. `TokenTellsTheTasks` keeps that a phone's tag is that of the
tasks it was shown; equal tags are tags of equal tasks, because the tag is taken over all
that is published. `RevokedReadsNothing` needs `CredentialsAreCurrent`, that a request is
answered under an epoch no older than the one at its start, and `LastRevocationLives`,
that an owner who commits holds the row's lock, so that the credential handed back last is
that of the epoch that stays. No constant needs an assumption.

TLC looked for counterexamples to the larger invariants on small instances before they were
proved; that of the memberships holds in every state of an instance of four requests.

**Only model-checked.** Beyond the prover are liveness, fairness and ENABLED
(`EveryRequestAnswered`, `EntitiesCatchUp`, `PhoneShowsTheFeed`); sums and folds over a
set, whose facts need induction over data (the reports behind `EveryReceiptIsCountedOnce`,
`MealsMoveTheBalance`); and the recursive readers of receipts
(`NumbersStayTogether`, `ShownNamesAreVouchedFor`, `ImportReportsTheDocument`).

## Disagreements found

Six runs each check one sentence of the repository that the code does not keep.
`PROJECT.json` quotes the lines.

- `receipts_double`: confirming is said never to double the inventory. The status
  is read without a lock; two confirmations in flight together both stock every line.
- `memberships_erasure`: erasing an account is said to clear the mentions of it in
  rows that belong to others. `redeemed_by_user_id` is such a mention, and a check
  wants it set for as long as `redeemed_at` is: the erasure of an account that ever
  redeemed an invitation fails.
- `catalogue_absence`: a barcode that Open Food Facts does not know is said not to cost
  a call on every scan. The absence is written by the request that then raises
  `BarcodeNotFoundError`, and goes with its transaction. The test that says otherwise
  gives both requests one session that nothing rolls back.
- `exports_departed`: a destination whose registrant has left is said to stop. Erasing the
  registrant's account sets the column to NULL, which means "registered before this column
  existed", and the sends resume with the departed person's token.
- `inventory_prices`: the next article's prices are said to be always further away than the
  four lines in which a recap looks for those of an article (`receipt_text.py:119-127`).
  Nothing stops at the next article: one whose prices cannot be read takes those of the one
  printed closely below it.
- `household_discarded`: clearing a verdict is said not to leave a suggestion discarded. Of
  a recipe that was cooked, a `clear` writes no status, since the one it read is the one it
  wants; a dismissal committed meanwhile leaves the row discarded and the verdict cleared.

Smaller ones have no run of their own:

- *Inventory.* `find_mergeable` is said to serialise two phones scanning one pack. It locks
  the lot it finds; when there is none the second insert gets a 409, and no data is wrong.
  An amount whose displayed form rounds to zero passes the service and fails a CHECK, which
  is answered as a lost race. An intake merged into an opened lot inherits its clocks.
- *Receipts.* The refusal of a file sent twice is said to carry the identifier of the
  receipt that exists; when the INSERT discovers the duplicate it carries that of the row
  refused. Two confirmations that name one new product create twins. `_provenance` reads
  the provider again after the slow call of the model. A recap of one article is read line
  by line and imports an article named "Quantité".
- *Lists.* Two corrections of one quantity can commit the amount of one and the unit of the
  other, which are said to be stored together. Creating the default list is said to be
  unable to violate its index, yet the second of two first requests ends in
  `default_conflict`. A quantity of a model smaller than a quantum becomes 0, which is said
  to be positive (`shopping_import.py:632`).
- *Documents.* A request of a broken pool throws away the pool of the moment, which may be
  its healthy replacement (`sandbox.py:320-323`); everyone who shared it is told that the
  file takes too long (`OnlyBrokenPoolsAreThrownAway`, a definition no run checks).
- *Memberships.* `MembershipService.remove` lets anybody leave, while its route admits no
  viewer. A token whose holder is invited again while a request presenting it is in flight
  works again; `WithdrawnIsFinal` says so.
- *Catalogue.* `_sanitise` drops a unit the tables do not have by building the record anew,
  and with the unit go the allergens and food groups. Two refreshes that cross while the
  document upstream changes and changes back can leave the columns of one beside the
  payload of the other. A known product that has vanished upstream is kept, but the lookup
  that learns it is answered as if it did not exist. Two first lookups of one barcode
  collide on `uq_product_gtin_global`, and the second ends in an error nothing handles.
- *Providers.* The capability columns can describe another model when a probe and an
  update cross. Two registrations of a destination can leave one person's token under
  another's name. Every send makes a new identifier, so sending again duplicates. A
  withdrawal counts from its commit, which follows the answer.
- *Inference.* The Anthropic client sends again by itself, so what an unanswered call cost
  is in no number shown. An answer with no lines is accepted of a receipt and refused of
  recipes.
- *Sealing.* A configuration is read by two statements, so a request may refuse as
  "rotated" what was entered again between them. An older ciphertext of the same row opens.
- *Export.* A line inserted while the document is written can name a product born meanwhile
  that is in neither list (`privacy.py:474-477`).
- *Household.* A `clear` that crosses a first cooking leaves "generated" on a dish that has
  the date of its cooking; a repeated "not interested" that crosses a "cooked" writes no
  verdict of its own, and the cooked one stands. An allergen record that cannot be read
  whole is said to keep what was resolved (`dietary.py:234-236`), but the table refuses a
  row that is unknown and not empty, so the scan ends in an error (`ReadableRecordsAreKept`,
  a definition no run checks). West of UTC a lot counts a day early in the budget
  (`budget.py:493`, beside the docstring at 487-492). Two requests that set a target can
  leave the amount of one and the currency of the other.
- *Home Assistant.* An entry is said to be reconfigurable (`config_flow.py:158`); the form
  aborts as already configured whenever what was typed differs from what is in use
  (`ReconfigureReachesTheEntry`, a definition no run checks). The integration's README says
  "one sensor per currency" (`homeassistant/README.md:23`), but sensors are made of the
  currencies seen at set-up (`sensor.py:102-112`): one that is first spent later has no
  sensor until a reload. `EntitiesCatchUp` asks every currency of the data, and of the
  sensors only that none is left of a budget the token does not open. A set-up that is tried
  again forgets `Retry-After`. Pages over a list that moves can skip a lot without saying
  `truncated`. An add whose answer was lost is made twice. Re-authentication accepts a token
  of another household.

## What is left out

- Data the properties do not tell apart: names, labels, wording, images, languages, prompts,
  the patterns of the parser (what they find in a line is data of the line) and the payloads
  of external services.
- Inventory: listing queries. Catalogue: the projection of a document onto its columns, but
  for two groups. Shelf life: the guideline figures and the resolution of a keeping family,
  which are tables.
- Calendar: PROPFIND, multiget, calendar-query and the GETs, which answer from the same
  snapshot; the syntax of WebDAV and iCalendar; a client that lists and fetches in two steps.
- Privacy: the refusal for retained images. Tokens: the optional expiry in `Memberships`
  (`Upkeep` has it). Registration of a household is not an action of `Memberships`: a
  household starts with its founder, and guests with the invitation they spent.
- Sealing: two processes under different master keys.
- Abstracted inside the modelled parts: a receipt's intake succeeds or is refused as a
  whole per line (its refusals are Inventory's); a statement of `Memberships` takes its
  rows at once, while PostgreSQL may hold the first and wait for the second; the answer
  comes with the commit except in `Accounts`; upkeep counts in days.
- Mail and logging, seeding and deployment, the web client, screenshot and asset tools:
  they keep no state of record.
- External services (Open Food Facts, models, task applications, Home Assistant itself) are
  present only as outcomes: an answer, a refusal, a failure, a late or lost answer.

## Plan

1. *Done*: the components above, in six compositions, and `StockLedger`.
2. *Done*: the proofs of the inventory, its index and dates, its refinement, receipts, the
   catalogue and its window, the limits, accounts, sealing, memberships, the sends, the
   attempts, the theorems of the service, suggestions, the feed, the lists, tenancy and the
   pool of processes.
3. What is left to TLC needs induction over data, which a prover without it cannot do: the
   sums of the reports and of the balance, and the readers of receipts.
