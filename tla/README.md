# Specifications of the Antrique Web Studio platform

TLA+ specifications of the parts of this repository in which several requests meet on shared state, the
TLC configurations that check them on small instances, and proofs, checked by TLAPS, that the most important
properties hold for instances of any size.

The program is an agency platform: a NestJS API (`src/apps/api`) over PostgreSQL (through Prisma) and Redis, and
a Next.js web application (`src/apps/web`) whose server holds the browser's session cookie and forwards to the
API. Several instances of the API may run at once. There is no broker and no lock service: everything concurrent
requests agree on, they agree on through rows of PostgreSQL, at its default isolation level READ COMMITTED.

Contents: [checking](#checking), [inventory of the system](#the-system), [the modules](#the-modules),
[runs](#the-runs), [fairness](#fairness), [findings](#findings), [proofs](#the-proofs),
[what is only model-checked](#only-model-checked), [what is not modelled](#not-modelled), [plan](#plan).

## Checking

    tlc -workers 2 -config InventoryOverlap.cfg MCInventory     # a run; PROJECT.json lists them all
    tlapm InventoryProofs.tla                                   # proofs; also of the other modules named *Proofs

`PROJECT.json` maps every definition to the lines it models, lists the hazards of the code with the properties
that watch them, and gives for every property of a run a mutant: a small bug in one definition (an operator
preceded by the comment "Mutant: ...") with which TLC finds that property violated.

## The system

What each part keeps, does and depends on, what is hard about it, and what makes it correct. *Status*: **M**
modelled, **P** partly, **–** not yet or not at all (see [Not modelled](#not-modelled)).

| Part | State | Operations | Interacts with | Hard because | Correct if | |
|---|---|---|---|---|---|---|
| Inventory `modules/inventory` | item counters, reservations, append-only ledger | receive, adjust, reserve, release, consume | orders (inside the order's transaction) | checks on rows read before the locks; conflicts on the first row; retries | the ledger replays to the counters, `reserved` is what the reservations hold, a reservation is settled once | M |
| Orders `modules/orders` | orders, lines, status history | create, changeStatus, cancel | inventory, pool of connections | multi-statement transactions, locks in different orders, a stale status, a second connection inside a transaction | stock and status move together, completed means shipped once, final is final, every request ends | M |
| Billing `modules/billing` | invoices, payments, allocations, tax rates | createFromOrder, update, issue, void, record, allocate | orders (read) | numbers by counting (also over New Year), sums and balances computed from earlier reads | a number is free and refused only when overtaken, paid = allocated, a payment is not spent twice, lifecycle | P |
| Sessions `modules/auth`, web auth routes | sessions, cookies | login, refresh (rotation), logout, sign out a device, cleanup | web server, browser tabs, jobs | read-check-write in separate transactions, lost answers, two tabs with one cookie, limits | a token is exchanged, a 401 is deserved, the oldest session goes, the limit holds, the alarm is justified | P |
| Failed-login lockout `modules/auth` | counter and lock on the user | the check, recordFailedAttempt, the reset | login | counter computed from an earlier read | a counter at its limit goes with a lock, failures are counted exactly unless they overlap | M |
| Quotations `modules/crm` | quotations, items, payment stages, documents | create, update, send, accept, reject | PDF, storage, email jobs | delete-and-insert under overlap; awaits between check and write; rounding of a schedule | stages fit the total, items add up, the document exists before it is sent, one verdict | M |
| Leads, contact requests, clients, customers `modules/crm`, `modules/customers` | rows with a status and links | create, update, archive, convert, convertToClient; customers' address | activity | find-then-create without a unique index, one conversion in two tables | one active lead per address, one conversion, none without its activity | P |
| Follow-ups, notes, tags, activity `modules/crm` | tasks with a status, the customer's timeline | create, update, complete, cancel, reopen, remove | activity | check and write apart, two rows per completion | the timeline agrees with the status | P |
| Projects `modules/projects` | projects, members, milestones, tasks, comments, documents, activity log | creation, status changes, archive, upload, removal | storage | log entry in a statement of its own, upload before the row | the log tells how the rows it names got where they are | M |
| Notifications, audit `modules/admin` | rows with a status, audit trail | queue, markSent, markFailed, retry | – | check and write apart, audit written separately | every retry numbered and audited | P |
| Replaced lists: addresses, supplier products, bespoke lists | rows that belong to an owner | update with a list | – | a transaction that is not one | a reader finds one whole list | P |
| Cache `cache` | Redis entries with a time to live | getOrLoad | organizations, roles, dashboard | stale and overlapping loads, Redis failing | staleness bounded by the time to live and one load | M |
| Jobs `jobs` | attempts, dead letters (memory) | run, record, remove | email, session cleanup | lost on restart, an attempt that failed after its effect | a job is settled, the gauge tells | M |
| Transactions and retries `database` | open transactions, pool | `runInTransaction`, `withTransactionRetry` | every repository | callbacks run again with what was read before them | a retried request has the effect of one | P |
| Dashboard, reporting, runtime status, tenant, authorization | – (cached lookups) | reads | all tables, cache | staleness | see Cache | – |
| Catalog, vendors, newsletter, warehouses, other bespoke rows | single rows | CRUD | unique indexes | little | – | – |
| Prompts and AI assistants | templates, drafts | render, complete | AI providers | external calls | – | – |
| Settings | one JSON row | read-merge-write | storage, PDF | lost update | – | – |
| Storage, email, PDF, logging, metrics, health, configuration | – | adapters | external services | – | – | – |
| Web request client `services/api` | – | GET retries, one refresh on 401 | sessions | repeats | bounded attempts, no mutation repeated | – |
| Web interface, marketing site | stores, caches | – | API | – | – | – |

`PROJECT.json` repeats this list with files, and under `hazards` the 40 places most worth watching, where something
can go wrong that a test would hardly reach, each with the properties that watch it. Where two overlapping requests do
what a stronger property would forbid, and no statement in the code speaks against it, the hazard has a note instead:
such properties leave out the rows written on an outdated reading, so they show that overlap is the only way to the
damage and not that it is absent.

## The modules

    StockTables ── StockAccount
        │   └───── Inventory ──── MCInventory,  InventoryProofs      (refines StockAccount)
        └───────── Orders ─────── MCOrders,     OrdersProofs         (refines OrderLifecycle, in turn)
                   Billing ────── MCBilling,    BillingProofs        (refines InvoiceLifecycle, in turn)
                   Sessions ───── MCSessions,   SessionsProofs

                   Quotations ─┐                                     (refines QuotationLifecycle)
                   Leads ──────┼─ MCCrm,        CrmProofs, LeadsProofs
                   FollowUps ──┘                                     (refines FollowUpLifecycle)

                   Lockout ───────┐
                   Cache ─────────┤
                   Jobs ──────────┼─ MCPlatform, PlatformProofs      (with Orders again)
                   Projects ──────┤
                   Notifications ─┤
                   Replacements ──┘

    SumTheorems: what MapThenSumSet computes, for InventoryProofs, OrdersProofs and CrmProofs.

The parts composed in MCCrm, and those in MCPlatform, read and write no common table; the variable `part` picks
one of them per behaviour. MCOrders, MCBilling and MCSessions pick `handling`: "overlapping" requests, or requests
"in turn", which is what their configurations bound (`MaxInFlight = 1`); `Overlapping` is the specification with other
bounds.

Common to the models: a *request* is handled once; `pc[r]` says which await it is at, `arg[r]` what it was
asked, `seen[r]` what it has read and still relies on. An action reaches from one interaction with the database
to the next, so everything another request can do in between is a different interleaving. Reads outside a
transaction, or inside it without a lock, are separate from the writes they justify: that gap is where the
hazards are. Every request ends `done` (2xx), `rejected` (4xx) or `failed` (5xx, or the process died).
`Crash` may take a request at any point; `TransientError` is an error `withTransactionRetry` retries.

Most handlers read a row, check it and write it by id later, so a property of the row can only hold while that
reading was not outdated. Rather than checking such properties on requests in turn alone, the CRM and platform
modules keep a history of the rows that *were* written on an outdated reading (`strayed`, `astray`, `stray`), let
requests overlap freely, and state the property of all others. What is recorded is
a write (or an upload) that finds the row unlike what its request read; in Projects also a change whose log entry a
failure prevented.

**StockTables.** The rows of `inventory_items`, `inventory_reservations` and `inventory_transactions`, the CHECK
constraints, `Incremented` (`UPDATE ... SET x = x + d`, which applies to the row as it is when the lock is
granted, not as it was read) and the ledger row with the counters the UPDATE returned.

**StockAccount.** What the inventory promises about an item: whole movements, one at a time, each entered in a
book, none past the CHECKs. No requests, reservations or retries.

**Inventory.** `InventoryService` with its repository. `Receive` finds the item or goes on to `CreateItem`, whose
unique index may refuse it (nothing catches that error: 500). `Adjust` and `Reserve` check a row read before the
transaction. `Settle` (release, consume) looks the reservation up inside the transaction without a lock
(`FindActive`). Each of these transactions takes its first lock with the UPDATE of the item row and writes only
one item, so from there to COMMIT it is one step (`CommitStockChange`, `CommitReservation`, `CommitSettlement`,
or `CheckViolation`). Init is any opening stock with its opening RECEIPT. Ghost: the ledger rows of settlements
carry the reservation they settle (`settles`); the code stores nothing of the kind.

**OrderLifecycle.** Status and history of orders as `orders.constant.ts` states them.

**Orders.** `OrderService`, statement by statement, because its transactions take several locks. `Plan(a)` is the
list of statements of a handler in the order of the code; `tx[r]` holds the uncommitted writes, which are also the
row locks; `Over` lays them over the committed tables (own writes visible, others' not). `WriteStock` and
`WriteStatus` wait for the row (`Blocked`). `CheckAvailability` is the read of `reserveStockInternal` that does
not use the transaction's client and needs a second pooled connection. `Deadlock` aborts a transaction on a cycle
of waiting ones; `TimeOut` is the pool's connection timeout or the interactive transaction's. After a retry the
callback runs again but what was read before it is not read again. The inventory endpoint that releases a
reservation is a fourth operation here, because orders' reservations are reachable through it. The ledger is
reduced to counts of rows per reservation.

**InvoiceLifecycle.** Total, paid amount and status of invoices as the billing module states them.

**Billing.** `InvoiceService` and `PaymentService`. `TakeNumber` counts the invoices created in the current year
(`CreatedIn`) and names the next place in it; `InsertInvoice` or `NumberTaken` (unique index) follows, up to
`NumberAttempts`. The year ends at any moment (`NextYear`), also between the two, so the numbers of a year need not be
without gaps, which `invoice.repository.ts:54-56` does not claim: an invoice counted before New Year and inserted
after it has a number of the old year but counts for the new one, which then starts at 00002. Edits write the row they
read back, by id. `Record` and `Allocate` compute `amountPaid` and the status from the invoice they read first;
`ReadAllocations` sums the payment's allocations inside the transaction. `TaxOf` rounds half up to the smallest unit,
the rule of `calculateTax`. Allocations are kept as the two sums the code or a property takes of them.

**Sessions.** `AuthService`, the web server's auth routes and the tabs of one user's browsers. Every repository
call is a transaction of its own, hence an action of its own. A tab has one auth request at a time
(`refreshPromise`), but tabs of a browser share its cookie, read when a request leaves and written when its answer
arrives. `ApiFails` ends a request in 5xx anywhere; `AnswerLost` loses an answer on its way to the browser;
`Deliver` writes the cookie (a failed refresh clears it, whatever the failure). Sessions live equally long, so
they are numbered in order of issue and `expired` is a point in that order. Ghosts: `parent` (issued in exchange
for which session) and `cut` (issued by a refresh that failed before it marked the one it was given).

**QuotationLifecycle.** Terms may be revised in DRAFT, always with a schedule that fits the total; sent once, with
a document that shows the terms; accepted or rejected once.

**Quotations.** `QuotationService`. `Open` and `ReadStages` are the two readings of every handler and its check.
An update runs `FindItems`, `LockItems`, `FindStages`, `LockStages`, `CommitUpdate`: at READ COMMITTED a DELETE
removes the rows that were there when it started and waits for whoever deletes them, so a schedule inserted by an
overlapping update survives it. Items and stages are kept in batches, as inserted: what a property asks of them is
what a batch adds up to. The percentages are in thousandths, `StageBatch` stores them rounded to the two decimals
of the column and the amounts rounded to the smallest unit. `UploadDocument` precedes `CommitStatus`, in a step of
its own; the key names the quotation, so an upload replaces the one before.

**Leads.** `LeadService`, `ContactRequestService` and the parts of clients and customers they touch.
`LookForDuplicate` is the search no index backs, `FindCustomer` (inside the transaction, hence repeated by a retry)
the one an index does. The commits insert the row, set the links and write the activity together. Customers are created,
removed and readdressed (`UpdateCustomer`, `WriteCustomer`, which the index may refuse), at any time and without their
leads: nothing says that the customer of a converted lead keeps the lead's address, and it need not.

**FollowUpLifecycle, FollowUps.** Tasks that may be completed, cancelled and reopened, with one entry of the
customer's timeline per completion; `FollowUpService` with its readings, guards and writes.

**Projects.** The six services of the module, which all work alike: read, write by id, record. `Write` and `Record`
are separate steps, as there are no transactions; `Upload` stores a document before its row exists. An `Entry` is what
`activity_logs` gets: a verb, for a changed status the old one (as read) and the new one, and a title, which the model
takes to be the row. It holds no actor, since no call of `record` passes one; the entry of an archival does not say
what the project was before, that of a member names no user and that of a comment no comment. `completed` is whether
`completedAt` is set.

**Notifications.** `NotificationService`; `retry` increments the counter in one statement and writes its audit
record, with the number it got back, in another.

**Replacements.** The lists that are replaced when their owner is updated. `PrismaService`'s hook runs each query in
a transaction of its own, so deletion and insertion are two commits, in either order, each retried alone.

**Lockout.** The failed-login counter of one user: `ReadUser` (401 while locked), `Compare`, and the two writes
computed from what was read, with a clock.

**Cache.** `getOrLoad` for one key: hits, misses, a load that takes up to `MaxLoad`, a store that may fail, and an
entry that expires. Overlapping loads are not coordinated; nothing is ever invalidated.

**Jobs.** `JobRunner.run` with its attempts, delays, dead letters and their gauge, and the end of the process.

## The runs

| Run | Instance | Shows |
|---|---|---|
| inventory_overlap | 2 items (one without a row), 2 reservation ids, 4 requests, 3 at a time, 2 attempts; the first 2 requests make reservations | `TypeOK`; `LedgerBalances`: the ledger replays row by row to the counters; `ReservedIsAccountedFor`: `reserved` drifts only through a repeated settlement, which does happen here; `HistoryIsKept`; `BehavesAsAccount`: refines StockAccount; `EveryRequestEnds` |
| inventory_double_release | 1 item, 4 requests, 2 at a time | finding: `SettledOnce` is violated |
| orders | 2 orders on one item and one whose second line is out of stock, 3 requests, overlapping (2 attempts) or in turn | `TypeOK` (with exclusive locks); `ShippedExactlyOnce`; `OrdersHoldTheirStock`; `CountersAddUp`; in turn `FollowsLifecycleInTurn`: refines OrderLifecycle, history included |
| orders_final | a status change and a cancellation overlap | finding: `FinalStatusesAreFinal` is violated |
| billing | 4 invoice ids, 2 payments, 4 requests, 3 at a time, also over New Year, or in turn with retries | `TypeOK`; `NextNumberIsFree`; `RefusedOnlyWhenOvertaken`: each attempt was spent on an invoice that came after the request; `PaidIsCovered`; in turn `PaidIsRunningTotalInTurn`, `AllocationsWithinPaymentInTurn`, `FollowsLifecycleInTurn`: refines InvoiceLifecycle |
| billing_lost_payment | 2 payments on one invoice | finding: `PaidIsRunningTotal` is violated |
| sessions | 2 tabs and a phone; overlapping (limit 1, 3 sessions, 2 requests at a time) or in turn (limit 2, 4 sessions) | `TypeOK`; `DeliveredInExchange`; `RefusedOnlyIfEnded`; `OldestGoesFirst`; in turn `WithinLimitInTurn`, `OneHeirInTurn` |
| sessions_alarm | two devices, one of which signs the other out | finding: `AlarmOnlyAfterRotation` is violated |
| crm | 3 requests, retries and crashes, on a quotation or new ones, on leads and contact requests of 2 addresses, or on a task or new ones | `TablesTyped`; `TotalIsScheduled`: of overlapping updates, one whose total stands left its schedule; `ItemsAddUp`; `DocumentBeforeSent`; `OneLeadPerAddress`; `ConversionIsWhole`; `ConvertedOnce`; `QuotationsFollowLifecycle`, `FollowUpsFollowLifecycle` (refinements) |
| quotation_schedule | the same, quotations with a schedule of six parts | finding: `OmittedScheduleIsKept` is violated |
| platform | 2 or 3 requests on each part; 2 orders over 2 items in opposite order on a pool of 2 | `TablesTyped`; `ActivityTells`; `RetriesAreAudited`; `FailuresCounted`; `StalenessBounded`: less than `TTL` + `MaxLoad`; `EveryJobIsSettled`; `EveryRequestEnds`: circular waits of orders for rows or connections do not last |
| replacements_whole | 2 updates with a list | finding: `OneWholeList` is violated |

A property named "…InTurn" is one the code keeps for requests that do not overlap, retries, crashes and lost
answers included, and loses when they do; the run with the finding beside it, or the hazard list, shows how.

### Bounds

`Requests` (2 to 4) and `MaxInFlight` (1 to 3): each defect of this kind needs two requests between another's
read and write, and the third lets one of them be a retry, a cleanup or a competitor for another row. Two items
or two orders are what a circular wait needs. `MaxAttempts` is 1 or 2 where the code has
`DB_TRANSACTION_RETRY_POLICY.maxAttempts` = 3, and `NumberAttempts` is 2 where it has 5: one repetition already
separates what a callback reads again from what it does not. `Limit` is 1 or 2 where the code has
`MAX_CONCURRENT_SESSIONS`, `MaxIssued` bounds the sessions ever issued, so that a session can be exchanged,
evicted and presented again. `LastYear` is 2 in the overlapping half of the billing run, where the year ends while a
request holds a number. Amounts are 1 and 2 on totals of 2 and 3: enough for part payment, full payment and
an edit below what was paid. `Rates` 0 and 50 make an edit raise and lower a total. The proofs need none of
these bounds. Symmetry is used only in runs without liveness, over ids the specifications never compare or order.

CRM: one quotation in DRAFT (and those requests create), `MaxOpenQuotations` 2, the default schedule and one of six
parts of 16.667 %, which rounding takes past the tolerance; two addresses, of which one has an open lead; one task.
Platform: `TTL`, `MaxLoad`, `MaxFailed` and `Duration` are 2, `Horizon` 5 ticks, `MaxValue` one change: an entry can
be loaded before the change, stored after it and expire; a lock can be set and run out. `MaxStreak` 4 lets failures
be counted past the limit by logins that overlap.

No run turns deadlock checking off: when every request has been answered the server waits for more
(`AllAnswered`, `Quiet`), and any other stop would be reported.

## Fairness

Liveness is checked where the code bounds every wait. In Inventory, `EveryRequestEnds` assumes weak fairness of
`Handle(r)`: Node runs the continuation of a handler it started once the database has answered, and PostgreSQL
answers. In Orders (the run platform) it also assumes weak fairness of `TimeOut(r)`: the pool has a
`connectionTimeoutMillis`, statements a `statement_timeout` and interactive transactions a timeout, none of them
retried, so a wait that lasts ends in an error. In Jobs, `EveryJobIsSettled` assumes weak fairness of each job's next
step: it is on the event loop of its process, and if the process ends, so do its jobs, which then count as settled
(`lost`): the run shows nothing about jobs that survive a restart, because none does. `JobRunner.run` puts no timeout
around `execute()`, so this also relies on the timeouts of the HTTP clients and of the database that jobs call. The
deadlock detector is not assumed to be fair, nor are arrivals, crashes or transient errors; the number of transient
errors is bounded by the retry policy itself, and the mutant of Inventory that does not count attempts violates the
property.

## Findings

| Where | What the run shows |
|---|---|
| `inventory.repository.ts:247` | The ACTIVE reservation is read without a lock and updated by id: two overlapping settlements both take its quantity from the counters. |
| `order.service.ts:299` | A status is checked before the transaction and written without a condition: an order leaves COMPLETED or CANCELLED. |
| `payment.service.ts:227` | `amountPaid` is computed from an earlier reading: one of two overlapping payments disappears from it. |
| `quotation.service.ts:248` | The stored schedule is rebuilt and validated as if it had been given: a schedule that create accepted, rounded by its column, makes every later update without a schedule a 400. |
| `fabric.repository.ts:69` | The array given to `$transaction` is not run as one transaction: a reader finds no list, or, if the insertion fails, nobody finds it again. |
| `auth.service.ts:238` | Any revoked session is taken for a rotated one: a device that another one signed out, and that refreshes, takes the other's session with it. |

The models also say what these do *not* break: the ledger still explains every counter, a completed order is still
shipped exactly once, an invoice never shows money that was not received; however updates of a quotation overlap,
one of its schedules fits its total; whatever leads are duplicated, each conversion has its activity; however failed
logins are miscounted, a counter at its limit comes with a lock.

A seventh disagreement is between the code and two documents, and the run sessions shows what the code does:
`auth.service.ts:264-275` rotates. A refresh marks the session it was given revoked and replaced before its answer
leaves (`DeliveredInExchange`), so of overlapping refreshes of one token only those that find the session before the
first mark succeed, and one that comes later is a 401 that ends every session of the user.
`apps/web/src/services/auth/auth.service.ts:58-60` says of two that land close together "each still succeeds (the
backend's refresh is stateless/non-rotating)", and `docs/architecture/application-runtime.md:197-201` "harmless since
the backend's refresh is stateless".

Two statements are not quite what the code keeps, without a run of their own. `cache/README.md:98-101` says of the
cached roles "never stale for more than a minute"; an entry lives 60 seconds from the moment it is stored, and what is
stored may have been loaded before a change, so `StalenessBounded` states `TTL + MaxLoad`. And `milestone.service.ts`
and `task.service.ts` set `completedAt` whenever a row arrives at APPROVED or DONE, again each time, while comments
beside them speak of setting it once; Projects keeps only whether it is set, which is the same either way.

## The proofs

TLAPS proves the theorems below from the modules' named assumptions only: constants have the types the
specification gives them, bounds are natural numbers, for any sets of items, ids, requests, addresses and amounts.
Sessions assumes finitely many tabs, and Notifications finitely many requests, as the bound on `retryCount` in its
TypeOK is their number. Inventory, Orders, Billing and Sessions declare theirs with ASSUME (`InventoryAssumption`,
...); the parts composed in MCCrm and MCPlatform define theirs as operators, which those modules assume
(`PartsAssumption`), so that TLC evaluates them on their instances. LeadsProofs, which is about Leads alone, takes
`LeadsAssumption` as a hypothesis of its theorems.

Where a theorem speaks of a sum over a table, it supposes that the table's ids are a finite set
(`IsFiniteSet(Items)`, `IsFiniteSet(Orders)`), as they are in any database; the sum means nothing otherwise.

**SumTheorems.** `MapThenSumSet` folds a set by a recursive function that takes out the elements CHOOSE picks. For a
finite set such a function exists and is unique (`SumsExist`, `SumsUnique`: a least subset without one, or on which
two differ, would have a smaller one), any element may be taken out first (`SumsInAnyOrder`), and so a sum is a
number, follows a change of one term (`SumOfUpdated`), a term more (`SumOfExtension`), and sums of functions
(`SumOfSum`). Sums of rounded terms (`SumOfRounded`): they miss the sum by no more than as many times what one term
may miss.

**InventoryProofs.** `TypeCorrect`: TypeOK is inductive as it stands because it says, for each request in
progress, which rows it may rely on (`ArgumentFits`): rows are never deleted, so a row found at arrival is there at
the write. `LedgerCorrect`: LedgerBalances is inductive relative to TypeOK; the lemma `UpdateKeepsBalance` treats
all writes at once, since each appends one row whose recorded counters are those just written. `HistoryKept`: an
action property from the same lemma. `ReservedCorrect`: `ReservedFits` writes the quantities owed to an item's
reservations as one function (`Owed`) and adds that only reservations that exist are settled. A settlement appends one
row that names one reservation, so the number of its settlements grows by one (`CountsGrow`), the term of that
reservation falls by its quantity, and so does the counter (`SettlementFits`), however often it happens; a reservation
is a term more (`ReservationFits`). `ImplementsAccount`: each commit is a `Move` of StockAccount on one item
(`CommitIsMove`), `CreateItem` makes a row equal to the account's empty position, every other step stutters.

**OrdersProofs.** `TypeCorrect`, `ShippedOnce` and `StockHeld` share one inductive invariant, `Inv`. It says what the
open transaction of a request has written by each step of its plan (`StockWritten`, `OrderWritten`), so that a COMMIT,
which is enabled after the last step, publishes the whole plan or nothing; that open transactions hold different rows
and create different orders (`RequestsApart`), so that a COMMIT disturbs nobody else's part; and `CompletesAlone`: a
completion that has looked at its first reservation found it ACTIVE while it held the order's row, and holds that row
still, so nobody else has shipped the order or can. `CommitKeeps` takes the four kinds of requests one by one; the
lemmas on `Plan` say where each statement stands in it, for any number of lines. `CountersCorrect` says that the
counters are what the ledger's rows add up to, not how many rows a reservation may have, which is for the other two to
say. It adds `CountersFit`: the counters a transaction has written are what the ledger will add up to if it commits
(`TxExplained`), since every counter it writes comes with a ledger row of the same item, new because a plan moves a
reservation once (`PlanOnce`); nobody else writes an item whose row it holds, so a COMMIT finds the ledger of its
items as it was when it wrote them (`CommitCounts`). `LifecycleInTurn` is about the behaviours of MCOrders in which
requests come one at a time (`MaxInFlight = 1`). `InTurn` says that there is one request in progress at most, that the
status it read is still the order's and allows what it was asked (`StillDue`), and that its transaction has made no
entry of the history or the one that is due (`EntryDue`), since a plan writes the order's row once (`OneOrderStep`).
So a COMMIT is one `Place`, `Advance` or `Cancel` of OrderLifecycle (`CommitFollows`), and nothing else writes an
order.

**BillingProofs.** `TypeCorrect` needs one conjunct beyond types, `IdsAreOwn`: without it another create could take
the id a request is about to insert. `NumbersAreFree` and `RefusalsWereOvertaken` share one inductive invariant,
`NumbersInv`: no number of a year is past the count of the invoices created in it (`NumbersInReach`), and none in hand
is by more than one (`HandsInReach`), so the number after the count is free (`NextIsFree`). A step adds one invoice,
to a count it has caught up with, or leaves both counts alone or starts a year that has none (`CountSteps`: `OneMore`,
`NoMore`), and the index keeps numbers apart (`NumbersDiffer`). `Overtaken` compares the invoices there are with those
there were when a request arrived: each failed attempt means one that is new since, and so does a number in hand that
somebody has taken, because it was free when the request took it. `PaidCovered` is not inductive: the paid amount is
computed from what was read, so `MoneyInv` adds `SeenIsPast` (what a request read as paid is at most what has been
received since), which holds because `received` only grows. The other three are about the behaviours of MCBilling in
which requests come one at a time (`MaxInFlight = 1`), retries and failures included, and rest on `TypeOK` and
`InTurn`: there is one request in progress at most; the two books agree (`Balanced`: paid is what was allocated to the
invoice, at most what each payment amounts to); and what the request has read of invoices, payments and allocations is
still so (`ReadsNow`). `RunningTotalInTurn` and `AllocationsFitInTurn` are parts of `Balanced`; `LifecycleInTurn`
takes each commit to the step of InvoiceLifecycle its reading allows.

**SessionsProofs.** `TypeCorrect` counts: sessions issued plus requests that may still issue one stay within
`MaxIssued`, so the next id is always available, and a request about to mark holds a child of its token. The other
theorems rest on two lemmas: no session comes back (`NothingReturns`: what is revoked, expired or deleted stays so,
and ancestry is not rewritten) and nothing becomes active except a new session, which is the youngest
(`ActiveShrinks`). `InExchange`: by the time a browser holds a token, or its answer is on the way, the session it was
exchanged for is revoked or gone; the strengthening is that tokens under way are new (`TokensAreNew`).
`RefusalsAreDue`: a verdict of 401 was deserved when it was reached and stays so. `OldestEvicted`: the session chosen
as oldest stays no younger than any active one (`ChosenIsOldest`), though others are evicted, issued or expire before
it is revoked. `LimitInTurn` and `HeirInTurn` are about the behaviours of MCSessions in which requests come one at a
time (`MaxInFlight = 1`), whatever fails or is lost. Besides that (`OneAtATime`), their invariant says at each step of
a login which room there is: once the sessions were counted, or the oldest was set aside, one more fits (`HasPlace`),
and a session an exchange is about to replace, or failed to, has its place in what the property allows; and that a
session that can still be exchanged has no heir but the one just issued in exchange for it and those of exchanges that
failed (`Heirs`).

**LeadsProofs.** `Fits` is the inductive invariant under everything else: the tables have their types (`Rows`), and
each request in progress names a row that exists and has, at each step, what that step relies on (`RequestFits`).
`TypeCorrect` adds that links lead to rows that exist (`Linked`) and that the index keeps customers' addresses apart.
`OneLead`: `LeadCases` sums up how a step may write a lead: one is inserted by a request that searched and is either
suspect or finds no other now, or edited by one that searched or kept the address it read, or closed.
`ConversionWhole` (`WholeNext`) goes commit by commit: each appends the activity of exactly the links it makes.
`ConvertedAtMostOnce` (`Single`, `Informed`): the two ways to convert a lead are in two transactions with nothing in
common but the lead's status, so the invariant says of every request about to write that the lead is as it read it, or
already in `strayed` should it write; then a conversion finds a lead that was open, has no link and no activity of a
conversion. Nothing in these theorems is about a customer's address but that the index keeps them apart, also when
they are changed (`WriteCustomerDoes`).

**CrmProofs.** About the specification MCCrm composes, of which each part's own is a consequence (`EachPart`).
`FollowUpsImplementLifecycle`: relative to `TasksFit` (a request about to write holds a task that exists and that its
operation accepted), each commit on a task in view is one step of the lifecycle, with the entry it makes
(`CommitFollows`); a commit that finds the task changed takes it out of view, which the lifecycle does not notice.
Quotations rest on `QuotationsFit`: what a request may rely on at each of its steps (`ReadingFits`, `CreationFits`),
above all that a quotation it found exists still and that a document once stored stays stored (`Grows`), though
quotations change under it. `TablesAreTyped` follows; `SchedulesMatch`, because an update inserts the schedule and
writes the total in one transaction, and the DELETE before it can miss a schedule but not remove the newest;
`DocumentedBeforeSent`, because `CommitStatus` comes after its own upload under the same key. `SubtotalsAddUp`: a
quotation in view has one batch of items, the one its row shows. The DELETE of an update might miss items that another
update inserted after it started; `FoundAll` says that then the schedule has changed as well since the update read it,
because every update replaces the schedule and no schedule is by a request that has not been answered (`ItemsFit`), so
the update takes the quotation out of view. `QuotationsImplementLifecycle` adds `SchedulesFit`: a quotation in view
has one schedule, and its parts fit the total (`Scheduled`); only what left DRAFT shows a document; and, at each step
of a request, what it is about to write (`Prepared`): the schedule was accepted, the stages it deletes are all there
are unless the schedule has changed since it was read, and the document a send uploaded shows what it read unless that
was outdated. A step changes one quotation (`OnlyChanges`) and outdates what others have read of it (`Outdates`), so
it cannot undo what they are prepared for (`OthersPrepared`). Then an insertion is a `Draft`, an update a `Revise`,
the others a `Send` or a `Decide`, or they take the quotation out of view; an upload alone is not seen, because a
draft shows no document. That the parts of a schedule fit is arithmetic (`DueFits`): each part is rounded to the
smallest unit and the percentages miss 100 by less than 0.01. It rests on what `QuotationsAssumption` says of the
schedules: percentages are not negative (`@Min(0)`), and the default schedule is one the check accepts.

**PlatformProofs.** About the specification MCPlatform composes; its parts share no variable, so each satisfies its
own (`EachPart`), and each has an inductive invariant of its own. `FailuresAreCounted`: inductive with the types. A
write that finds the row as read extends the count by one; one that does not records itself in `strayed`; and either
way a counter it writes at its limit is written together with a lock, since both come from the same reading.
`StalenessIsBounded`: `FreshEnough` says that a load in progress began at most `MaxLoad` ago (`LoadsInTime`), that
what it loaded was not replaced before it began (`LoadedWasCurrent`), and that what the entry holds was not replaced
before its expiry less `TTL + MaxLoad` (`EntryWasCurrent`). `Sound` adds that no value ended in the future.
`RetriesAudited`: `Accounted` says that the retries of a notification that are audited, interrupted, or about to be
audited have different numbers, which together are 1 to the counter; each of the three sets is finite and no request
is in two of them, so the cardinalities add up. A retry appends the next number to the third set (`OneMoreRetry`), its
audit record or its failure moves it to one of the others. `ActivityIsTold`: the statement only speaks of a row no
entry of which is on its way, so it is not inductive. `Explains` says it of `Told`, the entries in the log together
with those still to be written (`Silent`): they add up to the row's status, or to its archival, and one of them tells
of a completion just if the row has a `completedAt`. An entry is read for the status it tells of and the one it
leaves, which are the ones the request wrote and found (`TellingTells`). A write that changes the status adds one
entry (`OneMoreEntry`), new because no request writes twice; recording it changes nothing (`TeamRecordFits`); losing
it takes the row out of view (`TeamCrashFits`). It says nothing of who made a change, nor of members and comments,
which no entry names. `AllTablesTyped` follows from these and from the invariants of jobs (`JobsFit`) and lists
(`ListsFit`), in which a list with unique keys keeps them although each of its rows may be inserted by another
transaction.

### Only model-checked

Liveness (`EveryRequestEnds`, `EveryJobIsSettled`), which needs ENABLED.

## Not modelled

Most of the repository's lines are the web interface, generated types, the database seed, the layout of documents,
the validation of the environment and CRUD of single rows. They keep no state that several requests meet on, and a
model of them would restate them; the models cover the services and repositories where requests do meet.

* Reads: lists, searches, summaries and reports.
* Several tenants: every query is scoped to one and no row refers across them, so one tenant stands for each.
* Columns and rows no guard here reads: names and status of customers (their unique address is modelled), variants,
  tax rates, addresses and notes of orders; texts, dates and assignees everywhere.
* Single-row CRUD under a unique index: catalog, vendors, warehouses, newsletter, the other bespoke rows, clients,
  notes and tags.
* A COMMIT that was applied although its answer was lost. `isTransientTransactionError` also retries a broken
  connection, and the callback would then run twice. Whether the driver ever surfaces that error unwrapped is not
  decided by code under `src/`; this hazard has no property.
* Settings: `settings.service.ts` reads one JSON value, merges and writes it back, so of two overlapping changes of
  different fields one is lost. It is the pattern of `PaidIsRunningTotal`, and nothing in the code speaks against it.
* A sign-out that overlaps a refresh does not reach the session the refresh is about to issue. Sessions has the
  behaviour; no statement in the code says what should hold.
* Invalidation of cache entries: the hooks exist and nothing calls them.
* The year of a quotation's number; the numbers of one year are modelled. Invoices have theirs.
* Password checking, MFA (a stub); access tokens, which are not stored.
* Everything the table above marks –, for the reasons `PROJECT.json` gives with each component.

## Plan

*Done*, most important first: Inventory with StockAccount; Orders; Billing; Sessions; Quotations with its lifecycle;
Leads; FollowUps with its lifecycle; Lockout; Notifications; Jobs; Cache; Projects; Replacements; the proofs above.

*To come*: a lost COMMIT answer in Inventory and Billing, if the driver's errors are pinned down; what retrying
duplicates.
