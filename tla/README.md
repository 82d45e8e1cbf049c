# DineFlow in TLA+

A verification development for the DineFlow restaurant ERP and POS: TLA+ modules
translated from the TypeScript sources, TLC configurations that check them on small
instances, and proofs that TLAPS checks for every value of the constants.

* `PROJECT.json` lists components, runs, mutants, the source lines behind each
  definition, findings, hazards and theorems.
* Run a model with `tlc -config <Run>.cfg <Module>MC`, the proofs of a component with
  `tlapm <Module>Proofs.tla`.

Contents: [the system](#the-system), [modules](#modules), [runs](#runs-and-what-they-show),
[findings](#where-the-code-and-its-documents-disagree), [proofs](#proofs),
[limits](#limits), [not modelled](#not-modelled).

## The system

Several instances of an Express API server (`src/apps/api-server`) share one PostgreSQL
database through Prisma, one Redis, and a BullMQ queue on it. Web clients (POS, kitchen
display, administration) call the API; a socket server (`src/apps/ws-server`) relays
events that the API publishes on Redis. No call sets a transaction isolation level, so
every statement reads what is committed when it runs (READ COMMITTED). Nothing in the
processes is shared except through the database and Redis: what can go wrong is the order
in which the statements and commands of several calls reach them.

`M/` stands for `src/apps/api-server/src/modules/`.

| Component | State | Operations | Meets | What makes it correct |
|---|---|---|---|---|
| Order lifecycle and totals, `M/order` | `orders` (status, version, totals), `order_items`, modifiers, recipe snapshots | createOrder, createOrderWithItems, updateOrderStatus, addItemToOrder | payments (same row), depletion jobs, events | transitions follow the table; the version detects concurrent writes; totals are those of the items |
| Payments and invoices, `M/finance/payment.*`, `invoice.*` | `invoices`, `payments`, `ledger_accounts`, `journal_entries` | processPayment | orders, ledger, idempotency | one capture per key; a PAID invoice is covered, settled once, and settles its order; the ledger agrees with what the desk captured |
| Idempotency and routing, `middleware/idempotency.middleware.ts`, `index.ts` | a Redis entry per tenant, method, path and key | get, set in progress, set answer, delete, expire | every POST, PUT, PATCH, DELETE handler | a repeated call has no second effect and gets the first answer; a crash blocks a key only for a while |
| Shifts and days, `M/finance/shift.*`, `daily-closing.*` | `shifts`, `cash_drawers`, `daily_closings` | openShift, closeShift, openDay, closeDay | payments, orders | one open shift per user and branch; a day closes only when shifts and orders are closed |
| Gift cards, `M/customer/gift-card.service.ts` | `gift_cards`, `gift_card_transactions` | activate, validate, redeem | invoices, payments | what is redeemed from a card is at most what was loaded |
| Coupons and loyalty, `M/customer/coupon.service.ts`, `loyalty.service.ts` | coupon counters and usages, `loyalty_ledgers` | validate, apply, redeem; accrue | orders | usage limits hold; one accrual per order |
| Inventory depletion, `M/inventory/workers` | BullMQ jobs, `inventory_items`, batches, `stock_movements` | queue, process, retry | orders, receiving | each order item depletes once; batches, movements and quantities agree |
| Purchasing and receiving, `M/inventory/purchase-order.*`, `goods-receipt.*` | purchase orders, receipts, batches | create, change status, complete a receipt | stock | a receipt enters stock once; the order's status says what came |
| Event bus and kitchen relay, `packages/pubsub`, `apps/ws-server` | Redis channels, local callbacks, rooms | publish, subscribe, dispatch, relay | orders | a connected socket hears its branch, in order, once per callback |
| Permissions, `packages/auth/src/rbacService.ts`, `middleware/rbac.middleware.ts`, `M/role`, `M/staff` | `roles`, `permissions`, `user_roles` | requirePermission before nearly every route; create, edit, delete, assign, revoke | every route | a decision is what the rows declare; deny wins; edits during a check do no harm |
| Ledger, `M/finance/ledger.*` | accounts, entries | postJournal | payments, fiscal periods | debits equal credits; nothing is posted to a closed period |
| Tenant isolation, `packages/auth/src/tenantService.ts` | none | rewrite a query | no caller in the applications | a rewritten query sees one tenant |
| Tokens and sign-in | none | sign, verify | every route | library code |
| Catalogue, branches, staff, customers, suppliers, roles, settings | independent rows | create, read, update, delete | — | database constraints |
| Analytics, audit | none | read-only aggregation | — | — |
| Web clients | screens; the key of each call; the displayed orders | call, poll, listen | API, sockets | covered where it matters to the server |

### What is hard here

The 40 hazards in `PROJECT.json` fall into a few groups.

1. *Check, then act.* A version, a status, an invoice or a balance is read in one statement
   and relied on in another; nothing is locked in between
   (`updateOrderStatus`, `addItemToOrder`, `processPayment`, gift cards, shifts, receipts).
2. *Sums that miss uncommitted rows.* A payment adds up the captured payments before it
   takes the row lock on the invoice. The sums themselves are of JavaScript floats.
3. *Retry.* A key protects an effect only as long as the call that repeats it carries the
   same key, and the recorded answer may be erased, expire, or never be written.
4. *Half-done work.* A payment touches an invoice, an order, ledger accounts and a journal;
   a crash or a unique violation may come after any of them. After a commit, depletion
   jobs and events are queued by code that nothing repeats.
5. *Delivery.* Redis delivers an event at most once; subscriptions are refused and repeated,
   dispatches of several events interleave, and a socket server may restart at any moment.
6. *Tables that change while they are read.* A permission check reads three tables in three
   statements and decides on the mixture.

## Modules

| Module | Role |
|---|---|
| `OrderLifecycle` | the statuses and the transition table of an order; constant operators |
| `OrderBilling` | orders, invoices and payments under interleaved service calls |
| `OrderBillingMC` | symmetry and status sets for the runs |
| `OrderBillingProofs` | theorems about `OrderBilling` |
| `OrderOnce` | abstract: what the API promises of a submitted order |
| `IdempotentCalls` | the idempotency middleware around the order and payment handlers |
| `IdempotentCallsMC` | symmetry for the runs |
| `IdempotentCallsProofs` | theorems about `IdempotentCalls`, the refinement of `OrderOnce` among them |
| `SumLemmas` | lemmas about the sum of a function over a finite set, for the proofs about amounts |
| `StockBook` | abstract: what stock keeping promises |
| `StockLedger` | depletion jobs, purchase orders, receipts and hand edits on the stock of a branch |
| `StockLedgerMC`, `StockLedgerProofs` | recipes and deliveries of the runs; theorems, the refinement of `StockBook` among them |
| `CustomerCredit` | gift cards, coupons and loyalty points |
| `CustomerCreditMC`, `CustomerCreditProofs` | the runs' coupons and orders; theorems |
| `TillDay` | day sessions and shifts |
| `TillDayMC`, `TillDayProofs` | who placed which order; theorems |
| `EventRelay` | events from the API server to the sockets of a branch |
| `EventRelayMC`, `EventRelayProofs` | branches of sockets, failures per server; theorems |
| `Access` | permission checks and the handlers that edit roles |
| `AccessMC`, `AccessProofs` | the roles and rows to start from; theorems |

A faulty variant, the body of a mutant, stands before the definition it replaces and is
used by no specification.

### OrderBilling

A *request* is one call of a service. It is sent once (`SendStatus`, `SendItem`,
`SendPayment`), executes a statement per action, and ends `ok` (it wrote the order row),
`part` (it captured a partial payment), `gift` or `failed`. `pc[r]` is the next statement, `rq[r]`
the inputs and local variables.

| Code | Actions |
|---|---|
| `createOrder`, `createOrderWithItems` | `CreateOrder`, `CreateOrderWithItems`: one commit each |
| `updateOrderStatus` | `StatusRead` (find and check), `StatusWrite` (update by primary key) |
| `addItemToOrder` | `ItemRead`, `ItemWrite` (commit of item and absolute totals) |
| `processPayment` | `PayRead` (status and version), `PayInvoice` (find or create, refuse PAID), `PayCapture` (unique key; sum of the payments), `PaySettle` (update of the invoice), `PayOrder` (update of the order when covered), `PayAccounts` (look up the ledger accounts), `PayCommit` |
| P2002 on `ledger_accounts` | `PayDuplicateAccount` |
| `redeemGiftCard` (`M/customer/gift-card.service.ts`) | `RedeemGiftCard`: a captured payment on an invoice of its order, whatever the status of either; its statements are those of `CustomerCredit` |
| any other failure, Prisma's transaction timeout, a crash | `Abort`, from every statement |

What a transaction writes becomes visible at `PayCommit`, in one step. Until then only two
things of it are visible to others: the row locks its updates hold and the unique key its
insert reserved. Both follow from the program counters, so `OrderLocked`, `InvoiceLocked`
and `KeyReserved` are operators and not variables. `PayOrder` keeps the order of the locks:
invoice first, order second.

Abstractions of data: subtotal, tax and total of an order are written together and are one
amount; `order_items` are their sum, and the captured payments of an invoice are two sums,
`paid` by `processPayment` and `gifted` by `redeemGiftCard`. An
invoice is named by the request that inserts it. A payment reads, besides the order, any
committed invoice of it: `findFirst` has no `orderBy`. Tips, discounts, method and tenant do
not influence control and are left out; all rows belong to one tenant.

Whether an invoice is covered is decided on a sum of floats (`payment.service.ts:81-82`). The
model keeps amounts as naturals and the decision as `verdict`. `Verdicts` allows what the
program can decide: a sum above the total is PAID and one below it is not, a single
payment is compared exactly, and several that make up the total exactly may go either way, because their
float sum may be a little less (`0.7 + 0.1 < 0.8`). It cannot go wrong by a cent, so
PAID still means covered, but covered does not mean PAID, not even for one terminal
(definition `CoveredInvoicePaid`).

`raced` is a history variable: which kinds of call (status change, added item, payment)
overlapped about which order. A property that some overlap breaks names the two kinds and
promises itself for the orders about which no two of these overlapped; every other overlap is allowed.

`createOrder` has no caller in the repository; it is modelled because it is part of the
service, and it is the only source of DRAFT.

The model starts where the service starts. Over HTTP a payment does not get that far at
this commit: its route mounts the idempotency middleware a second time (run
`payment_refused`), and the controller reads `req.idempotencyKey`, which nothing sets
(`payment.controller.ts:11`). `OrderBilling` says what the service does once called with
a key, as its own callers intend.

### IdempotentCalls

A *call* is one HTTP request, an *intent* what it is for. Calls of one intent carry the same
key, as an offline queue would, or, with `FreshKeys`, one of their own, as `fetchApi` of
the clients does. With fresh keys it is a person who repeats the call, and the screens let
them only after the previous call failed or was lost (`MayRepeat`).

| Code | Actions |
|---|---|
| `fetchApi` | `Send` |
| `redis.get` and its three outcomes | `Gate` |
| `redis.set ... EX 60`, patching `res.send`, `next()` | `Lock`; with two mounts the next one's `Gate` follows |
| the catch block | `CacheFails` |
| `createOrderWithItems` commits, or violates the unique index on `(tenant_id, idempotency_key)` | `Insert`, `Duplicate` |
| any refusal by validation, permissions or the handler | `Refuse` |
| `res.status(201).json(order)` | `Respond` |
| the un-awaited `redis.set ... EX 86400` or `redis.del` | `Record`, `RecordFails` |
| the process or the connection ends | `Crash` |
| time to live | `Expire` |

The answer reaches the client in the step that issues the recording command; the command
takes effect later, because the API is scaled out and a repeated call may go to an instance
whose look-up overtakes it. `layer` counts how often `res.send` of the call was patched: with
two mounts an answer given by the inner one passes through the outer one and is recorded.
The middleware refuses calls without a header or a tenant before it touches Redis; those
refusals are left out.

`OrderOnce` keeps intents, created orders and answers, and no cache: an intent creates at
most one order, and "created" names that order. `IdempotentCalls` implements it under the
identity mapping of its three variables, when calls of an intent share their key.

### StockLedger

Three kinds of callers write the stock tables of a branch: a worker that runs the depletion job
of an order item, terminals that order and receive goods, and a manager who edits by hand.

| Code | Actions |
|---|---|
| `createOrderWithItems` commits, then awaits `queueDepletionJob`, whose failure is only logged | `PlaceItem`, `QueueJob` (the job waits, or is lost) |
| `depletion.worker.ts`, one transaction | `StartJob` (earlier movements of the item?), `PlanLine` (read the batches, oldest first), `TakeBatch` (decrement, CHECK), `WriteItem` (find and decrement the item, CHECK), `CommitJob`, `ReportDone` |
| three attempts with backoff; a stalled job is given to another worker once | `AttemptFails`, `WorkerCrashes` |
| `createInventoryItem`, `updateInventoryItem` | `CreateItem`, `EditItem` |
| `purchase-order.service.ts` | `CreateOrder`, `ReadOrder` and `WriteOrder` (status checked, then written by primary key) |
| `goods-receipt.service.ts` | `ReadReceivable`, `InsertReceipt`; `ReadReceipt`, `MarkCompleted`, `FindItem`, `PutItem`, `CommitReceipt`; `Abort` |

A transaction's writes appear at its commit; until then `tx[p].wrote` and `tx[p].took` are the
items and batches it has updated and therefore holds. A job is active in one worker at a
time: its lock lasts 30 s, its transaction at most 5 s. Movements are kept as a sum per
ingredient (`ledger`) and as the number of transactions that posted for a reference (`posted`).
`raced` is a history variable: the receipts and orders about which two calls overlapped.

A purchase order is a sequence of lines, and no index keeps two of them from naming one ingredient. The code
compares all that came of an ingredient with *each* line of it (`goods-receipt.service.ts:205-219`), so an
order of 5 and 5 is RECEIVED after 5. `LinesMet` does the same, and `ReceivedMeansCovered` promises no more. The
amounts that came are added as floats: `Verdicts` allows either status where a line is met exactly, RECEIVED
only if every line is met, and nothing else once every line is exceeded. The lines of a
receipt are merged per ingredient, because the code only adds them up.

`StockBook` knows only quantities and postings: a posting is whole, an order item is posted at
most once, no quantity is negative, and besides postings there is the hand of a manager. It does
not promise that a receipt is posted once, because two overlapping completions post it twice.

When stock runs short, the comment at `depletion.worker.ts:95-98` expects a negative quantity, and
the CHECK of the migration (`20260804192000_task_1_3_supply_chain_finance_models/migration.sql:138`)
refuses it: the whole job fails, three times, and no movement is recorded. The definition
`ShortageIsRecorded` states the comment; no passing run claims it.

### CustomerCredit

Each method of the three services is a transaction of a terminal, cut at its statements.

| Code | Actions |
|---|---|
| `activateGiftCard` | `ActivateGiftCard` |
| `redeemGiftCard` | `ReadCard`, `FindRedemption` (the idempotent return), `TakeFromCard` (absolute balance; takes the row lock), `Settle` (rows, payment if there is an invoice, commit) |
| `validateCoupon`, `applyCoupon` | `ReadCoupon`, `CheckCustomer`, `CheckOrder`, `AttachCoupon` (after the validating transaction) |
| `redeemCoupon` | `ReadPaidOrder`, `FindUsage`, `CountUse` (an increment by the database) |
| `accruePointsForOrder` | `ReadOrderToAccrue`, `FindEarned`, `Earn` |
| the early returns, errors, rollback | `EndWithoutCommit` |
| payments and status changes of the order | `TakePayment`, `EndOrder`: one step each, as these methods see them |

What `validateCoupon` derives from items, prices and dates is the constant `Fits`, what accrual
derives from total and tier the constant `Points`. `raced` notes the cards and orders about
which two calls of a kind overlapped: some properties hold whatever overlaps, the others hold for
a card or an order that is not in `raced` (two overlapping redemptions do overwrite a balance, to
the holder's advantage; two overlapping accruals do earn twice).
`activateGiftCard`, `validateGiftCard` and `redeemCoupon` have no caller in the repository. The
redemption ignores the amount due and the status of the order, and nothing else settles an
order that a card has paid; an order cannot be paid by card alone.

### TillDay

`openDay`, `openShift`, `closeShift` and `closeDay`, each check a statement of its own:
`FindPendingDay`, `FindPeriod`, `InsertDay`; `FindOpenShift`, `FindActiveDay`, `CreateShift`;
`ReadShift`, `CountUserOrders`; `ReadDay`, `CountOpenShifts`, `CountOpenOrders`; `SumCash`.
Both closings end in `SumCash`, which always fails: the aggregate names `branchId` and
`paymentMethod`, which `Payment` in `schema.prisma` does not have (`shift.service.ts:132-149`,
`daily-closing.service.ts:148-163`). At this commit no shift and no day is ever closed, so the
code after the sums is unreachable and not in the model (it also writes an audit field `details`
that does not exist, `shift.service.ts:175-188`). `PlaceOrder` is enabled without a day:
`createOrderWithItems` does not ask for one, although the PRD says so.

### EventRelay

| Code | Actions |
|---|---|
| `RedisPublisher.publish` | `Publish`: the event reaches the servers that are connected and subscribed |
| `RedisSubscriber` | `LinkLost`, `Ready` (resubscribes every channel that has a callback), `SubscribeAnswered`, `SubscribeRefused` |
| `ConnectionManager` | `HandleConnection`, `Disconnect`, `SubscribeToBranch` (looks into `branchSubscriptions`), `Relay`, `EmitLocally` |
| `EventDispatcher.dispatch` | `Dispatch` (the first callback), `Resume` (the further ones, each after an await) |
| Socket.IO Redis adapter (external) | `HandOut`: a message of another server reaches the room here |
| the process restarts | `Restart` |

A refused subscription makes the server forget the branch, but not the callback: the next socket
registers one more, and every event is then relayed twice by that server. The comment at
`connection.manager.ts:65-66` expects one callback per branch; `OneCallbackPerBranch` states it
and is false after one refusal. `CopiesCounted` is what the code does guarantee.

### Access

A request reads the tenant's roles (`ReadRoles`), the permissions of these roles
(`ReadPermissions`: Prisma's `include` is a statement of its own) and the user's assignments, and
decides in the turn of the event loop in which the last read arrives (`Decide`). Then its handler runs, with
one statement: `Serve` for all handlers that leave the three tables alone, and `CreateRole`,
`UpdateRole`, `DeleteRole`, `AssignPermission`, `RevokePermission`, `AssignRole`, `RevokeRole`.
A failing read is answered 403, a failing handler 500 (`Break`).

`Evaluate` is `evaluatePermissions`: `Lineage` and `Circular` are the loop of
`resolveRoleInheritance`, `MergeGrant` its merging of rows of one name, `ResolvedGrant` the result
for one role and name. A permission is its name without the scope; which names a row matches
(itself, or those its `manage` stands for) is the constant `Covers`. No service writes overrides,
effective windows or thresholds, and `requirePermission` passes no target, so windows are open, the
target is the branch of the token and no row is owned. `changed` and `verdicts` are history
variables: table changes between the reads of a request (counted to two), and what the tables
would have answered since it began.

`updateRole` accepts any parent, a descendant too. `RBAC.md:564` says of circular inheritance
"Yes — rejected at role configuration time"; in the code the edit succeeds, and whoever holds a
role of the circle is refused everything until it is edited again. A circle longer than
`maxDepth` is not noticed at all. `Declared` follows the code in both cases.

## Runs and what they show

TLC checks every property below; each one also has a mutant, a plausible bug in a mapped
definition under which the same run fails.

| Run | Instance | Shows |
|---|---|---|
| `overlap` | 1 order, 3 requests in flight, 2 keys, amounts 1–2, gift cards of 1, all statuses; symmetric | whatever overlaps, aborts or repeats a key: a PAID invoice is covered (`PaidInvoiceCovered`); nobody is billed for more than was ordered (`NeverOverbilled`); the version counts the writes (`VersionCountsWrites`); a key pays once (`KeyPaysOnce`); revenue is what `processPayment` captured (`DeskPaymentsPosted`). Unless two added items overlapped, totals are the items' (`TotalsMatchItems`). Unless two payments overlapped, an order has one invoice, the payments of an open one do not exceed it and a PAID one is left alone (`OneInvoicePerOrder`, `OpenInvoiceNotOverpaid`, `PaidInvoiceImmutable`). Unless a payment and a status change overlapped, the order of a PAID invoice stays PAID or CLOSED, and unless two status changes did either, a written status is allowed from the one it replaces (`PaidInvoiceSettlesOrder`, `StatusWriteLegal`) |
| `answered` | 3 requests, 2 keys, amounts 1, no gift cards (one commit, no wait) | every call ends: lock and key waits form no cycle |
| `retry` | 3 calls in flight, 2 intents, crashes, Redis failures, expiry | "created" names the order of the key; a call is refused as concurrent only if another used its key; the whole implements `OrderOnce`, one order per intent; a key does not stay "in progress" |
| `depletion` | 2 ingredients, 2 order items, 1 receipt, 2 attempts, 2 batches | types and no negative quantity (`TypeOK`); quantity is what movements and hands add up to (`QuantityIsLedger`); a job counts once (`DepletedOnce`); batches cover the ledger (`BatchesCoverLedger`); `StockBook` is implemented; a queued job is done or given up in the end (`JobsSettle`) |
| `receiving` | 1 ingredient, 1 order item, 2 receipts of one purchase order with 2 lines of the ingredient, 2 terminals, hand edits, 3 batches; symmetric | a receipt counts once unless two calls about it overlapped; RECEIVED means that each line of the order is met, and without overlap an order whose lines are exceeded is RECEIVED |
| `credit` | 1 card, 2 coupons, 2 customers, 2 orders, 2 terminals, 3 calls; symmetric | the holder never loses value (`HolderNeverLoses`), no use is lost (`NoUseLost`), balances are exact, rewards given once and coupons not displaced while calls about them do not overlap |
| `till` | 2 terminals, 2 users, 3 dates of which 2 are in an open period | one open day and one open shift per user while their openings do not overlap; no shift without a day |
| `relay` | 2 servers of which 1 restarts and has a subscription refused, 1 socket, 2 events | order and copies of what sockets hear; a connected socket's branch is subscribed in the end; what Redis has sent is heard |
| `access` | 2 requests, 4 roles (a line, a circle of two, a circle of three), 4 rows, 3 assignments, depth 2; symmetric | a decision is what the rows declare, for every table contents at most two edits away from the six starting ones; with at most one edit between its reads it was right at some moment |
| `version_check`, `payment_refused`, `till_stuck` | | violated: see below |

**Bounds.** Three requests in flight are enough for every pairwise race plus a third party that
observes or disturbs it, for a chain of two lock waits, and for a payment that finds an
invoice two others contend for; the races reported below need two. One order suffices because
requests on different orders meet only in `accounts`, `captured` and `revenue`, which a second
order would not change otherwise than a second payment of the first. Amounts 1 and 2 give
exact, partial and excess payment; an order without items has total 0.
In `depletion` the two recipes share both ingredients and the one delivery covers each of them but
not the two: jobs compete for rows and batches, and run short. In `receiving` the lines
ask for 1 and 2 and the receipts bring 1 and 2 of the same ingredient: the first alone meets one line, the second alone meets
both, one of them exactly (either verdict), and the two together exceed them. In `credit` a third call sees what two
overlapping ones left. In `relay` one refusal gives two callbacks, which two events can
interleave. In `access` one request edits while the other is checked, or both are checked.
Bounds inside the modules: `MaxInFlight` (calls at a time, `OrderBilling`, `IdempotentCalls`),
`MaxBatches` (batches that may exist), `MaxCalls` (calls of all terminals, `CustomerCredit`),
`MaxEvents`, `MaxFailures` and `Restarting` (`EventRelay`), and two constants of libraries,
`MaxStalls` (1, BullMQ's default) and the depth of inheritance `MaxDepth` (3 in the code, 2 in the run,
where a line of three roles reaches it). Every other bound is a constant of the instance.
The proofs hold for every value of all of them.

**Symmetry.** Requests, keys, calls, intents, terminals and interchangeable rows are compared only for
equality. Symmetry sets are used where no liveness property or refinement is checked.

**Deadlock.** Each request, call and job is used once, and calls and events are bounded, so a
behaviour ends when all are answered; the runs say `CHECK_DEADLOCK FALSE` for that reason. That no
call is left waiting earlier is what `answered` and `JobsSettle` check.

**Fairness.** Weak fairness only, and only of what a scheduler drives:

* `OrderBilling`: of `Proceed(r)`. The event loop resumes an awaited call and PostgreSQL executes
  a statement that is not waiting for a lock. Clients need not send anything; nothing is assumed of `Abort`.
* `IdempotentCalls`: of `Expire(k)`. Redis expires an entry that has a time to live; the server may stop for good.
* `StockLedger`: of `JobStep(i)`, the steps of a queued job. BullMQ hands a waiting job to a worker, again
  after a failure or a stall. A terminal may stop in the middle of a call.
* `TillDay`: of `Continue(t)`, a call that can go on.
* `EventRelay`: of `Ready`, `Dispatch`, `Resume` and `SubscribeAnswered`. ioredis reconnects, Redis
  answers, and the event loop gets to every message. Nothing is assumed of publishers, sockets or the adapter.

## Where the code and its documents disagree

Three runs check one sentence of the repository each; TLC shows a behaviour of the code that breaks it.

| Run | What happens |
|---|---|
| `version_check` | two requests with one version are both written: the version is compared with the row that was read, and the update goes by id (`DatabaseSchema.md:107`: the database rejects updates if the version has incremented) |
| `payment_refused` | the first and only payment call of a key is refused as concurrent with itself: its route mounts the middleware a second time |
| `till_stuck` | a shift whose closing passed every check stays open: the sum of its payments is refused |

Further disagreements can be reproduced by checking a definition of the modules under the setting named here:

| Definition | Setting | What happens |
|---|---|---|
| `OrderBilling!RevenueMatchesPayments` | `overlap` | a gift-card payment is in the invoice's payments and not in the ledger (`PRD.md:526`: Dr. Gift Card Liability, Cr. Revenue) |
| `OrderBilling!CoveredInvoicePaid` | `overlap`, also with `MaxInFlight = 1` | payments cover an invoice exactly and their float sum does not, or a gift card covers it and nobody looks: it stays open |
| `OrderBilling!StatusFollowsMachine` | `overlap`, also with `MaxInFlight = 1` | a payment makes a DRAFT or PLACED order PAID (`Architecture.md:13`) |
| `IdempotentCalls!SuccessReplayed` | `retry` | two calls of a key both find no entry; the loser is answered 500 and deletes the winner's recorded success |
| `IdempotentCalls!OneOrderPerIntent` | `FreshKeys = TRUE` | an order whose answer was lost is submitted again under a new key and created twice |
| `StockLedger!ShortageIsRecorded` | `depletion` | a job that runs short records nothing |
| `EventRelay!OneCallbackPerBranch` | `relay` | a refused subscription leaves a callback behind |

The overlaps that the properties of `overlap` exempt do harm: drop the exemption, and TLC shows a lost amount of two
added items, two invoices of one order, a second capture for a PAID invoice, and a settled order that a status change reopens.
More sentences are contradicted by a single line each and need no run: `updateOrderStatus`
accepts SERVED to PAID without a payment (`order.service.ts:308`, against `Architecture.md:423`),
the amount of a payment has no upper bound (`payment.service.ts:82`, against `PRD.md:623`), and
`updateRole` does not look for circles (`role.service.ts:54`, against `RBAC.md:564`).

## Proofs

The proof modules extend a component's module and hold for all values of its constants, under
the named assumptions of that module (amounts are natural numbers,
`None` is no row, rows of different kinds are different, the rows of a table are finitely many, live rows are whole). TLC evaluates the assumptions in every run.
Each module proves an `IndInv` inductive, because hardly any property below is inductive by itself.
Further invariants (`RevenueInv`, `OverlapInv`, `ReceiptInv`, `BatchInv`, `JoinInv`, `OtherInv`) are proved on top of it, and TLC checked each
of them on the component's runs before.

`SumLemmas`: the sums of the models are folds over sets of rows, and the prover cannot use an induction
theorem. The lemmas do the induction by hand: the set of sizes for which a fact holds is a set of
naturals that contains 0 and every successor, hence all of them, because `<` is well founded
(`NatSets`). That the recursive function behind the fold exists is proved the same way
(`SumsExist`); then a sum takes off any one element (`SumRemove`), splits over disjoint sets (`SumUnion`),
changes by the difference of one value (`SumChange`) and grows with its values (`SumMonotone`).

`OrderBillingProofs`, whatever overlaps: `TypeOK`, `KeyPaysOnce`, `VersionCountsWrites`, `NeverOverbilled`,
`PaidInvoiceCovered`, `DeskPaymentsPosted`.

* *Typing* needs that a call in progress is about an existing order and, once it has found one,
  an existing or own invoice (`CallsBound`).
* `PaidInvoiceCovered`: a payment decides that an invoice is paid with a sum it read earlier.
  The decision is right because sums only lag: what was added up is at most what the commit
  leaves captured, gift cards included, and PAID was decided on a sum no less than the total (`ReadsLagBehind`). For that, an invoice which someone else found must
  not be replaced by its own creator later (`InvoicesCommitted`).
* `NeverOverbilled`: `addItemToOrder` overwrites the total with one computed from an old row.
  An old total plus the new amount is at most the items present after the step, again because
  what was read lags behind `items`.
* `KeyPaysOnce`: a transaction past its insert holds its key alone (`KeysExclusive`).
* `VersionCountsWrites`: each write increments the version in the statement that ends its
  request, so the set of writers grows by exactly one.
* `DeskPaymentsPosted`: the commit adds the same amount to the revenue and to `paid` of one invoice (`SumChange`).

And what the code gives while certain calls do not overlap, for any number of requests: `TotalsMatchItems`,
`PaidInvoiceSettlesOrder`, `OpenInvoiceNotOverpaid`, `OneInvoicePerOrder`, `PaidInvoiceImmutable`, `StatusWriteLegal`. The invariant
`OverlapInv` says that of two calls in flight about one order the later noted the overlap with their kinds (`OverlapsNoted`), and
what each call has read that is still so unless a call of a harmful kind overlapped: an added item's total
(`ItemHolds`), a status change's row (`StatusHolds`), a payment's invoice and sum (`PaymentHolds`). A step of one call leaves
what another has read alone, or the two are noted. The action properties follow in the state before the step.

`IdempotentCallsProofs`: `SuccessIsTheOrder` and `TypeOK` for any keys and, when calls of an intent
share a key, the refinement of `OrderOnce`. The argument does not use the
lock in Redis at all: it is the unique index on orders that keeps an intent to one order. What the
middleware adds, the replay of the first answer, is lost under overlap (`SuccessReplayed`).
On the order route also `RefusedOnlyIfOther`: an entry that refuses is the work of a call that has passed the gate
(`RefusersPast`), and with one mount such a call never reads an entry again, so it is not the call
that is refused. On the payment route the second mount reads what the first has set: the theorem needs
`Route = "orders"`, and `payment_refused` shows why.

`StockLedgerProofs`: `TypeOK` (no quantity is negative), `QuantityIsLedger`, `DepletedOnce` and the
refinement of `StockBook`. The core is `LocksExclusive`: an item that a transaction has decremented
cannot change before that transaction ends, so a CHECK that passed at the update still holds at the commit; and a
job in work is not posted yet, so that its commit posts for the first time.

Also `ReceiptCountsOnce`, `ReceivedMeansCovered` and `BatchesCoverLedger`. For the first two the invariant `ReceiptInv` follows a call
from its read to its commit: what it has read of its receipt and its order is still so unless a second call
about them overlapped (`CallFresh`), and of two calls about one thing the second is noted (`OneCallEach`). The
attempt to prove `ReceivedMeansCovered` corrected it: an order without lines, which
`createPurchaseOrder` accepts, is met before anything came and becomes RECEIVED only with its first receipt.
A line that is met stays met by further receipts (`MetGrows`), so that the second of two completions that miss each other errs on one side only.
For the batches `PlanWithin` says that what a job plans to take lies within the batches of its ingredient and adds up to
at most what it will post, so a commit takes no more off the batches than off the ledger.

`CustomerCreditProofs`: `TypeOK`, `HolderNeverLoses`, `CardExactWhenAlone`, `NoUseLost`, `RewardedOnceWhenAlone`.
What a call has read is some earlier balance, which with the redemptions made since covers
the card's value (`CallIsAbout`); it is the present balance while no other redemption of the card
overlapped (`ReadHolds`). `NeverDisplaced`: a coupon that does not combine has found the order without
one, which is still so when it is attached unless two calls about the order overlapped (`JoinHolds`).

`TillDayProofs`: `OneTillWhenAlone`. What an opening has found, no open day or no open shift, still holds
when it inserts, because an opening that nothing overlapped is the only one of its kind (`Apart`).

`EventRelayProofs`: `HeardInOrder` and `CopiesCounted`. The invariant follows an event from the inbox
through waiting dispatches and the adapter to the socket: of two dispatches that wait for
their next callback the earlier event is never behind (`ResumesSound`), so a copy is later than
those its callback has emitted and earlier than those it will emit.

`AccessProofs`: `AnswerWasRight`, whatever `Evaluate` computes. What a check in progress will decide is
already among the answers the tables gave since it began (`Foreseen`): a change after its read
leaves its decision as it is, and a change before its read makes it the answer of the new tables, provided
that what it has read is current, which one change at most guarantees. With two changes it may be
an answer the tables never gave.

And `DecisionIsDeclared`, for any tables and any depth. `Declared` speaks of paths of parents and of sets of rows, the code follows a
chain and merges rows one by one. The chain is the only path from its role (`PathIsLineage`), so a role visited twice is a
circle (`CircularIsCircle`) and the roles on the chain are the family (`FamilyIsLineage`). Merging is followed by what it keeps
(`Summary`): a grant denies if one of its rows does, and otherwise is as broad as the broadest. One
more row keeps that (`MergeOne`), hence every set in every order (`MergeSummary`), hence the whole chain
(`ChainSummary`). Recursion and folds are unrolled by induction over sets of naturals, as in `SumLemmas`. The
theorem needs that a live row names a permission, which the column demands and every step keeps (`RowsStayNamed`).

Every invariant and every action property that a passing run checks is proved. Model-checked only is what is
liveness, because fairness and `ENABLED` are beyond the prover: `EveryRequestAnswered`, `KeyFreed`, `JobsSettle`, `BranchIsHeard`,
`SentIsHeard`. The definitions of the table above that the code breaks are refuted by TLC on the instances named there.

## Limits

* A request is about one order and one tenant; tenants meet nowhere in these tables.
* Amounts are unbounded naturals in units of a column's last digit (`Decimal(10,2)` for money, `Decimal(10,4)` for
  quantities). JavaScript adds them as floats, which is not exact: where that decides something at equality
  both outcomes are in the model (`Verdicts` of `OrderBilling` and of `StockLedger`). It errs by far less
  than the last digit, so no other comparison is affected.
* `addItemToOrder` stores subtotal, tax and total rounded to cents after each item (`order.service.ts:451-453`), so
  that they may part by a cent from what the items add up to; the model has one exact amount for them.
* Read-only endpoints are left out: they change nothing.
* An item added after the invoice took its snapshot is never billed. No sentence of the
  repository says what should happen, so no property does; the hazard is listed.
* A payment's invoice look-up may return any invoice of the order; with the overlap of first
  payments there can be several.
* The Redis client is one of several instances' clients, so nothing is assumed about the
  order of commands of different calls. For one call, commands are in order.

* A gift card's amount is an integer; that the router accepts something that is no number is not modelled.
* `deleteInventoryItem`, a soft delete that leaves batches and movements behind, is left out.
* Publication of an event is awaited by nobody: that two commits may publish in the other order is
  not modelled, `EventRelay` numbers events by publication. The acknowledgement and retry of
  `Architecture.md:272` do not exist in the code.

## Not modelled

* *Ledger posting.* `postJournal` checks accounts, period and balance of its own input and inserts
  one entry in one transaction; nothing it reads is written by another caller, and no code closes a
  period. The journal a payment writes is part of `OrderBilling`.
* *Tenant isolation.* The rewriting of queries has no caller in the applications: queries name the
  tenant themselves.
* *Tokens and sign-in.* Calls of a library, without state.
* *Catalogue, branches, staff, customers, suppliers, settings.* One statement per operation on
  independent rows: nothing to interleave beyond what the database gives.
* *Analytics and audit.* Read-only.
* *Web clients.* Which key a call carries and when a person may repeat it is in `IdempotentCalls`. The kitchen display
  is not modelled: the orders it loads have no items (`GET /orders` returns none, and
  `TicketCard.tsx:60` reads them), `KitchenTicketCreated` is not relayed, and status events carry no version,
  so there is no state of it that a property could be about.
* *Generated code* (`packages/types`), configuration, seeds and screens make up most of the lines.

What could be added next: the composition of `StockLedger` with order creation over several
branches, `postJournal` with several callers of one account, and the displays once they read items.
