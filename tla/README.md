# EchoBilling: specification, model checking and proofs

EchoBilling sells virtual servers: a customer fills a cart, pays through Stripe,
and a worker provisions the services the order is for. This directory holds TLA+
modules of the parts of the backend whose correctness depends on what
concurrent goroutines, two processes, Postgres, Redis and Stripe do to each
other. Paths below are relative to the repository (`internal/...` is
`src/internal/...` here).

| Files | Contents |
|---|---|
| `Fulfilment`, `MCFulfilment`, 5 cfgs | from a paid checkout session to an active service: the webhook's transaction, the task queue, the worker, the administrator |
| `Ledger` | the abstract specification that `Fulfilment` implements |
| `Fulfilment_proofs`, `Jobs_proofs` | theorems about `Fulfilment`: the payment's transaction and the refinement; jobs and tasks |
| `Cart`, `MCCart`, cfg, `Cart_proofs` | the orders before that: drafts, items, totals, checkout, the payment that may already be arriving, an administrator who sets the status |
| `Renewals`, `MCRenewals`, 2 cfgs, `Renewals_proofs` | services afterwards: expiry, renewal reminders, suspension, termination, renewal invoices |
| `Refunds`, `Amount`, `MCRefunds`, cfg, `Refunds_proofs` | payments afterwards: failed attempts, refunds, disputes, in the order Stripe delivers them; decimals and cents |
| `Accounts`, `MCAccounts`, cfg, `Accounts_proofs` | registration, the first administrator, second factors |
| `Settings`, `MCSettings`, cfg, `Settings_proofs` | the settings table and the two processes' caches of it |
| `Catalog`, `MCCatalog`, cfg, `Catalog_proofs` | products, plans and templates against listings and orders; the connection pool |
| `PROJECT.json` | components, runs, mutants, source map, findings, hazards, theorems |

`tlc -config <cfg> <MC module>` repeats a run, `tlapm <module>_proofs.tla` the
proofs of a module. Where a module has more than one cfg, it is called
`<MC module>_<run>.cfg`; `PROJECT.json` lists the runs.

## 1. Inventory

### How the parts interact

The **API process** (`cmd/api/main.go`) serves HTTP with one goroutine per
request. The **worker process** (`cmd/worker/main.go`) runs an Asynq server with
ten goroutines and a scheduler. They share

* **Postgres** (a pool of at most 25 connections, `internal/app/database.go`),
  at its default isolation level READ COMMITTED; no statement uses
  `SELECT ... FOR UPDATE`, so the only protection between a read and the write
  it justifies is a row lock that an earlier UPDATE of the same transaction
  happens to hold, or a unique index;
* **Redis**, for Asynq's queues and for the short-lived two-factor tokens and
  email codes;
* **Stripe**, which the API calls (sessions, refunds) and which calls the API
  back (webhooks, delivered at least once, in no particular order).

### Components

**Payment webhook** (`internal/payment/webhook.go`, `provisioning.go`,
`service.go`). State: `payment_events`, `payments`, `invoices`, `orders`,
`services`, `provisioning_jobs`. `HandleWebhook` inserts the event's row, answers
200 if it was there already, dispatches on the event's type and marks the row
processed. `handleCheckoutSessionCompleted` runs one transaction (order to
`paid`, invoice, payment, service and job per item, order to `provisioning`),
commits, and only then enqueues the tasks; a failed enqueue is compensated by two
further statements. Hard: deliveries of two events of one order, duplicates and
retries, a failure anywhere, death between commit and enqueue, reads that the
isolation level does not protect. Correct when: an order is invoiced once;
invoice, payment and services exist together or not at all; what is acknowledged
is recorded; a task is queued only for a committed job and a committed job is not
forgotten.
The other types (`payment_intent.payment_failed`, `charge.refunded`,
`charge.dispute.created`) update payments and orders. Hard: an event that
overtakes the payment it refers to is acknowledged and dropped.

**Checkout session** (`CreateCheckoutSession`). Reads a draft order and its
items, calls Stripe, sets the order to `pending_payment`. Hard: the call to
Stripe stands between the check and the unconditional UPDATE. Correct when: what
the customer pays is what the order holds, and no later status is overwritten.

**Provisioning worker** (`internal/provisioning/handler.go`, `tasks.go`).
`HandleProvisionVPS` is four autocommitted statements: latest job `running`,
service `active`, latest job `completed`, order `active`. Hard: Asynq repeats it
from the start after an error or a death; it updates the job with the latest
`created_at`, not the one it was made for. Correct when: a running job has a
task, a completed job means an active service.
Expiry (hourly), renewal reminders (daily), suspension, termination and invoice
generation are handlers of the same process. Hard: read and then write without a
lock, notifications sent before they are recorded, queries nested in open `Rows`.

**Cart and orders** (`internal/order`). `AddCartItem`, `RemoveCartItem`,
`UpdateCartItem` each change a draft order's items and its total in one
transaction; `AdminUpdateOrderStatus` moves the order along `validTransitions`.
Hard: two drafts of one user, two rows of one plan, totals summed from a stale
snapshot, a cart changed while it is being paid, a status checked before and
written after someone else's. Correct when: a total is the sum of the items, a
final status stays.

**Administration** (`internal/admin`). `provisionService` (a read, a transaction,
an enqueue and three compensating statements) and `createRefund` (Stripe first,
the transaction afterwards) change state; dashboards and lists only read. Hard:
`provisionService` locks the service before the order, the webhook the order
before the service. Correct when: locks are released in the end, a job whose task
was refused is marked failed, Stripe's refunds are all on record.

**Authentication, two-factor, setup** (`internal/auth`, `internal/setup`). Users
in Postgres, pending two-factor tokens and email codes in Redis. Hard: the code
is read and deleted in two calls, recovery codes are removed by read, filter,
write, the first administrator is checked and inserted in two statements. Correct
when: a one-time code is used once, a used recovery code stays used.

**Settings** (`internal/app/settings_store.go`, `internal/settings`). A snapshot
of `system_settings` in each process, replaced by `Reload` after an update and
every so often by a ticker. Hard: two reloads may read in one order and swap in
the other. Correct when: every process sees the last update in the end.

**Rate limiter, JWT middleware, amounts** (`internal/app/middleware`,
`internal/common`). A mutex-protected map of token buckets; stateless checks;
conversions between decimals and cents.

**Catalog and templates** (`internal/catalog`, `internal/template`). Products and
plans, and the templates a product with its plans is made from. Most handlers are
one statement, but foreign keys (`ON DELETE CASCADE` from products to plans,
`REFERENCES` from order items to plans) and unique slugs make one statement take
several locks, `applyTemplate` is a transaction of many inserts, and
`listActiveProducts` queries the pool once more for each row of an open query.
Hard: two applied templates with the same preset slugs in opposite orders, a
deletion beside an order, everyone waiting for a second connection. Correct when:
references are never broken, a product from a template is whole, requests end.

**Contents, customer profile, billing lists**. Single-row updates, one transaction
of upserts, read-only queries.

**`internal/db`**: generated by sqlc, imported by no handler.

**Frontend** (`frontend/`). Pages over `useFetch`, which may show an older
request's response after a newer one's.

`PROJECT.json` lists every component with its status, and every hazard at its
line with the properties that cover it or the reason why none does.

## 2. Plan

Done, in this order, the most important first:

1. `Fulfilment`: the webhook's transaction, Asynq's queue, the worker and the
   administrator's writes to the same rows: money and servers change hands here
   and all the hard behaviours meet in it.
2. `Cart`: cart requests, `CreateOrder`, `CreateCheckoutSession` and
   `AdminUpdateOrderStatus` against each other and against the payment's transaction.
3. `Ledger`: the exactly-once ledger, with the refinement checked and proved.
4. `Renewals`: the scheduler, expiry and reminders against retries, and the tasks
   for one service against the API's requests that provision it again.
5. `Refunds` and `Amount`: the other event types and `createRefund`, out of
   order, with the call to Stripe outside the transaction.
6. `Accounts`: tokens, email codes, recovery codes, set-up.
7. `Settings`: the caches of the two processes.
8. `Catalog`: templates, cascades and the pool.

Left: a composition of `Cart` and `Fulfilment` over the same `orders` rows (what a
session charges for against what is served for it, a second checkout of an order
that is being provisioned) and, in the frontend, `useFetch`.

## 3. `Fulfilment`: the model

### State

| Variables | Code |
|---|---|
| `order`, `payment`, `service` | the status columns of `orders`, `payments`, `services`; `"none"` is a missing row |
| `invoices` | how many `invoices` rows an order has |
| `jobs`, `latest` | `provisioning_jobs` of an item's service, in the order they were committed, and the one with the latest `created_at` (the two orders differ: `created_at` is taken before the transaction) |
| `event`, `reply` | the `payment_events` row; the last response Stripe got |
| `orderLock`, `itemLock` | the transaction that has written the `orders` or `services` row |
| `pc`, `saw`, `now`, `newInvoice`, `newPayment`, `seen`, `newJobs` | the webhook goroutine's position and the locals of its transaction: what it has read and what it is going to insert |
| `failed`, `toEnqueue`, `toReset` | `processErr`, the tasks still to enqueue, the item whose enqueue failed |
| `task`, `retried` | Asynq's task for an item's n-th job and its retry count |
| `adm` | an administrator's request in progress, with its locals |
| `clock`, `faults`, `crashes`, `adminOps` | `time.Now()`; bounded counters |
| `markedPaid`, `unmarked` | history: orders an administrator marked paid, jobs whose marking as failed was lost |

### Actions

One action is one statement (or one call to Redis): between two statements of a
goroutine any other process may act. A transaction's writes are invisible to
others until it commits, so they are kept in the locals and applied by
`CommitTx`; what the writes do at once is to lock rows, and another transaction's
write of that row waits (its action is disabled). `Rollback` is the deferred
`tx.Rollback` of every early return.

* `ReceiveEvent`, `ReceiveFails`, `DuplicateDelivery`, `FinishEvent`,
  `FinishFails`: `HandleWebhook`.
* `ReadOrder`, `MarkPaid`, `CreateInvoice`, `UpsertPayment`, `ReadServices`,
  `WriteServices`, `EnsureJobs`, `CommitTx`: `handleCheckoutSessionCompleted`,
  `createInvoice`, `prepareProvisioningJobs`. `TxFails` (any statement fails),
  `UniqueViolation` (a row with the same unique key was committed first),
  `ConnBusy`, `EventIsVictim` (deadlock), `CommitUnknown` (the COMMIT took effect
  and its answer was lost) and `HandlerDies` are the ways it fails.
* `EnqueueTask`, `EnqueueFails`, `ResetService`, `ResetFails`:
  `enqueueProvisioningTasks` and `markProvisioningJobFailed`, whose own errors the
  code ignores.
* `StartTask`, `ActivateService`, `CompleteJob`, `ActivateOrder`, `AckTask`,
  `TaskFails`, `WorkerDies`: `HandleProvisionVPS` under Asynq.
* `AdminReadStatus`, `AdminWriteStatus`: `AdminUpdateOrderStatus`.
* `AdminReadService`, `AdminUpdateService`, `AdminCommit`, `AdminEnqueue`,
  `AdminEnqueueFails`, `AdminUndoJob`, `AdminUndoService`, `AdminUndoOrder`,
  `AdminUndoFails`, `AdminIsVictim`, `AdminDies`: `provisionService`.

Postgres' deadlock detector is modelled by `WaitsFor` and `Cycle`: a transaction
in a cycle of waiting transactions may be chosen as the victim.

### Abstractions

* `prepareProvisioningJobs` handles an order's items one after the other; the
  model reads all their services, then writes all of them, then looks up all
  their jobs. An administrator's transaction holds one service while it waits for
  the order, so waiting for it inside the loop adds no deadlock that is not there
  already. Two payments of one order may wait for each other's services, when one has
  read `paid` and holds no lock of the order: `Cart` has that deadlock statement by
  statement; its outcome, a rollback, is `TxFails` here.
* The UPDATE of an existing payments row locks it. A transaction that waits there
  has either waited for the order before, or has read `paid` and holds nothing, so
  the wait is left out.
* A unique index makes the second INSERT wait for the first transaction. The
  model lets it go on and fail at the write or at the commit (`UniqueConflict`).
* Amounts, expiry dates, host names and JSON payloads do not influence control
  and are left out.
* Orders interact only through the tables' rows of their own, so one order with
  several sessions, events and items is where everything happens.

### `RowsBlockConn`

`createInvoice` and `prepareProvisioningJobs` execute statements on the
transaction while the `Rows` of their own SELECT are open (`service.go:196-237`,
`provisioning.go:44-67`). A pgx connection runs one query at a time and answers
"conn busy" to such a statement; `go.mod` names pgx v5.8.0. The driver's code is
not in the repository, so its behaviour is chosen at the start of a behaviour,
`rowsBlock \in RowsBlockConn`. `TRUE` is what pgx does: run `never_provisioned`
has it alone. `FALSE` is the driver the code is written for (one that buffers the
rows, or this code with the rows read first). Run `webhooks` has both: the failing
transactions leave nothing behind, and `Ledger` is implemented either way. The
others check the protocol under `FALSE`, because under `TRUE` nothing past the first
invoice ever happens. The theorems hold for both.

### `Ledger`

`Ledger` is what the fulfilment of payments promises without webhooks, locks or
transactions: `Post(s)` records a session's payment, its order's only invoice and
a service for each item in one step, `Acknowledge(s)` tells Stripe, `DeclarePaid(o)`
is the administrator's way round it, after which two sessions may be invoiced
separately. `Fulfilment` implements it under the refinement mapping

| `Ledger` | `Fulfilment` |
|---|---|
| `posted` | sessions whose `payments` row is `succeeded` |
| `invoices` | `invoices` |
| `served` | items with a `services` row |
| `byHand` | `markedPaid` |
| `acked` | sessions with an event whose last answer was "Webhook processed" |

The commit of the webhook's transaction is `Post` (or a stutter for a session that
is posted already), `FinishEvent` is `Acknowledge`, an administrator's write of
`paid` is `DeclarePaid`, and everything else, the worker's steps and all failures,
stutters.

### What it leaves to `Cart`

`Fulfilment` starts with an order in `pending_payment` whose items stay as they
are. That a checkout may still be in progress, or the items may still change, is
the subject of `Cart`; findings 3 to 5 are what that can lead to, and they are not
part of `Fulfilment`'s behaviours (section 2, what is left).

## 4. `Cart`: the model

### State

| Variables | Code |
|---|---|
| `status`, `created`, `total` | columns of `orders` (`"none"`: no row); a total is the function from items to quantities it is the sum of |
| `itemOrder`, `plan`, `quantity` | columns of `order_items`; `plan` stands for `plan_id` and `billing_cycle`; a deleted row keeps its id with quantity 0 |
| `serviced` | the items that a committed `services` row refers to |
| `orderLock`, `itemLock` | the transaction that has written the row |
| `req` | a goroutine of `AddCartItem`, `RemoveCartItem` or `UpdateCartItem`: position, order, item, what its uncommitted writes have set (`row`, `sum`, `isNew`, `at`) |
| `checkout` | a goroutine of `CreateCheckoutSession` |
| `sessionOrder`, `pay` | a Stripe session: the order it charges for, and what has become of it: its URL was given out (`open`) or nobody ever got it (`lost`), how far its payment's transaction is |
| `toServe`, `rest`, `serving`, `wrote` | that transaction's locals: the items it has read, those it has yet to come to, the one at hand, those whose `services` row it has written |
| `admin` | a goroutine of `AdminUpdateOrderStatus` between its SELECT and its UPDATE |
| `byHand`, `stale`, `raced` | history: statuses an administrator has set, requests whose sum another's commit has overtaken, orders whose total is such a sum |
| `clock`, `requests`, `faults` | `time.Now()`; bounded counters |

### Actions

* `BeginAdd` (`getOrCreateDraftOrder`), `FindItem`, `WriteItem`, `SumItems`,
  `WriteTotal`, `CommitCart`: the statements of `AddCartItem`; `BeginChange` and
  the same from `WriteItem` on: `UpdateCartItem` and `RemoveCartItem`. `CartFails`
  is any error and the deferred Rollback, `DeleteRestricted` the foreign key of
  `services`, `CartIsVictim` a deadlock.
* `CreateOrder`: the other way to a draft.
* `BeginCheckout`, `ReadLines`, `CreateSession`, `UpdateOrder`, `CommitCheckout`,
  `Answer`: `CreateCheckoutSession`. `CheckoutFails` is an error before the commit;
  the session stays at Stripe and nobody gets its URL. `CommitUnknown` is a COMMIT
  that takes effect and returns an error, `AnswerIsLost` a death or a broken
  connection after the commit: the order awaits payment in a session whose URL is
  lost.
* `PayOrder`, `PayItems`, then for each item `FindNoService`, `FindStoppedService` or
  `FindService` and, if there is something to write, `InsertService` or
  `UpdateService`, and at the end `PayCommit`: the payment's transaction, as far as
  it reads or locks orders, items and services. `InsertRefused` is a violated unique
  index or foreign key, `PayFails` any other error, `PayIsVictim` a deadlock.
  `Fulfilment` has its other statements.
* `AdminReads`, `AdminUpdates`, `AdminFails`: `AdminUpdateOrderStatus`, whose UPDATE
  is not conditional on the status it has checked.

A transaction waits (its action is disabled) for the row lock of an order or an item,
and an INSERT of a `services` row for another payment's uncommitted row of the same
item (`Writers`: `services.order_item_id` is unique) and for a removal of that item
(`Deleters`). `Blockers` lists these waits for the deadlock detector. A COMMIT of a
cart request or a payment that takes effect and returns an error leaves the tables
as any commit does and is the same step; what the customer is told is no variable.

`SumItems` and `WriteTotal` are two actions although in `RemoveCartItem` and
`UpdateCartItem` one statement, `UPDATE orders SET total_amount = (SELECT
SUM(...))`, does both: under READ COMMITTED its subquery sees the snapshot taken
when the statement began, before it waited for the row. `AddCartItem` sums in a
SELECT of its own.

### Abstractions

* Prices and validation against the catalog do not appear: a request the catalog
  refuses changes nothing. Quantities are positive (`binding:"min=1"`).
* One customer. Another customer's drafts are rows no request of this one looks
  at.
* The `FOR KEY SHARE` lock that inserting a `services` row takes on its item does
  not conflict with an UPDATE of the quantity, only with a DELETE: `KeyShares`.
* The payment's transaction is the one of a driver that lets it run
  (`RowsBlockConn = FALSE` in `Fulfilment`); with pgx it fails, `PayFails`.
* Each session is paid at most once: repeated events of one session are
  `Fulfilment`'s subject.

## 5. `Renewals`: the model

| Variables | Code |
|---|---|
| `service` | `services.status`; `expires_at` is the constant `Expires`, as no statement changes it |
| `invoices` | renewal invoices of a service |
| `rows` | `audit_logs` rows `renewal_reminder_sent` by (service, date, days left), what `reminderAlreadySentToday` looks up |
| `kind`, `pc`, `retried` | the tasks in Asynq's queue, where the handler of each is, its retry count |
| `todo`, `cur`, `at`, `ok`, `erred` | a batch's locals: the rows of its first query that are left, the service at hand, its `time.Now()`, whether the notification went out, whether `errs` has an element |
| `start`, `now`, `nextRemind` | when the worker was started, the clock, the scheduler's next `@every 24h` |
| `request` | goroutines of the API that provision a service again: an administrator's `provisionService`, or one more payment of the service's order |
| `notified`, `lost`, `hit`, `late`, `overlap` | history of the reminders: what customers heard, who heard of something that no row says was sent, which services a failure concerned, which had a day end while a batch was due or waiting, whether two batches ran at once |
| `left`, `atWork`, `asked`, `ordered`, `unheard` | history of the rest: services that have not been active throughout, what was under way on a service when it was terminated, how much was asked for, invoices a task made without learning of it |

`Pass` lets the clock go on whatever is under way. `TickRemind`, `TickFails` and
`TickExpire` are `scheduler.go`; `StartExpire`, `ReadService`, `SuspendExpired`,
`ExpireFails` `HandleExpireService` without a service id; `StartRemind`, `TakeTime`,
`NextReminder`, `Send`, `Record` `HandleRenewalReminder`. Its failures are
`LookupFails`, `BatchAborts` (`rows.Scan` or `rows.Err` ends the batch before the
services that are left), `SendFails` (the POST may have been delivered all the same)
and `RecordFails` (the row may be there all the same). `StartForOne`, then
`WriteStatus` or `CommitInvoice`, then `EndForOne` are the handlers for one service;
`UpdateFails` leaves nothing behind, `WrittenFails` is a statement or COMMIT that took
effect and returned an error, or a later statement that failed. `Ack` and `Requeue` are what Asynq does
with nil and with an error; `Restart` is the worker's death and its recovery.

`AdminReads` and `PaymentReads` are the API's checks of a service's status,
`RequestUpdates` the unconditional UPDATE to `provisioning`, `RequestEnqueues` and
`EnqueueFails` the call to Redis (which may have taken the task and answered with an
error), `Undo` the compensating UPDATE to `pending`, which the webhook's code makes
conditional and the administrator's does not; `HasJob` is a payment that finds a job
and enqueues nothing, `RequestFails` an error or a death in between.

Abstractions. The rows of a batch's first query are read whole and handled in any
order. A provisioning task is here only its activation of the service and what
comes after, and a request what it does to the service and the queue; a request's
UPDATE is visible at once, and not at its transaction's commit (`Fulfilment` has both
in detail). Suspension, termination and invoices have constructors and handlers but
no caller yet: `Ask` enqueues them for the caller they are made for. The reminder and
the expiry check for one given service are left out. Without a notification URL a send
counts as one: the code records it. The clock of the worker and that of Postgres are
one. `sendRenewalWebhook` sets the timeout of an `http.Client` that concurrent tasks
share, a data race whose outcomes are those of `Send` and `SendFails`. The pool's
limit, which nested queries may reach, is `Catalog`'s subject.

Bounds. `Day` = 2 units lets services expire at two times of the day. In
`renewals_reminders` two services expire at 16 and 15; a behaviour starts at 0, 7 or
12 and runs four units, so that each of the 7, 3 and 1 days' reminders occurs in some,
with two tasks at once, one retry, and one failure or restart. In `renewals_tasks` one
service is about to expire or has; three things are asked for (tasks, or a request of
the API), three places in the queue, one failure or restart. A check that would find
nothing expired is not enqueued, and a worker at rest does not die: both would change
nothing.

What the runs teach. `@every 24h` counts anew when the worker restarts, and the days
left are counted from when a batch gets to run, after it has waited for one of Asynq's
goroutines, and rounded up: a count can be missed for both reasons
(`EveryCountReminded` excepts `hit` and `late`, and no other delay loses one). A
reminder is repeated when the answer to its POST or its record is lost, or when a batch
and the retry of an earlier one overlap (`RemindedOnce` excepts `lost` and `overlap`).
An invoice is made twice when its COMMIT takes effect and returns an error, or the
worker dies before the task's end (`InvoicedPerTask` counts `unheard`). A terminated service
is brought back by what was under way on it and by one more payment
(`RevivedByOldWork`).

## 6. `Refunds` and `Amount`: the model

| Variables | Code |
|---|---|
| `paid`, `refund`, `listed`, `disputed` | Stripe: paid intents, its refund objects, whether a `charge.refunded` lists its refund, disputes |
| `event` | what has become of each event: sent, which statement its handler is at, processed, failed |
| `payment`, `rec`, `dispute` | the rows of `payments`, `refunds`, `disputes` |
| `lock` | the transaction that has updated the payments row |
| `adm` | a `createRefund` in progress |
| `early`, `byAdmin`, `late` | history: refunds whose event found no payment, refunds asked for here, payments a failed attempt was reported for late |

`Completed`, `AttemptFailed`, `OnDispute` are the handlers with one relevant
statement; `SelectPayment`, `UpdatePayment`, `CommitRefund` the transaction of
`handleChargeRefunded`, `Panics` its nil dereference of `Charge.Refunds`, which
leaves the event unprocessed; `ReadPayment`, `AskStripe`, `AnswerLost`,
`StripeRefuses`, `AdminUpdate`, `AdminCommit`, `AdminFails` are `createRefund`.
Stripe is external: it makes a refund of no more than what is left of the charge,
in one of a few statuses, and sends one event about it, in any order with all
others. An event is processed by the delivery that has inserted its row
(`Fulfilment`), so a handler that fails is final: `HandlerFails`.

`handleDisputeCreated` is one step: payments are never deleted, so what it has read
still holds when it writes. The status `Completed` writes is that of an UPSERT whose
transaction is `Fulfilment`'s.

`Amount` has `DecimalAmountToCents` and `CentsToDecimal` on a sign, an integer part
and digits; `Rounded` defines the nearest cent arithmetically, for any number of
digits. Texts that are no numbers are refused by the code and left out.

Bounds: one payment of 1.02 (whose cents begin with a zero), two refunds of 0.01 or
of everything, a dispute, an administrator, one failure; 2046 decimals of up to
four digits around where rounding turns (looked at before the first payment, as no state
matters to them).

## 7. `Accounts`: the model

| Variables | Code |
|---|---|
| `user` | `users`: role, `two_factor_enabled`, method, whether there is a secret, recovery codes |
| `login`, `mail` | Redis: `2fa:token:<token>`, `2fa:email:<user>` |
| `req` | a request in progress: where it is, what it has read |
| `creator`, `made`, `shown`, `missed`, `spent`, `overwrote`, `accepted`, `left` | history: who made a row, the list of codes written last and the one shown last, who missed a list, codes used, ... |

`RegisterChecks`/`SetupChecks` and `InsertCustomer`/`InsertAdmin` are the check and
the INSERT of `registerUser` and `CreateAdmin`. `ReadLogin`, `StoreToken` are
`loginUser`; `ValidateToken`, `ByTOTP`, `ByEmail`, `ByRecoveryCode`, `Spend`,
`Consume` are `Verify2FA`; `CheckEmailCode` and `DeleteEmailCode` are the GET and
the DEL of `VerifyEmailCode`; `StoreEmailCode`, `EnableTOTP`, `EnableEmail`,
`Disable2FA`, `RegenerateRecoveryCodes` the settings of a user. A list of recovery
codes is written by an UPDATE, and shown by the response after it, `ShowList`: two
steps. `RequestFails` is an error or a death between two statements, or the loss of
that response; `TokenExpires` and `EmailCodeExpires` are Redis.

Left out: passwords and the arithmetic of TOTP (a request with a wrong one ends
without changing anything, one with a right one is a choice of the environment),
access and refresh tokens (signed, not stored), `SetupTOTP` (stores nothing),
changing a password (one UPDATE of a column nothing else here reads). Recovery
codes are numbered by the list they were made in; a hash that compares equal is
the code.

Bounds: two users and two requests at a time, which go on to further requests;
either nobody is registered, or everybody is and one user works with a second
factor: the two parts share no step, and a behaviour of both together adds
nothing but their interleavings. Two lists of two codes, two mails, one token, one
failure.

## 8. `Settings`: the model

| Variables | Code |
|---|---|
| `table` | `system_settings`, with a version that counts the batches |
| `cache` | the `SettingsStore` of each process, with the version it was read at |
| `stripeKey` | the global `stripe.Key` of the API process |
| `lock`, `req` | row locks and `UpdateSettings` requests: what remains to be written, what was read |
| `ticker` | `StartPeriodicReload` in the worker |
| `wentBack`, `missed` | history: an older snapshot or key has replaced a newer one; a batch is committed and its request has not got as far as a reload |

`UpdateSettings` drops the masked values of the form; `Write`, `Commit`,
`CommitUnknown`, `BatchFails`, `Deadlocked` are `UpdateBatch`, whose UPDATEs follow a Go
map's random order (`CommitUnknown`: the COMMIT takes effect and returns an error, which
is answered with 500 and no reload); `ReadTable`, `Swap`, `ReadFails` are `Reload`; `GetKey`, `SetKey` copy the
Stripe key; `Tick`, `TickSwaps`, `TickFails` are the worker's goroutine; the two
restarts load before anything else.

A value that begins with `***` is what the form shows of a secret: `Masked` is not
a value anybody types. `SMTPConfig` reads five keys one by one, possibly of two
snapshots; it changes nothing and is left out. Bounds: two keys, one of them the
Stripe key, two values, two batches, one failure or restart.

## 9. `Catalog`: the model

A request is a list of the steps its statements take (`Statements`), executed one
per action on the tables, its uncommitted writes (`work`) and its locks (`lock`).
What its statements are is the code (`applyTemplate`, `createPlan`,
`deleteProduct`, ...); what a step does is PostgreSQL, external except that the
schema in `migrations/` says which references and unique indexes there are:

* an INSERT waits for whoever has the slug, and fails if it is committed;
* a reference takes a `share` lock of the row referred to (FOR KEY SHARE), an UPDATE
  a `nokey` or, if it changes the slug, a `key` lock, a DELETE a `key` lock;
* a DELETE of a product cascades to its plans, and is refused if an order item
  refers to one of them;
* who waits in a circle may be made the victim (`Deadlocked`); everyone may be
  cut off (`Cancel`);
* a transaction or an open listing occupies one of `Conns` connections
  (`Acquire`, `ListPlans`). Two of the readings give theirs back between their
  queries.

Products and plans are told apart by their ids (`ProductIds`, `PlanIds`), as by the
tables they are rows of: a plan's id in a request about products finds no row, like
any id that is not there.

Templates change in one statement each (`CreateTemplate`, `UpdateTemplate`,
`DeleteTemplate`); `hidden` are a template's presets with `is_active` false. Prices, names, sort order and what listings answer are left out.
Items are only added to orders here (`Cart` has their removal). PostgreSQL's order
of waiting is not modelled: whoever can go on may.

Bounds: three requests, one of each group of `SmallCalls`: two templates whose
presets are in opposite orders applied at once, or one beside any other change, a
listing, a deletion or an order; a product with two plans at the start; one change
of the templates. `Conns` = 3 is one more than there can be listings. With 2 TLC finds
the deadlock of two listings that each wait for a second connection
(`internal/catalog/service.go:34`); the program's pool has 25
(`internal/app/database.go`), so that it takes 25 of them at once.

Seen while modelling, and no property of it: `product.is_active` is never checked
when a plan is ordered; `updateProduct` assigns a text to `product_category`
without the cast that `updateTemplate` has, which PostgreSQL is likely to refuse
(a statement may always fail: `Cancel`); applying one template twice always fails,
as the slugs of plans are unique across products.

## 10. Runs

No cfg checks for deadlock: once everything is answered and the counters are used
up, a system rests. `Max...` constants bound failures, deaths, requests and rows;
each is a guard of the actions it bounds.

| Run (module) | Instance | Shows |
|---|---|---|
| `webhooks` (`Fulfilment`) | two paid sessions of one order, an event each, 2 faults, 1 death, both drivers | `OneInvoicePerOrder`, `AllOrNothing`, `AcknowledgedIsRecorded`, `RunningJobHasTask`, `ActiveUnlessReadBefore` and the refinement `ImplementsLedger`: the two transactions overlap at every statement, with each other and with the worker |
| `admin` | one event, two administrator requests, 4 faults, 1 death | `TaskHasJob`, `PendingJobIsScheduled` along every failing enqueue and every failing compensation |
| `locks` | two events, an administrator, 1 fault (a refused task is what lets an administrator provision), weak fairness | `LocksAreReleased`, through deadlocks |
| `provisioned` | two items, one event, 2 faults, 1 death, 3 retries, weak fairness | `AcknowledgedIsProvisioned` |
| `never_provisioned` | violation, pgx's driver, no fault | a paid session never becomes an active order |
| `cart` (`Cart`) | 2 cart requests, 2 checkouts, 2 sessions, an administrator; 1 order, 2 items, quantity 1, 4 requests, 1 fault, weak fairness | `TotalIsSum`, `AddsUp`, `DeadlockNeedsPayment`, `ReadItemsStay`, `RequestsEnd`, and `CartInv`, the invariant of the proofs: also for a second payment, which reads `paid` and locks nothing, for a removal that has begun before the checkout, and beside a status set by hand |
| `renewals_reminders` (`Renewals`) | two services that expire at different times of the day, a fault or a restart, 2 tasks at once, fairness | `RemindedOnce`, `EveryCountReminded`, `ExpiredIsSuspended` |
| `renewals_tasks` | one service, three of: suspension, termination, renewal invoice, an administrator's or a payment's request; the expiry check; a fault or a restart | `InvoicedPerTask`, `RevivedByOldWork` |
| `refunds` | section 6, strong fairness | `RecordsAreReal`, `RefundedTogether`, `RefundsAreRecorded`, `CentsAreRounded`, `RefundEventsEnd` |
| `accounts` | section 7 | `OneAdminPerRequest`, `CodesAreThoseShown`, `AcceptedCodesAreGone` |
| `settings` | section 8, strong fairness | `CacheIsCurrent`, `WorkerNeverGoesBack`, `CommitReachesWorker`, `UpdatesEnd` |
| `catalog` | section 9, weak fairness | `RowsConsistent`, `AppliedWhole`, `RequestsEnd` |

The last four, and `CartInv`, contain the module's type invariant as well.

Two events suffice for `Fulfilment`: the interesting conflicts (lookup before the
other's commit, unique index, duplicate rows, lock order) are between two
transactions, and a third only queues behind one of them. Two items show that an
order has several tasks; one item is enough elsewhere. `MaxRetry` is below Asynq's
5 and above or below the number of failures as the run needs: archiving occurs in
`webhooks` and `admin`, and cannot in `provisioned`, where the failures (2 faults
and 1 death) do not exceed the 3 retries. `Concurrency` 1 or 2 instead of 10 makes
the limit occur.

In `cart`, two cart requests suffice for lost updates and stale sums, and every
combination of two to four of a cart request, a checkout, a payment and an
administrator's change occurs. Four requests are what the longest story needs (a
draft, two checkouts, and a removal or an administrator beside the two payments). One
order is enough because no step relates two: a goroutine works on one order and its
items, and only the choice of the latest draft compares them. The theorems are for any
number.

`accounts` uses the permutations of its requests as symmetry: the module compares no
such value with another except for equality, every choice of one is a quantifier, and
no liveness is checked with it.

The passing runs fire every action between them: `ConnBusy` in `webhooks`,
`AdminUndoFails` in `admin`, the deadlock victims in `locks`, `cart`, `settings` and
`catalog`, `DeleteRestricted` in `cart`, `Undo` in `renewals_tasks`.

### Fairness

`Fulfilment`'s `FairSpec` assumes weak fairness of

* `ReceiveEvent(e) \/ Proceed(e)` for each event: Stripe repeats a delivery until
  it has a 2xx answer, and Go runs every goroutine. `Proceed` excludes failures
  and death; a transaction that waits in a deadlock makes progress by being its
  victim, which Postgres does after `deadlock_timeout`;
* `Work(i, n)` for each task: Asynq takes a queued task when one of its goroutines
  is free, and its recoverer requeues a task whose lease has expired;
* `Continue(a)` for each administrator's request, a goroutine as well.

`Cart`'s assumes it of `Continue(r)`, `ContinueCheckout(k)`, `ContinuePayment(s)` and
`AdminUpdates(a)`, `Catalog`'s of `Continue(r)`: goroutines that have begun. Nobody has
to begin a request or to pay. Because the number of requests is bounded, `Cart` states
that each ends as `[]<>AtRest`, which TLC checks in one pass. The calls to Stripe return: the SDK has a
timeout. `Renewals`' assumes it of the hourly tick and of `Work(t)` for each task,
and not of the clock: a service that has expired is suspended even if no further
hour passes, because the check that is due is still made.

`Refunds` and `Settings` assume strong fairness of the steps that wait for a row
(`OnRefund(r)` and an administrator's `Continue(a)`; a batch's `Continue(a)`): the
row can be taken by others again and again, and PostgreSQL grants a row lock to
those who wait for it in turn. The ticker and the other events have weak fairness.

Nothing is assumed of faults, deaths, duplicates, or that anybody ever begins a
request.

### Mutants

Each property of each passing run has a mutant in `PROJECT.json`: a definition of
the model changed the way a plausible mistake would change the code (the UPDATE
on the pool instead of the transaction, the enqueue before the commit, a lost
`WHERE status = 'provisioning'`, a swallowed error, no deferred Rollback, the
masked value stored, a forgotten cascade, ...). Each mutant stands before the
definition it replaces; TLC finds the property violated in the run's own instance.

## 11. Proofs

Each theorem is proved from its module's assumption about the constants alone, and
so holds for any sets of rows, requests and events and any bounds. `PROJECT.json`
lists them with what they establish.

### `Fulfilment`

`Fulfilment_proofs` proves `TypeCorrect`, `FulfilmentCorrect` (`[]FulfilmentInv`),
`InvoicedOnce`, `AtomicFulfilment`, `PaidOrdersAreInvoiced` and
`ActiveServicesStay`.

`OneInvoicePerOrder` and `AllOrNothing` are not inductive: nothing in them says
why the invoice lookup of one transaction is still right when it commits.
`FulfilmentInv` adds the argument the code relies on without stating it:

* `LockedUnlessPaid`: a transaction past its first UPDATE has locked the order's
  row, unless it read the order as `paid` and so skipped the UPDATE;
* `PaidHasInvoice`: an order that reads `paid` has an invoice committed, or an
  administrator has set the status by hand, so that skipping the UPDATE is
  harmless: the lookup finds that invoice;
* `InvoiceLookupHolds`: whoever is about to insert an invoice holds the lock and
  there still is none (or the order was marked by hand, the exception
  `OneInvoicePerOrder` makes too); whoever is not has seen one, and invoices are
  never deleted;
* `ServiceLookupHolds`: a services row that was seen, or that a task or a request
  is about, is still there.

`CommittedInv` carries the weight: the commit of one transaction preserves every
other transaction's lookups, because the other cannot hold the lock too. The
remaining steps change none of the rows in question (`QuietInv`, `WorkerInv`,
`AdministratorInv`) or only extend one transaction's locals (`LookupInv`,
`CreateInvoiceInv`).

`ActiveServicesStay` is an action property: of all the writers of a service's status
only the commit of a transaction that has read the row before it was active, and an
administrator's two writes, can take `active` away.

`Jobs_proofs` proves `TasksHaveJobs`, `PendingJobsAreScheduled` and
`RunningJobsHaveTasks`. `HasJob` adds to the first that whoever is about to enqueue
refers to a committed job; `Scheduled` adds to the second that nothing is left to
enqueue outside the code after the commit; `Latest` and `Times` that the job with
the latest `created_at` exists as soon as any job does, as clocks only move on.

The last section of `Fulfilment_proofs` proves `AcknowledgementsHold`, from `AckInv` (an event that reaches
its end without an error has committed its payment), and `LedgerImplemented`:
`Spec => ImplementsLedger`. The commit is a `Post` because of `FulfilmentInv`: it
inserts an invoice only if there is none or the order was declared paid, and after
it every item has a service. The other steps leave what the ledger shows as it is
(`LedgerStays`), one lemma per group.

### `Cart`

`Cart_proofs` proves `TypeCorrect`, `CartCorrect` (`[]CartInv`),
`DeadlocksNeedPayments`, `ItemsStayRead`, `SessionsBeforePending`, `AdditionsAddUp`
and `TotalsAreSums` (`[]TotalIsSum`), for any number of requests, checkouts, payments
and administrators.

`CartInv` is the argument the statements rely on:

* `LocksHeld`: who holds a row's lock, and from which statement on. A cart request
  and a checkout lock the order with their last statement, a payment with its
  first. That is why every deadlock has a payment in it that meets a removal, or
  another payment of its order: `WhoBlocks` says for each kind of transaction whom
  it can wait for, and a circle of these has to go through one of the two.
* `RequestInv`: a request past its write either inserts a row of its own, or holds
  the lock of its item and `row` is still what the UPDATE computed from the
  committed quantity, or its statement matched no row and changes nothing. This is
  what makes additions add up although the item was looked up without a lock.
* `NoSharedIds`, `RowsRefer`, `CheckoutsRefer`, `PaymentsRefer`, `AdminsRefer`: fresh ids
  are fresh, and whatever a goroutine has read by id exists.
* `ItemsServed`: an item a payment has read has a committed services row, one this
  payment has written, is at hand or is left.
* `DeletesAreFree`: a removal that has deleted its row did so before any payment
  inserted a services row for it; after that the foreign key keeps it.
* `ReadsStay`: what a payment has read of the items is there at its commit. If it
  holds the order's lock, no removal can commit, as each must update the order's
  total. If it read `paid` and holds nothing, the payment that set `paid` has left
  all removals in progress `Harmless`: their item is gone already or has a
  services row. An order that an administrator has set `paid` may be in no
  payment's hands; `byHand` excepts it. `ReadItemsStay` without `Harmless` is not
  inductive.
* `SumsFit`: a request's `sum` is what the items will add up to at its commit, unless
  another's commit has overtaken it (`stale`).

One lemma per action or group of actions shows that it preserves `RowsInv`, which is
`CartInv` without the sums; `TotalsFit` adds these. Of all commits only that of a
request in `stale` leaves a total that is not the sum, and it is in `raced` from then
until the next commit of a cart request of this order.

### `Renewals`

`Renewals_proofs` proves `TypeCorrect`, `OnlyOldWorkRevives` (`RevivedByOldWork`),
`InvoicesPerTask` (`[]InvoicedPerTask`), `RemindersOnce` (`[]RemindedOnce`) and
`NoCountMissed` (`[]EveryCountReminded`). Most actions change one place of the queue
(`Alone`), and the lemmas say what they may do to it.

* `OldWork` is the inductive part of the first: what is at work on a terminated
  service was so when it was terminated, or is a payment that has yet to run its
  UPDATE. An expiry check joins only if it reads `active`, an administrator's request
  only if it finds `pending` or `suspended`; a provisioning task inherits from the
  request that has enqueued it.
* `Covered` is that of the second: the invoices of a service and the tasks that may
  still make one are no more than the tasks asked for and the invoices whose task did
  not learn of them. `Shape` says where the handler of each kind of task can be.

The two theorems about reminders need dates and durations, for any `Day`:

* `RemindedOnce` counts by date, but a batch may take long: the date can change
  between its lookup and its notification, and again before its record. `Once` says
  that while batches have not overlapped there is one at most (`OneBatch`), that what
  it is about to send or record is not on record for today, whichever day that is
  (`Unsent`), and that a notification that went out today is on record, is about to
  be, or is lost (`OnceEach`); there is nothing on record for days to come. `InHand`
  adds that the service at hand is on a reminder day.
* `EveryCountReminded` holds because batches are enqueued at least `Day` apart, and
  more than that only while `late` watches: `OnTime` says that a service outside
  `late` still has, when the batch is enqueued, the count it had when that was due.
  `Counted` says that a count that was due by now is on record or awaits a batch,
  which finds it when it takes the time, again unless one of the service's days ended
  while it waited. `Active` and `Undelivered` say that services outside `left` stay in
  the batch's query and that a failed notification puts its service into `hit`.

### `Refunds`

`Refunds_proofs` proves `TypeCorrect`, `RecordsReal`, `TogetherCommitted`,
`RefundsRecorded`, `CentsRounded` and with it `CentsStayRounded`
(`[]CentsAreRounded`). Its invariant `RefundInv` is `Found` (a payment that somebody has
found stays, and a refund asked for here has one), `Made` (a refund that is spoken
of was made, once) and `Recorded` (a row is the one its refund makes). That a row's
amount is the refund's in cents is the lemma `RoundTrip`:
`DecimalAmountToCents(CentsToDecimal(c)) = c` for every natural number.

`CentsRounded` says of every decimal, however many digits it has, what the run
compares on 2046 of them: the conversion, which looks at three digits, is the
nearest cent, which `Rounded` takes from all of them. The values of digits are
recursive functions on the naturals; what they compute is proved by taking the least
number of digits for which it is false (`Least`), so that no induction rule is
needed.

### `Accounts`

`Accounts_proofs` proves `TypeCorrect`, `AdminsAreFew`, `AcceptedCodesGo` and
`CodesShown`. `AdminInv` adds that a request about to insert an administrator has
made none: the ones there are were made since its check by others. `MailInv` adds
that codes are numbered as they are sent and each is one user's. `CodeInv` adds the
same of lists of recovery codes, including the lists that requests have read, so
that a code a login removes is never one of a list it has not read, and the lists that
responses are on their way to show.

### `Settings`

`Settings_proofs` proves `TypeCorrect`, `WorkerGoesOn` and `CacheCorrect`. `WorkerInv`
orders three versions: the worker's, the ticker's and the table's. `CacheInv` says
what `CacheIsCurrent` does not when requests are under way: the cache is that of the
table, or a request is about to reload it; and from some version on the table has
had the Stripe key it has now, and the key in use is at least that old or a request
is about to replace it (`KeySince`). The last is needed because a batch that does not
change the key never copies it. All of it is said as long as nothing is `missed`: a
batch whose COMMIT took effect with an error sets that, and no request makes up for it.

### `Catalog`

`Catalog_proofs` proves `TypeCorrect`, `RowsStayConsistent` (`[]RowsConsistent`) and
`TemplatesApplyWhole` (`[]AppliedWhole`), for any requests, rows, templates and any
number of connections.

Neither invariant says anything of the transactions in progress. `CatalogInv` does:

* `Local`: what is left of a request's statements, against what it has locked and
  written so far; one definition for each kind of request (`Adds`, `AddsPlan`,
  `Changes`, `Deletes`, `Orders`, `Looks`). An application of a template has written
  the product and the first so many presets, and the rest are still to be inserted
  (`Adds`): at its end it has written all. A deletion of a product has met every
  plan of it that was there, and holds it (`Met`).
* `Holds`: a lock is of a row that is there, and nobody holds one against it.
* `Unique`: what a request has written has a slug of its own, among the rows it
  sees and among what the others have written.
* `IdsKept`: which table an id is of; a request's new rows are not there before it
  ends.

A commit is the step that matters (`CommitRequests`, `CommitRows`,
`CommitApplied`). It preserves the `Local` of the others because of `LocalUnder`:
rows a request holds stay as they are, rows never change their product, nobody adds
a plan to a product or an order to a plan that a deletion holds, because the
reference would need a lock in conflict with it. Nothing but the locks of the
foreign keys keeps a deleted product from getting a plan in the meantime: no
statement of the code takes one for that purpose. For statements that commit nothing
there is one lemma each (`InsertSteps`, `UpdateSteps`, `DeleteSteps`, ...).

The assumption about the constants says that the rows of the start keep the tables'
constraints themselves, and that requests and the rows of the start are finite in
number.

### Only model-checked

Every safety property of a passing run is a theorem. What is left to TLC is
liveness, for which the prover has no rule: `LocksAreReleased`,
`AcknowledgedIsProvisioned`, both `RequestsEnd`, `ExpiredIsSuspended`,
`RefundEventsEnd`, `CommitReachesWorker`, `UpdatesEnd`.

## 12. Findings

The first is what run `never_provisioned` refutes. The others are consequences of
interleavings that the models contain, seen while writing them; no run checks
them, and the properties are stated so as to leave them out.

1. *Open Rows* (`never_provisioned`, `payment/service.go:224`). With pgx every first
   payment of an order fails at the nested statement; finding 2 then turns the
   retries into duplicates.
2. *Duplicates* (`payment/webhook.go:52`). That the ledger has a row is taken
   to mean that the event was processed. A redelivery during processing, after an
   error (which was answered with 500 to have it repeated), or after a death
   between INSERT and commit is answered 200 "Event already processed", and Stripe
   stops delivering it.
3. *Totals* (`order/handler.go:345`). Of two cart requests that overlap, the later
   writes a sum taken before it saw the other's item. A later request repairs the
   total; without one it is what the webhook invoices.
4. *Items of a paid order* (`order/handler.go:320`). The check that the order is a
   draft locks nothing, and the write does not repeat it: the customer pays for
   other items than the order then has. In the same way the lines of a session
   (`payment/service.go:67`) are read before the call to Stripe.
5. *Second checkout* (`payment/service.go:63`, `:138`). The status is written
   regardless of what it has become during the call to Stripe: a paid order awaits
   payment again. When the COMMIT's or the response's way back breaks (`:149`, `:154`) the
   order awaits payment in a session nobody can open, and a new checkout is refused.
6. *Late events* (`payment/webhook.go:276`). A `charge.refunded` that overtakes its
   payment is acknowledged and dropped; a `payment_failed` of an earlier attempt
   overwrites `succeeded` and `refunded`. `RefundsAreRecorded` and
   `RefundedTogether` except just these (`early`, `late`).
7. *Administrators* (`setup/handler.go:60`). Set-up requests that overlap make one
   administrator each; `OneAdminPerRequest` is what remains.
8. *Recovery codes* (`auth/twofa_handler.go:101`). Two logins, or a login and a new
   list, may overwrite each other's list: a used code comes back, or a new list
   goes (`overwrote`). A list whose response is lost is in force and was never shown
   (`missed`).
9. *Older settings* (`app/settings_store.go:73`). Of two reloads the one that has
   read first may store last (`wentBack`); the API then works with old settings
   until the next batch. So it does after a COMMIT that took effect with an error
   (`settings/service.go:85`): the administrator is told that nothing was saved.
10. *Email codes* (`auth/email_code.go:61`). The comment at `:47` says that a code is used
   once; two requests that both GET it before either DELs it are both accepted
   (`AcceptedCodesAreGone` is what remains).
11. *Renewal invoices* (`provisioning/handler.go:460`). A task that is run again after its
   COMMIT inserts a second invoice (`unheard`).
12. *Terminated services* (`payment/provisioning.go:118`, `admin/service.go:363`). One more
   payment of the order provisions a terminated service again; the administrator's
   request and its undo write over a termination that came after its check.

More limits of the properties are consequences of the code as well:
`OneInvoicePerOrder` excepts orders an administrator has marked `paid` (no lock is
taken, so two payments may both insert), and `Cart`'s `ReadItemsStay` and
`PendingHasSession` what he has set by hand for the same reason; `PendingJobIsScheduled` excepts a
death between commit and enqueue (nothing ever looks for such a job); and no
property of `Fulfilment` says that a status of `orders` is kept, because every
writer of that column overwrites what others have written since it looked
(`AdminUpdateOrderStatus` a final status; a second payment sets an active order
back to `paid`).

## 13. Not modelled

* Administrator: dashboard, customers, payments, system jobs; customer profile;
  billing lists; site contents. Reads and single-row updates; the one transaction
  (`content/service.go:51`) has the random order of locks that `Settings` models for
  `UpdateBatch`.
* Rate limiter and JWT middleware. A map under one mutex, the buckets of
  `golang.org/x/time/rate` (not in the repository), and signatures, which keep no
  state.
* `internal/db`: generated by sqlc, imported by no handler.
* Process set-up, except loading the settings and the pool's limit.
* Frontend. Presentation; `useFetch`, which may show an older response after a newer
  one, is listed as a hazard.
* Of the modelled parts: formatting, mails, audit entries other than reminders,
  validation whose failure changes nothing.
