# TLA+ specifications of the Edge Billing Service

The service bills customers for their subscriptions and for one-time items: it
generates invoices, charges them through a payment gateway, follows the
gateway's webhooks, retries failed payments, and tells the monolith it was split
from about it. It runs as one or more NestJS processes over PostgreSQL, with SQS
queues for what comes in (from the monolith, which forwards gateway webhooks, and
from a scheduler) and what goes out. Inside a process, handlers interleave at
every `await`; across processes only the database and the gateway are shared.
Paths below are relative to the repository, which the implementation shares with
its drizzle migrations and tests: the code is `src/src/...`.

## Inventory

| Component | State | Operations | Who it meets |
| --- | --- | --- | --- |
| charges | `charges`, unique `idempotency_key` | pay an invoice, one-time charge, onboarding charge | invoices, gateway, ledger, dunning, outbound queue |
| webhooks | `processed_events`, `webhook_events` | payment succeeded, payment failed, mandate updated | charges, invoices, ledger, outbound queue |
| dunning | `dunning_attempts` | schedule, execute, select a method, escalate | charges, payment methods, subscriptions |
| invoices | `invoices`, `invoice_line_items` | generate for due subscriptions, draft, finalize, void, rewrite an open draft | subscriptions, credits, surcharges, charges |
| subscriptions | `subscriptions` | create, pause, resume, cancel, past due, advance the period and seed the next draft | invoices, payroll, monolith API |
| credits | `credit_notes`, `credit_balances` | issue a note, apply the balance to an invoice | invoices, ledger |
| refunds | `refunds`, unique `idempotency_key` | refund a charge | charges, gateway, ledger |
| ledger | `ledger_entries` (append only, by trigger) | one entry per financial event | written inside the caller's transaction |
| payment methods | `payment_methods` | attach, detach, set default, order, setup flows | gateway, surcharges on open drafts |
| customers | `customers` | upsert from events | everybody |
| inbound queues | `processed_events` | dispatch of monolith and scheduler messages | all handlers above |
| outbound queue | none | publish, with dual-write metadata during migration | monolith |
| gateway | circuit breaker counters | Stripe and Adyen adapters, retry, timeout | external |
| surcharges | `customer_surcharge_configs` | store a setting, recalculate an open draft | payment methods, invoices |
| payroll, billing dates | none | resolve salaries, discounts and bonuses of a cycle; periods and due dates | subscriptions, monolith API |
| reconciliation | `reconciliation_runs`, `discrepancies` | compare a day with the gateway | ledger, gateway |
| customer migration | `migration_logs` | six writers in order for one customer, rollback | all tables |
| data migration | none | scripts that move one kind of data of all customers; validation | all tables |
| admin, reporting, feature flags, circuit breaker, health, configuration | various | queries, bulk wrappers, pure computations | |

What is hard here: a payment touches a database row, a remote gateway, a ledger
and a queue, and only the database part is transactional. The same invoice is
reached by the scheduler, an HTTP handler, a dunning run, a webhook handler and an
operator. Messages arrive at least once and in any order, processes die between
two awaits, and the gateway may answer after the caller gave up. `PROJECT.json`
lists each hazard at its line.

What makes each component correct, in a sentence: a payment is asked for once per
idempotency key and booked once; an invoice is paid exactly when its payment is in
the ledger; nothing is announced that is not booked; a receivable is reversed once
and never after a payment; the retries of an invoice form one chain that ends in
recovery, in a closed invoice or in an escalation; a subscription period is
billed once, in its own month; credit is neither lost nor made, and an invoice asks
for the sum of its lines; what is booked of refunds that stand is within the payment;
a customer's default method is the gateway's; what a report lists of a past day is
what was booked and settled on it; no payment is taken over from the monolith twice,
and a customer's entries in the ledger are those of its documents. Where the code
keeps such a sentence only under conditions, the sections on runs and proofs name
them; where it breaks one, the section on disagreements does.

## Modules

* `Settlement` is the abstract promise of collecting: money is captured, booked at
  most once per attempt together with the invoice's status, announced after it is
  booked, and a finalized invoice can be reversed.
* `Collection` is the code between a finalized invoice and a paid one:
  `ChargesService.executePaymentForInvoice`, `WebhookProcessingService`'s two
  payment handlers, `InvoicesService.voidInvoice`, and an environment that stands
  for the gateway. It is shown to implement `Settlement`.
* `Dunning` adds `DunningService` and the `process-dunning` handler. Its runners
  are workers of `Collection`; it extends `Collection` and every step that pays is
  one of its steps.
* `BillingCycle` is the code that makes invoices: the scheduler's two loops, the
  finalizing transaction with its credits, the advance to the next period, the
  subscription states, payroll updates, standalone invoices, credit notes and voids.
  It stands beside `Collection`: they share the invoice's status, and what
  `Collection` does between finalized and paid is the action `Pay` here.
* `Cycles` is the calendar of one subscription: its periods, due dates and the
  discounts and bonuses of its months. Billing a period, many steps of
  `BillingCycle`, is one step here, and dates, left out there, are the subject.
* `OneTimeCharges` is `createOneTimeCharge` and the webhook that settles it later;
  `Refunds` extends it with `RefundsService`, and `Reconciliation` extends both with
  the daily comparison of their bookings with the gateway's.
* `Account` is the customer: its row and its payment methods beside the gateway's
  copies, the surcharge setting and the drafts that carry a surcharge.
* `Migration` moves one customer out of the monolith, by requests, by batch scripts,
  and back by the rollback.
* `MCCollection`, `MCDunning`, `MCBilling`, `MCCycles`, `MCOperations`, `MCAccount`
  and `MCMigration` instantiate them for TLC.
* `CollectionProofs`, `DunningProofs`, `BillingProofs`, `CyclesProofs`, `AccountProofs`
  and `MigrationProofs` hold the theorems about the module they are named for,
  `OperationsProofs` those about `OneTimeCharges`, `Refunds` and `Reconciliation`.
  `SumTheorems` has what two of them need of sums over finite sets.

The modules meet in the rows they share. `Collection` takes over where `BillingCycle`
has finalized an invoice (`Pay` stands for it there); `OneTimeCharges` and `Refunds`
book in the same ledger `Reconciliation` reads; `Account` decides on the method that
`Dunning` and `Collection` find; `Migration` ends with the subscription from which
`Cycles` starts with `Migrate`.

A few definitions marked `Mutant:` or `Seeded fault` stand before the definition they
alter and are used by nothing: each is a plausible bug that makes a property
fail, listed under `mutants` in `PROJECT.json`.

### Collection

A *key* is `<<invoice, attempt>>`, the code's `inv_{id}_att_{n}`. The unique index
makes it name one charge row, and the gateway opens one payment intent per key, so
it also names the intent and its final event.

| Variable | Code |
| --- | --- |
| `invoice`, `charge` | `invoices.status`, `charges.status` (`none`: no row) |
| `intent` | the charge row has `stripe_payment_intent_id` |
| `booked`, `reversed` | numbers of `payment` and `invoice_void` ledger entries |
| `published` | outbound events; a set, as a consumer of it must be idempotent |
| `processed` | `processed_events` rows of webhook events |
| `gateway`, `requests` | the intent's state, and the `createCharge` calls made |
| `call[w]` | where a caller is in `executePaymentForInvoice` |
| `delivery[c]` | where a consumer is in `processWebhookEvent` and what it read |

Each `await` another handler can slip into ends a step; a transaction is one step.
Values read earlier and used later are carried in `call` and `delivery`: the
webhook handler decides on `seen`, the charge status it read, and settles on an
invoice status it read a step before; `SettleDirectly` has no test of the invoice
because the code validates a status read before the gateway call.

Failures: `GatewayThrows` covers a missing adapter, an open or timed-out circuit
breaker and a decline raised as an error; `StoreThrows`, `PublishThrows` and
`CatchThrows` are the failing writes and sends at the places where the code
treats them differently; a publish that fails under dual write is only logged and
is the choice that leaves `published` alone; `Crash` and `DropDelivery` end a
process between two steps. A timed-out request stays at the gateway and may still
be captured.

### Dunning

`retries` is `dunning_attempts` in insertion order; `run[r]` is the handler of a
`process-dunning` message with the rows it still has to execute. Dates are
abstracted: any scheduled row may be due. The set of active payment methods is read
anew each time and may be any set, since customers change it; only the code's
rule for choosing is kept. `CloseAll` is `updateStatus` followed by
`markRemainingAsSkipped` in one transaction.

### BillingCycle

The rows of one customer, since drafts, credits and payroll are all looked up by
customer.

| Variable | Code |
| --- | --- |
| `subs` | `subscriptions`: status, `current_period_start`, whether `next_billing_date` is set |
| `rows` | `invoices` in order of creation, with the sums of their payroll and credit line items and the total |
| `ledger` | per invoice, the number of `invoice_finalized` entries and the receivable its entries leave |
| `balance`, `granted`, `applied` | `credit_balances`, and the sums of `credit_notes` and of `credit_applied` entries |
| `batch[r]` | the loop a generation is in and what it has still to visit, as read when the loop began |
| `task[a]` | the operation a process is in, with what it read earlier and will use |

`task[a].pc` names the next step. A step ends where the code awaits something
another process can come between: `VisitSubscription` reads the invoices of a
period, `finalize` and `settle` are the finalizing transaction, `announce` the publish and
payment, `check`, `reread`, `advance`, `seed` and `fetch` are
`advanceAndSeedNextDraft`. The transaction is two steps because it reads the balance
without a lock and PostgreSQL's default isolation lets another transaction commit in
between; its writes are one step. Writes by id are unconditional in the code and
so in the model: `Settle`, `VoidDraft`, `Rewrite` and `AdvancePeriod` do not look at
the status they replace. A seeded draft is made from the monolith's payroll or, when
that cannot be had, from the lines of the closing invoice without its surcharge:
`CreditedDraft` takes over the line of applied credit, whose credit is then neither
in the balance nor applied again, so a total may be less than zero. Such an invoice is
finalized without a ledger entry and never charged.

Abstracted: a period is its start, counted in half months so that a resumption may
fall inside another period; dates are not compared, any active subscription with a
next billing date may be due; the payroll amount and the wording of line items are
a total from `Amount`; surcharges are left out of totals (`Account` says when one is
due). `Faults` names the steps before which an awaited call may throw or the
process may die, `Request` what handlers are asked, `Enrolled` the subscription
that exists at the start, if any.

### Cycles

| Variable | Code |
| --- | --- |
| `customer`, `employee` | `customers.charge_day`, `is_prepaid`; an employee's discount and bonus months as the monolith answers them |
| `today` | the server's clock |
| `sub` | status, `current_period_start`, `_end`, `next_billing_date`, and what is in `amount_cents` |
| `drafts` | open drafts with their periods and what their lines contain |
| `charged` | history: the periods billed since the subscription was last activated |

A date is a month counted from year 0 and a day, in UTC, which is also taken to be
the server's zone (`billing-date.util.ts` uses both). `Clamped` is
`date-fns`' `addMonths` and the code's own clamping. `sub.anchor` is a history of where
the current dates come from: `subscription.create` puts a subscription on its
customer's cycle, the HTTP endpoint takes any start, a migrated subscription has
the dates its caller gives ("timed") or else two rules of its own ("migration"), and
a resumption over HTTP starts a period on the day it is asked for. A line of an
invoice is abstracted to whether the discount and which bonus it carries, and to where
it comes from: a payroll resolved for the period ("fresh"), a payroll stripped to
salary and fee ("stale"), or the subscription's amount as one line ("amount"), which
a copy takes over as it is (`Copy`). `Pause` voids one draft, the customer's oldest,
which may be another one than the subscription's; a payroll update rewrites the only
open draft and refuses to choose between several (`Rewritten`). The sums and their
rounding are left out, and so are discounts without an end, for which there is nothing
to count.

### OneTimeCharges, Refunds and Reconciliation

| Variable | Code |
| --- | --- |
| `bills`, `charge` | `invoices` in order of creation; the `charges` row of each idempotency key, and whether it names its intent |
| `intent` | the gateway's payment intent, the day it was decided, and its webhook |
| `payments`, `refundBook` | `ledger_entries` of reference types payment and refund |
| `refund` | the `refunds` row of each key |
| `accepted`, `outcome` | the gateway's refund of each key: its cents, and whether it is pending, has succeeded or failed |
| `reports` | `reconciliation_runs` with their `discrepancies` |
| `call`, `asking`, `compare` | where each request, refund and reconciliation is, with what it read |

`TakeAnswer`, `Throws` and `MarkFailed` follow the code's own payment path for
one-time charges, which differs from `Collection`'s: the unsuccessful answer stores
the intent and fails the charge in one write, and no dunning begins. A webhook is one
step, as its interleavings are `Collection`'s subject; it may be delivered again.
The gateway is an environment: it decides late and refuses a refund of more than the
payment. A refund it accepts may be pending or failed in its answer, and succeed or
fail later (`RefundDecided`); the code books any answer that does not throw, and no
handler listens to what comes later. A payment has two names there, that of its
intent (`IntentId`), which the charge row keeps, and that of the charge made for it
(`SourceId`), which a settlement names; `Card` says which payments are listed as type
`charge`, the only one that is compared. A report records in `over` whether its day
was over when the run began.

### Account

| Variable | Code |
| --- | --- |
| `customer`, `gateway` | the `customers` row; the gateway's customer, attached and detached methods, and default |
| `method`, `order` | `payment_methods`: status and default flag, in order of creation |
| `surcharged`, `invoices` | the setting; drafts and final invoices, whether they carry a surcharge, and whether one was booked |
| `job[a]` | where a request or consumer is, and what it read |
| `delivered`, `processed` | the monolith's messages that came, and `processed_events` |

Every call of the gateway and every write is a step of its own, as the code wraps
none of them in a transaction. Messages come in any order and again until marked; a
consumer may die between any two steps. An event of a lost mandate may have lost its
method on the way (`Of("mandate.updated", Nothing)`), as the unverified event that
`webhook-processing.service.ts` rebuilds does.

### Migration

| Variable | Code |
| --- | --- |
| `source` | the monolith's data of the customer, one of `Source` |
| `customer`, `created` | the `customers` row with its methods and gateway assignment; ids handed out |
| `invoices`, `notes`, `config`, `subscriptions` | what the writers have written, each invoice with the row it stands for and who wrote it |
| `ledger` | how often the entries of each document stand in the books, reversals deducted; a document is an invoice or credit note with its customer and who wrote it |
| `job[a]` | the item a request or script is at, and the customer id it found |
| `removal[x]` | the statement a rollback is at, the documents it has read and the entries it has found |
| `overtaken` | history: customers whose documents were not those that the rollback had read |

A writer looks an item up and writes it in a later transaction; both are steps, so
requests, scripts and a rollback come between. A request stops at the first failure
and a script goes on. The rows of the monolith are records whose `status`, `deleted`,
`valid`, `amount` and `items` are what the mapping functions look at; the mapping of
each of the four writers is kept apart, since they differ. `exact` says that the
monolith's column has a status in the very spelling the validator's SQL looks for: the
mappings lower-case and trim, and let the `Failure` flag override; `Consistent` does not.

A rollback is one transaction, but at PostgreSQL's default isolation each of its
statements sees what others have committed by then. `BeginRollback` reads the customer and
its invoices, `ReverseEntries` the credit notes and the entries of both,
`CommitRollback` mirrors those entries and deletes everything that hangs on the
customer by then. It throws if the order of the deletions breaks a foreign key of a row
that is there (`Dangles`), or if rows came that it does not delete, having read none
(`LeftBehind`); `CommitAfterAnother` is the second of two rollbacks, which mirrors the
entries once more and finds nothing to delete. The deletions are one step: a row that
others commit among them is deleted as if it had been there before or, if its table's
turn is over, makes the deletion of `customers`, which goes last, throw
(`RollbackThrows`).

## Runs

| Run | Instance | Shows |
| --- | --- | --- |
| `collection` | 1 invoice, 2 attempts, 2 callers, 1 consumer, operator | safety, action properties, refinement of `Settlement` |
| `collection_live` | the same with 1 attempt | every call returns; a stored intent's payment is booked |
| `dunning` | 1 invoice, 2 attempts, a first caller, a runner, 2 methods, 1 consumer | shape of the retry chain, and that dunning implements `Collection` |
| `dunning_live` | the same without webhooks | every retry resolves |
| `billing` | 1 subscription created, paused, resumed, credited and rewritten beside the scheduler, with crashes | a period is billed once, credit is conserved |
| `billing_steady` | 1 subscription; credits, voids, past due, standalone drafts; fair, no faults | ledger and invoices agree, copied credit lines included, no period is skipped, the next draft comes |
| `cycles` | 6 customers, 2 employees, 3 days over 18 months, 2 dates of callers | every month is charged once, periods keep their day, discounts and bonuses run their months |
| `operations` | 1 key, 2 callers, 2 refunds, 1 reconciliation, 2 days | a key is paid once, refunds that stand are within the payment and can be traced, reports list what happened |
| `customer` | a card and a bank account, 1 HTTP request, 1 consumer, 6 messages | one default method, the gateway's default and name follow the rows' |
| `migration` | 9 kinds of customer, 2 requests, 1 script, 2 rollbacks, any two at once | no payment twice, the ledger follows the writers, success means complete, a plain migration validates |
| `first_retry` | dunning without webhooks | fails: retry 1 charges nothing |
| `rollback_fails` | one plain customer | fails: a complete migration cannot be rolled back |

The two violation runs each check something that the code's comments say;
`PROJECT.json` quotes them under `findings`. The section after the next lists what
else the code and its documents disagree about.

Bounds of collecting. Invoices meet only through shared callers, so one is enough for
what is said of single invoices; the theorems hold for any set. Two attempts are needed
for two charges of one invoice in flight and for a schedule with a middle and an
end. Two callers give every race of the scheduler, HTTP handlers and dunning on
one key; a third would repeat one of them. One consumer is the code's
configuration per instance (`SqsModule` sets no batch size, so a message is handled
after the one before it); `MCTwoConsumers.cfg` shows what a second instance does. No
counter is bounded: `booked`, `reversed` and `requests` are shown to stay at one.

Bounds of the billing cycle. `MaxRows` refuses requests once there are more invoices,
`MaxGranted` bounds the credit notes and `MaxPeriod` what may come due. Two rows
and the one in the making give a draft, its successor and a standalone invoice,
which is all that one scheduler step relates; starts 0 and 1 give a resumption
inside the first period, and its successor starts within the second. One
subscription per customer is the ordinary case; what two do to each other is
listed below. Each of the two runs restricts the requests to those under which
its properties hold, and both restrictions are part of what the run says: in
`billing_steady` no pause, payroll run or invoice due at once races with the
scheduler, and in `billing` only one scheduler runs.

Bounds of the calendar. `MaxCharges` (5) counts the charges between two activations,
`MaxDrafts` (2) the drafts open at once: the subscription's and one that lies about.
`Today` and `Given` are the days on which something happens and the dates callers
send, at the ends of months on both sides of two turns of the year, with a
February of 28 and one of 29 days; a caller's start, end and due date are any three of
`Given`, in any order. The charge days 10, 30 and 31 are of the two classes the code
tells apart, 30 and 31 those that short months cut differently. The theorems hold for
all dates, charge days and bounds.

Bounds of one-time charges, refunds and reconciliation. `MaxBills` (2) gives each of
two callers its invoice; `LastDay` (1) a day that is over and one that is not;
`MaxReports` (1) one report, which then stays while everything else goes on. `MaxBusy`
(2) is how many requests and handlers are under way at once: any two of them race,
three do not. `Price` is one cent, so two refunds of one charge exceed it. The one
payment is by card (`Card`), as a bank debit is not compared at all. The theorems are
about any numbers of these.

Bounds of the account. `MaxMessages` (3) is how many of the six messages reach a
consumer in a behaviour, any three, in any order; `MaxCustomers` (2) lets a customer be
created at the gateway again after a crash; `MaxInvoices` is one. `RequestsFail` is
FALSE and there is one HTTP request at a time: with either relaxed
the default method may be one thing in the rows and another at the gateway, since
the code has neither lock nor transaction there, and nothing in the repository
claims otherwise.

Bounds of the migration. `MaxCustomers` (2) allows for a rollback and a second
migration; `MaxBusy` (2) lets any two requests, scripts and rollbacks overlap. The nine
members of `Source` have between them every status the mapping
functions know and one they do not, deleted rows and rows that fail validation,
negative and zero amounts, totals that differ from their items, spellings of the
monolith's that the validator does not count, invoices without line items, and customers
without methods, with cheques, without a rate and without a subscription.

Symmetry of interchangeable requests is used in `collection`, `operations` and
`migration`, where no liveness is checked. Deadlock is not checked where the service
may simply come to rest.

## Fairness

A process keeps running the promise chain it is in and the circuit breaker ends
each gateway call, so a worker's progress is weakly fair. The queue redelivers a
message until its handler returns, so receiving and each handler step are strongly
fair against dropped deliveries. Nothing is assumed of the gateway, of callers or of
operators. In `Dunning` a row whose execution throws stays scheduled, so
`EveryRetryResolves` assumes that faults of the runner end, which is stated as
part of `DunningFairness`. In `BillingCycle` a generation that has begun goes on
(`FairSpec`); that one begins, that customers ask for anything or that payments
arrive is not assumed. The other modules state safety only.

## Disagreements between the code and what is said of it

Besides the findings, these configurations each check one property that a comment,
table or test of the repository states, and TLC refutes it. They are kept for
whoever changes the code.

| Configuration | Property | Where the code differs |
| --- | --- | --- |
| `MCVoid.cfg` (MCCollection) | `VoidIsFinal`: `invoice-state-machine.ts:9` has no successor of void | the settling transaction (`charges.service.ts:191`) sets paid on a status read before the gateway call |
| `MCLostWebhook.cfg` (MCCollection) | `WebhookCompletes`: `charges.service.ts:286`, "webhook will complete" | a webhook that comes before the intent id is stored finds no charge and is marked processed (`webhook-processing.service.ts:238`) |
| `MCFailedSend.cfg` (MCCollection) | `ChargeMatchesBooks`: `charges.service.ts:173`, "update charge, invoice, ledger in one transaction" | a publish error afterwards (line 248) reaches the catch block, which marks the charge failed |
| `MCTwoConsumers.cfg` (MCCollection) | `BookedOnce`: README line 590, "All event processing is idempotent" | two instances both pass the processed check before either marks (`webhook-processing.service.ts:106`) |
| `MCRewritten.cfg` (MCBilling) | `ClosedIsImmutable`: `invoices.service.ts:1198`, "finalized, paid, and voided invoices are immutable from this path" | the payroll update looks for an open draft and rewrites it by its id later (line 1285), though it has been finalized since |
| `MCCopiedCredit.cfg` (MCBilling) | `CreditShownOnce`: `subscriptions.service.ts:629-631`, "last cycle's recurring components" | the copy leaves out the surcharge only (line 675): the line of applied credit is taken over, and reduces the next invoice too |
| `MCRepeatedExtras.cfg` (MCCycles) | `StaleDraftsArePlain`: `subscriptions.service.ts:630`, "zeroed one-time adjustments" | only lines of employees are stripped (line 677); the single line over the subscription's amount is copied with the bonus in it |
| `MCStuck.cfg` (MCBilling) | `StandingDraft`: `invoices.service.ts:263`, "the business requires a standing draft" | a failed publish skips payment and advance (line 237); later runs skip the subscription |
| `MCOnboarding.cfg` (MCAccount) | `OnboardingFinalized`: `one-time-onboarding-charges.e2e-spec.ts:323` | `createOnboardingCharge` leaves the type at the column's default, recurring, which `findPendingOnboarding` does not select |
| `MCSurchargeLocked.cfg` (MCAccount) | `SurchargeLocked`: the comment at `invoices.service.ts:1508` | the recalculation writes the draft it read, though it has been finalized since |
| `MCPendingRefund.cfg` (MCOperations) | `SucceededWasGivenBack`: `refunds.service.ts:145`, "SUCCESS: transaction { update refund to succeeded + ledger entry }" | the status in the gateway's answer is not looked at (line 138), and no webhook of a refund is handled: one that is pending, or fails, is booked |
| `MCReportIds.cfg` (MCOperations) | `AgreementIsBalanced`: `reconciliation.service.ts:243`, "Build maps keyed by PaymentIntent ID" | the gateway's side is keyed by the source of the balance transaction, a charge's id (`stripe.types.ts:201`): no payment finds its settlement, and a day that agrees is reported with two discrepancies per card payment |
| `MCOvertaken.cfg` (MCMigration) | `RollbackClearsBooks`: `customer-migration-cleanup.service.ts:64`, "the only `referenceId`s that legitimately belong to this customer" | a credit note committed between the reading of the ids and the deletion is deleted with its customer, and its entry stays |
| `MCTwoRollbacks.cfg` (MCMigration) | the same | two rollbacks read the same entries and both mirror them |
| `MCSpelling.cfg` (MCMigration) | `SpellingValidates`: `charges-migration.service.spec.ts:248`, "PAID" is paid | the validator counts what the column has, `IN ('paid','succeeded')` (`migration-validation.service.ts:260`, `:286`): a customer migrated in full is reported with a discrepancy |

Behaviours the models show about which the repository claims nothing either way:

* billing: a pause voids an invoice finalized since it was read,
  without a reversal (line 552), and voids the customer's oldest draft of whatever
  subscription or type (`invoices.repository.ts:268`), before the concurrency check
  on the subscription can fail (`subscriptions.service.ts:424`); an `invoice.create`
  due at once and the scheduler's loop over standalone drafts finalize the same
  invoice; two finalizations of a customer spend one credit
  (`credits.service.ts:176`); a draft of total zero, or a negative balance, makes
  finalization throw in every run, since the ledger refuses the amount;
  `subscription.create` and the scheduler each insert a draft for one period; a pause
  and resumption during an advance are overwritten by it (`subscriptions.service.ts:760`);
* calendar: a migrated draft covers the 1st to the 1st and is billed only when its
  subscription's period is exactly that (`subscription.writer.ts:334`,
  `invoices.repository.ts:114`); a resumption over HTTP is charged at the end of its
  period, for the amount resolved before the pause with that month's bonus, and
  the charge after it may fall in the same month (`subscriptions.service.ts:434`); a
  migrated subscription of charge day 31 is due on May 1 and again on May 31; the
  migration's dates do not read `PAYROLL_ADVANCE_DAYS`;
* one-time charges and refunds: concurrent calls with one key leave a finalized
  invoice that nothing pays; bank debits are not reconciled
  (`reconciliation.service.ts:229`); the Adyen adapter sends refunds without an idempotency key and lists no
  settlements to reconcile with;
* account: two first methods attached at once both become the default; a mandate
  event whose signature cannot be verified is rebuilt without its method and changes
  nothing (`webhook-processing.service.ts:569`); a method whose mandate fell
  away keeps its default flag, and no other takes over;
* migration: a customer that is there counts as migrated however much of it is
  (`customer-migration.orchestrator.service.ts:70`); overlapping requests write credit
  notes, subscriptions and rows without a charge twice; entries of the scripts
  outlive a rollback; a deleted payroll is void to the writer and paid to the script;
* dunning: a crash before the escalation (`dunning.service.ts:271`) loses it; two
  overlapping runs execute a row twice (`scheduler-events.consumer.ts:184`).

## Proofs

Every safety invariant and action property that a passing run checks is also a
theorem, for all values of the constants. The assumptions are those declared with the
constants (`CollectionAssumption` and its like: what is a set of numbers, that a
special value is no key, that a bound is a natural number) and, where a statement
names them, those below. TLC evaluates the declared ones on every run. None bounds a
set: the theorems hold for infinitely many invoices and callers too.

| Theorems | Further assumption | Why the code needs it |
| --- | --- | --- |
| `BookedAtMostOnce`, `CollectionKeepsPromise` | one consumer (`SingleConsumer`) | the processed check and its mark are two transactions |
| `RowsFormAChain`, `EscalatedLast` | one runner | rows are not claimed |
| `PeriodBilledOnce`, `RecurringEnteredOnce` | one runner (`SingleRunner`) | a generation reads its rows before it visits them |
| `LedgerAgrees`, `PeriodsLeftClosed` | `Steady`: one runner, no request that touches drafts | writes by id do not test the status they replace |
| `MonthsAreCharged`, `PeriodsAreInStep`, `BenefitsAreCounted` | `AdvanceDays = 28..31` | the migration counts on these days whatever is configured |
| `NamesAgree` | one consumer | two renames in a row of one customer overtake one another |
| `OneDefault`, `GatewayFollows` | one request at a time, not failing between its steps | neither lock nor transaction |

Each restriction is one the runs make as well. With a second consumer TLC finds `BookedOnce`
violated (`MCTwoConsumers.cfg`) and, given a second rename among the messages,
`NamesAgreeWhenQuiet`; with a second runner `OneChain`, `EscalatedAfterLastRetry`, `BilledOnce`,
`LedgerMatchesInvoice` and `NoPeriodSkipped`; with a second request
`OneActiveDefault` and `GatewayFollowsDefault`. The calendar's assumption is about a setting
instead.

A property is seldom inductive as it stands. Each proof is built in layers, every one
preserved by all steps given those below it; the reader finds them at the head of the
module, with a proof per layer that has one step per action.

**Collection.** `TypeCorrect`, `SingleRequest`, `MoneyFirst`, `OnlyOwnCallFails`,
`StatusFollowsLedger`, `LedgerBeforeEvents`, `ReversedAtMostOnce`, `BookedAtMostOnce` and
`CollectionKeepsPromise`, the refinement of `Settlement`.

1. `TypeInv`: types, and that a worker past the insert has a charge row.
2. `OwnInv`: at most one worker owns a key (the one whose insert succeeded), a key
   whose owner has not yet called was never requested, so `requests` stays at one.
3. `MoneyInv`: a worker or consumer about to act on a capture has a captured
   intent; with it `booked` and `succeeded` imply `captured`.
4. `BooksInv`: whoever is about to announce has booked, status follows ledger, an
   open invoice has no reversal.
5. `OnceInv` (one consumer): an owner that can still settle has not stored the
   intent, a consumer that may settle found it stored, and the key of a consumer
   about to settle is unbooked. So the two never settle one key, and a payment is
   booked once.

Without the layers the properties are not inductive: `PaidExactlyWhenBooked`, for
one, needs to know that an invoice reversed by `VoidInvoice` had no booked payment,
and `BookedOnce` that no consumer holds a stale reading of a settled charge.

**Dunning.** `DunningKeepsCollection` shows that `DunningSpec` implements `Spec`: each step of
a runner is a step of a caller of `executePaymentForInvoice`, or leaves what
`Collection` speaks of alone. It carries every theorem about `Collection` over, and the
other proofs use them as facts.

1. `DunningInv`: types (`DunningTypes`: no row has a number beyond the schedule), and that a
   handler in a call is in the call of its own row.
2. `RecoveredInv`: a charge or an answer that says succeeded is booked, and so is the
   attempt of a row about to be recorded as recovered. `RecoveredIsBooked` holds for any
   number of runners, although two may execute one row.
3. `ChainInv` (one runner): the first row of an invoice is inserted by the owner of its
   first charge, which nobody can own again (`FirstChargeFirst`); the row in hand is
   scheduled until something is recorded; once a handler escalates, no row of the
   invoice is. `OneChain` alone says nothing of what a handler is about to insert.

**BillingCycle.** `TypesHold`; `CreditIsConserved`, for any number of runners and faults,
since the decrement of the balance is relative and needs none of what was read before.

1. `TypeInv`: types, and that rows held by tasks are there.
2. `BillingInv` (one runner): handlers finalize standalone invoices only, and of the
   period that the runner is about to bill no invoice is billed. That is what it
   read before; it stays true since nobody else bills a recurring invoice. A draft
   has no entry in the ledger (`DraftsUnbooked`).
3. `SteadyInv`: what a task and a batch read of a row and a period is what they are
   when it writes. The batch may lag behind the subscriptions, and the test of the
   period filters out what lags; a draft has no receivable, and its total is the
   sum of its lines, a copied line of credit among them.

**Cycles.** `CyclesTypes`, `MonthsAreCharged`, `PeriodsAreInStep` and `BenefitsAreCounted`, for all
dates, customers, employees and numbers of charges. The lemmas about the calendar say
how clamping, adding months and comparing dates go together.

1. `TypeInv`: types; a subscription in use has its dates; nothing is charged before the
   first activation.
2. `CalendarInv`: the due date of the current period follows the last charged one's
   (`Linked`), and the current period is in step with the customer's charge day
   (`Stepping`). The properties speak of what has been charged and say nothing of the
   period that is next, so neither is inductive alone.
3. `BenefitInv`: along a subscription that follows its charge day the months charged
   follow one another and the one open draft is that of the current period. A discount
   then covers an interval of the charges (`DiscountedMonths`: a cycle day of at
   most 27 is not clamped), whose length is counted, and a bonus one of them.

Of a subscription migrated with its caller's dates `MonthsAreCharged` speaks from the
charge after those dates on, like one that was given its first start; the other two do
not speak of it, as nothing in the code compares the dates with the charge day or with
each other. A charge day from 29 on that is not among `AdvanceDays` would move the start of its
periods with every short month; hence the assumption.

**OneTimeCharges, Refunds and Reconciliation.** `OneTimeChargesPaidOnce` for the charges alone,
and for the whole of `Reconciliation`'s specification `OperationsPayOnce`,
`RefundsLeaveATrace`, `RefundsStayWithin`, `OperationsTypes` and `ReportsTrue`.

1. `CallInv`: types, and that a caller under way has a key;
2. `RowInv`: the invoice that a charge row, or a caller about to insert one, names is
   there and is of its key;
3. `OwnInv`: the caller whose insert succeeded is the only one between the row and the
   answer of its key, and until it has taken the answer the row does not name
   the intent;
4. `BookInv`: one payment of a key; a payment's row names its intent and its invoice is
   paid; a paid invoice is the one its row names and has a payment; a charge that
   succeeded has one;
5. `RefundInv`: a request under way found a payment in the ledger (which keeps every entry,
   `PaymentsGrow`), one past the insert has a row of its charge, and one past
   `StartProcessing` a row that says so;
6. `MoneyInv`: a refund row has one request that may still change it; the row, what the
   gateway accepted and the books say what that request is about to make them; and
   what stands at the gateway is within the price, whichever refunds it fails later;
7. `DayInv`: the gateway decides on an intent once, and what a run has listed of a day
   that was over is still what happened on it. The payments and settlements a report
   totals are finitely many, so the totals are numbers.

`OnePaidBillPerKey` is not inductive without layer 3: the webhook settles a charge
only once the row names the intent, so that it and the owner do not both
book. `RefundsAreTraceable` needs layer 4 for the payment behind a charge that
succeeded, which a refund reads long before it moves money. `RefundsWithinPayment` is
not kept by the code's own test, which adds up what it read before: it is the gateway's
limit that layer 6 carries to the rows and the books.

**Account.** `AccountTypes`, `NamesAgree`, `OneDefault` and `GatewayFollows`.

1. `TypeInv`: types, with what the fields of a job mean at each of its steps;
2. `NamesInv` (one consumer): the two names differ only while a rename is delivered and
   not marked, and whoever is between the two writes has renamed the gateway's;
3. `DefaultsInv` (one request): at each step of the request, which rows can be active
   defaults and which of them the gateway agrees with. A row is of a method that is
   at the gateway or gone from it for good, so that a lost mandate, which may come
   at any step, only takes defaults away.

**Migration.** `MigrationTypes`, `RowChargedOnce`, `WritersLedger`, `SuccessIsComplete` and
`PlainIsConsistent`, for any overlap of requests, scripts, reruns and rollbacks. A lemma
says which kinds of step there are (`EveryStep`), and each layer is shown once per kind.

1. `TypeInv`: types, that an actor about to write an item has a meaning for it and has
   not written it, so that no document is written twice for one customer, and what a
   rollback has read (`RemovalsInv`);
2. `OneCharge`: two charged invoices of a row are one; the unique index on the key decides;
3. `LedgerInv`: `LedgerFollowsWriters`, that the customer who is there has not been
   overtaken, and that what a rollback has read of it is still held and was found in the
   books once (`ReadIsHeld`): the property alone does not say what a rollback is about
   to mirror;
4. `CompleteInv`: what a request has behind it is done, for as long as its customer is there;
   the invoice of an upcoming payroll is a draft whoever wrote it, and the subscription
   takes all of them along;
5. `FitsInv`: an invoice says what its writer's mapping made of its row. `validateCustomer`
   compares that with the monolith's column, so `PlainIsConsistent` needs the premise
   that what is paid is spelt so.

**Sums.** `SumTheorems`: `SumFunctionOnSet` of the community modules folds a set in the
order of `CHOOSE`. That a sum exists, is independent of the order and grows by one
summand with one element (`SumAdd`) is shown by looking at a smallest set for which it
fails, with the well-foundedness of numbers: the theorems on induction take an operator
as parameter, which the provers cannot instantiate.

Only model-checked: the liveness properties `EveryCallEnds`, `StoredIntentSettles`,
`EveryRetryResolves` and `StandingDraft`, as liveness under fairness and ENABLED are out of
the prover's reach; and the two properties that violation runs refute.

## Not modelled, and the plan

Not modelled, because it decides nothing that another part relies on: dry runs and
the migration's logs, the `webhook_events` log (best effort, never read by the
handlers), the wording of events, reports, feature flags, health probes, validation
of configuration and of message envelopes, request guards. Because it is a library:
the circuit breaker's counters; its effect, calls that are refused or given up, is
in every module that calls the gateway. Because it wraps services that are modelled,
one call after the other: the admin endpoints; two of them overwrite a status
without a test (`admin.service.ts:301`, `:339`). Left out by abstraction: amounts in
`Collection` and `Dunning` (a charge is for the total read when it is made), sums,
rounding and perpetual discounts in `Cycles`, the amount of a surcharge, currencies,
the order in which fallback methods are tried, micro-deposits, and what sets Adyen
apart from Stripe beyond the answers its adapter gives.

Done: all modules above, and a proof of every safety invariant and every action property
that the passing runs check. What is left of the plan:

1. `Dunning`: `OneChain` for several runners does not hold, as rows are not claimed;
   what does hold of the rows then (how many may stand for one attempt) has no
   property yet;
2. `BillingCycle`: what a pause beside the scheduler leaves true of the ledger, between
   the two extremes that `billing` and `billing_steady` check;
3. the refinement of `BillingCycle`'s `Pay` by `Collection`, which now rests on
   reading the two modules side by side.
