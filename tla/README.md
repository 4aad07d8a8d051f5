# NombaSub, formally

TLA+ modules, TLC configurations and TLAPS proofs for NombaSub, the Go
subscription billing service in this repository. Paths below are relative to
the repository's `internal/` unless they start with `cmd/` or `README.md`.

- [The system](#the-system): components, state, operations, hard behaviours
- [Plan](#plan): the order of the work, what could come next
- [Modules](#modules): how each one corresponds to the code
- [Runs](#runs): what each check shows, its bounds and its fairness
- [Proofs](#proofs): what is proved, from what, along which argument
- [Where code and documents differ](#where-code-and-documents-differ)
- [Not modelled](#not-modelled)

`tlc -config X.cfg M.tla` runs a check, `tlapm M.tla` checks the proofs of a
module. `PROJECT.json` lists components, runs, mutants, the source lines of
every definition, hazards and theorems.

## The system

One binary, `cmd/api`, runs the HTTP API, a cron scheduler and two queue
consumers. Several processes may run against one PostgreSQL database and one
RabbitMQ broker, and **every process runs every cron job**: nothing elects a
leader, skips a run that overlaps the last one, or locks rows between runs.
`cmd/mcp` is a stateless process that turns tool calls into API calls.

Two traits of the code shape everything else.

1. `Repository.Update` stores the **whole row** from the caller's copy
   (`repositories/repository.go:364-377`). A copy read before somebody else's
   write undoes that write when it is stored.
2. Cron jobs and most API calls run **outside a transaction**: each read, each
   write and each call of the provider is a step of its own, and the process
   may stop between any two. Only the webhook handlers, cancelation, disabling
   a source, refunds and the two halves of a payout are transactions.

| Component | State it keeps | Operations | Correct when |
| --- | --- | --- | --- |
| Invoice jobs and service (`services/invoice.go`, `cron/invoice_processing.go`) | invoices; attempts and plan of the next one; payment intents, initiations, settlements of charges | `CreateUpcomingInvoices`, `ProcessDueInvoices` (every 3 h), `RetryInvoicePayment`, `GenerateCheckoutLink`, `SendPaymentReminder` | a cycle is collected once, retries are a day apart and stop after three, a paid invoice is backed by money and moves the cycle on, no due cycle is forgotten |
| Provider webhooks (`services/webhook.go`) | the same rows, in one transaction per event | `payment_success`, `payment_failed`; refunds and payouts are accepted and ignored | repeated, late or reordered events apply a payment once and whole |
| Subscription service (`services/subscription.go`) | subscriptions, their first invoice | create, checkout link, cancel, suspend, resume or delete the mandate | a canceled subscription stays canceled, it keeps the terms of its version, it has one first invoice |
| Customer portal (`services/portal.go`) | payment sources, portal sessions | sign in, disable or switch a payment method, retry, change the profile | a session gives no more guesses and sign-ins than its limits, no source in use comes back or disappears |
| Settlement payouts (`services/settlement.go`, weekdays 09:00) | settlements, settlement payouts | `ProcessDueSettlements`, `processBatch` | a merchant is paid each payment once, in time |
| Transactions and refunds (`services/transaction.go`) | initiations, refunds | start a checkout or a mandate, `RefundPaymentOrInvoice` | money goes to the customer or to the merchant, not to both |
| Tenant webhooks (`queue/send-tenant-webhook.go`, `services/webhook_delivery.go`) | deliveries, attempts | `EnqueueTenantWebhook`, its handler, `RetryWebhookDelivery` | a persisted event is posted, a limited number of times, and its status is true |
| Message queue (`queue/rabbitmq.go`, `consumer.go`, `publisher.go`) | the connection; broker queues | publish, consume, ack, requeue, reconnect | no message is lost, and what is unacknowledged comes back |
| Mandate activation (`services/direct_debit_*.go`, polled every minute) | initiations, back-off counters | `PollPendingMandates`, `processPendingMandate` | one mandate makes one subscription; polling backs off and ends after 30 days |
| Subscription lifecycle (`services/subscription_lifecycle.go`) | trial and card flags | trial ending, trial ended, card expiring | each notice goes out once, billing starts after the trial and does start |
| Plans (`services/plan.go`) | plans, versions | create, update, latest version | the newest version says what the plan says, versions have their own numbers |
| Email (`queue/send-email.go`, `services/email_notifications.go`) | email deliveries | enqueue by idempotency key, send | one mail per key, and it is sent |
| Merchants (`services/auth.go`, `middleware/authenticate.go`) | tenant rows | sign up, log in and out, rotate keys and secrets, settings | what a merchant was last told is what is in force |
| Customers (`services/customer.go`) | customers | create, update, get or create, remind | one customer per email |
| Dashboard and metrics (`services/dashboard_analytics.go`, `mcp/tools/analytics.go`) | none | `GetAnalytics`, the metrics of the MCP tools | figures that break one total down add up to it |
| Lists (`repositories/repository.go`) | none | `FindManyPaginated` | walking the pages shows every row |
| Provider client (`providers/nomba/`) | the access token under `tokenMu` | issue a token, send, refresh once after 401 | one refresh of a call suffices, no use of an expired token |
| Rate limiters (`middleware/ratelimit.go`, `mcp/ratelimit.go`) | token buckets under a mutex, janitor | `allow` | never more than the limit, a forgotten bucket gives nothing away |
| The rest: handlers, requests, responses, router, MCP tools other than metrics, configuration, encryption, mail transport | none | one service call, a conversion, or I/O | no protocol between actors |

How they interact: the invoice service and the webhooks write the same
invoice, subscription and payment rows and never call each other; API calls and
the trial jobs write the same subscription; a checkout link goes through the
customer and comes back as a webhook; successful payments leave settlements,
which only the payout job and refunds read; every service enqueues tenant
webhooks and emails, some inside their own transaction, and the consumers read
those rows through another connection; the report reads all of these tables
one after the other. Cron, HTTP and the queue are the only callbacks.

The hard behaviours, listed line by line as `hazards` in `PROJECT.json`: stale
whole-row writes; a crash or a lost answer after money moved; two replicas or
two overlapping runs of one job; repeated, late and reordered webhooks; limits
spread over several functions (attempts, plans, status); due cycles that no
filter finds; lookups and writes that are meant to keep something unique and
have no index to do so; messages published before a commit or lost after one;
requeues that meet a retry; a refund that races a payout; queries of one answer
that see different moments.

## Plan

In order of importance; every step is done.

1. **Billing core**: `BillingData`, `InvoiceService`, `PaymentWebhook`,
   `SubscriptionApi`, composed by `Billing`. It is where money, retries and
   status meet, and where all stale writes land.
2. **What billing promises about money**: the abstract `PaymentLedger`, which
   `Billing` implements; proofs in `BillingProofs` and `BillingLedger`.
3. **Tenant webhooks**: `MessageQueue`, `WebhookDelivery`; proofs in
   `DeliveryProofs`.
4. **Payouts and refunds**: `Settlement`; proofs in `SettlementProofs`.
5. **Enrollment**: checkouts, mandates, the poll; proofs in `EnrollmentProofs`.
6. **Catalog**: plans with versions, subscriptions with trials, cards that
   expire, as further readers and writers of whole rows; proofs in
   `CatalogProofs`.
7. **Accounts**: mails on `MessageQueue`, portal sign-in, customers, merchants;
   proofs in `AccountsProofs`.
8. **Edges**: reports, lists, rate limiters and the provider's token; proofs
   about all four in `EdgesProofs`.

What could come next: a bound of the attempts under several replicas, as
`NothingTwice` has it, in stale stores; trials inside `Billing`, so that the trial
jobs meet the billing job.

## Modules

    BillingData -- InvoiceService ---+
         +-------- PaymentWebhook ---+-- Billing -- MCBilling
         +-------- SubscriptionApi --+      |  Ledger == INSTANCE PaymentLedger
                                            +-- BillingProofs -- BillingLedger
    MessageQueue --+-- WebhookDelivery -- MCWebhookDelivery, DeliveryProofs
                   +-- EmailDelivery -- PortalAccess --+
                                     CustomerService --+-- Accounts -- MCAccounts, AccountsProofs
                                     MerchantAccount --+
    Settlement -- MCSettlement, SettlementProofs
    Enrollment -- MCEnrollment, EnrollmentProofs
    PlanCatalog -- SubscriptionLifecycle -- CardExpiry -- Catalog -- MCCatalog,
                                                      CatalogProofs
    Dashboard -- Analytics --+
                   Listing --+-- Edges -- MCEdges, EdgesProofs
               RateLimiter --+
            ProviderClient --+

The `MC` modules only name constants for TLC.

### Billing

**BillingData** declares the rows: `sub` (status, cycle, source), `inv` (status,
cycle it is due for, attempts, next attempt, checkout link), `pay` (intent,
initiation and settlement rows of one payment reference), `source` (card and
mandate of the customer); what only the provider knows (`offered`, `taken`,
`refused`); and for every worker its place in the code and its copies of rows
(`wk`). A billing date is kept as the number of its cycle, `Start(c)` is its
time. `FindRaw` has no order, so a lookup that matches several rows returns any.

**InvoiceService** has one action per database or provider call of
`services/invoice.go`, in the order of the code. A worker's `pc` names the next
call: `ensure`/`create` (`ensureInvoice`), `open`, `attach`, `source`
(`processDueSubscription`), `verify`, `intent`, `count`, `initiate`, `charge`,
`accept`, `complete`, `settle`, `reject`, `failInit` (`chargeCard`,
`chargeDirectDebit`: the two differ in the order of `count` and `initiate`, and a
refused debit fails its intent and its initiation in two updates),
`failSoft`/`failHard`, `pastDue`, `pause` (`failInvoice`), `paid`, `advance`
(`markInvoicePaid`), `order` to `saveLink` (`createCheckout`), `retry`, `reopen`,
`unpause`, `link`, `openLink`, `refund`, `refunded` (the API calls; a refund ends in
one transaction, which stores the invoice as it was read). `Abort` is a crash, or an error that makes the
function return; `IgnoredError` an error the code drops; `ChargeAnswerLost` a
charge that went through without the caller learning so.

**PaymentWebhook** has one atomic action per transaction: the handlers read with
`SELECT ... FOR UPDATE`. An event can be handled whenever the provider has seen
its cause, any number of times and in any order, which covers loss, repetition
and delay. `Pay` and `Decline` are the customer on the hosted checkout page.

**SubscriptionApi** has the calls that read the subscription without a lock and
store their copy later, as a read and a write each. Disabling a source reads it
first and finds the subscription that uses it in the transaction
(`disableLinked`, or `disableOnly` if none does).

**Billing** composes them with the clock. `Origins` chooses how the subscription
began: `"created"` by `CreateSubscription` (status `attention`, an open invoice)
or `"running"`; `Events` chooses which calls and events happen in a run.

**PaymentLedger** is the abstract specification: money is taken, then credited
to the subscription at most once, then settled at most once, and the
subscription is never further than its credits. `Billing!Ledger` maps it:
`credits` is how often a payment advanced the cycle, `settlements` the
settlement rows of the payment, `cycle` the subscription's.

### Queues, payouts, enrollment

**MessageQueue** is one durable queue with at most one message in the hands of
each consumer. Losing the connection requeues that message while the handler
goes on, and `reconnectLoop` opens a channel that nobody consumes
(`Disconnect`) until the process restarts (`Reattach`).

**WebhookDelivery** adds the delivery rows: `Create`, `PublishJob`, `Commit` for
`EnqueueTenantWebhook` inside or outside a transaction; `Load`, `GiveUp`,
`Post`, `Record`, `Save`, `Finish` for the handler, with its copy of the row;
`RetryRead`, `RetrySave`, `RetryPublish` for the retry call. An endpoint that
processed an event may still answer with an error. `Answers` says what the
endpoint may answer; `"odd"` is neither a success nor a failure.

**Settlement** has `LoadDue`, `CreatePayout`, `Transfer`, `StoreResult` for the
payout job of each replica and `RefundRead`, `RefundAsk`, `RefundStore` for the
refund call, over a clock with days, weekends and midnights: the due date is
compared with the midnight before the job (`settlement.go:133`), refunds are
allowed for twelve hours (`invoice.go:623-628`) after the invoice was paid last.
Payment, invoice and settlement are rows of their own. Several payments may be of one
invoice: a checkout, which an event of the provider brings, and what the job
charged or debited meanwhile. `RefundRead` finds *any* settlement of the invoice
(`transaction.go:517`, no order) and `RefundStore` stores that one. Only `Checkouts` can
be refunded: what the job collected has no transaction id of the provider, and its
refund stops before the provider is asked (`transaction.go:541`).

**Enrollment** has the merchant's two calls (`Check`, `PlaceOrder`,
`CreateMandate`, `StoreMandate`), the payment event of an order
(`PaymentSuccess`), and the poll: `PollStart` loads copies of the rows, `Expire`
and `Book` store them back, `AskStatus` asks the bank, `FailDeleted` and
`Activate` act on the answer. `stale` counts the actions on a row that has
changed since it was loaded: zero as long as runs of the poll do not overlap.
`asked` counts the questions about a mandate, at the moment each is put, and `waits`
adds up what the comment of the back-off promises to wait after them.
`ActivateNothing` is the activation that finds no customer or plan version: it
stores nothing and reports no error. What a run does with a row depends only on its copy and on when the run began,
so `PollStart` already drops the rows it will skip.

### Catalog

**PlanCatalog** has `CreatePlan` and `UpdatePlan`: the plan is read before the
transaction, the transaction that writes it locks the row and numbers the new
version after the last one, and its error is dropped while the caller is
answered the changed plan. GORM's `Updates` skips zero fields, so a trial of
zero is not stored.

**SubscriptionLifecycle** has the calls that create a subscription from the
latest version, give it its first invoice, make a checkout link and cancel it,
the payments, and the trial jobs of every process, each read and each
store a step of its own. A payment makes a subscription active whatever it was,
canceled ones too (`webhook.go:223`), and a job goes on with the next row when the update of one
fails. `stale[s]` counts the stores of a copy that was out of date.

**CardExpiry** has the row of a stored card: the notice job, which loads its rows and
then looks at each copy and the clock (`CheckExpiring`), the reminder, disabling the source, and the card update of a webhook, the only one that locks
the row. `newest` is the last card the provider stored, `disabled` whether the
customer disabled it since.

**Catalog** chooses a *surface* at the start: plans, trials or cards. The
surfaces share no row, so a scenario that exercises one of them shows all their
interleavings without multiplying them by each other; so do `Accounts` and `Edges`.

### Accounts

**EmailDelivery** has `EnqueueEmail` (look for the key, create the row, publish)
and `SendEmailHandler` (load, send, store the whole copy, acknowledge), with
requeues without limit. A key is a queue job.

**PortalAccess** has `InitiateSession`, which mails a code under the key of the
session, and `VerifySession`, which reads the newest session, compares the code,
and stores the copy with one more attempt or with a token.

**CustomerService** has the four calls that look for a customer with an email
and write a customer later. Emails are compared with `ILIKE`, so a stored
email may match another as a pattern: `Matches` is a constant.

**MerchantAccount** keeps, for each tenant, the value of every credential and
setting; a call reads the row, edits its copy, stores it and answers. `told` is,
field by field, what the merchant last chose or was given: a call changes in it what
the call is about (`Tells`) and in the row whatever its copy says (`Edited`).
`late` are the fields told since a call read the row, `disturbed` those over which such
a call stored its copy; `void` are the secrets answered and not stored, `rivals` the
sign-ups that overlapped at the account's first tenant.

### Edges

**Dashboard** has the tables as sequences of rows and a report that reads one
after the other, in the order of `GetAnalytics`, while `MaxMeanwhile` changes
happen. These are what billing, webhooks and calls do to the rows the report reads:
drafts and open invoices, the job's intent, outcome and paid invoice as separate
statements, a checkout that pays whatever is unpaid (a failed or refunded invoice, or one
whose debit is under way) and revives a subscription that keeps its time of cancellation,
the payment of a trial, which has no invoice, failures, refunds, cancellations, and
whole-row stores of what a handler read before. `StoreInvoice` and `StoreSubscription` choose
what was read freely, so they allow more stale stores than the code has.
**Analytics** is the arithmetic on what was read: revenue, subscription,
payment and plan figures, the daily trend, top customers, insights, the totals of the
portal and of the customer page, and the metrics the MCP tools derive, each by the
code's rounding. Its properties compare figures that are computed along different paths.

**Listing** has a client that walks the pages of a list while rows change;
counting and reading are two queries. A row that matches the filter may be created at
the head of the list, an older one may enter it anywhere (an open invoice is
paid while the paid ones are listed), and any row may leave it and come back.

**RateLimiter** has one action per branch of `allow`, the janitor and a restart.
Tokens are counted in parts of a token, so that a refill is an integer;
`StartCounting` chooses the moment from which requests are counted.

**ProviderClient** has the calls that share one token: `TakeToken` under the
mutex, `Send`, and after a 401 one `refresh` and a second `Send`. An answer whose
expiry cannot be parsed leaves the new token with the old expiry
(`auth.go:59-65`). `overtaken` says that a token was revoked since the call refreshed it.

## Runs

All of them finish within five minutes on two cores. Deadlock checking is off in
every configuration because clock, references, calls and faults are bounded: a
run really ends when they are used up.

| Run | Question | Bounds |
| --- | --- | --- |
| `billing_schedule` | One replica of each job and no interference: `ChargesAsPlanned` (a cycle is collected once, charges are a delay apart), `ClosedInvoices` (failed after three attempts and paused, or paid and advanced), and `DueIsResolved` under fairness | 4 days, cycles of 3, up to 3 invoices and 9 charges: a full cycle of retries, a second cycle and its upcoming invoice |
| `billing_retries` | A mandate is debited while one call retries the invoice, suspends or deletes the mandate, cancels, switches or disables the source: `AttemptsBounded` | 7 debits: one more than the three planned and the three that the call can add, so that the property and not the bound stops them; 1 call at any moment of the job |
| `billing_overlap` | Both jobs overlap one call of any kind, every webhook and one abort, for a card and for a mandate: `TypeOK`, `MoneyConserved`, `CheckoutAtomic`, `PaidBacked`, `LedgerKept` (the refinement) | 2 invoices, 2 payments, both jobs (a payment link opens a draft of the upcoming job), the clock stands still: the interleavings are those of one run of the jobs; every call and event happens somewhere |
| `webhook_delivery` | Two consumers and a retry call share a delivery: `TypeOK`, `DeliveredReceived`, `AttemptsLogged`, `NotForgotten`, `EventuallyResolved` | 1 delivery (rows are independent), 1 retry, 1 fault anywhere |
| `settlement` | Two replicas pay out while two calls refund: `TypeOK`, `PaidOutBounded`, `CompletedBacked`, `MoneyOnce`, `PaidInTime` | 3 payments of 2 merchants: a checkout alone on its invoice, and a checkout and a debit of one invoice, whose settlements are one batch; collected in the first day, Thursday to Wednesday in ticks of six hours, 1 fault: a weekend, a failed day and the run that makes up for it |
| `enrollment` | Two overlapping polls and a mandate that may be approved or deleted at any time, beside an order: `TypeOK`, `ActivatedOnce`, `OutcomeBacked`, `PollSpacing`, `EveryMandateEnds` | 1 mandate (each row is handled alone), 1 order, 2 runs, 1 fault; a back-off scaled to three levels of 0, 1 and 2 ticks within an age of 3 |
| `accounts` | Overlapping calls about one row, each storing what it read: `TypeOK`, `SessionsHold` (guesses and tokens of a portal session), `EmailsUnique`, `AnswersHold` (what a merchant was told), and mails: `MailsBounded`, `MailDelivered` | 2 sessions, 6 tried codes (one more than a session allows), one tick after which codes and tokens are old; 3 keys, 2 consumers, 2 senders, 1 fault; 3 customers and an email that matches another as a pattern; 2 tenants and 4 calls |
| `catalog` | Edits of a plan, subscriptions with and without a trial, expiring cards: `TypeOK`, `VersionsKept`, `NothingTwice`, `CardKept`, `TrialBilled` | 2 editors, 2 prices, 3 versions, 1 subscription, 2 callers, both jobs in 2 processes, 1 fault; 2 cards that expire one after the other |
| `edges` | Reports and lists read while rows change, requests that meet the limiter, calls that share a token: `TypeOK`, `ReportAddsUp`, `PagesComplete`, `RequestsBounded`, `TokenUsable` | 2 customers, 2 plans, 2 invoices, 2 payments, 4 changes of which 1 happens during the report; ticks 1 to 3 of half days, so that the day of Lagos begins before the day of the process; lists of up to 5 rows in pages of 2, 2 rows that leave and 2 that arrive; 2 keys, 4 ticks, 1 restart; 2 calls, 4 tokens, 1 revocation or failure |
| `find_unsettled_card`, `find_order_ignored`, `find_canceled_revived` | Three statements of the documents that the code does not keep | the smallest instance that shows it |

A bound is large enough when the situation it is meant for occurs: each
property has a mutant, a plausible slip in one definition (the limit tested one
too late, the attempt not counted, the answer not looked at), that makes the
same run fail. The last tick of a clock stands for all later time, so a retry
planned after it still happens. Ticks of six hours round the 25 hours of a
settlement down to 24 and the twelve of a refund up to 18, both against
`MoneyOnce`. `edges` uses the symmetry of customers, `settlement` that of processes
and of calls; their properties are invariants, so this is sound.

What the properties say when there are several replicas, faults or calls is
stated in them, never assumed away: `AttemptsBounded` allows one more attempt
per abort and three per call (a retry reopens the invoice and runs the whole
processing, so its own attempt and one of the job before and after it are not
counted against each other), `PaidOutBounded` one transfer per replica and fault,
`MoneyOnce` one refund per concurrent call and fault, `ActivatedOnce` one
subscription per stale row, `NothingTwice` and `CardKept` one repetition per
stale store and fault, `MailsBounded` one more mail per fault. Where the
code relies on nobody else writing meanwhile, a ghost counts the stores of a
copy that was out of date (`stale`, `outdated`, `cardStale`), and
`SessionsHold` and `EmailsUnique` promise what they say while it
is zero: they tell the one way in which these limits fail. `AnswersHold` goes field by
field: a key, a sign-out, a password or a secret is in force until it is changed,
whatever calls about other fields store from copies read after it, and only a call that had
read the row before may undo it, and only what it does not tell itself.
`PagesComplete` counts the rows that arrived or left, and no walk is better than that.
`PollSpacing` dates the n-th question from the moment the mandate was stored: all the waits
promised after the questions before it have passed. Between two questions less
may pass than promised, since a run takes the time before its loop
(`direct_debit_backoff.go:65`) and may ask late. `ChargesAsPlanned`
and `ClosedInvoices` hold for one uninterrupted replica without other writers
and fail otherwise; `NotForgotten` and the first part of `MoneyOnce` need a run
without faults, the latter also a payment that is `Alone` on its invoice: with two, the
refund of one may mark the settlement of the other, and what was refunded is paid out.

**Fairness.** `Billing!FairSpec`: the clock ticks, cron starts `LoadDue` of each
replica again and again, and a running function finishes. `WebhookDelivery!FairSpec`:
a call that has started, a consumer that is attached and a handler go on.
`Enrollment!FairSpec`: the clock ticks, the poll starts again and again and a run
that has started goes on. `Accounts!FairSpec`: a consumer takes messages and its
handler goes on; nothing makes a sender finish or a lost consumer return, which
`MailDelivered` therefore excepts. `Catalog!FairSpec`: the trial and card jobs
run and finish. Cron,
the Go scheduler and the broker give these; nothing makes a customer pay, a
merchant retry, the provider send an event or a process restart. `Settlement`
states being in time as a bound on the clock instead: a tick does not end before
the jobs and calls that started in it, since they take seconds and a tick is hours.

## Proofs

All for every value of the constants that satisfies the named assumptions:
worker, payment and customer sets of any size (Settlement, Catalog, the mails of
Accounts and the posts of a delivery need finite ones, to count), any period, delay,
window and clock, any number of faults. `ReportAssumption` says what the figures of
a report rest on: finitely many customers and plans, two methods, and plans that cost
something (`requests/plan.go:8` refuses an amount of zero). A theorem that needs more
says so under `ASSUME`: `PaidInTimeCorrect` that a replica exists; `AttemptsCorrect` one replica of
the billing job (`SoleReplica`); `ChargesAsPlannedCorrect` that it is left alone by
calls and interruptions (`Undisturbed`), though not by webhooks, the customer and
the upcoming job; the two about closed invoices that no decline arrives by webhook
(`Quietly`). The runs show that these are needed.

| Theorem | Module | States |
| --- | --- | --- |
| `TypeCorrect` | BillingProofs | `Spec => []TypeOK` |
| `AttemptsCorrect` | BillingProofs | one replica: three attempts to collect an invoice, one more per interruption, three per call |
| `MoneyConservedCorrect` | BillingLedger | a success advances the cycle at most once, is settled at most once and only if taken; no more cycles than payments taken and applied |
| `CheckoutAtomicCorrect` | BillingLedger | an order is completed, credited and settled together |
| `PaidBackedCorrect` | BillingLedger | a paid invoice is backed by money taken for it |
| `LedgerImplemented` | BillingLedger | `Spec => Ledger!Spec` |
| `ChargesAsPlannedCorrect` | BillingLedger | undisturbed: charges of an invoice are a delay apart, and a cycle is paid for once |
| `ClosedRowsAgree` | BillingLedger | undisturbed: once the jobs rest, a failed invoice has stopped its subscription and a paid one has moved it on |
| `ClosedInvoicesCorrect` | BillingLedger | and, without a mandate, a failed one had its three attempts |
| `DeliveryTypeCorrect` | DeliveryProofs | `Spec => []TypeOK`, with attempts never above their maximum |
| `DeliveredReceivedCorrect` | DeliveryProofs | what is shown as delivered was processed |
| `NotForgottenCorrect` | DeliveryProofs | without faults, somebody goes on with every pending delivery; assumes `"odd" \notin Answers` |
| `AttemptsLoggedCorrect` | DeliveryProofs | counted attempts are recorded, records were posts; three posts, and three more per fault |
| `SettlementTypeCorrect` | SettlementProofs | `Spec => []TypeOK` |
| `CompletedBackedCorrect` | SettlementProofs | a completed settlement names a payout that contains it and was transferred |
| `MoneyOnceCorrect` | SettlementProofs | without a fault no payment that is alone on its invoice is both refunded and paid out; refunds of any payment bounded by calls and faults |
| `PaidOutBoundedCorrect` | SettlementProofs | at most one transfer of a payment for each replica and fault |
| `PaidInTimeCorrect` | SettlementProofs | a payment that is neither paid out nor refunded is not late but for faults |
| `TypeCorrect` | EnrollmentProofs | `Spec => []TypeOK` |
| `ActivatedOnceCorrect` | EnrollmentProofs | one subscription per mandate and stale row |
| `OutcomeBackedCorrect` | EnrollmentProofs | given up or activated only as the bank decided |
| `PollSpacingCorrect` | EnrollmentProofs | the n-th question to the bank comes no sooner than the waits the comment promises after the others add up to, but for stale rows |
| `TypeCorrect` | CatalogProofs | `Spec => []TypeOK`, of plans, subscriptions and cards |
| `VersionsKeptCorrect` | CatalogProofs | the newest version is what the plan says; subscriptions keep their terms |
| `NothingTwiceCorrect` | CatalogProofs | first invoice, trial notice, start of billing: once for each subscription, stale store and fault |
| `CardKeptCorrect` | CatalogProofs | the newest card and its state survive but for stale stores; notices are bounded |
| `TypeCorrect` | AccountsProofs | `Spec => []TypeOK`, of all four components |
| `EmailsUniqueCorrect` | AccountsProofs | emails are unique as long as no write was decided on what somebody changed since |
| `AnswersHoldCorrect` | AccountsProofs | each field is what the merchant last chose or was given, but for a call that read the row before and stored it after; no more tenants than overlapping sign-ups |
| `SessionsHoldCorrect` | AccountsProofs | five wrong codes and one token for each session and stale store |
| `MailsBoundedCorrect` | AccountsProofs | at most one mail more than faults, and without faults none is forgotten |
| `EdgesTypeCorrect` | EdgesProofs | `Spec => []TypeOK`, of tables, report, lists, buckets and token |
| `ReadsMatchCorrect` | EdgesProofs | the reads of a report fit each other: customers and subscriptions for all invoices, nobody at risk left out, no invoice in both periods; needs no `ReportAssumption` |
| `ReportAddsUpCorrect` | EdgesProofs | the figures of a report agree; portal and customer page give one total, all totals no more than was received |
| `PagesCompleteCorrect` | EdgesProofs | a walk misses at most what left or arrived between count and page, and repeats at most what arrived, new or not |
| `RequestsBoundedCorrect` | EdgesProofs | a burst, the refill, and a burst per restart |
| `TokenUsableCorrect` | EdgesProofs | at most two sends, and a second refusal has a reason |

**Billing.** `TypeOK` is inductive; its proof has one step per action, with
lemmas for the helpers that store a copy (`SaveInvoice`, `SaveSub`,
`SavePayment`, `Becomes`). The ledger properties are not inductive: whether
`Accept` may credit a payment depends on which worker holds it and what it did
before. `LedgerInv` says so:

- `Unused`: a reference nobody generated has no money, credit, settlement or
  order behind it; `Counted`: credits and settlements only for taken money;
- `Orders`: a checkout order has at most one credit, exactly when completed;
- `Exclusive`: a charge or debit in the hands of a worker is in the hands of no
  other; `Holds`: what is true of it at each `pc` (not yet taken before `charge`,
  taken and not yet settled at `complete`, not yet credited up to `advance`);
- `Copies`: no copy of a subscription is past the credits made so far, and a
  copied invoice that is paid is backed by money, so storing an old copy is safe;
- the stored cycle is at most the number of credited payments, and `PaidBacked`.

`Copies` is why stale writes, which lose updates freely, cannot create a cycle
or a payment: money facts only grow, so whatever was true of a copy stays true.
Three more invariants count and date the charges. `CountInv` bounds the attempts
of an invoice by a budget: three, one for each interruption, three for each call, less
what calls under way have not used yet (`Spent`) and an attempt the job can still
make (`Chance`); it works because a single replica never counts on a copy that
another replica has overtaken. `PlanInv` says
what the job knows at each `pc` of the charges before: none in this cycle that took
money, the last one a delay ago, the next attempt not before it is over; a write
of a stale invoice would break it, and without calls and aborts there is none.
`ClosedInv`: the job works on the current subscription and an open invoice, and a
closed invoice is of a cycle that is over or at the job's last write.

For `LedgerImplemented` every action is mapped: `Charge`, `ChargeAnswerLost` and
`Pay` to `Take` or a stutter, `Settle` to `SettleOnly`, `Advance` and
`ApplyOrder` to `Credit`, whatever stores a subscription to `Store`, all else to
a stutter.

**Delivery.** `Types` says of every copy that may be stored what `TypeOK` says
of rows. `Receipts`: a row or a copy that says delivered follows the endpoint's
receipt, and a retry call's copy never says so. `Carrying`, under `faults = 0`:
a pending row outside a transaction is carried by a message, a handler or a
call, and every consumer is attached; each step that lets go of a delivery
either resolves its row or hands it to the queue. `AttemptsLogged` takes five
layers: `Recorded` and `PostedFirst` order the post, its record and the row's count;
`Small` and `Single`, without retry calls: an event has one message, in the queue or
in the hands of one consumer, while handlers that lost theirs go on without it;
`Budgeted` then adds up, for each event, the posts made, the three that such a
handler may still cost, and what the row still allows the holder of the message.

**Settlement.** Six layers, each inductive with those before it. `Backing`: the
payout a job is working on is its own and pending, and a completed row has a
moved payout. `Timing`: a payment that a refund call has read is younger than
the refund window, counted from the last payment of its invoice, a row that a job has
loaded older than the settlement delay; for a payment alone on its invoice these are one
clock, and the assumption `Window < Delay` keeps the two apart. `Once`: without faults
such a payment goes one way, from the row to the job or call that holds it. `RefundCounts` and
`PayCounts`: how often the provider was or may yet be asked, as the number of
calls and jobs that still hold the payment plus the faults used up. `InTime`: the
midnight a run compares with is that of its day (`RunMidnight`), a payment past its
date waits only while a run that will find it is under way or has yet to start
before the tick ends (`Attended`, `InHand`), and each fault grants the three days of
the longest weekend (`Grace`).

**Enrollment.** `IInv` adds to the properties what a run knows: its copies were
pending when loaded and belong to stored calls, and an answer of the bank it
acts on is still true (`RunInv`). The point of `MandateInv` is that a row which
is not completed has no more subscriptions than stale actions: an activation
from a fresh copy finds a pending row and adds the one subscription that
`ActivatedOnce` allows, one from a stale copy pays for itself. For `PollSpacing`,
`SpacingInv`: while nobody acted on a changed row, a run that goes on with a row found it
due by the code's wait, and only the run that wrote the row last may ask. `PaceInv`: then
the waits promised after all questions so far are over when the row is due again, and a run
that is about to ask has booked it after them. `PromisedShorter` compares the code's wait
with the comment's, and `PromisedGrows` a question's with a later one's, for every back-off
that grows: some bookings end without a question, so the row counts more polls than
were asked.

**Catalog.** Versions only grow (`Grows`), so what a copy says of its version
stays true while plans are edited. `CopyInv` says what a worker knows of the row
it holds at each `pc`: the terms and the end of the trial never change, and a copy
that nobody has written over agrees with the row on what is done once. `OnceInv`
then counts what was done as a bit of the row (`invoice`, `noticed`, `started`)
plus stale stores, faults and the workers between the act and its store: a fresh
store turns the bit on, and only a stale one can turn it off, and pays for it.
`CardInv` does the same for the row of a card. This is why the flags make the
jobs safe on one replica and how often they fail on two.

**Customers.** `ClerkInv`: what a request has looked up is still true if the
table has not been written since. **Merchants.** The row and `told` are changed
along different ways, the row as a whole and `told` by field. `CallerInv` ties a
call's copy to `told` in every field that is neither late nor disturbed, so storing the
copy keeps `Agreed`, the same of the row; `CallNumbers` keep a void secret
out of all rows and copies, and a revoked key or token from returning as a new one. **Sessions.** `TryInv`: a copy that is not out of
date is the row, so `SessionInv` can charge every excess to a stale store: wrong
codes are at most five for each, plus those the row counts; tokens at most one for
each, plus one if the row is verified. **Mails.** `CountInv`: what was sent, what
lies in the queue, what a handler still owes and what a sender is about to create
or publish never exceed one mail and the faults; `QuietInv`: without faults a row
that exists is sent or carried by one of these. **Limiter.** `KeyInv`: what was let through
and what the bucket could still give never exceed a full bucket, the refill and
the restarts. **Client.** `CallInv`: a call that has refreshed its token holds
one that is good until somebody revokes it, and a token is read before the margin.
**Lists.** `ListingInv` looks at where the next page begins: rows before it that were
never shown (`Lost`) slid there because another row left, so they are at most as many
as left; rows after it that were shown (`Again`) were pushed there by rows that arrived
before it or came back behind it, so they and the repetitions so far are at most as
many as arrived. **Report.** `Changed` says what any change of the tables may do to the
old rows and must hold of the new ones, and every action is a `Changed`. `ReportInv`:
an invoice has a subscription and keeps its customer and time, so what a read
found is still true of the tables at the next one, and the later reads contain
whom the earlier ones are about; it is the order of the queries that makes it so.

**Figures.** `ReportAddsUp` compares sums over sets of rows, so it needs to know what
a sum is. The model adds with `SumFunction` of the community modules, which chooses the
next row by `CHOOSE`; the theorem has to hold in whatever order that is. The first part
of the argument (from `LeastSubset` on) is about such sums alone. The provers
cannot instantiate an induction rule, so each fact is proved by contradiction: if some
part of a finite set is bad, one with the fewest elements is (`Smallest`, from the
well-foundedness of the numbers), it is not empty, and taking its chosen element away gives
a smaller bad one. In this way the fold exists and is unique (`SummingExists`,
`SummingUnique`), is `SumFunction` (`SumFunctionSum`), takes elements in any order
(`SumRemove`) and splits along unions (`SumUnion`) and along any key
(`SumFibers`: the sum over the keys of the sums for each key is the whole). `SumNear` bounds what
rounding each term may add, `SumInto` compares sums along an injection.

The second part is the invariant `BooksInv`, checked by TLC before it was proved. `ReportInv`
says whom the rows are about; `BooksInv` says how much. `Booked` is about the tables: an
invoice asks for its plan's price, is paid in full or not at all, and if it is paid, at
least one payment of it was received; a payment of an invoice is of its amount and not
older (there may be several, and payments of no invoice), and nothing was canceled
in the future. `InvoicesRead`, `SubscriptionsBooked` and `PaymentsRead` carry that over to
what was read, which stays as it was read. One part spans several reads: `PaidRead`,
that an invoice read as paid has a payment (and one in the report, unless the report
ends before now, since later changes of a payment at most refund it).

The third part joins them: invoices by status, points of the trend and days of the
portal, plans, methods, groups and customers are keys of `SumFibers`; the point of a time
is found by division (`Divided`, `PointOf`), and the rows without a point are exactly
those of the first `Behind` ticks; fees by `FeeNear` and `SumNear`; what was received by
`SumInto` with `PaidRead`, and so is the bound on the lifetime values of all customers,
by `SumInto` with `Booked`.

Only model-checked: the liveness properties (`DueIsResolved`,
`EventuallyResolved`, `EveryMandateEnds`, `MailDelivered`, `TrialBilled`), which
TLAPS does not do, like `ENABLED`. Every other property of a run is a theorem.

## Where code and documents differ

Three disagreements have a run each (`findings` in `PROJECT.json`):

- The payment of a merchant's checkout order is dropped: `InitializeCardTransaction`
  stores its initiation without a status, and `handlePaymentSuccess` does nothing
  for one that is not `pending` (README.md:715, "The subscription is completed").
- A charge of a stored card never creates a settlement (README.md:1146): the job
  leaves it to the webhook, whose branch needs metadata the charge lacks.
- A canceled subscription comes back when a job, webhook or call stores a copy
  from before (`mcp/tools/action.go:94`, "cannot be undone").

Seen while modelling, without a run of their own:

- A subscription created without a trial has status `attention`
  (`subscription.go:122`), which no billing job loads (`invoice.go:71`); README.md:980
  says billing starts immediately. It starts with the customer's first payment.
- A tenant webhook enqueued inside a transaction is lost when a consumer is
  faster than the commit, or the process dies before the publish
  (`send-tenant-webhook.go:91`, `:115`), against README.md:1029-1031: `NotForgotten`
  is about those enqueued outside one. An answer that is neither success nor failure
  leaves a delivery pending and acknowledged (`:219`), though README.md:1033 says
  failed deliveries are retried.
- A `payment_failed` event for the first declined charge fails the invoice and
  pauses the subscription, though README.md:42 promises up to three attempts
  (with `"failed"` among its `Events`, `billing_schedule` breaks `ClosedInvoices`).
- A crash or lost answer after a charge debits the customer again at the next
  run (the `+ aborts` of `AttemptsBounded`). Two replicas of the billing job have no
  bound at all: each stores its own count of the attempts over the other's, so an
  invoice that both process can be charged run after run. A mandate check that fails plans a
  retry without counting an attempt; a portal call's stale write undoes a pause
  or an advance.
- Two mandates of one customer and plan that are started before either is
  approved both become active subscriptions (`transaction.go:73`); README.md:713
  promises to prevent that.
- The poll waits longer after the 10th, 30th and 60th attempt than its comment
  says (`direct_debit_backoff.go:16-20`), so `PollSpacing` holds with the
  comment's waits; mandates are polled every minute
  (`cron/direct_debit_jobs.go`), README.md:1141 says every 30.
- A failed transfer leaves settlements pending where README.md:1157 marks them
  failed, which is what makes `PaidInTime` true.
- An edit of a plan sets `NextBillingCyclePlanVersion` on its subscriptions
  (`plan.go:200`) and nothing reads it, so they keep their old version
  (README.md:690); a trial of zero is not stored, since GORM's `Updates` skips it
  (`plan.go:162`); an edit whose transaction fails is answered as if it had
  succeeded (the ghost `dropped` of `VersionsKept`).
- `SetWebhookUrl` answers a new secret and stores it only if there was none
  (`auth.go:314-323`; the ghost `void` of `AnswersHold`), where README.md:558 and
  README.md:1052 have the merchant use what was answered.
- When an invoice has two payments (a checkout and a debit that overlap), the refund
  of the checkout may mark the debit's settlement (`transaction.go:517`), so the merchant
  is paid what the customer got back; `MoneyOnce` is about payments alone on an invoice.
- A payment makes a canceled subscription active and leaves its time of cancellation
  (`webhook.go:223`), so it counts as churned and as active in one report.
- A plan may be created with a negative amount: the request only asks for one that is
  not zero (`requests/plan.go:8`), a change of it for one above zero (`:29`). The
  amounts of `PlanOf` are positive.
- The previous monthly revenue is the current one
  (`dashboard_analytics.go:194`, `mcp/tools/analytics.go:419`), so its growth is
  always zero; payments in the first hours of a Lagos day have no point in the
  daily trend when the process runs in an earlier zone (`dashboard_analytics.go:563`).
- The key of an expiry mail names the subscription and its source, not the card
  (`email_notifications.go:88`): no second mail when the source has a new card.
- After a reconnect nobody consumes until a restart (`rabbitmq.go:47`). The
  mutex of the provider's token is held during a request without a timeout
  (`providers/nomba/auth.go:75`). Emails can be sent twice or, between row and
  publish, never.

## Not modelled

- One customer with one subscription, one card and one mandate in `Billing`. Rows
  of different subscriptions never share state in the modelled code; several
  sources of one kind would only add choices to `SwitchRead`.
- Trials and plan versions meet the billing job only through `sub`: `Catalog`
  has no cycles, `Billing` always bills the current amount. Invoice limits of
  plans are left out.
- Amounts, fees and currencies outside `Analytics`: no other property compares them.
- What the webhook stores for a merchant's own checkout order: `Enrollment` shows
  that the branch is never reached. The card-charge branch that panics on its
  metadata has no effect, since gin recovers and the transaction rolls back.
- Database deadlocks: a transaction the database aborts has no effect, and the
  event is repeated.
- A transfer that the provider accepts and later reports as failed: the event is
  ignored (`webhook.go`), and no code looks at the payout again.
- The webhook, mandate and upcoming-renewal figures of the dashboard, which count or add up
  rows by status like the modelled ones, and the MCP tools other than metrics, each one API
  call; handlers, requests, responses and router, which bind, validate and format.
- Query building, formatting, logging, hashing, encryption, URL checks and
  migrations are pure or pure I/O; configuration, database and mail transport
  likewise.
