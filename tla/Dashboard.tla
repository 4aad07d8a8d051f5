------------------------------ MODULE Dashboard ------------------------------
(***************************************************************************)
(* The figures a merchant reads: GetAnalytics                              *)
(* (services/dashboard_analytics.go), the metrics that mcp/tools derives   *)
(* from it, the portal's and the customer page's totals.  The report reads *)
(* one table after the other, without a transaction, while payments go on. *)
(* Time is in ticks of Lagos, a day has Day of them; the rows' times are   *)
(* in the zone of the process, Behind ticks behind.  Rates are in tenths   *)
(* of a percent, as the code rounds them.                                  *)
(***************************************************************************)
EXTENDS Integers, Sequences, FiniteSetsExt

CONSTANTS
    Buyers,      \* customers of the merchant, at most one subscription each
    Plans,       \* plans of the merchant
    PlanOf,      \* for each plan its interval and amount
    Methods,     \* types of payment sources
    Period,      \* days of the report: the first and the last
    MaxInvoices, \* bound: invoices ever created
    MaxPayments, \* bound: payment attempts
    Start, Horizon,  \* bound: the first and the last tick of the clock
    MaxChanges,  \* bound: changes of the tables
    MaxMeanwhile,\* bound: changes of the tables while a report is made
    Day, Behind, \* ticks of a day; how far the process is behind Lagos
    Listed       \* how many customers the list of top customers takes: 8

ASSUME DashboardAssumption ==
    /\ PlanOf \in [Plans -> [interval : {"monthly", "yearly", "weekly"}, amount : Nat]]
    /\ MaxInvoices \in Nat /\ MaxPayments \in Nat
    /\ MaxChanges \in Nat /\ MaxMeanwhile \in Nat
    /\ Horizon \in Nat /\ Start \in 0 .. Horizon
    /\ Period \in Nat \X Nat /\ Period[1] <= Period[2]
    /\ Day \in Nat \ {0} /\ Behind \in 0 .. Day - 1 /\ Listed \in Nat \ {0}

\* A plan costs something: no request that creates or changes one gets through
\* with an amount of zero (requests/plan.go:8 and :29).
ASSUME ReportAssumption ==
    /\ IsFiniteSet(Buyers) /\ IsFiniteSet(Plans) /\ Methods = {"card", "bank"}
    /\ \A p \in Plans : PlanOf[p].amount > 0

VARIABLES
    now,      \* the clock
    subs,     \* the subscription of each customer; "none": customer not created
    invoices, \* rows of invoices in the order of their creation
    payments, \* rows of payment_intents in the order of their creation
    changes,  \* changes of the tables; a report leaves at most MaxMeanwhile of them
    report    \* the report being made: its period and the tables read so far

tables == <<subs, invoices, payments>>
dashboardVars == <<now, tables, changes, report>>

NoTime == -1
NoSub == [status |-> "none", plan |-> CHOOSE p \in Plans : TRUE, created |-> 0,
          canceled |-> NoTime, source |-> "unknown"]

Has(s) == s.status # "none"

Received == {"SUCCESS", "REFUND"}

\* What the checkout of a trial pays for.
NoInvoice == 0

\* Rows as they are read: sets of rows, each with its number.
Numbered(rows) == {[n |-> n, row |-> rows[n]] : n \in DOMAIN rows}
-----------------------------------------------------------------------------
(* What happens to the tables meanwhile.  A handler stores rows whole, as  *)
(* it read them before: so a step may store the status, the payment or the *)
(* time of cancellation that a row had once.                               *)

Subscription(p, m, status) ==
    [NoSub EXCEPT !.status = status, !.plan = p, !.source = m, !.created = now]

Invoice(b, p, status) ==
    [buyer |-> b, status |-> status, due |-> PlanOf[p].amount, paid |-> 0,
     created |-> now, paidAt |-> NoTime]

\* Mutant of PaidNow: the time of the payment is not stored.
PaidUntimed(row) == [row EXCEPT !.status = "paid", !.paid = row.due]

PaidNow(row) == [row EXCEPT !.status = "paid", !.paid = row.due, !.paidAt = now]

Intent(i, p, m, status) ==
    [status |-> status, amount |-> PlanOf[p].amount, plan |-> p, method |-> m,
     created |-> now, invoice |-> i]

PlanPaid(i) == subs[invoices[i].buyer].plan

\* CreateSubscription stores it before its invoice, with a card of the customer
\* if there is one; with a confirmed mandate it starts active.
Subscribe(b, p, m) ==
    /\ ~Has(subs[b])
    /\ subs' = [subs EXCEPT ![b] =
                  Subscription(p, m, IF m = "bank" THEN "active" ELSE "attention")]
    /\ UNCHANGED <<invoices, payments>>

\* A checkout creates the subscription and a payment, of no invoice if it is for
\* a trial,
SubscribeTrial(b, p) ==
    /\ ~Has(subs[b]) /\ Len(payments) < MaxPayments
    /\ subs' = [subs EXCEPT ![b] = Subscription(p, "card", "active")]
    /\ payments' = Append(payments, Intent(NoInvoice, p, "card", "SUCCESS"))
    /\ UNCHANGED invoices

\* and of a paid one else.
SubscribePaid(b, p) ==
    /\ ~Has(subs[b]) /\ Len(invoices) < MaxInvoices /\ Len(payments) < MaxPayments
    /\ subs' = [subs EXCEPT ![b] = Subscription(p, "card", "active")]
    /\ invoices' = Append(invoices, PaidNow(Invoice(b, p, "paid")))
    /\ payments' = Append(payments, Intent(Len(invoices) + 1, p, "card", "SUCCESS"))

\* The first invoice, a draft of CreateUpcomingInvoices, or the open one that
\* ensureInvoice creates.
Bill(b, status) ==
    /\ Has(subs[b]) /\ Len(invoices) < MaxInvoices
    /\ invoices' = Append(invoices, Invoice(b, subs[b].plan, status))
    /\ UNCHANGED <<subs, payments>>

\* A run of the billing job, a retry or a reminder stores invoice i as it read
\* it, not paid or with a payment it goes on to disregard: opened, kept open
\* for another attempt, failed, or still refunded.
StoreInvoice(i, status, paid) ==
    /\ status = "refunded"
          => \E k \in DOMAIN payments : payments[k].invoice = i /\ payments[k].status = "REFUND"
    /\ invoices' = [invoices EXCEPT ![i].status = status, ![i].paid = paid,
                                      ![i].paidAt = IF paid = 0 THEN NoTime ELSE @]
    /\ UNCHANGED <<subs, payments>>

\* A run stores the subscription, as it read it or with the status it gives.
StoreSubscription(b, status, canceled) ==
    /\ Has(subs[b]) /\ (status = "active" => subs[b].status # "attention")
    /\ status = "canceled" => canceled # NoTime
    /\ subs' = [subs EXCEPT ![b].status = status, ![b].canceled = canceled]
    /\ UNCHANGED <<invoices, payments>>

\* chargeCard and chargeDirectDebit: the intent is pending before the call,
StartPayment(i, m) ==
    /\ Len(payments) < MaxPayments
    /\ payments' = Append(payments, Intent(i, PlanPaid(i), m, "PENDING_BILLING"))
    /\ UNCHANGED <<subs, invoices>>

\* gets its outcome after it,
EndPayment(k, status) ==
    /\ payments[k].status = "PENDING_BILLING"
    /\ payments' = [payments EXCEPT ![k].status = status]
    /\ UNCHANGED <<subs, invoices>>

\* Mutant of markInvoicePaid: does not wait for the outcome.
markInvoicePaidEarly(i) ==
    /\ \E k \in DOMAIN payments : payments[k].invoice = i
    /\ invoices' = [invoices EXCEPT ![i] = PaidNow(@)]
    /\ UNCHANGED <<subs, payments>>

\* and the invoice is stored as paid in a statement of its own.
markInvoicePaid(i) ==
    /\ \E k \in DOMAIN payments : payments[k].invoice = i /\ payments[k].status \in Received
    /\ invoices' = [invoices EXCEPT ![i] = PaidNow(@)]
    /\ UNCHANGED <<subs, payments>>

\* A checkout pays invoice i whatever its status, unless it is paid; a canceled
\* subscription becomes active and keeps its time of cancellation.
PaymentSucceeded(i) ==
    /\ invoices[i].status # "paid" /\ Len(payments) < MaxPayments
    /\ payments' = Append(payments, Intent(i, PlanPaid(i), "card", "SUCCESS"))
    /\ invoices' = [invoices EXCEPT ![i] = PaidNow(@)]
    /\ subs' = [subs EXCEPT ![invoices[i].buyer] =
                  [@ EXCEPT !.status = "active", !.source = "card"]]

Fail(i) ==
    /\ invoices' = [invoices EXCEPT ![i].status = "failed"]
    /\ subs' = [subs EXCEPT ![invoices[i].buyer].status = "paused"]

\* An event of a failed charge finds its intent; one of a failed checkout
\* creates an intent without a payment source.
PaymentFailed(k) ==
    /\ payments[k].status \in {"PENDING_BILLING", "PAYMENT_FAILED"}
    /\ payments' = [payments EXCEPT ![k].status = "PAYMENT_FAILED"]
    /\ Fail(payments[k].invoice)

CheckoutFailed(i) ==
    /\ Len(payments) < MaxPayments
    /\ payments' = Append(payments, Intent(i, PlanPaid(i), "unknown", "PAYMENT_FAILED"))
    /\ Fail(i)

\* The refund of payment k.
Refund(k) ==
    /\ payments[k].status = "SUCCESS"
    /\ payments' = [payments EXCEPT ![k].status = "REFUND"]
    /\ invoices' = [i \in DOMAIN invoices |->
                      IF i = payments[k].invoice
                      THEN [invoices[i] EXCEPT !.status = "refunded"] ELSE invoices[i]]
    /\ UNCHANGED subs

Canceled(b) == subs' = [subs EXCEPT ![b].status = "canceled", ![b].canceled = now]

\* CancelSubscription fails drafts and open invoices.
Cancel(b) ==
    /\ Has(subs[b]) /\ subs[b].status # "canceled" /\ Canceled(b)
    /\ invoices' = [i \in DOMAIN invoices |->
                      IF invoices[i].buyer = b /\ invoices[i].status \in {"draft", "open"}
                      THEN [invoices[i] EXCEPT !.status = "failed"] ELSE invoices[i]]
    /\ UNCHANGED payments

\* A deleted mandate cancels too, and leaves the invoices.
DeleteMandate(b) ==
    /\ Has(subs[b]) /\ subs[b].source = "bank" /\ Canceled(b)
    /\ UNCHANGED <<invoices, payments>>

\* Bound: a report takes less than a tick.
Pass ==
    /\ report.pc = 0 /\ now < Horizon
    /\ now' = now + 1
    /\ UNCHANGED <<tables, changes, report>>
-----------------------------------------------------------------------------
(* GetAnalytics: the reads *)

In(t, from, to) == from <= t /\ t <= to

\* The days of the request become midnights and last ticks of Lagos.
From(d) == d * Day
To(d) == d * Day + Day - 1

\* As long as the period; the nanosecond it lacks is not told apart.
PreviousFrom(r) == r.from - (r.to + 1 - r.from)
PreviousTo(r) == r.from - 1

\* The order of the queries; those for sources, deliveries and all invoices are
\* left out.
Reads == <<"invoices", "previous", "customers", "subscriptions", "payments">>

NoReport == [pc |-> 0, from |-> 0, to |-> 0, at |-> 0, invoices |-> {}, previous |-> {},
             customers |-> {}, subscriptions |-> {}, payments |-> {}]

AskReport ==
    /\ report.pc = 0
    /\ report' = [NoReport EXCEPT !.pc = 1, !.from = From(Period[1]), !.to = To(Period[2]),
                                  !.at = now]
    /\ changes' = Max({changes, MaxChanges - MaxMeanwhile})
    /\ UNCHANGED <<now, tables>>

Created(rows, from, to) == {r \in Numbered(rows) : In(r.row.created, from, to)}

Subscriptions == {[n |-> b, row |-> subs[b]] : b \in {c \in Buyers : Has(subs[c])}}

\* Mutant of Answer: customers are those of the time of the request.
AnswerEarly(t, r) ==
    CASE t = "invoices" -> Created(invoices, r.from, r.to)
      [] t = "previous" -> Created(invoices, PreviousFrom(r), PreviousTo(r))
      [] t = "customers" -> {s.n : s \in {u \in Subscriptions : u.row.created < r.at}}
      [] t = "subscriptions" -> Subscriptions
      [] t = "payments" -> Created(payments, r.from, r.to)

\* The rows that the query of table t finds.
Answer(t, r) ==
    CASE t = "invoices" -> Created(invoices, r.from, r.to)
      [] t = "previous" -> Created(invoices, PreviousFrom(r), PreviousTo(r))
      [] t = "customers" -> {s.n : s \in Subscriptions}
      [] t = "subscriptions" -> Subscriptions
      [] t = "payments" -> Created(payments, r.from, r.to)

Read ==
    /\ report.pc \in DOMAIN Reads
    /\ report' = [report EXCEPT ![Reads[report.pc]] = Answer(Reads[report.pc], report),
                                !.pc = @ + 1]
    /\ UNCHANGED <<now, tables, changes>>

Ready == report.pc = Len(Reads) + 1

DashboardInit ==
    /\ now = Start
    /\ subs = [b \in Buyers |-> NoSub]
    /\ invoices = <<>> /\ payments = <<>>
    /\ changes = 0 /\ report = NoReport

BuyerChange(b) ==
    \/ \E p \in Plans : \/ \E m \in Methods \cup {"unknown"} : Subscribe(b, p, m)
                       \/ SubscribeTrial(b, p) \/ SubscribePaid(b, p)
    \/ \E status \in {"draft", "open"} : Bill(b, status)
    \/ \E status \in {subs[b].status, "active", "past_due", "paused"},
          canceled \in {NoTime, subs[b].canceled} : StoreSubscription(b, status, canceled)
    \/ Cancel(b) \/ DeleteMandate(b)

InvoiceChange(i) ==
    \/ \E status \in {"open", "failed", "refunded"}, paid \in {0, invoices[i].paid} :
          StoreInvoice(i, status, paid)
    \/ \E m \in Methods : StartPayment(i, m)
    \/ markInvoicePaid(i) \/ PaymentSucceeded(i) \/ CheckoutFailed(i)

PaymentChange(k) ==
    \/ \E status \in {"SUCCESS", "PAYMENT_FAILED"} : EndPayment(k, status)
    \/ PaymentFailed(k) \/ Refund(k)

\* Bound: at most MaxChanges changes of the tables, MaxMeanwhile of them between
\* the reads and none after.
TablesChange ==
    /\ changes < MaxChanges /\ changes' = changes + 1 /\ ~Ready
    /\ UNCHANGED <<now, report>>
    /\ \/ \E b \in Buyers : BuyerChange(b)
       \/ \E i \in DOMAIN invoices : InvoiceChange(i)
       \/ \E k \in DOMAIN payments : PaymentChange(k)

DashboardStep == TablesChange \/ Pass \/ AskReport \/ Read
=============================================================================
