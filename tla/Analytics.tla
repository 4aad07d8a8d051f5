------------------------------ MODULE Analytics ------------------------------
(***************************************************************************)
(* The figures that GetAnalytics and the MCP tools compute from the tables *)
(* read by Dashboard, and what must hold between them.  Sets of rows are   *)
(* those of a report: [n |-> number or customer, row |-> the row].         *)
(***************************************************************************)
EXTENDS Dashboard

With(status, rows) == {r \in rows : r.row.status = status}

\* math.Round(a / b) for b > 0: halves away from zero.
RoundDiv(a, b) == IF a >= 0 THEN (2 * a + b) \div (2 * b) ELSE -((b - 2 * a) \div (2 * b))

\* Five percent, of the sum or of one invoice.
fee(a) == RoundDiv(5 * a, 100)

\* Tenths of a percent.
rate(part, total) == IF total = 0 THEN 0 ELSE RoundDiv(1000 * part, total)

growthPercent(current, previous) ==
    IF previous = 0 THEN (IF current > 0 THEN 1000 ELSE 0)
    ELSE RoundDiv(1000 * (current - previous), previous)

PaidAmount(r) == IF r.row.paid > 0 THEN r.row.paid ELSE r.row.due
Owed(r) == IF r.row.due > r.row.paid THEN r.row.due - r.row.paid ELSE r.row.due
Amount(r) == r.row.amount

sumPaidInvoices(rows) == SumFunction([r \in With("paid", rows) |-> PaidAmount(r)])

outstandingInvoices(rows) ==
    LET due == With("open", rows) \cup With("failed", rows)
    IN  [count |-> Cardinality(due), amount |-> SumFunction([r \in due |-> Owed(r)])]

MonthlyAmount(s) ==
    LET p == PlanOf[s.row.plan]
    IN  CASE p.interval = "monthly" -> p.amount
          [] p.interval = "yearly" -> p.amount \div 12
          [] p.interval = "weekly" -> p.amount * 4

calculateMRR(rows) == SumFunction([s \in With("active", rows) |-> MonthlyAmount(s)])
-----------------------------------------------------------------------------
(* Subscriptions *)

\* Mutant of StatusGroups: a subscription waiting for its first payment is
\* in no group.
StatusGroupsFour == [active |-> {"active"}, pastDue |-> {"past_due"},
                     paused |-> {"paused"}, canceled |-> {"canceled", "expired"}]

StatusGroups == [active |-> {"active"}, pastDue |-> {"past_due", "attention"},
                 paused |-> {"paused"}, canceled |-> {"canceled", "expired"}]

SubscriptionCount(group, rows) == Cardinality({s \in rows : s.row.status \in StatusGroups[group]})

Churned(rows, from, to) ==
    Cardinality({s \in rows : s.row.canceled # NoTime /\ In(s.row.canceled, from, to)})

churnRate(r) == rate(Churned(r.subscriptions, r.from, r.to),
                     Max({Cardinality(r.subscriptions), 1}))

SubscriptionSources == {"card", "bank", "unknown"}

paymentSourceBreakdown(rows) ==
    [t \in SubscriptionSources |-> Cardinality({s \in rows : s.row.source = t})]
-----------------------------------------------------------------------------
(* Payments and plans *)

PaymentMethods == Methods \cup {"unknown"}

MethodStats(m, rows) ==
    LET mine == {r \in rows : r.row.method = m}
    IN  [attempts |-> Cardinality(mine),
         successful |-> Cardinality(With("SUCCESS", mine)),
         failed |-> Cardinality(With("PAYMENT_FAILED", mine)),
         amount |-> SumFunction([r \in With("SUCCESS", mine) |-> Amount(r)])]

successRate(rows) == rate(Cardinality(With("SUCCESS", rows)), Cardinality(rows))
failureRate(rows) == rate(Cardinality(With("PAYMENT_FAILED", rows)), Cardinality(rows))

PlanRevenue(p, rows) ==
    SumFunction([r \in With("SUCCESS", {q \in rows : q.row.plan = p}) |-> Amount(r)])

PlanChurn(p, rows) ==
    LET mine == {s \in rows : s.row.plan = p}
        gone == Cardinality(With("canceled", mine) \cup With("expired", mine))
    IN  rate(gone, Max({Cardinality(With("active", mine)) + gone, 1}))

\* Plans whose revenue is the largest: the sort leaves one of them first.
TopPlans(rows) ==
    {p \in Plans : \A q \in Plans : PlanRevenue(q, rows) <= PlanRevenue(p, rows)}
-----------------------------------------------------------------------------
(* The trend, customers and insights *)

\* The key of a row is the day of its time in the zone of the process, the
\* keys of the points are days of Lagos.
RowDay(t) == (t - Behind) \div Day

Points(r) == (r.from \div Day) .. (r.to \div Day)

PaidOn(d, r) == {i \in With("paid", r.invoices) : RowDay(i.row.created) = d}

TrendGross(d, r) == SumFunction([i \in PaidOn(d, r) |-> PaidAmount(i)])

InvoiceFee(i) == fee(PaidAmount(i))
TrendFees(d, r) == SumFunction([i \in PaidOn(d, r) |-> InvoiceFee(i)])

TrendPayments(d, status, r) ==
    Cardinality({p \in With(status, r.payments) : RowDay(p.row.created) = d})

\* A cancellation counts only if the creation has a point too.
TrendCanceled(d, r) ==
    Cardinality({s \in r.subscriptions : /\ RowDay(s.row.created) \in Points(r)
                                         /\ s.row.canceled # NoTime
                                         /\ RowDay(s.row.canceled) = d})

CustomerRevenue(c, r) == sumPaidInvoices({i \in r.invoices : i.row.buyer = c})

Ranked(r) ==
    {c \in r.customers :
       \/ CustomerRevenue(c, r) > 0
       \/ \E s \in With("active", r.subscriptions) : s.n = c}

\* The lists that a sort by revenue, cut after Listed customers, may give.
TopCustomers(r) ==
    {t \in SUBSET Ranked(r) :
       /\ Cardinality(t) = Min({Listed, Cardinality(Ranked(r))})
       /\ \A c \in t, d \in Ranked(r) \ t : CustomerRevenue(d, r) <= CustomerRevenue(c, r)}

\* Invoices listed as failed and at risk: at most Listed of them; an invoice
\* whose subscription was not read has no customer and puts nobody at risk.
Troubled(r) == With("open", r.invoices) \cup With("failed", r.invoices)
AtRisk(r) == {i \in Troubled(r) : \E s \in r.subscriptions : s.n = i.row.buyer}

Gross(r) == sumPaidInvoices(r.invoices)
Previous(r) == sumPaidInvoices(r.previous)

insights(r) ==
    LET growth == growthPercent(Gross(r), Previous(r))
        method(m) == {p \in r.payments : p.row.method = m}
    IN  (IF growth > 0 THEN {"growing"} ELSE IF growth < 0 THEN {"declined"} ELSE {})
        \cup (IF /\ method("card") # {} /\ method("bank") # {}
                 /\ successRate(method("card")) < successRate(method("bank"))
              THEN {"direct_debit"} ELSE {})
        \cup (IF SubscriptionCount("pastDue", r.subscriptions) > 0 THEN {"past_due"} ELSE {})
        \cup (IF \E p \in TopPlans(r.payments) : PlanRevenue(p, r.payments) > 0
              THEN {"strongest_plan"} ELSE {})
-----------------------------------------------------------------------------
(* The metrics of the MCP tools and the totals of one customer *)

Net(amount) == amount - fee(amount)

Metrics == {"gross_revenue", "net_revenue", "platform_fees", "mrr"}

extractMetric(name, r) ==
    CASE name = "gross_revenue" -> Gross(r)
      [] name = "net_revenue" -> Net(Gross(r))
      [] name = "platform_fees" -> fee(Gross(r))
      [] name = "mrr" -> calculateMRR(r.subscriptions)

\* The revenue of the period before; the monthly recurring revenue of the
\* same subscriptions, since nothing keeps what it was.
previousPeriodMetric(name, r) ==
    IF name = "mrr" THEN calculateMRR(r.subscriptions)
    ELSE extractMetric(name, [r EXCEPT !.invoices = r.previous])

explained(name, r) == extractMetric(name, r) - previousPeriodMetric(name, r)

\* TotalSpent of the portal: a sum over the days on which invoices were paid.
Paid(i) == i.row.paid
PortalSpent(b) ==
    LET mine == {i \in With("paid", Numbered(invoices)) :
                   i.row.buyer = b /\ i.row.paidAt # NoTime}
        on(d) == {i \in mine : RowDay(i.row.paidAt) = d}
        days == {RowDay(i.row.paidAt) : i \in mine}
    IN  SumFunction([d \in days |-> SumFunction([i \in on(d) |-> Paid(i)])])

\* LifetimeValue of the customer page.
LifetimeValue(b) ==
    SumFunction([i \in {j \in With("paid", Numbered(invoices)) : j.row.buyer = b} |-> Paid(i)])
-----------------------------------------------------------------------------
(* What the figures must satisfy *)

Due(i) == i.row.due

\* Counted neither as revenue nor as outstanding.
Aside(r) == With("draft", r.invoices) \cup With("refunded", r.invoices)

\* Every invoice of the period is revenue, outstanding or aside; the trend
\* misses exactly the invoices of the first hours that belong to the day
\* before in the zone of the process; rounding the fee of each invoice moves
\* the sum by at most half a unit each; what is revenue has a payment.
RevenueAddsUp(r) ==
    LET trendGross == SumFunction([d \in Points(r) |-> TrendGross(d, r)])
        trendFees == SumFunction([d \in Points(r) |-> TrendFees(d, r)])
        paidRows == With("paid", r.invoices)
        early == {i \in r.invoices : i.row.created < r.from + Behind}
        fees == fee(Gross(r))
        received == {p \in r.payments : p.row.status \in Received}
    IN  /\ Gross(r) + outstandingInvoices(r.invoices).amount
              + SumFunction([i \in Aside(r) |-> Due(i)])
              = SumFunction([i \in r.invoices |-> Due(i)])
        /\ trendGross = Gross(r) - sumPaidInvoices(early)
        /\ early = {} => 2 * (trendFees - fees) \in -Cardinality(paidRows) - 1
                                                         .. Cardinality(paidRows) + 1
        /\ now <= r.to => Gross(r) <= SumFunction([p \in received |-> Amount(p)])
        /\ SumFunction([p \in Plans |-> PlanRevenue(p, r.payments)])
              = SumFunction([m \in PaymentMethods |-> MethodStats(m, r.payments).amount])

\* The invoices were read first: whom they belong to is in the later reads, so
\* nobody at risk is left out; no invoice is of both periods, and what is canceled
\* has the time of its cancellation (what a payment revived may have one too).
ReadsMatch(r) ==
    /\ {i.row.buyer : i \in r.invoices \cup r.previous} \subseteq r.customers
    /\ r.customers \subseteq {s.n : s \in r.subscriptions}
    /\ AtRisk(r) = Troubled(r)
    /\ {i.n : i \in r.invoices} \cap {i.n : i \in r.previous} = {}
    /\ \A s \in r.subscriptions : s.row.status = "canceled" => s.row.canceled # NoTime

\* So the ranking misses no revenue.
ReadsFit(r) ==
    \A t \in TopCustomers(r) :
        Cardinality(Ranked(r)) <= Listed
        => SumFunction([c \in t |-> CustomerRevenue(c, r)]) = Gross(r)

\* Every subscription and attempt is counted in one group.  The trend misses
\* the attempts of the first hours, and has no cancellation that is not of the
\* period.
CountsAddUp(r) ==
    LET group(g) == SubscriptionCount(g, r.subscriptions)
        all == Cardinality(r.subscriptions)
    IN  /\ SumFunction([g \in DOMAIN StatusGroups |-> group(g)]) = all
        /\ SumFunction(paymentSourceBreakdown(r.subscriptions)) = all
        /\ SumFunction([m \in PaymentMethods |-> MethodStats(m, r.payments).attempts])
              = Cardinality(r.payments)
        /\ churnRate(r) \in 0 .. 1000
        /\ successRate(r.payments) + failureRate(r.payments) <= 1001
        /\ now <= r.to => SumFunction([d \in Points(r) |-> TrendCanceled(d, r)])
                              <= Churned(r.subscriptions, r.from, r.to)
        /\ \A status \in {"SUCCESS", "PAYMENT_FAILED"} :
              LET early == {p \in With(status, r.payments) : p.row.created < r.from + Behind}
                  counted == SumFunction([d \in Points(r) |-> TrendPayments(d, status, r)])
              IN  counted + Cardinality(early) = Cardinality(With(status, r.payments))
        /\ \A p \in Plans : PlanChurn(p, r.subscriptions) \in 1 .. 999
              => \E s \in With("active", r.subscriptions) : s.row.plan = p

\* What the tools say of the revenue goes with the insights: the net follows
\* the gross, and the insight names the direction of the change.
ExplanationsAgree(r) ==
    LET change == explained("gross_revenue", r) IN
    /\ change >= 0 => explained("net_revenue", r) >= 0
    /\ explained("gross_revenue", r)
          = explained("net_revenue", r) + explained("platform_fees", r)
    /\ "growing" \in insights(r) => change > 0
    /\ "declined" \in insights(r) => change < 0
    /\ "strongest_plan" \in insights(r) <=> With("SUCCESS", r.payments) # {}

\* The figures of every report agree with each other however the tables
\* changed between its reads; the portal and the customer page show the same
\* total, and together they show no more than what was received.
ReportAddsUp ==
    /\ Ready => /\ RevenueAddsUp(report) /\ ReadsMatch(report) /\ ReadsFit(report)
                /\ CountsAddUp(report) /\ ExplanationsAgree(report)
    /\ \A b \in Buyers : PortalSpent(b) = LifetimeValue(b)
    /\ SumFunction([b \in Buyers |-> LifetimeValue(b)])
          <= SumFunction([p \in {q \in Numbered(payments) : q.row.status \in Received}
                             |-> Amount(p)])

\* Rows and the report keep their types.
DashboardTypeOK ==
    /\ now \in Start .. Horizon
    /\ \A b \in Buyers : subs[b].status \in {"none", "attention", "active", "past_due", "paused",
                                              "canceled"}
    /\ \A i \in DOMAIN invoices :
          invoices[i].status \in {"draft", "open", "paid", "failed", "refunded"}
    /\ \A k \in DOMAIN payments : payments[k].invoice \in DOMAIN invoices \cup {NoInvoice}
    /\ report.pc \in 0 .. Len(Reads) + 1
=============================================================================
