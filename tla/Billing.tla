------------------------------ MODULE Billing ------------------------------
(***************************************************************************)
(* The billing system: the invoice cron jobs, the API calls, the           *)
(* provider's webhooks, the customer and the clock, over shared rows.      *)
(***************************************************************************)
EXTENDS InvoiceService, PaymentWebhook, SubscriptionApi

CONSTANTS
    Origins,      \* how the subscription came to be: subset of OriginKinds
    FirstSources, \* the payment sources that may be attached at creation
    Events        \* outside events that happen: subset of EventKinds

OriginKinds == {"running", "created"}
EventKinds == {"customer", "failed", "card", "disable", "switch", "mandate",
               "cancel", "retry", "link", "refund"}

ASSUME ScenarioAssumption ==
    /\ Origins \subseteq OriginKinds
    /\ FirstSources \subseteq Kinds \cup {"none"}
    /\ Events \subseteq EventKinds

\* "running": an active subscription whose current cycle has no invoice yet, as
\* left by the activation of a mandate or by the payment of the cycle before;
\* it has a payment source.  "created": CreateSubscription leaves status
\* "attention" and an open invoice without a next attempt.
FirstSub(o, k) == [status |-> IF o = "created" THEN "attention" ELSE "active",
                   cycle |-> 0, src |-> k]

Init ==
    /\ now = 0
    /\ \E o \in Origins, k \in FirstSources :
         /\ o = "running" => k # "none"
         /\ sub = FirstSub(o, k)
         /\ source = [j \in Kinds |-> IF j = k THEN "active" ELSE "absent"]
         /\ IF o = "created"
            THEN \E i \in InvIds :
                   inv = [j \in InvIds |->
                            IF j = i THEN [NewInv(0, "open") EXCEPT !.next = NoTime]
                            ELSE NoInvoice]
            ELSE inv = [j \in InvIds |-> NoInvoice]
    /\ pay = [p \in PayIds |-> NoPayment]
    /\ offered = {} /\ taken = {} /\ refused = {}
    /\ applied = [p \in PayIds |-> 0]
    /\ chargedAt = [p \in PayIds |-> NoTime]
    /\ wk = [w \in Workers |-> Idle]
    /\ aborts = 0 /\ requests = 0

Tick ==
    /\ now < MaxTime
    /\ now' = now + 1
    /\ UNCHANGED <<sub, inv, pay, source, pspVars, history, wk, aborts, requests>>

RequestStart(w) ==
    \/ "retry" \in Events /\ \E i \in InvIds : RetryRead(w, i)
    \/ "link" \in Events /\ \E i \in InvIds : LinkRead(w, i)
    \/ "refund" \in Events /\ \E i \in InvIds, p \in PayIds : RefundRead(w, i, p)
    \/ "cancel" \in Events /\ CancelRead(w)
    \/ "disable" \in Events /\ \E k \in Kinds : DisableRead(w, k)
    \/ "switch" \in Events /\ \E k \in Kinds : SwitchRead(w, k)
    \/ "mandate" \in Events /\ \E r \in {"ACTIVE", "SUSPENDED", "DELETED"} :
                                    MandateRead(w, r)

Outside ==
    \/ \E p \in PayIds :
         \/ "customer" \in Events /\ Pay(p)
         \/ "customer" \in Events /\ Decline(p)
         \/ PaymentSuccess(p)
         \/ "failed" \in Events /\ PaymentFailed(p)
    \/ "card" \in Events /\ CardUpdated

Fault(w) == Abort(w) \/ ChargeAnswerLost(w) \/ IgnoredError(w)

Next ==
    \/ Tick
    \/ \E w \in DueJobs : LoadDue(w)
    \/ \E w \in UpcomingJobs : LoadUpcoming(w)
    \/ \E w \in Requests : RequestStart(w)
    \/ \E w \in Workers : Step(w) \/ Commit(w) \/ Fault(w)
    \/ Outside

Spec == Init /\ [][Next]_vars

\* Time passes, cron jobs start and running functions finish; nothing makes a
\* customer, a merchant or the provider act.
FairSpec ==
    /\ Spec
    /\ WF_vars(Tick)
    /\ \A w \in DueJobs : WF_vars(LoadDue(w))
    /\ \A w \in Workers : WF_vars(Step(w) \/ Commit(w))
-----------------------------------------------------------------------------
(* Properties that hold whatever interleaves and whatever fails            *)

Credited == {p \in PayIds : applied[p] > 0}

\* No invoice is marked paid, by a charge or by a webhook, unless the provider
\* took money for that invoice.
PaidBacked ==
    \A i \in InvIds : inv[i].st = "paid" => \E p \in taken : pay[p].inv = i

\* The success of one payment advances the billing cycle at most once, however
\* often its webhook is delivered.
AppliedOnce == \A p \in PayIds : applied[p] <= 1

\* The customer never gets more billing cycles than payments were taken.
NoFreeCycle == Credited \subseteq taken /\ sub.cycle <= Cardinality(Credited)

\* The merchant is owed at most one settlement per payment, and only for money
\* the provider took.
SettledOnce ==
    \A p \in PayIds : /\ pay[p].settlements <= 1
                      /\ pay[p].settlements = 1 => p \in taken

\* Money is conserved between the provider, the subscription and the merchant,
\* whoever stores whatever copy: one success is one cycle and one settlement.
MoneyConserved == AppliedOnce /\ NoFreeCycle /\ SettledOnce

\* An order that is completed was credited and settled in the same transaction,
\* and one that is not never was: webhooks may repeat but cannot half-apply.
CheckoutAtomic ==
    \A p \in PayIds : pay[p].kind = "checkout" =>
        /\ applied[p] = IF pay[p].init = "completed" THEN 1 ELSE 0
        /\ pay[p].settlements = applied[p]

\* The rows implement the ledger: whatever jobs, calls and webhooks do to the
\* rows they share, money is only ever taken, credited and settled as
\* PaymentLedger allows, and no stored copy moves the subscription past it.
Ledger == INSTANCE PaymentLedger WITH
    Payments <- PayIds,
    credits <- applied,
    settlements <- [p \in PayIds |-> pay[p].settlements],
    cycle <- sub.cycle

LedgerKept == Ledger!Spec
-----------------------------------------------------------------------------
(* Properties of one cron replica that is never interrupted                *)

DueOf(p) == inv[pay[p].inv].due

\* The provider takes the money for a billing cycle only once.
CollectedOnce ==
    \A p, q \in taken : DueOf(p) = DueOf(q) => p = q

\* Attempts on an invoice stop at three.  An interruption of the job can add
\* one, a retry call three: its own, and one of the job before and one after
\* it, since the call opens a failed invoice and stores its copy once more.
AttemptsBounded ==
    \A i \in InvIds : inv[i].attempts <= MaxAttempts + aborts + 3 * requests

\* Two charges for an invoice are 24 hours apart (the last tick excepted, it
\* stands for all later time).
RetrySpacing ==
    \A p, q \in PayIds :
        /\ p # q /\ pay[p].kind # "none" /\ pay[p].inv = pay[q].inv
        /\ chargedAt[p] # NoTime /\ chargedAt[p] <= chargedAt[q]
        /\ chargedAt[q] < MaxTime
        => chargedAt[q] - chargedAt[p] >= RetryDelay

\* Whatever jobs run and whenever retries fall due, the charges of a cycle keep
\* their distance and one of them at most takes money.
ChargesAsPlanned == RetrySpacing /\ CollectedOnce

\* A failed invoice of the current cycle leaves the subscription out of the
\* billing job's reach, once the job is done with it.
FailedMeansPaused ==
    (\A w \in Workers : At(w, "idle")) =>
    \A i \in InvIds : inv[i].st = "failed" /\ inv[i].due = sub.cycle
                     => sub.status \in {"paused", "canceled"}

\* Failed charges give up only after three attempts.
FailedAfterRetries ==
    (\A w \in Workers : At(w, "idle")) /\ AllowRetries =>
    \A i \in InvIds : inv[i].st = "failed" =>
                        inv[i].attempts >= MaxAttempts

\* Every taken payment the system knows to be successful is settled.
SuccessSettled ==
    (\A w \in Workers : At(w, "idle")) =>
    \A p \in PayIds : pay[p].intent = "success" => pay[p].settlements = 1

\* Paying an invoice moves the subscription past its cycle: a paid invoice of
\* the current cycle would be found by every later run and never be left.
PaidMeansAdvanced ==
    (\A w \in Workers : At(w, "idle")) =>
    \A i \in InvIds : inv[i].st = "paid" => inv[i].due < sub.cycle

\* Once the jobs are idle the two rows of a closed invoice agree: a failed one
\* had its three attempts and has stopped its subscription, a paid one has
\* moved it on.
ClosedInvoices == FailedAfterRetries /\ FailedMeansPaused /\ PaidMeansAdvanced

\* A canceled subscription is never revived: no stale copy, no retry and no late
\* webhook takes it back.
CanceledStays == [][sub.status = "canceled" => sub'.status = "canceled"]_sub

Awaiting == \E i \in InvIds : /\ inv[i].st = "open" /\ inv[i].due = sub.cycle
                              /\ inv[i].link # NoPay

\* A cycle that has begun is paid, or ends with the subscription paused or
\* canceled, or waits for the customer at a checkout link: no status the job's
\* filter may leave out makes it forgotten.
DueIsResolved ==
    \A c \in 0 .. MaxTime :
        sub.cycle = c /\ Start(c) <= now
        ~> sub.cycle # c \/ sub.status \in {"paused", "canceled"} \/ Awaiting
=============================================================================
