---------------------------- MODULE BillingData ----------------------------
(***************************************************************************)
(* The rows the billing services share: one subscription, its invoices,    *)
(* the payments collected for them, the payment sources, the facts only    *)
(* the payment provider knows, and the local copies each running request   *)
(* or cron job holds.  Every write of a row is a write of the WHOLE row    *)
(* (Repository.Update selects "*"), so a stale copy overwrites what others *)
(* wrote in between; Repository.FindRaw has no ORDER BY, so a lookup that  *)
(* matches several rows returns any of them.                               *)
(***************************************************************************)
EXTENDS Integers, FiniteSets

CONSTANTS
    DueJobs,      \* replicas of the cron job invoice-processing
    UpcomingJobs, \* replicas of the cron job invoice-upcoming
    Requests,     \* API requests that call the invoice or subscription service
    MaxInv,       \* bound: invoices ever created
    MaxPay,       \* bound: payment references ever generated
    Period,       \* length of a billing cycle, in ticks
    RetryDelay,   \* the 24 hours of failInvoice, in ticks
    Lead,         \* the 3 days of CreateUpcomingInvoices, in ticks
    AllowRetries, \* Subscription.AllowRetries
    MaxTime,      \* bound: the last tick, it stands for all later time
    MaxAborts,    \* bound: crashes and failed database calls
    MaxRequests   \* bound: API calls started

ASSUME BillingAssumption ==
    /\ DueJobs \cap UpcomingJobs = {}
    /\ (DueJobs \cup UpcomingJobs) \cap Requests = {}
    /\ MaxInv \in Nat
    /\ MaxPay \in Nat
    /\ Period \in Nat \ {0}
    /\ RetryDelay \in Nat \ {0}
    /\ Lead \in Nat
    /\ AllowRetries \in BOOLEAN
    /\ MaxTime \in Nat
    /\ MaxAborts \in Nat
    /\ MaxRequests \in Nat

Workers == DueJobs \cup UpcomingJobs \cup Requests

\* Rows and references are named by the order of their creation; 0 is null.
InvIds == 1 .. MaxInv
PayIds == 1 .. MaxPay
NoInv == 0
NoPay == 0

VARIABLES
    now,        \* the clock
    sub,        \* the row of subscriptions
    inv,        \* the rows of invoices; st = "none": not created
    pay,        \* payment_intents, nomba_initiations and settlements rows,
                \* one record per payment reference; kind = "none": unused
    source,     \* status of the customer's card and bank payment sources
    offered,    \* checkout orders whose link has been given out
    taken,      \* payments for which the provider took the money
    refused,    \* payments the provider declined at least once
    applied,    \* history: how often a payment advanced the billing cycle
    chargedAt,  \* history: when the provider was asked to charge a payment
    wk,         \* where each worker is, with its copies of the rows
    aborts,     \* how many aborts happened (bounded by MaxAborts)
    requests    \* how many API calls were started (bounded by MaxRequests)

dbVars   == <<sub, inv, pay, source>>
pspVars  == <<offered, taken, refused>>
vars == <<now, sub, inv, pay, source, offered, taken, refused, applied,
          chargedAt, wk, aborts, requests>>
history == <<applied, chargedAt>>
-----------------------------------------------------------------------------
(* Rows *)

\* NextPaymentAttemptAt may be null; time is counted from 0.
NoTime == -1

\* The clock stops at MaxTime; what is planned for later is planned for then.
Later(d) == IF now + d > MaxTime THEN MaxTime ELSE now + d

\* CurrentBillingCycleStart and DueAt are kept as the number of the cycle.
Start(c) == c * Period

\* PaymentSourceType; a subscription is attached to one source or to none.
Kinds == {"card", "bank"}

SubStatus == {"attention", "active", "past_due", "paused", "canceled"}
SubRow == [status : SubStatus, cycle : Nat, src : Kinds \cup {"none"}]

InvStatus == {"none", "draft", "open", "paid", "failed", "refunded"}
InvRow == [st : InvStatus, due : Nat, attempts : Nat, next : Nat \cup {NoTime},
           link : PayIds \cup {NoPay}]

\* kind: an order of the hosted checkout (purpose CardSubscriptionPayment),
\* a charge of a stored card (ChargeCardPayment), a debit of a mandate
\* (DirectDebitCharge).
PayRow == [kind : {"none", "checkout", "card", "bank"},
           inv : InvIds \cup {NoInv},
           intent : {"none", "pending", "success", "failed", "refund"},
           init : {"none", "pending", "completed", "failed"},
           settlements : Nat]

NewInv(due, st) ==
    [st |-> st, due |-> due, attempts |-> 0, next |-> Start(due), link |-> NoPay]

NoInvoice == [st |-> "none", due |-> 0, attempts |-> 0, next |-> NoTime, link |-> NoPay]

NoPayment == [kind |-> "none", inv |-> NoInv, intent |-> "none",
              init |-> "none", settlements |-> 0]

Fresh(p) == /\ p \in PayIds
            /\ pay[p].kind = "none"
            /\ \A q \in PayIds : q < p => pay[q].kind # "none"

FreshInvoice(i) == /\ i \in InvIds
                   /\ inv[i].st = "none"
                   /\ \A j \in InvIds : j < i => inv[j].st # "none"
-----------------------------------------------------------------------------
(* Workers *)

Pcs == {"idle", "ensure", "create", "open", "attach", "source", "verify",
        "intent", "count", "initiate", "charge", "accept", "complete",
        "settle", "reject", "failInit", "failSoft", "failHard", "pastDue", "pause",
        "paid", "advance", "order", "offer", "saveOrder", "saveLink",
        "retry", "reopen", "unpause", "link", "openLink", "refund", "refunded",
        "cancel", "disable", "disableLinked", "disableOnly", "mandate", "store"}

Worker == [pc : Pcs, want : {"draft", "open"}, sub : SubRow,
           i : InvIds \cup {NoInv}, inv : InvRow, p : PayIds \cup {NoPay}]

Idle == [pc |-> "idle", want |-> "open",
         sub |-> [status |-> "active", cycle |-> 0, src |-> "none"],
         i |-> NoInv, inv |-> NoInvoice, p |-> NoPay]

At(w, pc) == wk[w].pc = pc

\* The position and the copies of worker w become row.
Becomes(w, row) == wk' = [wk EXCEPT ![w] = row]

\* Worker w continues at pc with the copies it has.
Goto(w, pc) == Becomes(w, [wk[w] EXCEPT !.pc = pc])

\* The function worker w was running returns: its copies are gone.
Return(w) == Becomes(w, Idle)

TypeOK ==
    /\ now \in Nat
    /\ sub \in SubRow
    /\ inv \in [InvIds -> InvRow]
    /\ pay \in [PayIds -> PayRow]
    /\ source \in [Kinds -> {"absent", "active", "inactive"}]
    /\ offered \subseteq PayIds
    /\ taken \subseteq PayIds
    /\ refused \subseteq PayIds
    /\ applied \in [PayIds -> Nat]
    /\ chargedAt \in [PayIds -> Nat \cup {NoTime}]
    /\ wk \in [Workers -> Worker]
    /\ aborts \in Nat
    /\ requests \in Nat
=============================================================================
