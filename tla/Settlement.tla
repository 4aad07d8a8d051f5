----------------------------- MODULE Settlement -----------------------------
(***************************************************************************)
(* Paying merchants out: ProcessDueSettlements and processBatch            *)
(* (services/settlement.go), a cron job of every API process, and          *)
(* RefundPaymentOrInvoice (services/transaction.go), which gives the money *)
(* of a payment back to its customer.  The two never look at each other:   *)
(* what keeps them apart is time.                                          *)
(***************************************************************************)
EXTENDS Integers, FiniteSets, Sequences

CONSTANTS
    Payments, \* collected payments, each with at most one settlement
    NoPayment,
    Tenants,
    TenantOf, \* the tenant of each payment
    Checkouts, \* the payments that an event of the provider brings; the job makes the others
    Invoices,
    InvoiceOf, \* the invoice of each payment
    Replicas, \* API processes, each of which runs the job
    Callers,  \* API requests that refund
    Day,      \* ticks in a day
    JobTick,  \* the tick of a day in which the job runs
    Window,   \* ticks in which a payment may be refunded
    Delay,    \* ticks from the payment to the date of its settlement
    StartDay, \* the weekday on which time starts, 0 for Monday
    SoldBy,   \* bound: the last tick in which a payment is collected
    MaxTime,  \* bound: the last tick
    MaxFaults \* bound: crashes, lost answers and failed calls

ASSUME SettlementAssumption ==
    /\ NoPayment \notin Payments
    /\ TenantOf \in [Payments -> Tenants] /\ InvoiceOf \in [Payments -> Invoices]
    /\ Checkouts \subseteq Payments
    /\ IsFiniteSet(Replicas) /\ IsFiniteSet(Callers) /\ IsFiniteSet(Payments)
    /\ Day \in Nat \ {0} /\ JobTick \in 0 .. Day - 1
    /\ Window \in Nat /\ Delay \in Nat /\ Window < Delay
    /\ StartDay \in 0 .. 6
    /\ SoldBy \in Nat /\ MaxTime \in Nat /\ MaxFaults \in Nat

VARIABLES
    now,     \* the clock
    paidAt,  \* when each payment was collected
    intent,  \* the status of its payment intent
    row,     \* its settlement
    invoice, \* the invoices: their status and when they were paid last
    payouts, \* the settlement_payouts, in the order they were created
    moved,   \* payouts whose transfer the provider made
    refunds, \* how often the provider refunded each payment
    job,     \* where the job of each replica is
    ran,     \* replicas whose job started in this tick
    call,    \* where each refund call is, with its copy of a settlement
    faults   \* how many faults happened (bounded by MaxFaults)

provider == <<moved, refunds>>
books == <<paidAt, intent, row, invoice>>
vars == <<now, books, payouts, provider, job, ran, call, faults>>

Never == -1
NoRow == [st |-> "none", due |-> Never, payout |-> 0]
IdleJob == [pc |-> "idle", todo |-> {}, payout |-> 0, ok |-> FALSE]
IdleCall == [pc |-> "idle", pay |-> NoPayment, of |-> NoPayment, copy |-> NoRow]
OpenInvoice == [st |-> "open", at |-> Never]

Fault == faults < MaxFaults /\ faults' = faults + 1
-----------------------------------------------------------------------------
(* Time.  Jobs and calls end in the tick they start in: a tick stands for  *)
(* hours.                                                                  *)

JobTime(t) == t % Day = JobTick /\ (StartDay + (t \div Day)) % 7 < 5

Tick ==
    /\ now < MaxTime
    /\ JobTime(now) => ran = Replicas
    /\ \A w \in Replicas : job[w].pc = "idle"
    /\ \A c \in Callers : call[c].pc = "idle"
    /\ now' = now + 1
    /\ ran' = {}
    /\ UNCHANGED <<books, payouts, provider, job, call, faults>>

\* A payment succeeds.  A checkout stores its settlement and the invoice at once,
\* unless the invoice is paid.  Of the payments the job makes a debit has a
\* settlement (an error of its insert is dropped), a charged card has none; the
\* invoice is stored whatever became of it meanwhile, or that fails.
Collect(p) ==
    LET paid == [invoice EXCEPT ![InvoiceOf[p]] = [st |-> "paid", at |-> now]]
        settled == [row EXCEPT ![p] = [st |-> "pending", due |-> now + Delay, payout |-> 0]] IN
    /\ paidAt[p] = Never /\ now <= SoldBy
    /\ paidAt' = [paidAt EXCEPT ![p] = now]
    /\ intent' = [intent EXCEPT ![p] = "success"]
    /\ \/ /\ p \in Checkouts /\ invoice[InvoiceOf[p]].st # "paid"
          /\ row' = settled /\ invoice' = paid /\ UNCHANGED faults
       \/ /\ p \notin Checkouts
          /\ row' \in {row, settled}
          /\ \/ invoice' = paid /\ UNCHANGED faults
             \/ UNCHANGED invoice /\ Fault
    /\ UNCHANGED <<now, payouts, provider, job, ran, call>>
-----------------------------------------------------------------------------
(* ProcessDueSettlements: the date of a settlement is compared with the    *)
(* midnight before the job.                                                *)

Midnight == now - (now % Day)
\* Mutant of Due: only what became due since the day before.
DueSinceYesterday ==
    {p \in Payments : row[p].st = "pending" /\ row[p].due \in (Midnight - Day + 1) .. Midnight}

Due == {p \in Payments : row[p].st = "pending" /\ row[p].due <= Midnight}

\* A job that has the settlements todo before it.
Paying(todo) ==
    IF todo = {} THEN IdleJob ELSE [pc |-> "pay", todo |-> todo, payout |-> 0, ok |-> FALSE]

LoadDue(w) ==
    /\ JobTime(now) /\ w \notin ran
    /\ ran' = ran \cup {w}
    /\ job' = [job EXCEPT ![w] = Paying(Due)]
    /\ UNCHANGED <<now, books, payouts, provider, call, faults>>

Batch(w, t) == {p \in job[w].todo : TenantOf[p] = t}

\* The job goes on after a batch.
NextBatch(w, batch) == job' = [job EXCEPT ![w] = Paying(job[w].todo \ batch)]

\* The job works on payout q; ok: the provider said that the transfer is made.
WorkOn(w, pc, q, ok) ==
    job' = [job EXCEPT ![w] = [pc |-> pc, todo |-> job[w].todo, payout |-> q, ok |-> ok]]

CreatePayout(w) ==
    /\ job[w].pc = "pay"
    /\ \E t \in Tenants :
         /\ Batch(w, t) # {}
         /\ payouts' = Append(payouts, [st |-> "pending", batch |-> Batch(w, t)])
    /\ WorkOn(w, "transfer", Len(payouts) + 1, FALSE)
    /\ UNCHANGED <<now, books, provider, ran, call, faults>>

\* The transfer is made, declined, or made without an answer.
Transfer(w) ==
    LET q == job[w].payout IN
    /\ job[w].pc = "transfer"
    /\ \/ /\ moved' = moved \cup {q}
          /\ WorkOn(w, "store", q, TRUE)
          /\ UNCHANGED faults
       \/ /\ Fault
          /\ moved' \in {moved, moved \cup {q}}
          /\ WorkOn(w, "store", q, FALSE)
    /\ UNCHANGED <<now, books, payouts, refunds, ran, call>>

\* Mutants of StoreResult: the answer of the transfer is not looked at; the
\* settlements are not updated; a failed payout fails its settlements.
StoreResultAnyway(w) ==
    LET q == job[w].payout  batch == payouts[q].batch IN
    /\ job[w].pc = "store"
    /\ payouts' = [payouts EXCEPT ![q].st = "completed"]
    /\ row' = [p \in Payments |->
                IF p \in batch THEN [row[p] EXCEPT !.st = "completed", !.payout = q] ELSE row[p]]
    /\ NextBatch(w, batch)
    /\ UNCHANGED <<now, paidAt, intent, invoice, provider, ran, call, faults>>

StoreResultPayoutOnly(w) ==
    /\ job[w].pc = "store"
    /\ payouts' = [payouts EXCEPT ![job[w].payout].st = IF job[w].ok THEN "completed" ELSE "failed"]
    /\ NextBatch(w, payouts[job[w].payout].batch)
    /\ UNCHANGED <<now, books, provider, ran, call, faults>>

StoreResultMarks(w) ==
    LET q == job[w].payout  batch == payouts[q].batch
        st == IF job[w].ok THEN "completed" ELSE "failed" IN
    /\ job[w].pc = "store"
    /\ payouts' = [payouts EXCEPT ![q].st = st]
    /\ row' = [p \in Payments |->
                IF p \in batch THEN [row[p] EXCEPT !.st = st, !.payout = q] ELSE row[p]]
    /\ NextBatch(w, batch)
    /\ UNCHANGED <<now, paidAt, intent, invoice, provider, ran, call, faults>>

\* A failed payout leaves its settlements pending: a later run pays them.
StoreResult(w) ==
    LET q == job[w].payout  batch == payouts[q].batch IN
    /\ job[w].pc = "store"
    /\ payouts' = [payouts EXCEPT ![q].st = IF job[w].ok THEN "completed" ELSE "failed"]
    /\ row' = [p \in Payments |->
                IF job[w].ok /\ p \in batch
                THEN [st |-> "completed", due |-> row[p].due, payout |-> q] ELSE row[p]]
    /\ NextBatch(w, batch)
    /\ UNCHANGED <<now, paidAt, intent, invoice, provider, ran, call, faults>>

\* The tenant cannot be read, a payout cannot be created or its result stored:
\* the job goes on with the next batch.
BatchFails(w) ==
    /\ Fault
    /\ \/ /\ job[w].pc = "pay"
          /\ \E t \in Tenants :
               /\ Batch(w, t) # {}
               /\ NextBatch(w, Batch(w, t))
       \/ /\ job[w].pc = "store"
          /\ NextBatch(w, payouts[job[w].payout].batch)
    /\ UNCHANGED <<now, books, payouts, provider, ran, call>>

\* The process dies; cron does not run a missed job again.
Crash(w) ==
    /\ Fault
    /\ job[w].pc # "idle"
    /\ job' = [job EXCEPT ![w] = IdleJob]
    /\ UNCHANGED <<now, books, payouts, provider, ran, call>>
-----------------------------------------------------------------------------
(* RefundPaymentOrInvoice                                                  *)

\* Mutants of CanRefund: at any time after the payment; again after a refund.
CanRefundLater(p) ==
    p \in Checkouts /\ intent[p] = "success" /\ invoice[InvoiceOf[p]].st = "paid"

CanRefundAgain(p) ==
    LET i == invoice[InvoiceOf[p]] IN
    p \in Checkouts /\ intent[p] # "none" /\ i.st # "open" /\ now - i.at <= Window

\* A payment the job made has no transaction at the provider that could be named,
\* so its refund stops before the provider is asked.
CanRefund(p) ==
    LET i == invoice[InvoiceOf[p]] IN
    p \in Checkouts /\ intent[p] = "success" /\ i.st = "paid" /\ now - i.at <= Window

Found(i) == {p \in Payments : InvoiceOf[p] = i /\ row[p].st # "none"}

\* The payment, named itself or found as a successful one of the invoice, and a
\* settlement: any of the invoice, for the query knows nothing else.
RefundRead(c, p) ==
    LET found == Found(InvoiceOf[p]) IN
    /\ call[c].pc = "idle"
    /\ CanRefund(p)
    /\ \E s \in IF found = {} THEN {NoPayment} ELSE found :
         call' = [call EXCEPT ![c] =
                    [pc |-> "ask", pay |-> p, of |-> s,
                     copy |-> IF s = NoPayment THEN NoRow ELSE row[s]]]
    /\ UNCHANGED <<now, books, payouts, provider, job, ran, faults>>

\* The provider refuses, refunds, or refunds without an answer.
RefundAsk(c) ==
    /\ call[c].pc = "ask"
    /\ \/ UNCHANGED <<refunds, faults>> /\ call' = [call EXCEPT ![c] = IdleCall]
       \/ /\ refunds' = [refunds EXCEPT ![call[c].pay] = refunds[call[c].pay] + 1]
          /\ \/ call' = [call EXCEPT ![c] = [call[c] EXCEPT !.pc = "store"]] /\ UNCHANGED faults
             \/ call' = [call EXCEPT ![c] = IdleCall] /\ Fault
    /\ UNCHANGED <<now, books, payouts, moved, job, ran>>

RefundStore(c) ==
    /\ call[c].pc = "store"
    /\ intent' = [intent EXCEPT ![call[c].pay] = "refund"]
    /\ invoice' = [invoice EXCEPT ![InvoiceOf[call[c].pay]].st = "refunded"]
    /\ row' = IF call[c].of = NoPayment THEN row
              ELSE [row EXCEPT ![call[c].of] = [call[c].copy EXCEPT !.st = "refunded"]]
    /\ call' = [call EXCEPT ![c] = IdleCall]
    /\ UNCHANGED <<now, paidAt, payouts, provider, job, ran, faults>>

RefundFails(c) ==
    /\ Fault
    /\ call[c].pc = "store"
    /\ call' = [call EXCEPT ![c] = IdleCall]
    /\ UNCHANGED <<now, books, payouts, provider, job, ran>>
-----------------------------------------------------------------------------
Init ==
    /\ now = 0
    /\ paidAt = [p \in Payments |-> Never]
    /\ intent = [p \in Payments |-> "none"]
    /\ row = [p \in Payments |-> NoRow]
    /\ invoice = [i \in Invoices |-> OpenInvoice]
    /\ payouts = <<>>
    /\ moved = {}
    /\ refunds = [p \in Payments |-> 0]
    /\ job = [w \in Replicas |-> IdleJob]
    /\ ran = {}
    /\ call = [c \in Callers |-> IdleCall]
    /\ faults = 0

Next ==
    \/ Tick
    \/ \E p \in Payments : Collect(p)
    \/ \E w \in Replicas : LoadDue(w) \/ CreatePayout(w) \/ Transfer(w) \/ StoreResult(w)
                            \/ BatchFails(w) \/ Crash(w)
    \/ \E c \in Callers : RefundAsk(c) \/ RefundStore(c) \/ RefundFails(c)
                           \/ \E p \in Payments : RefundRead(c, p)

Spec == Init /\ [][Next]_vars
-----------------------------------------------------------------------------
Row == [st : {"none", "pending", "completed", "refunded"}, due : Int, payout : Nat]
Payout == [st : {"pending", "completed", "failed"}, batch : SUBSET Payments]
Job == [pc : {"idle", "pay", "transfer", "store"}, todo : SUBSET Payments,
        payout : Nat, ok : BOOLEAN]
Call == [pc : {"idle", "ask", "store"}, pay : Payments \cup {NoPayment},
         of : Payments \cup {NoPayment}, copy : Row]
Invoice == [st : {"open", "paid", "refunded"}, at : (0 .. MaxTime) \cup {Never}]

\* Rows, payouts, jobs and calls keep their types; only payouts ever fail.
TypeOK ==
    /\ now \in 0 .. MaxTime
    /\ paidAt \in [Payments -> (0 .. MaxTime) \cup {Never}]
    /\ intent \in [Payments -> {"none", "success", "refund"}]
    /\ row \in [Payments -> Row]
    /\ invoice \in [Invoices -> Invoice]
    /\ payouts \in Seq(Payout)
    /\ moved \subseteq DOMAIN payouts
    /\ refunds \in [Payments -> Nat]
    /\ job \in [Replicas -> Job]
    /\ ran \subseteq Replicas
    /\ call \in [Callers -> Call]
    /\ faults \in 0 .. MaxFaults

Transfers(p) == {q \in moved : p \in payouts[q].batch}

\* A merchant receives the money of one payment once for every API process
\* that runs the job, plus once for each fault, however many days the
\* settlement is seen by.
PaidOutBounded ==
    \A p \in Payments : Cardinality(Transfers(p)) <= Cardinality(Replicas) + faults

\* A settlement shown as completed names a completed payout that contains it
\* and whose transfer the provider made.
CompletedBacked ==
    \A p \in Payments : row[p].st = "completed" =>
        /\ row[p].payout \in Transfers(p)
        /\ payouts[row[p].payout].st = "completed"

Alone(p) == \A x \in Payments : InvoiceOf[x] = InvoiceOf[p] => x = p

\* No payment is both refunded to the customer and paid out to the merchant,
\* unless something failed or its invoice has a second payment, whose settlement
\* the refund may take: the refund window ends before the job may see the
\* settlement, and a refund takes the settlement out of the job's sight.  The
\* provider refunds it at most once for each concurrent call and each fault,
\* however often its invoice is paid.
MoneyOnce ==
    \A p \in Payments :
        /\ faults = 0 /\ Alone(p) => refunds[p] = 0 \/ Transfers(p) = {}
        /\ refunds[p] <= Cardinality(Callers) + faults

\* A settlement is completed or refunded within the longest wait for a run, a
\* weekend, after its date; every fault may cost another such wait.
PaidInTime ==
    \A p \in Payments :
        row[p].st \notin {"none", "completed", "refunded"}
            => now <= row[p].due + 3 * (1 + faults) * Day + JobTick
=============================================================================
