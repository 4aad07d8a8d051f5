-------------------------- MODULE SettlementProofs --------------------------
(***************************************************************************)
(* What settlement promises for any number of payments, processes, refund  *)
(* calls and faults.  Layers, each inductive with those before it:         *)
(*   Backing   a job's payout is its own and completed rows have a payout  *)
(*   Timing    what refunds see is too young for the job                   *)
(*   Once      without faults a payment goes one way                       *)
(*   Counts    how often the provider can be asked for one payment         *)
(*   InTime    when the run comes that may pay a settlement                *)
(***************************************************************************)
EXTENDS Settlement, FiniteSetTheorems, TLAPS

JobBacked(w) ==
    /\ job[w].pc = "idle" => job[w].todo = {}
    /\ w \notin ran => job[w].pc = "idle"
    /\ job[w].pc \in {"transfer", "store"} =>
         /\ job[w].payout \in DOMAIN payouts
         /\ payouts[job[w].payout].st = "pending"
         /\ payouts[job[w].payout].batch \subseteq job[w].todo
    /\ job[w].pc = "store" /\ job[w].ok => job[w].payout \in moved

\* No two jobs work on one payout.
OwnPayouts ==
    \A v, w \in Replicas :
        /\ job[v].pc \in {"transfer", "store"} /\ job[w].pc \in {"transfer", "store"}
        /\ job[v].payout = job[w].payout
        => v = w

RowBacked(p) ==
    row[p].st = "completed" =>
        /\ row[p].payout \in moved /\ p \in payouts[row[p].payout].batch
        /\ payouts[row[p].payout].st = "completed"

Backing ==
    /\ TypeOK
    /\ \A w \in Replicas : JobBacked(w)
    /\ OwnPayouts
    /\ \A p \in Payments : RowBacked(p)
-----------------------------------------------------------------------------
LEMMA PayingType ==
  ASSUME NEW todo \in SUBSET Payments
  PROVE  /\ Paying(todo) \in Job /\ Paying(todo).pc \in {"idle", "pay"}
         /\ Paying(todo).todo = todo /\ (Paying(todo).pc = "idle" => todo = {})
  <1>1. CASE todo = {}
    BY <1>1 DEF Paying, IdleJob, Job
  <1>2. CASE todo # {}
    BY <1>2 DEF Paying, Job
  <1> QED
    BY <1>1, <1>2

LEMMA PayoutTypes ==
  ASSUME TypeOK
  PROVE  /\ payouts \in Seq(Payout) /\ Len(payouts) \in Nat /\ DOMAIN payouts = 1 .. Len(payouts)
         /\ \A q \in DOMAIN payouts : payouts[q] \in Payout /\ payouts[q].batch \subseteq Payments
         /\ \A w \in Replicas : job[w] \in Job /\ job[w].todo \subseteq Payments
  <1>1. payouts \in Seq(Payout)
    BY DEF TypeOK
  <1>2. Len(payouts) \in Nat /\ DOMAIN payouts = 1 .. Len(payouts)
        /\ \A q \in DOMAIN payouts : payouts[q] \in Payout
    BY <1>1
  <1>3. \A q \in DOMAIN payouts : payouts[q].batch \subseteq Payments
    BY <1>2 DEF Payout
  <1>4. \A w \in Replicas : job[w] \in Job
    BY DEF TypeOK
  <1>5. \A w \in Replicas : job[w].todo \subseteq Payments
    BY <1>4 DEF Job
  <1> QED
    BY <1>1, <1>2, <1>3, <1>4, <1>5

\* The status of one payout changes.
LEMMA PayoutUpdate ==
  ASSUME TypeOK, NEW q \in DOMAIN payouts, NEW st \in {"pending", "completed", "failed"},
         payouts' = [payouts EXCEPT ![q].st = st]
  PROVE  /\ payouts' \in Seq(Payout) /\ DOMAIN payouts' = DOMAIN payouts
         /\ payouts'[q].st = st /\ payouts'[q].batch = payouts[q].batch
         /\ \A r \in DOMAIN payouts \ {q} : payouts'[r] = payouts[r]
  <1> DEFINE new == [payouts[q] EXCEPT !.st = st]
  <1>1. payouts[q] \in Payout /\ DOMAIN payouts = 1 .. Len(payouts) /\ Len(payouts) \in Nat
        /\ payouts \in Seq(Payout)
    BY PayoutTypes
  <1>2. new \in Payout /\ new.st = st /\ new.batch = payouts[q].batch
    BY <1>1 DEF Payout
  <1>3. payouts' = [payouts EXCEPT ![q] = new]
    OBVIOUS
  <1> HIDE DEF new
  <1> QED
    BY <1>1, <1>2, <1>3

LEMMA BackingInit == Init => Backing
  <1> SUFFICES ASSUME Init PROVE Backing
    OBVIOUS
  <1>1. TypeOK
    <2>1. /\ NoRow \in Row /\ IdleJob \in Job /\ IdleCall \in Call /\ Never \in Int
          /\ OpenInvoice \in Invoice
      BY DEF NoRow, Row, Never, IdleJob, Job, IdleCall, Call, OpenInvoice, Invoice
    <2>2. payouts \in Seq(Payout)
      BY DEF Init
    <2> QED
      BY <2>1, <2>2, SettlementAssumption DEF Init, TypeOK, Never
  <1>2. \A w \in Replicas : JobBacked(w)
    BY DEF Init, JobBacked, IdleJob
  <1>3. OwnPayouts
    BY DEF Init, OwnPayouts, IdleJob
  <1>4. \A p \in Payments : RowBacked(p)
    BY DEF Init, RowBacked, NoRow
  <1> QED
    BY <1>1, <1>2, <1>3, <1>4 DEF Backing
-----------------------------------------------------------------------------
\* A fault keeps the bound.
LEMMA FaultType == TypeOK /\ Fault => faults' \in 0 .. MaxFaults /\ faults' = faults + 1
  BY SettlementAssumption DEF TypeOK, Fault

\* A job turns to the rest of its settlements, or ends.
LEMMA BackingTurn ==
  ASSUME Backing, NEW w \in Replicas, NEW todo \in SUBSET Payments,
         job' = [job EXCEPT ![w] = Paying(todo)], ran' \in {ran \cup {w}, ran}, w \in ran',
         UNCHANGED <<now, paidAt, intent, row, invoice, payouts, moved, refunds, call>>,
         faults' \in 0 .. MaxFaults
  PROVE  Backing'
  <1> DEFINE k == Paying(todo)
  <1>1. k \in Job /\ k.pc \in {"idle", "pay"} /\ (k.pc = "idle" => k.todo = {})
    BY PayingType
  <1>a. job' = [job EXCEPT ![w] = k]
    OBVIOUS
  <1> HIDE DEF k
  <1>2. TypeOK'
    BY <1>1, <1>a DEF Backing, TypeOK
  <1>3. job'[w] = k /\ \A v \in Replicas \ {w} : job'[v] = job[v]
    BY <1>a DEF Backing, TypeOK
  <1>4. ASSUME NEW v \in Replicas PROVE JobBacked(v)'
    BY <1>1, <1>3 DEF Backing, JobBacked
  <1>5. OwnPayouts'
    BY <1>1, <1>3 DEF Backing, OwnPayouts
  <1>6. \A p \in Payments : RowBacked(p)'
    BY DEF Backing, RowBacked
  <1> QED
    BY <1>2, <1>4, <1>5, <1>6 DEF Backing

LEMMA BackingLoad ==
  ASSUME Backing, NEW w \in Replicas, LoadDue(w)
  PROVE  Backing'
  <1>1. Due \in SUBSET Payments
    BY DEF Due
  <1>2. faults' \in 0 .. MaxFaults
    BY DEF LoadDue, Backing, TypeOK
  <1> QED
    BY <1>1, <1>2, BackingTurn DEF LoadDue, books, provider

LEMMA WorkingRan ==
  ASSUME Backing, NEW w \in Replicas, job[w].pc # "idle"
  PROVE  w \in ran
  BY DEF Backing, JobBacked

LEMMA BackingBatchFails ==
  ASSUME Backing, NEW w \in Replicas, BatchFails(w)
  PROVE  Backing'
  <1>1. PICK b : job' = [job EXCEPT ![w] = Paying(job[w].todo \ b)]
    BY DEF BatchFails, NextBatch
  <1>2. job[w].todo \ b \in SUBSET Payments
    BY PayoutTypes DEF Backing
  <1>3. w \in ran
    BY WorkingRan DEF BatchFails
  <1>4. faults' \in 0 .. MaxFaults
    BY FaultType DEF BatchFails, Backing
  <1> QED
    BY <1>1, <1>2, <1>3, <1>4, BackingTurn DEF BatchFails, books, provider

LEMMA BackingCrash ==
  ASSUME Backing, NEW w \in Replicas, Crash(w)
  PROVE  Backing'
  <1>1. job' = [job EXCEPT ![w] = Paying({})]
    BY DEF Crash, Paying
  <1>2. w \in ran
    BY WorkingRan DEF Crash
  <1>3. faults' \in 0 .. MaxFaults
    BY FaultType DEF Crash, Backing
  <1>4. {} \in SUBSET Payments
    OBVIOUS
  <1> QED
    BY <1>1, <1>2, <1>3, <1>4, BackingTurn DEF Crash, books, provider

LEMMA BackingCreate ==
  ASSUME Backing, NEW w \in Replicas, CreatePayout(w)
  PROVE  Backing'
  <1>1. PICK t \in Tenants :
           payouts' = Append(payouts, [st |-> "pending", batch |-> Batch(w, t)])
    BY DEF CreatePayout
  <1> DEFINE q == Len(payouts) + 1
             new == [st |-> "pending", batch |-> Batch(w, t)]
             k == [pc |-> "transfer", todo |-> job[w].todo, payout |-> q, ok |-> FALSE]
  <1>2. /\ job' = [job EXCEPT ![w] = k] /\ job[w].pc = "pay"
        /\ UNCHANGED <<now, paidAt, intent, row, invoice, moved, refunds, ran, call, faults>>
    BY DEF CreatePayout, WorkOn, books, provider
  <1>3. Batch(w, t) \subseteq job[w].todo /\ job[w].todo \subseteq Payments
    BY PayoutTypes DEF Batch, Backing
  <1>4. new \in Payout /\ k \in Job
    BY <1>3, PayoutTypes DEF Payout, Job, Backing
  <1>5. /\ payouts' \in Seq(Payout) /\ DOMAIN payouts \subseteq DOMAIN payouts'
        /\ q \in DOMAIN payouts' /\ q \notin DOMAIN payouts /\ payouts'[q] = new
        /\ \A r \in DOMAIN payouts : payouts'[r] = payouts[r]
    <2> HIDE DEF new
    <2> QED
      BY <1>1, <1>4, PayoutTypes DEF Backing, new
  <1>6. k.pc = "transfer" /\ k.payout = q /\ k.todo = job[w].todo /\ ~k.ok
    OBVIOUS
  <1>7. new.st = "pending" /\ new.batch = Batch(w, t)
    OBVIOUS
  <1> HIDE DEF k, new, q
  <1>8. TypeOK'
    BY <1>2, <1>4, <1>5 DEF Backing, TypeOK
  <1>9. job'[w] = k /\ \A v \in Replicas \ {w} : job'[v] = job[v]
    BY <1>2 DEF Backing, TypeOK
  <1>10. ASSUME NEW v \in Replicas PROVE JobBacked(v)'
    BY <1>2, <1>3, <1>5, <1>6, <1>7, <1>9 DEF Backing, JobBacked
  <1>11. OwnPayouts'
    BY <1>5, <1>6, <1>9 DEF Backing, OwnPayouts, JobBacked
  <1>12. ASSUME NEW p \in Payments PROVE RowBacked(p)'
    BY <1>2, <1>5 DEF Backing, RowBacked, TypeOK
  <1> QED
    BY <1>8, <1>10, <1>11, <1>12 DEF Backing

LEMMA BackingTransfer ==
  ASSUME Backing, NEW w \in Replicas, Transfer(w)
  PROVE  Backing'
  <1> DEFINE q == job[w].payout
  <1>1. PICK ok \in BOOLEAN :
          /\ job' = [job EXCEPT ![w] = [pc |-> "store", todo |-> job[w].todo, payout |-> q, ok |-> ok]]
          /\ moved' \in {moved, moved \cup {q}} /\ (ok => q \in moved')
    BY DEF Transfer, WorkOn
  <1> DEFINE k == [pc |-> "store", todo |-> job[w].todo, payout |-> q, ok |-> ok]
  <1>2. /\ job' = [job EXCEPT ![w] = k] /\ job[w].pc = "transfer"
        /\ UNCHANGED <<now, paidAt, intent, row, invoice, payouts, refunds, ran, call>>
    BY <1>1 DEF Transfer, books
  <1>3. k \in Job /\ k.pc = "store" /\ k.payout = q /\ k.todo = job[w].todo /\ k.ok = ok
    BY PayoutTypes DEF Job, Backing
  <1>4. q \in DOMAIN payouts
    BY <1>2 DEF Backing, JobBacked
  <1> HIDE DEF k, q
  <1>5. faults' \in 0 .. MaxFaults
    BY FaultType DEF Transfer, Backing, TypeOK
  <1>6. TypeOK'
    BY <1>1, <1>2, <1>3, <1>4, <1>5 DEF Backing, TypeOK
  <1>7. job'[w] = k /\ \A v \in Replicas \ {w} : job'[v] = job[v]
    BY <1>2 DEF Backing, TypeOK
  <1>8. ASSUME NEW v \in Replicas PROVE JobBacked(v)'
    BY <1>1, <1>2, <1>3, <1>7 DEF Backing, JobBacked, q
  <1>9. OwnPayouts'
    BY <1>2, <1>3, <1>7 DEF Backing, OwnPayouts, q
  <1>10. ASSUME NEW p \in Payments PROVE RowBacked(p)'
    BY <1>1, <1>2 DEF Backing, RowBacked
  <1> QED
    BY <1>6, <1>8, <1>9, <1>10 DEF Backing

\* The row of p after job w has stored its result.
LEMMA StoredRows ==
  ASSUME Backing, NEW w \in Replicas, StoreResult(w), NEW p \in Payments
  PROVE  /\ job[w].pc = "store"
         /\ job[w].payout \in DOMAIN payouts /\ payouts[job[w].payout].st = "pending"
         /\ payouts[job[w].payout].batch \subseteq job[w].todo
         /\ ~(job[w].ok /\ p \in payouts[job[w].payout].batch) => row'[p] = row[p]
         /\ job[w].ok /\ p \in payouts[job[w].payout].batch =>
              /\ row'[p].st = "completed" /\ row'[p].due = row[p].due
              /\ row'[p].payout = job[w].payout /\ row'[p] \in Row
              /\ job[w].payout \in moved
         /\ row' \in [Payments -> Row]
  <1> DEFINE q == job[w].payout
             done(x) == [st |-> "completed", due |-> row[x].due, payout |-> q]
  <1>1. job[w].pc = "store" /\ JobBacked(w)
    BY DEF StoreResult, Backing
  <1>2. q \in Nat
    BY PayoutTypes DEF Job, Backing
  <1>3. ASSUME NEW x \in Payments
        PROVE  /\ done(x).st = "completed" /\ done(x).due = row[x].due /\ done(x).payout = q
               /\ done(x) \in Row /\ row[x] \in Row
    <2>1. row[x] \in Row
      BY DEF Backing, TypeOK
    <2> QED
      BY <1>2, <2>1 DEF Row
  <1>4. row' = [x \in Payments |-> IF job[w].ok /\ x \in payouts[q].batch
                                   THEN done(x) ELSE row[x]]
    BY DEF StoreResult
  <1> HIDE DEF done, q
  <1>5. row' \in [Payments -> Row]
    BY <1>3, <1>4
  <1>6. ~(job[w].ok /\ p \in payouts[q].batch) => row'[p] = row[p]
    BY <1>4
  <1>7. job[w].ok /\ p \in payouts[q].batch => row'[p] = done(p)
    BY <1>4
  <1> QED
    BY <1>1, <1>3, <1>5, <1>6, <1>7 DEF JobBacked, q

LEMMA BackingStore ==
  ASSUME Backing, NEW w \in Replicas, StoreResult(w)
  PROVE  Backing'
  <1> DEFINE q == job[w].payout
             st == IF job[w].ok THEN "completed" ELSE "failed"
             todo == job[w].todo \ payouts[q].batch
             k == Paying(todo)
  <1>1. /\ job' = [job EXCEPT ![w] = k] /\ payouts' = [payouts EXCEPT ![q].st = st]
        /\ job[w].pc = "store"
        /\ UNCHANGED <<now, paidAt, intent, invoice, moved, refunds, ran, call, faults>>
    BY DEF StoreResult, NextBatch, books, provider
  <1>2. q \in DOMAIN payouts /\ payouts[q].st = "pending"
    BY <1>1 DEF Backing, JobBacked
  <1>3. st \in {"completed", "failed"} /\ (job[w].ok => st = "completed")
    OBVIOUS
  <1>4. /\ payouts' \in Seq(Payout) /\ DOMAIN payouts' = DOMAIN payouts
        /\ payouts'[q].st = st /\ payouts'[q].batch = payouts[q].batch
        /\ \A r \in DOMAIN payouts \ {q} : payouts'[r] = payouts[r]
    BY <1>1, <1>2, <1>3, PayoutUpdate DEF Backing
  <1>5. todo \in SUBSET Payments
    BY PayoutTypes DEF Backing
  <1>6. k \in Job /\ k.pc \in {"idle", "pay"} /\ (k.pc = "idle" => k.todo = {})
    BY <1>5, PayingType
  <1>7. row' \in [Payments -> Row]
    <2>1. CASE Payments = {}
      BY <2>1 DEF StoreResult
    <2>2. CASE Payments # {}
      BY <2>2, StoredRows
    <2> QED
      BY <2>1, <2>2
  <1> HIDE DEF q, st, todo, k
  <1>8. TypeOK'
    BY <1>1, <1>4, <1>6, <1>7 DEF Backing, TypeOK
  <1>9. job'[w] = k /\ \A v \in Replicas \ {w} : job'[v] = job[v]
    BY <1>1 DEF Backing, TypeOK
  <1>10. w \in ran
    BY <1>1, WorkingRan
  <1>11. ASSUME NEW v \in Replicas PROVE JobBacked(v)'
    <2>1. CASE v = w
      BY <1>1, <1>6, <1>9, <1>10, <2>1 DEF JobBacked
    <2>2. CASE v # w
      <3>1. job'[v] = job[v] /\ JobBacked(v)
        BY <1>9, <2>2 DEF Backing
      <3>2. job[v].pc \in {"transfer", "store"} => job[v].payout # q
        BY <1>1, <2>2 DEF Backing, OwnPayouts, q
      <3> QED
        BY <1>1, <1>4, <3>1, <3>2 DEF JobBacked
    <2> QED
      BY <2>1, <2>2
  <1>12. OwnPayouts'
    BY <1>6, <1>9 DEF Backing, OwnPayouts
  <1>13. ASSUME NEW p \in Payments PROVE RowBacked(p)'
    <2>1. CASE job[w].ok /\ p \in payouts[q].batch
      <3>1. row'[p].payout = q /\ q \in moved
        BY <2>1, StoredRows DEF q
      <3> QED
        BY <1>1, <1>3, <1>4, <2>1, <3>1 DEF RowBacked
    <2>2. CASE ~(job[w].ok /\ p \in payouts[q].batch)
      <3>1. row'[p] = row[p] /\ RowBacked(p)
        BY <2>2, StoredRows DEF q, Backing
      <3>2. row[p].st = "completed" =>
              row[p].payout # q /\ row[p].payout \in DOMAIN payouts
        BY <1>2, <3>1 DEF RowBacked, Backing, TypeOK
      <3> QED
        BY <1>1, <1>4, <3>1, <3>2 DEF RowBacked
    <2> QED
      BY <2>1, <2>2
  <1> QED
    BY <1>8, <1>11, <1>12, <1>13 DEF Backing

LEMMA BackingTick ==
  ASSUME Backing, Tick
  PROVE  Backing'
  <1>1. UNCHANGED <<paidAt, intent, row, invoice, payouts, moved, refunds, job, call, faults>>
        /\ now' = now + 1 /\ now < MaxTime /\ ran' = {}
        /\ \A w \in Replicas : job[w].pc = "idle"
    BY DEF Tick, books, provider
  <1>2. TypeOK'
    BY <1>1, SettlementAssumption DEF Backing, TypeOK
  <1> QED
    BY <1>1, <1>2 DEF Backing, JobBacked, OwnPayouts, RowBacked

LEMMA BackingCollect ==
  ASSUME Backing, NEW p \in Payments, Collect(p)
  PROVE  Backing'
  <1> DEFINE due == [st |-> "pending", due |-> now + Delay, payout |-> 0]
             paid == [st |-> "paid", at |-> now]
  <1>1. /\ UNCHANGED <<now, payouts, moved, refunds, job, ran, call>>
        /\ paidAt' = [paidAt EXCEPT ![p] = now] /\ intent' = [intent EXCEPT ![p] = "success"]
        /\ row' = row \/ row' = [row EXCEPT ![p] = due]
        /\ invoice' = invoice \/ invoice' = [invoice EXCEPT ![InvoiceOf[p]] = paid]
        /\ faults' = faults \/ Fault
    BY DEF Collect, provider
  <1>2. due \in Row /\ due.st = "pending" /\ paid \in Invoice
    BY SettlementAssumption DEF Row, Invoice, Backing, TypeOK
  <1>a. faults' \in 0 .. MaxFaults
    BY <1>1, FaultType DEF Backing, TypeOK
  <1> HIDE DEF due, paid
  <1>b. invoice' \in [Invoices -> Invoice]
    BY <1>1, <1>2 DEF Backing, TypeOK
  <1>3. TypeOK'
    BY <1>1, <1>2, <1>a, <1>b DEF Backing, TypeOK
  <1>4. ASSUME NEW x \in Payments PROVE RowBacked(x)'
    BY <1>1, <1>2 DEF Backing, TypeOK, RowBacked
  <1> QED
    BY <1>1, <1>3, <1>4 DEF Backing, JobBacked, OwnPayouts

\* A refund call changes only itself, and rows to refunded.
LEMMA BackingRefund ==
  ASSUME Backing, NEW c \in Callers, NEW k \in Call, call' = [call EXCEPT ![c] = k],
         UNCHANGED <<now, paidAt, payouts, moved, job, ran>>,
         intent' \in [Payments -> {"none", "success", "refund"}],
         refunds' \in [Payments -> Nat], faults' \in 0 .. MaxFaults,
         row' \in [Payments -> Row], invoice' \in [Invoices -> Invoice],
         \A p \in Payments : row'[p] = row[p] \/ row'[p].st = "refunded"
  PROVE  Backing'
  <1>1. TypeOK'
    BY DEF Backing, TypeOK
  <1>2. ASSUME NEW p \in Payments PROVE RowBacked(p)'
    BY DEF Backing, RowBacked
  <1> QED
    BY <1>1, <1>2 DEF Backing, JobBacked, OwnPayouts

LEMMA IdleCallType == IdleCall \in Call
  BY DEF IdleCall, Call, Row, NoRow, Never

LEMMA CallTypes ==
  ASSUME Backing, NEW c \in Callers
  PROVE  /\ call[c] \in Call /\ call[c].copy \in Row
         /\ [call[c] EXCEPT !.pc = "store"] \in Call
         /\ [call[c] EXCEPT !.pc = "store"].of = call[c].of
         /\ [call[c] EXCEPT !.pc = "store"].pc = "store"
         /\ [call[c] EXCEPT !.pc = "store"].pay = call[c].pay
         /\ [call[c] EXCEPT !.pc = "store"].copy = call[c].copy
  <1>1. call[c] \in Call
    BY DEF Backing, TypeOK
  <1> QED
    BY <1>1 DEF Call

\* A call that starts has found the settlement of some payment of the invoice.
LEMMA ReadEffect ==
  ASSUME Backing, NEW c \in Callers, NEW p \in Payments, RefundRead(c, p)
  PROVE  \E k \in Call :
           /\ call' = [call EXCEPT ![c] = k] /\ k.pc = "ask" /\ k.pay = p
           /\ k.of = NoPayment => Found(InvoiceOf[p]) = {}
           /\ k.of # NoPayment =>
                k.of \in Payments /\ k.of \in Found(InvoiceOf[p]) /\ k.copy = row[k.of]
  <1>1. PICK s \in IF Found(InvoiceOf[p]) = {} THEN {NoPayment} ELSE Found(InvoiceOf[p]) :
          call' = [call EXCEPT ![c] =
                     [pc |-> "ask", pay |-> p, of |-> s,
                      copy |-> IF s = NoPayment THEN NoRow ELSE row[s]]]
    BY DEF RefundRead
  <1> DEFINE k == [pc |-> "ask", pay |-> p, of |-> s,
                   copy |-> IF s = NoPayment THEN NoRow ELSE row[s]]
  <1>2. s \in Payments \cup {NoPayment} /\ (s = NoPayment => Found(InvoiceOf[p]) = {})
        /\ (s # NoPayment => s \in Payments /\ s \in Found(InvoiceOf[p]))
    BY <1>1, SettlementAssumption DEF Found
  <1>3. NoRow \in Row /\ (s \in Payments => row[s] \in Row)
    BY DEF NoRow, Row, Never, Backing, TypeOK
  <1>4. k \in Call
    BY <1>2, <1>3 DEF Call
  <1> QED
    BY <1>1, <1>2, <1>4

LEMMA BackingRead ==
  ASSUME Backing, NEW c \in Callers, NEW p \in Payments, RefundRead(c, p)
  PROVE  Backing'
  <1>1. PICK k \in Call : call' = [call EXCEPT ![c] = k]
    BY ReadEffect
  <1>2. UNCHANGED <<now, paidAt, intent, row, invoice, payouts, moved, refunds, job, ran, faults>>
    BY DEF RefundRead, books, provider
  <1> QED
    BY <1>1, <1>2, BackingRefund DEF Backing, TypeOK

LEMMA BackingAsk ==
  ASSUME Backing, NEW c \in Callers, RefundAsk(c)
  PROVE  Backing'
  <1>1. UNCHANGED <<now, paidAt, intent, row, invoice, payouts, moved, job, ran>>
    BY DEF RefundAsk, books
  <1>2. refunds' \in [Payments -> Nat] /\ faults' \in 0 .. MaxFaults
    <2>1. CASE UNCHANGED <<refunds, faults>>
      BY <2>1 DEF Backing, TypeOK
    <2>2. CASE refunds' = [refunds EXCEPT ![call[c].pay] = refunds[call[c].pay] + 1]
               /\ (faults' = faults \/ Fault)
      <3> DEFINE n == refunds[call[c].pay] + 1
      <3>0. refunds \in [Payments -> Nat] /\ refunds' = [refunds EXCEPT ![call[c].pay] = n]
            /\ (call[c].pay \in Payments => n \in Nat)
        BY <2>2 DEF Backing, TypeOK
      <3> HIDE DEF n
      <3>1. refunds' \in [Payments -> Nat]
        BY <3>0
      <3> QED
        BY <2>2, <3>1, FaultType DEF Backing, TypeOK
    <2> QED
      BY <2>1, <2>2 DEF RefundAsk
  <1>3. PICK k \in Call : call' = [call EXCEPT ![c] = k]
    BY IdleCallType, CallTypes DEF RefundAsk
  <1> QED
    BY <1>1, <1>2, <1>3, BackingRefund DEF Backing, TypeOK

\* The rows after call c has stored its refund.
LEMMA RefundedRows ==
  ASSUME Backing, NEW c \in Callers, RefundStore(c), NEW p \in Payments
  PROVE  /\ row' \in [Payments -> Row]
         /\ p # call[c].of => row'[p] = row[p]
         /\ p = call[c].of => row'[p].st = "refunded" /\ row'[p].due = call[c].copy.due
  <1> DEFINE r == [call[c].copy EXCEPT !.st = "refunded"]
  <1>1. call[c].copy \in Row
    BY CallTypes
  <1>2. r \in Row /\ r.st = "refunded" /\ r.due = call[c].copy.due
    BY <1>1 DEF Row
  <1>3. row' = IF call[c].of = NoPayment THEN row ELSE [row EXCEPT ![call[c].of] = r]
    BY DEF RefundStore
  <1>4. p # NoPayment
    BY SettlementAssumption
  <1> HIDE DEF r
  <1> QED
    BY <1>2, <1>3, <1>4 DEF Backing, TypeOK

\* A refund leaves no invoice paid that was not, and moves no date.
LEMMA RefundedInvoice ==
  ASSUME Backing, NEW c \in Callers, RefundStore(c)
  PROVE  /\ invoice' \in [Invoices -> Invoice]
         /\ \A i \in Invoices : invoice'[i].st = "paid" => invoice'[i] = invoice[i]
  <1> DEFINE j == InvoiceOf[call[c].pay]
             r == [invoice[j] EXCEPT !.st = "refunded"]
  <1>1. invoice' = [invoice EXCEPT ![j] = r]
    BY DEF RefundStore
  <1>2. j \in Invoices => r \in Invoice /\ r.st = "refunded"
    BY DEF Invoice, Backing, TypeOK
  <1>3. invoice \in [Invoices -> Invoice]
    BY DEF Backing, TypeOK
  <1> HIDE DEF j, r
  <1> QED
    BY <1>1, <1>2, <1>3

LEMMA BackingRefunded ==
  ASSUME Backing, NEW c \in Callers, RefundStore(c)
  PROVE  Backing'
  <1>1. UNCHANGED <<now, paidAt, payouts, moved, refunds, job, ran, faults>>
        /\ call' = [call EXCEPT ![c] = IdleCall]
        /\ intent' = [intent EXCEPT ![call[c].pay] = "refund"]
    BY DEF RefundStore, books, provider
  <1>2. intent' \in [Payments -> {"none", "success", "refund"}]
    BY <1>1 DEF Backing, TypeOK
  <1>a. invoice' \in [Invoices -> Invoice]
    BY RefundedInvoice
  <1>3. \A p \in Payments : row'[p] = row[p] \/ row'[p].st = "refunded"
    BY RefundedRows
  <1>4. row' \in [Payments -> Row]
    <2>1. CASE Payments = {}
      BY <2>1 DEF RefundStore, Backing, TypeOK
    <2>2. CASE Payments # {}
      BY <2>2, RefundedRows
    <2> QED
      BY <2>1, <2>2
  <1> QED
    BY <1>1, <1>2, <1>a, <1>3, <1>4, IdleCallType, BackingRefund DEF Backing, TypeOK

LEMMA BackingRefundFails ==
  ASSUME Backing, NEW c \in Callers, RefundFails(c)
  PROVE  Backing'
  <1>1. faults' \in 0 .. MaxFaults
    BY FaultType DEF RefundFails, Backing
  <1>2. UNCHANGED <<now, paidAt, intent, row, invoice, payouts, moved, refunds, job, ran>>
        /\ call' = [call EXCEPT ![c] = IdleCall]
    BY DEF RefundFails, books, provider
  <1> QED
    BY <1>1, <1>2, IdleCallType, BackingRefund DEF Backing, TypeOK

LEMMA BackingNext == Backing /\ [Next]_vars => Backing'
  <1> SUFFICES ASSUME Backing, [Next]_vars PROVE Backing'
    OBVIOUS
  <1>1. CASE UNCHANGED vars
    BY <1>1 DEF vars, books, provider, Backing, TypeOK, JobBacked, OwnPayouts, RowBacked
  <1> QED
    BY <1>1, BackingTick, BackingCollect, BackingLoad, BackingCreate, BackingTransfer,
       BackingStore, BackingBatchFails, BackingCrash, BackingRead, BackingAsk,
       BackingRefunded, BackingRefundFails DEF Next

LEMMA BackingInvariant == Spec => []Backing
  BY BackingInit, BackingNext, PTL DEF Spec

\* Rows, payouts, jobs and calls keep their types.
THEOREM SettlementTypeCorrect == Spec => []TypeOK
  <1>1. Backing => TypeOK
    BY DEF Backing
  <1> QED
    BY <1>1, BackingInvariant, PTL

\* However many processes run the job at once, what a merchant sees as
\* completed was transferred to it (settlement.go:227).
THEOREM CompletedBackedCorrect == Spec => []CompletedBacked
  <1>1. Backing => CompletedBacked
    BY DEF Backing, RowBacked, CompletedBacked, Transfers
  <1> QED
    BY <1>1, BackingInvariant, PTL
-----------------------------------------------------------------------------
(* What a step can do to settlements, jobs and payouts.                    *)

\* A job only ever adds what is due to what it has before it.
LEMMA TodoEffect ==
  ASSUME Backing, Next, NEW w \in Replicas
  PROVE  job'[w].todo \subseteq job[w].todo \cup Due
  <1>1. ASSUME NEW v \in Replicas, NEW todo \in SUBSET Payments,
               job' = [job EXCEPT ![v] = Paying(todo)], todo \subseteq job[v].todo \cup Due
        PROVE  job'[w].todo \subseteq job[w].todo \cup Due
    <2> DEFINE k == Paying(todo)
    <2>1. k.todo = todo /\ job' = [job EXCEPT ![v] = k]
      BY <1>1, PayingType
    <2> HIDE DEF k
    <2> QED
      BY <1>1, <2>1 DEF Backing, TypeOK
  <1>2. ASSUME NEW v \in Replicas, NEW pc, NEW q, NEW ok, WorkOn(v, pc, q, ok)
        PROVE  job'[w].todo = job[w].todo
    BY <1>2 DEF WorkOn, Backing, TypeOK
  <1>3. ASSUME NEW v \in Replicas, NEW b, NextBatch(v, b)
        PROVE  job'[w].todo \subseteq job[w].todo \cup Due
    <2>1. job[v].todo \ b \in SUBSET Payments
      BY PayoutTypes DEF Backing
    <2> QED
      BY <1>1, <1>3, <2>1 DEF NextBatch
  <1>4. CASE \E v \in Replicas : LoadDue(v)
    <2>1. Due \in SUBSET Payments
      BY DEF Due
    <2> QED
      BY <1>1, <1>4, <2>1 DEF LoadDue
  <1>5. CASE \E v \in Replicas : CreatePayout(v) \/ Transfer(v)
    BY <1>2, <1>5 DEF CreatePayout, Transfer
  <1>6. CASE \E v \in Replicas : StoreResult(v) \/ BatchFails(v)
    BY <1>3, <1>6 DEF StoreResult, BatchFails
  <1>7. CASE \E v \in Replicas : Crash(v)
    <2>1. PICK v \in Replicas : job' = [job EXCEPT ![v] = Paying({})]
      BY <1>7 DEF Crash, Paying
    <2>2. {} \in SUBSET Payments
      OBVIOUS
    <2> QED
      BY <1>1, <2>1, <2>2
  <1>8. CASE UNCHANGED job
    BY <1>8
  <1> QED
    BY <1>4, <1>5, <1>6, <1>7, <1>8
       DEF Next, Tick, Collect, RefundRead, RefundAsk, RefundStore, RefundFails

\* Payouts keep their settlements, and only the payout of a job is transferred.
LEMMA MovedEffect ==
  ASSUME Backing, Next
  PROVE  /\ \A q \in DOMAIN payouts : q \in DOMAIN payouts' /\ payouts'[q].batch = payouts[q].batch
         /\ \A q \in moved' : \/ q \in moved
                              \/ \E w \in Replicas : job[w].pc = "transfer" /\ q = job[w].payout
         /\ moved' \subseteq DOMAIN payouts
  <1>1. CASE \E w \in Replicas : CreatePayout(w)
    <2>1. PICK w \in Replicas, t \in Tenants :
             payouts' = Append(payouts, [st |-> "pending", batch |-> Batch(w, t)])
      BY <1>1 DEF CreatePayout
    <2>2. \A q \in DOMAIN payouts : q \in DOMAIN payouts' /\ payouts'[q] = payouts[q]
      BY <2>1, PayoutTypes DEF Backing
    <2> QED
      BY <1>1, <2>2 DEF CreatePayout, books, provider, Backing, TypeOK
  <1>2. CASE \E w \in Replicas : StoreResult(w)
    <2>1. PICK w \in Replicas : StoreResult(w)
      BY <1>2
    <2>2. PICK st \in {"completed", "failed"} : payouts' = [payouts EXCEPT ![job[w].payout].st = st]
      BY <2>1 DEF StoreResult
    <2>3. job[w].payout \in DOMAIN payouts
      BY <2>1 DEF StoreResult, Backing, JobBacked
    <2>4. \A q \in DOMAIN payouts : q \in DOMAIN payouts' /\ payouts'[q].batch = payouts[q].batch
      BY <2>2, <2>3, PayoutUpdate DEF Backing
    <2> QED
      BY <2>1, <2>4 DEF StoreResult, books, provider, Backing, TypeOK
  <1>3. CASE \E w \in Replicas : Transfer(w)
    <2>1. PICK w \in Replicas : Transfer(w)
      BY <1>3
    <2>2. moved' \in {moved, moved \cup {job[w].payout}} /\ UNCHANGED payouts
          /\ job[w].pc = "transfer"
      BY <2>1 DEF Transfer
    <2> QED
      BY <2>2 DEF Backing, TypeOK, JobBacked
  <1>4. CASE UNCHANGED <<payouts, moved>>
    BY <1>4 DEF Backing, TypeOK
  <1> QED
    BY <1>1, <1>2, <1>3, <1>4
       DEF Next, Tick, Collect, LoadDue, BatchFails, Crash, RefundRead, RefundAsk, RefundStore,
           RefundFails, books, provider
-----------------------------------------------------------------------------
(* Timing: a payment that may be refunded is too young for the job.        *)

Old(p) == paidAt[p] # Never /\ row[p].st # "none" /\ now >= paidAt[p] + Delay
Young(p) == paidAt[p] # Never /\ now <= paidAt[p] + Window

PaymentTimes(p) ==
    /\ paidAt[p] = Never => intent[p] = "none" /\ row[p].st = "none" /\ refunds[p] = 0
    /\ row[p].st # "none" => row[p].due = paidAt[p] + Delay

\* An invoice with one payment was paid by it, then.
InvoiceTimes(p) ==
    Alone(p) /\ invoice[InvoiceOf[p]].st = "paid" =>
        paidAt[p] # Never /\ invoice[InvoiceOf[p]].at = paidAt[p]

\* The settlement a call has found is one of the invoice; it is the payment's own
\* if no other payment has the invoice, and only then is the payment young.
CallTimes(c) ==
    call[c].pc # "idle" =>
        /\ call[c].pay \in Payments /\ paidAt[call[c].pay] # Never
        /\ call[c].of # NoPayment =>
             /\ call[c].of \in Payments /\ InvoiceOf[call[c].of] = InvoiceOf[call[c].pay]
             /\ row[call[c].of].st # "none" /\ call[c].copy.due = paidAt[call[c].of] + Delay
        /\ Alone(call[c].pay) =>
             /\ Young(call[c].pay)
             /\ call[c].of = NoPayment <=> row[call[c].pay].st = "none"

Timing ==
    /\ \A p \in Payments : PaymentTimes(p) /\ InvoiceTimes(p)
    /\ \A w \in Replicas : \A p \in job[w].todo : Old(p)
    /\ \A q \in moved : \A p \in payouts[q].batch : Old(p)
    /\ \A c \in Callers : CallTimes(c)

LEMMA TimeTypes ==
  ASSUME TypeOK
  PROVE  /\ now \in Nat /\ Delay \in Nat /\ Window \in Nat /\ Window < Delay /\ Never = -1
         /\ \A p \in Payments : paidAt[p] \in Int /\ (paidAt[p] # Never => paidAt[p] \in Nat)
  BY SettlementAssumption DEF TypeOK, Never

LEMMA NotBoth ==
  ASSUME TypeOK, NEW p \in Payments, Old(p), Young(p)
  PROVE  FALSE
  BY TimeTypes DEF Old, Young

\* What is due is old: midnight is never later than now.
LEMMA DueOld ==
  ASSUME TypeOK, NEW p \in Due, PaymentTimes(p)
  PROVE  Old(p)
  <1>1. now % Day \in Nat
    BY SettlementAssumption, TimeTypes
  <1>2. Midnight <= now
    BY <1>1, TimeTypes DEF Midnight
  <1>3. p \in Payments /\ row[p].st = "pending" /\ row[p].due <= Midnight
    BY DEF Due
  <1>4. row[p].due = paidAt[p] + Delay /\ paidAt[p] # Never
    BY <1>3 DEF PaymentTimes
  <1>5. Midnight \in Int
    BY <1>1, TimeTypes DEF Midnight
  <1> QED
    BY <1>2, <1>3, <1>4, <1>5, TimeTypes DEF Old

LEMMA TimingInit == Init => Timing
  <1>1. Init => \A p \in Payments : PaymentTimes(p)
    BY DEF Init, PaymentTimes, NoRow
  <1>2. Init => \A p \in Payments : InvoiceTimes(p)
    BY SettlementAssumption DEF Init, InvoiceTimes, OpenInvoice
  <1> QED
    BY <1>1, <1>2 DEF Init, Timing, CallTimes, IdleJob, IdleCall

\* A payment that is collected was not known before.
LEMMA CollectEffect ==
  ASSUME Backing, NEW p \in Payments, Collect(p)
  PROVE  /\ paidAt[p] = Never /\ paidAt'[p] = now
         /\ \A x \in Payments \ {p} : /\ paidAt'[x] = paidAt[x] /\ intent'[x] = intent[x]
                                      /\ row'[x] = row[x]
         /\ intent'[p] = "success"
         /\ row'[p] = row[p] \/ (row'[p].st = "pending" /\ row'[p].due = now + Delay)
         /\ \A i \in Invoices : invoice'[i] # invoice[i] =>
                                 i = InvoiceOf[p] /\ invoice'[i].at = now
         /\ UNCHANGED <<now, payouts, moved, refunds, job, ran, call>>
  <1> DEFINE due == [st |-> "pending", due |-> now + Delay, payout |-> 0]
             paid == [st |-> "paid", at |-> now]
  <1>1. due.st = "pending" /\ due.due = now + Delay /\ paid.at = now
    OBVIOUS
  <1>2. /\ row' = row \/ row' = [row EXCEPT ![p] = due]
        /\ invoice' = invoice \/ invoice' = [invoice EXCEPT ![InvoiceOf[p]] = paid]
    BY DEF Collect
  <1> HIDE DEF due, paid
  <1>3. \A i \in Invoices : invoice'[i] # invoice[i] =>
                              i = InvoiceOf[p] /\ invoice'[i].at = now
    BY <1>1, <1>2 DEF Backing, TypeOK
  <1> QED
    BY <1>1, <1>2, <1>3 DEF Collect, Backing, TypeOK, provider

\* Once a payment is old it stays old, and its settlement keeps its date.
LEMMA PaymentKept ==
  ASSUME Backing, Timing, Next, NEW p \in Payments
  PROVE  /\ Old(p) => Old(p)'
         /\ PaymentTimes(p)'
         /\ paidAt[p] # Never => paidAt'[p] = paidAt[p]
         /\ paidAt[p] # Never => (row[p].st = "none" <=> row'[p].st = "none")
  <1>1. TypeOK /\ PaymentTimes(p)
    BY DEF Backing, Timing
  <1>2. CASE Tick
    BY <1>1, <1>2, TimeTypes DEF Tick, Old, PaymentTimes, books, provider
  <1>3. CASE \E x \in Payments : Collect(x)
    <2>1. PICK x \in Payments : Collect(x)
      BY <1>3
    <2>2. CASE x = p
      BY <1>1, <2>1, <2>2, CollectEffect, TimeTypes DEF Old, PaymentTimes
    <2>3. CASE x # p
      BY <1>1, <2>1, <2>3, CollectEffect DEF Old, PaymentTimes
    <2> QED
      BY <2>2, <2>3
  <1>4. CASE \E w \in Replicas : StoreResult(w)
    <2>1. PICK w \in Replicas : StoreResult(w)
      BY <1>4
    <2>2. UNCHANGED <<now, paidAt, intent, refunds>>
      BY <2>1 DEF StoreResult, books, provider
    <2>3. row'[p] = row[p] \/ (row'[p].st = "completed" /\ row'[p].due = row[p].due /\ Old(p))
      BY <2>1, StoredRows DEF Timing
    <2> QED
      BY <1>1, <2>2, <2>3 DEF Old, PaymentTimes
  <1>5. CASE \E c \in Callers : RefundStore(c)
    <2>1. PICK c \in Callers : RefundStore(c)
      BY <1>5
    <2>2. UNCHANGED <<now, paidAt, refunds>>
      BY <2>1 DEF RefundStore, books, provider
    <2>a. CallTimes(c) /\ call[c].pc # "idle"
      BY <2>1 DEF RefundStore, Timing
    <2>b. paidAt[p] = Never => intent'[p] = intent[p]
      BY <1>1, <2>1, <2>a DEF RefundStore, CallTimes, TypeOK
    <2>3. CASE p = call[c].of
      <3>1. row[p].st # "none" /\ call[c].copy.due = paidAt[p] + Delay
        BY <2>a, <2>3, SettlementAssumption DEF CallTimes
      <3>2. row'[p].st = "refunded" /\ row'[p].due = call[c].copy.due
        BY <2>1, <2>3, RefundedRows
      <3> QED
        BY <1>1, <2>2, <3>1, <3>2 DEF Old, PaymentTimes
    <2>4. CASE p # call[c].of
      <3>1. row'[p] = row[p]
        BY <2>1, <2>4, RefundedRows
      <3> QED
        BY <1>1, <2>2, <2>b, <3>1 DEF Old, PaymentTimes
    <2> QED
      BY <2>3, <2>4
  <1>6. CASE \E c \in Callers : RefundAsk(c)
    <2>1. PICK c \in Callers : RefundAsk(c)
      BY <1>6
    <2>2. UNCHANGED <<now, paidAt, intent, row, invoice>>
      BY <2>1 DEF RefundAsk, books
    <2>3. p # call[c].pay => refunds'[p] = refunds[p]
      BY <2>1 DEF RefundAsk, Backing, TypeOK
    <2>4. p = call[c].pay => paidAt[p] # Never
      BY <2>1 DEF RefundAsk, Timing, CallTimes
    <2> QED
      BY <1>1, <2>2, <2>3, <2>4 DEF Old, PaymentTimes
  <1>7. CASE UNCHANGED <<now, paidAt, intent, row, invoice, refunds>>
    BY <1>1, <1>7 DEF Old, PaymentTimes
  <1> QED
    BY <1>2, <1>3, <1>4, <1>5, <1>6, <1>7
       DEF Next, LoadDue, CreatePayout, Transfer, BatchFails, Crash, RefundRead, RefundFails,
           books, provider

\* What a step does to the invoice of a payment that is alone on it.
LEMMA InvoiceKept ==
  ASSUME Backing, Timing, Next, NEW p \in Payments
  PROVE  InvoiceTimes(p)'
  <1> DEFINE i == InvoiceOf[p]
  <1>1. i \in Invoices /\ InvoiceTimes(p)
    BY SettlementAssumption DEF Timing
  <1>2. CASE \E x \in Payments : Collect(x)
    <2>1. PICK x \in Payments : Collect(x)
      BY <1>2
    <2>2. CASE x = p
      BY <1>1, <2>1, <2>2, CollectEffect, TimeTypes DEF InvoiceTimes, Backing
    <2>3. CASE x # p
      <3>1. Alone(p) => InvoiceOf[x] # i
        BY <2>3 DEF Alone
      <3> QED
        BY <1>1, <2>1, <2>3, <3>1, CollectEffect DEF InvoiceTimes, Alone
    <2> QED
      BY <2>2, <2>3
  <1>3. CASE \E c \in Callers : RefundStore(c)
    <2>1. UNCHANGED paidAt /\ (invoice'[i].st = "paid" => invoice'[i] = invoice[i])
      BY <1>1, <1>3, RefundedInvoice DEF RefundStore
    <2> QED
      BY <1>1, <2>1 DEF InvoiceTimes, Alone
  <1>4. CASE UNCHANGED <<paidAt, invoice>>
    BY <1>1, <1>4 DEF InvoiceTimes, Alone
  <1> QED
    BY <1>2, <1>3, <1>4
       DEF Next, Tick, LoadDue, CreatePayout, Transfer, StoreResult, BatchFails, Crash, RefundRead,
           RefundAsk, RefundFails, books

\* A call c that does not start keeps its copy; one that starts has just looked.
LEMMA CallKept ==
  ASSUME Backing, Timing, Next, NEW c \in Callers
  PROVE  CallTimes(c)'
  <1>1. TypeOK /\ CallTimes(c) /\ call[c] \in Call
    BY DEF Backing, Timing, TypeOK
  <1>2. CASE Tick
    BY <1>2 DEF Tick, CallTimes
  <1>3. CASE \E p \in Payments : RefundRead(c, p)
    <2>1. PICK p \in Payments : RefundRead(c, p)
      BY <1>3
    <2>2. PICK k \in Call :
            /\ call' = [call EXCEPT ![c] = k] /\ k.pc = "ask" /\ k.pay = p
            /\ k.of = NoPayment => Found(InvoiceOf[p]) = {}
            /\ k.of # NoPayment =>
                 k.of \in Payments /\ k.of \in Found(InvoiceOf[p]) /\ k.copy = row[k.of]
      BY <2>1, ReadEffect
    <2>3. call'[c] = k /\ UNCHANGED <<row, paidAt, now>>
      BY <1>1, <2>1, <2>2 DEF RefundRead, TypeOK, books
    <2>4. paidAt[p] # Never /\ (Alone(p) => Young(p))
      <3>1. intent[p] = "success" /\ invoice[InvoiceOf[p]].st = "paid"
            /\ now - invoice[InvoiceOf[p]].at <= Window
        BY <2>1 DEF RefundRead, CanRefund
      <3>2. paidAt[p] # Never /\ InvoiceTimes(p)
        BY <3>1 DEF Timing, PaymentTimes
      <3> QED
        BY <1>1, <3>1, <3>2, TimeTypes DEF Young, InvoiceTimes
    <2>5. k.of # NoPayment =>
            /\ InvoiceOf[k.of] = InvoiceOf[p] /\ row[k.of].st # "none"
            /\ k.copy.due = paidAt[k.of] + Delay
      BY <2>2 DEF Timing, PaymentTimes, Found
    <2>6. Alone(p) => (k.of = NoPayment <=> row[p].st = "none")
      BY <2>2 DEF Alone, Found
    <2> QED
      BY <2>2, <2>3, <2>4, <2>5, <2>6 DEF CallTimes, Young, Alone
  <1>4. CASE now' = now /\ (call'[c].pc # "idle" =>
                              /\ call[c].pc # "idle" /\ call'[c].pay = call[c].pay
                              /\ call'[c].of = call[c].of /\ call'[c].copy = call[c].copy)
    <2> SUFFICES ASSUME call'[c].pc # "idle" PROVE CallTimes(c)'
      BY DEF CallTimes
    <2>1. PICK p \in Payments, x \in Payments \cup {NoPayment} :
          /\ p = call[c].pay /\ x = call[c].of /\ paidAt[p] # Never
          /\ x # NoPayment =>
               /\ x \in Payments /\ InvoiceOf[x] = InvoiceOf[p]
               /\ row[x].st # "none" /\ call[c].copy.due = paidAt[x] + Delay
          /\ Alone(p) => Young(p) /\ (x = NoPayment <=> row[p].st = "none")
          /\ call'[c].pay = p /\ call'[c].of = x /\ call'[c].copy = call[c].copy
      BY <1>1, <1>4 DEF CallTimes
    <2>2. paidAt'[p] = paidAt[p] /\ (row[p].st = "none" <=> row'[p].st = "none")
      BY <2>1, PaymentKept
    <2>3. x # NoPayment => paidAt'[x] = paidAt[x] /\ row'[x].st # "none"
      <3>1. x # NoPayment => paidAt[x] # Never
        BY <2>1 DEF Timing, PaymentTimes
      <3> QED
        BY <2>1, <3>1, PaymentKept
    <2>4. Alone(p)' <=> Alone(p)
      BY DEF Alone
    <2>5. Alone(p) => Young(p)'
      BY <1>4, <2>1, <2>2 DEF Young
    <2> QED
      BY <2>1, <2>2, <2>3, <2>4, <2>5 DEF CallTimes
  <1>5. CASE \E d \in Callers \ {c} : \/ RefundAsk(d) \/ RefundStore(d) \/ RefundFails(d)
                                      \/ \E p \in Payments : RefundRead(d, p)
    <2>1. now' = now /\ call'[c] = call[c]
      BY <1>1, <1>5 DEF RefundAsk, RefundStore, RefundFails, RefundRead, TypeOK
    <2> QED
      BY <1>4, <2>1
  <1>6. CASE RefundStore(c) \/ RefundFails(c)
    <2>1. now' = now /\ call'[c] = IdleCall
      BY <1>1, <1>6 DEF RefundStore, RefundFails, TypeOK
    <2> QED
      BY <2>1 DEF CallTimes, IdleCall
  <1>7. CASE RefundAsk(c)
    <2>1. call'[c] = IdleCall \/ call'[c] = [call[c] EXCEPT !.pc = "store"]
      BY <1>1, <1>7 DEF RefundAsk, TypeOK
    <2>2. call[c].pc = "ask" /\ now' = now
      BY <1>7 DEF RefundAsk
    <2>3. CASE call'[c] = IdleCall
      BY <2>3 DEF CallTimes, IdleCall
    <2>4. CASE call'[c] = [call[c] EXCEPT !.pc = "store"]
      <3>1. /\ call'[c].pay = call[c].pay /\ call'[c].of = call[c].of
            /\ call'[c].copy = call[c].copy
        BY <2>4, CallTypes
      <3> QED
        BY <1>4, <2>2, <3>1
    <2> QED
      BY <2>1, <2>3, <2>4
  <1>8. CASE UNCHANGED <<now, call>>
    BY <1>4, <1>8
  <1> QED
    BY <1>2, <1>3, <1>5, <1>6, <1>7, <1>8
       DEF Next, Collect, LoadDue, CreatePayout, Transfer, StoreResult, BatchFails, Crash

LEMMA TimingNext == Backing /\ Timing /\ [Next]_vars => Timing'
  <1> SUFFICES ASSUME Backing, Timing, [Next]_vars PROVE Timing'
    OBVIOUS
  <1>1. CASE UNCHANGED vars
    BY <1>1 DEF vars, books, provider, Timing, Old, PaymentTimes, InvoiceTimes, CallTimes, Young,
                Alone
  <1>2. CASE Next
    <2>1. ASSUME NEW w \in Replicas, NEW p \in job'[w].todo PROVE Old(p)'
      <3>1. p \in job[w].todo \/ p \in Due
        BY <1>2, <2>1, TodoEffect
      <3>2. p \in Payments
        BY <3>1, PayoutTypes DEF Due, Backing
      <3>3. Old(p)
        BY <3>1, <3>2, DueOld DEF Timing, Backing
      <3> QED
        BY <1>2, <3>2, <3>3, PaymentKept
    <2>2. ASSUME NEW q \in moved', NEW p \in payouts'[q].batch PROVE Old(p)'
      <3>1. q \in DOMAIN payouts /\ p \in payouts[q].batch
        BY <1>2, <2>2, MovedEffect
      <3>2. p \in Payments
        BY <3>1, PayoutTypes DEF Backing
      <3>3. CASE q \in moved
        BY <1>2, <3>1, <3>2, <3>3, PaymentKept DEF Timing
      <3>4. CASE \E w \in Replicas : job[w].pc = "transfer" /\ q = job[w].payout
        <4>1. Old(p)
          BY <3>1, <3>4 DEF Backing, JobBacked, Timing
        <4> QED
          BY <1>2, <3>2, <4>1, PaymentKept
      <3> QED
        BY <1>2, <2>2, <3>3, <3>4, MovedEffect
    <2>3. \A p \in Payments : PaymentTimes(p)' /\ InvoiceTimes(p)'
      BY <1>2, PaymentKept, InvoiceKept
    <2>4. \A c \in Callers : CallTimes(c)'
      BY <1>2, CallKept
    <2> QED
      BY <2>1, <2>2, <2>3, <2>4 DEF Timing
  <1> QED
    BY <1>1, <1>2

LEMMA TimingInvariant == Spec => []Timing
  BY TimingInit, TimingNext, BackingInvariant, PTL DEF Spec
-----------------------------------------------------------------------------
(* Without faults a payment goes one way.                                  *)

RefundStored(p) == \E c \in Callers : call[c].pc = "store" /\ call[c].pay = p

OneWay(p) ==
    refunds[p] > 0 =>
        /\ Transfers(p) = {}
        /\ row[p].st \notin {"none", "refunded"} => RefundStored(p)
        /\ \A w \in Replicas : p \notin job[w].todo

Once == faults = 0 => \A p \in Payments : Alone(p) => OneWay(p)

LEMMA OnceInit == Init => Once
  BY DEF Init, Once, OneWay

\* A refund is given to a call that then stores it, or something failed.
LEMMA RefundEffect ==
  ASSUME Backing, Timing, Next, NEW p \in Payments, refunds'[p] # refunds[p]
  PROVE  \E c \in Callers :
           /\ RefundAsk(c) /\ call[c].pay = p /\ call[c].pc = "ask" /\ (Alone(p) => Young(p))
           /\ refunds'[p] = refunds[p] + 1
           /\ \/ faults' = faults /\ call'[c].pc = "store" /\ call'[c].pay = p
              \/ faults' = faults + 1 /\ call'[c] = IdleCall
  <1>1. PICK c \in Callers : RefundAsk(c)
    BY DEF Next, Tick, Collect, LoadDue, CreatePayout, Transfer, StoreResult, BatchFails, Crash,
           RefundRead, RefundStore, RefundFails, books, provider
  <1>2. refunds' = [refunds EXCEPT ![call[c].pay] = refunds[call[c].pay] + 1]
    BY <1>1 DEF RefundAsk
  <1>3. call[c].pay = p /\ refunds'[p] = refunds[p] + 1
    BY <1>2 DEF Backing, TypeOK
  <1>4. call[c].pc = "ask" /\ (Alone(p) => Young(p))
    BY <1>1, <1>3 DEF RefundAsk, Timing, CallTimes
  <1>5. refunds' # refunds
    OBVIOUS
  <1>6. CASE call' = [call EXCEPT ![c] = [call[c] EXCEPT !.pc = "store"]] /\ UNCHANGED faults
    <2>1. call'[c] = [call[c] EXCEPT !.pc = "store"]
      BY <1>6 DEF Backing, TypeOK
    <2> QED
      BY <1>1, <1>3, <1>4, <1>6, <2>1, CallTypes
  <1>7. CASE call' = [call EXCEPT ![c] = IdleCall] /\ Fault
    <2>1. call'[c] = IdleCall /\ faults' = faults + 1
      BY <1>7, FaultType DEF Backing, TypeOK
    <2> QED
      BY <1>1, <1>3, <1>4, <2>1
  <1> QED
    BY <1>1, <1>5, <1>6, <1>7 DEF RefundAsk

\* Faults are counted and never forgotten.
LEMMA FaultEffect ==
  ASSUME Backing, Next
  PROVE  faults' \in Nat /\ faults \in Nat /\ (faults' = faults \/ faults' = faults + 1)
  <1>1. faults \in Nat /\ TypeOK
    BY SettlementAssumption DEF Backing, TypeOK
  <1>2. Fault => faults' = faults + 1
    BY <1>1, FaultType
  <1>3. faults' = faults \/ Fault
    BY DEF Next, Tick, Collect, LoadDue, CreatePayout, Transfer, StoreResult, BatchFails, Crash,
           RefundRead, RefundStore, RefundFails, RefundAsk
  <1> QED
    BY <1>1, <1>2, <1>3

\* A settlement changes when its payment is collected, paid out or refunded.
LEMMA RowEffect ==
  ASSUME Backing, Timing, Next, NEW p \in Payments, row'[p] # row[p]
  PROVE  \/ paidAt[p] = Never /\ Collect(p) /\ row'[p].st = "pending"
         \/ \E w \in Replicas : /\ StoreResult(w) /\ job[w].ok /\ p \in job[w].todo
                                /\ p \in payouts[job[w].payout].batch
                                /\ row'[p].st = "completed"
         \/ \E c \in Callers : /\ RefundStore(c) /\ call[c].of = p /\ call[c].pc = "store"
                               /\ row'[p].st = "refunded" /\ row[p].st # "none"
  <1>1. CASE \E x \in Payments : Collect(x)
    BY <1>1, CollectEffect
  <1>2. CASE \E w \in Replicas : StoreResult(w)
    <2>1. PICK w \in Replicas : StoreResult(w)
      BY <1>2
    <2> QED
      BY <2>1, StoredRows
  <1>3. CASE \E c \in Callers : RefundStore(c)
    <2>1. PICK c \in Callers : RefundStore(c)
      BY <1>3
    <2>2. call[c].of = p /\ row'[p].st = "refunded"
      BY <2>1, RefundedRows
    <2>3. call[c].pc = "store" /\ row[p].st # "none"
      BY <2>1, <2>2, SettlementAssumption DEF RefundStore, Timing, CallTimes
    <2> QED
      BY <2>1, <2>2, <2>3
  <1> QED
    BY <1>1, <1>2, <1>3
       DEF Next, Tick, LoadDue, CreatePayout, Transfer, BatchFails, Crash, RefundRead, RefundAsk,
           RefundFails, books

\* A refund that is waiting to be stored is stored, or something fails.
LEMMA StoredEffect ==
  ASSUME Backing, Next, NEW p \in Payments, RefundStored(p)
  PROVE  \/ RefundStored(p)' \/ faults' = faults + 1
         \/ \E c \in Callers : RefundStore(c) /\ call[c].pay = p
  <1>1. PICK c \in Callers : call[c].pc = "store" /\ call[c].pay = p
    BY DEF RefundStored
  <1>2. CASE call'[c] = call[c]
    BY <1>1, <1>2 DEF RefundStored
  <1>3. CASE call'[c] # call[c]
    <2>1. RefundStore(c) \/ RefundFails(c)
      <3>1. call \in [Callers -> Call]
        BY DEF Backing, TypeOK
      <3> QED
        BY <1>1, <1>3, <3>1 DEF Next, Tick, Collect, LoadDue, CreatePayout, Transfer, StoreResult,
           BatchFails, Crash, RefundRead, RefundAsk, RefundStore, RefundFails
    <2>2. RefundFails(c) => faults' = faults + 1
      BY FaultType DEF RefundFails, Backing
    <2> QED
      BY <1>1, <2>1, <2>2
  <1> QED
    BY <1>2, <1>3

LEMMA OnceNext == Backing /\ Timing /\ Once /\ [Next]_vars => Once'
  <1> SUFFICES ASSUME Backing, Timing, Once, [Next]_vars, faults' = 0, NEW p \in Payments,
                      Alone(p), refunds'[p] > 0
               PROVE  OneWay(p)'
    BY DEF Once, OneWay, Alone
  <1>1. CASE UNCHANGED vars
    BY <1>1 DEF vars, books, provider, Once, OneWay, Transfers, RefundStored
  <1>2. CASE Next
    <2>1. faults = 0 /\ OneWay(p) /\ TypeOK /\ faults' # faults + 1
      BY <1>2, FaultEffect DEF Once, Backing
    <2>2. refunds'[p] # refunds[p] \/ refunds[p] > 0
      OBVIOUS
    <2>3. ASSUME NEW q \in Transfers(p)' PROVE FALSE
      <3>1. q \in moved' /\ q \in DOMAIN payouts /\ p \in payouts[q].batch
        BY <1>2, <2>3, MovedEffect DEF Transfers
      <3>2. q \in moved \/ \E w \in Replicas : p \in job[w].todo
        BY <1>2, <3>1, MovedEffect DEF Backing, JobBacked
      <3>3. Old(p)
        BY <3>1, <3>2 DEF Timing
      <3>4. refunds[p] > 0
        BY <1>2, <2>1, <2>2, <3>3, NotBoth, RefundEffect
      <3> QED
        BY <2>1, <3>1, <3>2, <3>4 DEF OneWay, Transfers
    <2>4. ASSUME row'[p].st \notin {"none", "refunded"} PROVE RefundStored(p)'
      <3>1. CASE refunds'[p] # refunds[p]
        BY <1>2, <2>1, <3>1, RefundEffect DEF RefundStored
      <3>2. CASE refunds'[p] = refunds[p]
        <4>1. paidAt[p] # Never /\ \A w \in Replicas : p \notin job[w].todo
          BY <2>1, <3>2 DEF OneWay, Timing, PaymentTimes
        <4>2. row'[p] = row[p]
          BY <1>2, <2>4, <4>1, RowEffect
        <4>3. RefundStored(p)
          BY <2>1, <2>4, <3>2, <4>2 DEF OneWay
        <4>4. ASSUME NEW c \in Callers, RefundStore(c), call[c].pay = p PROVE FALSE
          <5>1. call[c].of = p
            BY <2>4, <4>2, <4>4 DEF RefundStore, Timing, CallTimes, Alone
          <5> QED
            BY <2>4, <4>2, <4>4, <5>1, RefundedRows
        <4> QED
          BY <1>2, <2>1, <4>3, <4>4, StoredEffect
      <3> QED
        BY <3>1, <3>2
    <2>5. ASSUME NEW w \in Replicas, p \in job'[w].todo PROVE FALSE
      <3>1. p \in job[w].todo \/ p \in Due
        BY <1>2, <2>5, TodoEffect
      <3>2. Old(p)
        BY <2>1, <3>1, DueOld DEF Timing
      <3>3. refunds[p] > 0
        BY <1>2, <2>1, <2>2, <3>2, NotBoth, RefundEffect
      <3>4. p \in Due
        BY <2>1, <3>1, <3>3 DEF OneWay
      <3>5. PICK c \in Callers : call[c].pc = "store" /\ call[c].pay = p
        BY <2>1, <3>3, <3>4 DEF OneWay, Due, RefundStored
      <3>6. Young(p)
        BY <3>5 DEF Timing, CallTimes
      <3> QED
        BY <2>1, <3>2, <3>6, NotBoth
    <2> QED
      BY <2>3, <2>4, <2>5 DEF OneWay
  <1> QED
    BY <1>1, <1>2

LEMMA OnceInvariant == Spec => []Once
  BY OnceInit, OnceNext, BackingInvariant, TimingInvariant, PTL DEF Spec
-----------------------------------------------------------------------------
(* Counting refunds: a call that may still ask has not refunded, and the   *)
(* first result that is stored stops new calls.                            *)

Asking(p) == {c \in Callers : call[c].pc = "ask" /\ call[c].pay = p}
Storing(p) == {c \in Callers : call[c].pc = "store" /\ call[c].pay = p}

RefundCount(p) ==
    /\ intent[p] # "refund" => refunds[p] <= Cardinality(Storing(p)) + faults
    /\ refunds[p] + Cardinality(Asking(p)) <= Cardinality(Callers) + faults

RefundCounts == \A p \in Payments : RefundCount(p)

\* Disjoint parts of a set.
LEMMA Parts ==
  ASSUME NEW S, IsFiniteSet(S), NEW A \in SUBSET S, NEW B \in SUBSET S, A \cap B = {}
  PROVE  /\ Cardinality(A) \in Nat /\ Cardinality(B) \in Nat /\ Cardinality(S) \in Nat
         /\ Cardinality(A) + Cardinality(B) <= Cardinality(S)
  <1>1. IsFiniteSet(A) /\ IsFiniteSet(B) /\ (A \cup B) \in SUBSET S
    BY FS_Subset
  <1>2. Cardinality(A \cup B) = Cardinality(A) + Cardinality(B) - Cardinality(A \cap B)
    BY <1>1, FS_Union
  <1>3. Cardinality(A \cap B) = 0
    BY FS_EmptySet
  <1>4. Cardinality(A \cup B) <= Cardinality(S)
    BY <1>1, FS_Subset
  <1> QED
    BY <1>1, <1>2, <1>3, <1>4, FS_CardinalityType

LEMMA CallerSets ==
  ASSUME NEW p
  PROVE  /\ IsFiniteSet(Asking(p)) /\ IsFiniteSet(Storing(p))
         /\ Cardinality(Asking(p)) \in Nat /\ Cardinality(Storing(p)) \in Nat
         /\ Cardinality(Callers) \in Nat
         /\ Cardinality(Asking(p)) + Cardinality(Storing(p)) <= Cardinality(Callers)
  <1>1. Asking(p) \in SUBSET Callers /\ Storing(p) \in SUBSET Callers
        /\ Asking(p) \cap Storing(p) = {}
    BY DEF Asking, Storing
  <1>2. IsFiniteSet(Callers)
    BY SettlementAssumption
  <1> QED
    BY <1>1, <1>2, Parts, FS_Subset

LEMMA CallerSetsNext ==
  ASSUME NEW p
  PROVE  /\ Cardinality(Asking(p)') \in Nat /\ Cardinality(Storing(p)') \in Nat
         /\ Cardinality(Asking(p)') + Cardinality(Storing(p)') <= Cardinality(Callers)
  <1>1. Asking(p)' \in SUBSET Callers /\ Storing(p)' \in SUBSET Callers
        /\ Asking(p)' \cap Storing(p)' = {}
    BY DEF Asking, Storing
  <1>2. IsFiniteSet(Callers)
    BY SettlementAssumption
  <1> QED
    BY <1>1, <1>2, Parts

LEMMA RefundCountInit == Init => RefundCounts
  <1> SUFFICES ASSUME Init, NEW p \in Payments PROVE RefundCount(p)
    BY DEF RefundCounts
  <1>1. Asking(p) = {} /\ Storing(p) = {} /\ refunds[p] = 0 /\ faults = 0
    BY DEF Init, Asking, Storing, IdleCall
  <1> QED
    BY <1>1, FS_EmptySet, CallerSets DEF RefundCount

\* The other calls stay where they are.
LEMMA OtherCalls ==
  ASSUME TypeOK, NEW c \in Callers, NEW k, call' = [call EXCEPT ![c] = k], NEW p
  PROVE  /\ Asking(p)' = (Asking(p) \ {c})
                           \cup (IF k.pc = "ask" /\ k.pay = p THEN {c} ELSE {})
         /\ Storing(p)' = (Storing(p) \ {c})
                            \cup (IF k.pc = "store" /\ k.pay = p THEN {c} ELSE {})
  <1>1. call'[c] = k /\ \A d \in Callers \ {c} : call'[d] = call[d]
    BY DEF TypeOK
  <1> QED
    BY <1>1 DEF Asking, Storing

\* While the intent is not refunded, the first part brings the second.
LEMMA CountDerived ==
  ASSUME Backing, Next, NEW p \in Payments, Backing',
         refunds'[p] <= Cardinality(Storing(p)') + faults'
  PROVE  RefundCount(p)'
  <1>1. refunds'[p] \in Nat
    BY DEF Backing, TypeOK
  <1> DEFINE a == Cardinality(Asking(p)')
             s == Cardinality(Storing(p)')
             n == Cardinality(Callers)
  <1>a. a \in Nat /\ s \in Nat /\ a + s <= n
    BY CallerSetsNext
  <1>b. n \in Nat
    BY CallerSets
  <1>c. faults' \in Nat
    BY FaultEffect
  <1>d. refunds'[p] <= s + faults'
    OBVIOUS
  <1> HIDE DEF a, s, n
  <1>e. refunds'[p] + a <= n + faults'
    BY <1>1, <1>a, <1>b, <1>c, <1>d
  <1>2. refunds'[p] + Cardinality(Asking(p)') <= Cardinality(Callers) + faults'
    BY <1>e DEF a, n
  <1> QED
    BY <1>2 DEF RefundCount

LEMMA CountAsk ==
  ASSUME Backing, Timing, Next, NEW p \in Payments, RefundCount(p), NEW c \in Callers, RefundAsk(c),
         Backing'
  PROVE  RefundCount(p)'
  <1> DEFINE k == call'[c]
  <1>1. /\ call[c].pc = "ask" /\ intent' = intent /\ TypeOK /\ call' \in [Callers -> Call]
        /\ refunds[p] \in Nat /\ refunds'[p] \in Nat
    BY DEF RefundAsk, Backing, TypeOK, books
  <1>2. PICK j : call' = [call EXCEPT ![c] = j]
    BY DEF RefundAsk
  <1>3. call'[c] = j
    BY <1>1, <1>2 DEF TypeOK
  <1>4. /\ Asking(p)' = (Asking(p) \ {c}) \cup (IF j.pc = "ask" /\ j.pay = p THEN {c} ELSE {})
        /\ Storing(p)' = (Storing(p) \ {c}) \cup (IF j.pc = "store" /\ j.pay = p THEN {c} ELSE {})
    BY <1>1, <1>2, OtherCalls
  <1>5. c \notin Storing(p) /\ (call[c].pay = p <=> c \in Asking(p))
    BY <1>1 DEF Asking, Storing
  <1>6. j.pc \in {"idle", "store"} /\ (j.pc = "store" => j.pay = call[c].pay)
    <2>1. j = IdleCall \/ j = [call[c] EXCEPT !.pc = "store"]
      BY <1>1, <1>3 DEF RefundAsk, TypeOK
    <2>2. IdleCall.pc = "idle"
      BY DEF IdleCall
    <2> QED
      BY <2>1, <2>2, CallTypes
  <1>7. Asking(p)' = Asking(p) \ {c}
    BY <1>4, <1>6
  <1>8. CASE refunds'[p] = refunds[p]
    <2>1. Cardinality(Asking(p)') <= Cardinality(Asking(p))
      BY <1>7, CallerSets, FS_Subset
    <2>2. Cardinality(Storing(p)') >= Cardinality(Storing(p))
      <3>1. Storing(p) \in SUBSET Storing(p)' /\ Storing(p)' \in SUBSET Callers
        BY <1>4, <1>5 DEF Storing
      <3>2. IsFiniteSet(Storing(p)')
        BY <3>1, SettlementAssumption, FS_Subset
      <3> QED
        BY <3>1, <3>2, FS_Subset
    <2> QED
      BY <1>1, <1>8, <2>1, <2>2, CallerSets, CallerSetsNext, FaultEffect DEF RefundCount
  <1>9. CASE refunds'[p] # refunds[p]
    <2>1. /\ call[c].pay = p /\ refunds'[p] = refunds[p] + 1
          /\ \/ faults' = faults /\ j.pc = "store" /\ j.pay = p
             \/ faults' = faults + 1 /\ j.pc = "idle"
      <3>1. PICK d \in Callers :
              /\ call[d].pay = p /\ call[d].pc = "ask" /\ RefundAsk(d)
              /\ refunds'[p] = refunds[p] + 1
              /\ \/ faults' = faults /\ call'[d].pc = "store" /\ call'[d].pay = p
                 \/ faults' = faults + 1 /\ call'[d] = IdleCall
        BY <1>9, RefundEffect
      <3>2. call'[d] # call[d]
        BY <3>1 DEF IdleCall
      <3>3. d = c
        BY <1>1, <1>2, <3>2 DEF TypeOK
      <3> QED
        BY <1>3, <3>1, <3>3 DEF IdleCall
    <2>2. Cardinality(Asking(p)') = Cardinality(Asking(p)) - 1
      BY <1>5, <1>7, <2>1, CallerSets, FS_RemoveElement
    <2>3. CASE faults' = faults /\ j.pc = "store" /\ j.pay = p
      <3>1. Storing(p)' = Storing(p) \cup {c}
        BY <1>4, <1>5, <2>3
      <3>2. Cardinality(Storing(p)') = Cardinality(Storing(p)) + 1
        BY <1>5, <3>1, CallerSets, FS_AddElement
      <3> QED
        BY <1>1, <2>1, <2>2, <2>3, <3>2, CallerSets, FaultEffect DEF RefundCount
    <2>4. CASE faults' = faults + 1 /\ j.pc = "idle"
      <3>1. Storing(p)' = Storing(p)
        BY <1>4, <1>5, <2>4
      <3> QED
        BY <1>1, <2>1, <2>2, <2>4, <3>1, CallerSets, FaultEffect DEF RefundCount
    <2> QED
      BY <2>1, <2>3, <2>4
  <1> QED
    BY <1>8, <1>9

LEMMA CountStep ==
  ASSUME Backing, Timing, Next, NEW p \in Payments, RefundCount(p), Backing'
  PROVE  RefundCount(p)'
  <1>1. TypeOK /\ refunds[p] \in Nat /\ refunds'[p] \in Nat
    BY DEF Backing, TypeOK
  <1>2. CASE \E c \in Callers : RefundAsk(c)
    BY <1>2, CountAsk
  <1>3. CASE \E c \in Callers, x \in Payments : RefundRead(c, x)
    <2>1. PICK c \in Callers, x \in Payments : RefundRead(c, x)
      BY <1>3
    <2>2. PICK k \in Call : call' = [call EXCEPT ![c] = k] /\ k.pc = "ask" /\ k.pay = x
      BY <2>1, ReadEffect
    <2>3. /\ call[c].pc = "idle" /\ intent[x] = "success"
          /\ UNCHANGED <<intent, refunds, faults>>
      BY <2>1 DEF RefundRead, CanRefund, books, provider
    <2>4. Storing(p)' = Storing(p) /\ (x # p => Asking(p)' = Asking(p))
      BY <1>1, <2>2, <2>3, OtherCalls DEF Storing, Asking
    <2>5. CASE x = p
      BY <2>3, <2>4, <2>5, CountDerived DEF RefundCount
    <2>6. CASE x # p
      BY <2>3, <2>4, <2>6 DEF RefundCount
    <2> QED
      BY <2>5, <2>6
  <1>4. CASE \E c \in Callers : RefundStore(c)
    <2>1. PICK c \in Callers : RefundStore(c)
      BY <1>4
    <2>2. /\ call' = [call EXCEPT ![c] = IdleCall] /\ call[c].pc = "store"
          /\ intent' = [intent EXCEPT ![call[c].pay] = "refund"] /\ UNCHANGED <<refunds, faults>>
      BY <2>1 DEF RefundStore, books, provider
    <2>3. Asking(p)' = Asking(p) /\ (call[c].pay # p => Storing(p)' = Storing(p))
      BY <1>1, <2>2, OtherCalls DEF Storing, Asking, IdleCall
    <2>4. IF call[c].pay = p THEN intent'[p] = "refund" ELSE intent'[p] = intent[p]
      BY <1>1, <2>2 DEF TypeOK
    <2> QED
      BY <2>2, <2>3, <2>4 DEF RefundCount
  <1>5. CASE \E c \in Callers : RefundFails(c)
    <2>1. PICK c \in Callers : RefundFails(c)
      BY <1>5
    <2>2. /\ call' = [call EXCEPT ![c] = IdleCall] /\ call[c].pc = "store"
          /\ UNCHANGED <<intent, refunds>> /\ faults' = faults + 1
      BY <1>1, <2>1, FaultType DEF RefundFails, books, provider
    <2>a. IdleCall.pc = "idle"
      BY DEF IdleCall
    <2>b. /\ Asking(p)' = (Asking(p) \ {c})
                            \cup (IF IdleCall.pc = "ask" /\ IdleCall.pay = p THEN {c} ELSE {})
          /\ Storing(p)' = (Storing(p) \ {c})
                             \cup (IF IdleCall.pc = "store" /\ IdleCall.pay = p THEN {c} ELSE {})
      BY <1>1, <2>2, OtherCalls
    <2>c. c \notin Asking(p)
      BY <2>2 DEF Asking
    <2>3. Asking(p)' = Asking(p) /\ Storing(p)' = Storing(p) \ {c}
      BY <2>a, <2>b, <2>c
    <2>4. Cardinality(Storing(p)') \in {Cardinality(Storing(p)), Cardinality(Storing(p)) - 1}
      BY <2>3, CallerSets, FS_RemoveElement
    <2> QED
      BY <1>1, <2>2, <2>3, <2>4, CallerSets, FaultEffect DEF RefundCount
  <1>6. CASE UNCHANGED <<call, refunds>> /\ (intent'[p] # "refund" => intent[p] # "refund")
    <2>1. Asking(p)' = Asking(p) /\ Storing(p)' = Storing(p)
      BY <1>6 DEF Asking, Storing
    <2> QED
      BY <1>1, <1>6, <2>1, CallerSets, FaultEffect DEF RefundCount
  <1>7. CASE \E x \in Payments : Collect(x)
    <2>1. PICK x \in Payments : Collect(x)
      BY <1>7
    <2>2. intent[p] = "refund" => x # p
      BY <2>1, CollectEffect DEF Timing, PaymentTimes
    <2>3. UNCHANGED <<call, refunds>> /\ (x # p => intent'[p] = intent[p])
      BY <2>1, CollectEffect
    <2> QED
      BY <1>6, <2>2, <2>3
  <1> QED
    BY <1>2, <1>3, <1>4, <1>5, <1>6, <1>7
       DEF Next, Tick, LoadDue, CreatePayout, Transfer, StoreResult, BatchFails, Crash, books, provider

LEMMA RefundCountNext == Backing /\ Timing /\ RefundCounts /\ [Next]_vars => RefundCounts'
  <1> SUFFICES ASSUME Backing, Timing, RefundCounts, [Next]_vars, NEW p \in Payments
               PROVE  RefundCount(p)'
    BY DEF RefundCounts
  <1>1. CASE UNCHANGED vars
    BY <1>1 DEF vars, books, provider, RefundCounts, RefundCount, Asking, Storing
  <1> QED
    BY <1>1, CountStep, BackingNext DEF RefundCounts

LEMMA RefundCountInvariant == Spec => []RefundCounts
  BY RefundCountInit, RefundCountNext, BackingInvariant, TimingInvariant, PTL DEF Spec

\* The provider is asked to refund before anything is stored
\* (transaction.go:582), and yet no payment that is alone on its invoice is both
\* refunded and paid out unless something failed, and concurrent calls refund any
\* payment at most once each, whichever settlement they take.
THEOREM MoneyOnceCorrect == Spec => []MoneyOnce
  <1>1. Backing /\ Once /\ RefundCounts => MoneyOnce
    <2> SUFFICES ASSUME Backing, Once, RefundCounts, NEW p \in Payments
                 PROVE  /\ faults = 0 /\ Alone(p) => refunds[p] = 0 \/ Transfers(p) = {}
                        /\ refunds[p] <= Cardinality(Callers) + faults
      BY DEF MoneyOnce
    <2>1. refunds[p] \in Nat /\ faults \in Nat
      BY SettlementAssumption DEF Backing, TypeOK
    <2> QED
      BY <2>1, CallerSets DEF Once, OneWay, RefundCounts, RefundCount
  <1> QED
    BY <1>1, BackingInvariant, OnceInvariant, RefundCountInvariant, PTL
-----------------------------------------------------------------------------
(* Counting transfers: a job that may still transfer the money of p counts *)
(* against the bound, and a transfer that is not stored is a fault.        *)

Ahead(p) == {w \in Replicas : p \in job[w].todo
                               /\ ~(job[w].pc = "store" /\ p \in payouts[job[w].payout].batch)}
Stored(p) == {w \in Replicas : job[w].pc = "store" /\ job[w].ok
                                /\ p \in payouts[job[w].payout].batch}
Open(p) == row[p].st \in {"none", "pending"}

PayCount(p) ==
    /\ Open(p) => Cardinality(Transfers(p)) <= Cardinality(Stored(p)) + faults
    /\ Cardinality(Transfers(p)) + Cardinality(Ahead(p)) <= Cardinality(Replicas) + faults

PayCounts == \A p \in Payments : PayCount(p)

\* Sets that agree on all but one element.
LEMMA OneMember ==
  ASSUME NEW S, IsFiniteSet(S), NEW A \in SUBSET S, NEW B \in SUBSET S, NEW w \in S,
         \A v \in S \ {w} : v \in A <=> v \in B
  PROVE  /\ Cardinality(A) \in Nat /\ Cardinality(B) \in Nat
         /\ w \in A /\ w \in B => Cardinality(B) = Cardinality(A)
         /\ w \notin A /\ w \notin B => Cardinality(B) = Cardinality(A)
         /\ w \in A /\ w \notin B => Cardinality(B) = Cardinality(A) - 1
         /\ w \notin A /\ w \in B => Cardinality(B) = Cardinality(A) + 1
  <1>1. IsFiniteSet(A) /\ IsFiniteSet(B)
    BY FS_Subset
  <1>2. Cardinality(A) \in Nat /\ Cardinality(B) \in Nat
    BY <1>1, FS_CardinalityType
  <1>3. CASE w \in A /\ w \in B
    <2>1. A = B
      BY <1>3
    <2> QED
      BY <1>2, <1>3, <2>1
  <1>4. CASE w \notin A /\ w \notin B
    <2>1. A = B
      BY <1>4
    <2> QED
      BY <1>2, <1>4, <2>1
  <1>5. CASE w \in A /\ w \notin B
    <2>1. B = A \ {w}
      BY <1>5
    <2>2. Cardinality(A \ {w}) = Cardinality(A) - 1
      BY <1>1, <1>5, FS_RemoveElement
    <2> QED
      BY <1>2, <1>5, <2>1, <2>2
  <1>6. CASE w \notin A /\ w \in B
    <2>1. B = A \cup {w}
      BY <1>6
    <2>2. Cardinality(A \cup {w}) = Cardinality(A) + 1
      BY <1>1, <1>6, FS_AddElement
    <2> QED
      BY <1>2, <1>6, <2>1, <2>2
  <1> QED
    BY <1>3, <1>4, <1>5, <1>6

LEMMA PayCountInit == Init => PayCounts
  <1> SUFFICES ASSUME Init, NEW p \in Payments PROVE PayCount(p)
    BY DEF PayCounts
  <1>1. Ahead(p) = {} /\ Stored(p) = {} /\ Transfers(p) = {} /\ faults = 0
    BY DEF Init, Ahead, Stored, Transfers, IdleJob
  <1>2. Cardinality(Replicas) \in Nat
    BY SettlementAssumption, FS_CardinalityType
  <1> QED
    BY <1>1, <1>2, FS_EmptySet DEF PayCount

LEMMA TransferSets ==
  ASSUME TypeOK, NEW p
  PROVE  IsFiniteSet(Transfers(p)) /\ Cardinality(Transfers(p)) \in Nat
  <1>1. Transfers(p) \in SUBSET (1 .. Len(payouts)) /\ Len(payouts) \in Nat
    BY PayoutTypes DEF Transfers, TypeOK
  <1>2. IsFiniteSet(1 .. Len(payouts))
    BY <1>1, FS_Interval
  <1> QED
    BY <1>1, <1>2, FS_Subset, FS_CardinalityType

\* Only the transfer of a payout with p adds one, and at most one.
LEMMA TransferEffect ==
  ASSUME Backing, Next, NEW p \in Payments
  PROVE  /\ Cardinality(Transfers(p)) \in Nat /\ Cardinality(Transfers(p)') \in Nat
         /\ \/ Cardinality(Transfers(p)') = Cardinality(Transfers(p))
            \/ /\ Cardinality(Transfers(p)') <= Cardinality(Transfers(p)) + 1
               /\ \E w \in Replicas : Transfer(w) /\ p \in payouts[job[w].payout].batch
  <1>1. IsFiniteSet(Transfers(p)) /\ Cardinality(Transfers(p)) \in Nat
    BY TransferSets DEF Backing
  <1>2. moved \subseteq DOMAIN payouts
    BY DEF Backing, TypeOK
  <1>3. CASE UNCHANGED moved
    <2>1. Transfers(p)' = Transfers(p)
      BY <1>2, <1>3, MovedEffect DEF Transfers
    <2> QED
      BY <1>1, <2>1
  <1>4. CASE moved' # moved
    <2>1. PICK w \in Replicas : Transfer(w)
      BY <1>4 DEF Next, Tick, Collect, LoadDue, CreatePayout, StoreResult, BatchFails, Crash,
                  RefundRead, RefundAsk, RefundStore, RefundFails, books, provider
    <2> DEFINE q == job[w].payout
    <2>2. moved' = moved \cup {q} /\ UNCHANGED payouts
      BY <1>4, <2>1 DEF Transfer
    <2>3. Transfers(p)' = IF p \in payouts[q].batch THEN Transfers(p) \cup {q} ELSE Transfers(p)
      BY <2>2 DEF Transfers
    <2> HIDE DEF q
    <2>4. CASE p \in payouts[q].batch
      <3>1. Cardinality(Transfers(p) \cup {q})
              \in {Cardinality(Transfers(p)), Cardinality(Transfers(p)) + 1}
        BY <1>1, FS_AddElement
      <3> QED
        BY <1>1, <2>1, <2>3, <2>4, <3>1 DEF q
    <2>5. CASE p \notin payouts[q].batch
      BY <1>1, <2>3, <2>5
    <2> QED
      BY <2>4, <2>5
  <1> QED
    BY <1>3, <1>4

\* An open settlement was open before.
LEMMA OpenBefore ==
  ASSUME Backing, Timing, Next, NEW p \in Payments, Open(p)'
  PROVE  Open(p)
  <1>1. CASE row'[p] = row[p]
    BY <1>1 DEF Open
  <1>2. CASE row'[p] # row[p]
    <2>1. paidAt[p] = Never
      BY <1>2, RowEffect DEF Open
    <2> QED
      BY <2>1 DEF Open, Timing, PaymentTimes
  <1> QED
    BY <1>1, <1>2

\* The jobs but one count as before.
LEMMA OtherJobs ==
  ASSUME Backing, Next, NEW p \in Payments, NEW w \in Replicas, NEW k,
         job' = [job EXCEPT ![w] = k]
  PROVE  /\ job'[w] = k
         /\ \A v \in Replicas \ {w} : v \in Ahead(p) <=> v \in Ahead(p)'
         /\ \A v \in Replicas \ {w} : v \in Stored(p) <=> v \in Stored(p)'
  <1>1. job'[w] = k /\ \A v \in Replicas \ {w} : job'[v] = job[v]
    BY DEF Backing, TypeOK
  <1>2. ASSUME NEW v \in Replicas, job[v].pc = "store"
        PROVE  payouts'[job[v].payout].batch = payouts[job[v].payout].batch
    BY <1>2, MovedEffect DEF Backing, JobBacked
  <1> QED
    BY <1>1, <1>2 DEF Ahead, Stored

\* How the counts change with the place of one job.
JobMoves(w) == \E k : job' = [job EXCEPT ![w] = k]
Bit(b) == IF b THEN 1 ELSE 0

LEMMA JobNumbers ==
  ASSUME Backing, Next, NEW p \in Payments, NEW w \in Replicas, JobMoves(w)
  PROVE  /\ Cardinality(Ahead(p)) \in Nat /\ Cardinality(Ahead(p)') \in Nat
         /\ Cardinality(Stored(p)) \in Nat /\ Cardinality(Stored(p)') \in Nat
         /\ Cardinality(Replicas) \in Nat
         /\ Cardinality(Ahead(p)')
              = Cardinality(Ahead(p)) + (Bit(w \in Ahead(p)') - Bit(w \in Ahead(p)))
         /\ Cardinality(Stored(p)')
              = Cardinality(Stored(p)) + (Bit(w \in Stored(p)') - Bit(w \in Stored(p)))
         /\ Cardinality(Ahead(p)') + Cardinality(Stored(p)') <= Cardinality(Replicas)
  <1>1. IsFiniteSet(Replicas)
    BY SettlementAssumption
  <1>2. /\ Ahead(p) \in SUBSET Replicas /\ Ahead(p)' \in SUBSET Replicas
        /\ Stored(p) \in SUBSET Replicas /\ Stored(p)' \in SUBSET Replicas
        /\ Ahead(p)' \cap Stored(p)' = {}
    BY DEF Ahead, Stored
  <1>3. /\ \A v \in Replicas \ {w} : v \in Ahead(p) <=> v \in Ahead(p)'
        /\ \A v \in Replicas \ {w} : v \in Stored(p) <=> v \in Stored(p)'
    BY OtherJobs DEF JobMoves
  <1>4. /\ Cardinality(Ahead(p)') + Cardinality(Stored(p)') <= Cardinality(Replicas)
        /\ Cardinality(Ahead(p)') \in Nat /\ Cardinality(Stored(p)') \in Nat
        /\ Cardinality(Replicas) \in Nat
    BY <1>1, <1>2, Parts
  <1>5. /\ Cardinality(Ahead(p)) \in Nat
        /\ Cardinality(Ahead(p)')
             = Cardinality(Ahead(p)) + (Bit(w \in Ahead(p)') - Bit(w \in Ahead(p)))
    BY <1>1, <1>2, <1>3, OneMember DEF Bit
  <1>6. /\ Cardinality(Stored(p)) \in Nat
        /\ Cardinality(Stored(p)')
             = Cardinality(Stored(p)) + (Bit(w \in Stored(p)') - Bit(w \in Stored(p)))
    BY <1>1, <1>2, <1>3, OneMember DEF Bit
  <1> QED
    BY <1>4, <1>5, <1>6

\* What the place of the job that moves may do to the counts: nothing that
\* counts, a transfer, a start, a result stored, or a fault.
CountedMove(w, p) ==
    LET ahead == Bit(w \in Ahead(p)') - Bit(w \in Ahead(p))
        stored == Bit(w \in Stored(p)') - Bit(w \in Stored(p))
        same == Cardinality(Transfers(p)') = Cardinality(Transfers(p)) IN
    \/ same /\ ahead <= 0 /\ stored = 0
    \/ ahead = -1 /\ stored >= 0 /\ (stored = 1 \/ faults' = faults + 1)
    \/ same /\ Open(p) /\ stored = 0
    \/ same /\ ahead <= 0 /\ (~Open(p)' \/ faults' = faults + 1)

LEMMA CountPlace ==
  ASSUME Backing, Timing, Next, NEW p \in Payments, NEW w \in Replicas, JobMoves(w), PayCount(p),
         CountedMove(w, p)
  PROVE  PayCount(p)'
  <1> DEFINE moves == Cardinality(Transfers(p))
             movesNext == Cardinality(Transfers(p)')
             ahead == Cardinality(Ahead(p))
             aheadNext == Cardinality(Ahead(p)')
             stored == Cardinality(Stored(p))
             storedNext == Cardinality(Stored(p)')
             all == Cardinality(Replicas)
             f == faults
             fNext == faults'
             dAhead == Bit(w \in Ahead(p)') - Bit(w \in Ahead(p))
             dStored == Bit(w \in Stored(p)') - Bit(w \in Stored(p))
  <1>1. /\ ahead \in Nat /\ aheadNext \in Nat /\ stored \in Nat /\ storedNext \in Nat /\ all \in Nat
        /\ aheadNext = ahead + dAhead /\ storedNext = stored + dStored /\ aheadNext + storedNext <= all
    BY JobNumbers
  <1>2. moves \in Nat /\ movesNext \in Nat /\ movesNext <= moves + 1
    BY TransferEffect
  <1>3. f \in Nat /\ fNext \in Nat /\ fNext >= f
    BY FaultEffect
  <1>4. (Open(p) => moves <= stored + f) /\ moves + ahead <= all + f
    BY DEF PayCount
  <1>5. Open(p)' => Open(p)
    BY OpenBefore
  <1>6. \/ movesNext = moves /\ dAhead <= 0 /\ dStored = 0
        \/ dAhead = -1 /\ dStored >= 0 /\ (dStored = 1 \/ fNext = f + 1)
        \/ movesNext = moves /\ Open(p) /\ dStored = 0
        \/ movesNext = moves /\ dAhead <= 0 /\ (~Open(p)' \/ fNext = f + 1)
    BY DEF CountedMove
  <1>7. dAhead \in {-1, 0, 1} /\ dStored \in {-1, 0, 1}
    BY DEF Bit
  <1> HIDE DEF f, fNext, moves, movesNext, ahead, aheadNext, stored, storedNext, all, dAhead,
               dStored
  <1>8. movesNext + aheadNext <= all + fNext
    BY <1>1, <1>2, <1>3, <1>4, <1>6, <1>7
  <1>9. Open(p)' => movesNext <= storedNext + fNext
    BY <1>1, <1>2, <1>3, <1>4, <1>5, <1>6, <1>7
  <1> QED
    BY <1>8, <1>9 DEF PayCount, f, fNext, movesNext, aheadNext, storedNext, all

LEMMA TransfersKept ==
  ASSUME Backing, Next, NEW p \in Payments, UNCHANGED moved
  PROVE  Cardinality(Transfers(p)') = Cardinality(Transfers(p))
  <1>1. moved \subseteq DOMAIN payouts
    BY DEF Backing, TypeOK
  <1>2. Transfers(p)' = Transfers(p)
    BY <1>1, MovedEffect DEF Transfers
  <1> QED
    BY <1>2

LEMMA CountLoad ==
  ASSUME Backing, Timing, Next, NEW p \in Payments, NEW w \in Replicas, LoadDue(w), PayCount(p)
  PROVE  PayCount(p)'
  <1> DEFINE k == Paying(Due)
  <1>1. job' = [job EXCEPT ![w] = k] /\ UNCHANGED <<moved, row>> /\ w \notin ran
    BY DEF LoadDue, books, provider
  <1>2. k.pc \in {"idle", "pay"} /\ k.todo = Due
    <2>1. Due \in SUBSET Payments
      BY DEF Due
    <2> QED
      BY <2>1, PayingType
  <1> HIDE DEF k
  <1>3. job'[w] = k /\ job[w].pc = "idle" /\ job[w].todo = {}
    BY <1>1 DEF Backing, TypeOK, JobBacked
  <1>4. w \notin Stored(p) /\ w \notin Stored(p)'
    BY <1>2, <1>3 DEF Stored
  <1>5. w \notin Ahead(p) /\ (w \in Ahead(p)' => p \in Due)
    BY <1>2, <1>3 DEF Ahead
  <1>6. p \in Due => Open(p)
    BY DEF Due, Open
  <1>7. Cardinality(Transfers(p)') = Cardinality(Transfers(p))
    BY <1>1, TransfersKept
  <1>8. CountedMove(w, p)
    BY <1>4, <1>5, <1>6, <1>7 DEF CountedMove, Bit
  <1> QED
    BY <1>1, <1>8, CountPlace DEF JobMoves

LEMMA CountCreate ==
  ASSUME Backing, Timing, Next, NEW p \in Payments, NEW w \in Replicas, CreatePayout(w), PayCount(p)
  PROVE  PayCount(p)'
  <1> DEFINE k == [pc |-> "transfer", todo |-> job[w].todo, payout |-> Len(payouts) + 1,
                   ok |-> FALSE]
  <1>1. job' = [job EXCEPT ![w] = k] /\ UNCHANGED moved /\ job[w].pc = "pay"
    BY DEF CreatePayout, WorkOn, books, provider
  <1>2. k.pc = "transfer" /\ k.todo = job[w].todo
    OBVIOUS
  <1> HIDE DEF k
  <1>3. job'[w] = k
    BY <1>1 DEF Backing, TypeOK
  <1>4. w \notin Stored(p) /\ w \notin Stored(p)' /\ (w \in Ahead(p)' <=> w \in Ahead(p))
    BY <1>1, <1>2, <1>3 DEF Stored, Ahead
  <1>5. Cardinality(Transfers(p)') = Cardinality(Transfers(p))
    BY <1>1, TransfersKept
  <1>6. CountedMove(w, p)
    BY <1>4, <1>5 DEF CountedMove, Bit
  <1> QED
    BY <1>1, <1>6, CountPlace DEF JobMoves

LEMMA CountTransfer ==
  ASSUME Backing, Timing, Next, NEW p \in Payments, NEW w \in Replicas, Transfer(w), PayCount(p)
  PROVE  PayCount(p)'
  <1> DEFINE q == job[w].payout
  <1>1. PICK ok \in BOOLEAN :
          /\ job' = [job EXCEPT ![w] = [pc |-> "store", todo |-> job[w].todo, payout |-> q, ok |-> ok]]
          /\ ok \/ Fault
    BY DEF Transfer, WorkOn
  <1> DEFINE k == [pc |-> "store", todo |-> job[w].todo, payout |-> q, ok |-> ok]
  <1>2. /\ job' = [job EXCEPT ![w] = k] /\ UNCHANGED payouts /\ job[w].pc = "transfer"
        /\ moved' \in {moved, moved \cup {q}}
    BY <1>1 DEF Transfer, books
  <1>3. k.pc = "store" /\ k.todo = job[w].todo /\ k.payout = q /\ k.ok = ok
    OBVIOUS
  <1> HIDE DEF k
  <1>4. job'[w] = k
    BY <1>2 DEF Backing, TypeOK
  <1>5. w \notin Stored(p) /\ payouts[q].batch \subseteq job[w].todo
        /\ (w \in Ahead(p) <=> p \in job[w].todo)
    BY <1>2 DEF Stored, Ahead, Backing, JobBacked
  <1>6. /\ w \in Ahead(p)' <=> p \in job[w].todo /\ p \notin payouts[q].batch
        /\ w \in Stored(p)' <=> ok /\ p \in payouts[q].batch
    BY <1>2, <1>3, <1>4 DEF Ahead, Stored
  <1>7. Fault => faults' = faults + 1
    BY FaultType DEF Backing
  <1>8. CASE p \in payouts[q].batch
    <2>1. w \in Ahead(p) /\ w \notin Ahead(p)' /\ w \notin Stored(p)
          /\ (w \in Stored(p)' \/ faults' = faults + 1)
      BY <1>1, <1>5, <1>6, <1>7, <1>8
    <2>2. CountedMove(w, p)
      BY <2>1 DEF CountedMove, Bit
    <2> QED
      BY <1>2, <2>2, CountPlace DEF JobMoves
  <1>9. CASE p \notin payouts[q].batch
    <2>1. Transfers(p)' = Transfers(p)
      BY <1>2, <1>9 DEF Transfers
    <2>2. w \notin Stored(p) /\ w \notin Stored(p)' /\ (w \in Ahead(p)' <=> w \in Ahead(p))
      BY <1>5, <1>6, <1>9
    <2>3. CountedMove(w, p)
      BY <2>1, <2>2 DEF CountedMove, Bit
    <2> QED
      BY <1>2, <2>3, CountPlace DEF JobMoves
  <1> QED
    BY <1>8, <1>9

\* A job that turns to the settlements todo.
LEMMA CountTurn ==
  ASSUME Backing, Timing, Next, NEW p \in Payments, NEW w \in Replicas, PayCount(p),
         NEW todo \in SUBSET Payments, job' = [job EXCEPT ![w] = Paying(todo)], UNCHANGED moved,
         p \in todo => w \in Ahead(p),
         w \notin Stored(p) \/ ~Open(p)' \/ faults' = faults + 1
  PROVE  PayCount(p)'
  <1> DEFINE k == Paying(todo)
  <1>1. k.pc \in {"idle", "pay"} /\ k.todo = todo /\ job' = [job EXCEPT ![w] = k]
    BY PayingType
  <1> HIDE DEF k
  <1>2. job'[w] = k
    BY <1>1 DEF Backing, TypeOK
  <1>3. w \notin Stored(p)' /\ (w \in Ahead(p)' => w \in Ahead(p))
    BY <1>1, <1>2 DEF Stored, Ahead
  <1>4. Cardinality(Transfers(p)') = Cardinality(Transfers(p))
    BY TransfersKept
  <1>5. Bit(w \in Ahead(p)') - Bit(w \in Ahead(p)) <= 0
    BY <1>3 DEF Bit
  <1>6. w \notin Stored(p) => Bit(w \in Stored(p)') - Bit(w \in Stored(p)) = 0
    BY <1>3 DEF Bit
  <1>7. CountedMove(w, p)
    BY <1>4, <1>5, <1>6 DEF CountedMove
  <1>8. JobMoves(w)
    BY <1>1 DEF JobMoves
  <1> QED
    BY <1>7, <1>8, CountPlace

LEMMA CountNextBatch ==
  ASSUME Backing, Timing, Next, NEW p \in Payments, NEW w \in Replicas, PayCount(p),
         NEW batch, NextBatch(w, batch), UNCHANGED moved,
         job[w].pc = "pay" \/ (job[w].pc = "store" /\ batch = payouts[job[w].payout].batch),
         w \notin Stored(p) \/ ~Open(p)' \/ faults' = faults + 1
  PROVE  PayCount(p)'
  <1>1. job[w].todo \ batch \in SUBSET Payments
    BY PayoutTypes DEF Backing
  <1>2. p \in job[w].todo \ batch => w \in Ahead(p)
    BY DEF Ahead
  <1>3. job' = [job EXCEPT ![w] = Paying(job[w].todo \ batch)]
    BY DEF NextBatch
  <1> QED
    BY <1>1, <1>2, <1>3, CountTurn

LEMMA CountStore ==
  ASSUME Backing, Timing, Next, NEW p \in Payments, NEW w \in Replicas, StoreResult(w), PayCount(p)
  PROVE  PayCount(p)'
  <1>1. job[w].pc = "store" /\ NextBatch(w, payouts[job[w].payout].batch) /\ UNCHANGED moved
    BY DEF StoreResult, books, provider
  <1>2. w \in Stored(p) => ~Open(p)'
    BY StoredRows DEF Stored, Open
  <1> QED
    BY <1>1, <1>2, CountNextBatch

LEMMA CountBatchFails ==
  ASSUME Backing, Timing, Next, NEW p \in Payments, NEW w \in Replicas, BatchFails(w), PayCount(p)
  PROVE  PayCount(p)'
  <1>1. UNCHANGED moved /\ faults' = faults + 1
    BY FaultType DEF BatchFails, books, provider, Backing
  <1>2. PICK batch :
          /\ NextBatch(w, batch)
          /\ job[w].pc = "pay" \/ (job[w].pc = "store" /\ batch = payouts[job[w].payout].batch)
    BY DEF BatchFails
  <1> QED
    BY <1>1, <1>2, CountNextBatch

LEMMA CountCrash ==
  ASSUME Backing, Timing, Next, NEW p \in Payments, NEW w \in Replicas, Crash(w), PayCount(p)
  PROVE  PayCount(p)'
  <1>1. UNCHANGED moved /\ faults' = faults + 1
    BY FaultType DEF Crash, books, provider, Backing
  <1>2. job' = [job EXCEPT ![w] = Paying({})] /\ {} \in SUBSET Payments
    BY DEF Crash, Paying
  <1> QED
    BY <1>1, <1>2, CountTurn

\* No job moves.
LEMMA CountIdle ==
  ASSUME Backing, Timing, Next, NEW p \in Payments, PayCount(p), UNCHANGED <<job, moved, payouts>>
  PROVE  PayCount(p)'
  <1> DEFINE moves == Cardinality(Transfers(p))
             ahead == Cardinality(Ahead(p))
             stored == Cardinality(Stored(p))
             all == Cardinality(Replicas)
             f == faults
             fNext == faults'
  <1>1. Ahead(p)' = Ahead(p) /\ Stored(p)' = Stored(p) /\ Transfers(p)' = Transfers(p)
    BY DEF Ahead, Stored, Transfers
  <1>2. /\ moves \in Nat /\ ahead \in Nat /\ stored \in Nat /\ all \in Nat
    <2>1. Ahead(p) \in SUBSET Replicas /\ Stored(p) \in SUBSET Replicas /\ IsFiniteSet(Replicas)
      BY SettlementAssumption DEF Ahead, Stored
    <2> QED
      BY <2>1, FS_Subset, FS_CardinalityType, TransferSets DEF Backing
  <1>3. f \in Nat /\ fNext \in Nat /\ fNext >= f
    BY FaultEffect
  <1>4. (Open(p) => moves <= stored + f) /\ moves + ahead <= all + f
    BY DEF PayCount
  <1>5. Open(p)' => Open(p)
    BY OpenBefore
  <1>6. PayCount(p)' <=> (Open(p)' => moves <= stored + fNext) /\ moves + ahead <= all + fNext
    BY <1>1 DEF PayCount
  <1> HIDE DEF moves, ahead, stored, all, f, fNext
  <1>7. moves + ahead <= all + fNext
    BY <1>2, <1>3, <1>4
  <1>8. Open(p)' => moves <= stored + fNext
    BY <1>2, <1>3, <1>4, <1>5
  <1> QED
    BY <1>6, <1>7, <1>8

LEMMA PayCountNext == Backing /\ Timing /\ PayCounts /\ [Next]_vars => PayCounts'
  <1> SUFFICES ASSUME Backing, Timing, PayCounts, [Next]_vars, NEW p \in Payments
               PROVE  PayCount(p)'
    BY DEF PayCounts
  <1>1. PayCount(p)
    BY DEF PayCounts
  <1>2. CASE UNCHANGED vars
    BY <1>1, <1>2 DEF vars, books, provider, PayCount, Open, Transfers, Ahead, Stored
  <1>3. CASE Next
    <2>1. CASE \E w \in Replicas : LoadDue(w) \/ CreatePayout(w) \/ Transfer(w)
      BY <1>1, <1>3, <2>1, CountLoad, CountCreate, CountTransfer
    <2>2. CASE \E w \in Replicas : StoreResult(w) \/ BatchFails(w) \/ Crash(w)
      BY <1>1, <1>3, <2>2, CountStore, CountBatchFails, CountCrash
    <2>3. CASE UNCHANGED <<job, moved, payouts>>
      BY <1>1, <1>3, <2>3, CountIdle
    <2> QED
      BY <1>3, <2>1, <2>2, <2>3
         DEF Next, Tick, Collect, RefundRead, RefundAsk, RefundStore, RefundFails, books, provider
  <1> QED
    BY <1>2, <1>3

LEMMA PayCountInvariant == Spec => []PayCounts
  BY PayCountInit, PayCountNext, BackingInvariant, TimingInvariant, PTL DEF Spec

\* Every process runs the job over all settlements that are still pending
\* (settlement.go:138), and a failed transfer leaves them pending: a payment is
\* paid out once for each process and each fault at most.
THEOREM PaidOutBoundedCorrect == Spec => []PaidOutBounded
  <1>1. Backing /\ PayCounts => PaidOutBounded
    <2> SUFFICES ASSUME Backing, PayCounts, NEW p \in Payments
                 PROVE  Cardinality(Transfers(p)) <= Cardinality(Replicas) + faults
      BY DEF PaidOutBounded
    <2>1. faults \in Nat /\ Cardinality(Replicas) \in Nat /\ Cardinality(Transfers(p)) \in Nat
      BY SettlementAssumption, FS_CardinalityType, TransferSets DEF Backing, TypeOK
    <2>2. Cardinality(Ahead(p)) \in Nat
      <3>1. Ahead(p) \in SUBSET Replicas /\ IsFiniteSet(Replicas)
        BY SettlementAssumption DEF Ahead
      <3> QED
        BY <3>1, FS_Subset, FS_CardinalityType
    <2>3. Cardinality(Transfers(p)) + Cardinality(Ahead(p)) <= Cardinality(Replicas) + faults
      BY DEF PayCounts, PayCount
    <2> QED
      BY <2>1, <2>2, <2>3
  <1> QED
    BY <1>1, BackingInvariant, PayCountInvariant, PTL
-----------------------------------------------------------------------------
(* In time: the next run that may pay a settlement is never later than the *)
(* faults allow, and the run of a day is counted as missed or has the      *)
(* settlement before it.                                                   *)

\* The weekday of day d, and the days from there to a day with a run.
Weekday(d) == (StartDay + d) % 7
Wait(d) == IF Weekday(d) = 5 THEN 2 ELSE IF Weekday(d) = 6 THEN 1 ELSE 0

\* The midnight before the run that comes next at time t.
RunMidnight(t) ==
    LET day == t \div Day IN
    t - (t % Day) + (IF t % Day > JobTick THEN 1 + Wait(day + 1) ELSE Wait(day)) * Day

\* What the faults allow.
Grace == 3 * (1 + faults) * Day

\* The job of w still has the settlement of p before it.
InHand(w, p) ==
    /\ p \in job[w].todo
    /\ job[w].pc = "store" /\ p \in payouts[job[w].payout].batch => job[w].ok

Attended(p) ==
    JobTime(now) /\ ran # {} /\ row[p].due <= Midnight =>
        Midnight + 3 * Day < row[p].due + Grace \/ \E w \in ran : InHand(w, p)

InTime ==
    \A p \in Payments : row[p].st = "pending" =>
        RunMidnight(now) < row[p].due + Grace /\ Attended(p)
-----------------------------------------------------------------------------
(* The calendar.                                                           *)

LEMMA Parting ==
  ASSUME NEW D \in Nat \ {0}, NEW t \in Nat
  PROVE  /\ t \div D \in Nat /\ t % D \in 0 .. D - 1 /\ t - (t % D) \in Nat
         /\ t = D * (t \div D) + (t % D)
  OBVIOUS

LEMMA PartedOnce ==
  ASSUME NEW D \in Nat \ {0}, NEW q \in Nat, NEW r \in 0 .. D - 1,
         NEW x \in Nat, NEW y \in 0 .. D - 1, D * q + r = D * x + y
  PROVE  q = x /\ r = y
  <1>1. CASE q < x
    <2>1. D * (x - q) >= D
      BY <1>1
    <2> QED
      BY <1>1, <2>1
  <1>2. CASE x < q
    <2>1. D * (q - x) >= D
      BY <1>2
    <2> QED
      BY <1>2, <2>1
  <1> QED
    BY <1>1, <1>2

LEMMA NextTick ==
  ASSUME NEW D \in Nat \ {0}, NEW t \in Nat
  PROVE  IF t % D = D - 1 THEN (t + 1) \div D = t \div D + 1 /\ (t + 1) % D = 0
         ELSE (t + 1) \div D = t \div D /\ (t + 1) % D = (t % D) + 1
  <1> DEFINE q == t \div D
             r == t % D
             x == (t + 1) \div D
             y == (t + 1) % D
  <1>1. /\ q \in Nat /\ r \in 0 .. D - 1 /\ t = D * q + r
    BY Parting
  <1>a. x \in Nat /\ y \in 0 .. D - 1 /\ t + 1 = D * x + y
    <2>1. t + 1 \in Nat
      OBVIOUS
    <2> QED
      BY <2>1, Parting
  <1> HIDE DEF q, r, x, y
  <1>2. CASE r = D - 1
    <2>1. q + 1 \in Nat /\ 0 \in 0 .. D - 1
      BY <1>1
    <2>a. D * (q + 1) = D * q + D
      BY <1>1
    <2>b. D * (q + 1) + 0 = D * x + y
      BY <1>1, <1>a, <1>2, <2>a
    <2>2. x = q + 1 /\ y = 0
      BY <1>1, <1>a, <2>1, <2>b, PartedOnce
    <2> QED
      BY <1>2, <2>2 DEF q, r, x, y
  <1>3. CASE r # D - 1
    <2>1. D * q + (r + 1) = D * x + y /\ r + 1 \in 0 .. D - 1
      BY <1>1, <1>a, <1>3
    <2>2. x = q /\ y = r + 1
      BY <1>1, <1>a, <2>1, PartedOnce
    <2> QED
      BY <1>3, <2>2 DEF q, r, x, y
  <1> QED
    BY <1>2, <1>3

LEMMA Weekdays ==
  ASSUME NEW d \in Nat
  PROVE  /\ Weekday(d) \in 0 .. 6 /\ Wait(d) \in 0 .. 2
         /\ Wait(d) = 0 <=> Weekday(d) < 5
         /\ Wait(d) # 0 => Wait(d + 1) = Wait(d) - 1
  <1>1. StartDay \in 0 .. 6
    BY SettlementAssumption
  <1>2. Weekday(d) \in 0 .. 6 /\ Weekday(d) = (StartDay + d) % 7
    BY <1>1 DEF Weekday
  <1>3. Weekday(d + 1) = IF Weekday(d) = 6 THEN 0 ELSE Weekday(d) + 1
    BY <1>1 DEF Weekday
  <1> QED
    BY <1>2, <1>3 DEF Wait

LEMMA Calendar ==
  ASSUME NEW t \in Nat
  PROVE  /\ Day \in Nat \ {0} /\ JobTick \in 0 .. Day - 1
         /\ t % Day \in 0 .. Day - 1 /\ t \div Day \in Nat /\ t - (t % Day) \in Nat
         /\ Wait(t \div Day) \in 0 .. 2 /\ Wait((t \div Day) + 1) \in 0 .. 2
         /\ JobTime(t) <=> t % Day = JobTick /\ Wait(t \div Day) = 0
  <1>1. Day \in Nat \ {0} /\ JobTick \in 0 .. Day - 1
    BY SettlementAssumption
  <1>2. t % Day \in 0 .. Day - 1 /\ t \div Day \in Nat /\ t - (t % Day) \in Nat
    BY <1>1, Parting
  <1>3. (t \div Day) + 1 \in Nat
    BY <1>2
  <1>4. Wait(t \div Day) \in 0 .. 2 /\ Wait((t \div Day) + 1) \in 0 .. 2
    BY <1>2, <1>3, Weekdays
  <1>5. Wait(t \div Day) = 0 <=> Weekday(t \div Day) < 5
    BY <1>2, Weekdays
  <1> QED
    BY <1>1, <1>2, <1>4, <1>5 DEF JobTime, Weekday

\* The wait in ticks.
LEMMA Waiting ==
  ASSUME NEW n \in 0 .. 3
  PROVE  n * Day \in Nat /\ n * Day <= 3 * Day /\ (n = 0 => n * Day = 0) /\ (n >= 1 => n * Day >= Day)
  <1>1. Day \in Nat
    BY SettlementAssumption
  <1> QED
    BY <1>1

LEMMA RunMidnightAt ==
  ASSUME NEW t, NEW q, NEW r, q = t \div Day, r = t % Day
  PROVE  /\ r > JobTick => RunMidnight(t) = t - r + (1 + Wait(q + 1)) * Day
         /\ ~(r > JobTick) => RunMidnight(t) = t - r + Wait(q) * Day
  BY DEF RunMidnight

\* The next run is at most three days away, and a tick brings it no nearer but
\* when a run goes by.
LEMMA RunMidnightBounds ==
  ASSUME NEW t \in Nat
  PROVE  /\ RunMidnight(t) \in Nat
         /\ RunMidnight(t) <= t - (t % Day) + 3 * Day
         /\ t % Day > JobTick => RunMidnight(t) >= t - (t % Day) + Day
         /\ t % Day <= JobTick => RunMidnight(t) >= t - (t % Day)
         /\ JobTime(t) => RunMidnight(t) = t - (t % Day)
  <1> DEFINE q == t \div Day
             r == t % Day
  <1>1. /\ Day \in Nat \ {0} /\ JobTick \in 0 .. Day - 1 /\ r \in 0 .. Day - 1 /\ t - r \in Nat
        /\ Wait(q) \in 0 .. 2 /\ Wait(q + 1) \in 0 .. 2
        /\ JobTime(t) <=> r = JobTick /\ Wait(q) = 0
    BY Calendar
  <1>2. /\ r > JobTick => RunMidnight(t) = t - r + (1 + Wait(q + 1)) * Day
        /\ ~(r > JobTick) => RunMidnight(t) = t - r + Wait(q) * Day
    BY RunMidnightAt
  <1> HIDE DEF q, r
  <1>3. PICK n \in 0 .. 3 : /\ RunMidnight(t) = t - r + n * Day
                            /\ r > JobTick => n >= 1
                            /\ JobTime(t) => n = 0
    <2>1. CASE r > JobTick
      <3>1. 1 + Wait(q + 1) \in 0 .. 3 /\ 1 + Wait(q + 1) >= 1
        BY <1>1
      <3> QED
        BY <1>1, <1>2, <2>1, <3>1
    <2>2. CASE ~(r > JobTick)
      <3>1. Wait(q) \in 0 .. 3
        BY <1>1
      <3> QED
        BY <1>1, <1>2, <2>2, <3>1
    <2> QED
      BY <2>1, <2>2
  <1>4. n * Day \in Nat /\ n * Day <= 3 * Day /\ (n = 0 => n * Day = 0) /\ (n >= 1 => n * Day >= Day)
    BY Waiting
  <1> DEFINE m == n * Day
             base == t - r
  <1>5. base \in Nat /\ m \in Nat /\ RunMidnight(t) = base + m /\ 3 * Day \in Nat
    BY <1>1, <1>3, <1>4
  <1>6. m <= 3 * Day /\ (r > JobTick => m >= Day) /\ (JobTime(t) => m = 0)
    BY <1>3, <1>4
  <1>7. base = t - (t % Day) /\ r = t % Day
    BY DEF r
  <1> HIDE DEF m, base
  <1>8. /\ RunMidnight(t) \in Nat /\ RunMidnight(t) <= base + 3 * Day
        /\ (r > JobTick => RunMidnight(t) >= base + Day)
        /\ RunMidnight(t) >= base /\ (JobTime(t) => RunMidnight(t) = base)
    BY <1>1, <1>5, <1>6
  <1> QED
    BY <1>7, <1>8

LEMMA RunMidnightTick ==
  ASSUME NEW t \in Nat, ~JobTime(t)
  PROVE  RunMidnight(t + 1) = RunMidnight(t)
  <1> DEFINE q == t \div Day
             r == t % Day
             x == (t + 1) \div Day
             y == (t + 1) % Day
  <1>1. /\ Day \in Nat \ {0} /\ JobTick \in 0 .. Day - 1
        /\ q \in Nat /\ r \in 0 .. Day - 1 /\ Wait(q) \in 0 .. 2 /\ Wait(q + 1) \in 0 .. 2
        /\ ~(r = JobTick /\ Wait(q) = 0)
    BY Calendar
  <1>2. IF r = Day - 1 THEN x = q + 1 /\ y = 0 ELSE x = q /\ y = r + 1
    BY <1>1, NextTick
  <1>3. Wait(q) # 0 => Wait(q + 1) = Wait(q) - 1
    BY <1>1, Weekdays
  <1>4. /\ r > JobTick => RunMidnight(t) = t - r + (1 + Wait(q + 1)) * Day
        /\ ~(r > JobTick) => RunMidnight(t) = t - r + Wait(q) * Day
    BY RunMidnightAt
  <1>5. /\ y > JobTick => RunMidnight(t + 1) = (t + 1) - y + (1 + Wait(x + 1)) * Day
        /\ ~(y > JobTick) => RunMidnight(t + 1) = (t + 1) - y + Wait(x) * Day
    BY RunMidnightAt
  <1> HIDE DEF q, r, x, y
  <1>6. r >= JobTick => RunMidnight(t) = t - r + (1 + Wait(q + 1)) * Day
    <2>1. ASSUME r = JobTick PROVE RunMidnight(t) = t - r + (1 + Wait(q + 1)) * Day
      <3>1. Wait(q) = 1 + Wait(q + 1) /\ ~(r > JobTick)
        BY <1>1, <1>3, <2>1
      <3> QED
        BY <1>4, <3>1
    <2> QED
      BY <1>1, <1>4, <2>1
  <1>7. CASE r = Day - 1
    <2>1. x = q + 1 /\ y = 0 /\ r >= JobTick /\ ~(y > JobTick)
      BY <1>1, <1>2, <1>7
    <2>2. RunMidnight(t + 1) = t + 1 - 0 + Wait(q + 1) * Day
      BY <1>5, <2>1
    <2>3. RunMidnight(t) = t - (Day - 1) + (1 + Wait(q + 1)) * Day
      BY <1>6, <1>7, <2>1
    <2> QED
      BY <1>1, <2>2, <2>3
  <1>8. CASE r # Day - 1
    <2>1. x = q /\ y = r + 1 /\ t + 1 - y = t - r
      BY <1>1, <1>2, <1>8
    <2>2. CASE r >= JobTick
      <3>1. y > JobTick
        BY <1>1, <2>1, <2>2
      <3> QED
        BY <1>5, <1>6, <2>1, <2>2, <3>1
    <2>3. CASE ~(r >= JobTick)
      <3>1. ~(y > JobTick) /\ ~(r > JobTick)
        BY <1>1, <2>1, <2>3
      <3> QED
        BY <1>4, <1>5, <2>1, <3>1
    <2> QED
      BY <2>2, <2>3
  <1> QED
    BY <1>7, <1>8

\* The run after a run is three days away at most.
LEMMA RunMidnightAfter ==
  ASSUME NEW t \in Nat, JobTime(t)
  PROVE  RunMidnight(t + 1) <= t - (t % Day) + 3 * Day
  <1> DEFINE q == t \div Day
             r == t % Day
             x == (t + 1) \div Day
             y == (t + 1) % Day
             w == Wait(q + 1)
             n == 1 + w
  <1>0. /\ Day \in Nat \ {0} /\ JobTick \in 0 .. Day - 1 /\ q \in Nat /\ r = JobTick /\ w \in 0 .. 2
    BY Calendar
  <1>b. r = t % Day /\ w = Wait(q + 1)
    OBVIOUS
  <1> HIDE DEF w, q, r
  <1>1. /\ Day \in Nat \ {0} /\ JobTick \in 0 .. Day - 1
        /\ q \in Nat /\ r = JobTick /\ n \in 0 .. 3
    BY <1>0
  <1>2. IF r = Day - 1 THEN x = q + 1 /\ y = 0 ELSE x = q /\ y = r + 1
    BY <1>1, NextTick DEF q, r
  <1>3. /\ y > JobTick => RunMidnight(t + 1) = (t + 1) - y + (1 + Wait(x + 1)) * Day
        /\ ~(y > JobTick) => RunMidnight(t + 1) = (t + 1) - y + Wait(x) * Day
    BY RunMidnightAt
  <1>4. n * Day \in Nat /\ n * Day <= 3 * Day /\ n \in Nat /\ n = 1 + Wait(q + 1) /\ Wait(q + 1) \in Nat
    BY <1>0, <1>1, <1>b, Waiting
  <1> HIDE DEF x, y, n
  <1>5. RunMidnight(t + 1) = t - r + n * Day
    <2>1. CASE r = Day - 1
      <3>1. RunMidnight(t + 1) = (t + 1) - 0 + Wait(q + 1) * Day
        BY <1>1, <1>2, <1>3, <2>1
      <3>2. n * Day = Day + Wait(q + 1) * Day
        BY <1>1, <1>4
      <3> DEFINE m == n * Day
                 l == Wait(q + 1) * Day
      <3>3. m \in Nat /\ l \in Nat /\ m = Day + l /\ RunMidnight(t + 1) = (t + 1) - 0 + l
        BY <1>1, <1>4, <3>1, <3>2
      <3> HIDE DEF m, l
      <3>4. RunMidnight(t + 1) = t - r + m
        BY <1>1, <2>1, <3>3
      <3> QED
        BY <3>4 DEF m
    <2>2. CASE r # Day - 1
      <3>1. x = q /\ y = r + 1 /\ y > JobTick /\ (t + 1) - y = t - r
        BY <1>1, <1>2, <2>2
      <3> QED
        BY <1>3, <1>4, <3>1
    <2> QED
      BY <2>1, <2>2
  <1> DEFINE m == n * Day
             l == 3 * Day
             base == t - r
  <1>6. base \in Int /\ m \in Nat /\ l \in Nat /\ m <= l /\ RunMidnight(t + 1) = base + m
    BY <1>1, <1>4, <1>5
  <1> HIDE DEF m, l, base
  <1>7. RunMidnight(t + 1) <= base + l
    BY <1>6
  <1> QED
    BY <1>7, <1>b DEF base, l
-----------------------------------------------------------------------------
(* What a step leaves to a job.                                            *)

\* Every fault allows three days more.
LEMMA GraceEffect ==
  ASSUME Backing, Next
  PROVE  /\ Grace \in Nat /\ Grace' \in Nat /\ 3 * Day \in Nat /\ Day \in Nat
         /\ Grace >= 3 * Day
         /\ Grace' = Grace \/ (faults' = faults + 1 /\ Grace' = Grace + 3 * Day)
         /\ faults' = faults + 1 => Grace' = Grace + 3 * Day
  <1>1. PICK g : g = faults'
    OBVIOUS
  <1>2. g \in Nat /\ faults \in Nat /\ (g = faults \/ g = faults + 1) /\ Day \in Nat
    BY <1>1, FaultEffect, SettlementAssumption
  <1>3. Grace' = 3 * (1 + g) * Day
    BY <1>1 DEF Grace
  <1>4. \A n \in Nat : 3 * (1 + n) * Day = 3 * Day + 3 * n * Day /\ 3 * n * Day \in Nat
                       /\ 3 * (1 + (n + 1)) * Day = 3 * (1 + n) * Day + 3 * Day
    BY <1>2
  <1>5. /\ 3 * (1 + faults) * Day \in Nat /\ 3 * (1 + faults) * Day >= 3 * Day
        /\ 3 * (1 + (faults + 1)) * Day = 3 * (1 + faults) * Day + 3 * Day
    <2>1. 3 * (1 + faults) * Day = 3 * Day + 3 * faults * Day /\ 3 * faults * Day \in Nat
          /\ 3 * (1 + (faults + 1)) * Day = 3 * (1 + faults) * Day + 3 * Day
      BY <1>2, <1>4
    <2> DEFINE a == 3 * faults * Day
               b == 3 * Day
               c == 3 * (1 + faults) * Day
    <2>2. a \in Nat /\ b \in Nat /\ c = b + a
      BY <1>2, <2>1
    <2> HIDE DEF a, b, c
    <2>3. c \in Nat /\ c >= b
      BY <2>2
    <2> QED
      BY <2>1, <2>3 DEF b, c
  <1>6. CASE g = faults
    <2>1. Grace' = Grace /\ faults' # faults + 1
      BY <1>1, <1>2, <1>3, <1>6 DEF Grace
    <2> QED
      BY <1>2, <1>5, <2>1 DEF Grace
  <1>7. CASE g = faults + 1
    <2>1. Grace' = Grace + 3 * Day /\ faults' = faults + 1
      BY <1>1, <1>2, <1>3, <1>5, <1>7 DEF Grace
    <2> DEFINE c == Grace
               b == 3 * Day
    <2>2. c \in Nat /\ b \in Nat /\ c >= b
      BY <1>2, <1>5 DEF Grace
    <2>3. c + b \in Nat
      BY <2>2
    <2> QED
      BY <1>2, <2>1, <2>2, <2>3
  <1> QED
    BY <1>2, <1>6, <1>7

\* A settlement that is pending was pending with the same date, or its payment
\* is collected in this step.
LEMMA PendingEffect ==
  ASSUME Backing, Timing, Next, NEW p \in Payments, row'[p].st = "pending"
  PROVE  \/ row'[p] = row[p]
         \/ Collect(p) /\ row'[p].due = now + Delay
  <1>1. CASE row'[p] # row[p]
    <2>1. Collect(p)
      BY <1>1, RowEffect
    <2> QED
      BY <1>1, <2>1, CollectEffect
  <1> QED
    BY <1>1

\* Only a tick forgets which jobs ran, and only a job that did not run loads
\* settlements.
LEMMA RanEffect ==
  ASSUME Backing, Next, ~Tick
  PROVE  /\ now' = now /\ ran \subseteq ran'
         /\ ran' = ran \/ \E w \in Replicas : LoadDue(w)
  BY DEF Next, Collect, LoadDue, CreatePayout, Transfer, StoreResult, BatchFails, Crash,
         RefundRead, RefundAsk, RefundStore, RefundFails

\* A job keeps a settlement in hand while it stays pending, unless something
\* fails.
LEMMA HandKept ==
  ASSUME Backing, Next, ~Tick, NEW p \in Payments, NEW w \in ran, InHand(w, p),
         row'[p].st = "pending"
  PROVE  InHand(w, p)' \/ faults' = faults + 1
  <1>1. w \in Replicas /\ job \in [Replicas -> Job] /\ JobBacked(w)
    BY DEF Backing, TypeOK
  <1>2. /\ p \in job[w].todo
        /\ job[w].pc = "store" /\ p \in payouts[job[w].payout].batch => job[w].ok
    BY DEF InHand
  <1>3. Fault => faults' = faults + 1
    BY FaultType DEF Backing
  <1>4. CASE job'[w] = job[w]
    <2>1. job[w].pc = "store" => payouts'[job[w].payout].batch = payouts[job[w].payout].batch
      BY <1>1, MovedEffect DEF JobBacked
    <2> QED
      BY <1>2, <1>4, <2>1 DEF InHand
  <1>5. CASE CreatePayout(w)
    <2> DEFINE k == [pc |-> "transfer", todo |-> job[w].todo, payout |-> Len(payouts) + 1,
                     ok |-> FALSE]
    <2>1. job' = [job EXCEPT ![w] = k] /\ k.pc = "transfer" /\ k.todo = job[w].todo
      BY <1>5 DEF CreatePayout, WorkOn
    <2> HIDE DEF k
    <2>2. job'[w] = k
      BY <1>1, <2>1
    <2> QED
      BY <1>2, <2>1, <2>2 DEF InHand
  <1>6. CASE Transfer(w)
    <2>1. CASE Fault
      BY <1>3, <2>1
    <2>2. CASE ~Fault
      <3> DEFINE k == [pc |-> "store", todo |-> job[w].todo, payout |-> job[w].payout, ok |-> TRUE]
      <3>1. job' = [job EXCEPT ![w] = k] /\ k.ok = TRUE /\ k.todo = job[w].todo
        BY <1>6, <2>2 DEF Transfer, WorkOn
      <3> HIDE DEF k
      <3>2. job'[w] = k
        BY <1>1, <3>1
      <3> QED
        BY <1>2, <3>1, <3>2 DEF InHand
    <2> QED
      BY <2>1, <2>2
  <1>7. CASE StoreResult(w)
    <2> DEFINE b == payouts[job[w].payout].batch
               k == Paying(job[w].todo \ b)
    <2>1. /\ job[w].pc = "store"
          /\ job[w].ok /\ p \in payouts[job[w].payout].batch => row'[p].st = "completed"
      BY <1>1, <1>7, StoredRows
    <2>2. p \notin payouts[job[w].payout].batch
      BY <1>2, <2>1
    <2>3. job[w].todo \ b \in SUBSET Payments
      BY <1>1, PayoutTypes DEF Backing
    <2>4. k.pc \in {"idle", "pay"} /\ k.todo = job[w].todo \ b
      BY <2>3, PayingType
    <2>5. job' = [job EXCEPT ![w] = k]
      BY <1>7 DEF StoreResult, NextBatch
    <2> HIDE DEF b, k
    <2>6. job'[w] = k
      BY <1>1, <2>5
    <2>7. p \in job'[w].todo /\ job'[w].pc # "store"
      BY <1>2, <2>2, <2>4, <2>6 DEF b
    <2> QED
      BY <2>7 DEF InHand
  <1>8. CASE BatchFails(w) \/ Crash(w)
    BY <1>3, <1>8 DEF BatchFails, Crash
  <1>9. ~LoadDue(w)
    BY DEF LoadDue
  <1>10. CASE job'[w] # job[w]
    <2>1. CASE \E v \in Replicas : LoadDue(v) \/ CreatePayout(v) \/ Transfer(v)
      <3>1. PICK v \in Replicas : LoadDue(v) \/ CreatePayout(v) \/ Transfer(v)
        BY <2>1
      <3>2. v = w
        BY <1>1, <1>10, <3>1 DEF LoadDue, CreatePayout, Transfer, WorkOn
      <3> QED
        BY <1>5, <1>6, <1>9, <3>1, <3>2
    <2>2. CASE \E v \in Replicas : StoreResult(v) \/ BatchFails(v) \/ Crash(v)
      <3>1. PICK v \in Replicas : StoreResult(v) \/ BatchFails(v) \/ Crash(v)
        BY <2>2
      <3>2. v = w
        BY <1>1, <1>10, <3>1 DEF StoreResult, BatchFails, Crash, NextBatch
      <3> QED
        BY <1>7, <1>8, <3>1, <3>2
    <2> QED
      BY <1>10, <2>1, <2>2 DEF Next, Collect, RefundRead, RefundAsk, RefundStore, RefundFails
  <1> QED
    BY <1>4, <1>10
-----------------------------------------------------------------------------
(* In time is inductive.                                                   *)

LEMMA InTimeInit == Init => InTime
  BY DEF Init, InTime, NoRow

\* Facts of the clock at this moment.
LEMMA Clock ==
  ASSUME Backing
  PROVE  /\ now \in Nat /\ Day \in Nat \ {0} /\ Midnight \in Nat /\ Midnight <= now
         /\ Midnight = now - (now % Day) /\ RunMidnight(now) \in Nat
         /\ RunMidnight(now) <= Midnight + 3 * Day
         /\ JobTime(now) => RunMidnight(now) = Midnight /\ RunMidnight(now + 1) <= Midnight + 3 * Day
         /\ ~JobTime(now) => RunMidnight(now + 1) = RunMidnight(now)
         /\ RunMidnight(now + 1) \in Nat
         /\ \A x \in Payments : row[x].due \in Int
  <1>1. now \in Nat
    BY TimeTypes DEF Backing
  <1>2. Day \in Nat \ {0} /\ now % Day \in 0 .. Day - 1 /\ now - (now % Day) \in Nat
    BY <1>1, Calendar
  <1>3. Midnight = now - (now % Day)
    BY DEF Midnight
  <1>4. now + 1 \in Nat
    BY <1>1
  <1>5. /\ RunMidnight(now) \in Nat /\ RunMidnight(now) <= now - (now % Day) + 3 * Day
        /\ JobTime(now) => RunMidnight(now) = now - (now % Day)
    BY <1>1, RunMidnightBounds
  <1>6. RunMidnight(now + 1) \in Nat
    BY <1>4, RunMidnightBounds
  <1>7. /\ JobTime(now) => RunMidnight(now + 1) <= now - (now % Day) + 3 * Day
        /\ ~JobTime(now) => RunMidnight(now + 1) = RunMidnight(now)
    BY <1>1, RunMidnightAfter, RunMidnightTick
  <1>8. \A x \in Payments : row[x].due \in Int
    BY DEF Backing, TypeOK, Row
  <1>9. now - (now % Day) <= now
    BY <1>1, <1>2
  <1> QED
    BY <1>1, <1>2, <1>3, <1>5, <1>6, <1>7, <1>8, <1>9

\* No time passes and the settlement does not change.
LEMMA InTimeWorks ==
  ASSUME Backing, Timing, Next, ~Tick, NEW p \in Payments, row[p].st = "pending", row'[p] = row[p],
         RunMidnight(now) < row[p].due + Grace, Attended(p)
  PROVE  RunMidnight(now)' < row'[p].due + Grace' /\ Attended(p)'
  <1> DEFINE m == Midnight
             rm == RunMidnight(now)
             due == row[p].due
             d3 == 3 * Day
             g == Grace
  <1>1. now' = now /\ ran \subseteq ran' /\ (ran' = ran \/ \E w \in Replicas : LoadDue(w))
    BY RanEffect
  <1>2. RunMidnight(now)' = rm /\ (JobTime(now)' <=> JobTime(now)) /\ Midnight' = m /\ row'[p].due = due
    BY <1>1 DEF RunMidnight, Wait, Weekday, JobTime, Midnight
  <1>3. m \in Nat /\ rm \in Nat /\ due \in Int /\ (JobTime(now) => rm = m)
    BY Clock
  <1>4. PICK h : h = Grace'
    OBVIOUS
  <1>5. /\ g \in Nat /\ h \in Nat /\ d3 \in Nat
        /\ h = g \/ (faults' = faults + 1 /\ h = g + d3)
        /\ faults' = faults + 1 => h = g + d3
    BY <1>4, GraceEffect
  <1>6. rm < due + g
    OBVIOUS
  <1>7. Attended(p) <=> (JobTime(now) /\ ran # {} /\ due <= m =>
                            m + d3 < due + g \/ \E w \in ran : InHand(w, p))
    BY DEF Attended
  <1>8. Attended(p)' <=> (JobTime(now) /\ ran' # {} /\ due <= m =>
                             m + d3 < due + h \/ \E w \in ran' : InHand(w, p)')
    BY <1>2, <1>4 DEF Attended
  <1> HIDE DEF m, rm, due, d3, g
  <1>9. rm < due + h
    BY <1>3, <1>5, <1>6
  <1>10. CASE faults' = faults + 1
    <2>1. JobTime(now) => m + d3 < due + h
      BY <1>3, <1>5, <1>6, <1>10
    <2> QED
      BY <1>2, <1>4, <1>8, <1>9, <2>1
  <1>11. CASE h = g /\ faults' # faults + 1
    <2>1. CASE ran' = ran
      <3>1. ASSUME NEW w \in ran, InHand(w, p) PROVE InHand(w, p)'
        BY <1>11, <3>1, HandKept
      <3> QED
        BY <1>2, <1>4, <1>7, <1>8, <1>9, <1>11, <2>1, <3>1
    <2>2. CASE ran # {}
      <3>1. ASSUME NEW w \in ran, InHand(w, p) PROVE InHand(w, p)'
        BY <1>11, <3>1, HandKept
      <3> QED
        BY <1>1, <1>2, <1>4, <1>7, <1>8, <1>9, <1>11, <2>2, <3>1
    <2>3. CASE ran = {} /\ ran' # ran
      <3>1. PICK w \in Replicas : LoadDue(w)
        BY <1>1, <2>3
      <3> DEFINE k == Paying(Due)
      <3>2. Due \in SUBSET Payments /\ job \in [Replicas -> Job]
        BY DEF Due, Backing, TypeOK
      <3>3. k.pc \in {"idle", "pay"} /\ k.todo = Due
        BY <3>2, PayingType
      <3>4. job' = [job EXCEPT ![w] = k] /\ w \in ran'
        BY <3>1 DEF LoadDue
      <3> HIDE DEF k
      <3>5. job'[w] = k
        BY <3>2, <3>4
      <3>6. due <= m => p \in Due
        BY DEF Due, due, m
      <3>7. due <= m => InHand(w, p)'
        BY <3>3, <3>5, <3>6 DEF InHand
      <3> QED
        BY <1>2, <1>4, <1>8, <1>9, <3>4, <3>7
    <2> QED
      BY <2>1, <2>2, <2>3
  <1> QED
    BY <1>5, <1>10, <1>11

\* The clock ticks: the run of this hour has ended.
LEMMA InTimeTick ==
  ASSUME Backing, Replicas # {}, Next, Tick, NEW p \in Payments, row[p].st = "pending",
         RunMidnight(now) < row[p].due + Grace, Attended(p)
  PROVE  RunMidnight(now)' < row'[p].due + Grace' /\ Attended(p)'
  <1> DEFINE m == Midnight
             rm == RunMidnight(now)
             rn == RunMidnight(now + 1)
             due == row[p].due
             d3 == 3 * Day
             g == Grace
  <1>1. /\ now' = now + 1 /\ ran' = {} /\ row' = row /\ faults' = faults
        /\ JobTime(now) => ran = Replicas
        /\ \A w \in Replicas : job[w].pc = "idle"
    BY DEF Tick, books
  <1>2. RunMidnight(now)' = rn
    BY <1>1 DEF RunMidnight, Wait, Weekday
  <1>3. Grace' = g
    BY <1>1 DEF Grace
  <1>4. /\ m \in Nat /\ rm \in Nat /\ rn \in Nat /\ due \in Int
        /\ JobTime(now) => rn <= m + d3
        /\ ~JobTime(now) => rn = rm
    BY Clock
  <1>5. g \in Nat /\ d3 \in Nat /\ g >= d3
    BY GraceEffect
  <1>6. \A w \in ran : ~InHand(w, p)
    BY <1>1 DEF InHand, Backing, TypeOK, JobBacked
  <1>7. JobTime(now) /\ due <= m => m + d3 < due + g
    BY <1>1, <1>6 DEF Attended
  <1>8. rm < due + g
    OBVIOUS
  <1> HIDE DEF m, rm, rn, due, d3, g
  <1>9. rn < due + g
    BY <1>4, <1>5, <1>7, <1>8
  <1>10. Attended(p)'
    BY <1>1 DEF Attended
  <1> QED
    BY <1>1, <1>2, <1>3, <1>9, <1>10 DEF due

\* A new settlement.
LEMMA InTimeCollect ==
  ASSUME Backing, Next, NEW p \in Payments, Collect(p), row'[p].due = now + Delay
  PROVE  RunMidnight(now)' < row'[p].due + Grace' /\ Attended(p)'
  <1> DEFINE m == Midnight
             rm == RunMidnight(now)
             d3 == 3 * Day
  <1>1. now' = now /\ Delay \in Nat /\ Delay > 0
    BY CollectEffect, SettlementAssumption
  <1>a. PICK g : g = Grace'
    OBVIOUS
  <1>2. RunMidnight(now)' = rm /\ Grace' = g /\ Midnight' = m
    BY <1>1, <1>a DEF RunMidnight, Wait, Weekday, Midnight
  <1>3. m \in Nat /\ rm \in Nat /\ now \in Nat /\ m <= now /\ rm <= m + d3
    BY Clock
  <1>4. g \in Nat /\ d3 \in Nat /\ g >= d3
    BY <1>a, GraceEffect
  <1> HIDE DEF m, rm, d3
  <1>5. rm < (now + Delay) + g /\ ~(now + Delay <= m)
    BY <1>1, <1>3, <1>4
  <1> QED
    BY <1>2, <1>5 DEF Attended

LEMMA InTimeNext == Replicas # {} /\ Backing /\ Timing /\ InTime /\ [Next]_vars => InTime'
  <1> SUFFICES ASSUME Replicas # {}, Backing, Timing, InTime, [Next]_vars, NEW p \in Payments,
                      row'[p].st = "pending"
               PROVE  RunMidnight(now)' < row'[p].due + Grace' /\ Attended(p)'
    BY DEF InTime
  <1>1. row[p].st = "pending" => RunMidnight(now) < row[p].due + Grace /\ Attended(p)
    BY DEF InTime
  <1>2. CASE UNCHANGED vars
    BY <1>1, <1>2 DEF vars, books, provider, RunMidnight, Wait, Weekday, Grace, Attended, JobTime, Midnight, InHand
  <1>3. CASE Next
    <2>1. CASE row'[p] = row[p]
      BY <1>1, <1>3, <2>1, InTimeWorks, InTimeTick
    <2>2. CASE Collect(p) /\ row'[p].due = now + Delay
      BY <1>3, <2>2, InTimeCollect
    <2> QED
      BY <1>3, <2>1, <2>2, PendingEffect
  <1> QED
    BY <1>2, <1>3

\* A settlement that is not paid out stays pending and is due again
\* (settlement.go:133): a run after its date finds it, and only a fault lets it
\* wait for the next one, three days later at most.
THEOREM PaidInTimeCorrect == ASSUME Replicas # {} PROVE Spec => []PaidInTime
  <1>1. ASSUME Backing, InTime PROVE PaidInTime
    <2> SUFFICES ASSUME NEW p \in Payments, row[p].st \notin {"none", "completed", "refunded"}
                 PROVE  now <= row[p].due + 3 * (1 + faults) * Day + JobTick
      BY DEF PaidInTime
    <2> DEFINE rm == RunMidnight(now)
               r == now % Day
               g == 3 * (1 + faults) * Day
               due == row[p].due
    <2>1. row[p].st = "pending"
      BY <1>1 DEF Backing, TypeOK, Row
    <2>2. rm < due + g
      BY <1>1, <2>1 DEF InTime, Grace
    <2>3. now \in Nat /\ due \in Int /\ rm \in Nat
      BY <1>1, Clock
    <2>4. Day \in Nat \ {0} /\ JobTick \in 0 .. Day - 1 /\ r \in 0 .. Day - 1
      BY <2>3, Calendar
    <2>5. (r > JobTick => rm >= now - r + Day) /\ (r <= JobTick => rm >= now - r)
      BY <2>3, RunMidnightBounds
    <2>6. g \in Nat
      BY <1>1, <2>4, SettlementAssumption DEF Backing, TypeOK
    <2> HIDE DEF rm, r, g, due
    <2>7. now <= due + g + JobTick
      BY <2>2, <2>3, <2>4, <2>5, <2>6
    <2> QED
      BY <2>7 DEF due, g
  <1>2. Spec => []InTime
    BY InTimeInit, InTimeNext, BackingInvariant, TimingInvariant, PTL DEF Spec
  <1> QED
    BY <1>1, <1>2, BackingInvariant, PTL
=============================================================================
