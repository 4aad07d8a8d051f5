--------------------------- MODULE BillingLedger ---------------------------
(***************************************************************************)
(* Proof that Billing implements PaymentLedger, and what follows from it:  *)
(* whatever jobs, calls, webhooks and failures interleave, payments are    *)
(* credited and settled at most once, and only if they were taken.  And    *)
(* what one undisturbed replica of the billing job adds to that: retries   *)
(* keep their distance, a cycle is paid once, closed invoices agree with   *)
(* their subscription.                                                     *)
(***************************************************************************)
EXTENDS BillingProofs

\* The worker has asked for the money of the payment it holds, and got it.
MoneyPcs == {"accept", "complete", "settle", "paid", "advance"}

\* The worker has not yet asked for it.
BeforePcs == {"count", "initiate", "charge"}

HoldPcs == CollectPcs \cup OrderPcs

\* A row of wk that is at work on a payment agrees with the rows of that payment.
Holds(r) ==
    /\ r.pc \in CollectPcs =>
         /\ pay[r.p].kind \in Kinds
         /\ pay[r.p].inv = r.i
         /\ applied[r.p] = 0
         /\ r.pc \in BeforePcs => r.p \notin taken
         /\ r.pc \in MoneyPcs => r.p \in taken
         /\ r.pc \notin {"paid", "advance"} => pay[r.p].settlements = 0
    /\ r.pc \in OrderPcs => pay[r.p].kind = "checkout" /\ r.p \notin offered

Backed(i) == \E p \in taken : pay[p].inv = i

\* The copies in a row of wk are not ahead of the money.
Copies(r) ==
    /\ r.sub.cycle <= Cardinality(Credited)
    /\ r.inv.st = "paid" => Backed(r.i)

Unused == \A p \in PayIds : pay[p].kind = "none" =>
    p \notin offered /\ p \notin taken /\ applied[p] = 0 /\ pay[p].settlements = 0

Counted == \A p \in PayIds :
    /\ applied[p] <= 1 /\ pay[p].settlements <= 1
    /\ applied[p] = 1 \/ pay[p].settlements = 1 => p \in taken

Orders == \A p \in PayIds :
    /\ p \in offered => pay[p].kind = "checkout"
    /\ pay[p].kind = "checkout" =>
         /\ p \in taken => p \in offered
         /\ applied[p] = IF pay[p].init = "completed" THEN 1 ELSE 0
         /\ pay[p].settlements = applied[p]

\* No two workers hold the same payment.
Exclusive == \A v, w \in Workers :
    v # w /\ wk[v].pc \in HoldPcs /\ wk[w].pc \in HoldPcs => wk[v].p # wk[w].p

LedgerInv ==
    /\ TypeInv
    /\ Unused /\ Counted /\ Orders /\ Exclusive
    /\ \A w \in Workers : Holds(wk[w]) /\ Copies(wk[w])
    /\ sub.cycle <= Cardinality(Credited)
    /\ PaidBacked
-----------------------------------------------------------------------------
(* Lemmas *)

LEMMA CreditedFinite ==
  IsFiniteSet(Credited) /\ Cardinality(Credited) \in Nat
  <1>1. IsFiniteSet(PayIds)
    BY FS_Interval, BillingAssumption DEF PayIds
  <1>2. Credited \subseteq PayIds
    BY DEF Credited
  <1> QED
    BY <1>1, <1>2, FS_Subset, FS_CardinalityType

\* What the invariant says of one worker.
LEMMA WorkerFacts ==
  ASSUME LedgerInv, NEW w \in Workers
  PROVE  /\ wk[w] \in Worker /\ wk[w].inv \in InvRow /\ wk[w].sub \in SubRow
         /\ Holds(wk[w]) /\ Copies(wk[w])
         /\ wk[w].pc \in HoldPcs => wk[w].p \in PayIds /\ pay[wk[w].p] \in PayRow
  BY CopyTypes DEF LedgerInv, HoldPcs

LEMMA IdleRow ==
  Holds(Idle) /\ Copies(Idle) /\ Idle.pc \notin HoldPcs
  BY CreditedFinite
  DEF Holds, Copies, Idle, NoInvoice, HoldPcs, CollectPcs, OrderPcs

\* A step that leaves the payments alone and turns worker w into row r.
LEMMA WorkerStep ==
  ASSUME LedgerInv, TypeInv', NEW w \in Workers, NEW r, Becomes(w, r),
         UNCHANGED <<pay, taken, offered, applied>>,
         r.pc \in HoldPcs => wk[w].pc \in HoldPcs /\ r.p = wk[w].p,
         Holds(r), Copies(r),
         sub'.cycle <= Cardinality(Credited),
         \A i \in InvIds : inv'[i].st = "paid" => Backed(i)
  PROVE  LedgerInv'
  <1>1. Credited' = Credited
    BY DEF Credited
  <1>2. wk' \in [Workers -> Worker] /\ wk'[w] = r
        /\ \A v \in Workers : v # w => wk'[v] = wk[v]
    BY DEF Becomes, LedgerInv, TypeInv, TypeOK
  <1>3. \A v \in Workers : Holds(wk'[v]) /\ Copies(wk'[v])
    BY <1>2 DEF LedgerInv
  <1>4. \A v \in Workers : (Holds(wk[v]) /\ Copies(wk[v]))'
    BY <1>1, <1>3 DEF Holds, Copies, Backed
  <1>5. Exclusive'
    BY <1>2 DEF LedgerInv, Exclusive
  <1>6. (Unused /\ Counted /\ Orders)'
    BY DEF LedgerInv, Unused, Counted, Orders
  <1>7. PaidBacked' /\ (sub.cycle <= Cardinality(Credited))'
    BY <1>1 DEF PaidBacked, Backed
  <1> QED
    BY <1>4, <1>5, <1>6, <1>7 DEF LedgerInv

LEMMA ReturnStep ==
  ASSUME LedgerInv, TypeInv', NEW w \in Workers, Return(w),
         UNCHANGED <<pay, taken, offered, applied>>,
         sub'.cycle <= Cardinality(Credited),
         \A i \in InvIds : inv'[i].st = "paid" => Backed(i)
  PROVE  LedgerInv'
  BY IdleRow, WorkerStep DEF Return

LEMMA GotoStep ==
  ASSUME LedgerInv, TypeInv', NEW w \in Workers, NEW pc, Goto(w, pc),
         UNCHANGED <<pay, taken, offered, applied>>,
         pc \in HoldPcs => wk[w].pc \in HoldPcs,
         Holds([wk[w] EXCEPT !.pc = pc]),
         sub'.cycle <= Cardinality(Credited),
         \A i \in InvIds : inv'[i].st = "paid" => Backed(i)
  PROVE  LedgerInv'
  <1> DEFINE r == [wk[w] EXCEPT !.pc = pc]
  <1>1. r.pc = pc /\ r.p = wk[w].p /\ r.i = wk[w].i /\ r.sub = wk[w].sub /\ r.inv = wk[w].inv
    BY WorkerFacts DEF Worker
  <1>2. Copies(r)
    BY <1>1, WorkerFacts DEF Copies
  <1>3. Becomes(w, r)
    BY DEF Goto
  <1>4. Holds(r)
    OBVIOUS
  <1> HIDE DEF r
  <1> QED
    BY <1>1, <1>2, <1>3, <1>4, WorkerStep

\* A step to a place where no payment is held.
LEMMA LeaveStep ==
  ASSUME LedgerInv, TypeInv', NEW w \in Workers, NEW pc, Goto(w, pc), pc \notin HoldPcs,
         UNCHANGED <<pay, taken, offered, applied>>,
         sub'.cycle <= Cardinality(Credited),
         \A i \in InvIds : inv'[i].st = "paid" => Backed(i)
  PROVE  LedgerInv'
  <1> DEFINE r == [wk[w] EXCEPT !.pc = pc]
  <1>1. r.pc = pc
    BY WorkerFacts DEF Worker
  <1>2. Holds(r)
    BY <1>1 DEF Holds, HoldPcs
  <1> QED
    BY <1>2, GotoStep

\* SaveInvoice keeps the invariant if a row it stores as paid is backed.
LEMMA SaveInvoiceStep ==
  ASSUME LedgerInv, TypeInv', NEW w \in Workers, NEW row, NEW pc, SaveInvoice(w, row, pc),
         row.st = "paid" => Backed(wk[w].i),
         pc \in HoldPcs => wk[w].pc \in HoldPcs,
         Holds([wk[w] EXCEPT !.inv = row, !.pc = pc])
  PROVE  LedgerInv'
  <1> DEFINE r == [wk[w] EXCEPT !.inv = row, !.pc = pc]
  <1>1. r.pc = pc /\ r.p = wk[w].p /\ r.i = wk[w].i /\ r.sub = wk[w].sub /\ r.inv = row
    BY WorkerFacts DEF Worker
  <1>2. Copies(r)
    BY <1>1, WorkerFacts DEF Copies
  <1>3. \A i \in InvIds : inv'[i].st = "paid" => Backed(i)
    BY DEF SaveInvoice, LedgerInv, TypeInv, TypeOK, PaidBacked, Backed
  <1>4. Becomes(w, r) /\ Holds(r)
    BY DEF SaveInvoice
  <1>5. UNCHANGED <<pay, taken, offered, applied>> /\ sub'.cycle <= Cardinality(Credited)
    BY DEF SaveInvoice, Others, history, LedgerInv
  <1> HIDE DEF r
  <1> QED
    BY <1>1, <1>2, <1>3, <1>4, <1>5, WorkerStep
-----------------------------------------------------------------------------
(* Steps that leave the payments alone *)

LEMMA PaidRows ==
  ASSUME LedgerInv
  PROVE  \A i \in InvIds : inv[i].st = "paid" => Backed(i)
  BY DEF LedgerInv, PaidBacked, Backed

LEMMA LoadStep ==
  ASSUME LedgerInv, TypeInv', NEW w \in Workers, LoadDue(w) \/ LoadUpcoming(w)
  PROVE  LedgerInv'
  <1>1. PICK want \in {"draft", "open"} :
          Becomes(w, [wk[w] EXCEPT !.pc = "ensure", !.want = want, !.sub = sub])
    BY DEF LoadDue, LoadUpcoming
  <1> DEFINE r == [wk[w] EXCEPT !.pc = "ensure", !.want = want, !.sub = sub]
  <1>2. r.pc = "ensure" /\ r.i = wk[w].i /\ r.sub = sub /\ r.inv = wk[w].inv
    BY WorkerFacts DEF Worker
  <1>3. r.pc \notin HoldPcs /\ Holds(r)
    BY <1>2 DEF Holds, HoldPcs, CollectPcs, OrderPcs
  <1>4. Copies(r)
    BY <1>2, WorkerFacts DEF Copies, LedgerInv
  <1>5. UNCHANGED <<sub, inv, pay, taken, offered, applied>>
    BY DEF LoadDue, LoadUpcoming, dbVars, Others, history
  <1> HIDE DEF r
  <1> QED
    BY <1>1, <1>3, <1>4, <1>5, PaidRows, WorkerStep DEF LedgerInv, r

LEMMA EnsureStep ==
  ASSUME LedgerInv, TypeInv', NEW w \in Workers, Ensure(w)
  PROVE  LedgerInv'
  <1>1. /\ UNCHANGED <<pay, taken, offered, applied>>
        /\ sub'.cycle <= Cardinality(Credited)
        /\ \A i \in InvIds : inv'[i].st = "paid" => Backed(i)
    BY PaidRows DEF Ensure, dbVars, Others, history, LedgerInv
  <1>2. CASE Goto(w, "create")
    BY <1>1, <1>2, LeaveStep DEF HoldPcs, CollectPcs, OrderPcs
  <1>3. CASE Return(w)
    BY <1>1, <1>3, ReturnStep
  <1>4. ASSUME NEW i \in InvIds, NEW pc \in {"open", "attach"},
               Becomes(w, [wk[w] EXCEPT !.i = i, !.inv = inv[i], !.pc = pc])
        PROVE  LedgerInv'
    <2> DEFINE r == [wk[w] EXCEPT !.i = i, !.inv = inv[i], !.pc = pc]
    <2>1. r.pc = pc /\ r.i = i /\ r.sub = wk[w].sub /\ r.inv = inv[i]
      BY WorkerFacts DEF Worker
    <2>2. r.pc \notin HoldPcs /\ Holds(r)
      BY <2>1 DEF Holds, HoldPcs, CollectPcs, OrderPcs
    <2>3. Copies(r)
      BY <2>1, WorkerFacts, PaidRows DEF Copies
    <2>4. Becomes(w, r)
      BY <1>4
    <2> HIDE DEF r
    <2> QED
      BY <1>1, <2>2, <2>3, <2>4, WorkerStep
  <1> QED
    BY <1>2, <1>3, <1>4 DEF Ensure, InvoicesDue

LEMMA CreateStep ==
  ASSUME LedgerInv, TypeInv', NEW w \in Workers, Create(w)
  PROVE  LedgerInv'
  <1> DEFINE new == NewInv(wk[w].sub.cycle, wk[w].want)
  <1>1. PICK i \in InvIds :
          /\ inv' = [inv EXCEPT ![i] = new]
          /\ \/ Return(w)
             \/ Becomes(w, [wk[w] EXCEPT !.i = i, !.inv = new, !.pc = "attach"])
    BY DEF Create
  <1>2. new.st # "paid"
    BY WorkerFacts DEF NewInv, Worker
  <1>3. /\ UNCHANGED <<pay, taken, offered, applied>>
        /\ sub'.cycle <= Cardinality(Credited)
        /\ \A j \in InvIds : inv'[j].st = "paid" => Backed(j)
    BY <1>1, <1>2, PaidRows DEF Create, Others, history, LedgerInv, TypeInv, TypeOK
  <1> DEFINE r == [wk[w] EXCEPT !.i = i, !.inv = new, !.pc = "attach"]
  <1> HIDE DEF new
  <1>4. r.pc = "attach" /\ r.i = i /\ r.sub = wk[w].sub /\ r.inv = new
    BY WorkerFacts DEF Worker
  <1>5. r.pc \notin HoldPcs /\ Holds(r)
    BY <1>4 DEF Holds, HoldPcs, CollectPcs, OrderPcs
  <1>6. Copies(r)
    BY <1>2, <1>4, WorkerFacts DEF Copies
  <1>7. Return(w) \/ Becomes(w, r)
    BY <1>1
  <1> HIDE DEF r
  <1> QED
    BY <1>3, <1>5, <1>6, <1>7, ReturnStep, WorkerStep

LEMMA OpenStep ==
  ASSUME LedgerInv, TypeInv', NEW w \in Workers, Open(w)
  PROVE  LedgerInv'
  <1> DEFINE row == [wk[w].inv EXCEPT !.st = "open"]
             r == [wk[w] EXCEPT !.inv = row, !.pc = "attach"]
  <1>1. row.st = "open"
    BY WorkerFacts DEF InvRow
  <1>2. r.pc = "attach"
    BY WorkerFacts DEF Worker
  <1>3. Holds(r) /\ "attach" \notin HoldPcs
    BY <1>2 DEF Holds, HoldPcs, CollectPcs, OrderPcs
  <1> QED
    BY <1>1, <1>3, SaveInvoiceStep DEF Open

LEMMA AttachStep ==
  ASSUME LedgerInv, TypeInv', NEW w \in Workers, Attach(w)
  PROVE  LedgerInv'
  <1>1. /\ UNCHANGED <<pay, taken, offered, applied>>
        /\ sub'.cycle <= Cardinality(Credited)
        /\ \A i \in InvIds : inv'[i].st = "paid" => Backed(i)
    BY PaidRows, WorkerFacts DEF Attach, Copies, Others, history
  <1> QED
    BY <1>1, LeaveStep, ReturnStep DEF Attach, HoldPcs, CollectPcs, OrderPcs

LEMMA ChooseStep ==
  ASSUME LedgerInv, TypeInv', NEW w \in Workers, FindSource(w) \/ Verify(w)
  PROVE  LedgerInv'
  <1>1. /\ UNCHANGED <<pay, taken, offered, applied>>
        /\ sub'.cycle <= Cardinality(Credited)
        /\ \A i \in InvIds : inv'[i].st = "paid" => Backed(i)
    BY PaidRows DEF FindSource, Verify, dbVars, Others, history, LedgerInv
  <1>2. PICK pc \in {"order", "failHard", "failSoft", "intent", "verify"} : Goto(w, pc)
    <2>1. wk[w].sub.src \in Kinds \cup {"none"}
      BY WorkerFacts DEF SubRow
    <2> QED
      BY <2>1 DEF FindSource, Verify, Kinds
  <1>3. pc \notin HoldPcs
    BY DEF HoldPcs, CollectPcs, OrderPcs
  <1> QED
    BY <1>1, <1>2, <1>3, LeaveStep

LEMMA CountStep ==
  ASSUME LedgerInv, TypeInv', NEW w \in Workers, Count(w)
  PROVE  LedgerInv'
  <1> DEFINE row == [wk[w].inv EXCEPT !.attempts = @ + 1]
             pc == IF Kind(w) = "card" THEN "initiate" ELSE "charge"
             r == [wk[w] EXCEPT !.inv = row, !.pc = pc]
  <1>1. row.st = wk[w].inv.st
    BY WorkerFacts DEF InvRow
  <1>2. row.st = "paid" => Backed(wk[w].i)
    BY <1>1, WorkerFacts DEF Copies
  <1>3. wk[w].pc = "count" /\ wk[w].pc \in HoldPcs
    BY DEF Count, At, HoldPcs, CollectPcs
  <1>4. SaveInvoice(w, row, pc)
    BY DEF Count
  <1>5. pc \in {"initiate", "charge"}
    OBVIOUS
  <1> HIDE DEF row, pc
  <1>6. r.pc = pc /\ r.p = wk[w].p /\ r.i = wk[w].i
    BY WorkerFacts DEF Worker
  <1>7. Holds(r)
    BY <1>3, <1>5, <1>6, WorkerFacts DEF Holds, CollectPcs, OrderPcs, BeforePcs, MoneyPcs
  <1> QED
    BY <1>2, <1>3, <1>4, <1>7, SaveInvoiceStep

LEMMA FailInvoiceStep ==
  ASSUME LedgerInv, TypeInv', NEW w \in Workers, FailInvoice(w)
  PROVE  LedgerInv'
  <1>1. ASSUME NEW row, NEW pc \in {"pastDue", "pause"}, SaveInvoice(w, row, pc),
               row.st = "paid" => wk[w].inv.st = "paid"
        PROVE  LedgerInv'
    <2> DEFINE r == [wk[w] EXCEPT !.inv = row, !.pc = pc]
    <2>1. r.pc = pc
      BY WorkerFacts DEF Worker
    <2>2. Holds(r) /\ pc \notin HoldPcs
      BY <2>1 DEF Holds, HoldPcs, CollectPcs, OrderPcs
    <2>3. row.st = "paid" => Backed(wk[w].i)
      BY <1>1, WorkerFacts DEF Copies
    <2> QED
      BY <1>1, <2>2, <2>3, SaveInvoiceStep
  <1>2. /\ [wk[w].inv EXCEPT !.next = Later(RetryDelay)].st = wk[w].inv.st
        /\ [wk[w].inv EXCEPT !.st = "failed"].st = "failed"
    BY WorkerFacts DEF InvRow
  <1> QED
    BY <1>1, <1>2 DEF FailInvoice

LEMMA FailSubscriptionStep ==
  ASSUME LedgerInv, TypeInv', NEW w \in Workers, FailSubscription(w)
  PROVE  LedgerInv'
  <1>1. sub'.cycle = wk[w].sub.cycle
    BY WorkerFacts DEF FailSubscription, SaveSub, SubRow
  <1>2. /\ UNCHANGED <<inv, pay, taken, offered, applied>> /\ Return(w)
    BY DEF FailSubscription, SaveSub
  <1>3. sub'.cycle <= Cardinality(Credited)
    BY <1>1, WorkerFacts DEF Copies
  <1> QED
    BY <1>2, <1>3, PaidRows, ReturnStep

LEMMA MarkPaidStep ==
  ASSUME LedgerInv, TypeInv', NEW w \in Workers, MarkPaid(w)
  PROVE  LedgerInv'
  <1> DEFINE row == [wk[w].inv EXCEPT !.st = "paid"]
             r == [wk[w] EXCEPT !.inv = row, !.pc = "advance"]
  <1>1. wk[w].pc = "paid" /\ wk[w].pc \in HoldPcs
    BY DEF MarkPaid, At, HoldPcs, CollectPcs
  <1>2. Backed(wk[w].i)
    BY <1>1, WorkerFacts DEF Holds, Backed, CollectPcs, MoneyPcs, LedgerInv, TypeInv, TypeOK
  <1>3. SaveInvoice(w, row, "advance")
    BY DEF MarkPaid
  <1> HIDE DEF row
  <1>4. r.pc = "advance" /\ r.p = wk[w].p /\ r.i = wk[w].i
    BY WorkerFacts DEF Worker
  <1>5. Holds(r)
    BY <1>1, <1>4, WorkerFacts DEF Holds, CollectPcs, OrderPcs, BeforePcs, MoneyPcs
  <1> QED
    BY <1>1, <1>2, <1>3, <1>5, SaveInvoiceStep

LEMMA OfferStep ==
  ASSUME LedgerInv, TypeInv', NEW w \in Workers, Offer(w)
  PROVE  LedgerInv'
  <1>1. /\ UNCHANGED <<pay, taken, offered, applied>>
        /\ sub'.cycle <= Cardinality(Credited)
        /\ \A i \in InvIds : inv'[i].st = "paid" => Backed(i)
    BY PaidRows DEF Offer, dbVars, Others, history, LedgerInv
  <1> DEFINE r == [wk[w] EXCEPT !.pc = "saveOrder"]
  <1>2. wk[w].pc = "offer" /\ wk[w].pc \in HoldPcs
    BY DEF Offer, At, HoldPcs, OrderPcs
  <1>3. r.pc = "saveOrder" /\ r.p = wk[w].p
    BY WorkerFacts DEF Worker
  <1>4. Holds(r)
    BY <1>2, <1>3, WorkerFacts DEF Holds, CollectPcs, OrderPcs
  <1> QED
    BY <1>1, <1>2, <1>4, GotoStep, ReturnStep DEF Offer

LEMMA RetryReopenStep ==
  ASSUME LedgerInv, TypeInv', NEW w \in Workers, RetryReopen(w)
  PROVE  LedgerInv'
  <1> DEFINE row == [wk[w].inv EXCEPT !.st = IF @ = "failed" THEN "open" ELSE @, !.next = now]
  <1>1. row.st = "paid" => wk[w].inv.st = "paid"
    BY WorkerFacts DEF InvRow
  <1>2. row.st = "paid" => Backed(wk[w].i)
    BY <1>1, WorkerFacts DEF Copies
  <1>3. ASSUME NEW pc \in {"unpause", "ensure"}, SaveInvoice(w, row, pc)
        PROVE  LedgerInv'
    <2> HIDE DEF row
    <2> DEFINE r == [wk[w] EXCEPT !.inv = row, !.pc = pc]
    <2>1. r.pc = pc
      BY WorkerFacts DEF Worker
    <2>2. Holds(r) /\ pc \notin HoldPcs
      BY <2>1 DEF Holds, HoldPcs, CollectPcs, OrderPcs
    <2> QED
      BY <1>2, <1>3, <2>2, SaveInvoiceStep
  <1> QED
    BY <1>3 DEF RetryReopen

LEMMA RetryUnpauseStep ==
  ASSUME LedgerInv, TypeInv', NEW w \in Workers, RetryUnpause(w)
  PROVE  LedgerInv'
  <1> DEFINE row == [wk[w].sub EXCEPT !.status = "past_due"]
             r == [wk[w] EXCEPT !.sub = row, !.pc = "ensure"]
  <1>1. row.cycle = wk[w].sub.cycle
    BY WorkerFacts DEF SubRow
  <1>2. sub' = row /\ Becomes(w, r) /\ UNCHANGED <<inv, pay, taken, offered, applied>>
    BY DEF RetryUnpause, Others, history
  <1> HIDE DEF row
  <1>3. r.pc = "ensure" /\ r.i = wk[w].i /\ r.sub = row /\ r.inv = wk[w].inv
    BY WorkerFacts DEF Worker
  <1>4. r.pc \notin HoldPcs /\ Holds(r)
    BY <1>3 DEF Holds, HoldPcs, CollectPcs, OrderPcs
  <1>5. Copies(r)
    BY <1>1, <1>3, WorkerFacts DEF Copies
  <1>6. sub'.cycle <= Cardinality(Credited)
    BY <1>1, <1>2, WorkerFacts DEF Copies
  <1> HIDE DEF r
  <1> QED
    BY <1>2, <1>4, <1>5, <1>6, PaidRows, WorkerStep

LEMMA LinkOpenStep ==
  ASSUME LedgerInv, TypeInv', NEW w \in Workers, LinkOpen(w)
  PROVE  LedgerInv'
  <1> DEFINE row == [wk[w].inv EXCEPT !.st = "open"]
             r == [wk[w] EXCEPT !.inv = row, !.pc = "order"]
  <1>1. row.st = "open"
    BY WorkerFacts DEF InvRow
  <1>2. /\ inv' = [inv EXCEPT ![wk[w].i] = row]
        /\ Becomes(w, r) \/ Return(w)
        /\ UNCHANGED <<sub, pay, taken, offered, applied>>
    BY DEF LinkOpen, Others, history
  <1> HIDE DEF row
  <1>3. r.pc = "order" /\ r.i = wk[w].i /\ r.sub = wk[w].sub /\ r.inv = row
    BY WorkerFacts DEF Worker
  <1>4. r.pc \notin HoldPcs /\ Holds(r)
    BY <1>3 DEF Holds, HoldPcs, CollectPcs, OrderPcs
  <1>5. Copies(r)
    BY <1>1, <1>3, WorkerFacts DEF Copies
  <1>6. /\ \A i \in InvIds : inv'[i].st = "paid" => Backed(i)
        /\ sub'.cycle <= Cardinality(Credited)
    BY <1>1, <1>2, PaidRows DEF LedgerInv, TypeInv, TypeOK
  <1> HIDE DEF r
  <1> QED
    BY <1>2, <1>4, <1>5, <1>6, ReturnStep, WorkerStep

LEMMA RequestStep ==
  ASSUME LedgerInv, TypeInv', NEW w \in Workers, NEW i \in InvIds,
         RetryRead(w, i) \/ LinkRead(w, i)
  PROVE  LedgerInv'
  <1>1. PICK pc \in {"retry", "link"} : StartRequest(w, i, pc)
    BY DEF RetryRead, LinkRead
  <1> DEFINE r == [wk[w] EXCEPT !.pc = pc, !.i = i, !.inv = inv[i]]
  <1>2. r.pc = pc /\ r.i = i /\ r.sub = wk[w].sub /\ r.inv = inv[i]
    BY WorkerFacts DEF Worker
  <1>3. r.pc \notin HoldPcs /\ Holds(r)
    BY <1>2 DEF Holds, HoldPcs, CollectPcs, OrderPcs
  <1>4. Copies(r)
    BY <1>2, WorkerFacts, PaidRows DEF Copies, LedgerInv
  <1>5. Becomes(w, r) /\ UNCHANGED <<sub, inv, pay, taken, offered, applied>>
    BY <1>1 DEF StartRequest, dbVars, pspVars, history
  <1> HIDE DEF r
  <1> QED
    BY <1>3, <1>4, <1>5, PaidRows, WorkerStep DEF LedgerInv

LEMMA RefundReadStep ==
  ASSUME LedgerInv, TypeInv', NEW w \in Workers, NEW i \in InvIds, NEW p \in PayIds,
         RefundRead(w, i, p)
  PROVE  LedgerInv'
  <1> DEFINE r == [wk[w] EXCEPT !.pc = "refund", !.i = i, !.inv = inv[i], !.p = p]
  <1>1. r.pc = "refund" /\ r.i = i /\ r.sub = wk[w].sub /\ r.inv = inv[i]
    BY WorkerFacts DEF Worker
  <1>2. r.pc \notin HoldPcs /\ Holds(r)
    BY <1>1 DEF Holds, HoldPcs, CollectPcs, OrderPcs
  <1>3. Copies(r)
    BY <1>1, WorkerFacts, PaidRows DEF Copies, LedgerInv
  <1>4. Becomes(w, r) /\ UNCHANGED <<sub, inv, pay, taken, offered, applied>>
    BY DEF RefundRead, dbVars, pspVars, history
  <1> HIDE DEF r
  <1> QED
    BY <1>2, <1>3, <1>4, PaidRows, WorkerStep DEF LedgerInv

LEMMA ReadSubStep ==
  ASSUME LedgerInv, TypeInv', NEW w \in Workers, ReadSub(w)
  PROVE  LedgerInv'
  <1>1. PICK pc \in {"reopen", "openLink", "order"} :
          Becomes(w, [wk[w] EXCEPT !.pc = pc, !.sub = sub])
    BY DEF ReadSub
  <1> DEFINE r == [wk[w] EXCEPT !.pc = pc, !.sub = sub]
  <1>2. r.pc = pc /\ r.i = wk[w].i /\ r.sub = sub /\ r.inv = wk[w].inv
    BY WorkerFacts DEF Worker
  <1>3. r.pc \notin HoldPcs /\ Holds(r)
    BY <1>2 DEF Holds, HoldPcs, CollectPcs, OrderPcs
  <1>4. Copies(r)
    BY <1>2, WorkerFacts DEF Copies, LedgerInv
  <1>5. Becomes(w, r) /\ UNCHANGED <<sub, inv, pay, taken, offered, applied>>
    BY <1>1 DEF ReadSub, dbVars, Others, history
  <1> HIDE DEF r
  <1> QED
    BY <1>3, <1>4, <1>5, PaidRows, WorkerStep DEF LedgerInv

LEMMA CallStep ==
  ASSUME LedgerInv, TypeInv', NEW w \in Workers, NEW row, row.cycle = sub.cycle,
         NEW pc \in {"cancel", "disable", "store", "mandate"}, StartCall(w, pc, row)
  PROVE  LedgerInv'
  <1> DEFINE r == [wk[w] EXCEPT !.pc = pc, !.sub = row]
  <1>1. r.pc = pc /\ r.i = wk[w].i /\ r.sub = row /\ r.inv = wk[w].inv
    BY WorkerFacts DEF Worker
  <1>2. r.pc \notin HoldPcs /\ Holds(r)
    BY <1>1 DEF Holds, HoldPcs, CollectPcs, OrderPcs
  <1>3. Copies(r)
    BY <1>1, WorkerFacts DEF Copies, LedgerInv
  <1>4. Becomes(w, r) /\ UNCHANGED <<sub, inv, pay, taken, offered, applied>>
    BY DEF StartCall, dbVars, pspVars, history
  <1> HIDE DEF r
  <1> QED
    BY <1>2, <1>3, <1>4, PaidRows, WorkerStep DEF LedgerInv

LEMMA CallsStep ==
  ASSUME LedgerInv, TypeInv', NEW w \in Workers, RequestStart(w)
  PROVE  LedgerInv'
  <1>0. sub \in SubRow
    BY DEF LedgerInv, TypeInv, TypeOK
  <1>1. CASE CancelRead(w)
    <2>1. [sub EXCEPT !.status = "canceled"].cycle = sub.cycle
      BY <1>0 DEF SubRow
    <2> QED
      BY <1>1, <2>1, CallStep DEF CancelRead
  <1>2. ASSUME NEW k \in Kinds, DisableRead(w, k)
        PROVE  LedgerInv'
    <2>1. [sub EXCEPT !.src = k].cycle = sub.cycle
      BY <1>0 DEF SubRow
    <2> QED
      BY <1>2, <2>1, CallStep DEF DisableRead
  <1>3. ASSUME NEW k \in Kinds, SwitchRead(w, k)
        PROVE  LedgerInv'
    <2>1. [sub EXCEPT !.src = k].cycle = sub.cycle
      BY <1>0 DEF SubRow
    <2> QED
      BY <1>3, <2>1, CallStep DEF SwitchRead
  <1>4. ASSUME NEW r \in {"ACTIVE", "SUSPENDED", "DELETED"}, MandateRead(w, r)
        PROVE  LedgerInv'
    <2> DEFINE st == CASE r = "ACTIVE" -> sub.status
                       [] r = "SUSPENDED" -> "paused"
                       [] r = "DELETED" -> "canceled"
    <2>1. PICK pc \in {"store", "mandate"} : StartCall(w, pc, [sub EXCEPT !.status = st])
      BY <1>4 DEF MandateRead
    <2> HIDE DEF st
    <2>2. [sub EXCEPT !.status = st].cycle = sub.cycle
      BY <1>0 DEF SubRow
    <2> QED
      BY <2>1, <2>2, CallStep
  <1>5. ASSUME NEW i \in InvIds, RetryRead(w, i) \/ LinkRead(w, i)
        PROVE  LedgerInv'
    BY <1>5, RequestStep
  <1> QED
    BY <1>1, <1>2, <1>3, <1>4, <1>5, RefundReadStep DEF RequestStart

LEMMA DisableFindStep ==
  ASSUME LedgerInv, TypeInv', NEW w \in Workers, DisableFind(w)
  PROVE  LedgerInv'
  <1> DEFINE row == [sub EXCEPT !.status = "paused"]
             r == [wk[w] EXCEPT !.pc = "disableLinked", !.sub = row]
  <1>1. row.cycle = sub.cycle
    BY DEF LedgerInv, TypeInv, TypeOK, SubRow
  <1>2. /\ Becomes(w, r) \/ Goto(w, "disableOnly")
        /\ UNCHANGED <<sub, inv, pay, taken, offered, applied>>
    BY DEF DisableFind, dbVars, pspVars, history
  <1> HIDE DEF row
  <1>3. r.pc = "disableLinked" /\ r.i = wk[w].i /\ r.sub = row /\ r.inv = wk[w].inv
    BY WorkerFacts DEF Worker
  <1>4. r.pc \notin HoldPcs /\ Holds(r) /\ "disableOnly" \notin HoldPcs
    BY <1>3 DEF Holds, HoldPcs, CollectPcs, OrderPcs
  <1>5. Copies(r)
    BY <1>1, <1>3, WorkerFacts DEF Copies, LedgerInv
  <1> HIDE DEF r
  <1> QED
    BY <1>2, <1>4, <1>5, PaidRows, WorkerStep, LeaveStep DEF LedgerInv

LEMMA CommitStep ==
  ASSUME LedgerInv, TypeInv', NEW w \in Workers, Commit(w)
  PROVE  LedgerInv'
  <1>0. SUFFICES ASSUME CancelCommit(w) \/ DisableCommit(w) \/ DropMandate(w) \/ Store(w)
                 PROVE  LedgerInv'
    BY DisableFindStep DEF Commit
  <1>1. UNCHANGED <<pay, taken, offered, applied>>
    BY <1>0 DEF CancelCommit, DisableCommit, DropMandate, Store, pspVars, history
  <1>2. sub'.cycle <= Cardinality(Credited)
    BY <1>0, WorkerFacts DEF CancelCommit, DisableCommit, DropMandate, Store, Copies, LedgerInv
  <1>3. \A i \in InvIds : inv'[i].st = "paid" => Backed(i)
    <2>1. \A i \in InvIds : inv'[i].st = "paid" => inv[i].st = "paid"
      <3>1. \A i \in InvIds : [inv[i] EXCEPT !.st = "failed"].st = "failed"
        BY DEF LedgerInv, TypeInv, TypeOK, InvRow
      <3> QED
        BY <1>0, <3>1 DEF CancelCommit, DisableCommit, DropMandate, Store
    <2> QED
      BY <2>1, PaidRows
  <1>4. Return(w) \/ Goto(w, "store")
    BY <1>0 DEF CancelCommit, DisableCommit, DropMandate, Store
  <1> QED
    BY <1>1, <1>2, <1>3, <1>4, LeaveStep, ReturnStep DEF HoldPcs, CollectPcs, OrderPcs
-----------------------------------------------------------------------------
(* Steps that change payments *)

\* A worker picks an unused reference: nobody else holds it.
LEMMA ReferenceStep ==
  ASSUME LedgerInv, TypeInv', NEW w \in Workers, NEW p \in PayIds, NEW row, NEW pc,
         pay[p].kind = "none",
         pay' = [pay EXCEPT ![p] = row],
         Becomes(w, [wk[w] EXCEPT !.p = p, !.pc = pc]),
         UNCHANGED <<sub, inv, taken, refused, Others>>,
         row.inv = wk[w].i, row.settlements = 0, row.init # "completed",
         \/ pc \in {"count", "initiate"} /\ row.kind \in Kinds
         \/ pc = "offer" /\ row.kind = "checkout"
  PROVE  LedgerInv'
  <1> DEFINE r == [wk[w] EXCEPT !.p = p, !.pc = pc]
  <1>1. r.pc = pc /\ r.p = p /\ r.i = wk[w].i /\ r.sub = wk[w].sub /\ r.inv = wk[w].inv
    BY WorkerFacts DEF Worker
  <1>2. UNCHANGED <<sub, inv, taken, offered, applied>> /\ Credited' = Credited
    BY DEF Others, history, Credited
  <1>3. pay'[p] = row /\ \A q \in PayIds : q # p => pay'[q] = pay[q]
    BY DEF LedgerInv, TypeInv, TypeOK
  <1>4. wk'[w] = r /\ \A v \in Workers : v # w => wk'[v] = wk[v]
    BY DEF Becomes, LedgerInv, TypeInv, TypeOK
  <1> HIDE DEF r
  <1>5. \A v \in Workers : wk[v].pc \in HoldPcs => wk[v].p \in PayIds /\ wk[v].p # p
    BY WorkerFacts DEF Holds, HoldPcs, Kinds
  <1>6. p \notin taken /\ p \notin offered /\ applied[p] = 0
    BY DEF LedgerInv, Unused
  <1>7. \A i : Backed(i) => Backed(i)'
    BY <1>2, <1>3, <1>6 DEF Backed, LedgerInv, TypeInv, TypeOK
  <1>8. (Holds(wk[w]) /\ Copies(wk[w]))'
    BY <1>1, <1>2, <1>3, <1>4, <1>6, <1>7, WorkerFacts
    DEF Holds, Copies, CollectPcs, OrderPcs, BeforePcs, MoneyPcs
  <1>9. ASSUME NEW v \in Workers, v # w
        PROVE  (Holds(wk[v]) /\ Copies(wk[v]))'
    BY <1>2, <1>3, <1>4, <1>5, <1>7, <1>9, WorkerFacts DEF Holds, Copies, HoldPcs
  <1>10. Exclusive'
    BY <1>1, <1>4, <1>5 DEF LedgerInv, Exclusive
  <1>11. (Unused /\ Counted /\ Orders)'
    BY <1>2, <1>3, <1>6 DEF LedgerInv, Unused, Counted, Orders, Kinds
  <1>12. PaidBacked' /\ (sub.cycle <= Cardinality(Credited))'
    BY <1>2, <1>7 DEF LedgerInv, PaidBacked, Backed
  <1> QED
    BY <1>8, <1>9, <1>10, <1>11, <1>12 DEF LedgerInv

LEMMA IntentStep ==
  ASSUME LedgerInv, TypeInv', NEW w \in Workers, Intent(w)
  PROVE  LedgerInv'
  <1> DEFINE row == [NoPayment EXCEPT !.kind = Kind(w), !.inv = wk[w].i, !.intent = "pending"]
             pc == IF Kind(w) = "card" THEN "count" ELSE "initiate"
  <1>1. PICK p \in PayIds : /\ pay[p].kind = "none"
                            /\ pay' = [pay EXCEPT ![p] = row]
                            /\ Becomes(w, [wk[w] EXCEPT !.p = p, !.pc = pc])
    BY DEF Intent, Fresh
  <1>2. /\ row.inv = wk[w].i /\ row.settlements = 0 /\ row.init # "completed"
        /\ row.kind \in Kinds /\ pc \in {"count", "initiate"}
    BY DEF NoPayment, Kind, Kinds
  <1> HIDE DEF row, pc
  <1> QED
    BY <1>1, <1>2, ReferenceStep DEF Intent

LEMMA OrderStep ==
  ASSUME LedgerInv, TypeInv', NEW w \in Workers, Order(w)
  PROVE  LedgerInv'
  <1> DEFINE row == [NoPayment EXCEPT !.kind = "checkout", !.inv = wk[w].i, !.init = "pending"]
  <1>1. PICK p \in PayIds : /\ pay[p].kind = "none"
                            /\ pay' = [pay EXCEPT ![p] = row]
                            /\ Becomes(w, [wk[w] EXCEPT !.p = p, !.pc = "offer"])
    BY DEF Order, Fresh
  <1>2. /\ row.inv = wk[w].i /\ row.settlements = 0 /\ row.init # "completed"
        /\ row.kind = "checkout"
    BY DEF NoPayment
  <1> HIDE DEF row
  <1> QED
    BY <1>1, <1>2, ReferenceStep DEF Order

\* A payment whose rows change, but neither its kind nor its invoice nor what it
\* counts for.
LEMMA PaymentRowStep ==
  ASSUME LedgerInv, TypeInv', NEW p \in PayIds, NEW row,
         pay' = [pay EXCEPT ![p] = row],
         row.kind = pay[p].kind, row.inv = pay[p].inv, row.settlements = pay[p].settlements,
         pay[p].kind = "checkout" => (row.init = "completed" <=> pay[p].init = "completed"),
         UNCHANGED <<taken, offered, applied>>, sub'.cycle = sub.cycle,
         \A i \in InvIds : inv'[i].st = "paid" => Backed(i),
         \A v \in Workers :
           /\ wk'[v].pc \in HoldPcs => wk[v].pc \in HoldPcs /\ wk'[v].p = wk[v].p
           /\ Holds(wk'[v]) /\ Copies(wk'[v])
  PROVE  LedgerInv'
  <1>1. \A q \in PayIds : /\ pay'[q].kind = pay[q].kind /\ pay'[q].inv = pay[q].inv
                          /\ pay'[q].settlements = pay[q].settlements
                          /\ pay[q].kind = "checkout" =>
                               (pay'[q].init = "completed" <=> pay[q].init = "completed")
    BY DEF LedgerInv, TypeInv, TypeOK
  <1>2. Credited' = Credited
    BY DEF Credited
  <1>3. \A i : Backed(i) => Backed(i)'
    BY <1>1 DEF Backed, LedgerInv, TypeInv, TypeOK
  <1>4. ASSUME NEW v \in Workers
        PROVE  (Holds(wk[v]) /\ Copies(wk[v]))'
    <2>1. wk'[v].pc \in HoldPcs => wk'[v].p \in PayIds
      BY WorkerFacts
    <2> QED
      BY <1>1, <1>2, <1>3, <2>1 DEF Holds, Copies, HoldPcs
  <1>5. Exclusive'
    BY DEF LedgerInv, Exclusive
  <1>6. (Unused /\ Counted /\ Orders)'
    BY <1>1 DEF LedgerInv, Unused, Counted, Orders
  <1>7. PaidBacked' /\ (sub.cycle <= Cardinality(Credited))'
    BY <1>2, <1>3 DEF LedgerInv, PaidBacked, Backed
  <1> QED
    BY <1>4, <1>5, <1>6, <1>7 DEF LedgerInv

\* The same for the payment a worker holds.
LEMMA SavePaymentLedger ==
  ASSUME LedgerInv, TypeInv', NEW w \in Workers, NEW row, NEW pc,
         SavePayment(w, row), Goto(w, pc), wk[w].pc \in HoldPcs,
         UNCHANGED <<sub, inv, taken, offered, applied>>,
         row.kind = pay[wk[w].p].kind, row.inv = pay[wk[w].p].inv,
         row.settlements = pay[wk[w].p].settlements,
         pay[wk[w].p].kind = "checkout" =>
           (row.init = "completed" <=> pay[wk[w].p].init = "completed"),
         Holds([wk[w] EXCEPT !.pc = pc])
  PROVE  LedgerInv'
  <1> DEFINE r == [wk[w] EXCEPT !.pc = pc]
  <1>1. r.pc = pc /\ r.p = wk[w].p /\ r.i = wk[w].i /\ r.sub = wk[w].sub /\ r.inv = wk[w].inv
    BY WorkerFacts DEF Worker
  <1>2. Copies(r) /\ Holds(r)
    BY <1>1, WorkerFacts DEF Copies
  <1>3. wk'[w] = r /\ \A v \in Workers : v # w => wk'[v] = wk[v]
    BY DEF Goto, Becomes, LedgerInv, TypeInv, TypeOK
  <1> HIDE DEF r
  <1>4. \A v \in Workers :
          /\ wk'[v].pc \in HoldPcs => wk[v].pc \in HoldPcs /\ wk'[v].p = wk[v].p
          /\ Holds(wk'[v]) /\ Copies(wk'[v])
    BY <1>1, <1>2, <1>3, WorkerFacts
  <1>5. wk[w].p \in PayIds /\ pay' = [pay EXCEPT ![wk[w].p] = row]
    BY WorkerFacts DEF SavePayment
  <1> QED
    BY <1>4, <1>5, PaidRows, PaymentRowStep

\* The pcs a payment moves to when its rows are written, apart from its settlement.
LEMMA PaymentPcs ==
  ASSUME LedgerInv, NEW w \in Workers, NEW pc,
         \/ wk[w].pc = "initiate" /\ pc \in {"charge", "count"}
         \/ wk[w].pc = "accept" /\ pc \in {"paid", "complete"}
         \/ wk[w].pc = "complete" /\ pc = "settle"
         \/ wk[w].pc = "settle" /\ pc = "paid"
         \/ wk[w].pc = "saveOrder" /\ pc = "saveLink"
         \/ wk[w].pc = "reject" /\ pc \in {"failInit", "failSoft"}
         \/ wk[w].pc = "failInit" /\ pc = "failSoft"
  PROVE  wk[w].pc \in HoldPcs /\ Holds([wk[w] EXCEPT !.pc = pc])
  <1> DEFINE r == [wk[w] EXCEPT !.pc = pc]
  <1>1. r.pc = pc /\ r.p = wk[w].p /\ r.i = wk[w].i
    BY WorkerFacts DEF Worker
  <1>2. Holds(r)
    BY <1>1, WorkerFacts DEF Holds, CollectPcs, OrderPcs, BeforePcs, MoneyPcs
  <1> QED
    BY <1>2 DEF HoldPcs, CollectPcs, OrderPcs

\* An order in hand is not yet offered, so it counts for nothing.
LEMMA HeldOrder ==
  ASSUME LedgerInv, NEW w \in Workers, wk[w].pc \in OrderPcs
  PROVE  /\ wk[w].p \in PayIds /\ pay[wk[w].p].kind = "checkout"
         /\ wk[w].p \notin offered /\ wk[w].p \notin taken
         /\ applied[wk[w].p] = 0 /\ pay[wk[w].p].init # "completed"
         /\ pay[wk[w].p].settlements = 0
  BY WorkerFacts DEF Holds, HoldPcs, LedgerInv, Orders, Counted, TypeInv, TypeOK, PayRow

LEMMA PaymentStep ==
  ASSUME LedgerInv, TypeInv', NEW w \in Workers,
         \/ Initiate(w) \/ Accept(w) \/ Complete(w)
         \/ Reject(w) \/ RejectInit(w) \/ SaveOrder(w)
  PROVE  LedgerInv'
  <1>1. UNCHANGED <<sub, inv, taken, offered, applied>>
    BY DEF Initiate, Accept, Complete, Reject, RejectInit, SaveOrder, Others, history
  <1>2. wk[w].pc \in HoldPcs /\ pay[wk[w].p] \in PayRow
    BY WorkerFacts
    DEF Initiate, Accept, Complete, Reject, RejectInit, SaveOrder, At, HoldPcs, CollectPcs, OrderPcs
  <1>3. wk[w].pc \in CollectPcs => pay[wk[w].p].kind # "checkout"
    BY WorkerFacts DEF Holds, Kinds
  <1>4. CASE Initiate(w)
    <2> DEFINE row == [pay[wk[w].p] EXCEPT !.init = "pending"]
               pc == IF Kind(w) = "card" THEN "charge" ELSE "count"
    <2>1. wk[w].pc = "initiate" /\ pc \in {"charge", "count"}
      BY <1>4 DEF Initiate, At
    <2>2. /\ row.kind = pay[wk[w].p].kind /\ row.inv = pay[wk[w].p].inv
          /\ row.settlements = pay[wk[w].p].settlements
      BY <1>2 DEF PayRow
    <2>3. SavePayment(w, row) /\ Goto(w, pc) /\ wk[w].pc \in CollectPcs
      BY <1>4, <2>1 DEF Initiate, CollectPcs
    <2> HIDE DEF row, pc
    <2> QED
      BY <1>1, <1>3, <2>1, <2>2, <2>3, PaymentPcs, SavePaymentLedger
  <1>5. CASE Accept(w)
    <2> DEFINE row == [pay[wk[w].p] EXCEPT !.intent = "success"]
               pc == IF Kind(w) = "card" THEN "paid" ELSE "complete"
    <2>1. wk[w].pc = "accept" /\ pc \in {"paid", "complete"}
      BY <1>5 DEF Accept, At
    <2>2. /\ row.kind = pay[wk[w].p].kind /\ row.inv = pay[wk[w].p].inv
          /\ row.settlements = pay[wk[w].p].settlements
      BY <1>2 DEF PayRow
    <2>3. SavePayment(w, row) /\ Goto(w, pc) /\ wk[w].pc \in CollectPcs
      BY <1>5, <2>1 DEF Accept, CollectPcs
    <2> HIDE DEF row, pc
    <2> QED
      BY <1>1, <1>3, <2>1, <2>2, <2>3, PaymentPcs, SavePaymentLedger
  <1>6. CASE Complete(w)
    <2> DEFINE row == [pay[wk[w].p] EXCEPT !.init = "completed"]
    <2>1. wk[w].pc = "complete"
      BY <1>6 DEF Complete, At
    <2>2. /\ row.kind = pay[wk[w].p].kind /\ row.inv = pay[wk[w].p].inv
          /\ row.settlements = pay[wk[w].p].settlements
      BY <1>2 DEF PayRow
    <2>3. SavePayment(w, row) /\ Goto(w, "settle") /\ wk[w].pc \in CollectPcs
      BY <1>6, <2>1 DEF Complete, CollectPcs
    <2> HIDE DEF row
    <2> QED
      BY <1>1, <1>3, <2>1, <2>2, <2>3, PaymentPcs, SavePaymentLedger
  <1>7. CASE Reject(w)
    <2> DEFINE row == [pay[wk[w].p] EXCEPT !.intent = "failed"]
    <2>1. wk[w].pc = "reject"
      BY <1>7 DEF Reject, At
    <2>2. /\ row.kind = pay[wk[w].p].kind /\ row.inv = pay[wk[w].p].inv
          /\ row.settlements = pay[wk[w].p].settlements
      BY <1>2 DEF PayRow
    <2>3. PICK pc \in {"failInit", "failSoft"} :
            SavePayment(w, row) /\ Goto(w, pc) /\ wk[w].pc \in CollectPcs
      BY <1>7, <2>1 DEF Reject, AfterReject, CollectPcs
    <2> HIDE DEF row
    <2>4. Holds([wk[w] EXCEPT !.pc = pc])
      BY <2>1, PaymentPcs
    <2> QED
      BY <1>1, <1>2, <1>3, <2>2, <2>3, <2>4, SavePaymentLedger
  <1>9. CASE RejectInit(w)
    <2> DEFINE row == [pay[wk[w].p] EXCEPT !.init = "failed"]
    <2>1. wk[w].pc = "failInit"
      BY <1>9 DEF RejectInit, At
    <2>2. /\ row.kind = pay[wk[w].p].kind /\ row.inv = pay[wk[w].p].inv
          /\ row.settlements = pay[wk[w].p].settlements
      BY <1>2 DEF PayRow
    <2>3. SavePayment(w, row) /\ Goto(w, "failSoft") /\ wk[w].pc \in CollectPcs
      BY <1>9, <2>1 DEF RejectInit, CollectPcs
    <2> HIDE DEF row
    <2>4. Holds([wk[w] EXCEPT !.pc = "failSoft"])
      BY <2>1, PaymentPcs
    <2> QED
      BY <1>1, <1>2, <1>3, <2>2, <2>3, <2>4, SavePaymentLedger
  <1>8. CASE SaveOrder(w)
    <2> DEFINE row == [pay[wk[w].p] EXCEPT !.init = "pending"]
    <2>1. wk[w].pc = "saveOrder"
      BY <1>8 DEF SaveOrder, At
    <2>2. /\ row.kind = pay[wk[w].p].kind /\ row.inv = pay[wk[w].p].inv
          /\ row.settlements = pay[wk[w].p].settlements /\ row.init = "pending"
      BY <1>2 DEF PayRow
    <2>3. SavePayment(w, row) /\ Goto(w, "saveLink") /\ pay[wk[w].p].init # "completed"
      BY <1>8, <2>1, HeldOrder DEF SaveOrder, OrderPcs
    <2> HIDE DEF row
    <2> QED
      BY <1>1, <2>1, <2>2, <2>3, PaymentPcs, SavePaymentLedger
  <1> QED
    BY <1>4, <1>5, <1>6, <1>7, <1>8, <1>9

\* A refund changes the intent of its payment and nothing the ledger counts.
LEMMA RefundStep ==
  ASSUME LedgerInv, TypeInv', NEW w \in Workers, RefundAsk(w) \/ RefundCommit(w)
  PROVE  LedgerInv'
  <1>1. CASE RefundAsk(w)
    <2>1. UNCHANGED <<sub, inv, pay, taken, offered, applied>>
      BY <1>1 DEF RefundAsk, dbVars, Others, history
    <2>2. Goto(w, "refunded") \/ Return(w)
      BY <1>1 DEF RefundAsk
    <2>3. "refunded" \notin HoldPcs
      BY DEF HoldPcs, CollectPcs, OrderPcs
    <2> QED
      BY <2>1, <2>2, <2>3, PaidRows, LeaveStep, ReturnStep DEF LedgerInv
  <1>2. CASE RefundCommit(w)
    <2> DEFINE row == [pay[wk[w].p] EXCEPT !.intent = "refund"]
    <2>1. /\ pay' = [pay EXCEPT ![wk[w].p] = row]
          /\ Return(w) /\ UNCHANGED <<sub, taken, offered, applied>>
      BY <1>2 DEF RefundCommit, SavePayment, Others, history
    <2>2. \A i \in InvIds : inv'[i].st = "paid" => Backed(i)
      <3>1. [wk[w].inv EXCEPT !.st = "refunded"].st # "paid"
        BY WorkerFacts DEF InvRow
      <3> QED
        BY <1>2, <3>1, PaidRows DEF RefundCommit, LedgerInv, TypeInv, TypeOK
    <2>3. sub'.cycle = sub.cycle /\ sub'.cycle <= Cardinality(Credited)
      BY <2>1 DEF LedgerInv
    <2>4. CASE wk[w].p \notin PayIds
      <3>1. pay' = pay
        BY <2>1, <2>4 DEF LedgerInv, TypeInv, TypeOK
      <3> QED
        BY <2>1, <2>2, <2>3, <3>1, ReturnStep
    <2>5. CASE wk[w].p \in PayIds
      <3>1. /\ row.kind = pay[wk[w].p].kind /\ row.inv = pay[wk[w].p].inv
            /\ row.settlements = pay[wk[w].p].settlements /\ row.init = pay[wk[w].p].init
        BY <2>5 DEF LedgerInv, TypeInv, TypeOK, PayRow
      <3>2. wk'[w] = Idle /\ \A v \in Workers : v # w => wk'[v] = wk[v]
        BY <2>1 DEF Return, Becomes, LedgerInv, TypeInv, TypeOK
      <3>3. \A v \in Workers :
              /\ wk'[v].pc \in HoldPcs => wk[v].pc \in HoldPcs /\ wk'[v].p = wk[v].p
              /\ Holds(wk'[v]) /\ Copies(wk'[v])
        BY <3>2, IdleRow, WorkerFacts
      <3> HIDE DEF row
      <3> QED
        BY <2>1, <2>2, <2>3, <2>5, <3>1, <3>3, PaymentRowStep
    <2> QED
      BY <2>4, <2>5
  <1> QED
    BY <1>1, <1>2

LEMMA IgnoredErrorStep ==
  ASSUME LedgerInv, TypeInv', NEW w \in Workers, IgnoredError(w)
  PROVE  LedgerInv'
  <1>1. UNCHANGED <<sub, inv, taken, offered, applied>>
    BY DEF IgnoredError, dbVars, pspVars, history
  <1>2. wk[w].pc \in CollectPcs /\ wk[w].pc \in HoldPcs
    BY DEF IgnoredError, At, CollectPcs, HoldPcs
  <1>3. PICK pc : /\ Goto(w, pc)
                  /\ \/ wk[w].pc = "settle" /\ pc = "paid"
                     \/ wk[w].pc = "reject" /\ pc \in {"failInit", "failSoft"}
                     \/ wk[w].pc = "failInit" /\ pc = "failSoft"
    BY DEF IgnoredError, AfterReject, At
  <1>4. Holds([wk[w] EXCEPT !.pc = pc])
    BY <1>3, PaymentPcs
  <1>5. sub'.cycle <= Cardinality(Credited) /\ UNCHANGED pay
    BY <1>1 DEF IgnoredError, dbVars, LedgerInv
  <1> QED
    BY <1>1, <1>2, <1>3, <1>4, <1>5, PaidRows, GotoStep
-----------------------------------------------------------------------------
(* Steps that move money *)

\* Payments counted in a larger set are at least as many; one more is one more.
LEMMA PaymentSets ==
  ASSUME NEW S \in SUBSET PayIds, NEW T \in SUBSET S
  PROVE  /\ IsFiniteSet(S) /\ Cardinality(S) \in Nat /\ Cardinality(T) \in Nat
         /\ Cardinality(T) <= Cardinality(S)
         /\ \A p : p \notin S => Cardinality(S \cup {p}) = Cardinality(S) + 1
  <1>1. IsFiniteSet(PayIds)
    BY FS_Interval, BillingAssumption DEF PayIds
  <1>2. IsFiniteSet(S)
    BY <1>1, FS_Subset
  <1>3. IsFiniteSet(T) /\ Cardinality(T) <= Cardinality(S)
    BY <1>2, FS_Subset
  <1>4. Cardinality(S) \in Nat /\ Cardinality(T) \in Nat
    BY <1>2, <1>3, FS_CardinalityType
  <1>5. \A p : p \notin S => Cardinality(S \cup {p}) = Cardinality(S) + 1
    BY <1>2, FS_AddElement
  <1> QED
    BY <1>2, <1>3, <1>4, <1>5

\* A copy stays behind the money when more money comes.
LEMMA CopiesKept ==
  ASSUME LedgerInv, NEW r, Copies(r), r.sub \in SubRow,
         Credited \subseteq Credited', taken \subseteq taken', taken' \subseteq PayIds,
         \A q \in PayIds : pay'[q].inv = pay[q].inv
  PROVE  Copies(r)'
  <1>1. Credited \in SUBSET PayIds /\ Credited' \in SUBSET PayIds
    BY DEF Credited
  <1>2. /\ Cardinality(Credited) <= Cardinality(Credited')
        /\ Cardinality(Credited) \in Nat /\ Cardinality(Credited') \in Nat
    BY <1>1, PaymentSets
  <1>3. r.sub.cycle <= Cardinality(Credited)
    BY DEF Copies
  <1>4. r.sub.cycle \in Nat
    BY DEF SubRow
  <1>5. r.sub.cycle <= Cardinality(Credited')
    BY <1>2, <1>3, <1>4
  <1>6. taken \subseteq PayIds
    BY DEF LedgerInv, TypeInv, TypeOK
  <1>7. Backed(r.i) => Backed(r.i)'
    BY <1>6 DEF Backed
  <1> QED
    BY <1>5, <1>7 DEF Copies

\* A step that changes what the payment counts for that worker w collects.
LEMMA HeldStep ==
  ASSUME LedgerInv, TypeInv', NEW w \in Workers, wk[w].pc \in CollectPcs,
         \A v \in Workers : v # w => wk'[v] = wk[v],
         wk'[w].pc \in HoldPcs => wk'[w].p = wk[w].p,
         offered' = offered, taken \subseteq taken',
         \A q \in PayIds : /\ pay'[q].kind = pay[q].kind /\ pay'[q].inv = pay[q].inv
                           /\ applied'[q] >= applied[q],
         \A q \in PayIds : q # wk[w].p =>
           /\ pay'[q] = pay[q] /\ applied'[q] = applied[q]
           /\ q \in taken' => q \in taken,
         applied'[wk[w].p] <= 1, pay'[wk[w].p].settlements <= 1,
         applied'[wk[w].p] = 1 \/ pay'[wk[w].p].settlements = 1 => wk[w].p \in taken',
         (Holds(wk[w]) /\ Copies(wk[w]))',
         (sub.cycle <= Cardinality(Credited))',
         \A i \in InvIds : inv'[i].st = "paid" => Backed(i)'
  PROVE  LedgerInv'
  <1>1. wk[w].p \in PayIds /\ pay[wk[w].p].kind \in Kinds
    BY WorkerFacts DEF Holds, HoldPcs
  <1>2. applied \in [PayIds -> Nat] /\ applied' \in [PayIds -> Nat] /\ taken' \subseteq PayIds
    BY DEF LedgerInv, TypeInv, TypeOK
  <1>3. Credited \subseteq Credited'
    BY <1>2 DEF Credited
  <1>4. ASSUME NEW v \in Workers, v # w
        PROVE  (Holds(wk[v]) /\ Copies(wk[v]))'
    <2>1. wk[v].pc \in HoldPcs => wk[v].p # wk[w].p
      BY <1>4 DEF LedgerInv, Exclusive, HoldPcs
    <2>2. Holds(wk[v])'
      BY <1>4, <2>1, WorkerFacts DEF Holds, HoldPcs
    <2>3. Copies(wk[v])'
      <3>1. wk[v].sub \in SubRow /\ Copies(wk[v]) /\ wk'[v] = wk[v]
        BY <1>4, WorkerFacts
      <3> DEFINE r == wk[v]
      <3>2. Copies(r) /\ r.sub \in SubRow
        BY <3>1
      <3>3. r = wk'[v]
        BY <3>1
      <3> HIDE DEF r
      <3> QED
        BY <1>2, <1>3, <3>2, <3>3, CopiesKept DEF Copies, Backed
    <2> QED
      BY <2>2, <2>3
  <1>5. Exclusive'
    BY DEF LedgerInv, Exclusive, HoldPcs
  <1>6. (Unused /\ Counted /\ Orders)'
    <2>1. Unused'
      BY <1>1 DEF LedgerInv, Unused, Kinds
    <2>2. Counted'
      BY <1>1 DEF LedgerInv, Counted
    <2>3. Orders'
      BY <1>1 DEF LedgerInv, Orders, Kinds
    <2> QED
      BY <2>1, <2>2, <2>3
  <1>7. PaidBacked'
    BY DEF PaidBacked, Backed
  <1> QED
    BY <1>4, <1>5, <1>6, <1>7 DEF LedgerInv

LEMMA SettleStep ==
  ASSUME LedgerInv, TypeInv', NEW w \in Workers, Settle(w)
  PROVE  LedgerInv'
  <1> DEFINE row == [pay[wk[w].p] EXCEPT !.settlements = @ + 1]
             r == [wk[w] EXCEPT !.pc = "paid"]
  <1>1. wk[w].pc = "settle" /\ wk[w].pc \in CollectPcs /\ wk[w].pc \in HoldPcs
    BY DEF Settle, At, CollectPcs, HoldPcs
  <1>2. /\ wk[w].p \in PayIds /\ pay[wk[w].p] \in PayRow
        /\ pay[wk[w].p].settlements = 0 /\ applied[wk[w].p] = 0 /\ wk[w].p \in taken
        /\ Holds(wk[w]) /\ Copies(wk[w])
    BY <1>1, WorkerFacts DEF Holds, MoneyPcs
  <1>3. row.kind = pay[wk[w].p].kind /\ row.inv = pay[wk[w].p].inv /\ row.settlements = 1
    BY <1>2 DEF PayRow
  <1>4. /\ pay' = [pay EXCEPT ![wk[w].p] = row] /\ wk' = [wk EXCEPT ![w] = r]
        /\ UNCHANGED <<sub, inv, taken, offered, applied>>
    BY DEF Settle, SavePayment, Goto, Becomes, Others, history
  <1>5. r.pc = "paid" /\ r.p = wk[w].p /\ r.i = wk[w].i /\ r.sub = wk[w].sub /\ r.inv = wk[w].inv
    BY WorkerFacts DEF Worker
  <1> HIDE DEF row, r
  <1>6. wk'[w] = r /\ \A v \in Workers : v # w => wk'[v] = wk[v]
    BY <1>4 DEF LedgerInv, TypeInv, TypeOK
  <1>7. pay'[wk[w].p] = row /\ \A q \in PayIds : q # wk[w].p => pay'[q] = pay[q]
    BY <1>2, <1>4 DEF LedgerInv, TypeInv, TypeOK
  <1>8. Credited' = Credited /\ \A q \in PayIds : applied'[q] >= applied[q]
    BY <1>4 DEF Credited, LedgerInv, TypeInv, TypeOK
  <1>9. \A i : Backed(i) => Backed(i)'
    BY <1>3, <1>4, <1>7 DEF Backed, LedgerInv, TypeInv, TypeOK
  <1>10. Holds(wk[w])'
    BY <1>1, <1>2, <1>3, <1>4, <1>5, <1>6, <1>7
    DEF Holds, CollectPcs, OrderPcs, BeforePcs, MoneyPcs
  <1>11. Copies(wk[w])' /\ (sub.cycle <= Cardinality(Credited))'
    BY <1>2, <1>4, <1>5, <1>6, <1>8, <1>9 DEF Copies, LedgerInv
  <1>12. \A i \in InvIds : inv'[i].st = "paid" => Backed(i)'
    BY <1>4, <1>9, PaidRows
  <1> QED
    BY <1>1, <1>2, <1>3, <1>4, <1>5, <1>6, <1>7, <1>8, <1>10, <1>11, <1>12, HeldStep

\* The provider is asked to charge; it took the money if the worker learns so,
\* and may have taken it if not.
LEMMA ChargeStep ==
  ASSUME LedgerInv, TypeInv', NEW w \in Workers, Charge(w) \/ ChargeAnswerLost(w)
  PROVE  LedgerInv'
  <1>1. PICK pc \in {"accept", "reject"} :
          /\ wk' = [wk EXCEPT ![w] = [wk[w] EXCEPT !.pc = pc]]
          /\ taken' = taken \cup {wk[w].p} \/ (pc = "reject" /\ UNCHANGED taken)
    BY DEF Charge, ChargeAnswerLost, Goto, Becomes
  <1>2. UNCHANGED <<sub, inv, pay, offered, applied>>
    BY DEF Charge, ChargeAnswerLost, dbVars
  <1>3. wk[w].pc = "charge" /\ wk[w].pc \in CollectPcs /\ wk[w].pc \in HoldPcs
    BY DEF Charge, ChargeAnswerLost, At, CollectPcs, HoldPcs
  <1>4. /\ wk[w].p \in PayIds /\ pay[wk[w].p].settlements = 0 /\ applied[wk[w].p] = 0
        /\ Holds(wk[w]) /\ Copies(wk[w])
    BY <1>3, WorkerFacts DEF Holds, MoneyPcs
  <1> DEFINE r == [wk[w] EXCEPT !.pc = pc]
  <1>5. r.pc = pc /\ r.p = wk[w].p /\ r.i = wk[w].i /\ r.sub = wk[w].sub /\ r.inv = wk[w].inv
    BY WorkerFacts DEF Worker
  <1>6. wk'[w] = r /\ \A v \in Workers : v # w => wk'[v] = wk[v]
    BY <1>1 DEF LedgerInv, TypeInv, TypeOK
  <1> HIDE DEF r
  <1>7. Credited' = Credited /\ \A q \in PayIds : applied'[q] >= applied[q]
    BY <1>2 DEF Credited, LedgerInv, TypeInv, TypeOK
  <1>8. taken \subseteq taken' /\ \A i : Backed(i) => Backed(i)'
    BY <1>1, <1>2 DEF Backed
  <1>9. Holds(wk[w])'
    BY <1>1, <1>2, <1>3, <1>4, <1>5, <1>6
    DEF Holds, CollectPcs, OrderPcs, BeforePcs, MoneyPcs
  <1>10. Copies(wk[w])' /\ (sub.cycle <= Cardinality(Credited))'
    BY <1>2, <1>4, <1>5, <1>6, <1>7, <1>8 DEF Copies, LedgerInv
  <1>11. \A i \in InvIds : inv'[i].st = "paid" => Backed(i)'
    BY <1>2, <1>8, PaidRows
  <1> QED
    BY <1>1, <1>2, <1>3, <1>4, <1>5, <1>6, <1>7, <1>8, <1>9, <1>10, <1>11, HeldStep

\* The cycle moves on from the copy, which was behind the money, and the payment
\* is credited for the first time.
LEMMA AdvanceStep ==
  ASSUME LedgerInv, TypeInv', NEW w \in Workers, Advance(w)
  PROVE  LedgerInv'
  <1>1. wk[w].pc = "advance" /\ wk[w].pc \in CollectPcs /\ wk[w].pc \in HoldPcs
    BY DEF Advance, At, CollectPcs, HoldPcs
  <1>2. /\ wk[w].p \in PayIds /\ applied[wk[w].p] = 0 /\ wk[w].p \in taken
        /\ Copies(wk[w]) /\ wk[w].sub \in SubRow
    BY <1>1, WorkerFacts DEF Holds, MoneyPcs
  <1>3. /\ applied' = [applied EXCEPT ![wk[w].p] = 1] /\ wk' = [wk EXCEPT ![w] = Idle]
        /\ sub'.cycle = wk[w].sub.cycle + 1
        /\ UNCHANGED <<inv, pay, taken, offered>>
    BY <1>2 DEF Advance, SaveSub, Return, Becomes, SubRow
  <1>4. applied \in [PayIds -> Nat]
    BY DEF LedgerInv, TypeInv, TypeOK
  <1>5. Credited' = Credited \cup {wk[w].p} /\ wk[w].p \notin Credited
    BY <1>2, <1>3, <1>4 DEF Credited
  <1>6. Credited \in SUBSET PayIds /\ Credited' \in SUBSET PayIds
    BY DEF Credited
  <1>7. /\ Cardinality(Credited') = Cardinality(Credited) + 1
        /\ Cardinality(Credited) \in Nat /\ Cardinality(Credited') \in Nat
    BY <1>5, <1>6, PaymentSets
  <1>8. (sub.cycle <= Cardinality(Credited))'
    BY <1>2, <1>3, <1>7 DEF Copies, SubRow
  <1>9. wk'[w] = Idle /\ \A v \in Workers : v # w => wk'[v] = wk[v]
    BY <1>3 DEF LedgerInv, TypeInv, TypeOK
  <1>10. (Holds(wk[w]) /\ Copies(wk[w]))' /\ wk'[w].pc \notin HoldPcs
    BY <1>7, <1>9 DEF Holds, Copies, Idle, NoInvoice, HoldPcs, CollectPcs, OrderPcs
  <1>11. \A i \in InvIds : inv'[i].st = "paid" => Backed(i)'
    BY <1>3, PaidRows DEF Backed
  <1>12. /\ applied'[wk[w].p] = 1
         /\ \A q \in PayIds : /\ applied'[q] >= applied[q]
                              /\ q # wk[w].p => applied'[q] = applied[q]
    BY <1>2, <1>3, <1>4
  <1>13. pay[wk[w].p].settlements <= 1
    BY <1>2 DEF LedgerInv, Counted
  <1> QED
    BY <1>1, <1>2, <1>3, <1>8, <1>9, <1>10, <1>11, <1>12, <1>13, HeldStep

\* The link of an order is given out by the only worker that holds the order.
LEMMA SaveLinkStep ==
  ASSUME LedgerInv, TypeInv', NEW w \in Workers, SaveLink(w)
  PROVE  LedgerInv'
  <1> DEFINE row == [wk[w].inv EXCEPT !.link = wk[w].p]
  <1>1. wk[w].pc \in OrderPcs /\ wk[w].pc \in HoldPcs
    BY DEF SaveLink, At, OrderPcs, HoldPcs
  <1>2. wk[w].p \in PayIds /\ pay[wk[w].p].kind = "checkout" /\ Copies(wk[w])
    BY <1>1, HeldOrder, WorkerFacts
  <1>3. /\ inv' = [inv EXCEPT ![wk[w].i] = row] /\ offered' = offered \cup {wk[w].p}
        /\ wk' = [wk EXCEPT ![w] = Idle]
        /\ UNCHANGED <<sub, pay, taken, applied>>
    BY DEF SaveLink, Return, Becomes, history
  <1>4. row.st = wk[w].inv.st
    BY WorkerFacts DEF InvRow
  <1> HIDE DEF row
  <1>5. \A i \in InvIds : inv'[i].st = "paid" => Backed(i)
    BY <1>2, <1>3, <1>4, PaidRows DEF Copies, LedgerInv, TypeInv, TypeOK
  <1>6. Credited' = Credited
    BY <1>3 DEF Credited
  <1>7. \A v \in Workers : /\ v = w => wk'[v] = Idle
                           /\ v # w => wk'[v] = wk[v]
                           /\ v # w /\ wk[v].pc \in OrderPcs => wk[v].p # wk[w].p
    BY <1>1, <1>3 DEF LedgerInv, TypeInv, TypeOK, Exclusive, HoldPcs
  <1>8. ASSUME NEW v \in Workers
        PROVE  (Holds(wk[v]) /\ Copies(wk[v]))'
    <2>1. CASE v = w
      BY <1>3, <1>6, <1>7, <2>1, IdleRow DEF Holds, Copies, Idle, NoInvoice, CollectPcs, OrderPcs
    <2>2. CASE v # w
      BY <1>3, <1>6, <1>7, <2>2, WorkerFacts DEF Holds, Copies, Backed
    <2> QED
      BY <2>1, <2>2
  <1>9. Exclusive'
    BY <1>7, IdleRow DEF LedgerInv, Exclusive
  <1>10. (Unused /\ Counted /\ Orders)'
    BY <1>2, <1>3 DEF LedgerInv, Unused, Counted, Orders
  <1>11. PaidBacked' /\ (sub.cycle <= Cardinality(Credited))'
    BY <1>3, <1>5, <1>6 DEF LedgerInv, PaidBacked, Backed
  <1> QED
    BY <1>8, <1>9, <1>10, <1>11 DEF LedgerInv

LEMMA AbortStep ==
  ASSUME LedgerInv, TypeInv', NEW w \in Workers, Abort(w)
  PROVE  LedgerInv'
  <1>1. /\ UNCHANGED <<pay, taken, offered, applied>>
        /\ sub'.cycle <= Cardinality(Credited)
        /\ \A i \in InvIds : inv'[i].st = "paid" => Backed(i)
    BY PaidRows DEF Abort, dbVars, pspVars, history, LedgerInv
  <1> QED
    BY <1>1, ReturnStep DEF Abort
-----------------------------------------------------------------------------
(* What happens outside the workers *)

LEMMA PayStep ==
  ASSUME LedgerInv, TypeInv', NEW p \in PayIds, Pay(p)
  PROVE  LedgerInv'
  <1>1. /\ taken' = taken \cup {p} /\ p \in offered
        /\ UNCHANGED <<sub, inv, pay, offered, applied, wk>>
    BY DEF Pay, dbVars, history
  <1>2. pay[p].kind = "checkout"
    BY <1>1 DEF LedgerInv, Orders
  <1>3. Credited' = Credited /\ \A i : Backed(i) => Backed(i)'
    BY <1>1 DEF Credited, Backed
  <1>4. ASSUME NEW v \in Workers
        PROVE  (Holds(wk[v]) /\ Copies(wk[v]))'
    <2>1. wk[v].pc \in CollectPcs => wk[v].p # p
      BY <1>2, WorkerFacts DEF Holds, Kinds
    <2> QED
      BY <1>1, <1>3, <2>1, WorkerFacts DEF Holds, Copies
  <1>5. (Unused /\ Counted /\ Orders /\ Exclusive)'
    BY <1>1, <1>2 DEF LedgerInv, Unused, Counted, Orders, Exclusive
  <1>6. PaidBacked' /\ (sub.cycle <= Cardinality(Credited))'
    BY <1>1, <1>3 DEF LedgerInv, PaidBacked, Backed
  <1> QED
    BY <1>4, <1>5, <1>6 DEF LedgerInv

\* What changes neither payments nor invoices, nor moves the cycle.
LEMMA QuietStep ==
  ASSUME LedgerInv, TypeInv', UNCHANGED <<sub, inv, pay, offered, taken, applied, wk>>
  PROVE  LedgerInv'
  <1>1. Credited' = Credited
    BY DEF Credited
  <1>2. \A v \in Workers : (Holds(wk[v]) /\ Copies(wk[v]))'
    BY <1>1, WorkerFacts DEF Holds, Copies, Backed
  <1> QED
    BY <1>1, <1>2 DEF LedgerInv, Unused, Counted, Orders, Exclusive, PaidBacked

\* The order of a checkout is applied by the transaction that completes it.
LEMMA ApplyStep ==
  ASSUME LedgerInv, TypeInv', NEW p \in PayIds, ApplyOrder(p),
         p \in taken, pay[p].kind = "checkout", pay[p].init = "pending",
         UNCHANGED <<taken, offered, wk>>
  PROVE  LedgerInv'
  <1> DEFINE row == [pay[p] EXCEPT !.intent = "success", !.init = "completed",
                                   !.settlements = pay[p].settlements + 1]
             i == pay[p].inv
  <1>1. pay[p] \in PayRow /\ applied[p] = 0 /\ pay[p].settlements = 0 /\ p \in offered
    BY DEF LedgerInv, Orders, TypeInv, TypeOK
  <1>2. pay' = [pay EXCEPT ![p] = row] /\ sub'.cycle = sub.cycle + 1
        /\ inv' = [inv EXCEPT ![i] = [inv[i] EXCEPT !.st = "paid"]]
    BY DEF ApplyOrder
  <1>3. applied' = [applied EXCEPT ![p] = 1]
    BY <1>1 DEF ApplyOrder
  <1>4. row.kind = "checkout" /\ row.inv = i /\ row.init = "completed" /\ row.settlements = 1
    BY <1>1 DEF PayRow
  <1> HIDE DEF row
  <1>5. pay'[p] = row /\ \A q \in PayIds : q # p => pay'[q] = pay[q]
    BY <1>2 DEF LedgerInv, TypeInv, TypeOK
  <1>6. applied'[p] = 1 /\ \A q \in PayIds : q # p => applied'[q] = applied[q]
    BY <1>3 DEF LedgerInv, TypeInv, TypeOK
  <1>7. Credited' = Credited \cup {p} /\ p \notin Credited
    BY <1>1, <1>6 DEF Credited
  <1>8. Credited \in SUBSET PayIds /\ Credited' \in SUBSET PayIds
    BY DEF Credited
  <1>9. Cardinality(Credited') = Cardinality(Credited) + 1 /\ Cardinality(Credited) \in Nat
    BY <1>7, <1>8, PaymentSets
  <1>10. (sub.cycle <= Cardinality(Credited))'
    BY <1>2, <1>9 DEF LedgerInv, TypeInv, TypeOK, SubRow
  <1>11. \A j : Backed(j) => Backed(j)'
    BY <1>4, <1>5 DEF Backed, LedgerInv, TypeInv, TypeOK
  <1>12. PaidBacked'
    <2>1. Backed(i)'
      BY <1>4, <1>5 DEF Backed
    <2>2. \A j \in InvIds : inv'[j].st = "paid" => inv[j].st = "paid" \/ j = i
      BY <1>2 DEF LedgerInv, TypeInv, TypeOK
    <2> QED
      BY <1>11, <2>1, <2>2, PaidRows DEF PaidBacked, Backed
  <1>13. ASSUME NEW v \in Workers
         PROVE  (Holds(wk[v]) /\ Copies(wk[v]))'
    <2>1. wk[v].pc \in HoldPcs => wk[v].p # p
      BY <1>1, WorkerFacts DEF Holds, HoldPcs, Kinds
    <2>2. Holds(wk[v])'
      BY <1>5, <1>6, <2>1, WorkerFacts DEF Holds, HoldPcs
    <2>3. wk[v].sub.cycle \in Nat /\ Copies(wk[v])
      BY WorkerFacts DEF SubRow
    <2>4. Copies(wk[v])'
      BY <1>9, <1>11, <2>3 DEF Copies
    <2> QED
      BY <2>2, <2>4
  <1>14. (Unused /\ Counted /\ Orders /\ Exclusive)'
    BY <1>1, <1>4, <1>5, <1>6 DEF LedgerInv, Unused, Counted, Orders, Exclusive
  <1> QED
    BY <1>10, <1>12, <1>13, <1>14 DEF LedgerInv

LEMMA PaymentFailedStep ==
  ASSUME LedgerInv, TypeInv', NEW p \in PayIds, PaymentFailed(p)
  PROVE  LedgerInv'
  <1> DEFINE row == [pay[p] EXCEPT !.intent = "failed",
                       !.init = IF pay[p].kind = "checkout" THEN "failed" ELSE @]
             i == pay[p].inv
             bill == [inv[i] EXCEPT !.st = "failed", !.attempts = IF @ = 0 THEN 1 ELSE @]
  <1>1. /\ pay[p] \in PayRow /\ pay[p].init = "pending" /\ sub \in SubRow
        /\ \A j \in InvIds : inv[j] \in InvRow
    BY DEF PaymentFailed, LedgerInv, TypeInv, TypeOK
  <1>2. /\ row.kind = pay[p].kind /\ row.inv = pay[p].inv
        /\ row.settlements = pay[p].settlements /\ row.init # "completed"
    BY <1>1 DEF PayRow
  <1>3. /\ pay' = [pay EXCEPT ![p] = row] /\ inv' = [inv EXCEPT ![i] = bill]
        /\ UNCHANGED <<taken, offered, applied, wk>>
    BY DEF PaymentFailed, pspVars, history
  <1>4. sub'.cycle = sub.cycle
    BY <1>1 DEF PaymentFailed, SubRow
  <1>5. \A j \in InvIds : inv'[j].st = "paid" => inv[j].st = "paid"
    <2>1. i \in InvIds => bill.st = "failed"
      BY <1>1 DEF InvRow
    <2> HIDE DEF bill
    <2> QED
      BY <1>3, <2>1 DEF LedgerInv, TypeInv, TypeOK
  <1> HIDE DEF row, bill
  <1>6. \A v \in Workers :
          /\ wk'[v].pc \in HoldPcs => wk[v].pc \in HoldPcs /\ wk'[v].p = wk[v].p
          /\ Holds(wk'[v]) /\ Copies(wk'[v])
    BY <1>3, WorkerFacts
  <1> QED
    BY <1>1, <1>2, <1>3, <1>4, <1>5, <1>6, PaidRows, PaymentRowStep

LEMMA OutsideStep ==
  ASSUME LedgerInv, TypeInv', Outside
  PROVE  LedgerInv'
  <1>1. ASSUME NEW p \in PayIds, Pay(p) \/ PaymentFailed(p)
        PROVE  LedgerInv'
    BY <1>1, PayStep, PaymentFailedStep
  <1>2. ASSUME NEW p \in PayIds, Decline(p)
        PROVE  LedgerInv'
    BY <1>2, QuietStep DEF Decline, dbVars, history
  <1>3. ASSUME NEW p \in PayIds, PaymentSuccess(p)
        PROVE  LedgerInv'
    <2>1. UNCHANGED <<taken, offered, wk>>
      BY <1>3 DEF PaymentSuccess, pspVars
    <2>2. CASE UNCHANGED <<inv, sub, pay, applied>>
      BY <2>1, <2>2, QuietStep
    <2>3. CASE ApplyOrder(p)
      BY <1>3, <2>1, <2>3, ApplyStep DEF PaymentSuccess
    <2> QED
      BY <1>3, <2>2, <2>3 DEF PaymentSuccess
  <1>4. CASE CardUpdated
    BY <1>4, QuietStep DEF CardUpdated, pspVars, history
  <1> QED
    BY <1>1, <1>2, <1>3, <1>4 DEF Outside
-----------------------------------------------------------------------------
(* The invariant *)

LEMMA InitLedger == Init => LedgerInv
  <1> SUFFICES ASSUME Init PROVE LedgerInv
    OBVIOUS
  <1>1. TypeInv
    BY InitType
  <1>2. \A w \in Workers : wk[w] = Idle
    BY DEF Init
  <1>3. \A w \in Workers : Holds(wk[w]) /\ Copies(wk[w]) /\ wk[w].pc \notin HoldPcs
    BY <1>2, IdleRow
  <1>4. Unused /\ Counted /\ Orders
    BY DEF Init, NoPayment, Unused, Counted, Orders
  <1>5. Exclusive
    BY <1>3 DEF Exclusive
  <1>6. sub.cycle <= Cardinality(Credited)
    BY CreditedFinite DEF Init, FirstSub
  <1>7. PaidBacked
    BY DEF Init, PaidBacked, NewInv, NoInvoice
  <1> QED
    BY <1>1, <1>3, <1>4, <1>5, <1>6, <1>7 DEF LedgerInv

LEMMA LedgerStep ==
  ASSUME LedgerInv, [Next]_vars
  PROVE  LedgerInv'
  <1>1. TypeInv'
    BY TypeStep DEF LedgerInv
  <1>2. CASE Tick
    BY <1>1, <1>2, QuietStep DEF Tick, pspVars, history
  <1>3. CASE UNCHANGED vars
    BY <1>1, <1>3, QuietStep DEF vars
  <1>4. ASSUME NEW w \in Workers, LoadDue(w) \/ LoadUpcoming(w) \/ RequestStart(w) \/ Commit(w)
        PROVE  LedgerInv'
    BY <1>1, <1>4, LoadStep, CallsStep, CommitStep
  <1>5. ASSUME NEW w \in Workers, Step(w)
        PROVE  LedgerInv'
    BY <1>1, <1>5, EnsureStep, CreateStep, OpenStep, AttachStep, ChooseStep, IntentStep,
       CountStep, PaymentStep, ChargeStep, SettleStep, FailInvoiceStep,
       FailSubscriptionStep, MarkPaidStep, AdvanceStep, OrderStep, OfferStep,
       SaveLinkStep, ReadSubStep, RetryReopenStep, RetryUnpauseStep, LinkOpenStep,
       RefundStep
    DEF Step
  <1>6. ASSUME NEW w \in Workers, Fault(w)
        PROVE  LedgerInv'
    BY <1>1, <1>6, AbortStep, ChargeStep, IgnoredErrorStep DEF Fault
  <1>7. CASE Outside
    BY <1>1, <1>7, OutsideStep
  <1> QED
    BY <1>2, <1>3, <1>4, <1>5, <1>6, <1>7 DEF Next, Workers

LEMMA LedgerCorrect == Spec => []LedgerInv
  <1>1. LedgerInv /\ [Next]_vars => LedgerInv'
    BY LedgerStep
  <1> QED
    BY InitLedger, <1>1, PTL DEF Spec

\* However jobs, calls and webhooks interleave, repeat and fail, no payment
\* advances the billing cycle twice or is settled twice, or at all without being
\* taken; and a customer never has more billing cycles than payments were taken,
\* although every write of the subscription stores a copy that may be stale.
THEOREM MoneyConservedCorrect == Spec => []MoneyConserved
  <1>1. LedgerInv => AppliedOnce
    BY DEF LedgerInv, Counted, AppliedOnce
  <1>2. LedgerInv => SettledOnce
    BY DEF LedgerInv, Counted, SettledOnce
  <1>3. LedgerInv => NoFreeCycle
    <2> SUFFICES ASSUME LedgerInv PROVE NoFreeCycle
      OBVIOUS
    <2>1. Credited \subseteq taken
      BY DEF LedgerInv, Counted, Credited, TypeInv, TypeOK
    <2> QED
      BY <2>1 DEF LedgerInv, NoFreeCycle
  <1>4. LedgerInv => MoneyConserved
    BY <1>1, <1>2, <1>3 DEF MoneyConserved
  <1> QED
    BY LedgerCorrect, <1>4, PTL

\* A webhook that completes a checkout order credits and settles it in the same
\* step, and no other step does either.
THEOREM CheckoutAtomicCorrect == Spec => []CheckoutAtomic
  <1>1. LedgerInv => CheckoutAtomic
    BY DEF LedgerInv, Orders, CheckoutAtomic
  <1> QED
    BY LedgerCorrect, <1>1, PTL

\* No invoice is ever marked paid without money taken for that very invoice.
THEOREM PaidBackedCorrect == Spec => []PaidBacked
  <1>1. LedgerInv => PaidBacked
    BY DEF LedgerInv
  <1> QED
    BY LedgerCorrect, <1>1, PTL
-----------------------------------------------------------------------------
(* Billing implements PaymentLedger *)

LedgerNext == [Ledger!Next]_(Ledger!ledger)

Settlements(p) == pay[p].settlements

\* PaymentLedger counts with the same Cardinality.
LEMMA SameCount ==
  ASSUME NEW S
  PROVE  Ledger!Cardinality(S) = Cardinality(S)
  BY DEF Ledger!Cardinality, Cardinality

\* A step that takes, credits and settles nothing stores the subscription.
LEMMA StoreMaps ==
  ASSUME LedgerInv, LedgerInv', UNCHANGED <<taken, applied>>,
         \A p \in PayIds : Settlements(p)' = Settlements(p)
  PROVE  LedgerNext
  <1>1. Credited' = Credited /\ Ledger!Credited = Credited
    BY DEF Credited, Ledger!Credited
  <1>2. sub'.cycle \in Nat /\ sub'.cycle <= Cardinality(Credited)
    BY <1>1 DEF LedgerInv, TypeInv, TypeOK, SubRow
  <1>3. Cardinality(Credited) \in Nat
    BY CreditedFinite
  <1>4. sub'.cycle \in 0 .. Ledger!Cardinality(Ledger!Credited)
    BY <1>1, <1>2, <1>3, SameCount
  <1>5. [p \in PayIds |-> pay'[p].settlements] = [p \in PayIds |-> pay[p].settlements]
    BY DEF Settlements
  <1>6. Ledger!Store
    BY <1>4, <1>5 DEF Ledger!Store
  <1>7. Ledger!Next
    BY <1>6, Zenon DEF Ledger!Next
  <1> QED
    BY <1>7 DEF LedgerNext

\* The money of one payment is taken.
LEMMA TakeMaps ==
  ASSUME LedgerInv, NEW p \in PayIds, p \notin taken,
         taken' = taken \cup {p}, UNCHANGED <<applied, sub, pay>>
  PROVE  LedgerNext
  BY DEF LedgerNext, Ledger!Next, Ledger!Take

LEMMA ChargeMaps ==
  ASSUME LedgerInv, LedgerInv', NEW w \in Workers, Charge(w) \/ ChargeAnswerLost(w)
  PROVE  LedgerNext
  <1>1. UNCHANGED <<sub, pay, applied>> /\ wk[w].pc = "charge"
    BY DEF Charge, ChargeAnswerLost, dbVars, At
  <1>2. wk[w].p \in PayIds /\ wk[w].p \notin taken
    BY <1>1, WorkerFacts DEF Holds, HoldPcs, CollectPcs, BeforePcs
  <1>3. CASE taken' = taken \cup {wk[w].p}
    BY <1>1, <1>2, <1>3, TakeMaps
  <1>4. CASE UNCHANGED taken
    BY <1>1, <1>4, StoreMaps DEF Settlements
  <1> QED
    BY <1>3, <1>4 DEF Charge, ChargeAnswerLost

LEMMA SettleMaps ==
  ASSUME LedgerInv, NEW w \in Workers, Settle(w)
  PROVE  LedgerNext
  <1>0. wk[w].pc = "settle"
    BY DEF Settle, At
  <1> PICK p \in PayIds : p = wk[w].p
    BY <1>0, WorkerFacts DEF HoldPcs, CollectPcs
  <1> DEFINE row == [pay[p] EXCEPT !.settlements = @ + 1]
  <1>1. UNCHANGED <<sub, taken, applied>>
        /\ pay' = [pay EXCEPT ![p] = row]
    BY DEF Settle, Others, history, SavePayment
  <1>2. p \in taken /\ pay[p] \in PayRow /\ pay[p].settlements = 0
    BY <1>0, WorkerFacts DEF Holds, HoldPcs, CollectPcs, MoneyPcs
  <1>3. row.settlements = 1
    BY <1>2 DEF PayRow
  <1> HIDE DEF row
  <1>4. pay'[p] = row /\ \A q \in PayIds : q # p => pay'[q] = pay[q]
    BY <1>1, <1>2 DEF LedgerInv, TypeInv, TypeOK
  <1> DEFINE before == [q \in PayIds |-> pay[q].settlements]
             after == [q \in PayIds |-> pay'[q].settlements]
  <1>5. before[p] = 0 /\ after = [before EXCEPT ![p] = 1]
    BY <1>2, <1>3, <1>4
  <1>6. Ledger!SettleOnly(p)
    <2>1. Ledger!Settle(p)
      BY <1>2, <1>5 DEF Ledger!Settle
    <2> QED
      BY <1>1, <2>1 DEF Ledger!SettleOnly
  <1>7. Ledger!Next
    BY <1>6, Zenon DEF Ledger!Next
  <1> QED
    BY <1>7 DEF LedgerNext

\* A payment is credited for the first time, and may be settled with it.
LEMMA CreditMaps ==
  ASSUME LedgerInv, LedgerInv', NEW p \in PayIds, p \in taken, UNCHANGED taken,
         applied[p] = 0, applied' = [applied EXCEPT ![p] = 1],
         \A q \in PayIds : q # p => Settlements(q)' = Settlements(q),
         \/ Settlements(p)' = Settlements(p)
         \/ Settlements(p) = 0 /\ Settlements(p)' = 1
  PROVE  LedgerNext
  <1>1. Credited' = Credited \cup {p} /\ p \notin Credited /\ Ledger!Credited = Credited
    BY DEF Credited, Ledger!Credited, LedgerInv, TypeInv, TypeOK
  <1>2. Credited \in SUBSET PayIds
    BY DEF Credited
  <1>3. Cardinality(Credited') = Cardinality(Credited) + 1 /\ Cardinality(Credited) \in Nat
    BY <1>1, <1>2, PaymentSets
  <1>4. sub'.cycle \in Nat /\ sub'.cycle <= Cardinality(Credited')
    BY DEF LedgerInv, TypeInv, TypeOK, SubRow
  <1>5. sub'.cycle \in 0 .. Ledger!Cardinality(Ledger!Credited) + 1
    BY <1>1, <1>3, <1>4, SameCount
  <1>6. \/ [q \in PayIds |-> pay'[q].settlements] = [q \in PayIds |-> pay[q].settlements]
        \/ /\ pay[p].settlements = 0
           /\ [q \in PayIds |-> pay'[q].settlements]
                = [[q \in PayIds |-> pay[q].settlements] EXCEPT ![p] = 1]
    BY DEF Settlements
  <1>7. applied[p] = 0 /\ UNCHANGED taken /\ applied' = [applied EXCEPT ![p] = 1]
    OBVIOUS
  <1> DEFINE before == [q \in PayIds |-> pay[q].settlements]
             after == [q \in PayIds |-> pay'[q].settlements]
  <1>8. before[p] = pay[p].settlements
    OBVIOUS
  <1>9. \/ after = before
        \/ before[p] = 0 /\ after = [before EXCEPT ![p] = 1]
    BY <1>6
  <1>10. \/ Ledger!Settle(p)
         \/ [q \in PayIds |-> pay'[q].settlements] = [q \in PayIds |-> pay[q].settlements]
    BY <1>9 DEF Ledger!Settle
  <1>11. Ledger!Credit(p)
    BY <1>5, <1>7, <1>10, Zenon DEF Ledger!Credit
  <1>12. Ledger!Next
    BY <1>11, Zenon DEF Ledger!Next
  <1> QED
    BY <1>12 DEF LedgerNext

LEMMA AdvanceMaps ==
  ASSUME LedgerInv, LedgerInv', NEW w \in Workers, Advance(w)
  PROVE  LedgerNext
  <1>1. wk[w].pc = "advance" /\ UNCHANGED <<pay, taken>>
        /\ applied' = [applied EXCEPT ![wk[w].p] = applied[wk[w].p] + 1]
    BY DEF Advance, SaveSub, At
  <1>2. wk[w].p \in PayIds /\ wk[w].p \in taken /\ applied[wk[w].p] = 0
    BY <1>1, WorkerFacts DEF Holds, HoldPcs, CollectPcs, MoneyPcs
  <1>3. applied' = [applied EXCEPT ![wk[w].p] = 1]
    BY <1>1, <1>2
  <1> QED
    BY <1>1, <1>2, <1>3, CreditMaps DEF Settlements

LEMMA SuccessMaps ==
  ASSUME LedgerInv, LedgerInv', NEW p \in PayIds, PaymentSuccess(p)
  PROVE  LedgerNext
  <1>1. UNCHANGED taken /\ p \in taken
    BY DEF PaymentSuccess, pspVars
  <1>2. CASE UNCHANGED <<inv, sub, pay, applied>>
    BY <1>1, <1>2, StoreMaps DEF Settlements
  <1>3. CASE ApplyOrder(p)
    <2> DEFINE row == [pay[p] EXCEPT !.intent = "success", !.init = "completed",
                                     !.settlements = pay[p].settlements + 1]
    <2>1. applied[p] = 0 /\ pay[p].settlements = 0 /\ pay[p] \in PayRow
      BY DEF PaymentSuccess, LedgerInv, Orders, TypeInv, TypeOK
    <2>2. applied' = [applied EXCEPT ![p] = 1] /\ pay' = [pay EXCEPT ![p] = row]
      BY <1>3, <2>1 DEF ApplyOrder
    <2>3. row.settlements = 1
      BY <2>1 DEF PayRow
    <2> HIDE DEF row
    <2>4. pay'[p] = row /\ \A q \in PayIds : q # p => pay'[q] = pay[q]
      BY <2>2 DEF LedgerInv, TypeInv, TypeOK
    <2> QED
      BY <1>1, <2>1, <2>2, <2>3, <2>4, CreditMaps DEF Settlements
  <1> QED
    BY <1>2, <1>3 DEF PaymentSuccess

LEMMA PayMaps ==
  ASSUME LedgerInv, NEW p \in PayIds, Pay(p)
  PROVE  LedgerNext
  BY TakeMaps DEF Pay, dbVars, history

\* A payment whose rows are written outside of Settle and ApplyOrder keeps its
\* settlements.
LEMMA RowMaps ==
  ASSUME LedgerInv, LedgerInv', NEW p \in PayIds, NEW row, pay' = [pay EXCEPT ![p] = row],
         row.settlements = pay[p].settlements, UNCHANGED <<taken, applied>>
  PROVE  LedgerNext
  <1>1. \A q \in PayIds : Settlements(q)' = Settlements(q)
    BY DEF Settlements, LedgerInv, TypeInv, TypeOK
  <1> QED
    BY <1>1, StoreMaps

LEMMA ReferenceMaps ==
  ASSUME LedgerInv, LedgerInv', NEW w \in Workers, Intent(w) \/ Order(w)
  PROVE  LedgerNext
  <1>1. ASSUME NEW p \in PayIds, NEW row, Fresh(p), pay' = [pay EXCEPT ![p] = row],
               row.settlements = 0
        PROVE  LedgerNext
    <2>1. pay[p].settlements = 0 /\ UNCHANGED <<taken, applied>>
      BY <1>1 DEF Fresh, LedgerInv, Unused, Intent, Order, Others, history
    <2> QED
      BY <1>1, <2>1, RowMaps
  <1>2. \A k : [NoPayment EXCEPT !.kind = k, !.inv = wk[w].i,
                                 !.intent = "pending"].settlements = 0
    BY DEF NoPayment
  <1>3. [NoPayment EXCEPT !.kind = "checkout", !.inv = wk[w].i,
                          !.init = "pending"].settlements = 0
    BY DEF NoPayment
  <1>4. CASE Intent(w)
    <2> DEFINE row == [NoPayment EXCEPT !.kind = Kind(w), !.inv = wk[w].i,
                                        !.intent = "pending"]
    <2>1. row.settlements = 0
      BY <1>2
    <2>2. PICK p \in PayIds : Fresh(p) /\ pay' = [pay EXCEPT ![p] = row]
      BY <1>4 DEF Intent
    <2> HIDE DEF row
    <2> QED
      BY <1>1, <2>1, <2>2
  <1>5. CASE Order(w)
    <2> DEFINE row == [NoPayment EXCEPT !.kind = "checkout", !.inv = wk[w].i,
                                        !.init = "pending"]
    <2>1. row.settlements = 0
      BY <1>3
    <2>2. PICK p \in PayIds : Fresh(p) /\ pay' = [pay EXCEPT ![p] = row]
      BY <1>5 DEF Order
    <2> HIDE DEF row
    <2> QED
      BY <1>1, <2>1, <2>2
  <1> QED
    BY <1>4, <1>5

LEMMA PaymentMaps ==
  ASSUME LedgerInv, LedgerInv', NEW w \in Workers,
         \/ Initiate(w) \/ Accept(w) \/ Complete(w) \/ Reject(w) \/ RejectInit(w)
         \/ SaveOrder(w)
  PROVE  LedgerNext
  <1>1. UNCHANGED <<taken, applied>>
    BY DEF Initiate, Accept, Complete, Reject, RejectInit, SaveOrder, Others, history
  <1>2. wk[w].p \in PayIds /\ pay[wk[w].p] \in PayRow
    BY WorkerFacts
    DEF Initiate, Accept, Complete, Reject, RejectInit, SaveOrder, At,
        HoldPcs, CollectPcs, OrderPcs
  <1>3. ASSUME NEW a, NEW b, SavePayment(w, [pay[wk[w].p] EXCEPT !.intent = a, !.init = b])
        PROVE  LedgerNext
    <2> DEFINE row == [pay[wk[w].p] EXCEPT !.intent = a, !.init = b]
    <2>1. row.settlements = pay[wk[w].p].settlements
      BY <1>2 DEF PayRow
    <2>2. pay' = [pay EXCEPT ![wk[w].p] = row]
      BY <1>3 DEF SavePayment
    <2> HIDE DEF row
    <2> QED
      BY <1>1, <1>2, <2>1, <2>2, RowMaps
  <1>4. /\ \A a : [pay[wk[w].p] EXCEPT !.intent = a]
                    = [pay[wk[w].p] EXCEPT !.intent = a, !.init = pay[wk[w].p].init]
        /\ \A b : [pay[wk[w].p] EXCEPT !.init = b]
                    = [pay[wk[w].p] EXCEPT !.intent = pay[wk[w].p].intent, !.init = b]
    BY <1>2 DEF PayRow
  <1>5. ASSUME NEW a, SavePayment(w, [pay[wk[w].p] EXCEPT !.intent = a])
        PROVE  LedgerNext
    BY <1>3, <1>4, <1>5
  <1>6. ASSUME NEW b, SavePayment(w, [pay[wk[w].p] EXCEPT !.init = b])
        PROVE  LedgerNext
    BY <1>3, <1>4, <1>6
  <1> QED
    BY <1>5, <1>6 DEF Initiate, Accept, Complete, Reject, RejectInit, SaveOrder

LEMMA RefundMaps ==
  ASSUME LedgerInv, LedgerInv', NEW w \in Workers, RefundCommit(w)
  PROVE  LedgerNext
  <1> DEFINE row == [pay[wk[w].p] EXCEPT !.intent = "refund"]
  <1>1. pay' = [pay EXCEPT ![wk[w].p] = row] /\ UNCHANGED <<taken, applied>>
    BY DEF RefundCommit, SavePayment, Others, history
  <1>2. wk[w].p \in PayIds => row.settlements = pay[wk[w].p].settlements
    BY DEF LedgerInv, TypeInv, TypeOK, PayRow
  <1>3. wk[w].p \notin PayIds => pay' = pay
    BY <1>1 DEF LedgerInv, TypeInv, TypeOK
  <1> HIDE DEF row
  <1> QED
    BY <1>1, <1>2, <1>3, RowMaps, StoreMaps DEF Settlements

LEMMA PaymentFailedMaps ==
  ASSUME LedgerInv, LedgerInv', NEW p \in PayIds, PaymentFailed(p)
  PROVE  LedgerNext
  <1> DEFINE row == [pay[p] EXCEPT !.intent = "failed",
                       !.init = IF pay[p].kind = "checkout" THEN "failed" ELSE @]
  <1>1. pay' = [pay EXCEPT ![p] = row] /\ UNCHANGED <<taken, applied>>
    BY DEF PaymentFailed, pspVars, history
  <1>2. row.settlements = pay[p].settlements
    BY DEF LedgerInv, TypeInv, TypeOK, PayRow
  <1> HIDE DEF row
  <1> QED
    BY <1>1, <1>2, RowMaps

\* What leaves the rows of payments alone.
LEMMA QuietMaps ==
  ASSUME LedgerInv, LedgerInv', UNCHANGED <<pay, taken, applied>>
  PROVE  LedgerNext
  BY StoreMaps DEF Settlements

LEMMA WorkerMaps ==
  ASSUME LedgerInv, LedgerInv', NEW w \in Workers, Step(w) \/ Commit(w) \/ Fault(w)
  PROVE  LedgerNext
  <1>1. CASE \/ Ensure(w) \/ Create(w) \/ Open(w) \/ Attach(w) \/ FindSource(w) \/ Verify(w)
             \/ Count(w) \/ FailInvoice(w) \/ MarkPaid(w)
             \/ Offer(w) \/ ReadSub(w) \/ RetryReopen(w) \/ RetryUnpause(w) \/ LinkOpen(w)
             \/ RefundAsk(w)
    BY <1>1, QuietMaps
    DEF Ensure, Create, Open, Attach, FindSource, Verify, Count, FailInvoice, MarkPaid,
        Offer, ReadSub, RetryReopen, RetryUnpause, LinkOpen, RefundAsk, SaveInvoice, dbVars, Others, history
  <1>2. CASE FailSubscription(w) \/ SaveLink(w) \/ Abort(w) \/ IgnoredError(w) \/ Commit(w)
    BY <1>2, QuietMaps
    DEF FailSubscription, SaveSub, SaveLink, Abort, IgnoredError, Commit, CancelCommit,
        DisableFind, DisableCommit,
        DropMandate, Store, dbVars, pspVars, history
  <1> QED
    BY <1>1, <1>2, ChargeMaps, SettleMaps, AdvanceMaps, ReferenceMaps, PaymentMaps, RefundMaps
    DEF Step, Fault

LEMMA StepMaps ==
  ASSUME LedgerInv, LedgerInv', [Next]_vars
  PROVE  LedgerNext
  <1>1. CASE Tick \/ UNCHANGED vars
    BY <1>1, QuietMaps DEF Tick, vars, pspVars, history
  <1>2. ASSUME NEW w \in Workers, LoadDue(w) \/ LoadUpcoming(w) \/ RequestStart(w)
        PROVE  LedgerNext
    BY <1>2, QuietMaps
    DEF LoadDue, LoadUpcoming, RequestStart, RetryRead, LinkRead, RefundRead, CancelRead, DisableRead,
        SwitchRead, MandateRead, StartRequest, StartCall, dbVars, Others, pspVars, history
  <1>3. CASE Outside
    BY <1>3, PayMaps, SuccessMaps, PaymentFailedMaps, QuietMaps
    DEF Outside, Decline, CardUpdated, dbVars, pspVars, history
  <1> QED
    BY <1>1, <1>2, <1>3, WorkerMaps DEF Next, Workers

LEMMA InitMaps == Init => Ledger!Init
  BY DEF Init, Ledger!Init, NoPayment, FirstSub

\* The billing jobs, calls and webhooks, over rows they share without locks,
\* implement the ledger: money is taken, credited and settled only as it allows.
THEOREM LedgerImplemented == Spec => LedgerKept
  <1>1. LedgerInv /\ LedgerInv' /\ [Next]_vars => [Ledger!Next]_(Ledger!ledger)
    BY StepMaps DEF LedgerNext
  <1> QED
    BY InitMaps, LedgerCorrect, <1>1, PTL DEF Spec, LedgerKept, Ledger!Spec
-----------------------------------------------------------------------------
(* The charges of one replica that is never interrupted: PlanInv says what *)
(* each place of the job knows of the charges made before, ClosedInv what  *)
(* a closed invoice says of the subscription.                              *)

\* One replica of the billing job, no API call, and no interruption.
Undisturbed == SoleReplica /\ Requests = {} /\ MaxAborts = 0

\* The job has an invoice in hand: before the decision to collect, from there to
\* the charge, from the charge to what is stored of it, and at the last writes.
ReadyPcs == {"open", "attach"}
ChargePcs == {"source", "verify", "intent", "count", "initiate", "charge"}
AskedPcs == {"accept", "complete", "settle", "reject", "failInit", "paid", "failSoft"}
ClosedPcs == {"failHard", "pastDue", "pause", "advance"}
InHandPcs == ReadyPcs \cup ChargePcs \cup AskedPcs \cup ClosedPcs

\* At n the 24 hours since a charge at t are over.
Rested(t, n) == n >= t + RetryDelay \/ n >= MaxTime

ChargedOn(i) == {p \in PayIds : chargedAt[p] # NoTime /\ pay[p].inv = i}

\* An invoice row that knows of charge p: it is counted, and the next is due later.
Rests(row, p) == /\ row.attempts >= 1
                 /\ row.next # NoTime => Rested(chargedAt[p], row.next)

\* The attempt is counted: before the initiation of a card, after that of a debit.
HasCounted(k) == \/ k.pc \in (AskedPcs \ {"failSoft"}) \cup {"charge"}
                 \/ k.pc = "initiate" /\ k.sub.src # "bank"

\* What row k of the billing job says: its copies agree with the cycle, every
\* charge made before is known to its copy of the invoice, and has rested.
Job(k) ==
    /\ k.pc \in {"idle", "ensure", "create"} \cup InHandPcs
    /\ k.pc # "idle" => /\ k.want = "open" /\ k.sub.cycle = sub.cycle
                        /\ k.sub.src = sub.src /\ sub.src # "none"
    /\ k.pc \in InHandPcs => /\ k.i \in InvIds /\ k.inv.st # "none" /\ k.inv.due = sub.cycle
                             /\ inv[k.i].st # "none" /\ inv[k.i].due = sub.cycle
    /\ k.pc \in BeforePcs => chargedAt[k.p] = NoTime
    /\ k.pc \in ReadyPcs \cup ChargePcs => \A p \in ChargedOn(k.i) : Rests(k.inv, p)
    /\ k.pc \in ChargePcs => \A p \in ChargedOn(k.i) : Rested(chargedAt[p], now)
    /\ HasCounted(k) => k.inv.attempts >= 1
    /\ k.pc \in AskedPcs /\ ChargedOn(k.i) # {} => k.inv.attempts >= 1

\* A drafting job never collects.
Drafter(k) == /\ k.pc \in {"idle", "ensure", "create"}
              /\ k.pc # "idle" => k.want = "draft"

\* A charge is known to its invoice, or the job still has it in flight.
Done(p) == \/ inv[pay[p].inv].st \in {"paid", "failed"}
           \/ Rests(inv[pay[p].inv], p)
InFlight(p) == \E d \in DueJobs : /\ wk[d].pc \in AskedPcs
                                  /\ wk[d].p = p /\ wk[d].i = pay[p].inv

\* Every charge is done or in flight, and its money is of a cycle that is over,
\* or about to be.
ChargeRows ==
    \A p \in PayIds :
      /\ pay[p].kind # "none" => /\ pay[p].kind # "checkout" /\ pay[p].inv \in InvIds
                                 /\ inv[pay[p].inv].st # "none"
      /\ p \in refused => sub.src # "none"
      /\ chargedAt[p] # NoTime => /\ pay[p].kind # "none" /\ chargedAt[p] <= now
                                  /\ Done(p) \/ InFlight(p)
      /\ p \in taken => \/ DueOf(p) < sub.cycle
                        \/ \E d \in DueJobs : wk[d].pc \in MoneyPcs /\ wk[d].p = p

PlanInv ==
    /\ aborts = 0 /\ offered = {}
    /\ sub.src = "none" => sub.status \notin {"active", "past_due"}
    /\ \A d \in DueJobs : Job(wk[d])
    /\ \A u \in UpcomingJobs : Drafter(wk[u])
    /\ ChargeRows
    /\ ChargesAsPlanned

\* No decline is reported by webhook: only the job itself fails an invoice.
Quietly == Undisturbed /\ "failed" \notin Events

\* The job works on the current subscription and an open invoice; an invoice
\* that is failed or paid is of a cycle that is over, or the job is at the write
\* that ends it.
ClosedInv ==
    /\ sub.status # "canceled" /\ sub.src \in FirstSources
    /\ sub.src = "card" => source["card"] = "active"
    /\ \A d \in DueJobs : wk[d].pc # "idle" =>
         /\ wk[d].sub = sub /\ sub.status \in {"active", "past_due"}
         /\ wk[d].pc \in {"failHard", "verify"} => sub.src = "bank"
         /\ wk[d].pc \in InHandPcs \ {"pause", "advance"} => wk[d].inv.st \in {"draft", "open"}
    /\ \A u \in UpcomingJobs : wk[u].sub.cycle <= sub.cycle
    /\ \A i \in InvIds :
         /\ inv[i].st # "refunded" /\ inv[i].due <= sub.cycle
         /\ inv[i].st = "failed" =>
              /\ ~AllowRetries \/ sub.src = "bank" \/ inv[i].attempts >= MaxAttempts
              /\ \/ inv[i].due < sub.cycle \/ sub.status = "paused"
                 \/ \E d \in DueJobs : wk[d].pc = "pause"
         /\ inv[i].st = "paid" =>
              inv[i].due < sub.cycle \/ \E d \in DueJobs : wk[d].pc = "advance"

\* No other worker moves, and none is a request.
LEMMA OnlyJob ==
  ASSUME Undisturbed, LedgerInv, NEW d \in DueJobs, NEW row, wk' = [wk EXCEPT ![d] = row]
  PROVE  /\ wk'[d] = row /\ d \in Workers /\ d \notin UpcomingJobs
         /\ \A e \in DueJobs : e = d
         /\ \A u \in UpcomingJobs : wk'[u] = wk[u]
         /\ Workers = DueJobs \cup UpcomingJobs
  BY BillingAssumption DEF Undisturbed, SoleReplica, LedgerInv, TypeInv, TypeOK, Workers


LEMMA OnlyOne ==
  ASSUME Undisturbed, NEW d \in DueJobs, NEW e \in DueJobs
  PROVE  e = d
  BY DEF Undisturbed, SoleReplica

\* The payments keep their invoices and the charges their times; a new payment
\* has an invoice.
SameCharges ==
    /\ UNCHANGED <<taken, refused, offered, chargedAt, aborts>>
    /\ \A p \in PayIds :
         IF pay[p].kind # "none" THEN pay'[p].kind = pay[p].kind /\ pay'[p].inv = pay[p].inv
         ELSE pay'[p].kind # "none" => /\ pay'[p].kind # "checkout"
                                       /\ pay'[p].inv \in InvIds
                                       /\ inv'[pay'[p].inv].st # "none"
    /\ \A i \in InvIds : inv[i].st # "none" => inv'[i].st # "none" /\ inv'[i].due = inv[i].due

LEMMA PlanKept ==
  ASSUME LedgerInv, PlanInv, SameCharges, now \in Nat, now' \in Nat, now' >= now,
         sub'.cycle = sub.cycle, sub'.src = sub.src,
         sub.src = "none" => sub'.status \in {sub.status, "attention", "paused"},
         \A d \in DueJobs : Job(wk[d])',
         \A u \in UpcomingJobs : Drafter(wk'[u]),
         \A p \in PayIds : chargedAt[p] # NoTime => (Done(p) \/ InFlight(p))',
         \A d \in DueJobs : wk[d].pc \in MoneyPcs => wk'[d].pc \in MoneyPcs /\ wk'[d].p = wk[d].p
  PROVE  PlanInv'
  <1>1. \A p \in PayIds : pay[p].kind # "none" => DueOf(p)' = DueOf(p)
    BY DEF SameCharges, PlanInv, ChargeRows, DueOf
  <1>2. \A p \in taken : pay[p].kind # "none" /\ p \in PayIds
    BY DEF LedgerInv, Unused, TypeInv, TypeOK
  <1>3. ChargeRows'
    <2> SUFFICES ASSUME NEW p \in PayIds
                 PROVE  /\ pay'[p].kind # "none" => /\ pay'[p].kind # "checkout"
                                                    /\ pay'[p].inv \in InvIds
                                                    /\ inv'[pay'[p].inv].st # "none"
                        /\ p \in refused' => sub'.src # "none"
                        /\ chargedAt'[p] # NoTime => /\ pay'[p].kind # "none"
                                                     /\ chargedAt'[p] <= now'
                                                     /\ (Done(p) \/ InFlight(p))'
                        /\ p \in taken' =>
                             \/ DueOf(p)' < sub'.cycle
                             \/ \E d \in DueJobs : wk'[d].pc \in MoneyPcs /\ wk'[d].p = p
      BY DEF ChargeRows
    <2>1. /\ pay[p].kind # "none" => /\ pay[p].kind # "checkout"
                                     /\ pay[p].inv \in InvIds
                                     /\ inv[pay[p].inv].st # "none"
          /\ p \in refused => sub.src # "none"
          /\ chargedAt[p] # NoTime => pay[p].kind # "none" /\ chargedAt[p] <= now
          /\ p \in taken => \/ DueOf(p) < sub.cycle
                            \/ \E d \in DueJobs : wk[d].pc \in MoneyPcs /\ wk[d].p = p
      BY DEF PlanInv, ChargeRows
    <2>2. chargedAt[p] \in Nat \cup {NoTime}
      BY DEF LedgerInv, TypeInv, TypeOK
    <2>3. p \in taken => DueOf(p)' = DueOf(p)
      BY <1>1, <1>2
    <2>4. chargedAt[p] # NoTime => chargedAt[p] <= now'
      BY <2>1, <2>2 DEF NoTime
    <2> QED
      BY <2>1, <2>3, <2>4 DEF SameCharges
  <1>4. CollectedOnce'
    BY <1>1, <1>2 DEF SameCharges, PlanInv, ChargesAsPlanned, CollectedOnce
  <1>5. RetrySpacing'
    <2>1. \A p \in PayIds : chargedAt[p] # NoTime => pay[p].kind # "none"
      BY DEF PlanInv, ChargeRows
    <2>2. \A p, q \in PayIds : chargedAt[p] # NoTime /\ chargedAt[p] <= chargedAt[q]
                               => chargedAt[q] # NoTime
      BY DEF LedgerInv, TypeInv, TypeOK, NoTime
    <2> QED
      BY <2>1, <2>2 DEF SameCharges, PlanInv, ChargesAsPlanned, RetrySpacing
  <1>6. (\A d \in DueJobs : Job(wk[d]))'
    OBVIOUS
  <1>7. (\A u \in UpcomingJobs : Drafter(wk[u]))'
    OBVIOUS
  <1>8. aborts' = 0 /\ offered' = {}
        /\ (sub'.src = "none" => sub'.status \notin {"active", "past_due"})
    BY DEF SameCharges, PlanInv
  <1> QED
    BY <1>3, <1>4, <1>5, <1>6, <1>7, <1>8 DEF PlanInv, ChargesAsPlanned

\* The job goes on with row; invoices change at most where it says.
LEMMA JobKept ==
  ASSUME Undisturbed, LedgerInv, PlanInv, SameCharges, now' = now,
         NEW d \in DueJobs, NEW row, wk' = [wk EXCEPT ![d] = row],
         wk[d].pc # "idle" \/ sub' = sub,
         sub'.cycle = sub.cycle, sub'.src = sub.src,
         Job(row)',
         wk[d].pc \in AskedPcs =>
           \/ row.pc \in AskedPcs /\ row.p = wk[d].p /\ row.i = wk[d].i
           \/ \A p \in ChargedOn(wk[d].i) : Done(p)',
         \A p \in PayIds : chargedAt[p] # NoTime /\ Done(p) => Done(p)',
         wk[d].pc \in MoneyPcs => row.pc \in MoneyPcs /\ row.p = wk[d].p
  PROVE  PlanInv'
  <1>1. /\ wk'[d] = row /\ (\A e \in DueJobs : e = d)
        /\ \A u \in UpcomingJobs : wk'[u] = wk[u]
    BY OnlyJob
  <1>2. now \in Nat
    BY DEF LedgerInv, TypeInv, TypeOK
  <1>3. sub.src # "none" \/ sub' = sub
    BY DEF PlanInv, Job
  <1>4. \A e \in DueJobs : Job(wk[e])'
    <2> SUFFICES ASSUME NEW e \in DueJobs PROVE Job(wk[e])'
      OBVIOUS
    <2>1. wk'[e] = row
      BY <1>1
    <2> QED
      BY <2>1 DEF Job, Rests, HasCounted, ChargedOn
  <1>5. \A u \in UpcomingJobs : Drafter(wk'[u])
    BY <1>1 DEF PlanInv
  <1>6. ASSUME NEW p \in PayIds, chargedAt[p] # NoTime
        PROVE  (Done(p) \/ InFlight(p))'
    <2>1. CASE Done(p)
      BY <1>6, <2>1
    <2>2. CASE InFlight(p)
      <3>1. wk[d].pc \in AskedPcs /\ wk[d].p = p /\ wk[d].i = pay[p].inv
        BY <1>1, <2>2 DEF InFlight
      <3>2. CASE row.pc \in AskedPcs /\ row.p = wk[d].p /\ row.i = wk[d].i
        <4>1. pay[p].kind # "none"
          BY <1>6 DEF PlanInv, ChargeRows
        <4> QED
          BY <1>1, <3>1, <3>2, <4>1 DEF InFlight, SameCharges
      <3>3. CASE \A q \in ChargedOn(wk[d].i) : Done(q)'
        BY <1>6, <3>1, <3>3 DEF ChargedOn
      <3> QED
        BY <3>1, <3>2, <3>3
    <2> QED
      BY <1>6, <2>1, <2>2 DEF PlanInv, ChargeRows
  <1>7. \A e \in DueJobs : wk[e].pc \in MoneyPcs => wk'[e].pc \in MoneyPcs /\ wk'[e].p = wk[e].p
    BY <1>1
  <1> QED
    BY <1>2, <1>3, <1>4, <1>5, <1>6, <1>7, PlanKept

\* What the invariant says of the job.
LEMMA JobFacts ==
  ASSUME Undisturbed, LedgerInv, PlanInv, NEW d \in DueJobs
  PROVE  /\ Job(wk[d]) /\ d \in Workers /\ wk[d] \in Worker /\ now \in Nat
         /\ wk[d].inv \in InvRow /\ wk[d].sub \in SubRow /\ sub \in SubRow
         /\ inv \in [InvIds -> InvRow] /\ pay \in [PayIds -> PayRow]
         /\ chargedAt \in [PayIds -> Nat \cup {NoTime}] /\ aborts \in Nat
  BY WorkerFacts DEF PlanInv, Workers, LedgerInv, TypeInv, TypeOK

\* The steps of the job that only take it to another place.
JobTurns == {<<"ensure", "create">>, <<"source", "failHard">>, <<"source", "intent">>,
             <<"source", "verify">>, <<"verify", "failSoft">>, <<"verify", "failHard">>,
             <<"verify", "intent">>, <<"accept", "paid">>, <<"accept", "complete">>,
             <<"complete", "settle">>, <<"settle", "paid">>, <<"reject", "failSoft">>,
             <<"reject", "failInit">>, <<"failInit", "failSoft">>}

LEMMA JobGoto ==
  ASSUME Undisturbed, LedgerInv, PlanInv, SameCharges, UNCHANGED <<now, inv>>,
         NEW d \in DueJobs, NEW pc, Goto(d, pc),
         sub'.cycle = sub.cycle, sub'.src = sub.src,
         \/ <<wk[d].pc, pc>> \in JobTurns
         \/ wk[d].pc = "initiate" /\ pc = IF Kind(d) = "card" THEN "charge" ELSE "count"
         \/ /\ wk[d].pc = "attach" /\ pc = "source"
            /\ \A p \in ChargedOn(wk[d].i) : Rested(chargedAt[p], now)
  PROVE  PlanInv'
  <1>1. PICK row : row = [wk[d] EXCEPT !.pc = pc]
    OBVIOUS
  <1>2. /\ wk' = [wk EXCEPT ![d] = row] /\ row.pc = pc /\ row.i = wk[d].i /\ row.p = wk[d].p
        /\ row.inv = wk[d].inv /\ row.sub = wk[d].sub /\ row.want = wk[d].want
    BY <1>1, JobFacts DEF Goto, Becomes, Worker
  <1>3. \A i : ChargedOn(i)' = ChargedOn(i)
    BY DEF ChargedOn, SameCharges, PlanInv, ChargeRows
  <1>4. Job(wk[d])
    BY JobFacts
  <1>5. wk[d].pc \in {"ensure", "source", "verify", "accept", "complete", "settle", "reject",
                      "failInit", "initiate", "attach"}
        /\ pc \in {"create", "failHard", "intent", "verify", "failSoft", "paid", "complete",
                   "settle", "failInit", "charge", "count", "source"}
    BY DEF JobTurns
  <1>6. Job(row)
    <2>1. /\ row.pc \in {"idle", "ensure", "create"} \cup InHandPcs
          /\ row.want = "open" /\ row.sub.cycle = sub.cycle
          /\ row.sub.src = sub.src /\ sub.src # "none"
      BY <1>2, <1>4, <1>5 DEF Job, InHandPcs, ReadyPcs, ChargePcs, AskedPcs, ClosedPcs
    <2>2. row.pc \in InHandPcs =>
            /\ row.i \in InvIds /\ row.inv.st # "none" /\ row.inv.due = sub.cycle
            /\ inv[row.i].st # "none" /\ inv[row.i].due = sub.cycle
      BY <1>2, <1>4, <1>5 DEF Job, InHandPcs, ReadyPcs, ChargePcs, AskedPcs, ClosedPcs, JobTurns
    <2>3. row.pc \in BeforePcs => chargedAt[row.p] = NoTime
      BY <1>2, <1>4 DEF Job, BeforePcs, JobTurns
    <2>4. row.pc \in ReadyPcs \cup ChargePcs => \A p \in ChargedOn(row.i) : Rests(row.inv, p)
      BY <1>2, <1>4 DEF Job, ReadyPcs, ChargePcs, JobTurns
    <2>5. row.pc \in ChargePcs => \A p \in ChargedOn(row.i) : Rested(chargedAt[p], now)
      BY <1>2, <1>4 DEF Job, ReadyPcs, ChargePcs, JobTurns
    <2>6. HasCounted(row) => row.inv.attempts >= 1
      BY <1>2, <1>4 DEF Job, HasCounted, AskedPcs, JobTurns, Kind
    <2>7. row.pc \in AskedPcs /\ ChargedOn(row.i) # {} => row.inv.attempts >= 1
      BY <1>2, <1>4 DEF Job, AskedPcs, ChargePcs, JobTurns, Kind, Rests
    <2> QED
      BY <2>1, <2>2, <2>3, <2>4, <2>5, <2>6, <2>7 DEF Job
  <1>7. Job(row)'
    BY <1>3, <1>6 DEF Job, Rests, HasCounted, SameCharges
  <1>8. wk[d].pc \in AskedPcs => row.pc \in AskedPcs /\ row.p = wk[d].p /\ row.i = wk[d].i
    BY <1>2 DEF AskedPcs, JobTurns, Kind
  <1>9. wk[d].pc \in MoneyPcs => row.pc \in MoneyPcs /\ row.p = wk[d].p
    BY <1>2 DEF MoneyPcs, JobTurns, Kind
  <1>10. \A p \in PayIds : chargedAt[p] # NoTime /\ Done(p) => Done(p)'
    BY DEF Done, Rests, SameCharges, PlanInv, ChargeRows
  <1>11. wk[d].pc # "idle"
    BY <1>5
  <1> QED
    BY <1>2, <1>7, <1>8, <1>9, <1>10, <1>11, JobKept

\* The job returns from a place where it has not asked for money.
LEMMA JobReturn ==
  ASSUME Undisturbed, LedgerInv, PlanInv, SameCharges, UNCHANGED <<now, inv>>,
         NEW d \in DueJobs, Return(d), wk[d].pc \notin {"idle"} \cup AskedPcs \cup MoneyPcs,
         sub'.cycle = sub.cycle, sub'.src = sub.src
  PROVE  PlanInv'
  <1>1. PICK row : row = Idle
    OBVIOUS
  <1>2. wk' = [wk EXCEPT ![d] = row] /\ row.pc = "idle"
    BY <1>1 DEF Return, Becomes, Idle
  <1>3. Job(row)'
    BY <1>2 DEF Job, HasCounted, InHandPcs, ReadyPcs, ChargePcs, AskedPcs, ClosedPcs, BeforePcs
  <1>4. \A p \in PayIds : chargedAt[p] # NoTime /\ Done(p) => Done(p)'
    BY DEF Done, Rests, SameCharges, PlanInv, ChargeRows
  <1> QED
    BY <1>2, <1>3, <1>4, JobKept

\* The job takes invoice i in hand, which has not changed or is new.
LEMMA JobTake ==
  ASSUME Undisturbed, LedgerInv, PlanInv, UNCHANGED <<sub, pay, taken, refused, Others>>,
         NEW d \in DueJobs, wk[d].pc \in {"ensure", "create"},
         NEW i \in InvIds, NEW pc \in ReadyPcs,
         Becomes(d, [wk[d] EXCEPT !.i = i, !.inv = inv'[i], !.pc = pc]),
         \A j \in InvIds : j # i \/ inv[i].st # "none" => inv'[j] = inv[j],
         inv'[i].st \notin {"none", "paid", "failed"}, inv'[i].due = sub.cycle
  PROVE  PlanInv'
  <1>1. PICK row : row = [wk[d] EXCEPT !.i = i, !.inv = inv'[i], !.pc = pc]
    OBVIOUS
  <1>2. /\ wk' = [wk EXCEPT ![d] = row] /\ row.pc = pc /\ row.i = i
        /\ row.inv = inv'[i] /\ row.sub = wk[d].sub /\ row.want = wk[d].want
    BY <1>1, JobFacts DEF Becomes, Worker
  <1>3. /\ pc \in {"open", "attach"} /\ Job(wk[d]) /\ wk[d].pc \notin AskedPcs \cup MoneyPcs
        /\ wk[d].pc # "idle"
    BY JobFacts DEF ReadyPcs, AskedPcs, MoneyPcs
  <1>4. UNCHANGED <<chargedAt, offered, aborts, now>>
    BY DEF Others, history
  <1>5. \A p \in PayIds : chargedAt[p] # NoTime =>
          /\ pay[p].kind # "none" /\ pay[p].inv \in InvIds /\ inv[pay[p].inv].st # "none"
          /\ Done(p)
    BY <1>3, OnlyOne DEF PlanInv, ChargeRows, InFlight
  <1>6. \A p \in PayIds : chargedAt[p] # NoTime => inv'[pay[p].inv] = inv[pay[p].inv]
    BY <1>5
  <1>7. SameCharges
    BY <1>4 DEF SameCharges
  <1>8. \A p \in PayIds : chargedAt[p] # NoTime /\ Done(p) => Done(p)'
    BY <1>4, <1>6 DEF Done, Rests
  <1>9. PICK new : new = inv'[i]
    OBVIOUS
  <1>10. ASSUME NEW p \in ChargedOn(i)' PROVE Rests(new, p)'
    <2>1. p \in PayIds /\ chargedAt[p] # NoTime /\ pay[p].inv = i
      BY <1>4, <1>10 DEF ChargedOn
    <2>2. Rests(inv[i], p) /\ inv[i] = new
      BY <1>5, <1>6, <1>9, <2>1 DEF Done
    <2> QED
      BY <1>4, <2>2 DEF Rests
  <1>11. Job(row)'
    <2>1. /\ row.pc \in ReadyPcs /\ row.i = i /\ row.inv = new /\ row.want = "open"
          /\ row.sub.cycle = sub.cycle /\ row.sub.src = sub.src /\ sub.src # "none"
          /\ new.st # "none" /\ new.due = sub.cycle
      BY <1>2, <1>3, <1>9 DEF Job
    <2>2. row.pc \notin BeforePcs \cup ChargePcs \cup AskedPcs /\ ~HasCounted(row)
      BY <2>1 DEF ReadyPcs, BeforePcs, ChargePcs, AskedPcs, HasCounted
    <2> QED
      BY <1>9, <1>10, <2>1, <2>2 DEF Job, InHandPcs, HasCounted
  <1> QED
    BY <1>2, <1>3, <1>4, <1>7, <1>8, <1>11, JobKept

\* The job stores row as its copy of the invoice and goes on at pc.
LEMMA JobStore ==
  ASSUME Undisturbed, LedgerInv, PlanInv, NEW d \in DueJobs, wk[d].pc \in InHandPcs,
         NEW row, row \in InvRow, NEW pc \in {"attach", "initiate", "charge", "pastDue",
                                              "pause", "advance"},
         SaveInvoice(d, row, pc), UNCHANGED source,
         row.st # "none", row.due = wk[d].inv.due,
         \A p \in ChargedOn(wk[d].i) : row.st \in {"paid", "failed"} \/ Rests(row, p),
         pc \in {"attach", "initiate", "charge"} =>
           \A p \in ChargedOn(wk[d].i) : Rests(row, p),
         pc \in {"initiate", "charge"} =>
           /\ wk[d].pc \in ChargePcs \cap BeforePcs
           /\ row.attempts >= 1,
         wk[d].pc \in MoneyPcs => pc \in MoneyPcs
  PROVE  PlanInv'
  <1>1. PICK k : k = [wk[d] EXCEPT !.inv = row, !.pc = pc]
    OBVIOUS
  <1>2. /\ wk' = [wk EXCEPT ![d] = k] /\ k.pc = pc /\ k.i = wk[d].i /\ k.p = wk[d].p
        /\ k.inv = row /\ k.sub = wk[d].sub /\ k.want = wk[d].want
    BY <1>1, JobFacts DEF SaveInvoice, Becomes, Worker
  <1>3. /\ Job(wk[d]) /\ wk[d].pc # "idle" /\ wk[d].i \in InvIds
        /\ inv[wk[d].i].st # "none" /\ inv[wk[d].i].due = sub.cycle
        /\ wk[d].inv.due = sub.cycle
    BY JobFacts DEF Job, InHandPcs, ReadyPcs, ChargePcs, AskedPcs, ClosedPcs
  <1>4. UNCHANGED <<sub, pay, taken, refused, chargedAt, offered, aborts, now>>
    BY DEF SaveInvoice, Others, history
  <1>5. \A i \in InvIds : inv'[i] = IF i = wk[d].i THEN row ELSE inv[i]
    BY JobFacts DEF SaveInvoice
  <1>6. SameCharges
    BY <1>3, <1>4, <1>5 DEF SameCharges
  <1>7. \A i : ChargedOn(i)' = ChargedOn(i)
    BY <1>4 DEF ChargedOn
  <1>8. \A p \in PayIds : chargedAt[p] # NoTime => pay[p].inv \in InvIds
    BY DEF PlanInv, ChargeRows
  <1>9. ASSUME NEW p \in PayIds, chargedAt[p] # NoTime, pay[p].inv = wk[d].i
        PROVE  Done(p)'
    <2>1. p \in ChargedOn(wk[d].i)
      BY <1>9 DEF ChargedOn
    <2>2. inv'[pay'[p].inv] = row
      BY <1>3, <1>4, <1>5, <1>9
    <2> QED
      BY <1>4, <2>1, <2>2 DEF Done, Rests
  <1>10. \A p \in ChargedOn(wk[d].i) : Done(p)'
    BY <1>9 DEF ChargedOn
  <1>11. \A p \in PayIds : chargedAt[p] # NoTime /\ Done(p) => Done(p)'
    <2> SUFFICES ASSUME NEW p \in PayIds, chargedAt[p] # NoTime, Done(p), pay[p].inv # wk[d].i
                 PROVE  Done(p)'
      BY <1>9
    <2>1. inv'[pay'[p].inv] = inv[pay[p].inv]
      BY <1>4, <1>5, <1>8
    <2> QED
      BY <1>4, <2>1 DEF Done, Rests
  <1>12. Job(k)
    <2>1. /\ k.pc \in InHandPcs /\ k.pc # "idle" /\ k.want = "open"
          /\ k.sub.cycle = sub.cycle /\ k.sub.src = sub.src /\ sub.src # "none"
          /\ k.inv.st # "none" /\ k.inv.due = sub.cycle
      BY <1>2, <1>3 DEF Job, InHandPcs, ReadyPcs, ChargePcs, AskedPcs, ClosedPcs
    <2>2. k.pc \in BeforePcs => chargedAt[k.p] = NoTime
      BY <1>2, <1>3 DEF Job, BeforePcs
    <2>3. k.pc \in ReadyPcs \cup ChargePcs => \A p \in ChargedOn(k.i) : Rests(k.inv, p)
      BY <1>2 DEF ReadyPcs, ChargePcs
    <2>4. k.pc \in ChargePcs => \A p \in ChargedOn(k.i) : Rested(chargedAt[p], now)
      BY <1>2, <1>3 DEF Job, ChargePcs
    <2>5. k.pc \notin AskedPcs /\ (HasCounted(k) => k.inv.attempts >= 1)
      BY <1>2 DEF HasCounted, AskedPcs
    <2> QED
      BY <1>2, <1>3, <2>1, <2>2, <2>3, <2>4, <2>5 DEF Job
  <1>13. Job(k)'
    <2>1. inv'[k.i] = row
      BY <1>2, <1>3, <1>5
    <2>2. sub' = sub /\ chargedAt' = chargedAt /\ now' = now /\ ChargedOn(k.i)' = ChargedOn(k.i)
      BY <1>4, <1>7
    <2>3. row.st # "none" /\ (k.pc \in InHandPcs => row.due = sub.cycle)
      BY <1>3
    <2> QED
      BY <1>12, <2>1, <2>2, <2>3 DEF Job, Rests, HasCounted
  <1> QED
    BY <1>2, <1>3, <1>4, <1>6, <1>10, <1>11, <1>13, JobKept

LEMMA LoadPlan ==
  ASSUME Undisturbed, LedgerInv, PlanInv, NEW d \in DueJobs, LoadDue(d)
  PROVE  PlanInv'
  <1>1. PICK row : row = [wk[d] EXCEPT !.pc = "ensure", !.want = "open", !.sub = sub]
    OBVIOUS
  <1>2. /\ wk' = [wk EXCEPT ![d] = row] /\ row.pc = "ensure" /\ row.sub = sub
        /\ row.want = "open"
    BY <1>1, JobFacts DEF LoadDue, Becomes, Worker
  <1>3. UNCHANGED <<sub, inv, pay, taken, refused, chargedAt, offered, aborts, now>>
    BY DEF LoadDue, dbVars, Others, history
  <1>4. SameCharges /\ \A p \in PayIds : chargedAt[p] # NoTime /\ Done(p) => Done(p)'
    BY <1>3 DEF SameCharges, Done, Rests, PlanInv, ChargeRows
  <1>5. sub.src # "none" /\ wk[d].pc = "idle"
    BY DEF LoadDue, At, PlanInv
  <1>6. Job(row)'
    BY <1>2, <1>3, <1>5
    DEF Job, HasCounted, InHandPcs, ReadyPcs, ChargePcs, AskedPcs, ClosedPcs, BeforePcs
  <1> QED
    BY <1>2, <1>3, <1>4, <1>5, <1>6, JobKept DEF AskedPcs, MoneyPcs

LEMMA EnsurePlan ==
  ASSUME Undisturbed, LedgerInv, PlanInv, NEW d \in DueJobs, Ensure(d)
  PROVE  PlanInv'
  <1>1. UNCHANGED <<sub, inv, pay, taken, refused, Others>>
    BY DEF Ensure, dbVars
  <1>2. /\ wk[d].pc = "ensure" /\ wk[d].want = "open" /\ wk[d].sub.cycle = sub.cycle
    BY JobFacts DEF Ensure, At, Job
  <1>3. SameCharges
    BY <1>1 DEF SameCharges, Others, history, PlanInv, ChargeRows
  <1>4. CASE Goto(d, "create")
    BY <1>1, <1>2, <1>3, <1>4, JobGoto DEF JobTurns, Others
  <1>5. CASE Return(d)
    BY <1>1, <1>2, <1>3, <1>5, JobReturn DEF Others, AskedPcs, MoneyPcs
  <1>6. ASSUME NEW i \in InvoicesDue(wk[d].sub.cycle), inv[i].st \notin {"paid", "failed"},
               NEW pc \in ReadyPcs,
               Becomes(d, [wk[d] EXCEPT !.i = i, !.inv = inv[i], !.pc = pc])
        PROVE  PlanInv'
    <2>1. i \in InvIds /\ inv[i].st # "none" /\ inv[i].due = sub.cycle
      BY <1>2 DEF InvoicesDue
    <2>2. inv' = inv
      BY <1>1
    <2> QED
      BY <1>1, <1>2, <1>6, <2>1, <2>2, JobTake
  <1>7. \/ Goto(d, "create") \/ Return(d)
        \/ \E i \in InvoicesDue(wk[d].sub.cycle), pc \in ReadyPcs :
             /\ inv[i].st \notin {"paid", "failed"}
             /\ Becomes(d, [wk[d] EXCEPT !.i = i, !.inv = inv[i], !.pc = pc])
    <2>1. CASE Goto(d, "create")
      BY <2>1
    <2>2. ASSUME NEW i \in InvoicesDue(wk[d].sub.cycle),
                 IF wk[d].want = "draft" \/ inv[i].st \in {"paid", "failed"}
                 THEN Return(d)
                 ELSE Becomes(d, [wk[d] EXCEPT !.i = i, !.inv = inv[i],
                               !.pc = IF inv[i].st = "draft" THEN "open" ELSE "attach"])
          PROVE  \/ Return(d)
                 \/ \E j \in InvoicesDue(wk[d].sub.cycle), pc \in ReadyPcs :
                      /\ inv[j].st \notin {"paid", "failed"}
                      /\ Becomes(d, [wk[d] EXCEPT !.i = j, !.inv = inv[j], !.pc = pc])
      BY <1>2, <2>2 DEF ReadyPcs
    <2> QED
      BY <2>1, <2>2 DEF Ensure
  <1> QED
    BY <1>4, <1>5, <1>6, <1>7

LEMMA CreatePlan ==
  ASSUME Undisturbed, LedgerInv, PlanInv, NEW d \in DueJobs, Create(d)
  PROVE  PlanInv'
  <1>1. PICK new : new = NewInv(wk[d].sub.cycle, wk[d].want)
    OBVIOUS
  <1>2. /\ wk[d].pc = "create" /\ wk[d].want = "open" /\ wk[d].sub.cycle = sub.cycle
    BY JobFacts DEF Create, At, Job
  <1>3. new.st = "open" /\ new.due = sub.cycle
    BY <1>1, <1>2 DEF NewInv
  <1>4. PICK i \in InvIds :
          /\ inv[i].st = "none"
          /\ inv' = [inv EXCEPT ![i] = new]
          /\ Becomes(d, [wk[d] EXCEPT !.i = i, !.inv = new, !.pc = "attach"])
    BY <1>1, <1>2 DEF Create, FreshInvoice
  <1>5. inv'[i] = new /\ \A j \in InvIds : j # i \/ inv[i].st # "none" => inv'[j] = inv[j]
    BY <1>4, JobFacts
  <1>6. UNCHANGED <<sub, pay, taken, refused, Others>>
    BY DEF Create, Others
  <1> QED
    BY <1>2, <1>3, <1>4, <1>5, <1>6, JobTake DEF ReadyPcs

LEMMA AttachPlan ==
  ASSUME Undisturbed, LedgerInv, PlanInv, NEW d \in DueJobs, Attach(d)
  PROVE  PlanInv'
  <1>1. UNCHANGED <<inv, pay, taken, refused, Others>> /\ sub' = wk[d].sub /\ wk[d].pc = "attach"
    BY DEF Attach, At
  <1>2. /\ sub'.cycle = sub.cycle /\ sub'.src = sub.src
        /\ \A p \in ChargedOn(wk[d].i) : Rests(wk[d].inv, p)
    BY <1>1, JobFacts DEF Job, ReadyPcs
  <1>3. SameCharges
    BY <1>1 DEF SameCharges, Others, history, PlanInv, ChargeRows
  <1>4. CASE Return(d)
    BY <1>1, <1>2, <1>3, <1>4, JobReturn DEF Others, AskedPcs, MoneyPcs
  <1>5. CASE Collectable(wk[d].inv) /\ Goto(d, "source")
    <2>1. ASSUME NEW p \in ChargedOn(wk[d].i)
          PROVE  Rested(chargedAt[p], now)
      <3>1. /\ wk[d].inv.attempts \in Nat /\ wk[d].inv.next \in Nat \cup {NoTime} /\ now \in Nat
            /\ chargedAt[p] \in Nat /\ MaxTime \in Nat /\ RetryDelay \in Nat
        BY JobFacts, BillingAssumption DEF InvRow, ChargedOn
      <3>2. wk[d].inv.attempts >= 1 /\ (wk[d].inv.next # NoTime => Rested(chargedAt[p], wk[d].inv.next))
        BY <1>2, <2>1 DEF Rests
      <3>3. wk[d].inv.next # NoTime /\ wk[d].inv.next <= now
        BY <1>5, <3>1, <3>2 DEF Collectable
      <3> QED
        BY <3>1, <3>2, <3>3 DEF Rested, NoTime
    <2> QED
      BY <1>1, <1>2, <1>3, <1>5, <2>1, JobGoto DEF Others
  <1> QED
    BY <1>4, <1>5 DEF Attach

\* The steps that store the payment leave its kind and its invoice.
LEMMA PaymentWrites ==
  ASSUME NEW d, pay[wk[d].p] \in PayRow,
         Initiate(d) \/ Accept(d) \/ Complete(d) \/ Settle(d) \/ Reject(d) \/ RejectInit(d)
  PROVE  \E row : /\ row.kind = pay[wk[d].p].kind /\ row.inv = pay[wk[d].p].inv
                  /\ pay' = [pay EXCEPT ![wk[d].p] = row]
  <1> DEFINE r == pay[wk[d].p]
  <1>1. \A a, b, c : LET row == [r EXCEPT !.intent = a, !.init = b, !.settlements = c]
                     IN  row.kind = r.kind /\ row.inv = r.inv
    BY DEF PayRow
  <1> QED
    BY <1>1 DEF Initiate, Accept, Complete, Settle, Reject, RejectInit, SavePayment, PayRow

\* The steps of the job that choose a way to collect, or store a payment.
LEMMA TurnPlan ==
  ASSUME Undisturbed, LedgerInv, PlanInv, NEW d \in DueJobs,
         \/ FindSource(d) \/ Verify(d) \/ Initiate(d) \/ Accept(d)
         \/ Complete(d) \/ Settle(d) \/ Reject(d) \/ RejectInit(d)
  PROVE  PlanInv'
  <1>1. /\ Job(wk[d]) /\ wk[d].sub.src \in Kinds \cup {"none"}
        /\ wk[d].pc # "idle" => wk[d].sub.src # "none"
    BY JobFacts DEF Job, SubRow
  <1>2. UNCHANGED <<sub, inv, taken, refused, Others>>
    BY DEF FindSource, Verify, Initiate, Accept, Complete, Settle, Reject, RejectInit, dbVars,
           Others
  <1>3. \/ pay' = pay
        \/ /\ wk[d].pc \in CollectPcs
           /\ \E row : /\ row.kind = pay[wk[d].p].kind /\ row.inv = pay[wk[d].p].inv
                       /\ pay' = [pay EXCEPT ![wk[d].p] = row]
    <2>1. CASE FindSource(d) \/ Verify(d)
      BY <2>1 DEF FindSource, Verify, dbVars
    <2>2. CASE \/ Initiate(d) \/ Accept(d) \/ Complete(d) \/ Settle(d) \/ Reject(d)
               \/ RejectInit(d)
      <3>1. wk[d].pc \in CollectPcs
        BY <2>2 DEF Initiate, Accept, Complete, Settle, Reject, RejectInit, At, CollectPcs
      <3>2. pay[wk[d].p] \in PayRow
        BY <3>1, JobFacts DEF LedgerInv, TypeInv, HeldOK
      <3> QED
        BY <2>2, <3>1, <3>2, PaymentWrites
    <2> QED
      BY <2>1, <2>2
  <1>4. \A p \in PayIds : pay'[p].kind = pay[p].kind /\ pay'[p].inv = pay[p].inv
    BY <1>3, JobFacts
  <1>5. SameCharges
    BY <1>2, <1>4 DEF SameCharges, Others, history, PlanInv, ChargeRows
  <1>6. \/ \E pc : Goto(d, pc) /\ <<wk[d].pc, pc>> \in JobTurns
        \/ wk[d].pc = "initiate" /\ Goto(d, IF Kind(d) = "card" THEN "charge" ELSE "count")
    BY <1>1 DEF FindSource, Verify, Initiate, Accept, Complete, Settle, Reject, AfterReject,
                RejectInit, At, JobTurns, Kinds
  <1> QED
    BY <1>2, <1>5, <1>6, JobGoto DEF Others

\* The steps that store the invoice.
LEMMA StorePlan ==
  ASSUME Undisturbed, LedgerInv, PlanInv, NEW d \in DueJobs,
         Open(d) \/ Count(d) \/ FailInvoice(d) \/ MarkPaid(d)
  PROVE  PlanInv'
  <1> DEFINE k == wk[d]
             held == ChargedOn(wk[d].i)
  <1>1. /\ Job(k) /\ k.inv \in InvRow /\ k.inv.attempts \in Nat /\ now \in Nat
        /\ k.inv.next \in Nat \cup {NoTime}
    BY JobFacts DEF InvRow
  <1>2. k.pc \in InHandPcs /\ k.pc # "idle" /\ k.inv.st # "none"
    BY <1>1 DEF Open, Count, FailInvoice, MarkPaid, At, Job,
                InHandPcs, ReadyPcs, ChargePcs, AskedPcs, ClosedPcs
  <1>3. source' = source
    BY DEF Open, Count, FailInvoice, MarkPaid, SaveInvoice, Others
  <1>4. CASE Open(d)
    <2>1. PICK row : row = [k.inv EXCEPT !.st = "open"]
      OBVIOUS
    <2>2. /\ row \in InvRow /\ row.st = "open" /\ row.due = k.inv.due
          /\ row.attempts = k.inv.attempts /\ row.next = k.inv.next
      BY <1>1, <2>1 DEF InvRow, InvStatus
    <2>3. SaveInvoice(d, row, "attach") /\ k.pc = "open"
      BY <1>4, <2>1 DEF Open, At
    <2>4. \A p \in held : Rests(row, p)
      BY <1>1, <2>2, <2>3 DEF Job, ReadyPcs, Rests
    <2> QED
      BY <1>2, <1>3, <2>2, <2>3, <2>4, JobStore DEF MoneyPcs
  <1>5. CASE Count(d)
    <2>1. PICK row : row = [k.inv EXCEPT !.attempts = @ + 1]
      OBVIOUS
    <2>2. /\ row \in InvRow /\ row.st = k.inv.st /\ row.due = k.inv.due
          /\ row.attempts = k.inv.attempts + 1 /\ row.next = k.inv.next
      BY <1>1, <2>1 DEF InvRow
    <2>3. PICK pc \in {"initiate", "charge"} : SaveInvoice(d, row, pc) /\ k.pc = "count"
      BY <1>5, <2>1 DEF Count, At
    <2>4. \A p \in held : Rests(row, p)
      <3>1. \A p \in held : Rests(k.inv, p)
        BY <1>1, <2>3 DEF Job, ChargePcs
      <3> QED
        BY <1>1, <2>2, <3>1 DEF Rests
    <2>5. row.attempts >= 1
      BY <1>1, <2>2
    <2>6. k.pc \in ChargePcs \cap BeforePcs /\ k.pc \notin MoneyPcs
      BY <2>3 DEF ChargePcs, BeforePcs, MoneyPcs
    <2> QED
      BY <1>2, <1>3, <2>2, <2>3, <2>4, <2>5, <2>6, JobStore
  <1>6. CASE MarkPaid(d)
    <2>1. PICK row : row = [k.inv EXCEPT !.st = "paid"]
      OBVIOUS
    <2>2. row \in InvRow /\ row.st = "paid" /\ row.due = k.inv.due
      BY <1>1, <2>1 DEF InvRow, InvStatus
    <2>3. SaveInvoice(d, row, "advance")
      BY <1>6, <2>1 DEF MarkPaid
    <2> QED
      BY <1>2, <1>3, <2>2, <2>3, JobStore DEF MoneyPcs
  <1>7. CASE FailInvoice(d)
    <2>1. k.pc \notin MoneyPcs
      BY <1>7 DEF FailInvoice, At, MoneyPcs
    <2>2. ASSUME SaveInvoice(d, [k.inv EXCEPT !.st = "failed"], "pause")
          PROVE  PlanInv'
      <3>1. PICK row : row = [k.inv EXCEPT !.st = "failed"]
        OBVIOUS
      <3>2. row \in InvRow /\ row.st = "failed" /\ row.due = k.inv.due
        BY <1>1, <3>1 DEF InvRow, InvStatus
      <3>3. SaveInvoice(d, row, "pause")
        BY <2>2, <3>1
      <3> QED
        BY <1>2, <1>3, <2>1, <3>2, <3>3, JobStore
    <2>3. ASSUME k.pc = "failSoft", SaveInvoice(d, [k.inv EXCEPT !.next = Later(RetryDelay)], "pastDue")
          PROVE  PlanInv'
      <3>1. PICK at : at = Later(RetryDelay)
        OBVIOUS
      <3>2. PICK row : row = [k.inv EXCEPT !.next = at]
        OBVIOUS
      <3>3. at \in Nat /\ \A t \in Nat : t <= now => Rested(t, at)
        BY <1>1, <3>1, BillingAssumption DEF Later, Rested
      <3>4. /\ row \in InvRow /\ row.st = k.inv.st /\ row.due = k.inv.due
            /\ row.next = at /\ row.attempts = k.inv.attempts
        BY <1>1, <3>2, <3>3 DEF InvRow
      <3>5. SaveInvoice(d, row, "pastDue")
        BY <2>3, <3>1, <3>2
      <3>6. ASSUME NEW p \in held PROVE Rests(row, p)
        <4>1. chargedAt[p] \in Nat /\ chargedAt[p] <= now
          BY <3>6, JobFacts DEF ChargedOn, PlanInv, ChargeRows
        <4>2. k.inv.attempts >= 1
          BY <1>1, <2>3, <3>6 DEF Job, AskedPcs
        <4> QED
          BY <3>3, <3>4, <4>1, <4>2 DEF Rests
      <3> QED
        BY <1>2, <1>3, <2>1, <3>4, <3>5, <3>6, JobStore
    <2> QED
      BY <1>7, <2>2, <2>3 DEF FailInvoice, At
  <1> QED
    BY <1>4, <1>5, <1>6, <1>7

LEMMA FailSubscriptionPlan ==
  ASSUME Undisturbed, LedgerInv, PlanInv, NEW d \in DueJobs, FailSubscription(d)
  PROVE  PlanInv'
  <1>1. PICK st \in SubStatus : sub' = [wk[d].sub EXCEPT !.status = st]
    BY DEF FailSubscription, SaveSub, SubStatus
  <1>2. wk[d].pc \in {"pastDue", "pause"} /\ Return(d)
        /\ UNCHANGED <<inv, pay, taken, refused, now, offered, chargedAt, aborts>>
    BY DEF FailSubscription, SaveSub, At
  <1>3. sub'.cycle = sub.cycle /\ sub'.src = sub.src
    BY <1>1, <1>2, JobFacts DEF Job, SubRow
  <1>4. SameCharges
    BY <1>2 DEF SameCharges, PlanInv, ChargeRows
  <1> QED
    BY <1>2, <1>3, <1>4, JobReturn DEF AskedPcs, MoneyPcs

LEMMA IntentPlan ==
  ASSUME Undisturbed, LedgerInv, PlanInv, NEW d \in DueJobs, Intent(d)
  PROVE  PlanInv'
  <1>1. PICK p \in PayIds :
          /\ Fresh(p)
          /\ pay' = [pay EXCEPT ![p] = [NoPayment EXCEPT !.kind = Kind(d), !.inv = wk[d].i,
                                                        !.intent = "pending"]]
          /\ Becomes(d, [wk[d] EXCEPT !.p = p,
                           !.pc = IF Kind(d) = "card" THEN "count" ELSE "initiate"])
    BY DEF Intent
  <1>0. PICK r : r = [NoPayment EXCEPT !.kind = Kind(d), !.inv = wk[d].i, !.intent = "pending"]
    OBVIOUS
  <1>2. PICK pc \in {"count", "initiate"} :
          /\ pc = IF Kind(d) = "card" THEN "count" ELSE "initiate"
          /\ Becomes(d, [wk[d] EXCEPT !.p = p, !.pc = pc])
    BY <1>1
  <1>3. PICK row : row = [wk[d] EXCEPT !.p = p, !.pc = pc]
    OBVIOUS
  <1>4. /\ wk' = [wk EXCEPT ![d] = row] /\ row.pc = pc /\ row.i = wk[d].i /\ row.p = p
        /\ row.inv = wk[d].inv /\ row.sub = wk[d].sub /\ row.want = wk[d].want
    BY <1>2, <1>3, JobFacts DEF Becomes, Worker
  <1>5. /\ UNCHANGED <<sub, inv, taken, refused, chargedAt, offered, aborts, now>>
        /\ wk[d].pc = "intent"
    BY DEF Intent, Others, history, At
  <1>6. /\ Job(wk[d]) /\ wk[d].i \in InvIds /\ inv[wk[d].i].st # "none"
    BY <1>5, JobFacts DEF Job, InHandPcs, ChargePcs
  <1>7. /\ r.kind \in {"card", "bank"} /\ r.inv = wk[d].i
        /\ pay'[p] = r /\ pay[p].kind = "none"
        /\ \A q \in PayIds : q # p => pay'[q] = pay[q]
    BY <1>0, <1>1, JobFacts DEF Kind, NoPayment, Fresh
  <1>8. \A q \in PayIds : chargedAt[q] # NoTime => q # p
    BY <1>7 DEF PlanInv, ChargeRows
  <1>9. SameCharges
    <2>1. ASSUME NEW q \in PayIds
          PROVE  IF pay[q].kind # "none" THEN pay'[q].kind = pay[q].kind /\ pay'[q].inv = pay[q].inv
                 ELSE pay'[q].kind # "none" => /\ pay'[q].kind # "checkout"
                                               /\ pay'[q].inv \in InvIds
                                               /\ inv'[pay'[q].inv].st # "none"
      BY <1>5, <1>6, <1>7
    <2> QED
      BY <1>5, <2>1 DEF SameCharges
  <1>10. \A i : ChargedOn(i)' = ChargedOn(i)
    BY <1>5, <1>7, <1>8 DEF ChargedOn
  <1>11. \A q \in PayIds : chargedAt[q] # NoTime /\ Done(q) => Done(q)'
    BY <1>5, <1>7, <1>8 DEF Done, Rests
  <1>12. Job(row)
    <2>1. HasCounted(row) => FALSE
      BY <1>2, <1>4 DEF HasCounted, AskedPcs, Kind
    <2>2. chargedAt[p] = NoTime
      BY <1>8
    <2> QED
      BY <1>4, <1>5, <1>6, <2>1, <2>2
      DEF Job, InHandPcs, ReadyPcs, ChargePcs, AskedPcs, ClosedPcs, BeforePcs
  <1>13. Job(row)'
    BY <1>5, <1>10, <1>12 DEF Job, Rests, HasCounted
  <1> QED
    BY <1>4, <1>5, <1>9, <1>11, <1>13, JobKept DEF AskedPcs, MoneyPcs

\* The job is in hand of an invoice and asks for its money.
LEMMA ChargePlan ==
  ASSUME Undisturbed, LedgerInv, PlanInv, NEW d \in DueJobs, Charge(d)
  PROVE  PlanInv'
  <1>1. PICK pc \in {"accept", "reject"} :
          /\ Goto(d, pc)
          /\ (taken' = taken \cup {wk[d].p} /\ pc = "accept") \/ taken' = taken
          /\ refused' = refused \cup {wk[d].p} \/ refused' = refused
    BY DEF Charge
  <1>2. PICK p : p = wk[d].p
    OBVIOUS
  <1>3. /\ wk[d].pc = "charge" /\ UNCHANGED <<sub, inv, pay, now, offered, aborts>>
        /\ chargedAt' = [chargedAt EXCEPT ![p] = now]
    BY <1>2 DEF Charge, At, dbVars
  <1>4. /\ p \in PayIds /\ pay[p].kind \in Kinds /\ pay[p].inv = wk[d].i
    BY <1>2, <1>3, JobFacts, WorkerFacts DEF Holds, HoldPcs, CollectPcs
  <1>5. /\ Job(wk[d]) /\ now \in Nat /\ RetryDelay \in Nat \ {0} /\ MaxTime \in Nat
        /\ chargedAt \in [PayIds -> Nat \cup {NoTime}]
    BY JobFacts, BillingAssumption
  <1>6. PICK row : row = [wk[d] EXCEPT !.pc = pc]
    OBVIOUS
  <1>7. /\ wk' = [wk EXCEPT ![d] = row] /\ row.pc = pc /\ row.i = wk[d].i /\ row.p = p
        /\ row.inv = wk[d].inv /\ row.sub = wk[d].sub /\ row.want = wk[d].want
    BY <1>1, <1>2, <1>6, JobFacts DEF Goto, Becomes, Worker
  <1>8. /\ wk'[d] = row /\ (\A e \in DueJobs : e = d)
        /\ \A u \in UpcomingJobs : wk'[u] = wk[u]
    BY <1>7, OnlyJob
  <1>9. /\ wk[d].i \in InvIds /\ inv[wk[d].i].st # "none" /\ inv[wk[d].i].due = sub.cycle
        /\ wk[d].inv.st # "none" /\ wk[d].inv.due = sub.cycle
        /\ wk[d].want = "open" /\ wk[d].sub.cycle = sub.cycle
        /\ wk[d].sub.src = sub.src /\ sub.src # "none" /\ wk[d].inv.attempts >= 1
        /\ chargedAt[p] = NoTime
        /\ \A q \in ChargedOn(wk[d].i) : Rested(chargedAt[q], now)
    BY <1>2, <1>3, <1>5 DEF Job, InHandPcs, ChargePcs, HasCounted, BeforePcs
  <1>10. \A q \in PayIds : chargedAt'[q] = IF q = p THEN now ELSE chargedAt[q]
    BY <1>3, <1>5
  <1>11. \A q \in PayIds : chargedAt[q] # NoTime => Done(q)
    BY <1>3, <1>8 DEF PlanInv, ChargeRows, InFlight, AskedPcs
  <1>12. \A q \in taken : q \in PayIds /\ DueOf(q) < sub.cycle
    BY <1>3, <1>8 DEF PlanInv, ChargeRows, MoneyPcs, LedgerInv, TypeInv, TypeOK
  <1>13. DueOf(p) = sub.cycle /\ \A q : DueOf(q)' = DueOf(q)
    BY <1>3, <1>4, <1>9 DEF DueOf
  <1>14. ChargeRows'
    <2> SUFFICES ASSUME NEW q \in PayIds
                 PROVE  /\ pay[q].kind # "none" => /\ pay[q].kind # "checkout"
                                                   /\ pay[q].inv \in InvIds
                                                   /\ inv[pay[q].inv].st # "none"
                        /\ q \in refused' => sub.src # "none"
                        /\ chargedAt'[q] # NoTime => /\ pay[q].kind # "none"
                                                     /\ chargedAt'[q] <= now
                                                     /\ (Done(q) \/ InFlight(q))'
                        /\ q \in taken' =>
                             \/ DueOf(q)' < sub.cycle
                             \/ \E e \in DueJobs : wk'[e].pc \in MoneyPcs /\ wk'[e].p = q
      BY <1>3 DEF ChargeRows
    <2>1. /\ pay[q].kind # "none" => /\ pay[q].kind # "checkout"
                                     /\ pay[q].inv \in InvIds
                                     /\ inv[pay[q].inv].st # "none"
          /\ q \in refused' => sub.src # "none"
      BY <1>9 DEF PlanInv, ChargeRows
    <2>2. CASE q = p
      <3>1. InFlight(q)'
        BY <1>1, <1>3, <1>4, <1>7, <1>8, <2>2 DEF InFlight, AskedPcs
      <3>2. q \in taken' => DueOf(q) < sub.cycle \/ wk'[d].pc \in MoneyPcs
        BY <1>1, <1>2, <1>7, <1>8, <1>12 DEF MoneyPcs
      <3> QED
        BY <1>4, <1>5, <1>7, <1>8, <1>10, <1>13, <2>1, <2>2, <3>1, <3>2 DEF Kinds
    <2>3. CASE q # p
      <3>1. chargedAt[q] # NoTime => pay[q].kind # "none" /\ chargedAt[q] <= now
        BY DEF PlanInv, ChargeRows
      <3>2. chargedAt[q] # NoTime => Done(q)'
        BY <1>3, <1>10, <1>11, <2>3 DEF Done, Rests
      <3>3. q \in taken' => DueOf(q)' < sub.cycle
        BY <1>1, <1>2, <1>12, <1>13, <2>3
      <3> QED
        BY <1>10, <2>1, <2>3, <3>1, <3>2, <3>3
    <2> QED
      BY <2>2, <2>3
  <1>15. CollectedOnce'
    <2> SUFFICES ASSUME NEW q \in taken', NEW r \in taken', DueOf(q) = DueOf(r) PROVE q = r
      BY <1>13 DEF CollectedOnce
    <2>1. q \in taken \cup {p} /\ r \in taken \cup {p}
      BY <1>1, <1>2
    <2>2. sub.cycle \in Nat
      BY DEF LedgerInv, TypeInv, TypeOK, SubRow
    <2>3. \A s \in taken : DueOf(s) # sub.cycle
      BY <1>12, <2>2
    <2> QED
      BY <1>13, <2>1, <2>3 DEF PlanInv, ChargesAsPlanned, CollectedOnce
  <1>16. RetrySpacing'
    <2> SUFFICES ASSUME NEW q \in PayIds, NEW r \in PayIds, q # r, pay[q].kind # "none",
                        pay[q].inv = pay[r].inv, chargedAt'[q] # NoTime,
                        chargedAt'[q] <= chargedAt'[r], chargedAt'[r] < MaxTime
                 PROVE  chargedAt'[r] - chargedAt'[q] >= RetryDelay
      BY <1>3 DEF RetrySpacing
    <2>1. CASE q # p /\ r # p
      BY <1>10, <2>1 DEF PlanInv, ChargesAsPlanned, RetrySpacing
    <2>2. CASE r = p
      <3>1. Rested(chargedAt[q], now)
        BY <1>4, <1>9, <1>10, <2>2 DEF ChargedOn
      <3> QED
        BY <1>5, <1>10, <2>2, <3>1 DEF Rested
    <2>3. CASE q = p
      <3>1. chargedAt[r] # NoTime
        BY <1>5, <1>10, <2>3 DEF NoTime
      <3>2. Rested(chargedAt[r], now) /\ chargedAt[r] <= now
        BY <1>4, <1>9, <2>3, <3>1 DEF ChargedOn, PlanInv, ChargeRows
      <3> QED
        BY <1>5, <1>10, <2>3, <3>1, <3>2 DEF Rested
    <2> QED
      BY <2>1, <2>2, <2>3
  <1>17. Job(row)'
    <2>1. row.pc \in AskedPcs /\ row.pc \notin ReadyPcs \cup ChargePcs \cup BeforePcs \cup {"idle"}
      BY <1>1, <1>7 DEF AskedPcs, ReadyPcs, ChargePcs, BeforePcs
    <2> QED
      BY <1>3, <1>7, <1>9, <2>1 DEF Job, InHandPcs, HasCounted
  <1>18. \A e \in DueJobs : Job(wk[e])'
    <2> SUFFICES ASSUME NEW e \in DueJobs PROVE Job(wk[e])'
      OBVIOUS
    <2>1. wk'[e] = row
      BY <1>8
    <2> QED
      BY <1>17, <2>1 DEF Job, Rests, HasCounted, ChargedOn
  <1>19. \A u \in UpcomingJobs : Drafter(wk[u])'
    BY <1>8 DEF PlanInv, Drafter
  <1> QED
    BY <1>3, <1>14, <1>15, <1>16, <1>18, <1>19 DEF PlanInv, ChargesAsPlanned

LEMMA AdvancePlan ==
  ASSUME Undisturbed, LedgerInv, PlanInv, NEW d \in DueJobs, Advance(d)
  PROVE  PlanInv'
  <1>1. /\ wk[d].pc = "advance" /\ Return(d) /\ sub' = [wk[d].sub EXCEPT !.cycle = @ + 1]
        /\ UNCHANGED <<inv, pay, taken, refused, now, offered, chargedAt, aborts>>
    BY DEF Advance, SaveSub, At
  <1>2. /\ wk[d].p \in PayIds /\ pay[wk[d].p].inv = wk[d].i
    BY <1>1, JobFacts, WorkerFacts DEF Holds, HoldPcs, CollectPcs
  <1>3. /\ wk[d].i \in InvIds /\ inv[wk[d].i].due = sub.cycle
        /\ wk[d].sub.cycle = sub.cycle /\ wk[d].sub.src = sub.src /\ sub.src # "none"
        /\ sub.cycle \in Nat
    BY <1>1, JobFacts DEF Job, InHandPcs, ClosedPcs, SubRow
  <1>4. sub'.cycle = sub.cycle + 1 /\ sub'.src = sub.src
    BY <1>1, <1>3, JobFacts DEF SubRow
  <1>5. /\ wk'[d] = Idle /\ (\A e \in DueJobs : e = d)
        /\ \A u \in UpcomingJobs : wk'[u] = wk[u]
    BY <1>1, OnlyJob DEF Return, Becomes
  <1>6. \A e \in DueJobs : Job(wk[e])'
    <2> SUFFICES ASSUME NEW e \in DueJobs PROVE Job(wk[e])'
      OBVIOUS
    <2>1. wk'[e].pc = "idle"
      BY <1>5 DEF Idle
    <2> QED
      BY <2>1
      DEF Job, HasCounted, InHandPcs, ReadyPcs, ChargePcs, AskedPcs, ClosedPcs, BeforePcs
  <1>7. \A u \in UpcomingJobs : Drafter(wk[u])'
    BY <1>5 DEF PlanInv, Drafter
  <1>8. \A q : DueOf(q)' = DueOf(q)
    BY <1>1 DEF DueOf
  <1>9. \A q \in taken : q \in PayIds /\ DueOf(q) \in Nat /\ DueOf(q) < sub.cycle + 1
    <2> SUFFICES ASSUME NEW q \in taken
                 PROVE  q \in PayIds /\ DueOf(q) \in Nat /\ DueOf(q) < sub.cycle + 1
      OBVIOUS
    <2>1. q \in PayIds /\ pay[q].kind # "none"
      BY DEF LedgerInv, Unused, TypeInv, TypeOK
    <2>2. DueOf(q) \in Nat
      BY <2>1, JobFacts DEF PlanInv, ChargeRows, DueOf, InvRow
    <2>3. DueOf(q) < sub.cycle \/ DueOf(q) = sub.cycle
      BY <1>2, <1>3, <1>5, <2>1 DEF PlanInv, ChargeRows, DueOf
    <2> QED
      BY <1>3, <2>1, <2>2, <2>3
  <1>10. \A q \in PayIds : chargedAt[q] # NoTime => Done(q)
    BY <1>1, <1>5 DEF PlanInv, ChargeRows, InFlight, AskedPcs
  <1>11. ChargeRows'
    <2>1. \A q \in PayIds : chargedAt[q] # NoTime => Done(q)'
      BY <1>1, <1>10 DEF Done, Rests
    <2>2. \A q \in taken : DueOf(q)' < sub'.cycle
      BY <1>4, <1>8, <1>9
    <2> QED
      BY <1>1, <1>4, <2>1, <2>2 DEF PlanInv, ChargeRows
  <1>12. RetrySpacing'
    BY <1>1 DEF PlanInv, ChargesAsPlanned, RetrySpacing
  <1>13. CollectedOnce'
    BY <1>1, <1>8 DEF PlanInv, ChargesAsPlanned, CollectedOnce
  <1> QED
    BY <1>1, <1>3, <1>4, <1>6, <1>7, <1>11, <1>12, <1>13 DEF PlanInv, ChargesAsPlanned

\* A step that leaves the job where it is, and keeps the invoices that have
\* been created to their due cycle.
LEMMA OtherPlan ==
  ASSUME Undisturbed, LedgerInv, PlanInv, SameCharges,
         now' \in Nat, now' >= now,
         sub'.cycle = sub.cycle, sub'.src = sub.src,
         sub.src = "none" => sub'.status = sub.status,
         \A d \in DueJobs : wk'[d] = wk[d],
         \A u \in UpcomingJobs : Drafter(wk'[u]),
         \A p \in PayIds : chargedAt[p] # NoTime /\ Done(p) => Done(p)'
  PROVE  PlanInv'
  <1>1. \A i : ChargedOn(i)' = ChargedOn(i)
    BY DEF ChargedOn, SameCharges, PlanInv, ChargeRows
  <1>2. now \in Nat /\ RetryDelay \in Nat /\ MaxTime \in Nat
        /\ chargedAt \in [PayIds -> Nat \cup {NoTime}] /\ chargedAt' = chargedAt
    BY BillingAssumption DEF LedgerInv, TypeInv, TypeOK, SameCharges
  <1>3. \A t \in Nat : Rested(t, now) => Rested(t, now')
    BY <1>2 DEF Rested
  <1>4. ASSUME NEW d \in DueJobs PROVE Job(wk[d])'
    <2>1. PICK k : k = wk[d] /\ wk'[d] = k
      OBVIOUS
    <2>2. Job(k)
      BY <2>1 DEF PlanInv
    <2>3. k.pc \in InHandPcs => inv'[k.i].st # "none" /\ inv'[k.i].due = inv[k.i].due
      BY <2>2 DEF Job, SameCharges
    <2>4. k.pc \in ChargePcs => \A p \in ChargedOn(k.i) : Rested(chargedAt[p], now')
      <3>1. \A p \in ChargedOn(k.i) : chargedAt[p] \in Nat
        BY <1>2 DEF ChargedOn
      <3> QED
        BY <1>3, <2>2, <3>1 DEF Job
    <2>5. Job(k)'
      BY <1>1, <1>2, <2>2, <2>3, <2>4 DEF Job, Rests, HasCounted
    <2> QED
      BY <1>1, <1>2, <2>1, <2>5 DEF Job, Rests, HasCounted
  <1>5. ASSUME NEW p \in PayIds, chargedAt[p] # NoTime PROVE (Done(p) \/ InFlight(p))'
    <2>1. CASE Done(p)
      BY <1>5, <2>1
    <2>2. CASE InFlight(p)
      <3>1. pay'[p].inv = pay[p].inv
        BY <1>5 DEF SameCharges, PlanInv, ChargeRows
      <3> QED
        BY <2>2, <3>1 DEF InFlight
    <2> QED
      BY <1>5, <2>1, <2>2 DEF PlanInv, ChargeRows
  <1>6. \A d \in DueJobs : wk[d].pc \in MoneyPcs => wk'[d].pc \in MoneyPcs /\ wk'[d].p = wk[d].p
    OBVIOUS
  <1> QED
    BY <1>2, <1>4, <1>5, <1>6, PlanKept

\* The job that drafts invoices: it only ever creates one.
LEMMA DrafterPlan ==
  ASSUME Undisturbed, LedgerInv, PlanInv, NEW u \in UpcomingJobs,
         LoadUpcoming(u) \/ Ensure(u) \/ Create(u)
  PROVE  PlanInv'
  <1>1. /\ u \in Workers /\ u \notin DueJobs /\ wk[u] \in Worker
        /\ Drafter(wk[u])
        /\ \A e \in DueJobs \cup UpcomingJobs : e \in Workers
    BY WorkerFacts, BillingAssumption DEF Workers, PlanInv
  <1>2. \E row : Drafter(row) /\ wk' = [wk EXCEPT ![u] = row]
    <2>1. CASE LoadUpcoming(u)
      <3>1. PICK row : row = [wk[u] EXCEPT !.pc = "ensure", !.want = "draft", !.sub = sub]
        OBVIOUS
      <3>2. row.pc = "ensure" /\ row.want = "draft"
        BY <1>1, <3>1 DEF Worker
      <3> QED
        BY <2>1, <3>1, <3>2 DEF LoadUpcoming, Becomes, Drafter
    <2>2. CASE Return(u)
      BY <2>2 DEF Return, Becomes, Drafter, Idle
    <2>3. CASE Goto(u, "create") /\ wk[u].pc = "ensure"
      <3>1. PICK row : row = [wk[u] EXCEPT !.pc = "create"]
        OBVIOUS
      <3>2. row.pc = "create" /\ row.want = "draft"
        BY <1>1, <2>3, <3>1 DEF Worker, Drafter
      <3> QED
        BY <2>3, <3>1, <3>2 DEF Goto, Becomes, Drafter
    <2>4. wk[u].pc # "idle" => wk[u].want = "draft"
      BY <1>1 DEF Drafter
    <2> QED
      BY <2>1, <2>2, <2>3, <2>4 DEF Ensure, Create, At
  <1>3. \A i \in InvIds : inv[i].st # "none" => inv'[i] = inv[i]
    <2>1. inv \in [InvIds -> InvRow]
      BY DEF LedgerInv, TypeInv, TypeOK
    <2> QED
      BY <2>1 DEF LoadUpcoming, Ensure, Create, FreshInvoice, dbVars
  <1>4. UNCHANGED <<sub, pay, taken, refused, chargedAt, offered, aborts, now>> /\ now \in Nat
    BY DEF LoadUpcoming, Ensure, Create, dbVars, Others, history, LedgerInv, TypeInv, TypeOK
  <1>5. SameCharges
    BY <1>3, <1>4 DEF SameCharges
  <1>6. \A p \in PayIds : chargedAt[p] # NoTime /\ Done(p) => Done(p)'
    <2>1. \A p \in PayIds : chargedAt[p] # NoTime => inv'[pay[p].inv] = inv[pay[p].inv]
      BY <1>3 DEF PlanInv, ChargeRows
    <2> QED
      BY <1>4, <2>1 DEF Done, Rests
  <1>7. /\ \A d \in DueJobs : wk'[d] = wk[d]
        /\ \A e \in UpcomingJobs : Drafter(wk'[e])
    <2>1. wk \in [Workers -> Worker]
      BY DEF LedgerInv, TypeInv, TypeOK
    <2> QED
      BY <1>1, <1>2, <2>1 DEF PlanInv
  <1> QED
    BY <1>4, <1>5, <1>6, <1>7, OtherPlan

LEMMA StillPlan ==
  ASSUME Undisturbed, LedgerInv, PlanInv, now' \in Nat, now' >= now,
         UNCHANGED <<sub, inv, pay, taken, refused, chargedAt, offered, aborts, wk>>
  PROVE  PlanInv'
  <1>1. SameCharges /\ \A p \in PayIds : chargedAt[p] # NoTime /\ Done(p) => Done(p)'
    BY DEF SameCharges, Done, Rests, PlanInv, ChargeRows
  <1>2. \A u \in UpcomingJobs : Drafter(wk'[u])
    BY DEF PlanInv
  <1> QED
    BY <1>1, <1>2, OtherPlan

\* The webhooks: no order is ever made, so only the failure of a charge counts.
LEMMA OutsidePlan ==
  ASSUME Undisturbed, LedgerInv, PlanInv, Outside
  PROVE  PlanInv'
  <1>1. now \in Nat /\ inv \in [InvIds -> InvRow] /\ pay \in [PayIds -> PayRow]
        /\ taken \subseteq PayIds
    BY DEF LedgerInv, TypeInv, TypeOK
  <1>2. CASE CardUpdated
    BY <1>1, <1>2, StillPlan DEF CardUpdated, pspVars, history
  <1>3. ASSUME NEW p \in PayIds, Pay(p) \/ Decline(p) \/ PaymentSuccess(p)
        PROVE  FALSE
    <2>1. offered = {} /\ pay[p].kind # "checkout"
      BY DEF PlanInv, ChargeRows
    <2> QED
      BY <1>3, <2>1 DEF Pay, Decline, PaymentSuccess
  <1>4. ASSUME NEW p \in PayIds, PaymentFailed(p)
        PROVE  PlanInv'
    <2>1. /\ p \in refused /\ pay[p].kind # "none" /\ pay[p].inv \in InvIds
          /\ inv[pay[p].inv].st # "none" /\ sub.src # "none"
      BY <1>4 DEF PaymentFailed, PlanInv, ChargeRows
    <2>2. /\ sub' = [sub EXCEPT !.status = "paused"]
          /\ UNCHANGED <<now, taken, refused, chargedAt, offered, aborts, wk>>
      BY <1>4 DEF PaymentFailed, pspVars, history
    <2>3. /\ sub'.cycle = sub.cycle /\ sub'.src = sub.src
      BY <2>2 DEF LedgerInv, TypeInv, TypeOK, SubRow
    <2>4. PICK r, row :
            /\ pay' = [pay EXCEPT ![p] = r] /\ inv' = [inv EXCEPT ![pay[p].inv] = row]
            /\ r.kind = pay[p].kind /\ r.inv = pay[p].inv
            /\ row.st = "failed" /\ row.due = inv[pay[p].inv].due
      <3>1. /\ pay[p] \in PayRow /\ inv[pay[p].inv] \in InvRow
        BY <1>1, <2>1
      <3>2. PICK r : r = [pay[p] EXCEPT !.intent = "failed",
                                        !.init = IF pay[p].kind = "checkout" THEN "failed" ELSE @]
        OBVIOUS
      <3>3. PICK row : row = [inv[pay[p].inv] EXCEPT !.st = "failed",
                                                     !.attempts = IF @ = 0 THEN 1 ELSE @]
        OBVIOUS
      <3>4. r.kind = pay[p].kind /\ r.inv = pay[p].inv
        BY <3>1, <3>2 DEF PayRow
      <3>5. row.st = "failed" /\ row.due = inv[pay[p].inv].due
        BY <3>1, <3>3 DEF InvRow
      <3>6. pay' = [pay EXCEPT ![p] = r] /\ inv' = [inv EXCEPT ![pay[p].inv] = row]
        BY <1>4, <3>2, <3>3 DEF PaymentFailed
      <3> QED
        BY <3>4, <3>5, <3>6
    <2>5. \A i \in InvIds : /\ inv'[i] = inv[i] \/ inv'[i].st = "failed"
                            /\ inv'[i].due = inv[i].due
      BY <1>1, <2>1, <2>4
    <2>6. \A q \in PayIds : pay'[q].kind = pay[q].kind /\ pay'[q].inv = pay[q].inv
      BY <1>1, <2>4
    <2>7. SameCharges
      BY <2>2, <2>5, <2>6 DEF SameCharges, PlanInv, ChargeRows
    <2>8. \A q \in PayIds : chargedAt[q] # NoTime /\ Done(q) => Done(q)'
      <3>1. \A q \in PayIds : chargedAt[q] # NoTime => pay[q].inv \in InvIds
        BY DEF PlanInv, ChargeRows
      <3> QED
        BY <2>2, <2>5, <2>6, <3>1 DEF Done, Rests
    <2>9. \A u \in UpcomingJobs : Drafter(wk'[u])
      BY <2>2 DEF PlanInv
    <2> QED
      BY <1>1, <2>1, <2>2, <2>3, <2>7, <2>8, <2>9, OtherPlan
  <1> QED
    BY <1>2, <1>3, <1>4 DEF Outside

LEMMA InitPlan == Init => PlanInv
  <1> SUFFICES ASSUME Init PROVE PlanInv
    OBVIOUS
  <1>1. \A w \in Workers : wk[w].pc = "idle"
    BY DEF Init, Idle
  <1>2. \A d \in DueJobs : Job(wk[d])
    BY <1>1 DEF Workers, Job, HasCounted, InHandPcs, ReadyPcs, ChargePcs, AskedPcs,
                ClosedPcs, BeforePcs
  <1>3. \A u \in UpcomingJobs : Drafter(wk[u])
    BY <1>1 DEF Workers, Drafter
  <1>4. ChargeRows
    BY DEF Init, ChargeRows, NoPayment
  <1>5. ChargesAsPlanned
    BY DEF Init, ChargesAsPlanned, RetrySpacing, CollectedOnce, NoPayment
  <1>6. sub.src = "none" => sub.status \notin {"active", "past_due"}
    BY ScenarioAssumption DEF Init, FirstSub, OriginKinds
  <1> QED
    BY <1>2, <1>3, <1>4, <1>5, <1>6 DEF Init, PlanInv

\* A drafting job is nowhere but at the check for an invoice and its creation.
LEMMA DrafterMoves ==
  ASSUME PlanInv, NEW u \in UpcomingJobs, Step(u)
  PROVE  Ensure(u) \/ Create(u)
  <1>1. wk[u].pc \in {"idle", "ensure", "create"}
    BY DEF PlanInv, Drafter
  <1> QED
    BY <1>1
    DEF Step, At, Open, Attach, FindSource, Verify, Intent, Count, Initiate, Charge, Accept,
        Complete, Settle, Reject, RejectInit, FailInvoice, FailSubscription, MarkPaid, Advance,
        Order, Offer, SaveOrder, SaveLink, ReadSub, RetryReopen, RetryUnpause, LinkOpen,
        RefundAsk, RefundCommit

\* No call ends and nothing is interrupted.
LEMMA NothingElse ==
  ASSUME Undisturbed, PlanInv, NEW w \in Workers
  PROVE  ~Commit(w) /\ ~Fault(w)
  <1>1. w \in DueJobs \cup UpcomingJobs
    BY DEF Workers, Undisturbed
  <1>2. wk[w].pc \notin {"cancel", "disable", "disableLinked", "disableOnly", "mandate", "store"}
    BY <1>1 DEF PlanInv, Job, Drafter, InHandPcs, ReadyPcs, ChargePcs, AskedPcs, ClosedPcs
  <1>3. ~(aborts < MaxAborts)
    BY DEF PlanInv, Undisturbed
  <1> QED
    BY <1>2, <1>3
    DEF Commit, CancelCommit, DisableFind, DisableCommit, DropMandate, Store, At,
        Fault, Abort, ChargeAnswerLost, IgnoredError

LEMMA PlanStep ==
  ASSUME Undisturbed, LedgerInv, PlanInv, [Next]_vars
  PROVE  PlanInv'
  <1>1. CASE Tick \/ UNCHANGED vars
    <2>1. now \in Nat /\ now' \in Nat /\ now' >= now
      BY <1>1 DEF Tick, vars, LedgerInv, TypeInv, TypeOK
    <2> QED
      BY <1>1, <2>1, StillPlan DEF Tick, vars, pspVars, history
  <1>2. ASSUME NEW d \in DueJobs, Step(d)
        PROVE  PlanInv'
    <2>1. wk[d].pc \notin {"order", "offer", "saveOrder", "saveLink", "retry", "link", "reopen",
                           "unpause", "openLink", "refund", "refunded"}
      BY DEF PlanInv, Job, InHandPcs, ReadyPcs, ChargePcs, AskedPcs, ClosedPcs
    <2> QED
      BY <1>2, <2>1, EnsurePlan, CreatePlan, AttachPlan, TurnPlan, IntentPlan, StorePlan,
         ChargePlan, FailSubscriptionPlan, AdvancePlan
      DEF Step, Order, Offer, SaveOrder, SaveLink, ReadSub, RetryReopen, RetryUnpause, LinkOpen,
          RefundAsk, RefundCommit, At
  <1>3. ASSUME NEW u \in UpcomingJobs, Step(u)
        PROVE  PlanInv'
    BY <1>3, DrafterMoves, DrafterPlan
  <1>4. \A w \in Workers : ~Commit(w) /\ ~Fault(w)
    BY NothingElse
  <1> QED
    BY <1>1, <1>2, <1>3, <1>4, LoadPlan, DrafterPlan, OutsidePlan
    DEF Next, Workers, Undisturbed

\* One replica of the billing job, with no API call and no interruption: retries
\* of an invoice are a day apart, and a cycle is paid for once, however long the
\* system runs, and whatever webhooks and drafting jobs come between.
THEOREM ChargesAsPlannedCorrect ==
  ASSUME Undisturbed
  PROVE  Spec => []ChargesAsPlanned
  <1>1. LedgerInv /\ PlanInv /\ [Next]_vars => PlanInv'
    BY PlanStep
  <1>2. PlanInv => ChargesAsPlanned
    BY DEF PlanInv
  <1> QED
    BY LedgerCorrect, InitPlan, <1>1, <1>2, PTL DEF Spec
-----------------------------------------------------------------------------
(* Closed invoices *)

\* The job goes on with row; the rows of the database stay.
LEMMA ClosedTurn ==
  ASSUME Undisturbed, LedgerInv, ClosedInv, UNCHANGED <<sub, inv, source>>,
         NEW d \in DueJobs, NEW row, wk' = [wk EXCEPT ![d] = row],
         wk[d].pc \notin {"pause", "advance"},
         row.pc # "idle" =>
           /\ row.sub = sub /\ sub.status \in {"active", "past_due"}
           /\ row.pc \in {"failHard", "verify"} => sub.src = "bank"
           /\ row.pc \in InHandPcs \ {"pause", "advance"} => row.inv.st \in {"draft", "open"}
  PROVE  ClosedInv'
  <1>1. /\ wk'[d] = row /\ (\A e \in DueJobs : e = d)
        /\ \A u \in UpcomingJobs : wk'[u] = wk[u]
    BY OnlyJob
  <1> QED
    BY <1>1 DEF ClosedInv

LEMMA ClosedGoto ==
  ASSUME Undisturbed, LedgerInv, PlanInv, ClosedInv, UNCHANGED <<sub, inv, source>>,
         NEW d \in DueJobs, NEW pc, Goto(d, pc),
         wk[d].pc \notin {"idle", "pause", "advance"}, pc # "idle",
         pc \in {"failHard", "verify"} => sub.src = "bank",
         pc \in InHandPcs \ {"pause", "advance"} => wk[d].pc \in InHandPcs
  PROVE  ClosedInv'
  <1>1. PICK row : row = [wk[d] EXCEPT !.pc = pc]
    OBVIOUS
  <1>2. /\ wk' = [wk EXCEPT ![d] = row] /\ row.pc = pc /\ row.inv = wk[d].inv
        /\ row.sub = wk[d].sub
    BY <1>1, JobFacts DEF Goto, Becomes, Worker
  <1> QED
    BY <1>2, ClosedTurn DEF ClosedInv

LEMMA ClosedReturn ==
  ASSUME Undisturbed, LedgerInv, ClosedInv, UNCHANGED <<sub, inv, source>>,
         NEW d \in DueJobs, Return(d), wk[d].pc \notin {"pause", "advance"}
  PROVE  ClosedInv'
  BY ClosedTurn DEF Return, Becomes, Idle

\* The job stores row as its copy of the invoice of this cycle.
LEMMA ClosedStore ==
  ASSUME Undisturbed, LedgerInv, PlanInv, ClosedInv,
         NEW d \in DueJobs, wk[d].pc \in InHandPcs \ {"pause", "advance"},
         NEW row, NEW pc, SaveInvoice(d, row, pc), UNCHANGED source, row.due = wk[d].inv.due,
         \/ row.st \in {"draft", "open"} /\ pc \notin {"idle", "failHard", "verify"}
         \/ /\ row.st = "failed" /\ pc = "pause"
            /\ ~AllowRetries \/ sub.src = "bank" \/ row.attempts >= MaxAttempts
         \/ row.st = "paid" /\ pc = "advance"
  PROVE  ClosedInv'
  <1>1. PICK k : k = [wk[d] EXCEPT !.inv = row, !.pc = pc]
    OBVIOUS
  <1>2. /\ wk' = [wk EXCEPT ![d] = k] /\ k.pc = pc /\ k.inv = row /\ k.sub = wk[d].sub
    BY <1>1, JobFacts DEF SaveInvoice, Becomes, Worker
  <1>3. /\ wk'[d] = k /\ (\A e \in DueJobs : e = d)
        /\ \A u \in UpcomingJobs : wk'[u] = wk[u]
    BY <1>2, OnlyJob
  <1>4. wk[d].i \in InvIds /\ wk[d].inv.due = sub.cycle /\ sub.cycle \in Nat /\ sub' = sub
        /\ wk[d].pc # "idle"
    BY JobFacts
    DEF Job, SubRow, SaveInvoice, InHandPcs, ReadyPcs, ChargePcs, AskedPcs, ClosedPcs
  <1>5. \A i \in InvIds : inv'[i] = IF i = wk[d].i THEN row ELSE inv[i]
    BY JobFacts DEF SaveInvoice
  <1>6. \A i \in InvIds :
          /\ inv'[i].st # "refunded" /\ inv'[i].due <= sub.cycle
          /\ inv'[i].st = "failed" =>
               /\ ~AllowRetries \/ sub.src = "bank" \/ inv'[i].attempts >= MaxAttempts
               /\ \/ inv'[i].due < sub.cycle \/ sub.status = "paused"
                  \/ \E e \in DueJobs : wk'[e].pc = "pause"
          /\ inv'[i].st = "paid" =>
               inv'[i].due < sub.cycle \/ \E e \in DueJobs : wk'[e].pc = "advance"
    <2> SUFFICES ASSUME NEW i \in InvIds
                 PROVE  /\ inv'[i].st # "refunded" /\ inv'[i].due <= sub.cycle
                        /\ inv'[i].st = "failed" =>
                             /\ ~AllowRetries \/ sub.src = "bank" \/ inv'[i].attempts >= MaxAttempts
                             /\ \/ inv'[i].due < sub.cycle \/ sub.status = "paused"
                                \/ \E e \in DueJobs : wk'[e].pc = "pause"
                        /\ inv'[i].st = "paid" =>
                             inv'[i].due < sub.cycle \/ \E e \in DueJobs : wk'[e].pc = "advance"
      OBVIOUS
    <2>1. CASE i = wk[d].i
      <3>1. inv'[i] = row /\ row.due = sub.cycle
        BY <1>4, <1>5, <2>1
      <3> QED
        BY <1>2, <1>3, <1>4, <3>1
    <2>2. CASE i # wk[d].i
      <3>1. inv'[i] = inv[i]
        BY <1>5, <2>2
      <3>2. ~\E e \in DueJobs : wk[e].pc \in {"pause", "advance"}
        BY <1>3
      <3> QED
        BY <3>1, <3>2 DEF ClosedInv
    <2> QED
      BY <2>1, <2>2
  <1>7. \A e \in DueJobs : wk'[e].pc # "idle" =>
          /\ wk'[e].sub = sub /\ sub.status \in {"active", "past_due"}
          /\ wk'[e].pc \in {"failHard", "verify"} => sub.src = "bank"
          /\ wk'[e].pc \in InHandPcs \ {"pause", "advance"} => wk'[e].inv.st \in {"draft", "open"}
    BY <1>2, <1>3, <1>4 DEF ClosedInv
  <1> QED
    BY <1>3, <1>4, <1>6, <1>7 DEF ClosedInv

LEMMA StoreClosed ==
  ASSUME Undisturbed, LedgerInv, PlanInv, ClosedInv, NEW d \in DueJobs,
         Open(d) \/ Count(d) \/ FailInvoice(d) \/ MarkPaid(d)
  PROVE  ClosedInv'
  <1> DEFINE k == wk[d]
  <1>1. /\ k.inv \in InvRow /\ k.inv.attempts \in Nat
    BY JobFacts DEF InvRow
  <1>2. k.pc \in InHandPcs \ {"pause", "advance"} /\ source' = source
    BY DEF Open, Count, FailInvoice, MarkPaid, At, SaveInvoice, Others,
           InHandPcs, ReadyPcs, ChargePcs, AskedPcs, ClosedPcs
  <1>3. k.inv.st \in {"draft", "open"} /\ (k.pc = "failHard" => sub.src = "bank")
    BY <1>2 DEF ClosedInv, InHandPcs, ReadyPcs, ChargePcs, AskedPcs, ClosedPcs
  <1>4. CASE Open(d)
    <2>1. PICK row : row = [k.inv EXCEPT !.st = "open"]
      OBVIOUS
    <2>2. row.st = "open" /\ row.due = k.inv.due /\ SaveInvoice(d, row, "attach")
      BY <1>1, <1>4, <2>1 DEF InvRow, Open
    <2> QED
      BY <1>2, <2>2, ClosedStore
  <1>5. CASE Count(d)
    <2>1. PICK row : row = [k.inv EXCEPT !.attempts = @ + 1]
      OBVIOUS
    <2>2. row.st = k.inv.st /\ row.due = k.inv.due
      BY <1>1, <2>1 DEF InvRow
    <2>3. PICK pc \in {"initiate", "charge"} : SaveInvoice(d, row, pc)
      BY <1>5, <2>1 DEF Count
    <2> QED
      BY <1>2, <1>3, <2>2, <2>3, ClosedStore
  <1>6. CASE MarkPaid(d)
    <2>1. PICK row : row = [k.inv EXCEPT !.st = "paid"]
      OBVIOUS
    <2>2. row.st = "paid" /\ row.due = k.inv.due /\ SaveInvoice(d, row, "advance")
      BY <1>1, <1>6, <2>1 DEF InvRow, MarkPaid
    <2> QED
      BY <1>2, <2>2, ClosedStore
  <1>7. CASE FailInvoice(d)
    <2>1. ASSUME SaveInvoice(d, [k.inv EXCEPT !.st = "failed"], "pause"),
                 k.pc = "failHard" \/ ~(AllowRetries /\ k.inv.attempts < MaxAttempts)
          PROVE  ClosedInv'
      <3>1. PICK row : row = [k.inv EXCEPT !.st = "failed"]
        OBVIOUS
      <3>2. /\ row.st = "failed" /\ row.due = k.inv.due /\ row.attempts = k.inv.attempts
            /\ SaveInvoice(d, row, "pause")
        BY <1>1, <2>1, <3>1 DEF InvRow
      <3>3. ~AllowRetries \/ sub.src = "bank" \/ row.attempts >= MaxAttempts
        BY <1>1, <1>3, <2>1, <3>2 DEF MaxAttempts
      <3> QED
        BY <1>2, <3>2, <3>3, ClosedStore
    <2>2. ASSUME NEW at, SaveInvoice(d, [k.inv EXCEPT !.next = at], "pastDue")
          PROVE  ClosedInv'
      <3>1. PICK row : row = [k.inv EXCEPT !.next = at]
        OBVIOUS
      <3>2. row.st = k.inv.st /\ row.due = k.inv.due /\ SaveInvoice(d, row, "pastDue")
        BY <1>1, <2>2, <3>1 DEF InvRow
      <3> QED
        BY <1>2, <1>3, <3>2, ClosedStore
    <2> QED
      BY <1>7, <2>1, <2>2 DEF FailInvoice, At
  <1> QED
    BY <1>4, <1>5, <1>6, <1>7

\* The steps of the job that change neither invoice nor subscription.
LEMMA TurnClosed ==
  ASSUME Undisturbed, LedgerInv, PlanInv, ClosedInv, NEW d \in DueJobs,
         \/ LoadDue(d) \/ Ensure(d) \/ Attach(d) \/ FindSource(d) \/ Verify(d) \/ Intent(d)
         \/ Initiate(d) \/ Charge(d) \/ Accept(d) \/ Complete(d) \/ Settle(d)
         \/ Reject(d) \/ RejectInit(d)
  PROVE  ClosedInv'
  <1>1. /\ Job(wk[d]) /\ wk[d] \in Worker /\ wk[d].sub.src \in Kinds \cup {"none"}
        /\ wk[d].pc # "idle" => wk[d].sub = sub /\ sub.src # "none"
                                /\ sub.status \in {"active", "past_due"}
        /\ sub.src = "card" => source["card"] = "active"
    BY JobFacts DEF Job, SubRow, ClosedInv
  <1>2. UNCHANGED <<inv, source>>
    BY DEF LoadDue, Ensure, Attach, FindSource, Verify, Intent, Initiate, Charge, Accept,
           Complete, Settle, Reject, RejectInit, dbVars, Others
  <1>3. /\ sub' = sub
        /\ wk[d].pc \in {"idle", "ensure"} \cup ReadyPcs \cup ChargePcs
                        \cup {"accept", "complete", "settle", "reject", "failInit"}
    BY <1>1 DEF LoadDue, Ensure, Attach, FindSource, Verify, Intent, Initiate, Charge, Accept,
                Complete, Settle, Reject, RejectInit, dbVars, At, ReadyPcs, ChargePcs
  <1>4. wk[d].pc \notin {"pause", "advance"}
    BY <1>3 DEF ReadyPcs, ChargePcs
  <1>5. CASE LoadDue(d)
    <2>1. PICK row : row = [wk[d] EXCEPT !.pc = "ensure", !.want = "open", !.sub = sub]
      OBVIOUS
    <2>2. /\ wk' = [wk EXCEPT ![d] = row] /\ row.pc = "ensure" /\ row.sub = sub
          /\ sub.status \in {"active", "past_due"}
      BY <1>1, <1>5, <2>1 DEF LoadDue, Becomes, Worker
    <2> QED
      BY <1>2, <1>3, <1>4, <2>2, ClosedTurn DEF InHandPcs, ReadyPcs, ChargePcs, AskedPcs, ClosedPcs
  <1>6. CASE Ensure(d)
    <2>1. wk[d].pc = "ensure"
      BY <1>6 DEF Ensure, At
    <2>2. CASE Goto(d, "create")
      BY <1>2, <1>3, <2>1, <2>2, ClosedGoto DEF InHandPcs, ReadyPcs, ChargePcs, AskedPcs, ClosedPcs
    <2>3. CASE Return(d)
      BY <1>2, <1>3, <1>4, <2>3, ClosedReturn
    <2>4. ASSUME NEW i \in InvIds, inv[i].st \notin {"none", "paid", "failed"},
                 NEW pc \in {"open", "attach"},
                 Becomes(d, [wk[d] EXCEPT !.i = i, !.inv = inv[i], !.pc = pc])
          PROVE  ClosedInv'
      <3>1. PICK row : row = [wk[d] EXCEPT !.i = i, !.inv = inv[i], !.pc = pc]
        OBVIOUS
      <3>2. /\ wk' = [wk EXCEPT ![d] = row] /\ row.pc = pc /\ row.sub = wk[d].sub
            /\ row.inv = inv[i]
        BY <1>1, <2>4, <3>1 DEF Becomes, Worker
      <3>3. inv[i].st \in {"draft", "open"}
        BY <2>4, JobFacts DEF InvRow, InvStatus, ClosedInv
      <3> QED
        BY <1>1, <1>2, <1>3, <1>4, <2>1, <3>2, <3>3, ClosedTurn
    <2>5. ASSUME NEW i \in InvoicesDue(wk[d].sub.cycle),
                 IF wk[d].want = "draft" \/ inv[i].st \in {"paid", "failed"}
                 THEN Return(d)
                 ELSE Becomes(d, [wk[d] EXCEPT !.i = i, !.inv = inv[i],
                               !.pc = IF inv[i].st = "draft" THEN "open" ELSE "attach"])
          PROVE  ClosedInv'
      <3>1. i \in InvIds /\ inv[i].st # "none"
        BY DEF InvoicesDue
      <3>2. Return(d) \/ \E pc \in {"open", "attach"} :
                           /\ inv[i].st \notin {"paid", "failed"}
                           /\ Becomes(d, [wk[d] EXCEPT !.i = i, !.inv = inv[i], !.pc = pc])
        BY <2>5
      <3> QED
        BY <2>3, <2>4, <3>1, <3>2
    <2> QED
      BY <1>6, <2>2, <2>5 DEF Ensure
  <1>7. CASE Intent(d)
    <2>0. PICK p \in PayIds :
            Becomes(d, [wk[d] EXCEPT !.p = p,
                         !.pc = IF Kind(d) = "card" THEN "count" ELSE "initiate"])
      BY <1>7 DEF Intent
    <2>1. PICK pc \in {"count", "initiate"} : Becomes(d, [wk[d] EXCEPT !.p = p, !.pc = pc])
      BY <2>0
    <2>2. PICK row : row = [wk[d] EXCEPT !.p = p, !.pc = pc]
      OBVIOUS
    <2>3. /\ wk' = [wk EXCEPT ![d] = row] /\ row.pc = pc /\ row.sub = wk[d].sub
          /\ row.inv = wk[d].inv /\ wk[d].pc = "intent"
      BY <1>1, <1>7, <2>1, <2>2 DEF Becomes, Worker, Intent, At
    <2>4. wk[d].pc \in InHandPcs \ {"pause", "advance"}
      BY <2>3 DEF InHandPcs, ChargePcs
    <2> QED
      BY <1>1, <1>2, <1>3, <1>4, <2>1, <2>3, <2>4, ClosedTurn DEF ClosedInv
  <1>8. CASE Return(d)
    BY <1>2, <1>3, <1>4, <1>8, ClosedReturn
  <1>9. ASSUME NEW pc, Goto(d, pc), wk[d].pc \notin {"idle", "ensure"}, pc # "idle",
               pc \in {"failHard", "verify"} => sub.src = "bank"
        PROVE  ClosedInv'
    <2>1. wk[d].pc \in InHandPcs
      BY <1>3, <1>9 DEF InHandPcs, AskedPcs
    <2> QED
      BY <1>2, <1>3, <1>4, <1>9, <2>1, ClosedGoto
  <1>10. CASE FindSource(d)
    <2>1. wk[d].pc = "source" /\ wk[d].sub.src = sub.src
      BY <1>1, <1>10 DEF FindSource, At
    <2>2. CASE sub.src = "card"
      <3>1. Goto(d, "intent")
        BY <1>1, <1>10, <2>1, <2>2 DEF FindSource
      <3> QED
        BY <1>9, <2>1, <3>1
    <2>3. CASE sub.src = "bank"
      <3>1. Goto(d, "failHard") \/ Goto(d, "verify")
        BY <1>10, <2>1, <2>3 DEF FindSource
      <3> QED
        BY <1>9, <2>1, <2>3, <3>1
    <2> QED
      BY <1>1, <2>1, <2>2, <2>3 DEF Kinds
  <1>11. CASE Verify(d)
    <2>1. wk[d].pc = "verify"
      BY <1>11 DEF Verify, At
    <2>2. sub.src = "bank"
      BY <2>1 DEF ClosedInv
    <2> QED
      BY <1>9, <1>11, <2>1, <2>2 DEF Verify
  <1>12. CASE Attach(d) \/ Initiate(d) \/ Charge(d) \/ Accept(d) \/ Complete(d) \/ Settle(d)
              \/ Reject(d) \/ RejectInit(d)
    <2>1. \/ Return(d)
          \/ \E pc \in {"source", "charge", "count", "accept", "reject", "paid", "complete",
                        "settle", "failInit", "failSoft"} : Goto(d, pc)
      BY <1>12
      DEF Attach, Initiate, Charge, Accept, Complete, Settle, Reject, AfterReject, RejectInit
    <2>2. wk[d].pc \notin {"idle", "ensure"}
      BY <1>12
      DEF Attach, Initiate, Charge, Accept, Complete, Settle, Reject, RejectInit, At
    <2> QED
      BY <1>8, <1>9, <2>1, <2>2
  <1> QED
    BY <1>5, <1>6, <1>7, <1>10, <1>11, <1>12

\* Worker w creates an invoice of a cycle that has come or is about to.
LEMMA CreateClosed ==
  ASSUME Undisturbed, LedgerInv, PlanInv, ClosedInv, NEW w \in Workers, Create(w)
  PROVE  ClosedInv'
  <1>1. PICK new : new = NewInv(wk[w].sub.cycle, wk[w].want)
    OBVIOUS
  <1>2. PICK i \in InvIds :
          /\ inv[i].st = "none" /\ inv' = [inv EXCEPT ![i] = new]
          /\ IF wk[w].want = "draft"
             THEN Return(w)
             ELSE Becomes(w, [wk[w] EXCEPT !.i = i, !.inv = new, !.pc = "attach"])
    BY <1>1 DEF Create, FreshInvoice
  <1>3. /\ UNCHANGED <<sub, source>> /\ wk[w].pc = "create" /\ wk[w] \in Worker
        /\ inv \in [InvIds -> InvRow] /\ sub.cycle \in Nat /\ wk \in [Workers -> Worker]
    BY WorkerFacts DEF Create, Others, At, LedgerInv, TypeInv, TypeOK, SubRow
  <1>4. new.st \in {"draft", "open"} /\ new.due = wk[w].sub.cycle
    BY <1>1, <1>3 DEF NewInv, Worker
  <1>5. w \in DueJobs \/ w \in UpcomingJobs
    BY DEF Workers, Undisturbed
  <1>6. new.due <= sub.cycle
    BY <1>3, <1>4, <1>5 DEF ClosedInv
  <1>7. \E row : /\ wk' = [wk EXCEPT ![w] = row]
                 /\ \/ row.pc = "idle" /\ row.sub.cycle = 0
                    \/ row.pc = "attach" /\ row.sub = wk[w].sub /\ row.inv = new
    <2>1. CASE Return(w)
      <3>1. PICK row : row = Idle
        OBVIOUS
      <3>2. row.pc = "idle" /\ row.sub.cycle = 0
        BY <3>1 DEF Idle
      <3> QED
        BY <2>1, <3>1, <3>2 DEF Return, Becomes
    <2>2. CASE Becomes(w, [wk[w] EXCEPT !.i = i, !.inv = new, !.pc = "attach"])
      <3>1. PICK row : row = [wk[w] EXCEPT !.i = i, !.inv = new, !.pc = "attach"]
        OBVIOUS
      <3>2. row.pc = "attach" /\ row.sub = wk[w].sub /\ row.inv = new
        BY <1>3, <3>1 DEF Worker
      <3> QED
        BY <2>2, <3>1, <3>2 DEF Becomes
    <2> QED
      BY <1>2, <2>1, <2>2
  <1>8. /\ \A v \in Workers : v # w => wk'[v] = wk[v]
        /\ \/ wk'[w].pc = "idle" /\ wk'[w].sub.cycle = 0
           \/ wk'[w].pc = "attach" /\ wk'[w].sub = wk[w].sub /\ wk'[w].inv = new
    BY <1>3, <1>7
  <1>9. \A j \in InvIds : inv'[j] = IF j = i THEN new ELSE inv[j]
    BY <1>2, <1>3
  <1>10. \A e \in DueJobs \cup UpcomingJobs : e \in Workers
    BY DEF Workers
  <1>11. \A e \in DueJobs : wk'[e].pc # "idle" =>
          /\ wk'[e].sub = sub /\ sub.status \in {"active", "past_due"}
          /\ wk'[e].pc \in {"failHard", "verify"} => sub.src = "bank"
          /\ wk'[e].pc \in InHandPcs \ {"pause", "advance"} => wk'[e].inv.st \in {"draft", "open"}
    BY <1>3, <1>4, <1>8, <1>10 DEF ClosedInv
  <1>12. \A u \in UpcomingJobs : wk'[u].sub.cycle <= sub.cycle
    BY <1>3, <1>8, <1>10 DEF ClosedInv
  <1>13. \A e \in DueJobs : wk[e].pc \in {"pause", "advance"} => wk'[e] = wk[e]
    BY <1>3, <1>8, <1>10
  <1>14. \A j \in InvIds :
          /\ inv'[j].st # "refunded" /\ inv'[j].due <= sub.cycle
          /\ inv'[j].st = "failed" =>
               /\ ~AllowRetries \/ sub.src = "bank" \/ inv'[j].attempts >= MaxAttempts
               /\ \/ inv'[j].due < sub.cycle \/ sub.status = "paused"
                  \/ \E e \in DueJobs : wk'[e].pc = "pause"
          /\ inv'[j].st = "paid" =>
               inv'[j].due < sub.cycle \/ \E e \in DueJobs : wk'[e].pc = "advance"
    <2> SUFFICES ASSUME NEW j \in InvIds, j # i
                 PROVE  /\ inv'[j].st # "refunded" /\ inv'[j].due <= sub.cycle
                        /\ inv'[j].st = "failed" =>
                             /\ ~AllowRetries \/ sub.src = "bank" \/ inv'[j].attempts >= MaxAttempts
                             /\ \/ inv'[j].due < sub.cycle \/ sub.status = "paused"
                                \/ \E e \in DueJobs : wk'[e].pc = "pause"
                        /\ inv'[j].st = "paid" =>
                             inv'[j].due < sub.cycle \/ \E e \in DueJobs : wk'[e].pc = "advance"
      BY <1>4, <1>6, <1>9
    <2>1. inv'[j] = inv[j]
      BY <1>9
    <2> QED
      BY <1>13, <2>1 DEF ClosedInv
  <1> QED
    BY <1>3, <1>11, <1>12, <1>14 DEF ClosedInv

\* The last write of the function closes the cycle, or leaves it to a retry.
LEMMA LastClosed ==
  ASSUME Undisturbed, LedgerInv, PlanInv, ClosedInv, NEW d \in DueJobs,
         FailSubscription(d) \/ Advance(d)
  PROVE  ClosedInv'
  <1>1. /\ Return(d) /\ UNCHANGED <<inv, source>> /\ wk[d].pc \in {"pastDue", "pause", "advance"}
        /\ wk[d].sub = sub /\ sub \in SubRow /\ inv \in [InvIds -> InvRow]
        /\ sub.src # "none" /\ sub.status \in {"active", "past_due"}
    BY JobFacts DEF FailSubscription, Advance, SaveSub, At, ClosedInv, Job
  <1>2. /\ wk'[d] = Idle /\ (\A e \in DueJobs : e = d)
        /\ \A u \in UpcomingJobs : wk'[u] = wk[u]
    BY <1>1, OnlyJob DEF Return, Becomes
  <1>3. /\ sub'.src = sub.src /\ sub'.status # "canceled" /\ sub'.cycle \in Nat
        /\ wk[d].pc = "pause" => sub'.status = "paused" /\ sub'.cycle = sub.cycle
        /\ wk[d].pc = "pastDue" => sub'.cycle = sub.cycle
        /\ wk[d].pc = "advance" => sub'.cycle = sub.cycle + 1
    BY <1>1 DEF FailSubscription, Advance, SaveSub, At, SubRow
  <1>4. sub.cycle \in Nat /\ sub.cycle <= sub'.cycle
    BY <1>1, <1>3 DEF SubRow
  <1>5. \A u \in UpcomingJobs : wk[u].sub.cycle \in Nat
    BY WorkerFacts DEF Workers, SubRow
  <1>6. ASSUME NEW i \in InvIds
        PROVE  /\ inv[i].st # "refunded" /\ inv[i].due <= sub'.cycle
               /\ inv[i].st = "failed" =>
                    /\ ~AllowRetries \/ sub.src = "bank" \/ inv[i].attempts >= MaxAttempts
                    /\ inv[i].due < sub'.cycle \/ sub'.status = "paused"
               /\ inv[i].st = "paid" => inv[i].due < sub'.cycle
    <2>1. inv[i].due \in Nat /\ inv[i].due <= sub.cycle /\ inv[i].st # "refunded"
      BY <1>1 DEF InvRow, ClosedInv
    <2>2. /\ inv[i].st = "failed" =>
               /\ ~AllowRetries \/ sub.src = "bank" \/ inv[i].attempts >= MaxAttempts
               /\ inv[i].due < sub.cycle \/ wk[d].pc = "pause"
          /\ inv[i].st = "paid" => inv[i].due < sub.cycle \/ wk[d].pc = "advance"
      BY <1>1, <1>2 DEF ClosedInv
    <2> QED
      BY <1>1, <1>3, <1>4, <2>1, <2>2
  <1>7. \A u \in UpcomingJobs : wk'[u].sub.cycle <= sub'.cycle
    BY <1>2, <1>3, <1>4, <1>5 DEF ClosedInv
  <1>8. \A e \in DueJobs : wk'[e].pc = "idle"
    BY <1>2 DEF Idle
  <1> QED
    BY <1>1, <1>3, <1>6, <1>7, <1>8 DEF ClosedInv

\* The drafting job looks for an invoice before it creates one.
LEMMA DrafterClosed ==
  ASSUME Undisturbed, LedgerInv, PlanInv, ClosedInv, NEW u \in UpcomingJobs,
         LoadUpcoming(u) \/ Ensure(u)
  PROVE  ClosedInv'
  <1>1. /\ UNCHANGED <<sub, inv, source>> /\ u \in Workers /\ u \notin DueJobs
        /\ wk[u] \in Worker /\ wk \in [Workers -> Worker] /\ sub.cycle \in Nat
        /\ wk[u].pc # "idle" => wk[u].want = "draft"
    BY WorkerFacts, BillingAssumption
    DEF LoadUpcoming, Ensure, dbVars, Others, Workers, PlanInv, Drafter, LedgerInv, TypeInv,
        TypeOK, SubRow
  <1>2. \E row : wk' = [wk EXCEPT ![u] = row] /\ row.sub.cycle <= sub.cycle
    <2>1. CASE LoadUpcoming(u)
      <3>1. PICK row : row = [wk[u] EXCEPT !.pc = "ensure", !.want = "draft", !.sub = sub]
        OBVIOUS
      <3>2. row.sub = sub
        BY <1>1, <3>1 DEF Worker
      <3>3. row.sub.cycle <= sub.cycle
        BY <1>1, <3>2
      <3> QED
        BY <2>1, <3>1, <3>3 DEF LoadUpcoming, Becomes
    <2>2. CASE Return(u)
      <3>1. PICK row : row = Idle
        OBVIOUS
      <3>2. row.sub.cycle = 0
        BY <3>1 DEF Idle
      <3>3. row.sub.cycle <= sub.cycle
        BY <1>1, <3>2
      <3> QED
        BY <2>2, <3>1, <3>3 DEF Return, Becomes
    <2>3. CASE Goto(u, "create")
      <3>1. PICK row : row = [wk[u] EXCEPT !.pc = "create"]
        OBVIOUS
      <3>2. row.sub = wk[u].sub
        BY <1>1, <3>1 DEF Worker
      <3> QED
        BY <2>3, <3>1, <3>2 DEF Goto, Becomes, ClosedInv
    <2> QED
      BY <1>1, <2>1, <2>2, <2>3 DEF Ensure, At
  <1>3. /\ \A d \in DueJobs : wk'[d] = wk[d]
        /\ \A e \in UpcomingJobs : wk'[e].sub.cycle <= sub.cycle
    BY <1>1, <1>2 DEF ClosedInv, Workers
  <1> QED
    BY <1>1, <1>3 DEF ClosedInv

\* The clock moves, the provider's view changes, or a card is stored.
LEMMA StillClosed ==
  ASSUME ClosedInv, UNCHANGED <<sub, inv, wk>>,
         sub.src = "card" /\ source["card"] = "active" => source'["card"] = "active"
  PROVE  ClosedInv'
  BY DEF ClosedInv

LEMMA OutsideClosed ==
  ASSUME Quietly, LedgerInv, PlanInv, ClosedInv, Outside
  PROVE  ClosedInv'
  <1>1. ASSUME NEW p \in PayIds, Pay(p) \/ Decline(p) \/ PaymentSuccess(p)
        PROVE  FALSE
    <2>1. offered = {} /\ pay[p].kind # "checkout"
      BY DEF PlanInv, ChargeRows
    <2> QED
      BY <1>1, <2>1 DEF Pay, Decline, PaymentSuccess
  <1>2. source \in [Kinds -> {"absent", "active", "inactive"}] /\ "card" \in Kinds
    BY DEF LedgerInv, TypeInv, TypeOK, Kinds
  <1>3. CASE CardUpdated
    BY <1>2, <1>3, StillClosed DEF CardUpdated
  <1> QED
    BY <1>1, <1>3 DEF Outside, Quietly

LEMMA InitClosed == Init => ClosedInv
  <1> SUFFICES ASSUME Init PROVE ClosedInv
    OBVIOUS
  <1>1. \A w \in Workers : wk[w].pc = "idle" /\ wk[w].sub.cycle = 0
    BY DEF Init, Idle
  <1>2. PICK o \in Origins, k \in FirstSources :
          /\ sub = FirstSub(o, k)
          /\ source = [j \in Kinds |-> IF j = k THEN "active" ELSE "absent"]
    BY DEF Init
  <1>3. /\ sub.status # "canceled" /\ sub.src = k /\ sub.cycle = 0
        /\ sub.src = "card" => source["card"] = "active"
    BY <1>2 DEF FirstSub, Kinds
  <1>4. \A i \in InvIds : inv[i].st \in {"none", "open"} /\ inv[i].due = 0
    BY DEF Init, NewInv, NoInvoice
  <1> QED
    BY <1>1, <1>2, <1>3, <1>4 DEF ClosedInv, Workers

LEMMA ClosedStep ==
  ASSUME Quietly, LedgerInv, PlanInv, ClosedInv, [Next]_vars
  PROVE  ClosedInv'
  <1>0. Undisturbed
    BY DEF Quietly
  <1>1. CASE Tick \/ UNCHANGED vars
    BY <1>1, StillClosed DEF Tick, vars
  <1>2. ASSUME NEW d \in DueJobs, Step(d)
        PROVE  ClosedInv'
    <2>1. wk[d].pc \notin {"order", "offer", "saveOrder", "saveLink", "retry", "link", "reopen",
                           "unpause", "openLink", "refund", "refunded"}
      BY DEF PlanInv, Job, InHandPcs, ReadyPcs, ChargePcs, AskedPcs, ClosedPcs
    <2>2. d \in Workers
      BY DEF Workers
    <2> QED
      BY <1>0, <1>2, <2>1, <2>2, TurnClosed, CreateClosed, StoreClosed, LastClosed
      DEF Step, Order, Offer, SaveOrder, SaveLink, ReadSub, RetryReopen, RetryUnpause, LinkOpen,
          RefundAsk, RefundCommit, At
  <1>3. ASSUME NEW u \in UpcomingJobs, Step(u)
        PROVE  ClosedInv'
    <2>1. Ensure(u) \/ Create(u)
      BY <1>3, DrafterMoves
    <2>2. u \in Workers
      BY DEF Workers
    <2> QED
      BY <1>0, <2>1, <2>2, DrafterClosed, CreateClosed
  <1>4. \A w \in Workers : ~Commit(w) /\ ~Fault(w)
    BY <1>0, NothingElse
  <1> QED
    BY <1>0, <1>1, <1>2, <1>3, <1>4, TurnClosed, DrafterClosed, OutsideClosed
    DEF Next, Workers, Undisturbed

\* While no decline is reported from outside, the rows of a closed invoice agree
\* once the jobs rest: a failed one has stopped its subscription, a paid one has
\* moved it on.
THEOREM ClosedRowsAgree ==
  ASSUME Quietly
  PROVE  Spec => [](FailedMeansPaused /\ PaidMeansAdvanced)
  <1>1. LedgerInv /\ PlanInv /\ [Next]_vars => PlanInv'
    BY PlanStep DEF Quietly
  <1>2. LedgerInv /\ PlanInv /\ ClosedInv /\ [Next]_vars => ClosedInv'
    BY ClosedStep
  <1>3. LedgerInv /\ ClosedInv => FailedMeansPaused /\ PaidMeansAdvanced
    <2> SUFFICES ASSUME LedgerInv, ClosedInv, \A w \in Workers : At(w, "idle")
                 PROVE  \A i \in InvIds :
                          /\ inv[i].st = "failed" /\ inv[i].due = sub.cycle
                               => sub.status \in {"paused", "canceled"}
                          /\ inv[i].st = "paid" => inv[i].due < sub.cycle
      BY DEF FailedMeansPaused, PaidMeansAdvanced
    <2>1. \A d \in DueJobs : wk[d].pc \notin {"pause", "advance"}
      BY DEF At, Workers
    <2>2. sub.cycle \in Nat /\ \A i \in InvIds : inv[i].due \in Nat
      BY DEF LedgerInv, TypeInv, TypeOK, SubRow, InvRow
    <2> QED
      BY <2>1, <2>2 DEF ClosedInv
  <1> QED
    BY LedgerCorrect, InitPlan, InitClosed, <1>1, <1>2, <1>3, PTL DEF Spec

\* A failed invoice of a card or of no source at all had its three attempts.
THEOREM ClosedInvoicesCorrect ==
  ASSUME Quietly, "bank" \notin FirstSources
  PROVE  Spec => []ClosedInvoices
  <1>1. LedgerInv /\ PlanInv /\ [Next]_vars => PlanInv'
    BY PlanStep DEF Quietly
  <1>2. LedgerInv /\ PlanInv /\ ClosedInv /\ [Next]_vars => ClosedInv'
    BY ClosedStep
  <1>3. ClosedInv => FailedAfterRetries
    <2>1. ClosedInv => sub.src # "bank"
      BY DEF ClosedInv
    <2> QED
      BY <2>1 DEF ClosedInv, FailedAfterRetries
  <1>4. Spec => []FailedAfterRetries
    BY LedgerCorrect, InitPlan, InitClosed, <1>1, <1>2, <1>3, PTL DEF Spec
  <1>5. FailedAfterRetries /\ FailedMeansPaused /\ PaidMeansAdvanced => ClosedInvoices
    BY DEF ClosedInvoices
  <1> QED
    BY ClosedRowsAgree, <1>4, <1>5, PTL
=============================================================================
