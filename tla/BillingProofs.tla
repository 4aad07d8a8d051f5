--------------------------- MODULE BillingProofs ---------------------------
(***************************************************************************)
(* Machine-checked proofs about Billing, for all values of its constants.  *)
(***************************************************************************)
EXTENDS Billing, FiniteSetTheorems, TLAPS

\* Where a worker holds the reference of a payment it collects, or of an order.
CollectPcs == {"count", "initiate", "charge", "accept", "complete", "settle",
               "reject", "failInit", "paid", "advance"}
OrderPcs == {"offer", "saveOrder", "saveLink"}

HeldOK == \A w \in Workers : wk[w].pc \in CollectPcs \cup OrderPcs => wk[w].p \in PayIds

TypeInv == TypeOK /\ HeldOK
-----------------------------------------------------------------------------
(* Type correctness *)

LEMMA InitType == Init => TypeInv
  <1> SUFFICES ASSUME Init PROVE TypeInv
    OBVIOUS
  <1> USE BillingAssumption, ScenarioAssumption
  <1>1. sub \in SubRow
    BY DEF Init, FirstSub, SubRow, SubStatus, OriginKinds, Kinds
  <1>2. inv \in [InvIds -> InvRow]
    BY DEF Init, NewInv, NoInvoice, InvRow, InvStatus, NoTime, NoPay, Start
  <1>3. pay \in [PayIds -> PayRow]
    BY DEF Init, NoPayment, PayRow, NoInv
  <1>4. wk \in [Workers -> Worker] /\ HeldOK
    BY DEF Init, Idle, Worker, Pcs, NoInvoice, NewInv, InvRow, InvStatus, SubRow,
           SubStatus, NoTime, NoPay, NoInv, HeldOK, CollectPcs, OrderPcs, Start, Kinds
  <1> QED
    BY <1>1, <1>2, <1>3, <1>4 DEF Init, TypeInv, TypeOK, NoTime, Kinds

\* A worker that becomes a well-typed row keeps the types, and holds a payment
\* where it must if the row does.
LEMMA BecomesType ==
  ASSUME TypeInv, NEW w \in Workers, NEW row \in Worker, Becomes(w, row),
         row.pc \in CollectPcs \cup OrderPcs => row.p \in PayIds
  PROVE  wk' \in [Workers -> Worker] /\ HeldOK'
  BY DEF TypeInv, TypeOK, Becomes, HeldOK

LEMMA IdleType == Idle \in Worker /\ Idle.pc \notin CollectPcs \cup OrderPcs
  BY BillingAssumption DEF Idle, Worker, Pcs, NoInvoice, InvRow, InvStatus, SubRow,
     SubStatus, NoTime, NoPay, NoInv, CollectPcs, OrderPcs, Kinds

LEMMA ReturnType ==
  ASSUME TypeInv, NEW w \in Workers, Return(w)
  PROVE  wk' \in [Workers -> Worker] /\ HeldOK'
  BY IdleType, BecomesType DEF Return

LEMMA GotoType ==
  ASSUME TypeInv, NEW w \in Workers, NEW pc \in Pcs, Goto(w, pc),
         pc \in CollectPcs \cup OrderPcs => wk[w].p \in PayIds
  PROVE  wk' \in [Workers -> Worker] /\ HeldOK'
  <1>1. [wk[w] EXCEPT !.pc = pc] \in Worker
    BY DEF TypeInv, TypeOK, Worker
  <1> QED
    BY <1>1, BecomesType DEF Goto, TypeInv, TypeOK, Worker

\* Storing an invoice keeps the types if the stored row has its type.
LEMMA SaveInvoiceType ==
  ASSUME TypeInv, NEW w \in Workers, NEW row \in InvRow, NEW pc \in Pcs,
         SaveInvoice(w, row, pc),
         pc \in CollectPcs \cup OrderPcs => wk[w].p \in PayIds
  PROVE  TypeInv'
  <1>1. inv' \in [InvIds -> InvRow]
    BY DEF TypeInv, TypeOK, SaveInvoice
  <1>2. UNCHANGED <<sub, pay, taken, refused, now, source, offered, applied,
                    chargedAt, aborts, requests>>
    BY DEF SaveInvoice, Others, history
  <1>3. [wk[w] EXCEPT !.inv = row, !.pc = pc] \in Worker
    BY DEF TypeInv, TypeOK, Worker
  <1>4. wk' \in [Workers -> Worker] /\ HeldOK'
    BY <1>3, BecomesType DEF SaveInvoice, TypeInv, TypeOK, Worker
  <1> QED
    BY <1>1, <1>2, <1>4 DEF TypeInv, TypeOK

LEMMA SaveSubType ==
  ASSUME TypeInv, NEW w \in Workers, NEW row \in SubRow, SaveSub(w, row),
         applied' \in [PayIds -> Nat]
  PROVE  TypeInv'
  BY ReturnType DEF SaveSub, TypeInv, TypeOK

LEMMA SavePaymentType ==
  ASSUME TypeInv, NEW w \in Workers, NEW row \in PayRow, SavePayment(w, row)
  PROVE  pay' \in [PayIds -> PayRow]
  BY DEF TypeInv, TypeOK, SavePayment

LEMMA LaterType ==
  ASSUME TypeOK, NEW d \in Nat
  PROVE  Later(d) \in Nat
  BY BillingAssumption DEF TypeOK, Later

\* The steps that read rows and move on.
LEMMA LoadType ==
  ASSUME TypeInv, NEW w \in Workers, LoadDue(w) \/ LoadUpcoming(w)
  PROVE  TypeInv'
  <1>1. PICK want \in {"draft", "open"} :
          Becomes(w, [wk[w] EXCEPT !.pc = "ensure", !.want = want, !.sub = sub])
    BY DEF LoadDue, LoadUpcoming
  <1>2. [wk[w] EXCEPT !.pc = "ensure", !.want = want, !.sub = sub] \in Worker
    <2>1. wk[w] \in Worker /\ sub \in SubRow
      BY DEF TypeInv, TypeOK
    <2> QED
      BY <2>1, Zenon DEF Worker, Pcs
  <1>3. wk' \in [Workers -> Worker] /\ HeldOK'
    BY <1>1, <1>2, BecomesType DEF TypeInv, TypeOK, Worker, CollectPcs, OrderPcs
  <1> QED
    BY <1>3 DEF LoadDue, LoadUpcoming, Others, history, dbVars, TypeInv, TypeOK

LEMMA EnsureType ==
  ASSUME TypeInv, NEW w \in Workers, Ensure(w)
  PROVE  TypeInv'
  <1>1. wk' \in [Workers -> Worker] /\ HeldOK'
    <2>1. CASE Goto(w, "create")
      BY <2>1, GotoType DEF Pcs, CollectPcs, OrderPcs
    <2>2. CASE Return(w)
      BY <2>2, ReturnType
    <2>3. ASSUME NEW i \in InvIds, NEW pc \in {"open", "attach"},
                 Becomes(w, [wk[w] EXCEPT !.i = i, !.inv = inv[i], !.pc = pc])
          PROVE  wk' \in [Workers -> Worker] /\ HeldOK'
      <3>1. [wk[w] EXCEPT !.i = i, !.inv = inv[i], !.pc = pc] \in Worker
        <4>1. wk[w] \in Worker /\ inv[i] \in InvRow
          BY DEF TypeInv, TypeOK
        <4> QED
          BY <4>1, Zenon DEF Worker, Pcs
      <3> QED
        BY <2>3, <3>1, BecomesType DEF TypeInv, TypeOK, Worker, CollectPcs, OrderPcs
    <2> QED
      BY <2>1, <2>2, <2>3 DEF Ensure, InvoicesDue
  <1> QED
    BY <1>1 DEF Ensure, Others, history, dbVars, TypeInv, TypeOK

LEMMA CreateType ==
  ASSUME TypeInv, NEW w \in Workers, Create(w)
  PROVE  TypeInv'
  <1> DEFINE new == NewInv(wk[w].sub.cycle, wk[w].want)
  <1>1. new \in InvRow
    BY BillingAssumption
    DEF NewInv, TypeInv, TypeOK, Worker, SubRow, InvRow, InvStatus, NoPay, Start
  <1>2. PICK i \in InvIds :
          /\ inv' = [inv EXCEPT ![i] = new]
          /\ \/ Return(w)
             \/ Becomes(w, [wk[w] EXCEPT !.i = i, !.inv = new, !.pc = "attach"])
    BY DEF Create
  <1>3. inv' \in [InvIds -> InvRow]
    BY <1>1, <1>2 DEF TypeInv, TypeOK
  <1>4. [wk[w] EXCEPT !.i = i, !.inv = new, !.pc = "attach"] \in Worker
    <2>1. wk[w] \in Worker
      BY DEF TypeInv, TypeOK
    <2> HIDE DEF new
    <2> QED
      BY <1>1, <2>1, Zenon DEF Worker, Pcs
  <1>5. wk' \in [Workers -> Worker] /\ HeldOK'
    BY <1>2, <1>4, BecomesType, ReturnType
    DEF TypeInv, TypeOK, Worker, CollectPcs, OrderPcs
  <1> QED
    BY <1>3, <1>5 DEF Create, Others, history, TypeInv, TypeOK

\* What a worker at work has in hand.
LEMMA CopyTypes ==
  ASSUME TypeInv, NEW w \in Workers
  PROVE  /\ wk[w] \in Worker /\ wk[w].inv \in InvRow /\ wk[w].sub \in SubRow
         /\ wk[w].pc \in CollectPcs \cup OrderPcs =>
              wk[w].p \in PayIds /\ pay[wk[w].p] \in PayRow
  BY DEF TypeInv, TypeOK, Worker, HeldOK

LEMMA OpenType ==
  ASSUME TypeInv, NEW w \in Workers, Open(w)
  PROVE  TypeInv'
  <1>1. [wk[w].inv EXCEPT !.st = "open"] \in InvRow
    BY CopyTypes DEF InvRow, InvStatus
  <1> QED
    BY <1>1, SaveInvoiceType DEF Open, Pcs, CollectPcs, OrderPcs

LEMMA AttachType ==
  ASSUME TypeInv, NEW w \in Workers, Attach(w)
  PROVE  TypeInv'
  <1>1. wk' \in [Workers -> Worker] /\ HeldOK'
    BY GotoType, ReturnType DEF Attach, Pcs, CollectPcs, OrderPcs
  <1> QED
    BY <1>1, CopyTypes DEF Attach, Others, history, TypeInv, TypeOK

LEMMA FindSourceType ==
  ASSUME TypeInv, NEW w \in Workers, FindSource(w)
  PROVE  TypeInv'
  <1>1. PICK pc \in {"order", "failHard", "intent", "verify"} : Goto(w, pc)
    <2>1. wk[w].sub.src \in Kinds \cup {"none"}
      BY CopyTypes DEF SubRow
    <2> QED
      BY <2>1 DEF FindSource, Kinds
  <1>2. wk' \in [Workers -> Worker] /\ HeldOK'
    BY <1>1, GotoType DEF Pcs, CollectPcs, OrderPcs
  <1> QED
    BY <1>2 DEF FindSource, Others, history, dbVars, TypeInv, TypeOK

LEMMA VerifyType ==
  ASSUME TypeInv, NEW w \in Workers, Verify(w)
  PROVE  TypeInv'
  <1>1. wk' \in [Workers -> Worker] /\ HeldOK'
    BY GotoType DEF Verify, Pcs, CollectPcs, OrderPcs
  <1> QED
    BY <1>1 DEF Verify, Others, history, dbVars, TypeInv, TypeOK

\* A fresh reference gets rows, and the worker holds it.
LEMMA TakeReferenceType ==
  ASSUME TypeInv, NEW w \in Workers, NEW p \in PayIds, NEW row \in PayRow, NEW pc \in Pcs,
         pay' = [pay EXCEPT ![p] = row],
         Becomes(w, [wk[w] EXCEPT !.p = p, !.pc = pc]),
         UNCHANGED <<sub, inv, taken, refused, Others>>
  PROVE  TypeInv'
  <1>1. pay' \in [PayIds -> PayRow]
    BY DEF TypeInv, TypeOK
  <1>2. wk[w] \in Worker
    BY CopyTypes
  <1>3. [wk[w] EXCEPT !.p = p, !.pc = pc] \in Worker
    BY <1>2, Zenon DEF Worker
  <1>4. wk' \in [Workers -> Worker] /\ HeldOK'
    BY <1>2, <1>3, BecomesType DEF Worker
  <1> QED
    BY <1>1, <1>4 DEF Others, history, TypeInv, TypeOK

LEMMA IntentType ==
  ASSUME TypeInv, NEW w \in Workers, Intent(w)
  PROVE  TypeInv'
  <1> DEFINE row == [NoPayment EXCEPT !.kind = Kind(w), !.inv = wk[w].i, !.intent = "pending"]
             pc == IF Kind(w) = "card" THEN "count" ELSE "initiate"
  <1>1. wk[w].i \in InvIds \cup {NoInv} /\ Kind(w) \in Kinds
    BY CopyTypes DEF Worker, Kind, Kinds
  <1>2. row \in PayRow /\ pc \in Pcs
    BY <1>1 DEF NoPayment, PayRow, NoInv, Pcs, Kinds
  <1>3. PICK p \in PayIds : /\ pay' = [pay EXCEPT ![p] = row]
                            /\ Becomes(w, [wk[w] EXCEPT !.p = p, !.pc = pc])
    BY DEF Intent
  <1> HIDE DEF row, pc
  <1> QED
    BY <1>2, <1>3, TakeReferenceType DEF Intent

LEMMA OrderType ==
  ASSUME TypeInv, NEW w \in Workers, Order(w)
  PROVE  TypeInv'
  <1> DEFINE row == [NoPayment EXCEPT !.kind = "checkout", !.inv = wk[w].i, !.init = "pending"]
  <1>1. wk[w].i \in InvIds \cup {NoInv}
    BY CopyTypes DEF Worker
  <1>2. row \in PayRow /\ "offer" \in Pcs
    BY <1>1 DEF NoPayment, PayRow, NoInv, Pcs
  <1>3. PICK p \in PayIds : /\ pay' = [pay EXCEPT ![p] = row]
                            /\ Becomes(w, [wk[w] EXCEPT !.p = p, !.pc = "offer"])
    BY DEF Order
  <1> HIDE DEF row
  <1> QED
    BY <1>2, <1>3, TakeReferenceType DEF Order

LEMMA CountType ==
  ASSUME TypeInv, NEW w \in Workers, Count(w)
  PROVE  TypeInv'
  <1>1. [wk[w].inv EXCEPT !.attempts = @ + 1] \in InvRow
    BY CopyTypes DEF InvRow
  <1>2. wk[w].p \in PayIds
    BY CopyTypes DEF Count, At, CollectPcs
  <1> QED
    BY <1>1, <1>2, SaveInvoiceType DEF Count, Pcs

\* The steps that change the rows of the payment in hand and move on.
LEMMA SavePaymentStep ==
  ASSUME TypeInv, NEW w \in Workers, NEW row \in PayRow, NEW pc \in Pcs,
         SavePayment(w, row), Goto(w, pc), UNCHANGED <<sub, inv, taken, refused, Others>>,
         wk[w].p \in PayIds
  PROVE  TypeInv'
  BY SavePaymentType, GotoType DEF Others, history, TypeInv, TypeOK

LEMMA PaymentStepsType ==
  ASSUME TypeInv, NEW w \in Workers,
         \/ Initiate(w) \/ Accept(w) \/ Complete(w) \/ Settle(w)
         \/ Reject(w) \/ RejectInit(w) \/ SaveOrder(w)
  PROVE  TypeInv'
  <1>1. wk[w].p \in PayIds /\ pay[wk[w].p] \in PayRow
    BY CopyTypes DEF Initiate, Accept, Complete, Settle, Reject, RejectInit, SaveOrder, At,
       CollectPcs, OrderPcs
  <1>2. PICK row, pc : /\ SavePayment(w, row) /\ Goto(w, pc)
                       /\ row \in PayRow /\ pc \in Pcs
    <2>1. CASE Initiate(w)
      <3>1. [pay[wk[w].p] EXCEPT !.init = "pending"] \in PayRow
        BY <1>1 DEF PayRow
      <3> QED
        BY <2>1, <3>1 DEF Initiate, Pcs
    <2>2. CASE Accept(w)
      <3>1. [pay[wk[w].p] EXCEPT !.intent = "success"] \in PayRow
        BY <1>1 DEF PayRow
      <3> QED
        BY <2>2, <3>1 DEF Accept, Pcs
    <2>3. CASE Complete(w)
      <3>1. [pay[wk[w].p] EXCEPT !.init = "completed"] \in PayRow
        BY <1>1 DEF PayRow
      <3> QED
        BY <2>3, <3>1 DEF Complete, Pcs
    <2>4. CASE Settle(w)
      <3>1. [pay[wk[w].p] EXCEPT !.settlements = @ + 1] \in PayRow
        BY <1>1 DEF PayRow
      <3> QED
        BY <2>4, <3>1 DEF Settle, Pcs
    <2>5. CASE Reject(w)
      <3>1. [pay[wk[w].p] EXCEPT !.intent = "failed"] \in PayRow
        BY <1>1 DEF PayRow
      <3> QED
        BY <2>5, <3>1 DEF Reject, AfterReject, Pcs
    <2>7. CASE RejectInit(w)
      <3>1. [pay[wk[w].p] EXCEPT !.init = "failed"] \in PayRow
        BY <1>1 DEF PayRow
      <3> QED
        BY <2>7, <3>1 DEF RejectInit, Pcs
    <2>6. CASE SaveOrder(w)
      <3>1. [pay[wk[w].p] EXCEPT !.init = "pending"] \in PayRow
        BY <1>1 DEF PayRow
      <3> QED
        BY <2>6, <3>1 DEF SaveOrder, Pcs
    <2> QED
      BY <2>1, <2>2, <2>3, <2>4, <2>5, <2>6, <2>7
  <1> QED
    BY <1>1, <1>2, SavePaymentStep
    DEF Initiate, Accept, Complete, Settle, Reject, RejectInit, SaveOrder

LEMMA ChargeType ==
  ASSUME TypeInv, NEW w \in Workers, Charge(w) \/ ChargeAnswerLost(w)
  PROVE  TypeInv'
  <1>1. wk[w].p \in PayIds
    BY CopyTypes DEF Charge, ChargeAnswerLost, At, CollectPcs
  <1>2. wk' \in [Workers -> Worker] /\ HeldOK'
    BY <1>1, GotoType DEF Charge, ChargeAnswerLost, Pcs
  <1>3. taken' \subseteq PayIds /\ refused' \subseteq PayIds
    BY <1>1 DEF Charge, ChargeAnswerLost, TypeInv, TypeOK
  <1>4. chargedAt' \in [PayIds -> Nat \cup {NoTime}] /\ aborts' \in Nat
    BY DEF Charge, ChargeAnswerLost, TypeInv, TypeOK
  <1> QED
    BY <1>2, <1>3, <1>4 DEF Charge, ChargeAnswerLost, dbVars, TypeInv, TypeOK

LEMMA IgnoredErrorType ==
  ASSUME TypeInv, NEW w \in Workers, IgnoredError(w)
  PROVE  TypeInv'
  <1>1. wk[w].p \in PayIds /\ pay[wk[w].p] \in PayRow
    BY CopyTypes DEF IgnoredError, At, CollectPcs
  <1>2. wk' \in [Workers -> Worker] /\ HeldOK'
    BY <1>1, GotoType DEF IgnoredError, AfterReject, Pcs
  <1> QED
    BY <1>2 DEF IgnoredError, dbVars, pspVars, history, TypeInv, TypeOK

LEMMA FailInvoiceType ==
  ASSUME TypeInv, NEW w \in Workers, FailInvoice(w)
  PROVE  TypeInv'
  <1>1. Later(RetryDelay) \in Nat
    BY LaterType, BillingAssumption DEF TypeInv
  <1>2. /\ [wk[w].inv EXCEPT !.next = Later(RetryDelay)] \in InvRow
        /\ [wk[w].inv EXCEPT !.st = "failed"] \in InvRow
    BY <1>1, CopyTypes DEF InvRow, InvStatus
  <1>3. "pastDue" \in Pcs /\ "pause" \in Pcs
        /\ "pastDue" \notin CollectPcs \cup OrderPcs /\ "pause" \notin CollectPcs \cup OrderPcs
    BY DEF Pcs, CollectPcs, OrderPcs
  <1> QED
    BY <1>2, <1>3, SaveInvoiceType DEF FailInvoice

LEMMA MarkPaidType ==
  ASSUME TypeInv, NEW w \in Workers, MarkPaid(w)
  PROVE  TypeInv'
  <1>1. [wk[w].inv EXCEPT !.st = "paid"] \in InvRow
    BY CopyTypes DEF InvRow, InvStatus
  <1>2. wk[w].p \in PayIds
    BY CopyTypes DEF MarkPaid, At, CollectPcs
  <1> QED
    BY <1>1, <1>2, SaveInvoiceType DEF MarkPaid, Pcs

LEMMA SubStepsType ==
  ASSUME TypeInv, NEW w \in Workers, FailSubscription(w) \/ Advance(w)
  PROVE  TypeInv'
  <1>1. /\ [wk[w].sub EXCEPT !.status = "past_due"] \in SubRow
        /\ [wk[w].sub EXCEPT !.status = "paused"] \in SubRow
        /\ [wk[w].sub EXCEPT !.cycle = @ + 1] \in SubRow
    BY CopyTypes DEF SubRow, SubStatus
  <1>2. applied' \in [PayIds -> Nat]
    BY DEF FailSubscription, Advance, TypeInv, TypeOK
  <1> QED
    BY <1>1, <1>2, SaveSubType DEF FailSubscription, Advance

LEMMA OfferType ==
  ASSUME TypeInv, NEW w \in Workers, Offer(w)
  PROVE  TypeInv'
  <1>1. wk[w].p \in PayIds
    BY CopyTypes DEF Offer, At, OrderPcs
  <1>2. wk' \in [Workers -> Worker] /\ HeldOK'
    BY <1>1, GotoType, ReturnType DEF Offer, Pcs
  <1> QED
    BY <1>2 DEF Offer, Others, history, dbVars, TypeInv, TypeOK

LEMMA SaveLinkType ==
  ASSUME TypeInv, NEW w \in Workers, SaveLink(w)
  PROVE  TypeInv'
  <1>1. wk[w].p \in PayIds
    BY CopyTypes DEF SaveLink, At, OrderPcs
  <1>2. [wk[w].inv EXCEPT !.link = wk[w].p] \in InvRow
    BY <1>1, CopyTypes DEF InvRow
  <1>3. inv' \in [InvIds -> InvRow] /\ offered' \subseteq PayIds
    BY <1>1, <1>2 DEF SaveLink, TypeInv, TypeOK
  <1>4. wk' \in [Workers -> Worker] /\ HeldOK'
    BY ReturnType DEF SaveLink
  <1> QED
    BY <1>3, <1>4 DEF SaveLink, history, TypeInv, TypeOK

LEMMA StartRequestType ==
  ASSUME TypeInv, NEW w \in Workers, NEW i \in InvIds, RetryRead(w, i) \/ LinkRead(w, i)
  PROVE  TypeInv'
  <1>1. PICK pc \in {"retry", "link"} : StartRequest(w, i, pc)
    BY DEF RetryRead, LinkRead
  <1>2. wk[w] \in Worker /\ inv[i] \in InvRow
    BY DEF TypeInv, TypeOK
  <1>3. [wk[w] EXCEPT !.pc = pc, !.i = i, !.inv = inv[i]] \in Worker
    <2>1. pc \in Pcs
      BY DEF Pcs
    <2> QED
      BY <1>2, <2>1, Zenon DEF Worker
  <1>4. wk' \in [Workers -> Worker] /\ HeldOK'
    BY <1>1, <1>2, <1>3, BecomesType DEF StartRequest, Worker, CollectPcs, OrderPcs
  <1> QED
    BY <1>1, <1>4 DEF StartRequest, dbVars, pspVars, history, TypeInv, TypeOK

LEMMA RefundType ==
  ASSUME TypeInv, NEW w \in Workers, RefundAsk(w) \/ RefundCommit(w)
  PROVE  TypeInv'
  <1>1. wk' \in [Workers -> Worker] /\ HeldOK'
    BY ReturnType, GotoType DEF RefundAsk, RefundCommit, Pcs, CollectPcs, OrderPcs
  <1>2. \A p \in PayIds : [pay[p] EXCEPT !.intent = "refund"] \in PayRow
    BY DEF TypeInv, TypeOK, PayRow
  <1>3. pay' \in [PayIds -> PayRow]
    BY <1>2 DEF RefundAsk, RefundCommit, SavePayment, dbVars, TypeInv, TypeOK
  <1>4. [wk[w].inv EXCEPT !.st = "refunded"] \in InvRow
    BY CopyTypes DEF InvRow, InvStatus
  <1>5. inv' \in [InvIds -> InvRow]
    BY <1>4 DEF RefundAsk, RefundCommit, dbVars, TypeInv, TypeOK
  <1> QED
    BY <1>1, <1>3, <1>5 DEF RefundAsk, RefundCommit, dbVars, Others, history, TypeInv, TypeOK

LEMMA RefundReadType ==
  ASSUME TypeInv, NEW w \in Workers, NEW i \in InvIds, NEW p \in PayIds, RefundRead(w, i, p)
  PROVE  TypeInv'
  <1>1. wk[w] \in Worker /\ inv[i] \in InvRow /\ "refund" \in Pcs
    BY DEF TypeInv, TypeOK, Pcs
  <1>2. [wk[w] EXCEPT !.pc = "refund", !.i = i, !.inv = inv[i], !.p = p] \in Worker
    BY <1>1, Zenon DEF Worker
  <1>3. wk' \in [Workers -> Worker] /\ HeldOK'
    BY <1>1, <1>2, BecomesType DEF RefundRead, Worker, CollectPcs, OrderPcs
  <1> QED
    BY <1>3 DEF RefundRead, dbVars, pspVars, history, TypeInv, TypeOK

LEMMA ReadSubType ==
  ASSUME TypeInv, NEW w \in Workers, ReadSub(w)
  PROVE  TypeInv'
  <1>1. PICK pc \in {"reopen", "openLink", "order"} :
          Becomes(w, [wk[w] EXCEPT !.pc = pc, !.sub = sub])
    BY DEF ReadSub
  <1>2. wk[w] \in Worker /\ sub \in SubRow
    BY DEF TypeInv, TypeOK
  <1>3. [wk[w] EXCEPT !.pc = pc, !.sub = sub] \in Worker
    <2>1. pc \in Pcs
      BY DEF Pcs
    <2> QED
      BY <1>2, <2>1, Zenon DEF Worker
  <1>4. wk' \in [Workers -> Worker] /\ HeldOK'
    BY <1>1, <1>2, <1>3, BecomesType DEF Worker, CollectPcs, OrderPcs
  <1> QED
    BY <1>4 DEF ReadSub, dbVars, Others, history, TypeInv, TypeOK

LEMMA RetryReopenType ==
  ASSUME TypeInv, NEW w \in Workers, RetryReopen(w)
  PROVE  TypeInv'
  <1>1. [wk[w].inv EXCEPT !.st = IF @ = "failed" THEN "open" ELSE @, !.next = now] \in InvRow
    BY CopyTypes DEF InvRow, InvStatus, TypeInv, TypeOK
  <1> QED
    BY <1>1, SaveInvoiceType DEF RetryReopen, Pcs, CollectPcs, OrderPcs

LEMMA RetryUnpauseType ==
  ASSUME TypeInv, NEW w \in Workers, RetryUnpause(w)
  PROVE  TypeInv'
  <1> DEFINE row == [wk[w].sub EXCEPT !.status = "past_due"]
  <1>1. row \in SubRow
    BY CopyTypes DEF SubRow, SubStatus
  <1>2. /\ sub' = row
        /\ Becomes(w, [wk[w] EXCEPT !.sub = row, !.pc = "ensure"])
    BY DEF RetryUnpause
  <1> HIDE DEF row
  <1>3. wk[w] \in Worker
    BY CopyTypes
  <1>4. [wk[w] EXCEPT !.sub = row, !.pc = "ensure"] \in Worker
    BY <1>1, <1>3, Zenon DEF Worker, Pcs
  <1>5. wk' \in [Workers -> Worker] /\ HeldOK'
    BY <1>2, <1>3, <1>4, BecomesType DEF Worker, CollectPcs, OrderPcs
  <1> QED
    BY <1>1, <1>2, <1>5 DEF RetryUnpause, Others, history, TypeInv, TypeOK

LEMMA LinkOpenType ==
  ASSUME TypeInv, NEW w \in Workers, LinkOpen(w)
  PROVE  TypeInv'
  <1> DEFINE row == [wk[w].inv EXCEPT !.st = "open"]
  <1>1. row \in InvRow
    BY CopyTypes DEF InvRow, InvStatus
  <1>2. /\ inv' = [inv EXCEPT ![wk[w].i] = row]
        /\ \/ Becomes(w, [wk[w] EXCEPT !.inv = row, !.pc = "order"])
           \/ Return(w)
    BY DEF LinkOpen
  <1> HIDE DEF row
  <1>3. wk[w] \in Worker
    BY CopyTypes
  <1>4. [wk[w] EXCEPT !.inv = row, !.pc = "order"] \in Worker
    BY <1>1, <1>3, Zenon DEF Worker, Pcs
  <1>5. wk' \in [Workers -> Worker] /\ HeldOK'
    BY <1>2, <1>3, <1>4, BecomesType, ReturnType DEF Worker, CollectPcs, OrderPcs
  <1>6. inv' \in [InvIds -> InvRow]
    BY <1>1, <1>2 DEF TypeInv, TypeOK
  <1> QED
    BY <1>5, <1>6 DEF LinkOpen, Others, history, TypeInv, TypeOK

LEMMA StepType ==
  ASSUME TypeInv, NEW w \in Workers, Step(w)
  PROVE  TypeInv'
  BY EnsureType, CreateType, OpenType, AttachType, FindSourceType, VerifyType,
     IntentType, CountType, PaymentStepsType, ChargeType, FailInvoiceType,
     SubStepsType, MarkPaidType, OrderType, OfferType, SaveLinkType,
     ReadSubType, RetryReopenType, RetryUnpauseType, LinkOpenType, RefundType, Zenon
  DEF Step

LEMMA FaultType ==
  ASSUME TypeInv, NEW w \in Workers, Fault(w)
  PROVE  TypeInv'
  <1>1. CASE Abort(w)
    <2>1. wk' \in [Workers -> Worker] /\ HeldOK'
      BY <1>1, ReturnType DEF Abort
    <2> QED
      BY <1>1, <2>1 DEF Abort, dbVars, pspVars, history, TypeInv, TypeOK
  <1> QED
    BY <1>1, ChargeType, IgnoredErrorType DEF Fault

LEMMA CallType ==
  ASSUME TypeInv, NEW w \in Workers, NEW row \in SubRow,
         NEW pc \in {"cancel", "disable", "store", "mandate"}, StartCall(w, pc, row)
  PROVE  TypeInv'
  <1>1. wk[w] \in Worker
    BY CopyTypes
  <1>2. [wk[w] EXCEPT !.pc = pc, !.sub = row] \in Worker
    <2>1. pc \in Pcs
      BY DEF Pcs
    <2> QED
      BY <1>1, <2>1, Zenon DEF Worker
  <1>3. wk' \in [Workers -> Worker] /\ HeldOK'
    BY <1>1, <1>2, BecomesType DEF StartCall, Worker, CollectPcs, OrderPcs
  <1> QED
    BY <1>3 DEF StartCall, dbVars, pspVars, history, TypeInv, TypeOK

LEMMA RequestType ==
  ASSUME TypeInv, NEW w \in Workers, RequestStart(w)
  PROVE  TypeInv'
  <1>0. sub \in SubRow
    BY DEF TypeInv, TypeOK
  <1>1. CASE CancelRead(w)
    <2>1. [sub EXCEPT !.status = "canceled"] \in SubRow
      BY <1>0 DEF SubRow, SubStatus
    <2> QED
      BY <1>1, <2>1, CallType DEF CancelRead
  <1>2. ASSUME NEW k \in Kinds, DisableRead(w, k)
        PROVE  TypeInv'
    <2>1. [sub EXCEPT !.src = k] \in SubRow
      BY <1>0 DEF SubRow
    <2> QED
      BY <1>2, <2>1, CallType DEF DisableRead
  <1>3. ASSUME NEW k \in Kinds, SwitchRead(w, k)
        PROVE  TypeInv'
    <2>1. [sub EXCEPT !.src = k] \in SubRow
      BY <1>0 DEF SubRow
    <2> QED
      BY <1>3, <2>1, CallType DEF SwitchRead
  <1>4. ASSUME NEW r \in {"ACTIVE", "SUSPENDED", "DELETED"}, MandateRead(w, r)
        PROVE  TypeInv'
    <2> DEFINE st == CASE r = "ACTIVE" -> sub.status
                       [] r = "SUSPENDED" -> "paused"
                       [] r = "DELETED" -> "canceled"
    <2>1. st \in SubStatus
      BY <1>0 DEF SubRow, SubStatus
    <2>2. PICK pc \in {"store", "mandate"} : StartCall(w, pc, [sub EXCEPT !.status = st])
      BY <1>4 DEF MandateRead
    <2> HIDE DEF st
    <2>3. [sub EXCEPT !.status = st] \in SubRow
      BY <1>0, <2>1 DEF SubRow
    <2> QED
      BY <2>2, <2>3, CallType
  <1>5. ASSUME NEW i \in InvIds, RetryRead(w, i) \/ LinkRead(w, i)
        PROVE  TypeInv'
    BY <1>5, StartRequestType
  <1> QED
    BY <1>1, <1>2, <1>3, <1>4, <1>5, RefundReadType DEF RequestStart

LEMMA DisableFindType ==
  ASSUME TypeInv, NEW w \in Workers, DisableFind(w)
  PROVE  TypeInv'
  <1> DEFINE row == [sub EXCEPT !.status = "paused"]
  <1>1. wk[w] \in Worker /\ row \in SubRow
    BY CopyTypes DEF TypeInv, TypeOK, SubRow, SubStatus
  <1>2. \/ Becomes(w, [wk[w] EXCEPT !.pc = "disableLinked", !.sub = row])
        \/ Goto(w, "disableOnly")
    BY DEF DisableFind
  <1> HIDE DEF row
  <1>3. [wk[w] EXCEPT !.pc = "disableLinked", !.sub = row] \in Worker
    BY <1>1, Zenon DEF Worker, Pcs
  <1>4. wk' \in [Workers -> Worker] /\ HeldOK'
    BY <1>1, <1>2, <1>3, BecomesType, GotoType DEF Worker, Pcs, CollectPcs, OrderPcs
  <1> QED
    BY <1>4 DEF DisableFind, dbVars, pspVars, history, TypeInv, TypeOK

LEMMA CommitType ==
  ASSUME TypeInv, NEW w \in Workers, Commit(w)
  PROVE  TypeInv'
  <1>0. SUFFICES ASSUME CancelCommit(w) \/ DisableCommit(w) \/ DropMandate(w) \/ Store(w)
                 PROVE  TypeInv'
    BY DisableFindType DEF Commit
  <1>1. wk' \in [Workers -> Worker] /\ HeldOK'
    BY <1>0, ReturnType, GotoType
    DEF CancelCommit, DisableCommit, DropMandate, Store, Pcs, CollectPcs, OrderPcs
  <1>2. sub' \in SubRow
    BY <1>0, CopyTypes DEF CancelCommit, DisableCommit, DropMandate, Store, TypeInv, TypeOK
  <1>3. inv' \in [InvIds -> InvRow]
    <2>1. \A i \in InvIds : inv[i] \in InvRow /\ [inv[i] EXCEPT !.st = "failed"] \in InvRow
      BY DEF TypeInv, TypeOK, InvRow, InvStatus
    <2> QED
      BY <1>0, <2>1 DEF CancelCommit, DisableCommit, DropMandate, Store, TypeInv, TypeOK
  <1>4. source' \in [Kinds -> {"absent", "active", "inactive"}]
    BY <1>0 DEF CancelCommit, DisableCommit, DropMandate, Store, TypeInv, TypeOK
  <1> QED
    BY <1>0, <1>1, <1>2, <1>3, <1>4
    DEF CancelCommit, DisableCommit, DropMandate, Store, pspVars, history,
        TypeInv, TypeOK

LEMMA OutsideType ==
  ASSUME TypeInv, Outside
  PROVE  TypeInv'
  <1>1. ASSUME NEW p \in PayIds, Pay(p) \/ Decline(p)
        PROVE  TypeInv'
    BY <1>1 DEF Pay, Decline, dbVars, history, TypeInv, TypeOK, HeldOK
  <1>2. ASSUME NEW p \in PayIds, PaymentSuccess(p)
        PROVE  TypeInv'
    <2>1. /\ inv' \in [InvIds -> InvRow] /\ sub' \in SubRow
          /\ pay' \in [PayIds -> PayRow] /\ applied' \in [PayIds -> Nat]
      <3>1. pay[p] \in PayRow /\ sub \in SubRow
        BY DEF TypeInv, TypeOK
      <3>2. \A i \in InvIds : [inv[i] EXCEPT !.st = "paid"] \in InvRow
        BY DEF TypeInv, TypeOK, InvRow, InvStatus
      <3>3. [status |-> "active", cycle |-> sub.cycle + 1, src |-> "card"] \in SubRow
        BY <3>1 DEF SubRow, SubStatus, Kinds
      <3>4. [pay[p] EXCEPT !.intent = "success", !.init = "completed",
                           !.settlements = pay[p].settlements + 1] \in PayRow
        <4>1. pay[p].settlements + 1 \in Nat
          BY <3>1 DEF PayRow
        <4> QED
          BY <3>1, <4>1, Zenon DEF PayRow
      <3> QED
        BY <1>2, <3>2, <3>3, <3>4 DEF PaymentSuccess, ApplyOrder, TypeInv, TypeOK
    <2>2. source' \in [Kinds -> {"absent", "active", "inactive"}]
      BY <1>2 DEF PaymentSuccess, StoredCard, TypeInv, TypeOK, Kinds
    <2> QED
      BY <1>2, <2>1, <2>2 DEF PaymentSuccess, pspVars, TypeInv, TypeOK, HeldOK
  <1>3. ASSUME NEW p \in PayIds, PaymentFailed(p)
        PROVE  TypeInv'
    <2>1. pay[p] \in PayRow /\ sub \in SubRow
      BY DEF TypeInv, TypeOK
    <2>2. \A i \in InvIds : [inv[i] EXCEPT !.st = "failed",
                               !.attempts = IF @ = 0 THEN 1 ELSE @] \in InvRow
      BY DEF TypeInv, TypeOK, InvRow, InvStatus
    <2>3. [sub EXCEPT !.status = "paused"] \in SubRow
      BY <2>1 DEF SubRow, SubStatus
    <2>4. [pay[p] EXCEPT !.intent = "failed",
                         !.init = IF pay[p].kind = "checkout" THEN "failed" ELSE @] \in PayRow
      BY <2>1 DEF PayRow
    <2> QED
      BY <1>3, <2>2, <2>3, <2>4
      DEF PaymentFailed, pspVars, history, TypeInv, TypeOK, HeldOK
  <1>4. CASE CardUpdated
    BY <1>4 DEF CardUpdated, pspVars, history, TypeInv, TypeOK, HeldOK
  <1> QED
    BY <1>1, <1>2, <1>3, <1>4 DEF Outside

LEMMA TypeStep ==
  ASSUME TypeInv, [Next]_vars
  PROVE  TypeInv'
  <1>1. CASE Tick
    BY <1>1 DEF Tick, pspVars, history, TypeInv, TypeOK, HeldOK
  <1>2. CASE UNCHANGED vars
    BY <1>2 DEF vars, TypeInv, TypeOK, HeldOK
  <1> QED
    BY <1>1, <1>2, LoadType, RequestType, StepType, CommitType, FaultType, OutsideType
    DEF Next, Workers

\* Every variable keeps its type: no interleaving makes a job, a call or a webhook
\* store a row the tables do not have, or go on without the payment it needs.
THEOREM TypeCorrect == Spec => []TypeOK
  <1>1. TypeInv /\ [Next]_vars => TypeInv'
    BY TypeStep
  <1>2. TypeInv => TypeOK
    BY DEF TypeInv
  <1> QED
    BY InitType, <1>1, <1>2, PTL DEF Spec
-----------------------------------------------------------------------------
(* Attempts stop: a retry budget that every interruption and call pays into *)

SoleReplica == \A d, e \in DueJobs : d = e

\* A worker that may still count an attempt.
Before(k) == \/ k.pc \in {"unpause", "ensure", "create", "open", "attach", "source",
                          "verify", "intent", "count"}
             \/ k.pc = "initiate" /\ k.sub.src = "bank"

\* Where a worker has a collectable invoice in hand, and may still count.
ChoicePcs == {"attach", "source", "verify", "intent", "count", "initiate"}

\* A retry call is owed what it costs to open the invoice and count an attempt; a
\* refund call, the attempt the job may make on the refunded invoice.
Retrying == {w \in Requests : wk[w].pc \in {"retry", "reopen", "refund", "refunded"}}
Opened == {w \in Requests : Before(wk[w])}

\* An invoice that has had its attempts and may be collected once more.
Hot(row) == row.st \in {"open", "refunded"} /\ row.attempts >= MaxAttempts /\ row.link = NoPay

Held(k, i) == /\ k.pc \in ChoicePcs /\ Before(k)
              /\ k.i = i /\ k.inv.attempts >= MaxAttempts
              /\ k.pc = "attach" => k.inv.link = NoPay

\* The job has counted its attempt on i and stores i once more: as failed, as
\* paid, or with fewer than three attempts.
ClosingPcs == {"charge", "accept", "complete", "settle", "reject", "failInit",
               "failSoft", "failHard", "paid"}
Closing(k, i) == /\ k.i = i
                 /\ \/ k.pc \in ClosingPcs
                    \/ k.pc = "initiate" /\ ~Before(k)

ChanceOf(k, i, row) == Held(k, i) \/ (Hot(row) /\ ~Closing(k, i))

\* The job can make another attempt on i than those already counted.
Chance(i) == \E d \in DueJobs : ChanceOf(wk[d], i, inv[i])

Spent == 3 * Cardinality(Retrying) + 2 * Cardinality(Opened)
Left(a, r, s) == MaxAttempts + a + 3 * r - s
Budget == Left(aborts, requests, Spent)
Room(i) == IF Chance(i) THEN Budget - 1 ELSE Budget

LimitInv ==
    /\ IsFiniteSet(Retrying) /\ IsFiniteSet(Opened)
    /\ \A i \in InvIds :
         /\ MaxAttempts <= Room(i) /\ inv[i].attempts <= Room(i)
         /\ \A w \in Workers : wk[w].i = i => wk[w].inv.attempts <= Room(i)

\* Drafts have no attempts; retries are calls; the upcoming job only drafts.
Shape(w, k) ==
    /\ k.inv.st = "draft" => k.inv.attempts = 0
    /\ k.pc \in {"open", "openLink"} => k.inv.st = "draft"
    /\ k.pc \in ChoicePcs => k.inv.st # "draft"
    /\ k.pc \in {"retry", "reopen", "refund", "refunded"} => w \in Requests
    /\ w \in UpcomingJobs => /\ k.pc \in {"idle", "ensure", "create"}
                             /\ k.pc # "idle" => k.want = "draft"
ShapeInv == /\ \A w \in Workers : Shape(w, wk[w])
            /\ \A i \in InvIds : inv[i].st = "draft" => inv[i].attempts = 0

CountInv == TypeInv /\ ShapeInv /\ LimitInv
-----------------------------------------------------------------------------
LEMMA Toggle ==
  ASSUME NEW S, IsFiniteSet(S), NEW T, NEW w, T \ {w} = S \ {w}
  PROVE  /\ IsFiniteSet(T)
         /\ Cardinality(S) \in Nat /\ Cardinality(T) \in Nat
         /\ Cardinality(T) = Cardinality(S) + (IF w \in T THEN 1 ELSE 0)
                                            - (IF w \in S THEN 1 ELSE 0)
  <1>1. IsFiniteSet(S \ {w})
        /\ Cardinality(S \ {w}) = IF w \in S THEN Cardinality(S) - 1 ELSE Cardinality(S)
    BY FS_RemoveElement
  <1>2. Cardinality(S) \in Nat /\ Cardinality(S \ {w}) \in Nat
    BY <1>1, FS_CardinalityType
  <1>3. w \notin S \ {w}
    OBVIOUS
  <1>4. CASE w \in T
    <2>1. T = (S \ {w}) \cup {w}
      BY <1>4
    <2>2. IsFiniteSet(T) /\ Cardinality(T) = Cardinality(S \ {w}) + 1
      BY <2>1, <1>1, <1>3, FS_AddElement
    <2> QED
      BY <1>1, <1>2, <1>4, <2>2
  <1>5. CASE w \notin T
    <2>1. T = S \ {w}
      BY <1>5
    <2> QED
      BY <1>1, <1>2, <1>5, <2>1
  <1> QED
    BY <1>4, <1>5

\* What a worker at k may still cost.
Owed(k) == IF k.pc \in {"retry", "reopen", "refund", "refunded"} THEN 3 ELSE IF Before(k) THEN 2 ELSE 0

LEMMA SpentStep ==
  ASSUME CountInv, NEW w \in Workers, NEW row, wk' = [wk EXCEPT ![w] = row]
  PROVE  /\ (IsFiniteSet(Retrying) /\ IsFiniteSet(Opened))'
         /\ Spent \in Nat /\ Spent' \in Nat
         /\ Spent' = IF w \in Requests THEN Spent + Owed(row) - Owed(wk[w]) ELSE Spent
  <1>0. wk'[w] = row /\ (\A v \in Workers : v # w => wk'[v] = wk[v]) /\ Requests \subseteq Workers
    BY DEF CountInv, TypeInv, TypeOK, Workers
  <1> DEFINE R == {v \in Requests : wk'[v].pc \in {"retry", "reopen", "refund", "refunded"}}
             O == {v \in Requests : Before(wk'[v])}
  <1>1. R \ {w} = Retrying \ {w} /\ O \ {w} = Opened \ {w}
    BY <1>0 DEF Retrying, Opened
  <1>2. IsFiniteSet(Retrying) /\ IsFiniteSet(Opened)
    BY DEF CountInv, LimitInv
  <1>3. R = Retrying' /\ O = Opened'
    BY DEF Retrying, Opened, Before
  <1>4. /\ w \in Retrying <=> w \in Requests /\ wk[w].pc \in {"retry", "reopen", "refund", "refunded"}
        /\ w \in Opened <=> w \in Requests /\ Before(wk[w])
        /\ w \in R <=> w \in Requests /\ row.pc \in {"retry", "reopen", "refund", "refunded"}
        /\ w \in O <=> w \in Requests /\ Before(row)
    BY <1>0 DEF Retrying, Opened
  <1> HIDE DEF R, O
  <1>5. /\ IsFiniteSet(R) /\ Cardinality(Retrying) \in Nat /\ Cardinality(R) \in Nat
        /\ Cardinality(R) = Cardinality(Retrying) + (IF w \in R THEN 1 ELSE 0)
                                - (IF w \in Retrying THEN 1 ELSE 0)
    BY <1>1, <1>2, Toggle
  <1>6. /\ IsFiniteSet(O) /\ Cardinality(Opened) \in Nat /\ Cardinality(O) \in Nat
        /\ Cardinality(O) = Cardinality(Opened) + (IF w \in O THEN 1 ELSE 0)
                                - (IF w \in Opened THEN 1 ELSE 0)
    BY <1>1, <1>2, Toggle
  <1>7. \A k : k.pc \in {"retry", "reopen", "refund", "refunded"} => ~Before(k)
    BY DEF Before
  <1>8. Spent = 3 * Cardinality(Retrying) + 2 * Cardinality(Opened)
        /\ Spent' = 3 * Cardinality(R) + 2 * Cardinality(O)
    BY <1>3 DEF Spent
  <1> QED
    BY <1>3, <1>4, <1>5, <1>6, <1>7, <1>8 DEF Owed

Cost(w, k) == IF w \in Requests THEN Owed(k) ELSE 0

\* A number of attempts on i that some row or copy of i has had before.
Known(w, i, n) == \/ n <= MaxAttempts
                  \/ n <= inv[i].attempts
                  \/ wk[w].i = i /\ n <= wk[w].inv.attempts

LEMMA BudgetStep ==
  ASSUME CountInv, NEW w \in Workers, NEW row, wk' = [wk EXCEPT ![w] = row],
         NEW a \in Nat, NEW r \in Nat, aborts' = aborts + a, requests' = requests + r,
         NEW gain \in Nat, a + 3 * r + Cost(w, wk[w]) = Cost(w, row) + gain
  PROVE  /\ (IsFiniteSet(Retrying) /\ IsFiniteSet(Opened))'
         /\ Budget \in Int /\ Budget' = Budget + gain
  <1>0. (IsFiniteSet(Retrying) /\ IsFiniteSet(Opened))'
    BY SpentStep
  <1>1. /\ Spent \in Nat /\ Spent' \in Nat
        /\ Spent' = Spent + Cost(w, row) - Cost(w, wk[w])
    <2>1. /\ Spent \in Nat /\ Spent' \in Nat
          /\ Spent' = IF w \in Requests THEN Spent + Owed(row) - Owed(wk[w]) ELSE Spent
      BY SpentStep
    <2> QED
      BY <2>1 DEF Cost
  <1>9. Owed(row) \in Nat /\ Owed(wk[w]) \in Nat
    BY DEF Owed
  <1>2. aborts \in Nat /\ requests \in Nat /\ Cost(w, row) \in Nat /\ Cost(w, wk[w]) \in Nat
    BY <1>9 DEF CountInv, TypeInv, TypeOK, Cost
  <1> DEFINE s == Spent + Cost(w, row) - Cost(w, wk[w])
  <1>3. s \in Nat /\ Budget' = Left(aborts + a, requests + r, s)
    BY <1>1 DEF Budget
  <1>4. Budget = Left(aborts, requests, Spent) /\ Spent \in Nat
        /\ s = Spent + Cost(w, row) - Cost(w, wk[w])
    BY <1>1 DEF Budget
  <1> DEFINE c == Cost(w, row)
             e == Cost(w, wk[w])
  <1>5. /\ c \in Nat /\ e \in Nat /\ s \in Nat /\ Spent \in Nat
        /\ aborts \in Nat /\ requests \in Nat
        /\ s = Spent + c - e /\ a + 3 * r + e = c + gain
    BY <1>2, <1>3, <1>4
  <1> HIDE DEF s, c, e
  <1>6. Left(aborts + a, requests + r, s) = Left(aborts, requests, Spent) + gain
        /\ Left(aborts, requests, Spent) \in Int
    BY <1>5 DEF Left, MaxAttempts
  <1> QED
    BY <1>0, <1>3, <1>4, <1>6

\* A worker that goes on with row, counts nothing new and gives the job no chance
\* that is not paid for.
LEMMA Move ==
  ASSUME SoleReplica, CountInv, TypeInv', NEW w \in Workers, NEW row,
         wk' = [wk EXCEPT ![w] = row],
         NEW a \in Nat, NEW r \in Nat, aborts' = aborts + a, requests' = requests + r,
         NEW gain \in Nat, a + 3 * r + Cost(w, wk[w]) = Cost(w, row) + gain,
         \A i \in InvIds : Known(w, i, inv'[i].attempts),
         row.i \in InvIds => Known(w, row.i, row.inv.attempts),
         gain = 0 =>
           \A i \in InvIds : IF w \in DueJobs
                              THEN ChanceOf(row, i, inv'[i]) => ChanceOf(wk[w], i, inv[i])
                              ELSE Hot(inv'[i]) => Hot(inv[i]),
         Shape(w, row),
         \A i \in InvIds : inv'[i].st = "draft" => inv'[i].attempts = 0
  PROVE  CountInv'
  <1>0. wk'[w] = row /\ (\A v \in Workers : v # w => wk'[v] = wk[v]) /\ DueJobs \subseteq Workers
    BY DEF CountInv, TypeInv, TypeOK, Workers
  <1>1. ShapeInv'
    BY <1>0 DEF CountInv, ShapeInv, Shape
  <1>3. /\ (IsFiniteSet(Retrying) /\ IsFiniteSet(Opened))'
        /\ Budget \in Int /\ Budget' = Budget + gain
    BY BudgetStep
  <1>4. ASSUME NEW i \in InvIds
        PROVE  /\ Chance(i)' => Chance(i) \/ gain >= 1
               /\ Room(i)' >= Room(i) /\ Room(i) \in Int /\ Room(i)' \in Int
    <2>1. ASSUME gain = 0, Chance(i)' PROVE Chance(i)
      <3>1. PICK d \in DueJobs : ChanceOf(wk'[d], i, inv'[i])
        BY <2>1 DEF Chance, ChanceOf, Hot, Held, Closing, Before
      <3>2. CASE d = w
        BY <1>0, <2>1, <3>1, <3>2 DEF Chance
      <3>3. CASE d # w
        BY <1>0, <2>1, <3>1, <3>3 DEF Chance, ChanceOf, SoleReplica
      <3> QED
        BY <3>2, <3>3
    <2> QED
      BY <2>1, <1>3 DEF Room
  <1>5. ASSUME NEW i \in InvIds, NEW n \in Nat, Known(w, i, n)
        PROVE  n <= Room(i)'
    BY <1>4, <1>5 DEF Known, CountInv, LimitInv, TypeInv, TypeOK, InvRow, Worker, MaxAttempts
  <1>6. \A i \in InvIds : inv'[i].attempts \in Nat
        /\ \A v \in Workers : wk'[v].inv.attempts \in Nat
    BY DEF TypeInv, TypeOK, InvRow, Worker
  <1>7. ASSUME NEW i \in InvIds
        PROVE  /\ MaxAttempts <= Room(i)' /\ inv'[i].attempts <= Room(i)'
               /\ \A v \in Workers : wk'[v].i = i => wk'[v].inv.attempts <= Room(i)'
    <2>1. MaxAttempts <= Room(i)'
      BY <1>5 DEF Known, MaxAttempts
    <2>2. inv'[i].attempts <= Room(i)'
      BY <1>5, <1>6
    <2>3. ASSUME NEW v \in Workers, wk'[v].i = i
          PROVE  wk'[v].inv.attempts <= Room(i)'
      <3>1. CASE v = w
        BY <1>0, <1>5, <1>6, <2>3, <3>1
      <3>2. CASE v # w
        <4>1. wk[v].inv.attempts <= Room(i)
          BY <1>0, <2>3, <3>2 DEF CountInv, LimitInv
        <4> QED
          BY <1>0, <1>4, <1>6, <3>2, <4>1
      <3> QED
        BY <3>1, <3>2
    <2> QED
      BY <2>1, <2>2, <2>3
  <1>8. LimitInv'
    BY <1>3, <1>7 DEF LimitInv, MaxAttempts
  <1> QED
    BY <1>1, <1>8 DEF CountInv

\* The job does not start to hold an invoice, nor stop to close one.
Quiet(w, k, row) ==
    w \in DueJobs => \A i \in InvIds : /\ Held(row, i) => Held(k, i)
                                       /\ Closing(k, i) => Closing(row, i)

\* A step of worker w that stores no invoice and reads none.
LEMMA QuietCount ==
  ASSUME SoleReplica, CountInv, TypeInv', NEW w \in Workers, NEW row,
         wk' = [wk EXCEPT ![w] = row], UNCHANGED <<inv, aborts, requests>>,
         (row.i = wk[w].i /\ row.inv = wk[w].inv) \/ row.i \notin InvIds,
         w \in Requests => Owed(row) <= Owed(wk[w]), Quiet(w, wk[w], row), Shape(w, row)
  PROVE  CountInv'
  <1> DEFINE gain == Cost(w, wk[w]) - Cost(w, row)
  <1>0. Owed(row) \in Nat /\ Owed(wk[w]) \in Nat
    BY DEF Owed
  <1>1. /\ Cost(w, row) \in Nat /\ Cost(w, wk[w]) \in Nat /\ gain \in Nat
        /\ aborts \in Nat /\ requests \in Nat
    BY <1>0 DEF Cost, CountInv, TypeInv, TypeOK
  <1>2. /\ \A i \in InvIds : Known(w, i, inv'[i].attempts)
        /\ row.i \in InvIds => Known(w, row.i, row.inv.attempts)
    BY DEF Known, CountInv, TypeInv, TypeOK, InvRow, Worker
  <1>3. \A i \in InvIds : IF w \in DueJobs
                           THEN ChanceOf(row, i, inv'[i]) => ChanceOf(wk[w], i, inv[i])
                           ELSE Hot(inv'[i]) => Hot(inv[i])
    <2>1. inv' = inv
      OBVIOUS
    <2>2. ASSUME NEW i \in InvIds, w \in DueJobs, ChanceOf(row, i, inv[i])
          PROVE  ChanceOf(wk[w], i, inv[i])
      BY <2>2 DEF Quiet, ChanceOf
    <2> QED
      BY <2>1, <2>2
  <1>4. \A i \in InvIds : inv'[i].st = "draft" => inv'[i].attempts = 0
    BY DEF CountInv, ShapeInv
  <1>5. aborts' = aborts + 0 /\ requests' = requests + 0
        /\ 0 + 3 * 0 + Cost(w, wk[w]) = Cost(w, row) + gain
    BY <1>1
  <1> HIDE DEF gain
  <1> QED
    BY <1>1, <1>2, <1>3, <1>4, <1>5, Move

\* The steps of a worker that only take it to another place.
Turns == {<<"ensure", "create">>, <<"attach", "source">>, <<"source", "order">>,
          <<"source", "failHard">>, <<"source", "intent">>, <<"source", "verify">>,
          <<"verify", "failSoft">>, <<"verify", "failHard">>, <<"verify", "intent">>,
          <<"charge", "accept">>, <<"charge", "reject">>, <<"accept", "paid">>,
          <<"accept", "complete">>, <<"complete", "settle">>, <<"settle", "paid">>,
          <<"reject", "failSoft">>, <<"reject", "failInit">>, <<"failInit", "failSoft">>,
          <<"offer", "saveOrder">>, <<"saveOrder", "saveLink">>, <<"refund", "refunded">>,
          <<"disable", "disableOnly">>, <<"mandate", "store">>}

LEMMA GotoCount ==
  ASSUME SoleReplica, CountInv, TypeInv', NEW w \in Workers, NEW pc, Goto(w, pc),
         UNCHANGED <<inv, aborts, requests>>,
         wk[w].pc = "attach" => wk[w].inv.link = NoPay,
         \/ <<wk[w].pc, pc>> \in Turns
         \/ wk[w].pc = "initiate" /\ pc = IF Kind(w) = "card" THEN "charge" ELSE "count"
  PROVE  CountInv'
  <1> DEFINE row == [wk[w] EXCEPT !.pc = pc]
  <1>1. /\ wk[w] \in Worker /\ Shape(w, wk[w]) /\ wk' = [wk EXCEPT ![w] = row]
        /\ row.pc = pc /\ row.i = wk[w].i /\ row.inv = wk[w].inv /\ row.sub = wk[w].sub
        /\ row.want = wk[w].want
    BY DEF CountInv, TypeInv, TypeOK, ShapeInv, Goto, Becomes, Worker
  <1> HIDE DEF row
  <1>2. Owed(row) <= Owed(wk[w]) /\ (Before(row) => Before(wk[w]))
    BY <1>1 DEF Owed, Before, Turns, Kind
  <1>3. Shape(w, row)
    BY <1>1 DEF Shape, Turns, Kind, ChoicePcs
  <1>4. Quiet(w, wk[w], row)
    <2>1. pc \in ChoicePcs => wk[w].pc \in ChoicePcs
      BY DEF ChoicePcs, Turns, Kind
    <2>2. ASSUME NEW i, Held(row, i) PROVE Held(wk[w], i)
      BY <1>1, <1>2, <2>1, <2>2 DEF Held
    <2>3. ASSUME NEW i, Closing(wk[w], i) PROVE Closing(row, i)
      BY <1>1, <2>3 DEF Closing, ClosingPcs, Turns, Kind, Before
    <2> QED
      BY <2>2, <2>3 DEF Quiet
  <1> QED
    BY <1>1, <1>2, <1>3, <1>4, QuietCount

LEMMA ReturnCount ==
  ASSUME SoleReplica, CountInv, TypeInv', NEW w \in Workers, Return(w),
         UNCHANGED <<inv, aborts, requests>>,
         wk[w].pc \notin ClosingPcs \cup {"initiate"}
  PROVE  CountInv'
  <1>1. /\ Idle.i \notin InvIds /\ wk' = [wk EXCEPT ![w] = Idle]
        /\ Owed(Idle) <= Owed(wk[w]) /\ Shape(w, Idle)
    BY DEF Idle, InvIds, NoInv, Return, Becomes, Owed, Before, Shape, ChoicePcs, NoInvoice
  <1>2. Quiet(w, wk[w], Idle)
    BY DEF Idle, Quiet, Held, Closing, ChoicePcs, NoInvoice
  <1> QED
    BY <1>1, <1>2, QuietCount

\* A worker that stores r as invoice i, and goes on with at most that in hand.
LEMMA StoreStep ==
  ASSUME SoleReplica, CountInv, TypeInv', NEW w \in Workers, NEW row,
         wk' = [wk EXCEPT ![w] = row], UNCHANGED <<aborts, requests>>,
         NEW i, NEW r, inv' = [inv EXCEPT ![i] = r],
         r.attempts <= MaxAttempts \/ (wk[w].i = i /\ r.attempts <= wk[w].inv.attempts),
         row.i \notin InvIds \/ (row.i = i /\ row.inv.attempts = r.attempts),
         r.st = "draft" => r.attempts = 0,
         Owed(row) <= Owed(wk[w]),
         (w \in Requests /\ Owed(row) < Owed(wk[w])) \/ ~Hot(r),
         w \in DueJobs =>
           \A j \in InvIds : ~Held(row, j) /\ (Closing(wk[w], j) => j = i),
         Shape(w, row)
  PROVE  CountInv'
  <1> DEFINE gain == Cost(w, wk[w]) - Cost(w, row)
  <1>0. Owed(row) \in Nat /\ Owed(wk[w]) \in Nat
    BY DEF Owed
  <1>1. /\ Cost(w, row) \in Nat /\ Cost(w, wk[w]) \in Nat /\ gain \in Nat
        /\ aborts \in Nat /\ requests \in Nat
        /\ w \in Requests /\ Owed(row) < Owed(wk[w]) => gain # 0
    BY <1>0 DEF Cost, CountInv, TypeInv, TypeOK
  <1>2. aborts' = aborts + 0 /\ requests' = requests + 0
        /\ 0 + 3 * 0 + Cost(w, wk[w]) = Cost(w, row) + gain
    BY <1>1
  <1> HIDE DEF gain
  <1>3. /\ inv \in [InvIds -> InvRow]
        /\ \A j \in InvIds : inv'[j] = IF j = i THEN r ELSE inv[j]
        /\ i \in InvIds => r.attempts \in Nat /\ inv'[i] = r
    BY DEF CountInv, TypeInv, TypeOK, InvRow
  <1>4. \A j \in InvIds : Known(w, j, inv'[j].attempts)
    BY <1>3 DEF Known, InvRow
  <1>5. row.i \in InvIds => Known(w, row.i, row.inv.attempts)
    BY <1>3 DEF Known
  <1>6. ASSUME gain = 0, NEW j \in InvIds
        PROVE  IF w \in DueJobs
               THEN ChanceOf(row, j, inv'[j]) => ChanceOf(wk[w], j, inv[j])
               ELSE Hot(inv'[j]) => Hot(inv[j])
    <2>1. ~Hot(r)
      BY <1>1, <1>6
    <2>2. CASE j = i
      BY <1>3, <2>1, <2>2 DEF ChanceOf
    <2>3. CASE j # i
      BY <1>3, <2>3 DEF ChanceOf
    <2> QED
      BY <2>2, <2>3
  <1>7. \A j \in InvIds : inv'[j].st = "draft" => inv'[j].attempts = 0
    BY <1>3 DEF CountInv, ShapeInv
  <1> QED
    BY <1>1, <1>2, <1>4, <1>5, <1>6, <1>7, Move

\* Where a worker at work stores its own copy of an invoice.
LEMMA SaveCount ==
  ASSUME SoleReplica, CountInv, TypeInv', NEW w \in Workers, NEW r, NEW pc,
         SaveInvoice(w, r, pc), r.attempts = wk[w].inv.attempts,
         r.st = "draft" => r.attempts = 0,
         \/ wk[w].pc = "open" /\ pc = "attach" /\ r.st = "open"
         \/ wk[w].pc = "paid" /\ pc = "advance" /\ r.st = "paid"
         \/ wk[w].pc = "failSoft" /\ pc = "pastDue" /\ r.attempts < MaxAttempts
         \/ wk[w].pc \in {"failSoft", "failHard"} /\ pc = "pause" /\ r.st = "failed"
         \/ wk[w].pc = "reopen" /\ pc \in {"unpause", "ensure"}
  PROVE  CountInv'
  <1> DEFINE row == [wk[w] EXCEPT !.inv = r, !.pc = pc]
  <1>1. /\ wk[w] \in Worker /\ Shape(w, wk[w]) /\ wk' = [wk EXCEPT ![w] = row]
        /\ row.pc = pc /\ row.i = wk[w].i /\ row.inv = r /\ row.sub = wk[w].sub
        /\ row.want = wk[w].want /\ wk[w].inv.attempts \in Nat
        /\ UNCHANGED <<aborts, requests>> /\ inv' = [inv EXCEPT ![wk[w].i] = r]
    BY DEF CountInv, TypeInv, TypeOK, ShapeInv, SaveInvoice, Others, Becomes, Worker, InvRow
  <1> HIDE DEF row
  <1>2. Owed(row) <= Owed(wk[w])
    BY <1>1 DEF Owed, Before
  <1>3. (w \in Requests /\ Owed(row) < Owed(wk[w])) \/ ~Hot(r)
    BY <1>1 DEF Owed, Before, Hot, Shape, MaxAttempts
  <1>4. Shape(w, row)
    BY <1>1 DEF Shape, ChoicePcs
  <1>5. \A j \in InvIds : ~Held(row, j) /\ (Closing(wk[w], j) => j = wk[w].i)
    BY <1>1 DEF Held, ChoicePcs, Closing, Shape, MaxAttempts
  <1>6. r.attempts <= wk[w].inv.attempts
    BY <1>1
  <1> QED
    BY <1>1, <1>2, <1>3, <1>4, <1>5, <1>6, StoreStep

\* The cases of a worker's step, in the order of the code.
LEMMA EnsureCount ==
  ASSUME SoleReplica, CountInv, TypeInv', NEW w \in Workers, Ensure(w)
  PROVE  CountInv'
  <1>1. /\ UNCHANGED <<inv, aborts, requests>> /\ wk[w].pc = "ensure"
        /\ wk[w] \in Worker /\ Shape(w, wk[w])
    BY DEF Ensure, At, dbVars, Others, CountInv, ShapeInv, TypeInv, TypeOK
  <1>2. CASE Goto(w, "create")
    BY <1>1, <1>2, GotoCount DEF Turns
  <1>3. CASE Return(w)
    BY <1>1, <1>3, ReturnCount DEF ClosingPcs
  <1>4. ASSUME NEW i \in InvoicesDue(wk[w].sub.cycle),
               wk[w].want # "draft", inv[i].st \notin {"paid", "failed"},
               Becomes(w, [wk[w] EXCEPT !.i = i, !.inv = inv[i],
                             !.pc = IF inv[i].st = "draft" THEN "open" ELSE "attach"])
        PROVE  CountInv'
    <2> DEFINE row == [wk[w] EXCEPT !.i = i, !.inv = inv[i],
                             !.pc = IF inv[i].st = "draft" THEN "open" ELSE "attach"]
    <2>1. /\ row.pc = IF inv[i].st = "draft" THEN "open" ELSE "attach"
          /\ row.i = i /\ row.inv = inv[i] /\ row.want = wk[w].want
          /\ wk' = [wk EXCEPT ![w] = row]
      BY <1>1, <1>4 DEF Worker, Becomes
    <2>2. /\ i \in InvIds /\ inv[i] \in InvRow /\ inv[i].st \in {"draft", "open", "refunded"}
          /\ inv[i].st = "draft" => inv[i].attempts = 0
      BY <1>4 DEF InvoicesDue, CountInv, ShapeInv, TypeInv, TypeOK, InvRow, InvStatus
    <2> HIDE DEF row
    <2>3. Owed(row) = 2 /\ Owed(wk[w]) = 2 /\ Shape(w, row)
      BY <1>1, <1>4, <2>1, <2>2 DEF Owed, Before, Shape, ChoicePcs
    <2>4. \A j \in InvIds : Known(w, j, inv'[j].attempts)
      BY <1>1 DEF Known, CountInv, TypeInv, TypeOK, InvRow
    <2>5. Known(w, row.i, row.inv.attempts)
      BY <2>1, <2>2 DEF Known, InvRow
    <2>6. ASSUME NEW j \in InvIds
          PROVE  IF w \in DueJobs
                 THEN ChanceOf(row, j, inv'[j]) => ChanceOf(wk[w], j, inv[j])
                 ELSE Hot(inv'[j]) => Hot(inv[j])
      <3>1. inv' = inv /\ ~Closing(wk[w], j)
        BY <1>1 DEF Closing, ClosingPcs
      <3>2. Held(row, j) => Hot(inv[j])
        BY <2>1, <2>2 DEF Held, Hot, ChoicePcs, MaxAttempts
      <3> QED
        BY <3>1, <3>2 DEF ChanceOf
    <2>7. \A j \in InvIds : inv'[j].st = "draft" => inv'[j].attempts = 0
      BY <1>1 DEF CountInv, ShapeInv
    <2>8. /\ aborts' \in Nat /\ requests' \in Nat /\ Cost(w, row) = Cost(w, wk[w])
          /\ Cost(w, row) \in Nat
          /\ aborts' = aborts /\ requests' = requests
      BY <1>1, <2>3 DEF Cost, CountInv, TypeInv, TypeOK
    <2>9. /\ aborts' = aborts + 0 /\ requests' = requests + 0
          /\ 0 + 3 * 0 + Cost(w, wk[w]) = Cost(w, row) + 0
      BY <2>8
    <2> QED
      BY <2>1, <2>3, <2>4, <2>5, <2>6, <2>7, <2>8, <2>9, Move
  <1> QED
    BY <1>2, <1>3, <1>4 DEF Ensure

LEMMA CreateCount ==
  ASSUME SoleReplica, CountInv, TypeInv', NEW w \in Workers, Create(w)
  PROVE  CountInv'
  <1> DEFINE new == NewInv(wk[w].sub.cycle, wk[w].want)
  <1>1. PICK i \in InvIds :
          /\ inv' = [inv EXCEPT ![i] = new]
          /\ IF wk[w].want = "draft"
             THEN Return(w)
             ELSE Becomes(w, [wk[w] EXCEPT !.i = i, !.inv = new, !.pc = "attach"])
    BY DEF Create
  <1>2. /\ UNCHANGED <<aborts, requests>> /\ wk[w].pc = "create"
        /\ wk[w] \in Worker /\ Shape(w, wk[w]) /\ wk[w].want \in {"draft", "open"}
        /\ new.attempts = 0 /\ ~Hot(new) /\ new.st = wk[w].want
    BY DEF Create, At, Others, CountInv, ShapeInv, TypeInv, TypeOK, NewInv, Hot,
           MaxAttempts, Worker
  <1> DEFINE next == [wk[w] EXCEPT !.i = i, !.inv = new, !.pc = "attach"]
             row == IF wk[w].want = "draft" THEN Idle ELSE next
  <1>3. /\ next.i = i /\ next.inv = new /\ next.pc = "attach" /\ next.want = wk[w].want
        /\ wk' = [wk EXCEPT ![w] = row]
    BY <1>1, <1>2 DEF Return, Becomes, Worker
  <1>4. Idle.i \notin InvIds /\ Shape(w, Idle) /\ Owed(Idle) = 0 /\ ~\E j \in InvIds : Held(Idle, j)
    BY DEF Idle, NoInv, InvIds, Shape, ChoicePcs, NoInvoice, Owed, Before, Held
  <1> HIDE DEF next, new
  <1>5. Owed(next) = 2 /\ Owed(wk[w]) = 2
    BY <1>2, <1>3 DEF Owed, Before
  <1>6. wk[w].want # "draft" => Shape(w, next) /\ ~\E j \in InvIds : Held(next, j)
    BY <1>2, <1>3 DEF Shape, ChoicePcs, Held, MaxAttempts
  <1>7. ~\E j \in InvIds : Closing(wk[w], j)
    BY <1>2 DEF Closing, ClosingPcs
  <1>8. /\ row.i \notin InvIds \/ (row.i = i /\ row.inv.attempts = new.attempts)
        /\ Owed(row) <= Owed(wk[w]) /\ Shape(w, row) /\ ~\E j \in InvIds : Held(row, j)
    BY <1>3, <1>4, <1>5, <1>6
  <1> HIDE DEF row
  <1>9. new.attempts <= MaxAttempts
    BY <1>2 DEF MaxAttempts
  <1> QED
    BY <1>1, <1>2, <1>3, <1>7, <1>8, <1>9, StoreStep

LEMMA SaveLinkCount ==
  ASSUME SoleReplica, CountInv, TypeInv', NEW w \in Workers, SaveLink(w)
  PROVE  CountInv'
  <1> DEFINE r == [wk[w].inv EXCEPT !.link = wk[w].p]
  <1>1. /\ UNCHANGED <<aborts, requests>> /\ wk' = [wk EXCEPT ![w] = Idle]
        /\ inv' = [inv EXCEPT ![wk[w].i] = r]
        /\ wk[w] \in Worker /\ Shape(w, wk[w]) /\ wk[w].p # NoPay /\ wk[w].pc = "saveLink"
    BY DEF SaveLink, At, Return, Becomes, CountInv, ShapeInv, TypeInv, TypeOK, HeldOK, OrderPcs,
           PayIds, NoPay
  <1>2. /\ r.attempts = wk[w].inv.attempts /\ r.st = wk[w].inv.st /\ ~Hot(r)
        /\ r.attempts \in Nat
    BY <1>1 DEF Worker, InvRow, Hot
  <1>3. /\ Idle.i \notin InvIds /\ Shape(w, Idle) /\ Owed(Idle) <= Owed(wk[w])
        /\ ~\E j \in InvIds : Held(Idle, j) \/ Closing(wk[w], j)
    BY <1>1 DEF Idle, NoInv, InvIds, Shape, ChoicePcs, NoInvoice, Owed, Before, Held, Closing,
                ClosingPcs
  <1>4. r.st = "draft" => r.attempts = 0
    BY <1>1, <1>2 DEF Shape
  <1> HIDE DEF r
  <1>5. r.attempts <= wk[w].inv.attempts
    BY <1>2
  <1> QED
    BY <1>1, <1>2, <1>3, <1>4, <1>5, StoreStep

LEMMA LinkOpenCount ==
  ASSUME SoleReplica, CountInv, TypeInv', NEW w \in Workers, LinkOpen(w)
  PROVE  CountInv'
  <1> DEFINE r == [wk[w].inv EXCEPT !.st = "open"]
             next == [wk[w] EXCEPT !.inv = r, !.pc = "order"]
             row == IF r.link = NoPay THEN next ELSE Idle
  <1>1. /\ UNCHANGED <<aborts, requests>> /\ wk[w].pc = "openLink"
        /\ inv' = [inv EXCEPT ![wk[w].i] = r] /\ wk' = [wk EXCEPT ![w] = row]
        /\ wk[w] \in Worker /\ Shape(w, wk[w])
    BY DEF LinkOpen, At, Return, Becomes, CountInv, ShapeInv, TypeInv, TypeOK, Others
  <1>2. r.attempts = 0 /\ wk[w].inv.attempts = 0 /\ r.st = "open" /\ ~Hot(r)
    BY <1>1 DEF Worker, InvRow, Hot, Shape, MaxAttempts
  <1>3. /\ next.pc = "order" /\ next.i = wk[w].i /\ next.inv = r /\ next.want = wk[w].want
    BY <1>1 DEF Worker
  <1> HIDE DEF r, next
  <1>4. /\ Idle.i \notin InvIds /\ Shape(w, Idle) /\ Owed(Idle) = 0 /\ Owed(wk[w]) = 0
        /\ ~\E j \in InvIds : Held(Idle, j) \/ Closing(wk[w], j)
    BY <1>1 DEF Idle, NoInv, InvIds, Shape, ChoicePcs, NoInvoice, Owed, Before, Held, Closing,
                ClosingPcs
  <1>5. Owed(next) = 0 /\ Shape(w, next) /\ ~\E j \in InvIds : Held(next, j)
    BY <1>1, <1>2, <1>3 DEF Owed, Before, Shape, Held, ChoicePcs
  <1>6. /\ row.i \notin InvIds \/ (row.i = wk[w].i /\ row.inv.attempts = r.attempts)
        /\ Owed(row) <= Owed(wk[w]) /\ Shape(w, row) /\ ~\E j \in InvIds : Held(row, j)
    BY <1>3, <1>4, <1>5
  <1> HIDE DEF row
  <1>7. r.attempts <= MaxAttempts
    BY <1>2 DEF MaxAttempts
  <1> QED
    BY <1>1, <1>2, <1>4, <1>6, <1>7, StoreStep

\* A worker that goes on with another subscription or payment in hand.
LEMMA ReadSubCount ==
  ASSUME SoleReplica, CountInv, TypeInv', NEW w \in Workers, ReadSub(w)
  PROVE  CountInv'
  <1>1. PICK pc \in {"reopen", "openLink", "order"} :
          /\ Becomes(w, [wk[w] EXCEPT !.pc = pc, !.sub = sub])
          /\ \/ At(w, "retry") /\ pc = "reopen"
             \/ At(w, "link") /\ pc = IF wk[w].inv.st = "draft" THEN "openLink" ELSE "order"
    BY DEF ReadSub
  <1> DEFINE row == [wk[w] EXCEPT !.pc = pc, !.sub = sub]
  <1>9. UNCHANGED <<inv, aborts, requests>> /\ wk[w] \in Worker /\ Shape(w, wk[w])
    BY DEF ReadSub, dbVars, Others, CountInv, ShapeInv, TypeInv, TypeOK
  <1>2. /\ UNCHANGED <<inv, aborts, requests>> /\ wk' = [wk EXCEPT ![w] = row]
        /\ Shape(w, wk[w])
        /\ row.pc = pc /\ row.i = wk[w].i /\ row.inv = wk[w].inv /\ row.want = wk[w].want
    BY <1>1, <1>9 DEF Becomes, Worker
  <1> HIDE DEF row
  <1>3. Owed(row) <= Owed(wk[w]) /\ Shape(w, row)
    BY <1>1, <1>2 DEF Owed, Before, Shape, ChoicePcs, At
  <1>4. Quiet(w, wk[w], row)
    BY <1>1, <1>2 DEF Quiet, Held, Closing, ChoicePcs, ClosingPcs, At
  <1> QED
    BY <1>2, <1>3, <1>4, QuietCount

\* The reference of a charge or of an order is taken.
LEMMA ReferenceCount ==
  ASSUME SoleReplica, CountInv, TypeInv', NEW w \in Workers, Intent(w) \/ Order(w)
  PROVE  CountInv'
  <1>1. PICK p \in PayIds, pc \in {"count", "initiate", "offer"} :
          /\ Becomes(w, [wk[w] EXCEPT !.p = p, !.pc = pc])
          /\ \/ At(w, "intent") /\ pc = IF Kind(w) = "card" THEN "count" ELSE "initiate"
             \/ At(w, "order") /\ pc = "offer"
    BY DEF Intent, Order
  <1> DEFINE row == [wk[w] EXCEPT !.p = p, !.pc = pc]
  <1>9. UNCHANGED <<inv, aborts, requests>> /\ wk[w] \in Worker /\ Shape(w, wk[w])
    BY DEF Intent, Order, Others, CountInv, ShapeInv, TypeInv, TypeOK
  <1>2. /\ UNCHANGED <<inv, aborts, requests>> /\ wk' = [wk EXCEPT ![w] = row]
        /\ Shape(w, wk[w]) /\ row.sub = wk[w].sub
        /\ row.pc = pc /\ row.i = wk[w].i /\ row.inv = wk[w].inv /\ row.want = wk[w].want
    BY <1>1, <1>9 DEF Becomes, Worker
  <1> HIDE DEF row
  <1>3. Owed(row) <= Owed(wk[w]) /\ Shape(w, row)
    BY <1>1, <1>2 DEF Owed, Before, Shape, ChoicePcs, At, Kind
  <1>4. Quiet(w, wk[w], row)
    BY <1>1, <1>2 DEF Quiet, Held, Closing, ChoicePcs, ClosingPcs, At, Kind, Before
  <1> QED
    BY <1>2, <1>3, <1>4, QuietCount

\* The steps that only take a worker to another place, or end its function.
LEMMA TurnCount ==
  ASSUME SoleReplica, CountInv, TypeInv', NEW w \in Workers,
         \/ Attach(w) \/ FindSource(w) \/ Verify(w) \/ Initiate(w) \/ Charge(w)
         \/ Accept(w) \/ Complete(w) \/ Settle(w) \/ Reject(w) \/ RejectInit(w)
         \/ Offer(w) \/ SaveOrder(w) \/ RefundAsk(w)
         \/ FailSubscription(w) \/ Advance(w) \/ RetryUnpause(w)
  PROVE  CountInv'
  <1>1. CASE Attach(w)
    BY <1>1, GotoCount, ReturnCount DEF Attach, At, Others, Turns, ClosingPcs, Collectable
  <1>2. CASE FindSource(w)
    <2>1. wk[w].sub.src \in Kinds \cup {"none"}
      BY DEF CountInv, TypeInv, TypeOK, Worker, SubRow
    <2>2. PICK pc \in {"order", "failHard", "intent", "verify"} : Goto(w, pc)
      BY <1>2, <2>1 DEF FindSource, Kinds
    <2> QED
      BY <1>2, <2>2, GotoCount DEF FindSource, At, dbVars, Others, Turns
  <1>3. CASE Verify(w)
    BY <1>3, GotoCount DEF Verify, At, dbVars, Others, Turns
  <1>4. CASE Initiate(w)
    BY <1>4, GotoCount DEF Initiate, At, Others
  <1>5. CASE Charge(w)
    BY <1>5, GotoCount DEF Charge, At, dbVars, Turns
  <1>6. CASE \/ Accept(w) \/ Complete(w) \/ Settle(w)
             \/ Reject(w) \/ RejectInit(w) \/ SaveOrder(w)
    <2>1. PICK pc : Goto(w, pc) /\ <<wk[w].pc, pc>> \in Turns
      BY <1>6 DEF Accept, Complete, Settle, Reject, RejectInit, AfterReject, SaveOrder, At, Turns
    <2>2. UNCHANGED <<inv, aborts, requests>> /\ wk[w].pc # "attach"
      BY <1>6 DEF Accept, Complete, Settle, Reject, RejectInit, SaveOrder, At, Others
    <2> QED
      BY <2>1, <2>2, GotoCount
  <1>7. CASE Offer(w) \/ RefundAsk(w)
    BY <1>7, GotoCount, ReturnCount DEF Offer, RefundAsk, At, dbVars, Others, Turns, ClosingPcs
  <1>8. CASE FailSubscription(w) \/ Advance(w)
    BY <1>8, ReturnCount DEF FailSubscription, Advance, SaveSub, At, ClosingPcs
  <1>9. CASE RetryUnpause(w)
    <2> DEFINE row == [wk[w] EXCEPT !.sub = [wk[w].sub EXCEPT !.status = "past_due"], !.pc = "ensure"]
    <2>1. /\ UNCHANGED <<inv, aborts, requests>> /\ wk' = [wk EXCEPT ![w] = row]
          /\ Shape(w, wk[w]) /\ wk[w].pc = "unpause"
          /\ row.pc = "ensure" /\ row.i = wk[w].i /\ row.inv = wk[w].inv /\ row.want = wk[w].want
      BY <1>9 DEF RetryUnpause, At, Becomes, Others, CountInv, ShapeInv, TypeInv, TypeOK, Worker
    <2> HIDE DEF row
    <2>2. Owed(row) <= Owed(wk[w]) /\ Shape(w, row) /\ Quiet(w, wk[w], row)
      BY <2>1 DEF Owed, Before, Shape, ChoicePcs, Quiet, Held, Closing, ClosingPcs
    <2> QED
      BY <2>1, <2>2, QuietCount
  <1> QED
    BY <1>1, <1>2, <1>3, <1>4, <1>5, <1>6, <1>7, <1>8, <1>9

\* The steps that store the copy of the invoice.
LEMMA StoresCount ==
  ASSUME SoleReplica, CountInv, TypeInv', NEW w \in Workers,
         Open(w) \/ MarkPaid(w) \/ FailInvoice(w) \/ RetryReopen(w) \/ RefundCommit(w)
  PROVE  CountInv'
  <1>1. wk[w].inv \in InvRow /\ Shape(w, wk[w])
    BY DEF CountInv, TypeInv, TypeOK, Worker, ShapeInv
  <1>2. CASE Open(w)
    BY <1>1, <1>2, SaveCount DEF Open, At, InvRow
  <1>3. CASE MarkPaid(w)
    BY <1>1, <1>3, SaveCount DEF MarkPaid, At, InvRow
  <1>4. CASE FailInvoice(w)
    <2>1. CASE /\ At(w, "failSoft") /\ wk[w].inv.attempts < MaxAttempts
               /\ SaveInvoice(w, [wk[w].inv EXCEPT !.next = Later(RetryDelay)], "pastDue")
      BY <1>1, <2>1, SaveCount DEF At, InvRow, Shape
    <2>2. CASE /\ At(w, "failHard") \/ At(w, "failSoft")
               /\ SaveInvoice(w, [wk[w].inv EXCEPT !.st = "failed"], "pause")
      BY <1>1, <2>2, SaveCount DEF At, InvRow
    <2> QED
      BY <1>4, <2>1, <2>2 DEF FailInvoice
  <1>5. CASE RetryReopen(w)
    <2> DEFINE r == [wk[w].inv EXCEPT !.st = IF @ = "failed" THEN "open" ELSE @, !.next = now]
    <2>1. r.attempts = wk[w].inv.attempts /\ (r.st = "draft" => r.attempts = 0)
      BY <1>1 DEF InvRow, Shape
    <2>2. PICK pc \in {"unpause", "ensure"} : SaveInvoice(w, r, pc)
      BY <1>5 DEF RetryReopen
    <2> HIDE DEF r
    <2> QED
      BY <1>5, <2>1, <2>2, SaveCount DEF RetryReopen, At
  <1>6. CASE RefundCommit(w)
    <2> DEFINE r == [wk[w].inv EXCEPT !.st = "refunded"]
    <2>1. /\ inv' = [inv EXCEPT ![wk[w].i] = r] /\ wk' = [wk EXCEPT ![w] = Idle]
          /\ wk[w].pc = "refunded" /\ UNCHANGED <<aborts, requests>> /\ w \in Requests
      BY <1>1, <1>6 DEF RefundCommit, Return, Becomes, At, Others, Shape
    <2>2. r.attempts <= wk[w].inv.attempts /\ r.st # "draft"
      BY <1>1 DEF InvRow
    <2>3. /\ Idle.i \notin InvIds /\ Owed(Idle) = 0 /\ Owed(wk[w]) = 3 /\ Shape(w, Idle)
          /\ w \notin DueJobs
      BY <2>1, BillingAssumption
      DEF Idle, InvIds, NoInv, Owed, Before, Shape, ChoicePcs, NoInvoice
    <2> HIDE DEF r
    <2>4. /\ Owed(Idle) <= Owed(wk[w]) /\ Owed(Idle) < Owed(wk[w])
          /\ r.attempts <= MaxAttempts \/ (wk[w].i = wk[w].i /\ r.attempts <= wk[w].inv.attempts)
          /\ r.st = "draft" => r.attempts = 0
          /\ w \in DueJobs =>
               \A j \in InvIds : ~Held(Idle, j) /\ (Closing(wk[w], j) => j = wk[w].i)
      BY <2>2, <2>3
    <2> QED
      BY <2>1, <2>3, <2>4, StoreStep, Zenon
  <1> QED
    BY <1>2, <1>3, <1>4, <1>5, <1>6

\* One attempt more: a request pays for it out of what it was owed, the job with
\* the only chance it had.
LEMMA CountCount ==
  ASSUME SoleReplica, CountInv, TypeInv', NEW w \in Workers, Count(w)
  PROVE  CountInv'
  <1> DEFINE r == [wk[w].inv EXCEPT !.attempts = @ + 1]
             pc == IF Kind(w) = "card" THEN "initiate" ELSE "charge"
             row == [wk[w] EXCEPT !.inv = r, !.pc = pc]
             gain == IF w \in Requests THEN 2 ELSE 0
  <1>0. PICK i : i = wk[w].i
    OBVIOUS
  <1>1. /\ UNCHANGED <<aborts, requests>> /\ wk[w].pc = "count"
        /\ inv' = [inv EXCEPT ![i] = r] /\ wk' = [wk EXCEPT ![w] = row]
        /\ wk[w] \in Worker /\ Shape(w, wk[w]) /\ inv \in [InvIds -> InvRow]
    BY <1>0 DEF Count, SaveInvoice, At, Becomes, Others, CountInv, ShapeInv, TypeInv, TypeOK
  <1>2. /\ r.attempts = wk[w].inv.attempts + 1 /\ r.st = wk[w].inv.st /\ r.st # "draft"
        /\ wk[w].inv.attempts \in Nat
    BY <1>1 DEF Worker, InvRow, Shape, ChoicePcs
  <1>3. /\ row.pc = pc /\ row.i = i /\ row.inv = r /\ row.sub = wk[w].sub
        /\ row.want = wk[w].want
    BY <1>0, <1>1 DEF Worker
  <1> HIDE DEF r, row
  <1>4. /\ ~Before(row) /\ Owed(row) = 0 /\ Owed(wk[w]) = 2 /\ Shape(w, row)
        /\ Closing(row, i) /\ \A j : Closing(wk[w], j) <=> FALSE
        /\ w \notin UpcomingJobs
    BY <1>1, <1>2, <1>3 DEF Owed, Before, Shape, Closing, ClosingPcs, ChoicePcs, Kind
  <1>5. /\ (IsFiniteSet(Retrying) /\ IsFiniteSet(Opened))'
        /\ Budget \in Int /\ Budget' = Budget + gain
    <2>1. /\ gain \in Nat /\ aborts' \in Nat /\ requests' \in Nat
          /\ Cost(w, row) \in Nat /\ Cost(w, wk[w]) \in Nat
          /\ aborts' = aborts /\ requests' = requests
          /\ Cost(w, row) = Cost(w, wk[w]) - gain
      BY <1>1, <1>4 DEF Cost, CountInv, TypeInv, TypeOK
    <2>2. /\ aborts' = aborts + 0 /\ requests' = requests + 0
          /\ 0 + 3 * 0 + Cost(w, wk[w]) = Cost(w, row) + gain
      BY <2>1 DEF CountInv, TypeInv, TypeOK
    <2>3. wk' = [wk EXCEPT ![w] = row]
      BY <1>1
    <2>4. PICK g \in Nat : g = gain
      BY <2>1
    <2> HIDE DEF gain
    <2>5. 0 + 3 * 0 + Cost(w, wk[w]) = Cost(w, row) + g
      BY <2>2, <2>4
    <2>6. Budget \in Int /\ Budget' = Budget + g
      BY <2>2, <2>3, <2>5, BudgetStep
    <2>7. (IsFiniteSet(Retrying) /\ IsFiniteSet(Opened))'
      BY <2>2, <2>3, <2>5, BudgetStep
    <2> QED
      BY <2>4, <2>6, <2>7
  <1>6. /\ \A j \in InvIds : inv'[j] = IF j = i THEN r ELSE inv[j]
        /\ \A v \in Workers : wk'[v] = IF v = w THEN row ELSE wk[v]
        /\ \A j \in InvIds : inv[j].attempts \in Nat
        /\ \A v \in Workers : wk[v].inv.attempts \in Nat
        /\ DueJobs \subseteq Workers
    BY <1>1 DEF CountInv, TypeInv, TypeOK, InvRow, Worker, Workers
  <1>7. CASE w \in Requests
    <2>1. \A j \in InvIds : Room(j) \in Int /\ Room(j)' \in Int /\ Room(j)' >= Room(j) + 1
      BY <1>5, <1>7 DEF Room
    <2>2. \A j \in InvIds : MaxAttempts <= Room(j)' /\ inv'[j].attempts <= Room(j)'
      BY <1>0, <1>2, <1>6, <2>1 DEF CountInv, LimitInv, MaxAttempts
    <2>3. \A j \in InvIds : \A v \in Workers : wk'[v].i = j => wk'[v].inv.attempts <= Room(j)'
      BY <1>0, <1>2, <1>3, <1>6, <2>1 DEF CountInv, LimitInv
    <2>4. LimitInv'
      BY <1>5, <2>2, <2>3 DEF LimitInv, MaxAttempts
    <2>5. ShapeInv'
      BY <1>2, <1>4, <1>6 DEF CountInv, ShapeInv, Shape
    <2> QED
      BY <2>4, <2>5 DEF CountInv
  <1>8. CASE w \in DueJobs
    <2>1. w \notin Requests /\ Budget' = Budget
      BY <1>5, <1>8, BillingAssumption
    <2>2. ASSUME NEW j \in InvIds, Chance(j)' PROVE j # i /\ Chance(j)
      <3>1. PICK d \in DueJobs : ChanceOf(wk'[d], j, inv'[j])
        BY <2>2 DEF Chance, ChanceOf, Hot, Held, Closing, Before
      <3>2. wk'[d] = row
        BY <1>6, <1>8, <3>1 DEF SoleReplica
      <3>3. Hot(inv'[j]) /\ ~Closing(row, j)
        BY <1>4, <3>1, <3>2 DEF ChanceOf, Held
      <3>4. j # i /\ Hot(inv[j]) /\ ~Closing(wk[w], j)
        BY <1>4, <1>6, <3>3
      <3> QED
        BY <1>8, <3>4 DEF Chance, ChanceOf
    <2>3. \A j \in InvIds : Room(j) \in Int /\ Room(j)' \in Int /\ Room(j)' >= Room(j)
      BY <1>5, <2>1, <2>2 DEF Room
    <2>4. i \in InvIds => wk[w].inv.attempts + 1 <= Room(i)'
      <3>1. i \in InvIds => Room(i)' = Budget
        BY <2>1, <2>2 DEF Room
      <3>2. CASE wk[w].inv.attempts >= MaxAttempts /\ i \in InvIds
        <4>1. Chance(i)
          BY <1>0, <1>1, <1>8, <3>2 DEF Chance, ChanceOf, Held, ChoicePcs, Before
        <4>2. wk[w].inv.attempts <= Budget - 1
          BY <1>0, <3>2, <4>1 DEF CountInv, LimitInv, Room
        <4> QED
          BY <1>2, <1>5, <3>1, <3>2, <4>2
      <3>3. CASE ~(wk[w].inv.attempts >= MaxAttempts) /\ i \in InvIds
        <4>1. wk[w].inv.attempts + 1 <= MaxAttempts /\ MaxAttempts <= Room(i)
          BY <1>2, <3>3 DEF MaxAttempts, CountInv, LimitInv
        <4> QED
          BY <1>2, <2>3, <3>3, <4>1 DEF MaxAttempts
      <3> QED
        BY <3>2, <3>3
    <2>5. \A j \in InvIds : MaxAttempts <= Room(j)' /\ inv'[j].attempts <= Room(j)'
      BY <1>2, <1>6, <2>3, <2>4 DEF CountInv, LimitInv, MaxAttempts
    <2>6. \A j \in InvIds : \A v \in Workers : wk'[v].i = j => wk'[v].inv.attempts <= Room(j)'
      BY <1>2, <1>3, <1>6, <2>3, <2>4 DEF CountInv, LimitInv
    <2>7. LimitInv'
      BY <1>5, <2>5, <2>6 DEF LimitInv, MaxAttempts
    <2>8. ShapeInv'
      BY <1>2, <1>4, <1>6 DEF CountInv, ShapeInv, Shape
    <2> QED
      BY <2>7, <2>8 DEF CountInv
  <1> QED
    BY <1>4, <1>7, <1>8 DEF Workers

\* The cron jobs load a subscription.
LEMMA LoadCount ==
  ASSUME SoleReplica, CountInv, TypeInv', NEW w \in Workers,
         (w \in DueJobs /\ LoadDue(w)) \/ (w \in UpcomingJobs /\ LoadUpcoming(w))
  PROVE  CountInv'
  <1>1. PICK want \in {"draft", "open"} :
          /\ wk' = [wk EXCEPT ![w] = [wk[w] EXCEPT !.pc = "ensure", !.want = want, !.sub = sub]]
          /\ wk[w].pc = "idle" /\ UNCHANGED <<inv, aborts, requests>>
          /\ w \in UpcomingJobs => want = "draft"
    BY BillingAssumption DEF LoadDue, LoadUpcoming, Becomes, At, dbVars, Others
  <1> DEFINE row == [wk[w] EXCEPT !.pc = "ensure", !.want = want, !.sub = sub]
  <1>2. wk[w] \in Worker /\ Shape(w, wk[w]) /\ w \notin Requests
    BY BillingAssumption DEF CountInv, ShapeInv, TypeInv, TypeOK
  <1>3. row.pc = "ensure" /\ row.i = wk[w].i /\ row.inv = wk[w].inv /\ row.want = want
    BY <1>2 DEF Worker
  <1> HIDE DEF row
  <1>4. Shape(w, row) /\ Quiet(w, wk[w], row)
    BY <1>1, <1>2, <1>3 DEF Shape, ChoicePcs, Quiet, Held, Closing, ClosingPcs
  <1>5. wk' = [wk EXCEPT ![w] = row]
    BY <1>1 DEF row
  <1> QED
    BY <1>1, <1>2, <1>3, <1>4, <1>5, QuietCount

\* A call starts: it is owed three attempts if it is a retry or a refund.
LEMMA CallCount ==
  ASSUME SoleReplica, CountInv, TypeInv', NEW w \in Requests, NEW row,
         wk[w].pc = "idle", wk' = [wk EXCEPT ![w] = row],
         UNCHANGED <<inv, aborts>>, requests' = requests + 1,
         row.pc \in {"retry", "link", "refund", "cancel", "disable", "store", "mandate"},
         \/ row.i = wk[w].i /\ row.inv = wk[w].inv
         \/ row.i \in InvIds /\ row.inv = inv[row.i]
  PROVE  CountInv'
  <1>1. /\ w \in Workers /\ w \notin UpcomingJobs /\ w \notin DueJobs
        /\ wk[w] \in Worker /\ Shape(w, wk[w])
    BY BillingAssumption DEF CountInv, ShapeInv, TypeInv, TypeOK, Workers
  <1>2. /\ Owed(wk[w]) = 0 /\ Owed(row) = IF row.pc \in {"retry", "refund"} THEN 3 ELSE 0
    BY DEF Owed, Before
  <1>3. PICK gain \in Nat : 0 + 3 * 1 + Cost(w, wk[w]) = Cost(w, row) + gain
    <2>1. 0 + 3 * 1 + Cost(w, wk[w]) = Cost(w, row) + (IF row.pc \in {"retry", "refund"} THEN 0 ELSE 3)
      BY <1>2 DEF Cost
    <2> QED
      BY <2>1
  <1>4. aborts' = aborts + 0 /\ aborts \in Nat
    BY DEF CountInv, TypeInv, TypeOK
  <1>5. /\ \A i \in InvIds : Known(w, i, inv'[i].attempts)
        /\ row.i \in InvIds => Known(w, row.i, row.inv.attempts)
    BY DEF Known, CountInv, TypeInv, TypeOK, InvRow, Worker, Workers
  <1>6. Shape(w, row)
    BY <1>1 DEF CountInv, ShapeInv, Shape, ChoicePcs
  <1>7. \A i \in InvIds : inv'[i].st = "draft" => inv'[i].attempts = 0
    BY DEF CountInv, ShapeInv
  <1>8. \A i \in InvIds : IF w \in DueJobs
                           THEN ChanceOf(row, i, inv'[i]) => ChanceOf(wk[w], i, inv[i])
                           ELSE Hot(inv'[i]) => Hot(inv[i])
    BY <1>1
  <1> QED
    BY <1>1, <1>3, <1>4, <1>5, <1>6, <1>7, <1>8, Move

LEMMA RequestCount ==
  ASSUME SoleReplica, CountInv, TypeInv', NEW w \in Requests, RequestStart(w)
  PROVE  CountInv'
  <1>0. wk[w] \in Worker
    BY DEF CountInv, TypeInv, TypeOK, Workers
  <1>1. ASSUME NEW i \in InvIds, RetryRead(w, i) \/ LinkRead(w, i)
        PROVE  CountInv'
    <2>1. PICK pc \in {"retry", "link"} : StartRequest(w, i, pc)
      BY <1>1 DEF RetryRead, LinkRead
    <2> DEFINE row == [wk[w] EXCEPT !.pc = pc, !.i = i, !.inv = inv[i]]
    <2>2. row.pc = pc /\ row.i = i /\ row.inv = inv[i]
      BY <1>0 DEF Worker
    <2>3. /\ wk[w].pc = "idle" /\ wk' = [wk EXCEPT ![w] = row]
          /\ UNCHANGED <<inv, aborts>> /\ requests' = requests + 1
      BY <2>1 DEF StartRequest, At, Becomes, dbVars
    <2> HIDE DEF row
    <2> QED
      BY <2>2, <2>3, CallCount
  <1>2. ASSUME NEW pc \in {"cancel", "disable", "store", "mandate"}, NEW s, StartCall(w, pc, s)
        PROVE  CountInv'
    <2> DEFINE row == [wk[w] EXCEPT !.pc = pc, !.sub = s]
    <2>2. row.pc = pc /\ row.i = wk[w].i /\ row.inv = wk[w].inv
      BY <1>0 DEF Worker
    <2>3. /\ wk[w].pc = "idle" /\ wk' = [wk EXCEPT ![w] = row]
          /\ UNCHANGED <<inv, aborts>> /\ requests' = requests + 1
      BY <1>2 DEF StartCall, At, Becomes, dbVars
    <2> HIDE DEF row
    <2> QED
      BY <2>2, <2>3, CallCount
  <1>3. CASE CancelRead(w)
    BY <1>2, <1>3 DEF CancelRead
  <1>4. ASSUME NEW k \in Kinds, SwitchRead(w, k) \/ DisableRead(w, k)
        PROVE  CountInv'
    BY <1>2, <1>4 DEF SwitchRead, DisableRead
  <1>6. ASSUME NEW i \in InvIds, NEW p \in PayIds, RefundRead(w, i, p)
        PROVE  CountInv'
    <2> DEFINE row == [wk[w] EXCEPT !.pc = "refund", !.i = i, !.inv = inv[i], !.p = p]
    <2>2. row.pc = "refund" /\ row.i = i /\ row.inv = inv[i]
      BY <1>0 DEF Worker
    <2>3. /\ wk[w].pc = "idle" /\ wk' = [wk EXCEPT ![w] = row]
          /\ UNCHANGED <<inv, aborts>> /\ requests' = requests + 1
      BY <1>6 DEF RefundRead, At, Becomes, dbVars
    <2> HIDE DEF row
    <2> QED
      BY <2>2, <2>3, CallCount
  <1>5. ASSUME NEW r \in {"ACTIVE", "SUSPENDED", "DELETED"}, MandateRead(w, r)
        PROVE  CountInv'
    <2> DEFINE s == [sub EXCEPT !.status = CASE r = "ACTIVE" -> @
                                            [] r = "SUSPENDED" -> "paused"
                                            [] r = "DELETED" -> "canceled"]
    <2>1. PICK pc \in {"store", "mandate"} : StartCall(w, pc, s)
      BY <1>5 DEF MandateRead
    <2> HIDE DEF s
    <2> QED
      BY <1>2, <2>1
  <1> QED
    BY <1>1, <1>3, <1>4, <1>5, <1>6 DEF RequestStart

\* An interruption of the job pays for an attempt.
LEMMA FaultMove ==
  ASSUME SoleReplica, CountInv, TypeInv', NEW w \in Workers, NEW row,
         wk' = [wk EXCEPT ![w] = row],
         UNCHANGED <<inv, requests>>, aborts' = aborts + 1,
         (row.i = wk[w].i /\ row.inv = wk[w].inv) \/ row.i \notin InvIds,
         Owed(row) = 0, Shape(w, row)
  PROVE  CountInv'
  <1>1. PICK c \in Nat : c = Cost(w, wk[w])
    BY DEF Cost, Owed
  <1>2. Cost(w, row) = 0
    BY DEF Cost
  <1>3. 1 + 3 * 0 + Cost(w, wk[w]) = Cost(w, row) + (1 + c) /\ 1 + c \in Nat /\ 1 + c # 0
    BY <1>1, <1>2
  <1>4. requests' = requests + 0 /\ requests \in Nat
    BY DEF CountInv, TypeInv, TypeOK
  <1>5. /\ \A i \in InvIds : Known(w, i, inv'[i].attempts)
        /\ row.i \in InvIds => Known(w, row.i, row.inv.attempts)
    BY DEF Known, CountInv, TypeInv, TypeOK, InvRow, Worker
  <1>6. \A i \in InvIds : inv'[i].st = "draft" => inv'[i].attempts = 0
    BY DEF CountInv, ShapeInv
  <1>7. PICK gain \in Nat : gain = 1 + c
    BY <1>3
  <1>8. 1 + 3 * 0 + Cost(w, wk[w]) = Cost(w, row) + gain /\ gain # 0
    BY <1>3, <1>7
  <1>9. gain = 0 =>
          \A i \in InvIds : IF w \in DueJobs
                             THEN ChanceOf(row, i, inv'[i]) => ChanceOf(wk[w], i, inv[i])
                             ELSE Hot(inv'[i]) => Hot(inv[i])
    BY <1>8
  <1>10. aborts' = aborts + 1 /\ 1 \in Nat /\ 0 \in Nat
    OBVIOUS
  <1> QED
    BY <1>4, <1>5, <1>6, <1>8, <1>9, <1>10, Move

LEMMA FaultCount ==
  ASSUME SoleReplica, CountInv, TypeInv', NEW w \in Workers, Fault(w)
  PROVE  CountInv'
  <1>1. CASE Abort(w)
    <2>1. /\ Idle.i \notin InvIds /\ Owed(Idle) = 0 /\ Shape(w, Idle)
      BY DEF Idle, InvIds, NoInv, Owed, Before, Shape, ChoicePcs, NoInvoice
    <2> QED
      BY <1>1, <2>1, FaultMove DEF Abort, Return, Becomes, dbVars
  <1>2. CASE ChargeAnswerLost(w) \/ IgnoredError(w)
    <2>1. PICK pc \in {"reject", "paid", "failInit", "failSoft"} : Goto(w, pc)
      BY <1>2 DEF ChargeAnswerLost, IgnoredError, AfterReject
    <2> DEFINE row == [wk[w] EXCEPT !.pc = pc]
    <2>2. /\ wk[w] \in Worker /\ Shape(w, wk[w]) /\ wk[w].pc \in {"charge", "settle", "reject", "failInit"}
          /\ UNCHANGED <<inv, requests>> /\ aborts' = aborts + 1
      BY <1>2 DEF ChargeAnswerLost, IgnoredError, At, dbVars, CountInv, ShapeInv, TypeInv, TypeOK
    <2>3. /\ wk' = [wk EXCEPT ![w] = row]
          /\ row.pc = pc /\ row.i = wk[w].i /\ row.inv = wk[w].inv /\ row.want = wk[w].want
      BY <2>1, <2>2 DEF Goto, Becomes, Worker
    <2> HIDE DEF row
    <2>4. Owed(row) = 0 /\ Shape(w, row)
      BY <2>2, <2>3 DEF Owed, Before, Shape, ChoicePcs
    <2> QED
      BY <2>2, <2>3, <2>4, FaultMove
  <1> QED
    BY <1>1, <1>2 DEF Fault

\* The calls that end: a cancellation fails the invoices and counts nothing.
LEMMA CommitCount ==
  ASSUME SoleReplica, CountInv, TypeInv', NEW w \in Workers, Commit(w)
  PROVE  CountInv'
  <1>1. CASE CancelCommit(w)
    <2>1. /\ wk' = [wk EXCEPT ![w] = Idle] /\ wk[w].pc = "cancel"
          /\ inv \in [InvIds -> InvRow] /\ UNCHANGED <<aborts, requests>>
      BY <1>1 DEF CancelCommit, Return, Becomes, At, CountInv, TypeInv, TypeOK
    <2>2. \A i \in InvIds : inv'[i] = IF inv[i].st \in {"draft", "open"}
                                      THEN [inv[i] EXCEPT !.st = "failed"] ELSE inv[i]
      BY <1>1 DEF CancelCommit
    <2>3. \A i \in InvIds : /\ inv'[i].attempts = inv[i].attempts
                            /\ inv'[i].st \notin {"draft", "open"}
                            /\ inv[i].attempts \in Nat
      BY <2>1, <2>2 DEF InvRow
    <2>4. \A i \in InvIds : Known(w, i, inv'[i].attempts)
      BY <2>3 DEF Known
    <2>5. /\ Idle.i \notin InvIds /\ Shape(w, Idle) /\ Cost(w, Idle) = 0 /\ Cost(w, wk[w]) = 0
      BY <2>1 DEF Idle, InvIds, NoInv, Owed, Before, Shape, ChoicePcs, NoInvoice, Cost
    <2>6. \A i \in InvIds : /\ Hot(inv'[i]) => Hot(inv[i])
                            /\ ~Held(Idle, i) /\ ~Closing(wk[w], i)
      <3>1. \A i \in InvIds : ~Held(Idle, i) /\ ~Closing(wk[w], i)
        BY <2>1 DEF Held, Closing, ClosingPcs, Idle, ChoicePcs
      <3>2. ASSUME NEW i \in InvIds, Hot(inv'[i]) PROVE Hot(inv[i])
        <4>1. inv[i].st \notin {"draft", "open"}
          <5>1. inv[i] \in InvRow
            BY <2>1
          <5>2. inv[i].st \in {"draft", "open"} => inv'[i].st = "failed"
            BY <2>2, <5>1 DEF InvRow
          <5> QED
            BY <3>2, <5>2 DEF Hot
        <4> QED
          BY <2>2, <3>2, <4>1
      <3> QED
        BY <3>1, <3>2
    <2>7. \A i \in InvIds : inv'[i].st = "draft" => inv'[i].attempts = 0
      BY <2>3
    <2>8. /\ aborts' = aborts + 0 /\ requests' = requests + 0
          /\ 0 + 3 * 0 + Cost(w, wk[w]) = Cost(w, Idle) + 0
      BY <2>1, <2>5 DEF CountInv, TypeInv, TypeOK
    <2>9. \A i \in InvIds : IF w \in DueJobs
                             THEN ChanceOf(Idle, i, inv'[i]) => ChanceOf(wk[w], i, inv[i])
                             ELSE Hot(inv'[i]) => Hot(inv[i])
      BY <2>6 DEF ChanceOf
    <2> QED
      BY <2>1, <2>4, <2>5, <2>7, <2>8, <2>9, Move
  <1>2. CASE DisableCommit(w) \/ Store(w)
    BY <1>2, ReturnCount DEF DisableCommit, Store, At, ClosingPcs
  <1>4. CASE Becomes(w, [wk[w] EXCEPT !.pc = "disableLinked",
                                      !.sub = [sub EXCEPT !.status = "paused"]])
        /\ DisableFind(w)
    <2> DEFINE row == [wk[w] EXCEPT !.pc = "disableLinked",
                                    !.sub = [sub EXCEPT !.status = "paused"]]
    <2>1. /\ UNCHANGED <<inv, aborts, requests>> /\ wk' = [wk EXCEPT ![w] = row]
          /\ Shape(w, wk[w]) /\ wk[w].pc = "disable"
          /\ row.pc = "disableLinked" /\ row.i = wk[w].i /\ row.inv = wk[w].inv
      BY <1>4 DEF DisableFind, At, Becomes, dbVars, CountInv, ShapeInv, TypeInv, TypeOK, Worker
    <2> HIDE DEF row
    <2>2. Owed(row) <= Owed(wk[w]) /\ Shape(w, row) /\ Quiet(w, wk[w], row)
      BY <2>1 DEF Owed, Before, Shape, ChoicePcs, Quiet, Held, Closing, ClosingPcs
    <2> QED
      BY <2>1, <2>2, QuietCount
  <1>5. CASE DisableFind(w) /\ Goto(w, "disableOnly")
    BY <1>5, GotoCount DEF DisableFind, At, dbVars, Turns
  <1>3. CASE DropMandate(w)
    BY <1>3, GotoCount DEF DropMandate, At, Turns
  <1> QED
    BY <1>1, <1>2, <1>3, <1>4, <1>5 DEF Commit, DisableFind

\* What happens outside the workers opens no invoice and counts at most the
\* first attempt.
LEMMA StayCount ==
  ASSUME CountInv, UNCHANGED <<wk, aborts, requests>>, TypeInv',
         \A i \in InvIds :
           /\ inv'[i].attempts <= MaxAttempts \/ inv'[i].attempts <= inv[i].attempts
           /\ Hot(inv'[i]) => Hot(inv[i])
           /\ inv'[i].st = "draft" => inv'[i].attempts = 0
  PROVE  CountInv'
  <1>1. ShapeInv'
    BY DEF CountInv, ShapeInv, Shape
  <1>2. Retrying' = Retrying /\ Opened' = Opened /\ Budget' = Budget
    BY DEF Retrying, Opened, Before, Budget, Spent
  <1>3. Budget \in Int
    <2>1. Cardinality(Retrying) \in Nat /\ Cardinality(Opened) \in Nat
      BY FS_CardinalityType DEF CountInv, LimitInv
    <2>2. PICK m \in Nat, n \in Nat : m = Cardinality(Retrying) /\ n = Cardinality(Opened)
      BY <2>1
    <2>3. Spent = 3 * m + 2 * n /\ aborts \in Nat /\ requests \in Nat
      BY <2>2 DEF Spent, CountInv, TypeInv, TypeOK
    <2> QED
      BY <2>3 DEF Budget, Left, MaxAttempts
  <1>4. ASSUME NEW i \in InvIds
        PROVE  Room(i) \in Int /\ Room(i)' \in Int /\ Room(i)' >= Room(i)
    <2>1. Chance(i)' => Chance(i)
      BY DEF Chance, ChanceOf, Hot, Held, Closing, Before
    <2> QED
      BY <1>2, <1>3, <2>1 DEF Room
  <1>5. /\ \A i \in InvIds : inv[i].attempts \in Nat /\ inv'[i].attempts \in Nat
        /\ \A v \in Workers : wk[v].inv.attempts \in Nat
    BY DEF CountInv, TypeInv, TypeOK, InvRow, Worker
  <1>6. LimitInv'
    BY <1>2, <1>4, <1>5 DEF CountInv, LimitInv, MaxAttempts
  <1> QED
    BY <1>1, <1>6 DEF CountInv

LEMMA OutsideCount ==
  ASSUME CountInv, Outside, TypeInv'
  PROVE  CountInv'
  <1>1. inv \in [InvIds -> InvRow]
    BY DEF CountInv, TypeInv, TypeOK
  <1>2. ASSUME UNCHANGED <<inv, wk, aborts, requests>>
        PROVE  CountInv'
    BY <1>1, <1>2, StayCount DEF CountInv, ShapeInv, InvRow
  <1>3. ASSUME NEW p \in PayIds, PaymentSuccess(p)
        PROVE  CountInv'
    <2>1. CASE inv' = inv
      BY <1>2, <1>3, <2>1 DEF PaymentSuccess
    <2>2. CASE inv' = [inv EXCEPT ![pay[p].inv] = [@ EXCEPT !.st = "paid"]]
      <3>1. \A i \in InvIds : inv'[i] = IF i = pay[p].inv THEN [inv[i] EXCEPT !.st = "paid"]
                                                         ELSE inv[i]
        BY <1>1, <2>2
      <3>0. \A i \in InvIds : /\ inv'[i].attempts = inv[i].attempts /\ inv[i].attempts \in Nat
                              /\ inv'[i] = inv[i] \/ inv'[i].st = "paid"
        BY <1>1, <3>1 DEF InvRow
      <3>2. \A i \in InvIds :
              /\ inv'[i].attempts <= MaxAttempts \/ inv'[i].attempts <= inv[i].attempts
              /\ Hot(inv'[i]) => Hot(inv[i])
              /\ inv'[i].st = "draft" => inv'[i].attempts = 0
        BY <3>0 DEF Hot, CountInv, ShapeInv
      <3> QED
        BY <1>3, <3>2, StayCount DEF PaymentSuccess
    <2> QED
      BY <1>3, <2>1, <2>2 DEF PaymentSuccess, ApplyOrder
  <1>4. ASSUME NEW p \in PayIds, PaymentFailed(p)
        PROVE  CountInv'
    <2>1. \A i \in InvIds :
            inv'[i] = IF i = pay[p].inv
                      THEN [inv[i] EXCEPT !.st = "failed",
                                          !.attempts = IF @ = 0 THEN 1 ELSE @]
                      ELSE inv[i]
      BY <1>1, <1>4 DEF PaymentFailed
    <2>0. \A i \in InvIds : /\ inv[i].attempts \in Nat
                            /\ inv'[i].attempts \in {1, inv[i].attempts}
                            /\ inv'[i] = inv[i] \/ inv'[i].st = "failed"
      BY <1>1, <2>1 DEF InvRow
    <2>2. \A i \in InvIds :
            /\ inv'[i].attempts <= MaxAttempts \/ inv'[i].attempts <= inv[i].attempts
            /\ Hot(inv'[i]) => Hot(inv[i])
            /\ inv'[i].st = "draft" => inv'[i].attempts = 0
      BY <2>0 DEF Hot, CountInv, ShapeInv, MaxAttempts
    <2> QED
      BY <1>4, <2>2, StayCount DEF PaymentFailed
  <1> QED
    BY <1>2, <1>3, <1>4 DEF Outside, Pay, Decline, CardUpdated, dbVars

LEMMA InitCount == Init => CountInv
  <1> SUFFICES ASSUME Init PROVE CountInv
    OBVIOUS
  <1>1. TypeInv
    BY InitType
  <1>2. wk = [w \in Workers |-> Idle] /\ aborts = 0 /\ requests = 0
    BY DEF Init
  <1>3. \A i \in InvIds : inv[i].attempts = 0
    BY DEF Init, NewInv, NoInvoice
  <1>4. Retrying = {} /\ Opened = {}
    BY <1>2 DEF Retrying, Opened, Before, Idle, Workers
  <1>5. IsFiniteSet(Retrying) /\ IsFiniteSet(Opened) /\ Spent = 0
    BY <1>4, FS_EmptySet DEF Spent
  <1>6. Budget = MaxAttempts
    BY <1>2, <1>5 DEF Budget, Left, MaxAttempts
  <1>7. ASSUME NEW i \in InvIds PROVE ~Chance(i)
    BY <1>2, <1>3 DEF Chance, ChanceOf, Held, Hot, Idle, ChoicePcs, MaxAttempts, Workers
  <1>8. LimitInv
    BY <1>2, <1>3, <1>5, <1>6, <1>7 DEF LimitInv, Room, MaxAttempts, Idle, NoInvoice
  <1>9. ShapeInv
    BY <1>2, <1>3 DEF ShapeInv, Shape, Idle, NoInvoice, ChoicePcs
  <1> QED
    BY <1>1, <1>8, <1>9 DEF CountInv

LEMMA BudgetKept ==
  ASSUME SoleReplica, CountInv, [Next]_vars
  PROVE  CountInv'
  <1>0. TypeInv'
    BY TypeStep DEF CountInv
  <1>1. CASE Tick \/ UNCHANGED vars
    <2>1. UNCHANGED <<inv, wk, aborts, requests>>
      BY <1>1 DEF Tick, vars
    <2> QED
      BY <1>0, <2>1, StayCount DEF CountInv, ShapeInv, TypeInv, TypeOK, InvRow
  <1>2. ASSUME NEW w \in Workers, Step(w)
        PROVE  CountInv'
    BY <1>0, <1>2, EnsureCount, CreateCount, SaveLinkCount, LinkOpenCount, ReadSubCount,
       ReferenceCount, TurnCount, StoresCount, CountCount DEF Step
  <1> QED
    BY <1>0, <1>1, <1>2, LoadCount, RequestCount, CommitCount, FaultCount, OutsideCount
    DEF Next, Workers

\* With one replica of the billing job, an invoice never has more than three
\* attempts to collect it, plus one for each interruption and three for each
\* call, whatever interleaves and however long the system runs.
THEOREM AttemptsCorrect ==
  ASSUME SoleReplica
  PROVE  Spec => []AttemptsBounded
  <1>1. CountInv /\ [Next]_vars => CountInv'
    BY BudgetKept
  <1>2. CountInv => AttemptsBounded
    <2> SUFFICES ASSUME CountInv, NEW i \in InvIds
                 PROVE  inv[i].attempts <= MaxAttempts + aborts + 3 * requests
      BY DEF AttemptsBounded
    <2>1. Cardinality(Retrying) \in Nat /\ Cardinality(Opened) \in Nat
      BY FS_CardinalityType DEF CountInv, LimitInv
    <2>2. PICK m \in Nat, n \in Nat : m = Cardinality(Retrying) /\ n = Cardinality(Opened)
      BY <2>1
    <2>3. Spent = 3 * m + 2 * n /\ aborts \in Nat /\ requests \in Nat /\ inv[i].attempts \in Nat
      BY <2>2 DEF Spent, CountInv, TypeInv, TypeOK, InvRow
    <2>4. inv[i].attempts <= Room(i)
      BY DEF CountInv, LimitInv
    <2> QED
      BY <2>3, <2>4 DEF Room, Budget, Left, MaxAttempts
  <1> QED
    BY InitCount, <1>1, <1>2, PTL DEF Spec
=============================================================================
