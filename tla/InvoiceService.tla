--------------------------- MODULE InvoiceService ---------------------------
(***************************************************************************)
(* services/invoice.go: the cron jobs CreateUpcomingInvoices and         *)
(* ProcessDueInvoices, and the API calls RetryInvoicePayment,            *)
(* GenerateCheckoutLink and SendPaymentReminder.  None of them runs in a *)
(* database transaction: a worker reads rows into its copies and every   *)
(* later write stores a whole copy, so each database or provider call is *)
(* an action of its own.  And RefundPaymentOrInvoice of transaction.go,  *)
(* which commits in one transaction what it read without a lock.         *)
(***************************************************************************)
EXTENDS BillingData

\* failInvoice gives up at the third attempt.
MaxAttempts == 3

Others == <<now, source, offered, history, aborts, requests>>
-----------------------------------------------------------------------------
(* The cron jobs load subscriptions, then process the copies one by one.   *)

\* Mutant of LoadDue: the filter leaves past_due subscriptions out.
LoadDueActive(w) ==
    /\ At(w, "idle")
    /\ sub.status = "active"
    /\ Start(sub.cycle) <= now
    /\ Becomes(w, [wk[w] EXCEPT !.pc = "ensure", !.want = "open", !.sub = sub])
    /\ UNCHANGED <<dbVars, taken, refused, Others>>

LoadDue(w) ==
    /\ At(w, "idle")
    /\ sub.status \in {"active", "past_due"}
    /\ Start(sub.cycle) <= now
    /\ Becomes(w, [wk[w] EXCEPT !.pc = "ensure", !.want = "open", !.sub = sub])
    /\ UNCHANGED <<dbVars, taken, refused, Others>>

LoadUpcoming(w) ==
    /\ At(w, "idle")
    /\ sub.status = "active"
    /\ now < Start(sub.cycle) /\ Start(sub.cycle) <= now + Lead
    /\ ~\E i \in InvIds : inv[i].due = sub.cycle /\ inv[i].st \in {"draft", "open"}
    /\ Becomes(w, [wk[w] EXCEPT !.pc = "ensure", !.want = "draft", !.sub = sub])
    /\ UNCHANGED <<dbVars, taken, refused, Others>>
-----------------------------------------------------------------------------
(* ensureInvoice: check, then create.                                      *)

InvoicesDue(c) == {i \in InvIds : inv[i].st # "none" /\ inv[i].due = c}

Ensure(w) ==
    /\ At(w, "ensure")
    /\ \/ /\ InvoicesDue(wk[w].sub.cycle) = {}
          /\ Goto(w, "create")
       \/ \E i \in InvoicesDue(wk[w].sub.cycle) :
            IF wk[w].want = "draft" \/ inv[i].st \in {"paid", "failed"}
            THEN Return(w)
            ELSE Becomes(w, [wk[w] EXCEPT !.i = i, !.inv = inv[i],
                          !.pc = IF inv[i].st = "draft" THEN "open" ELSE "attach"])
    /\ UNCHANGED <<dbVars, taken, refused, Others>>

Create(w) ==
    /\ At(w, "create")
    /\ \E i \in InvIds :
         LET new == NewInv(wk[w].sub.cycle, wk[w].want) IN
         /\ FreshInvoice(i)
         /\ inv' = [inv EXCEPT ![i] = new]
         /\ IF wk[w].want = "draft"
            THEN Return(w)
            ELSE Becomes(w, [wk[w] EXCEPT !.i = i, !.inv = new, !.pc = "attach"])
    /\ UNCHANGED <<sub, pay, source, taken, refused, Others>>
-----------------------------------------------------------------------------
(* processDueSubscription                                                  *)

\* Worker w stores row as its copy of the invoice and as the invoice itself.
SaveInvoice(w, row, pc) ==
    /\ inv' = [inv EXCEPT ![wk[w].i] = row]
    /\ Becomes(w, [wk[w] EXCEPT !.inv = row, !.pc = pc])
    /\ UNCHANGED <<sub, pay, taken, refused, Others>>

Open(w) ==
    /\ At(w, "open")
    /\ SaveInvoice(w, [wk[w].inv EXCEPT !.st = "open"], "attach")

\* Mutant of Collectable: the time of the next attempt is not looked at.
CollectableAnyTime(row) == row.link = NoPay

\* Collection starts unless a checkout link is out or the next attempt is
\* not due.
Collectable(row) ==
    /\ row.link = NoPay
    /\ row.attempts > 0 => row.next # NoTime /\ row.next <= now

Attach(w) ==
    /\ At(w, "attach")
    /\ sub' = wk[w].sub
    /\ IF Collectable(wk[w].inv) THEN Goto(w, "source") ELSE Return(w)
    /\ UNCHANGED <<inv, pay, taken, refused, Others>>

\* findActivePaymentSource and the choice of a collection method.  A stored card
\* has its authorization token from the webhook that created or renewed it, so
\* the test for a card without one never fires.
FindSource(w) ==
    LET src == wk[w].sub.src IN
    /\ At(w, "source")
    /\ Goto(w, CASE src = "none" -> "order"
                 [] src # "none" /\ source[src] # "active" -> "failHard"
                 [] src = "card" /\ source[src] = "active" -> "intent"
                 [] src = "bank" /\ source[src] = "active" -> "verify")
    /\ UNCHANGED <<dbVars, taken, refused, Others>>
-----------------------------------------------------------------------------
(* chargeCard and chargeDirectDebit                                        *)

\* GetDirectDebitManadateStatus: fails, or finds the mandate inactive, or active.
Verify(w) ==
    /\ At(w, "verify")
    /\ \E pc \in {"failSoft", "failHard", "intent"} : Goto(w, pc)
    /\ UNCHANGED <<dbVars, taken, refused, Others>>

Kind(w) == IF wk[w].sub.src = "bank" THEN "bank" ELSE "card"

\* The rows of the payment worker w holds are stored as row.
SavePayment(w, row) == pay' = [pay EXCEPT ![wk[w].p] = row]

Intent(w) ==
    /\ At(w, "intent")
    /\ \E p \in PayIds :
         /\ Fresh(p)
         /\ pay' = [pay EXCEPT ![p] = [NoPayment EXCEPT
                      !.kind = Kind(w), !.inv = wk[w].i, !.intent = "pending"]]
         /\ Becomes(w, [wk[w] EXCEPT !.p = p,
                     !.pc = IF Kind(w) = "card" THEN "count" ELSE "initiate"])
    /\ UNCHANGED <<sub, inv, taken, refused, Others>>

Count(w) ==
    /\ At(w, "count")
    /\ SaveInvoice(w, [wk[w].inv EXCEPT !.attempts = @ + 1],
                   IF Kind(w) = "card" THEN "initiate" ELSE "charge")

\* Mutant of Initiate: the settlement is created before the charge.
InitiateSettled(w) ==
    /\ At(w, "initiate")
    /\ SavePayment(w, [pay[wk[w].p] EXCEPT !.init = "pending", !.settlements = 1])
    /\ Goto(w, IF Kind(w) = "card" THEN "charge" ELSE "count")
    /\ UNCHANGED <<sub, inv, taken, refused, Others>>

Initiate(w) ==
    /\ At(w, "initiate")
    /\ SavePayment(w, [pay[wk[w].p] EXCEPT !.init = "pending"])
    /\ Goto(w, IF Kind(w) = "card" THEN "charge" ELSE "count")
    /\ UNCHANGED <<sub, inv, taken, refused, Others>>

\* Mutant of Charge: a charge that went through is taken for a refusal.
ChargeMisread(w) ==
    /\ At(w, "charge")
    /\ taken' = taken \cup {wk[w].p}
    /\ chargedAt' = [chargedAt EXCEPT ![wk[w].p] = now]
    /\ Goto(w, "reject")
    /\ UNCHANGED <<dbVars, now, offered, refused, applied, aborts, requests>>

\* ChargeCard or DebitMandate: the money is taken; or the provider declines;
\* or the call never reaches it.
Charge(w) ==
    /\ At(w, "charge")
    /\ \/ /\ taken' = taken \cup {wk[w].p}
          /\ Goto(w, "accept")
          /\ UNCHANGED refused
       \/ /\ refused' = refused \cup {wk[w].p}
          /\ Goto(w, "reject")
          /\ UNCHANGED taken
       \/ /\ Goto(w, "reject")
          /\ UNCHANGED <<taken, refused>>
    /\ chargedAt' = [chargedAt EXCEPT ![wk[w].p] = now]
    /\ UNCHANGED <<dbVars, now, offered, applied, aborts, requests>>

\* The provider takes the money but its answer is lost: the caller sees an error.
ChargeAnswerLost(w) ==
    /\ At(w, "charge")
    /\ aborts < MaxAborts
    /\ aborts' = aborts + 1
    /\ taken' = taken \cup {wk[w].p}
    /\ chargedAt' = [chargedAt EXCEPT ![wk[w].p] = now]
    /\ Goto(w, "reject")
    /\ UNCHANGED <<dbVars, now, offered, refused, applied, requests>>

Accept(w) ==
    /\ At(w, "accept")
    /\ SavePayment(w, [pay[wk[w].p] EXCEPT !.intent = "success"])
    /\ Goto(w, IF Kind(w) = "card" THEN "paid" ELSE "complete")
    /\ UNCHANGED <<sub, inv, taken, refused, Others>>

Complete(w) ==
    /\ At(w, "complete")
    /\ SavePayment(w, [pay[wk[w].p] EXCEPT !.init = "completed"])
    /\ Goto(w, "settle")
    /\ UNCHANGED <<sub, inv, taken, refused, Others>>

Settle(w) ==
    /\ At(w, "settle")
    /\ SavePayment(w, [pay[wk[w].p] EXCEPT !.settlements = @ + 1])
    /\ Goto(w, "paid")
    /\ UNCHANGED <<sub, inv, taken, refused, Others>>

\* Mutant of Reject: the function does not return after the failure.
RejectFallsThrough(w) ==
    /\ At(w, "reject")
    /\ SavePayment(w, [pay[wk[w].p] EXCEPT !.intent = "failed"])
    /\ Goto(w, "paid")
    /\ UNCHANGED <<sub, inv, taken, refused, Others>>

\* The intent is marked failed; for a debit the initiation is the next update.
AfterReject(w) == IF Kind(w) = "bank" THEN "failInit" ELSE "failSoft"

Reject(w) ==
    /\ At(w, "reject")
    /\ SavePayment(w, [pay[wk[w].p] EXCEPT !.intent = "failed"])
    /\ Goto(w, AfterReject(w))
    /\ UNCHANGED <<sub, inv, taken, refused, Others>>

RejectInit(w) ==
    /\ At(w, "failInit")
    /\ SavePayment(w, [pay[wk[w].p] EXCEPT !.init = "failed"])
    /\ Goto(w, "failSoft")
    /\ UNCHANGED <<sub, inv, taken, refused, Others>>

\* A database call fails and the function goes on: the errors of the settlement
\* insert and of the two updates of a rejected payment are ignored.
IgnoredError(w) ==
    /\ aborts < MaxAborts
    /\ aborts' = aborts + 1
    /\ \/ At(w, "settle") /\ Goto(w, "paid")
       \/ At(w, "reject") /\ Goto(w, AfterReject(w))
       \/ At(w, "failInit") /\ Goto(w, "failSoft")
    /\ UNCHANGED <<dbVars, now, pspVars, history, requests>>
-----------------------------------------------------------------------------
(* failInvoice and markInvoicePaid: the invoice first, then the            *)
(* subscription, each a whole copy.                                        *)

\* Mutants of FailInvoice: three ways to get the limit or the next step wrong.
FailInvoiceWith(w, more, next, then) ==
    \/ /\ At(w, "failSoft") /\ AllowRetries /\ more
       /\ SaveInvoice(w, [wk[w].inv EXCEPT !.next = next], "pastDue")
    \/ /\ \/ At(w, "failHard")
          \/ At(w, "failSoft") /\ ~(AllowRetries /\ more)
       /\ SaveInvoice(w, [wk[w].inv EXCEPT !.st = "failed"], then)

FailInvoiceEarly(w) ==
    FailInvoiceWith(w, wk[w].inv.attempts + 1 < MaxAttempts, Later(RetryDelay), "pause")

FailInvoiceLate(w) ==
    FailInvoiceWith(w, wk[w].inv.attempts <= MaxAttempts, Later(RetryDelay), "pause")

FailInvoiceForever(w) ==
    FailInvoiceWith(w, wk[w].inv.attempts < MaxAttempts, NoTime, "pause")

FailInvoicePastDue(w) ==
    FailInvoiceWith(w, wk[w].inv.attempts < MaxAttempts, Later(RetryDelay), "pastDue")

FailInvoice(w) ==
    \/ /\ At(w, "failSoft")
       /\ AllowRetries /\ wk[w].inv.attempts < MaxAttempts
       /\ SaveInvoice(w, [wk[w].inv EXCEPT !.next = Later(RetryDelay)], "pastDue")
    \/ /\ \/ At(w, "failHard")
          \/ At(w, "failSoft") /\ ~(AllowRetries /\ wk[w].inv.attempts < MaxAttempts)
       /\ SaveInvoice(w, [wk[w].inv EXCEPT !.st = "failed"], "pause")

\* The last write of the function: the subscription copy, changed to row.
SaveSub(w, row) ==
    /\ sub' = row
    /\ Return(w)
    /\ UNCHANGED <<inv, pay, taken, refused, now, source, offered, chargedAt,
                  aborts, requests>>

FailSubscription(w) ==
    /\ \/ At(w, "pastDue") /\ SaveSub(w, [wk[w].sub EXCEPT !.status = "past_due"])
       \/ At(w, "pause") /\ SaveSub(w, [wk[w].sub EXCEPT !.status = "paused"])
    /\ UNCHANGED applied

MarkPaid(w) ==
    /\ At(w, "paid")
    /\ SaveInvoice(w, [wk[w].inv EXCEPT !.st = "paid"], "advance")

\* Mutant of Advance: the next cycle is not computed.
AdvanceNowhere(w) ==
    /\ At(w, "advance")
    /\ SaveSub(w, wk[w].sub)
    /\ applied' = [applied EXCEPT ![wk[w].p] = @ + 1]

Advance(w) ==
    /\ At(w, "advance")
    /\ SaveSub(w, [wk[w].sub EXCEPT !.cycle = @ + 1])
    /\ applied' = [applied EXCEPT ![wk[w].p] = @ + 1]
-----------------------------------------------------------------------------
(* createCheckout                                                          *)

Order(w) ==
    /\ At(w, "order")
    /\ \E p \in PayIds :
         /\ Fresh(p)
         /\ pay' = [pay EXCEPT ![p] = [NoPayment EXCEPT
                      !.kind = "checkout", !.inv = wk[w].i, !.init = "pending"]]
         /\ Becomes(w, [wk[w] EXCEPT !.p = p, !.pc = "offer"])
    /\ UNCHANGED <<sub, inv, taken, refused, Others>>

\* CreateCheckoutOrder of the provider.
Offer(w) ==
    /\ At(w, "offer")
    /\ Goto(w, "saveOrder") \/ Return(w)
    /\ UNCHANGED <<dbVars, taken, refused, Others>>

SaveOrder(w) ==
    /\ At(w, "saveOrder")
    /\ SavePayment(w, [pay[wk[w].p] EXCEPT !.init = "pending"])
    /\ Goto(w, "saveLink")
    /\ UNCHANGED <<sub, inv, taken, refused, Others>>

\* The link is handed out once it is stored.
SaveLink(w) ==
    /\ At(w, "saveLink")
    /\ inv' = [inv EXCEPT ![wk[w].i] = [wk[w].inv EXCEPT !.link = wk[w].p]]
    /\ offered' = offered \cup {wk[w].p}
    /\ Return(w)
    /\ UNCHANGED <<sub, pay, source, now, taken, refused, history, aborts, requests>>
-----------------------------------------------------------------------------
(* API calls *)

\* An API call on invoice i starts: the invoice is read, then the subscription.
StartRequest(w, i, pc) ==
    /\ At(w, "idle")
    /\ requests < MaxRequests
    /\ requests' = requests + 1
    /\ Becomes(w, [wk[w] EXCEPT !.pc = pc, !.i = i, !.inv = inv[i]])
    /\ UNCHANGED <<dbVars, pspVars, now, history, aborts>>

RetryRead(w, i) ==
    /\ inv[i].st \notin {"none", "paid", "refunded"}
    /\ StartRequest(w, i, "retry")

\* GenerateCheckoutLink and SendPaymentReminder; with a link there is nothing
\* to write but the opening of a draft.
LinkRead(w, i) ==
    /\ \/ inv[i].st = "draft"
       \/ inv[i].st \in {"open", "failed"} /\ inv[i].link = NoPay
    /\ StartRequest(w, i, "link")

ReadSub(w) ==
    /\ \E pc \in {"reopen", "openLink", "order"} :
         /\ Becomes(w, [wk[w] EXCEPT !.pc = pc, !.sub = sub])
         /\ \/ At(w, "retry") /\ pc = "reopen"
            \/ At(w, "link") /\ pc = IF wk[w].inv.st = "draft" THEN "openLink" ELSE "order"
    /\ UNCHANGED <<dbVars, taken, refused, Others>>

RetryReopen(w) ==
    /\ At(w, "reopen")
    /\ SaveInvoice(w, [wk[w].inv EXCEPT !.st = IF @ = "failed" THEN "open" ELSE @,
                                        !.next = now],
                   IF wk[w].sub.status = "paused" THEN "unpause" ELSE "ensure")

RetryUnpause(w) ==
    LET row == [wk[w].sub EXCEPT !.status = "past_due"] IN
    /\ At(w, "unpause")
    /\ sub' = row
    /\ Becomes(w, [wk[w] EXCEPT !.sub = row, !.pc = "ensure"])
    /\ UNCHANGED <<inv, pay, taken, refused, Others>>

\* RefundPaymentOrInvoice of a paid invoice; the payment is one the call names or
\* any successful one of the invoice.  The 12 hours after payment are one tick.
RefundRead(w, i, p) ==
    /\ inv[i].st = "paid"
    /\ pay[p].inv = i /\ pay[p].intent = "success"
    /\ At(w, "idle")
    /\ requests < MaxRequests
    /\ requests' = requests + 1
    /\ Becomes(w, [wk[w] EXCEPT !.pc = "refund", !.i = i, !.inv = inv[i], !.p = p])
    /\ UNCHANGED <<dbVars, pspVars, now, history, aborts>>

\* The provider accepts the refund or refuses it.
RefundAsk(w) ==
    /\ At(w, "refund")
    /\ Goto(w, "refunded") \/ Return(w)
    /\ UNCHANGED <<dbVars, taken, refused, Others>>

RefundCommit(w) ==
    /\ At(w, "refunded")
    /\ SavePayment(w, [pay[wk[w].p] EXCEPT !.intent = "refund"])
    /\ inv' = [inv EXCEPT ![wk[w].i] = [wk[w].inv EXCEPT !.st = "refunded"]]
    /\ Return(w)
    /\ UNCHANGED <<sub, taken, refused, Others>>

LinkOpen(w) ==
    LET row == [wk[w].inv EXCEPT !.st = "open"] IN
    /\ At(w, "openLink")
    /\ inv' = [inv EXCEPT ![wk[w].i] = row]
    /\ IF row.link = NoPay
       THEN Becomes(w, [wk[w] EXCEPT !.inv = row, !.pc = "order"])
       ELSE Return(w)
    /\ UNCHANGED <<sub, pay, taken, refused, Others>>
-----------------------------------------------------------------------------
\* The process dies, or a database call returns an error and the function
\* returns it: the copies are lost.
Abort(w) ==
    /\ ~At(w, "idle")
    /\ aborts < MaxAborts
    /\ aborts' = aborts + 1
    /\ Return(w)
    /\ UNCHANGED <<dbVars, pspVars, now, history, requests>>

\* The steps that only depend on the worker itself.
Step(w) ==
    \/ Ensure(w) \/ Create(w) \/ Open(w) \/ Attach(w) \/ FindSource(w)
    \/ Verify(w) \/ Intent(w) \/ Count(w) \/ Initiate(w) \/ Charge(w)
    \/ Accept(w) \/ Complete(w) \/ Settle(w) \/ Reject(w) \/ RejectInit(w)
    \/ FailInvoice(w) \/ FailSubscription(w) \/ MarkPaid(w) \/ Advance(w)
    \/ Order(w) \/ Offer(w) \/ SaveOrder(w) \/ SaveLink(w)
    \/ ReadSub(w) \/ RetryReopen(w) \/ RetryUnpause(w) \/ LinkOpen(w)
    \/ RefundAsk(w) \/ RefundCommit(w)
=============================================================================
