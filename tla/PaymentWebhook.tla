--------------------------- MODULE PaymentWebhook ---------------------------
(***************************************************************************)
(* services/webhook.go: the transactions run for the provider's            *)
(* payment_success and payment_failed events, and what the customer does   *)
(* on the hosted checkout page.  A transaction reads its rows with SELECT  *)
(* ... FOR UPDATE, so it takes effect at once, when it holds its last      *)
(* lock.  Events may be lost, repeated, late and in any order: an event    *)
(* can be handled whenever the provider has seen its cause.                *)
(***************************************************************************)
EXTENDS BillingData

\* External: the customer pays an offered checkout order, once.
Pay(p) ==
    /\ p \in offered \ taken
    /\ taken' = taken \cup {p}
    /\ UNCHANGED <<dbVars, now, offered, refused, history, wk, aborts, requests>>

\* External: a card is declined on the checkout page; the order stays payable.
Decline(p) ==
    /\ p \in offered \ (taken \cup refused)
    /\ refused' = refused \cup {p}
    /\ UNCHANGED <<dbVars, now, offered, taken, history, wk, aborts, requests>>

\* The customer's card is stored on first use; a stored one keeps its status.
StoredCard == IF source["card"] = "absent" THEN "active" ELSE source["card"]

\* Mutant of ApplyOrder: the initiation is left pending.
ApplyOrderPending(p) ==
    /\ inv' = [inv EXCEPT ![pay[p].inv] = [@ EXCEPT !.st = "paid"]]
    /\ sub' = [status |-> "active", cycle |-> sub.cycle + 1, src |-> "card"]
    /\ pay' = [pay EXCEPT ![p] = [@ EXCEPT !.intent = "success", !.settlements = @ + 1]]
    /\ applied' = [applied EXCEPT ![p] = @ + 1]

\* The invoice of order p is paid and the subscription moves to its next cycle.
ApplyOrder(p) ==
    /\ inv' = [inv EXCEPT ![pay[p].inv] = [@ EXCEPT !.st = "paid"]]
    /\ sub' = [status |-> "active", cycle |-> sub.cycle + 1, src |-> "card"]
    /\ pay' = [pay EXCEPT ![p] = [pay[p] EXCEPT !.intent = "success", !.init = "completed",
                                               !.settlements = pay[p].settlements + 1]]
    /\ applied' = [applied EXCEPT ![p] = @ + 1]

\* Mutant of PaymentSuccess: an initiation that is settled is handled again.
PaymentSuccessAgain(p) ==
    /\ p \in taken /\ pay[p].kind = "checkout"
    /\ source' = [source EXCEPT !["card"] = StoredCard]
    /\ IF inv[pay[p].inv].st = "paid"
       THEN UNCHANGED <<inv, sub, pay, applied>>
       ELSE ApplyOrder(p)
    /\ UNCHANGED <<now, pspVars, chargedAt, wk, aborts, requests>>

\* Mutant of PaymentSuccess: a declined order is handled like a paid one.
PaymentSuccessUnpaid(p) ==
    /\ p \in taken \cup refused /\ pay[p].kind = "checkout" /\ pay[p].init = "pending"
    /\ inv[pay[p].inv].st # "paid"
    /\ source' = [source EXCEPT !["card"] = StoredCard]
    /\ ApplyOrder(p)
    /\ UNCHANGED <<now, pspVars, chargedAt, wk, aborts, requests>>

\* handlePaymentSuccess, for a checkout order made for an invoice.  It does
\* nothing for an unknown or settled initiation; for an invoice that is paid
\* already it only stores the card.  For the charge of a stored card
\* (ChargeCardPayment) it does nothing either: the initiation lacks the plan code
\* the handler asserts, and the panic rolls the transaction back.
PaymentSuccess(p) ==
    /\ p \in taken
    /\ pay[p].kind = "checkout"
    /\ pay[p].init = "pending"
    /\ source' = [source EXCEPT !["card"] = StoredCard]
    /\ IF inv[pay[p].inv].st = "paid"
       THEN UNCHANGED <<inv, sub, pay, applied>>
       ELSE ApplyOrder(p)
    /\ UNCHANGED <<now, pspVars, chargedAt, wk, aborts, requests>>

\* Mutant of PaymentFailed: the initiation gets a status the table lacks.
PaymentFailedDeclined(p) ==
    /\ p \in refused
    /\ pay[p].kind \in {"checkout", "card"} /\ pay[p].init = "pending"
    /\ pay' = [pay EXCEPT ![p] = [@ EXCEPT !.intent = "failed", !.init = "declined"]]
    /\ UNCHANGED <<sub, inv, now, source, pspVars, history, wk, aborts, requests>>

\* handlePaymentFailed: the intent of a charge is marked failed and its
\* initiation stays pending; a checkout order gets a failed intent and a failed
\* initiation.  The invoice fails and the subscription is paused, whatever
\* their status.
PaymentFailed(p) ==
    LET i == pay[p].inv IN
    /\ p \in refused
    /\ pay[p].kind \in {"checkout", "card"}
    /\ pay[p].init = "pending"
    /\ pay' = [pay EXCEPT ![p] =
                 [pay[p] EXCEPT !.intent = "failed",
                                !.init = IF pay[p].kind = "checkout" THEN "failed" ELSE @]]
    /\ inv' = [inv EXCEPT ![i] = [inv[i] EXCEPT !.st = "failed",
                                               !.attempts = IF @ = 0 THEN 1 ELSE @]]
    /\ sub' = [sub EXCEPT !.status = "paused"]
    /\ UNCHANGED <<now, source, pspVars, history, wk, aborts, requests>>
=============================================================================
