-------------------------- MODULE SubscriptionApi --------------------------
(***************************************************************************)
(* What changes the subscription and its payment sources from outside the  *)
(* billing jobs: CancelSubscription and UpdateDirectDebitMandateStatus     *)
(* (services/subscription.go), the portal's DisablePaymentSource and       *)
(* UpdateSubscriptionPaymentMethod (services/portal.go), and the card      *)
(* update completed by a webhook (services/webhook.go).  Each call reads   *)
(* the subscription without a lock and stores its changed copy later.      *)
(***************************************************************************)
EXTENDS BillingData

\* An API call starts: it goes on at pc with row, made from the subscription.
StartCall(w, pc, row) ==
    /\ At(w, "idle")
    /\ requests < MaxRequests
    /\ requests' = requests + 1
    /\ Becomes(w, [wk[w] EXCEPT !.pc = pc, !.sub = row])
    /\ UNCHANGED <<dbVars, pspVars, now, history, aborts>>

CancelRead(w) ==
    /\ sub.status # "canceled"
    /\ StartCall(w, "cancel", [sub EXCEPT !.status = "canceled"])

\* One transaction stores the copy and fails every draft or open invoice.
CancelCommit(w) ==
    /\ At(w, "cancel")
    /\ sub' = wk[w].sub
    /\ inv' = [i \in InvIds |->
                 IF inv[i].st \in {"draft", "open"}
                 THEN [inv[i] EXCEPT !.st = "failed"] ELSE inv[i]]
    /\ Return(w)
    /\ UNCHANGED <<pay, source, pspVars, now, history, aborts, requests>>

\* DisablePaymentSource of source k, which the copy's src names.
DisableRead(w, k) ==
    /\ source[k] = "active"
    /\ StartCall(w, "disable", [sub EXCEPT !.src = k])

\* Its transaction reads the subscription, if it is live and uses the source,
\* without a lock, and pauses the copy.
DisableFind(w) ==
    /\ At(w, "disable")
    /\ IF sub.src = wk[w].sub.src /\ sub.status # "canceled"
       THEN Becomes(w, [wk[w] EXCEPT !.pc = "disableLinked",
                                     !.sub = [sub EXCEPT !.status = "paused"]])
       ELSE Goto(w, "disableOnly")
    /\ UNCHANGED <<dbVars, pspVars, now, history, aborts, requests>>

DisableCommit(w) ==
    /\ \/ At(w, "disableLinked") /\ sub' = wk[w].sub
       \/ At(w, "disableOnly") /\ UNCHANGED sub
    /\ source' = [source EXCEPT ![wk[w].sub.src] = "inactive"]
    /\ Return(w)
    /\ UNCHANGED <<inv, pay, pspVars, now, history, aborts, requests>>

\* UpdateSubscriptionPaymentMethod
SwitchRead(w, k) ==
    /\ sub.status # "canceled"
    /\ source[k] = "active"
    /\ StartCall(w, "store", [sub EXCEPT !.src = k])

\* UpdateDirectDebitMandateStatus, once the provider has accepted the request;
\* a deleted mandate deactivates the payment source first.
MandateRead(w, request) ==
    /\ sub.src = "bank"
    /\ StartCall(w, IF request = "DELETED" THEN "mandate" ELSE "store",
                 [sub EXCEPT !.status = CASE request = "ACTIVE" -> @
                                          [] request = "SUSPENDED" -> "paused"
                                          [] request = "DELETED" -> "canceled"])

DropMandate(w) ==
    /\ At(w, "mandate")
    /\ source' = [source EXCEPT !["bank"] = "inactive"]
    /\ Goto(w, "store")
    /\ UNCHANGED <<sub, inv, pay, pspVars, now, history, aborts, requests>>

Store(w) ==
    /\ At(w, "store")
    /\ sub' = wk[w].sub
    /\ Return(w)
    /\ UNCHANGED <<inv, pay, source, pspVars, now, history, aborts, requests>>

\* The UpdateCard branch of handlePaymentSuccess: the card is active again.
CardUpdated ==
    /\ source["card"] # "absent"
    /\ source' = [source EXCEPT !["card"] = "active"]
    /\ UNCHANGED <<sub, inv, pay, pspVars, now, history, wk, aborts, requests>>

\* The rest of the calls.
Commit(w) ==
    \/ CancelCommit(w) \/ DisableFind(w) \/ DisableCommit(w)
    \/ DropMandate(w) \/ Store(w)
=============================================================================
