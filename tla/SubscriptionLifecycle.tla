----------------------- MODULE SubscriptionLifecycle -----------------------
(***************************************************************************)
(* Subscriptions of the plan: CreateSubscription, GenerateCheckoutLink and *)
(* CancelSubscription (services/subscription.go), the first payment        *)
(* (services/webhook.go), and the trial jobs of every API process          *)
(* (services/subscription_lifecycle.go), which take no lock.  Calls and    *)
(* jobs store whole rows they read before.                                 *)
(***************************************************************************)
EXTENDS PlanCatalog

CONSTANTS
    Subs,    \* subscriptions
    Callers, \* requests about subscriptions
    TrialJobs,\* API processes that run the job subscription-trials
    Notice,  \* the 3 days of sendTrialEndingSoonWebhooks, in ticks
    MaxCalls,\* bound: calls that are not the creation of a subscription
    MaxTime  \* bound: the last tick, it stands for all later time

ASSUME LifecycleAssumption ==
    /\ Callers \cap TrialJobs = {} /\ IsFiniteSet(Callers) /\ IsFiniteSet(TrialJobs)
    /\ 0 \notin Subs
    /\ Notice \in Nat /\ MaxCalls \in Nat /\ MaxTime \in Nat

Workers == Callers \cup TrialJobs
NoTime == -1

VARIABLES
    now,      \* the clock
    sub,      \* the rows of subscriptions; "none": not created
    invoices, \* how many invoices each subscription has
    wk,       \* where each call or job is, with its copies
    stale,    \* history: how often a copy that was out of date was stored
    notices,  \* history: subscription.trial_ending_soon events of each
    starts,   \* history: subscription.billing_started events of each
    calls     \* how many calls were made (bounded by MaxCalls)

events == <<notices, starts>>
subVars == <<now, sub, invoices, wk, stale, events, calls>>

SubStatus == {"none", "attention", "active", "canceled"}
Sub == [status : SubStatus, version : Nat, amount : Nat, trial : Nat,
        trialEnd : Nat \cup {NoTime}, started : Nat \cup {NoTime},
        noticed : BOOLEAN, invoice : Nat]

NoSub == [status |-> "none", version |-> 0, amount |-> 0, trial |-> 0,
          trialEnd |-> NoTime, started |-> NoTime, noticed |-> FALSE, invoice |-> 0]

\* todo: rows of a job's loop not looked at yet; s: the row in hand; old: rows
\* stored since they were read; at: the clock when the rows were loaded.
NoCopies == [s \in Subs |-> NoSub]
IdleWorker == [pc |-> "idle", s |-> 0, todo |-> {}, copies |-> NoCopies, old |-> {}, at |-> 0]

Copy(w) == wk[w].copies[wk[w].s]

Becomes(w, r) == wk' = [wk EXCEPT ![w] = r]
Goto(w, pc) == Becomes(w, [wk[w] EXCEPT !.pc = pc])

\* Worker v after somebody else stored row s: its copy is out of date.
AgedCopy(v, s) ==
    IF wk[v].s = s \/ s \in wk[v].todo THEN [wk[v] EXCEPT !.old = @ \cup {s}] ELSE wk[v]

\* Worker w stores row r over subscription s and goes on as next.
Save(w, s, r, next) ==
    /\ sub' = [sub EXCEPT ![s] = r]
    /\ stale' = [stale EXCEPT ![s] = IF s \in wk[w].old THEN @ + 1 ELSE @]
    /\ wk' = [v \in Workers |-> IF v = w THEN next ELSE AgedCopy(v, s)]

Tick ==
    /\ now < MaxTime
    /\ now' = now + 1
    /\ UNCHANGED <<sub, invoices, wk, stale, events, calls>>
-----------------------------------------------------------------------------
(* CreateSubscription *)

\* Mutant of Terms: the terms are those of the plan at that time.
TermsOfPlan(v) == [NoSub EXCEPT !.status = "attention", !.version = v.index,
                                !.amount = plan.amount, !.trial = plan.trial]

\* A subscription to version v, before its dates are set.
Terms(v) == [NoSub EXCEPT !.status = "attention", !.version = v.index,
                          !.amount = v.amount, !.trial = v.trial]

\* The newest version is read, whatever its status.
SubscribeRead(w) ==
    /\ wk[w].pc = "idle" /\ versions # <<>>
    /\ \E s \in Subs :
         /\ sub[s].status = "none"
         /\ \A v \in Callers : wk[v].s # s
         /\ Becomes(w, [IdleWorker EXCEPT !.pc = "insert", !.s = s,
                                          !.copies[s] = [Terms(Latest) EXCEPT !.status = "none"]])
    /\ UNCHANGED <<now, sub, invoices, stale, events, calls>>

\* With a trial, billing starts at its end; without one it has started.
SubscribeInsert(w) ==
    LET s == wk[w].s
        v == versions[Copy(w).version]
        r == IF v.trial = 0 THEN [Terms(v) EXCEPT !.started = now]
             ELSE [Terms(v) EXCEPT !.trialEnd = now + v.trial] IN
    /\ wk[w].pc = "insert"
    /\ sub' = [sub EXCEPT ![s] = r]
    /\ Becomes(w, [wk[w] EXCEPT !.pc = "invoice", !.copies[s] = r])
    /\ UNCHANGED <<now, invoices, stale, events, calls>>

\* The invoice of a creation or of a link call for a subscription without one.
FirstInvoice(w) ==
    LET s == wk[w].s IN
    /\ wk[w].pc = "invoice"
    /\ invoices' = [invoices EXCEPT ![s] = @ + 1]
    /\ Becomes(w, [wk[w] EXCEPT !.pc = "attach", !.copies[s].invoice = invoices[s] + 1])
    /\ UNCHANGED <<now, sub, stale, events, calls>>

\* LatestInvoiceID is stored with the whole copy.
AttachInvoice(w) ==
    /\ wk[w].pc = "attach"
    /\ Save(w, wk[w].s, Copy(w), IdleWorker)
    /\ UNCHANGED <<now, invoices, events, calls>>
-----------------------------------------------------------------------------
(* Other calls *)

\* GenerateCheckoutLink and CancelSubscription read the subscription.
CallRead(w) ==
    /\ wk[w].pc = "idle" /\ calls < MaxCalls
    /\ \E s \in Subs, op \in {"link", "cancel"} :
         /\ sub[s].status \notin {"none", "canceled"}
         /\ Becomes(w, [IdleWorker EXCEPT
                !.pc = IF op = "cancel" THEN "cancel"
                       ELSE IF sub[s].invoice = 0 THEN "invoice" ELSE "attach",
                !.s = s, !.copies[s] = sub[s]])
    /\ calls' = calls + 1
    /\ UNCHANGED <<now, sub, invoices, stale, events>>

CancelCommit(w) ==
    /\ wk[w].pc = "cancel"
    /\ Save(w, wk[w].s, [Copy(w) EXCEPT !.status = "canceled"], IdleWorker)
    /\ UNCHANGED <<now, invoices, events, calls>>

\* payment_success of an invoice, this one or one of a later cycle: whatever its
\* status, even canceled, the subscription becomes active (one that is active is
\* stored as it is).  The row is locked.
Activate(s) ==
    /\ sub[s].status \notin {"none", "active"} /\ invoices[s] > 0
    /\ sub' = [sub EXCEPT ![s].status = "active"]
    /\ wk' = [v \in Workers |-> AgedCopy(v, s)]
    /\ UNCHANGED <<now, invoices, stale, events, calls>>

\* A database call fails or the process dies.
CallFails(w) ==
    /\ Fault
    /\ wk[w].pc \in {"insert", "invoice", "attach", "cancel"}
    /\ Becomes(w, IdleWorker)
    /\ UNCHANGED <<now, sub, invoices, stale, events, calls>>
-----------------------------------------------------------------------------
(* ProcessTrials: the two passes of a run. *)

\* Mutant of Ending: notices are sent again.
EndingAgain(s) ==
    /\ sub[s].status = "active"
    /\ sub[s].trialEnd > now /\ sub[s].trialEnd <= now + Notice

\* Mutants of Ended: trials end a tick early; only noticed ones end.
EndedEarly(s) ==
    /\ sub[s].status = "active" /\ sub[s].trialEnd # NoTime
    /\ sub[s].trialEnd <= now + 1 /\ sub[s].started = NoTime
EndedNoticed(s) ==
    /\ sub[s].status = "active" /\ sub[s].trialEnd # NoTime /\ sub[s].noticed
    /\ sub[s].trialEnd <= now /\ sub[s].started = NoTime

\* Trials that end soon and were not noticed, trials that ended.
Ending(s) ==
    /\ sub[s].status = "active" /\ ~sub[s].noticed
    /\ sub[s].trialEnd > now /\ sub[s].trialEnd <= now + Notice
Ended(s) ==
    /\ sub[s].status = "active" /\ sub[s].trialEnd # NoTime
    /\ sub[s].trialEnd <= now /\ sub[s].started = NoTime

\* A pass over the rows of todo; one that finds none changes nothing.
Loaded(w, pc, todo) ==
    /\ todo # {}
    /\ Becomes(w, [pc |-> pc, s |-> 0, todo |-> todo, old |-> {}, at |-> now,
                   copies |-> [s \in Subs |-> IF s \in todo THEN sub[s] ELSE NoSub]])

LoadEnding(w) ==
    /\ wk[w].pc = "idle"
    /\ Loaded(w, "ending", {s \in Subs : Ending(s)})
    /\ UNCHANGED <<now, sub, invoices, stale, events, calls>>

LoadEnded(w) ==
    /\ wk[w].pc = "idle"
    /\ Loaded(w, "ended", {s \in Subs : Ended(s)})
    /\ UNCHANGED <<now, sub, invoices, stale, events, calls>>

Taken(w, s, pc) == [wk[w] EXCEPT !.pc = pc, !.s = s, !.todo = @ \ {s}]

\* The row in hand is done with.
Released(w, pc) ==
    IF wk[w].todo = {} THEN IdleWorker
    ELSE [wk[w] EXCEPT !.pc = pc, !.s = 0, !.copies[wk[w].s] = NoSub, !.old = @ \ {wk[w].s}]

\* The event and the mail go out before the flag is stored.
SendNotice(w) ==
    /\ wk[w].pc = "ending"
    /\ \E s \in wk[w].todo :
         /\ notices' = [notices EXCEPT ![s] = @ + 1]
         /\ Becomes(w, Taken(w, s, "flag"))
    /\ UNCHANGED <<now, sub, invoices, stale, starts, calls>>

StoreFlag(w) ==
    /\ wk[w].pc = "flag"
    /\ Save(w, wk[w].s, [Copy(w) EXCEPT !.noticed = TRUE], Released(w, "ending"))
    /\ UNCHANGED <<now, invoices, events, calls>>

StoreStart(w) ==
    /\ wk[w].pc = "ended"
    /\ \E s \in wk[w].todo :
         Save(w, s, [wk[w].copies[s] EXCEPT !.started = wk[w].at], Taken(w, s, "announce"))
    /\ UNCHANGED <<now, invoices, events, calls>>

AnnounceStart(w) ==
    /\ wk[w].pc = "announce"
    /\ starts' = [starts EXCEPT ![wk[w].s] = @ + 1]
    /\ Becomes(w, Released(w, "ended"))
    /\ UNCHANGED <<now, sub, invoices, stale, notices, calls>>

\* Row s of the loop is left as it is.
Skipped(w, s) ==
    IF wk[w].todo = {s} THEN IdleWorker
    ELSE [wk[w] EXCEPT !.todo = @ \ {s}, !.copies[s] = NoSub, !.old = @ \ {s}]

\* The update of a row fails and the loop goes on, or the process dies.
JobFails(w) ==
    /\ Fault
    /\ \/ wk[w].pc = "flag" /\ Becomes(w, Released(w, "ending"))
       \/ wk[w].pc = "ended" /\ \E s \in wk[w].todo : Becomes(w, Skipped(w, s))
       \/ wk[w].pc # "idle" /\ Becomes(w, IdleWorker)
    /\ UNCHANGED <<now, sub, invoices, stale, events, calls>>
-----------------------------------------------------------------------------
SubInit ==
    /\ now = 0
    /\ sub = [s \in Subs |-> NoSub]
    /\ invoices = [s \in Subs |-> 0]
    /\ wk = [w \in Workers |-> IdleWorker]
    /\ stale = [s \in Subs |-> 0]
    /\ notices = [s \in Subs |-> 0]
    /\ starts = [s \in Subs |-> 0]
    /\ calls = 0

Job(w) ==
    \/ LoadEnding(w) \/ SendNotice(w) \/ StoreFlag(w)
    \/ LoadEnded(w) \/ StoreStart(w) \/ AnnounceStart(w)

Subscribing(w) ==
    SubscribeRead(w) \/ SubscribeInsert(w) \/ FirstInvoice(w) \/ AttachInvoice(w)

\* A step that is not a fault.
SubStep ==
    \/ Tick
    \/ \E w \in Callers : Subscribing(w) \/ CallRead(w) \/ CancelCommit(w)
    \/ \E s \in Subs : Activate(s)
    \/ \E w \in TrialJobs : Job(w)

SubFault ==
    \/ \E w \in Callers : CallFails(w)
    \/ \E w \in TrialJobs : JobFails(w)

SubTypeOK ==
    /\ now \in Nat
    /\ sub \in [Subs -> Sub]
    /\ invoices \in [Subs -> Nat]
    /\ \A w \in Workers :
         /\ wk[w].pc \in {"idle", "insert", "invoice", "attach", "cancel",
                          "ending", "flag", "ended", "announce"}
         /\ wk[w].todo \subseteq Subs /\ wk[w].old \subseteq Subs
         /\ wk[w].copies \in [Subs -> Sub]
    /\ stale \in [Subs -> Nat]
    /\ notices \in [Subs -> Nat] /\ starts \in [Subs -> Nat]
    /\ calls \in Nat

\* A subscription keeps the terms of the version it was made from.
TermsKept ==
    \A s \in Subs : sub[s].status # "none" =>
        LET v == versions[sub[s].version] IN
        sub[s].amount = v.amount /\ sub[s].trial = v.trial

Busy(s, pcs) == Cardinality({w \in Workers : wk[w].s = s /\ wk[w].pc \in pcs})

\* What is done once per subscription - the first invoice, the notice of the
\* end of the trial, the start of billing - is repeated only by a store of an
\* out-of-date copy or a fault, who has acted and not stored yet counted out;
\* billing starts at the end of the trial or later, and is announced only after
\* it was stored.
NothingTwice ==
    \A s \in Subs :
        /\ invoices[s] <= 1 + stale[s] + faults + Busy(s, {"attach"})
        /\ notices[s] <= 1 + stale[s] + faults + Busy(s, {"flag"})
        /\ starts[s] <= 1 + stale[s]
        /\ sub[s].trialEnd # NoTime =>
             /\ sub[s].started # NoTime => sub[s].started >= sub[s].trialEnd
             /\ starts[s] > 0 => sub[s].trialEnd <= now
             /\ starts[s] > 0 /\ stale[s] = 0 => sub[s].started # NoTime
=============================================================================
