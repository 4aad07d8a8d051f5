----------------------------- MODULE Enrollment -----------------------------
(***************************************************************************)
(* How a merchant enrolls a customer in a plan: a card checkout order      *)
(* whose payment should create the subscription, or a direct-debit mandate *)
(* that a cron job polls until the bank has activated it.  All orders and  *)
(* mandates here are of one customer and one plan.                         *)
(***************************************************************************)
EXTENDS Integers, Sequences, FiniteSets

CONSTANTS
    Orders,     \* InitializeCardTransaction calls
    Mandates,   \* InitializeDirectDebitSubscription calls
    NoMandate,
    Pollers,    \* runs of PollPendingMandates that may overlap
    Backoff,    \* nextPollDelay: sequence of [below, wait], in ticks
    LastWait,   \* ... and its default
    MaxAge,     \* maxMandatePollAge, in ticks
    MaxTime,    \* bound on the clock
    StoredBy,   \* bound on the tick at which a mandate is stored
    MaxFaults   \* bound on failed calls and crashes

Calls == Orders \cup Mandates
Times == 0 .. MaxTime
NoTime == -1

ASSUME EnrollmentAssumption ==
    /\ Orders \cap Mandates = {}
    /\ NoMandate \notin Calls /\ IsFiniteSet(Mandates)
    /\ Backoff \in Seq([below : Nat, wait : Nat])
    /\ \A j, k \in DOMAIN Backoff : j < k => /\ Backoff[j].below < Backoff[k].below
                                             /\ Backoff[j].wait <= Backoff[k].wait
    /\ LastWait \in Nat /\ \A k \in DOMAIN Backoff : Backoff[k].wait <= LastWait
    /\ MaxAge \in Nat /\ StoredBy \in Nat /\ MaxTime \in Nat /\ MaxFaults \in Nat
    /\ StoredBy + MaxAge < MaxTime

\* "unset": InitializeCardTransaction stores no status, so the column is empty.
Status == {"absent", "unset", "pending", "completed", "failed"}
Row == [st : Status, born : Times, polled : Times \cup {NoTime}, polls : Nat]
NoRow == [st |-> "absent", born |-> 0, polled |-> NoTime, polls |-> 0]

VARIABLES
    now,
    initiation,  \* nomba_initiations
    subs,        \* active subscriptions created from an initiation
    request,     \* how far each call has come
    poll,        \* the poll runs: their copies of the rows they loaded
    mandate,     \* mandates at the provider
    heard,       \* orders whose payment_success event was answered
    asked,       \* questions the provider was asked about each mandate
    waits,       \* the waits promised after those questions, added up
    stale,       \* times a run acted on a row changed since it was loaded
    faults

dbVars == <<initiation, subs>>
history == <<heard, asked, waits, stale>>
vars == <<now, dbVars, request, poll, mandate, history, faults>>

PollPc == {"idle", "next", "ask", "fail", "activate"}
Poll == [pc : PollPc, todo : SUBSET Mandates, cur : Mandates \cup {NoMandate},
         row : [Mandates -> Row], at : Times]
Idle == [pc |-> "idle", todo |-> {}, cur |-> NoMandate,
         row |-> [m \in Mandates |-> NoRow], at |-> 0]

Init ==
    /\ now = 0
    /\ initiation = [c \in Calls |-> NoRow]
    /\ subs = [c \in Calls |-> 0]
    /\ request = [c \in Calls |-> "new"]
    /\ poll = [w \in Pollers |-> Idle]
    /\ mandate = [m \in Mandates |-> "none"]
    /\ heard = {}
    /\ asked = [m \in Mandates |-> 0]
    /\ waits = [m \in Mandates |-> 0]
    /\ stale = [m \in Mandates |-> 0]
    /\ faults = 0

Fault == faults < MaxFaults /\ faults' = faults + 1
-----------------------------------------------------------------------------
(* The two calls.  Each runs in one transaction, but the check for an      *)
(* active subscription is made outside it and takes no lock.               *)

HasSubscription == \E c \in Calls : subs[c] > 0

Check(c) ==
    /\ request[c] = "new" /\ ~HasSubscription
    /\ request' = [request EXCEPT ![c] = "checked"]
    /\ UNCHANGED <<now, dbVars, poll, mandate, history, faults>>

\* The merchant gets the link only when the transaction has committed.  When the
\* order was placed is never read.
PlaceOrder(o) ==
    /\ request[o] = "checked"
    /\ request' = [request EXCEPT ![o] = "done"]
    /\ initiation' = [initiation EXCEPT ![o] = [NoRow EXCEPT !.st = "unset"]]
    /\ UNCHANGED <<now, subs, poll, mandate, history, faults>>

CreateMandate(m) ==
    /\ request[m] = "checked"
    /\ request' = [request EXCEPT ![m] = "made"]
    /\ mandate' = [mandate EXCEPT ![m] = "waiting"]
    /\ UNCHANGED <<now, dbVars, poll, history, faults>>

\* Mutant of StoreMandate: a failed insert is not reported.
StoreMandateLost(m) ==
    /\ request[m] = "made"
    /\ request' = [request EXCEPT ![m] = "done"]
    /\ UNCHANGED <<now, dbVars, poll, mandate, history, faults>>

StoreMandate(m) ==
    /\ request[m] = "made" /\ now <= StoredBy
    /\ request' = [request EXCEPT ![m] = "done"]
    /\ initiation' = [initiation EXCEPT ![m] = [NoRow EXCEPT !.st = "pending", !.born = now]]
    /\ UNCHANGED <<now, subs, poll, mandate, history, faults>>

\* The provider or the database fails, or the process dies: the transaction is
\* rolled back, a mandate the provider has created stays (of an order whose link
\* nobody got nothing is left).
CallFails(m) ==
    /\ request[m] \in {"checked", "made"}
    /\ Fault
    /\ request' = [request EXCEPT ![m] = "broken"]
    /\ \E left \in IF mandate[m] = "none" THEN {"none", "waiting"} ELSE {mandate[m]} :
         mandate' = [mandate EXCEPT ![m] = left]
    /\ UNCHANGED <<now, dbVars, poll, history>>
-----------------------------------------------------------------------------
(* The payment of an order                                                 *)

\* handlePaymentSuccess for an order the customer has paid: only a pending
\* initiation is settled; any other is answered as handled, with no effect.
PaymentSuccess(o) ==
    /\ initiation[o].st # "absent"
    /\ heard' = heard \cup {o}
    /\ IF initiation[o].st = "pending"
       THEN /\ initiation' = [initiation EXCEPT ![o].st = "completed"]
            /\ subs' = [subs EXCEPT ![o] = @ + 1]
       ELSE UNCHANGED dbVars
    /\ UNCHANGED <<now, request, poll, mandate, asked, waits, stale, faults>>
-----------------------------------------------------------------------------
(* PollPendingMandates                                                     *)

nextPollDelay(attempts) ==
    LET levels == {k \in DOMAIN Backoff : attempts < Backoff[k].below} IN
    IF levels = {} THEN LastWait
    ELSE Backoff[CHOOSE k \in levels : \A j \in levels : k <= j].wait

\* Mutant of Expired: the age is counted from the last poll.
ExpiredSincePoll(row, t) == row.polled # NoTime /\ t - row.polled > MaxAge

Expired(row, t) == t - row.born > MaxAge

\* Mutant of mandateReadyToPoll: due one tick early.
mandateReadyToPollEarly(row, t) ==
    row.polled = NoTime \/ t >= row.polled + nextPollDelay(row.polls)

mandateReadyToPoll(row, t) ==
    row.polled = NoTime \/ t > row.polled + nextPollDelay(row.polls)

\* The rows loaded; what a run does with each is decided by its copy and by the
\* time at which the run began, so those it will leave alone are left out here.
PollStart(w) ==
    LET due == {m \in Mandates : /\ initiation[m].st = "pending"
                                 /\ \/ Expired(initiation[m], now)
                                    \/ mandateReadyToPoll(initiation[m], now)} IN
    /\ poll[w].pc = "idle" /\ due # {}
    /\ poll' = [poll EXCEPT ![w] =
                  [Idle EXCEPT !.pc = "next", !.todo = due, !.at = now,
                               !.row = [m \in Mandates |-> IF m \in due THEN initiation[m]
                                                           ELSE NoRow]]]
    /\ UNCHANGED <<now, dbVars, request, mandate, history, faults>>

\* The run is done with m and goes on with the rows it has left.
Continue(w, m) ==
    LET left == poll[w].todo \ {m} IN
    poll' = [poll EXCEPT ![w] =
               IF left = {} THEN Idle
               ELSE [poll[w] EXCEPT !.pc = "next", !.todo = left, !.cur = NoMandate,
                                    !.row[m] = NoRow]]

\* Update stores the whole row.
Store(w, m, row) ==
    /\ initiation' = [initiation EXCEPT ![m] = row]
    /\ stale' = [stale EXCEPT ![m] = IF initiation[m] = poll[w].row[m] THEN @ ELSE @ + 1]

Expire(w, m) ==
    /\ poll[w].pc = "next" /\ m \in poll[w].todo
    /\ Expired(poll[w].row[m], poll[w].at)
    /\ Store(w, m, [poll[w].row[m] EXCEPT !.st = "failed"])
    /\ Continue(w, m)
    /\ UNCHANGED <<now, subs, request, mandate, heard, asked, waits, faults>>

Book(w, m) ==
    LET row == [poll[w].row[m] EXCEPT !.polled = poll[w].at, !.polls = @ + 1] IN
    /\ poll[w].pc = "next" /\ m \in poll[w].todo
    /\ ~Expired(poll[w].row[m], poll[w].at)
    /\ Store(w, m, row)
    /\ poll' = [poll EXCEPT ![w].pc = "ask", ![w].cur = m, ![w].row[m] = row]
    /\ UNCHANGED <<now, subs, request, mandate, heard, asked, waits, faults>>
-----------------------------------------------------------------------------
(* processPendingMandate                                                   *)

At(w, m, pc) == poll[w].pc = pc /\ poll[w].cur = m

\* What the comment on the poll promises (direct_debit_backoff.go:16-20): the
\* wait after the n-th attempt.
Promised(n) ==
    LET levels == {k \in DOMAIN Backoff : n <= Backoff[k].below} IN
    IF levels = {} THEN LastWait
    ELSE Backoff[CHOOSE k \in levels : \A j \in levels : k <= j].wait

\* History: the provider is asked about m once more, and more than the wait
\* promised after that question is to pass before the next.
Asked(m) ==
    /\ asked' = [asked EXCEPT ![m] = @ + 1]
    /\ waits' = [waits EXCEPT ![m] = @ + Promised(asked[m] + 1) + 1]

\* Mutant of AskStatus: whatever is not deleted is activated.
AskStatusAny(w, m) ==
    /\ At(w, m, "ask")
    /\ Asked(m)
    /\ stale' = [stale EXCEPT ![m] = IF initiation[m] = poll[w].row[m] THEN @ ELSE @ + 1]
    /\ poll' = [poll EXCEPT ![w].pc = IF mandate[m] = "deleted" THEN "fail" ELSE "activate"]
    /\ UNCHANGED <<now, dbVars, request, mandate, heard, faults>>

AskStatus(w, m) ==
    /\ At(w, m, "ask")
    /\ Asked(m)
    /\ stale' = [stale EXCEPT ![m] = IF initiation[m] = poll[w].row[m] THEN @ ELSE @ + 1]
    /\ CASE mandate[m] = "deleted" -> poll' = [poll EXCEPT ![w].pc = "fail"]
         [] mandate[m] = "active" -> poll' = [poll EXCEPT ![w].pc = "activate"]
         [] OTHER -> Continue(w, m)
    /\ UNCHANGED <<now, dbVars, request, mandate, heard, faults>>

\* Mutant of FailDeleted: the provider's word is stored as the status.
FailDeletedRaw(w, m) ==
    /\ At(w, m, "fail")
    /\ Store(w, m, [poll[w].row[m] EXCEPT !.st = mandate[m]])
    /\ Continue(w, m)
    /\ UNCHANGED <<now, subs, request, mandate, heard, asked, waits, faults>>

FailDeleted(w, m) ==
    /\ At(w, m, "fail")
    /\ Store(w, m, [poll[w].row[m] EXCEPT !.st = "failed"])
    /\ Continue(w, m)
    /\ UNCHANGED <<now, subs, request, mandate, heard, asked, waits, faults>>

\* Mutants of Activate: the row stays pending; the two writes are not one
\* transaction and the first may fail.
ActivatePending(w, m) ==
    /\ At(w, m, "activate")
    /\ Store(w, m, poll[w].row[m])
    /\ subs' = [subs EXCEPT ![m] = @ + 1]
    /\ Continue(w, m)
    /\ UNCHANGED <<now, request, mandate, heard, asked, waits, faults>>

ActivateHalf(w, m) ==
    /\ At(w, m, "activate")
    /\ Store(w, m, [poll[w].row[m] EXCEPT !.st = "completed"])
    /\ subs' \in {subs, [subs EXCEPT ![m] = @ + 1]}
    /\ Continue(w, m)
    /\ UNCHANGED <<now, request, mandate, heard, asked, waits, faults>>

\* Payment source, subscription and initiation in one transaction, which does
\* not read the initiation again.
Activate(w, m) ==
    /\ At(w, m, "activate")
    /\ Store(w, m, [poll[w].row[m] EXCEPT !.st = "completed"])
    /\ subs' = [subs EXCEPT ![m] = @ + 1]
    /\ Continue(w, m)
    /\ UNCHANGED <<now, request, mandate, heard, asked, waits, faults>>

\* The customer or the plan version is not found: nothing is stored, no error is
\* reported, and the row stays pending.
ActivateNothing(w, m) ==
    /\ At(w, m, "activate")
    /\ Continue(w, m)
    /\ UNCHANGED <<now, dbVars, request, mandate, history, faults>>

\* A database or provider call fails: it is logged and the next row is taken.
StepFails(w, m) ==
    /\ \/ poll[w].pc = "next" /\ m \in poll[w].todo
       \/ poll[w].cur = m
    /\ Fault
    /\ Continue(w, m)
    /\ UNCHANGED <<now, dbVars, request, mandate, history>>

Crash(w) ==
    /\ poll[w].pc # "idle"
    /\ Fault
    /\ poll' = [poll EXCEPT ![w] = Idle]
    /\ UNCHANGED <<now, dbVars, request, mandate, history>>
-----------------------------------------------------------------------------
(* The bank and the clock                                                  *)

\* ACTIVE with the advice sent, or deleted.
Approve(m) ==
    /\ mandate[m] = "waiting"
    /\ mandate' = [mandate EXCEPT ![m] = "active"]
    /\ UNCHANGED <<now, dbVars, request, poll, history, faults>>

Delete(m) ==
    /\ mandate[m] \in {"waiting", "active"}
    /\ mandate' = [mandate EXCEPT ![m] = "deleted"]
    /\ UNCHANGED <<now, dbVars, request, poll, history, faults>>

Tick ==
    /\ now < MaxTime
    /\ now' = now + 1
    /\ UNCHANGED <<dbVars, request, poll, mandate, history, faults>>

PollStep(w) ==
    \E m \in Mandates : \/ Expire(w, m) \/ Book(w, m) \/ AskStatus(w, m)
                        \/ FailDeleted(w, m) \/ Activate(w, m) \/ ActivateNothing(w, m)

Next ==
    \/ Tick
    \/ \E c \in Calls : Check(c)
    \/ \E o \in Orders : PlaceOrder(o) \/ PaymentSuccess(o)
    \/ \E m \in Mandates : \/ CreateMandate(m) \/ StoreMandate(m) \/ CallFails(m)
                           \/ Approve(m) \/ Delete(m)
    \/ \E w \in Pollers : \/ PollStart(w) \/ PollStep(w) \/ Crash(w)
                          \/ \E m \in Mandates : StepFails(w, m)

Spec == Init /\ [][Next]_vars

\* The cron scheduler starts the job every minute and a run it has started goes
\* on; nothing makes a merchant, a customer, the bank or the provider act.
FairSpec ==
    /\ Spec
    /\ WF_vars(Tick)
    /\ \A w \in Pollers : WF_vars(PollStart(w)) /\ WF_vars(PollStep(w))
-----------------------------------------------------------------------------
Requests == {"new", "checked", "made", "done", "broken"}

TypeOK ==
    /\ now \in Times
    /\ initiation \in [Calls -> Row]
    /\ subs \in [Calls -> Nat]
    /\ request \in [Calls -> Requests]
    /\ poll \in [Pollers -> Poll]
    /\ mandate \in [Mandates -> {"none", "waiting", "active", "deleted"}]
    /\ heard \subseteq Orders
    /\ asked \in [Mandates -> Nat] /\ waits \in [Mandates -> Nat]
    /\ stale \in [Mandates -> Nat]
    /\ faults \in 0 .. MaxFaults

\* A mandate gives the customer one subscription: a second one takes a run that
\* acts on a row another run has changed since (the activation reads nothing
\* again, and the bookkeeping of a late run makes a completed row pending).
\* The row and the subscription change together: a completed row has its
\* subscription, and a subscription without overlapping runs its completed row.
ActivatedOnce ==
    \A m \in Mandates :
        /\ subs[m] <= 1 + stale[m]
        /\ initiation[m].st = "completed" => subs[m] > 0
        /\ subs[m] > 0 /\ stale[m] = 0 => initiation[m].st = "completed"

\* No enrollment is given up while it could succeed, and none succeeds by
\* itself: a failed row's mandate was deleted or is older than thirty days, a
\* subscription's was approved by the bank.  A mandate the bank knows is known
\* here too, so somebody polls it; only a call that failed between the two
\* leaves one behind.
OutcomeBacked ==
    /\ Cardinality({m \in Mandates : /\ mandate[m] # "none" /\ initiation[m].st = "absent"
                                     /\ request[m] # "made"}) <= faults
    /\ \A m \in Mandates :
        /\ initiation[m].st = "failed" =>
               mandate[m] = "deleted" \/ Expired(initiation[m], now)
        /\ subs[m] > 0 => mandate[m] \in {"active", "deleted"}

\* The provider is asked no faster than promised: when it is asked for the n-th
\* time, the waits promised after the n - 1 questions before have passed since the
\* mandate was stored, however late each run asks, unless a run acts on a row
\* another one has changed.  (From one question to the next the wait may be
\* shorter: a run's time is read before its loop, so a run that asks late is
\* followed early by the next one.)
PollSpacing ==
    [][\A m \in Mandates :
         asked'[m] # asked[m] /\ stale'[m] = 0 => now >= initiation[m].born + waits[m]]_vars

\* Nothing is polled for ever: every stored mandate is completed or failed for
\* good in the end, though late runs may make it pending again on the way.
EveryMandateEnds == \A m \in Mandates : <>[](initiation[m].st # "pending")

\* README.md:715: the payment_success event of a merchant's checkout order
\* completes the subscription (it never does: the order's initiation is not
\* pending).
PaidOrderEnrolled == \A o \in heard : subs[o] > 0
=============================================================================
