-------------------------- MODULE WebhookDelivery --------------------------
(***************************************************************************)
(* Tenant webhooks: EnqueueTenantWebhook and SendTenantWebhookHandler      *)
(* (queue/send-tenant-webhook.go) and RetryWebhookDelivery                 *)
(* (services/webhook_delivery.go).  The handler and the retry call read a  *)
(* row without a lock and later store their whole copy of it.              *)
(***************************************************************************)
EXTENDS MessageQueue

CONSTANTS
    Callers,    \* API requests that retry a delivery
    Answers,    \* what an endpoint may answer: subset of AnswerKinds
    MaxRetries, \* bound: retry calls
    MaxFaults   \* bound: lost connections, failed calls and rollbacks

\* A 2xx status; an error or a status of at least 400; any other status.
AnswerKinds == {"ok", "fail", "odd"}

ASSUME DeliveryAssumption ==
    /\ Answers \subseteq AnswerKinds
    /\ MaxRetries \in Nat
    /\ MaxFaults \in Nat

VARIABLES
    row,      \* the rows of webhook_deliveries others can see
    enq,      \* where the call that enqueues each delivery is
    hd,       \* where the handler of each consumer is, with its copy
    call,     \* where each retry call is, with its copy
    log,      \* how many webhook_delivery_attempts each delivery has
    posts,    \* how often each event was posted
    received, \* events an endpoint has processed
    retries,  \* how many retry calls were started (bounded by MaxRetries)
    faults    \* how many faults happened (bounded by MaxFaults)

rowVars == <<row, log>>
endpoint == <<posts, received>>
vars == <<queueVars, rowVars, enq, hd, call, endpoint, retries, faults>>

MaxAttempts == 3

Row == [st : {"none", "pending", "delivered", "failed"}, attempts : Nat, max : Nat]
NoRow == [st |-> "none", attempts |-> 0, max |-> 0]
NewRow == [st |-> "pending", attempts |-> 0, max |-> MaxAttempts]

IdleHandler == [pc |-> "idle", job |-> NoJob, copy |-> NoRow, answer |-> "ok"]
IdleCall == [pc |-> "idle", job |-> NoJob, copy |-> NoRow]

Fault == faults < MaxFaults /\ faults' = faults + 1
-----------------------------------------------------------------------------
(* EnqueueTenantWebhook creates the row and publishes the job.  Some       *)
(* callers pass it their transaction: the row is visible once they commit. *)

Enqueued(d, from, to) == enq[d] = from /\ enq' = [enq EXCEPT ![d] = to]

Create(d) ==
    /\ \/ /\ Enqueued(d, "idle", "created")
          /\ row' = [row EXCEPT ![d] = NewRow]
       \/ Enqueued(d, "idle", "createdInTrx") /\ UNCHANGED row
    /\ UNCHANGED <<queueVars, log, hd, call, endpoint, retries, faults>>

PublishJob(d) ==
    /\ \/ Enqueued(d, "created", "done")
       \/ Enqueued(d, "createdInTrx", "published")
    /\ Publish(d)
    /\ UNCHANGED <<rowVars, hd, call, endpoint, retries, faults>>

Commit(d) ==
    /\ Enqueued(d, "published", "committed")
    /\ row' = [row EXCEPT ![d] = NewRow]
    /\ UNCHANGED <<queueVars, log, hd, call, endpoint, retries, faults>>

\* The publish fails or the process dies before it: a row created outside a
\* transaction stays; some callers go on with their transaction, others do not.
PublishFails(d) ==
    /\ Fault
    /\ \/ Enqueued(d, "created", "done")
       \/ Enqueued(d, "createdInTrx", "published")
       \/ Enqueued(d, "createdInTrx", "rolledBack")
    /\ UNCHANGED <<queueVars, rowVars, hd, call, endpoint, retries>>

Rollback(d) ==
    /\ Fault
    /\ Enqueued(d, "published", "rolledBack")
    /\ UNCHANGED <<queueVars, rowVars, hd, call, endpoint, retries>>
-----------------------------------------------------------------------------
(* SendTenantWebhookHandler                                                *)

Handling(c, pc) == hd[c].pc = pc

\* Mutant of Verdicts: one attempt too many.
VerdictsLate(r) ==
    IF r.st \in {"none", "delivered"} THEN {"ack"}
    ELSE IF r.attempts > r.max THEN {"giveUp"} ELSE {"giveUp", "post"}

\* Where a handler goes with row r: nothing to deliver, attempts used up or
\* an endpoint that is not allowed any more, or a post.
Verdicts(r) ==
    IF r.st \in {"none", "delivered"} THEN {"ack"}
    ELSE IF r.attempts >= r.max THEN {"giveUp"} ELSE {"giveUp", "post"}

Load(c) ==
    /\ Handling(c, "idle")
    /\ \E d \in Jobs :
         /\ Take(c, d)
         /\ \E pc \in Verdicts(row[d]) :
              hd' = [hd EXCEPT ![c] = [pc |-> pc, job |-> d, copy |-> row[d],
                                       answer |-> "ok"]]
    /\ UNCHANGED <<rowVars, enq, call, endpoint, retries, faults>>

GiveUp(c) ==
    /\ Handling(c, "giveUp")
    /\ row' = [row EXCEPT ![hd[c].job] = [hd[c].copy EXCEPT !.st = "failed"]]
    /\ hd' = [hd EXCEPT ![c].pc = "ack"]
    /\ UNCHANGED <<queueVars, log, enq, call, endpoint, retries, faults>>

\* Mutants of Attempted: any answer is a success; the attempt is not counted.
AttemptedAnyAnswer(r, a) == [r EXCEPT !.attempts = @ + 1, !.st = "delivered"]
AttemptedUncounted(r, a) == [r EXCEPT !.st = IF a = "ok" THEN "delivered" ELSE "pending"]

\* The row after one more attempt with answer a.
Attempted(r, a) ==
    [st |-> IF a = "ok" THEN "delivered"
            ELSE IF r.attempts + 1 >= r.max THEN "failed" ELSE "pending",
     attempts |-> r.attempts + 1, max |-> r.max]

\* An endpoint that processed the event may still fail to say so.
Post(c) ==
    LET d == hd[c].job IN
    /\ Handling(c, "post")
    /\ posts' = [posts EXCEPT ![d] = @ + 1]
    /\ \E a \in Answers, r \in {received, received \cup {d}} :
         /\ a = "ok" => d \in r
         /\ received' = r
         /\ hd' = [hd EXCEPT ![c] = [pc |-> "record", job |-> d, answer |-> a,
                                     copy |-> Attempted(hd[c].copy, a)]]
    /\ UNCHANGED <<queueVars, rowVars, enq, call, retries, faults>>

\* Mutant of Record: the row is stored before the attempt is recorded.
RecordLast(c) ==
    /\ Handling(c, "record")
    /\ row' = [row EXCEPT ![hd[c].job] = hd[c].copy]
    /\ hd' = [hd EXCEPT ![c].pc = "save"]
    /\ UNCHANGED <<queueVars, log, enq, call, endpoint, retries, faults>>

Record(c) ==
    /\ Handling(c, "record")
    /\ log' = [log EXCEPT ![hd[c].job] = @ + 1]
    /\ hd' = [hd EXCEPT ![c].pc = "save"]
    /\ UNCHANGED <<queueVars, row, enq, call, endpoint, retries, faults>>

Save(c) ==
    /\ Handling(c, "save")
    /\ row' = [row EXCEPT ![hd[c].job] = hd[c].copy]
    /\ hd' = [hd EXCEPT ![c].pc =
                IF hd[c].answer = "fail" /\ hd[c].copy.st = "pending"
                THEN "requeue" ELSE "ack"]
    /\ UNCHANGED <<queueVars, log, enq, call, endpoint, retries, faults>>

\* Mutant of Finish: a failed delivery is acknowledged.
FinishAlwaysAck(c) ==
    /\ hd[c].pc \in {"ack", "requeue"}
    /\ Ack(c)
    /\ hd' = [hd EXCEPT ![c] = IdleHandler]
    /\ UNCHANGED <<rowVars, enq, call, endpoint, retries, faults>>

Finish(c) ==
    /\ \/ Handling(c, "ack") /\ Ack(c)
       \/ Handling(c, "requeue") /\ Nack(c, hd[c].job)
    /\ hd' = [hd EXCEPT ![c] = IdleHandler]
    /\ UNCHANGED <<rowVars, enq, call, endpoint, retries, faults>>

\* A database call of the handler fails: it returns the error.
HandlerFails(c) ==
    /\ Fault
    /\ hd[c].pc \in {"giveUp", "post", "record", "save"}
    /\ hd' = [hd EXCEPT ![c].pc = "requeue"]
    /\ UNCHANGED <<queueVars, rowVars, enq, call, endpoint, retries>>

\* The handler goes on while its message is already back in the queue.
ConnectionLost(c) ==
    /\ Fault
    /\ Disconnect(c, hd[c].job)
    /\ UNCHANGED <<rowVars, enq, hd, call, endpoint, retries>>

Restart(c) ==
    /\ Reattach(c)
    /\ hd' = [hd EXCEPT ![c] = IdleHandler]
    /\ UNCHANGED <<rowVars, enq, call, endpoint, retries, faults>>
-----------------------------------------------------------------------------
(* RetryWebhookDelivery                                                    *)

RetryRead(r, d) ==
    /\ call[r].pc = "idle" /\ retries < MaxRetries
    /\ row[d].st \in {"pending", "failed"}
    /\ retries' = retries + 1
    /\ call' = [call EXCEPT ![r] =
         [pc |-> "save", job |-> d,
          copy |-> [st |-> "pending", attempts |-> row[d].attempts,
                    max |-> IF row[d].attempts >= row[d].max
                            THEN row[d].attempts + 1 ELSE row[d].max]]]
    /\ UNCHANGED <<queueVars, rowVars, enq, hd, endpoint, faults>>

RetrySave(r) ==
    /\ call[r].pc = "save"
    /\ row' = [row EXCEPT ![call[r].job] = call[r].copy]
    /\ call' = [call EXCEPT ![r].pc = "publish"]
    /\ UNCHANGED <<queueVars, log, enq, hd, endpoint, retries, faults>>

RetryPublish(r) ==
    /\ call[r].pc = "publish"
    /\ Publish(call[r].job)
    /\ call' = [call EXCEPT ![r] = IdleCall]
    /\ UNCHANGED <<rowVars, enq, hd, endpoint, retries, faults>>

RetryFails(r) ==
    /\ Fault
    /\ call[r].pc \in {"save", "publish"}
    /\ call' = [call EXCEPT ![r] = IdleCall]
    /\ UNCHANGED <<queueVars, rowVars, enq, hd, endpoint, retries>>
-----------------------------------------------------------------------------
Init ==
    /\ QueueInit
    /\ row = [d \in Jobs |-> NoRow]
    /\ enq = [d \in Jobs |-> "idle"]
    /\ hd = [c \in Consumers |-> IdleHandler]
    /\ call = [r \in Callers |-> IdleCall]
    /\ log = [d \in Jobs |-> 0]
    /\ posts = [d \in Jobs |-> 0]
    /\ received = {}
    /\ retries = 0 /\ faults = 0

Enqueue(d) == PublishJob(d) \/ Commit(d)
Handle(c) == GiveUp(c) \/ Post(c) \/ Record(c) \/ Save(c) \/ Finish(c)
Retry(r) == RetrySave(r) \/ RetryPublish(r)

Next ==
    \/ \E d \in Jobs : Create(d) \/ Enqueue(d) \/ PublishFails(d) \/ Rollback(d)
    \/ \E c \in Consumers : Load(c) \/ Handle(c) \/ HandlerFails(c)
                            \/ ConnectionLost(c) \/ Restart(c)
    \/ \E r \in Callers : Retry(r) \/ RetryFails(r) \/ \E d \in Jobs : RetryRead(r, d)

Spec == Init /\ [][Next]_vars

\* Calls, consumers and handlers that started go on; nothing makes a merchant
\* retry or a process that lost its connection start again.
FairSpec ==
    /\ Spec
    /\ \A d \in Jobs : WF_vars(Enqueue(d))
    /\ \A c \in Consumers : WF_vars(Load(c)) /\ WF_vars(Handle(c))
    /\ \A r \in Callers : WF_vars(Retry(r))
-----------------------------------------------------------------------------
Handler == [pc : {"idle", "giveUp", "post", "record", "save", "ack", "requeue"},
            job : Jobs \cup {NoJob}, copy : Row, answer : AnswerKinds]
Call == [pc : {"idle", "save", "publish"}, job : Jobs \cup {NoJob}, copy : Row]

\* Rows, copies and messages keep their types, and no row counts more attempts
\* than it allows, whoever stores its copy last.
TypeOK ==
    /\ QueueTypeOK
    /\ row \in [Jobs -> Row]
    /\ \A d \in Jobs : row[d].attempts <= row[d].max
    /\ enq \in [Jobs -> {"idle", "created", "createdInTrx", "published", "done",
                         "committed", "rolledBack"}]
    /\ hd \in [Consumers -> Handler]
    /\ call \in [Callers -> Call]
    /\ log \in [Jobs -> Nat]
    /\ posts \in [Jobs -> Nat]
    /\ received \subseteq Jobs
    /\ retries \in Nat /\ faults \in Nat

\* An event shown as delivered was processed by the merchant's endpoint, even
\* when handlers and retry calls overwrite each other's row.
DeliveredReceived == \A d \in Jobs : row[d].st = "delivered" => d \in received

\* Every attempt a row counts has its record, and every record was a post: the
\* order of the two writes matters when the handler fails between them. Without
\* retry calls an event is posted at most three times; each fault can cost up
\* to three more.
AttemptsLogged ==
    \A d \in Jobs : /\ row[d].attempts <= log[d] /\ log[d] <= posts[d]
                    /\ retries = 0 => posts[d] <= MaxAttempts * (1 + faults)

InProgress(d) ==
    \/ enq[d] \in {"created", "createdInTrx", "published"}
    \/ ready[d] > 0
    \/ \E c \in Consumers : hd[c].job = d
    \/ \E r \in Callers : call[r].job = d

\* Without faults, a pending delivery enqueued outside a transaction is waiting
\* in the queue or being worked on.
NotForgotten ==
    faults = 0 => \A d \in Jobs :
        row[d].st = "pending" /\ enq[d] # "committed" => InProgress(d)

\* Without faults, such a delivery ends delivered or failed.
EventuallyResolved ==
    \A d \in Jobs :
        (row[d].st = "pending" /\ enq[d] # "committed" /\ faults = 0)
            ~> (row[d].st # "pending" \/ faults > 0)
=============================================================================
