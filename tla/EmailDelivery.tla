--------------------------- MODULE EmailDelivery ---------------------------
(***************************************************************************)
(* Mails to customers: EnqueueEmail and SendEmailHandler                   *)
(* (queue/send-email.go).  A mail is named by its idempotency key, which   *)
(* has a unique index; a message names the row.  The handler stores its    *)
(* whole copy of the row after the mail server answered, and a mail that   *)
(* fails is requeued without limit.                                        *)
(***************************************************************************)
EXTENDS MessageQueue

CONSTANTS
    Senders,  \* requests and cron jobs that enqueue mails
    MaxFaults \* bound: failed calls, refused mails and lost connections

ASSUME EmailAssumption ==
    MaxFaults \in Nat /\ IsFiniteSet(Senders) /\ IsFiniteSet(Consumers)

VARIABLES
    mail,    \* the rows of email_deliveries; "none": not created
    sending, \* where each sender is in EnqueueEmail
    mh,      \* where the handler of each consumer is, with its copy
    sent,    \* how often the mail server accepted each mail
    asked,   \* keys whose sender was told that the mail is enqueued
    faults   \* how many faults happened (bounded by MaxFaults)

mailRows == <<mail, sent, asked>>
mailVars == <<queueVars, mailRows, sending, mh, faults>>

Mail == [st : {"none", "pending", "failed", "delivered"}, attempts : Nat]
NoMail == [st |-> "none", attempts |-> 0]

NotSending == [pc |-> "idle", key |-> NoJob]
IdleMailer == [pc |-> "idle", key |-> NoJob, copy |-> NoMail]

Fault == faults < MaxFaults /\ faults' = faults + 1
-----------------------------------------------------------------------------
(* EnqueueEmail *)

\* Sender w is about to look for the row of k.
ToCheck(w, k) == sending' = [sending EXCEPT ![w] = [pc |-> "check", key |-> k]]

Continue(w, from, to) ==
    /\ sending[w].pc = from
    /\ sending' = [sending EXCEPT ![w].pc = to]

Return(w, from) == sending[w].pc = from /\ sending' = [sending EXCEPT ![w] = NotSending]

Told(w) == asked' = asked \cup {sending[w].key}

\* A mail with this key exists, sent or not: the sender is told it is enqueued.
AlreadyEnqueued(w) ==
    /\ Return(w, "check")
    /\ mail[sending[w].key].st # "none"
    /\ Told(w)
    /\ UNCHANGED <<queueVars, mail, sent, mh, faults>>

NotEnqueued(w) ==
    /\ Continue(w, "check", "create")
    /\ mail[sending[w].key].st = "none"
    /\ UNCHANGED <<queueVars, mailRows, mh, faults>>

\* Mutant of CreateMail: the key has no unique index.
CreateMailAnyway(w) ==
    /\ Continue(w, "create", "publish")
    /\ mail' = [mail EXCEPT ![sending[w].key] = [st |-> "pending", attempts |-> 0]]
    /\ UNCHANGED <<queueVars, sent, asked, mh, faults>>

CreateMail(w) ==
    /\ Continue(w, "create", "publish")
    /\ mail[sending[w].key].st = "none"
    /\ mail' = [mail EXCEPT ![sending[w].key] = [st |-> "pending", attempts |-> 0]]
    /\ UNCHANGED <<queueVars, sent, asked, mh, faults>>

\* Another sender created the row after the check: the unique index refuses.
CreateRefused(w) ==
    /\ Return(w, "create")
    /\ mail[sending[w].key].st # "none"
    /\ UNCHANGED <<queueVars, mailRows, mh, faults>>

PublishMail(w) ==
    /\ Return(w, "publish")
    /\ Publish(sending[w].key)
    /\ Told(w)
    /\ UNCHANGED <<mail, sent, mh, faults>>

\* A call of the sender fails or its process dies: a row it created stays.
SenderFails(w) ==
    /\ Fault
    /\ \E pc \in {"check", "create", "publish"} : Return(w, pc)
    /\ UNCHANGED <<queueVars, mailRows, mh>>
-----------------------------------------------------------------------------
(* SendEmailHandler *)

Mailing(c, pc) == mh[c].pc = pc

LoadMail(c) ==
    /\ Mailing(c, "idle")
    /\ \E k \in Jobs :
         /\ Take(c, k)
         /\ mh' = [mh EXCEPT ![c] =
                     [pc |-> IF mail[k].st = "delivered" THEN "ack" ELSE "send", key |-> k,
                      copy |-> [mail[k] EXCEPT !.attempts = @ + 1]]]
    /\ UNCHANGED <<mailRows, sending, faults>>

MailAccepted(c) ==
    /\ Mailing(c, "send")
    /\ sent' = [sent EXCEPT ![mh[c].key] = @ + 1]
    /\ mh' = [mh EXCEPT ![c].pc = "save", ![c].copy.st = "delivered"]
    /\ UNCHANGED <<queueVars, mail, asked, sending, faults>>

MailRefused(c) ==
    /\ Fault
    /\ Mailing(c, "send")
    /\ mh' = [mh EXCEPT ![c].pc = "save", ![c].copy.st = "failed"]
    /\ UNCHANGED <<queueVars, mailRows, sending>>

SaveMail(c) ==
    /\ Mailing(c, "save")
    /\ mail' = [mail EXCEPT ![mh[c].key] = mh[c].copy]
    /\ mh' = [mh EXCEPT ![c].pc = IF mh[c].copy.st = "failed" THEN "requeue" ELSE "ack"]
    /\ UNCHANGED <<queueVars, sent, asked, sending, faults>>

\* Mutant of FinishMail: a refused mail is acknowledged.
FinishMailAck(c) ==
    /\ mh[c].pc \in {"ack", "requeue"}
    /\ Ack(c)
    /\ mh' = [mh EXCEPT ![c] = IdleMailer]
    /\ UNCHANGED <<mailRows, sending, faults>>

FinishMail(c) ==
    /\ \/ Mailing(c, "ack") /\ Ack(c)
       \/ Mailing(c, "requeue") /\ Nack(c, mh[c].key)
    /\ mh' = [mh EXCEPT ![c] = IdleMailer]
    /\ UNCHANGED <<mailRows, sending, faults>>

\* The row cannot be read or stored: the handler returns the error.
MailerFails(c) ==
    /\ Fault
    /\ mh[c].pc \in {"send", "save"}
    /\ mh' = [mh EXCEPT ![c].pc = "requeue"]
    /\ UNCHANGED <<queueVars, mailRows, sending>>

MailerDisconnects(c) ==
    /\ Fault
    /\ Disconnect(c, mh[c].key)
    /\ UNCHANGED <<mailRows, sending, mh>>

MailerRestarts(c) ==
    /\ Reattach(c)
    /\ mh' = [mh EXCEPT ![c] = IdleMailer]
    /\ UNCHANGED <<mailRows, sending, faults>>
-----------------------------------------------------------------------------
MailInit ==
    /\ QueueInit
    /\ mail = [k \in Jobs |-> NoMail]
    /\ sending = [w \in Senders |-> NotSending]
    /\ mh = [c \in Consumers |-> IdleMailer]
    /\ sent = [k \in Jobs |-> 0]
    /\ asked = {}
    /\ faults = 0

EnqueueStep(w) ==
    \/ AlreadyEnqueued(w) \/ NotEnqueued(w) \/ CreateMail(w)
    \/ CreateRefused(w) \/ PublishMail(w)

MailStep(c) == MailAccepted(c) \/ SaveMail(c) \/ FinishMail(c)

MailTypeOK ==
    /\ QueueTypeOK
    /\ mail \in [Jobs -> Mail]
    /\ sending \in [Senders -> [pc : {"idle", "check", "create", "publish"},
                                key : Jobs \cup {NoJob}]]
    /\ mh \in [Consumers -> [pc : {"idle", "send", "save", "ack", "requeue"},
                             key : Jobs \cup {NoJob}, copy : Mail]]
    /\ sent \in [Jobs -> Nat]
    /\ asked \subseteq Jobs
    /\ faults \in Nat

Underway(k) ==
    \/ ready[k] > 0
    \/ \E w \in Senders : sending[w].key = k
    \/ \E c \in Consumers : mh[c].key = k

\* A mail reaches the customer once however many senders ask for it, each
\* fault can cost one more; a mail shown as delivered was accepted, and without
\* faults a sender is told "enqueued" only of a mail that is on its way or sent.
MailsBounded ==
    \A k \in Jobs : /\ sent[k] <= 1 + faults
                    /\ mail[k].st = "delivered" => sent[k] > 0
                    /\ faults = 0 /\ k \in asked => sent[k] > 0 \/ Underway(k)
=============================================================================
