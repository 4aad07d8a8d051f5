---------------------------- MODULE MessageQueue ----------------------------
(***************************************************************************)
(* queue/: one durable RabbitMQ queue and the consumers attached to it,    *)
(* one per API process.  A consumer handles one message at a time, acks it *)
(* when the handler returns nil and requeues it otherwise; the broker      *)
(* requeues what a lost connection leaves unacknowledged.  The queue is a  *)
(* bag: a requeued message may overtake others.                            *)
(***************************************************************************)
EXTENDS Naturals, FiniteSets

CONSTANTS
    Jobs,      \* what a message names: a row to deliver
    Consumers, \* API processes that consume the queue
    NoJob      \* no message

ASSUME QueueAssumption == NoJob \notin Jobs

VARIABLES
    ready,     \* how many messages for each job wait in the queue
    unacked,   \* consumers whose message the broker has not seen the end of
    consuming  \* consumers the broker still sends messages to

queueVars == <<ready, unacked, consuming>>

QueueInit ==
    /\ ready = [j \in Jobs |-> 0]
    /\ unacked = {}
    /\ consuming = Consumers

QueueTypeOK ==
    /\ ready \in [Jobs -> Nat]
    /\ unacked \subseteq Consumers
    /\ consuming \subseteq Consumers

Publish(j) ==
    /\ ready' = [ready EXCEPT ![j] = @ + 1]
    /\ UNCHANGED <<unacked, consuming>>

Take(c, j) ==
    /\ c \in consuming
    /\ ready[j] > 0
    /\ ready' = [ready EXCEPT ![j] = @ - 1]
    /\ unacked' = unacked \cup {c}
    /\ UNCHANGED consuming

\* Acknowledging on a connection that is gone fails, and the error is ignored.
Ack(c) ==
    /\ unacked' = unacked \ {c}
    /\ UNCHANGED <<ready, consuming>>

Requeued(c, j) == IF c \in unacked THEN [ready EXCEPT ![j] = @ + 1] ELSE ready

Nack(c, j) ==
    /\ ready' = Requeued(c, j)
    /\ unacked' = unacked \ {c}
    /\ UNCHANGED consuming

\* The connection of c is lost: its loop over the deliveries of the closed
\* channel ends.  reconnectLoop opens a new channel, on which nobody consumes.
Disconnect(c, j) ==
    /\ c \in consuming
    /\ consuming' = consuming \ {c}
    /\ ready' = Requeued(c, j)
    /\ unacked' = unacked \ {c}

\* The process starts again: consumers are registered on a new connection.
Reattach(c) ==
    /\ c \notin consuming
    /\ consuming' = consuming \cup {c}
    /\ UNCHANGED <<ready, unacked>>
=============================================================================
