----------------------------- MODULE CardExpiry -----------------------------
(***************************************************************************)
(* The row of a stored card: the job subscription-card-expirations         *)
(* (services/subscription_lifecycle.go), RemindCustomerCardExpiring        *)
(* (services/customer.go), DisablePaymentSource (services/portal.go) and   *)
(* the card update of payment_success (services/webhook.go).  All but the  *)
(* last store a copy of the whole row that they read without a lock.       *)
(***************************************************************************)
EXTENDS SubscriptionLifecycle

CONSTANTS
    Boundary,   \* for each card, numbered from 1, the tick it expires
    CardNotice  \* the 31 days of cardExpiresSoon, in ticks

Cards == DOMAIN Boundary

ASSUME CardAssumption ==
    /\ Boundary \in Seq(Nat) /\ Boundary # <<>>
    /\ CardNotice \in Nat

VARIABLES
    source,      \* the row of payment_sources
    ck,          \* where each job or call is, with its copy
    newest,      \* history: the last card the provider stored a token of
    disabled,    \* history: the customer disabled the source after that
    cardStale,   \* history: how often an out-of-date copy was stored
    cardNotices, \* history: subscription.card_expiring events for each card
    reminded     \* history: cards a reminder was asked for

cardVars == <<source, ck, newest, disabled, cardStale, cardNotices, reminded>>

SourceStatus == {"active", "inactive"}
Source == [card : Cards, status : SourceStatus, noticed : BOOLEAN]

IdleCard == [pc |-> "idle", copy |-> [card |-> 1, status |-> "active", noticed |-> FALSE],
             old |-> FALSE]

CardGoto(w, pc) == ck' = [ck EXCEPT ![w].pc = pc]

ReadSource(w, pc) == ck' = [ck EXCEPT ![w] = [pc |-> pc, copy |-> source, old |-> FALSE]]

\* Copies of the row are out of date from now on.
AgedSource(v) == IF ck[v].pc = "idle" THEN ck[v] ELSE [ck[v] EXCEPT !.old = TRUE]

SaveSource(w, r) ==
    /\ source' = r
    /\ cardStale' = IF ck[w].old THEN cardStale + 1 ELSE cardStale
    /\ ck' = [v \in Workers |-> IF v = w THEN IdleCard ELSE AgedSource(v)]
-----------------------------------------------------------------------------
(* ProcessCardExpirations *)

\* A run loads every card that was not noticed.
LoadExpiring(w) ==
    /\ ck[w].pc = "idle" /\ ~source.noticed
    /\ ReadSource(w, "check")
    /\ UNCHANGED <<source, newest, disabled, cardStale, cardNotices, reminded>>

ExpiresSoon(c) == Boundary[c] > now /\ Boundary[c] <= now + CardNotice

\* When the loop comes to a row it looks at the clock and at the copy.
CheckExpiring(w) ==
    /\ ck[w].pc = "check"
    /\ IF ExpiresSoon(ck[w].copy.card) THEN CardGoto(w, "notify")
       ELSE ck' = [ck EXCEPT ![w] = IdleCard]
    /\ UNCHANGED <<source, newest, disabled, cardStale, cardNotices, reminded>>

\* One event for each active subscription of the source; there may be none.
NotifyExpiring(w) ==
    /\ ck[w].pc = "notify"
    /\ \E n \in {0, 1} :
         cardNotices' = [cardNotices EXCEPT ![ck[w].copy.card] = @ + n]
    /\ CardGoto(w, "flag")
    /\ UNCHANGED <<source, newest, disabled, cardStale, reminded>>

FlagExpiring(w) ==
    /\ ck[w].pc = "flag"
    /\ SaveSource(w, [ck[w].copy EXCEPT !.noticed = TRUE])
    /\ UNCHANGED <<newest, disabled, cardNotices, reminded>>
-----------------------------------------------------------------------------
(* Calls and the webhook *)

RemindRead(w) ==
    /\ ck[w].pc = "idle" /\ calls < MaxCalls
    /\ ReadSource(w, "remind")
    /\ UNCHANGED <<source, newest, disabled, cardStale, cardNotices, reminded>>

\* The mail has one key for all the reminders of a source.
RemindMail(w) ==
    /\ ck[w].pc = "remind"
    /\ reminded' = reminded \cup {ck[w].copy.card}
    /\ CardGoto(w, "flag")
    /\ UNCHANGED <<source, newest, disabled, cardStale, cardNotices>>

DisableRead(w) ==
    /\ ck[w].pc = "idle" /\ calls < MaxCalls
    /\ source.status = "active"
    /\ ReadSource(w, "disable")
    /\ UNCHANGED <<source, newest, disabled, cardStale, cardNotices, reminded>>

DisableCommit(w) ==
    /\ ck[w].pc = "disable"
    /\ SaveSource(w, [ck[w].copy EXCEPT !.status = "inactive"])
    /\ disabled' = TRUE
    /\ UNCHANGED <<newest, cardNotices, reminded>>

\* Mutants of WithCard: a disabled source stays so; it is the card after c.
WithCardKept(c) == [source EXCEPT !.card = c, !.noticed = FALSE]
WithCardNext(c) == [card |-> c + 1, status |-> "active", noticed |-> FALSE]

\* The source with a new card c.
WithCard(c) == [card |-> c, status |-> "active", noticed |-> FALSE]

\* payment_success of an order to update the card; the row is locked.
CardUpdated ==
    /\ newest + 1 \in Cards
    /\ newest' = newest + 1
    /\ source' = WithCard(newest')
    /\ ck' = [v \in Workers |-> AgedSource(v)]
    /\ disabled' = FALSE
    /\ UNCHANGED <<cardStale, cardNotices, reminded>>

\* The store of a row fails and the loop goes on, or a call or process ends.
CardFails(w) ==
    /\ Fault
    /\ ck[w].pc # "idle"
    /\ ck' = [ck EXCEPT ![w] = IdleCard]
    /\ UNCHANGED <<source, newest, disabled, cardStale, cardNotices, reminded>>
-----------------------------------------------------------------------------
CardInit ==
    /\ source = [card |-> 1, status |-> "active", noticed |-> FALSE]
    /\ ck = [w \in Workers |-> IdleCard]
    /\ newest = 1 /\ disabled = FALSE
    /\ cardStale = 0
    /\ cardNotices = [c \in Cards |-> 0]
    /\ reminded = {}

CardJob(w) ==
    LoadExpiring(w) \/ CheckExpiring(w) \/ NotifyExpiring(w) \/ FlagExpiring(w)

\* A step that is neither a fault nor the start of a call.
CardStep ==
    \/ \E w \in TrialJobs : CardJob(w)
    \/ \E w \in Callers : RemindMail(w) \/ FlagExpiring(w) \/ DisableCommit(w)
    \/ CardUpdated

CardCall == \E w \in Callers : RemindRead(w) \/ DisableRead(w)

CardFault == \E w \in Workers : CardFails(w)

CardTypeOK ==
    /\ source \in Source
    /\ ck \in [Workers -> [pc : {"idle", "check", "notify", "flag", "remind", "disable"},
                           copy : Source, old : BOOLEAN]]
    /\ newest \in Cards /\ disabled \in BOOLEAN
    /\ cardStale \in Nat
    /\ cardNotices \in [Cards -> Nat]
    /\ reminded \subseteq Cards

\* Jobs that have loaded card c and not stored the flag.
Noticing(c) == {w \in TrialJobs : ck[w].pc \in {"notify", "flag"} /\ ck[w].copy.card = c}

\* Only a store of an out-of-date copy brings an old card back, undoes or
\* forgets that the customer disabled it, or repeats the notice of a card
\* (a failed store of the flag repeats it too).
CardKept ==
    /\ cardStale = 0 =>
         /\ source.card = newest
         /\ (source.status = "inactive") = disabled
    /\ \A c \in Cards :
         cardNotices[c] <= 1 + cardStale + faults + Cardinality(Noticing(c))
=============================================================================
