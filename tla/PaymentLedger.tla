--------------------------- MODULE PaymentLedger ---------------------------
(***************************************************************************)
(* What the billing system promises about money, without invoices, jobs,   *)
(* webhooks or copies: a payment is taken by the provider before it counts *)
(* for anything, it is credited to the subscription at most once and       *)
(* settled to the merchant at most once, and the subscription is never     *)
(* further than the payments credited to it.                               *)
(***************************************************************************)
EXTENDS Integers, FiniteSets

CONSTANT Payments

VARIABLES
    taken,       \* payments whose money the provider took
    credits,     \* how often a payment was credited to the subscription
    settlements, \* how often a payment was settled to the merchant
    cycle        \* the billing cycle of the subscription

ledger == <<taken, credits, settlements, cycle>>

Credited == {p \in Payments : credits[p] > 0}

Init ==
    /\ taken = {}
    /\ credits = [p \in Payments |-> 0]
    /\ settlements = [p \in Payments |-> 0]
    /\ cycle = 0

Take(p) ==
    /\ p \notin taken
    /\ taken' = taken \cup {p}
    /\ UNCHANGED <<credits, settlements, cycle>>

\* The subscription row is stored: from a copy, so the cycle may also fall.
Store ==
    /\ cycle' \in 0 .. Cardinality(Credited)
    /\ UNCHANGED <<taken, credits, settlements>>

Settle(p) ==
    /\ p \in taken
    /\ settlements[p] = 0
    /\ settlements' = [settlements EXCEPT ![p] = 1]

SettleOnly(p) == Settle(p) /\ UNCHANGED <<taken, credits, cycle>>

\* The merchant is owed the payment from before, from now on, or never.
Credit(p) ==
    /\ p \in taken
    /\ credits[p] = 0
    /\ credits' = [credits EXCEPT ![p] = 1]
    /\ cycle' \in 0 .. Cardinality(Credited) + 1
    /\ Settle(p) \/ UNCHANGED settlements
    /\ UNCHANGED taken

Next == Store \/ \E p \in Payments : Take(p) \/ SettleOnly(p) \/ Credit(p)

Spec == Init /\ [][Next]_ledger
=============================================================================
