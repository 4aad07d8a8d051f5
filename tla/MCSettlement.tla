---------------------------- MODULE MCSettlement ----------------------------
(* Instances of Settlement for TLC: ticks of six hours. *)
EXTENDS Settlement, TLC

CONSTANTS p1, p2, p3, t1, t2, i1, i2, w1, w2, c1, c2

\* A payment alone on its invoice, and a checkout and a debit of one invoice.
TwoTenants == p1 :> t1 @@ p2 :> t2 @@ p3 :> t2
TwoInvoices == p1 :> i1 @@ p2 :> i2 @@ p3 :> i2

\* Processes are alike, and so are calls; no property is a liveness property.
Alike == Permutations({w1, w2}) \cup Permutations({c1, c2})
=============================================================================
