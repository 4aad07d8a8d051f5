------------------------------ MODULE MCEdges ------------------------------
(* Instances of Edges for TLC. *)
EXTENDS Edges, TLC

\* Fees of half a unit and of one and a half: 5% of 10 and of 30.
MCPlanOf == ("monthly" :> [interval |-> "monthly", amount |-> 10])
              @@ ("yearly" :> [interval |-> "yearly", amount |-> 30])

\* The report is for the day that has the ticks 2 and 3.
MCPeriod == <<1, 1>>

\* Customers are alike.
MCSymmetry == Permutations(Buyers)
=============================================================================
