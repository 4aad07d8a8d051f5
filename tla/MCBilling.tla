----------------------------- MODULE MCBilling -----------------------------
(* Instances of Billing for TLC: the scenario constants a cfg cannot write. *)
EXTENDS Billing
=============================================================================
