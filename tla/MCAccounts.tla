----------------------------- MODULE MCAccounts -----------------------------
(* Instances of Accounts for TLC. *)
EXTENDS Accounts

\* "a_b", as a pattern, matches "axb" as well; nothing else matches another.
MCMatches(e, f) == e = f \/ (e = "a_b" /\ f = "axb")
=============================================================================
