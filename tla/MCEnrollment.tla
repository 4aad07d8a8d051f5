---------------------------- MODULE MCEnrollment ----------------------------
(* Instances of Enrollment for TLC: a scaled back-off, in which every level  *)
(* is reached before a mandate is too old.                                   *)
EXTENDS Enrollment

MCBackoff == <<[below |-> 2, wait |-> 0], [below |-> 3, wait |-> 1]>>
=============================================================================
