----------------------------- MODULE MCCatalog -----------------------------
(* Instances of Catalog for TLC. *)
EXTENDS Catalog

\* The first card expires at tick 2, the second at tick 3.
MCBoundary == <<2, 3>>
=============================================================================
