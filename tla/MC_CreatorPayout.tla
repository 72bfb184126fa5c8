-------------------------- MODULE MC_CreatorPayout --------------------------
(* Small instances of CreatorPayout for TLC. *)
EXTENDS CreatorPayout, TLC

\* Calls are alike, and so are deliveries.
Symmetry == Permutations(Calls) \cup Permutations(Deliveries)
=============================================================================
