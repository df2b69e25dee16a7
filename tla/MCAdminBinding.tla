--------------------------- MODULE MCAdminBinding ---------------------------
(* Small instances of AdminBinding for TLC. *)
EXTENDS AdminBinding, TLC

Symmetry == Permutations(Entries) \cup Permutations(Paths)
=============================================================================
