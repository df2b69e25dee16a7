-------------------------- MODULE MCTextReplacement --------------------------
(* A small instance of TextReplacement for TLC. *)
EXTENDS TextReplacement, TLC

Symmetry == Permutations(Callers) \cup Permutations(Files)
=============================================================================
