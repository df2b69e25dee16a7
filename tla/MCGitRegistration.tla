-------------------------- MODULE MCGitRegistration --------------------------
(* Small instances of GitRegistration for TLC. *)
EXTENDS GitRegistration, TLC

Symmetry == Permutations(Callers) \cup Permutations(Processes)
=============================================================================
