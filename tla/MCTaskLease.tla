---------------------------- MODULE MCTaskLease ----------------------------
(* Small instances of TaskLease for TLC. *)
EXTENDS TaskLease, TLC

CONSTANTS p1, p2, o1, o2

\* Two processes with different identities.
DistinctOwners == (p1 :> o1) @@ (p2 :> o2)
=============================================================================
