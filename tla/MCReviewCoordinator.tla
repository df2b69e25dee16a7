------------------------- MODULE MCReviewCoordinator -------------------------
(***************************************************************************)
(* A small instance of ReviewCoordinator for TLC.  A third run is one more *)
(* than a day allows and two more than may run at once, so that the limits *)
(* and not the number of ids stop a reservation.                           *)
(***************************************************************************)
EXTENDS ReviewCoordinator

CONSTANTS
    implementer,   \* the session of the implementation run
    s2, s3,        \* two other sessions
    r1, r2, r3     \* the runs

ImplementerExcluded == {{implementer}}

(***************************************************************************)
(* One representative of behaviours that differ by a renaming: the modules *)
(* treat unused run ids alike, so they are used in one order; nobody looks *)
(* at the session of a plain run, so it reports none; and a coordinator    *)
(* compares s2 and s3 only with its own sessions, so that its first fresh  *)
(* one is s2.  Whoever can take a step still can take one like it, so that *)
(* fairness asks for the same, which a symmetry set does not ensure.       *)
(***************************************************************************)
Used == {r \in RunIds : runs[r] # NoRun}

Representative ==
    /\ Used \in {{}, {r1}, {r1, r2}, {r1, r2, r3}}
    /\ \A p \in Processes :
          /\ Stage(p) = "none" => job[p].session = NoSession
          /\ Stage(p) = "code" => job[p].session # s3

RepresentativeNext == ReviewNext /\ Representative'

RepresentativeSpec == ReviewInit /\ [][RepresentativeNext]_allVars /\ ReviewFairness
=============================================================================
