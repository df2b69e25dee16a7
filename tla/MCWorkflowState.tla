--------------------------- MODULE MCWorkflowState ---------------------------
(* Small instances of WorkflowState for TLC. *)
EXTENDS WorkflowState, TLC

CONSTANTS o1, o2, p2, l1, l2, t1, b1

OneController == p2 :> o2

(***************************************************************************)
(* One task, from a state the lease ledger reaches by one acquisition: l1  *)
(* is in force until instant 1.  It may end at any moment; while the task  *)
(* is young, the other controller takes the task over with l2.             *)
(***************************************************************************)
HeldLease ==
    /\ lease = [id \in LeaseIds |->
                  IF id = l1
                  THEN [task |-> t1, branch |-> b1, owner |-> o1, state |-> "ACTIVE",
                        acquired_at |-> 0, heartbeat_at |-> 0, expires_at |-> 1,
                        released_at |-> NoTime]
                  ELSE NoLease]
    /\ clock = 0
    /\ call = [c \in Controllers |-> NoTime]

TermEnds == clock = 0 /\ Tick

\* Bound: the last revision at which the task changes hands.
LastTakeOver == 4

TakeOver(c) ==
    /\ clock = 1
    /\ \A t \in Tasks : Len(history[t]) \in 1 .. LastTakeOver
    /\ \/ ReadClock(c)
       \/ Acquire(c, l2, t1, b1, 1)

LifeInit == HeldLease /\ StateInit

LifeNext ==
    \/ \E t \in Tasks : StateCall(t)
    \/ TermEnds /\ UNCHANGED stateVars
    \/ \E c \in Controllers : TakeOver(c) /\ UNCHANGED stateVars

LifeSpec == LifeInit /\ [][LifeNext]_vars

\* One failure state and one end stand for those with the same edges.
MainTargets == TaskStates \ {"BLOCKED_REQUIREMENTS", "BLOCKED_DEPENDENCY", "SUPERSEDED"}

\* The states whose exit may need evidence.
Gated == {edge[1] : edge \in EvidenceGateTransitions}

\* The states of a task that is never interrupted before its review is passed.
ReviewLoop == {"QUEUED", "LEASED", "IMPLEMENTING", "VERIFYING", "PR_DRAFT", "REVIEWING",
               "REMEDIATING", "CI_PENDING", "FAILED_RETRYABLE"}

Symmetry == Permutations(EvidenceIds) \cup Permutations(Heads)
=============================================================================
