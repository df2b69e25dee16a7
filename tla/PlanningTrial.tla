----------------------------- MODULE PlanningTrial -----------------------------
(***************************************************************************)
(* run_planning_trial of planning_trial.py: the revision of the repository *)
(* is read, the backlog of the approved revision is loaded from its        *)
(* commit, a contained planner is run, and the revision is read again      *)
(* whatever became of it.                                                  *)
(***************************************************************************)
EXTENDS CodexPlanner

CONSTANTS
    Revisions,     \* the commits that HEAD may be at
    Base,          \* expected_base_sha
    BacklogSize    \* BacklogSize[r]: chunks in the backlog of revision r

ASSUME RevisionsAssumption == Base \in Revisions /\ BacklogSize \in [Revisions -> Nat]

VARIABLES
    trial,       \* where the trial is
    seen,        \* history: the revisions that were read
    size,        \* what git cat-file -s said
    blob,        \* the revision whose backlog git prints
    payload      \* chunks of it that were read

trialVars == <<trial, seen, size, blob, payload>>
vars == <<providerVars, trialVars>>

Init ==
    /\ NoPlanner
    /\ trial = "idle" /\ seen = {}
    /\ size = 0 /\ blob = Base /\ payload = 0

Go(from, to) == trial = from /\ trial' = to

Refuse == trial' = "refused" /\ UNCHANGED <<providerVars, seen, size, blob, payload>>

\* Anything that fails before the planner is run: the layout of the repository is
\* invalid, git fails or takes too long, the backlog is too large or no UTF-8.
Unavailable == trial \in {"idle", "sizing", "opening", "reading"} /\ Refuse

(***************************************************************************)
(* repository_snapshot, before.  HEAD may have moved at any time, and is   *)
(* looked at only here and at the end.                                     *)
(***************************************************************************)
LookBefore ==
    /\ trial = "idle"
    /\ \E head \in Revisions :
          /\ seen' = {head}
          /\ trial' = IF head = Base THEN "sizing" ELSE "refused"
    /\ UNCHANGED <<providerVars, size, blob, payload>>

\* Mutant of Approved: the backlog is that of the revision HEAD is at.
ApprovedHead == Revisions

\* The revisions that the object name of load_reviewed_backlog may stand for.
Approved == {Base}

\* git cat-file -s
AskSize ==
    /\ Go("sizing", "opening")
    /\ \E r \in Approved : size' = BacklogSize[r]
    /\ UNCHANGED <<providerVars, seen, blob, payload>>

\* git cat-file blob
OpenBlob ==
    /\ Go("opening", "reading")
    /\ \E r \in Approved : blob' = r
    /\ UNCHANGED <<providerVars, seen, size, payload>>

\* At most one chunk more than was announced is read.
ReadChunk ==
    /\ trial = "reading"
    /\ payload < BacklogSize[blob] /\ payload <= size
    /\ payload' = payload + 1
    /\ UNCHANGED <<providerVars, trial, seen, size, blob>>

\* git may end at any time, the planner is run on a payload of the size that was asked.
Loaded ==
    /\ Go("reading", "planning")
    /\ payload = size
    /\ UNCHANGED <<providerVars, seen, size, blob, payload>>

RunPlanner ==
    /\ trial = "planning" /\ Planning
    /\ UNCHANGED trialVars

\* The planner returned or raised.
LookAfter ==
    /\ trial = "planning" /\ planner = "returned"
    /\ \E head \in Revisions :
          /\ seen' = seen \cup {head}
          /\ trial' = IF head = Base /\ reply = "plan" THEN "recorded" ELSE "refused"
    /\ UNCHANGED <<providerVars, size, blob, payload>>

\* git fails.
LookAfterFails ==
    /\ trial = "planning" /\ planner = "returned"
    /\ Refuse

TrialStep ==
    \/ Unavailable \/ LookBefore \/ AskSize \/ OpenBlob \/ ReadChunk \/ Loaded
    \/ RunPlanner \/ LookAfter \/ LookAfterFails

(***************************************************************************)
(* The process of the controller dies.  The client and the unit, which     *)
(* have sessions of their own, go on; the threads and the local variables  *)
(* are gone.                                                               *)
(***************************************************************************)
Crash ==
    /\ trial \notin {"idle", "recorded", "refused", "crashed"}
    /\ trial' = "crashed"
    /\ Forget
    /\ step' = "idle" /\ outcome' = "none"
    /\ stage' = "idle" /\ pinned' = {} /\ unchecked' = {} /\ changed' = {}
    /\ result' = "none"
    /\ planner' = "idle" /\ reply' = "none"
    /\ Reject
    /\ UNCHANGED <<child, unit, launcher, streamVars, workdir, seen, size, blob, payload>>

\* The child, its helpers, the unit, other programs, and the threads.
Others ==
    /\ Around \/ (Threads /\ UNCHANGED runtimeVars)
    /\ UNCHANGED <<planVars, streamVars, plannerVars, trialVars>>

Next == TrialStep \/ Others \/ Crash

(***************************************************************************)
(* The controller takes its steps: the waits of the call have time limits. *)
(* Systemd takes the steps of the unit, the limit of its run time among    *)
(* them.  Nothing is assumed of the client, the commands and the threads.  *)
(***************************************************************************)
Fairness == WF_vars(TrialStep) /\ WF_vars(Systemd /\ UNCHANGED <<runtimeVars, planVars, streamVars, plannerVars, trialVars>>)

Spec == Init /\ [][Next]_vars
FairSpec == Spec /\ Fairness

-----------------------------------------------------------------------------
(* Correctness. *)

(***************************************************************************)
(* A record is about the approved revision: HEAD was there both times it   *)
(* was read, the whole backlog of that commit was given to the planner,    *)
(* and the plan was accepted after one whole turn of the provider.         *)
(***************************************************************************)
RecordIsAboutBase ==
    trial = "recorded" =>
        /\ seen = {Base}
        /\ blob = Base /\ payload = BacklogSize[Base]
        /\ verdict = "accepted"

\* What a plan is taken from is one whole turn of one thread.
PlanFromOneTurn == planner = "judging" \/ reply = "plan" => OneWholeTurn

\* A launcher lies where it was staged.
LauncherLeft == launcher \in {"staged", "unresolved"}

(***************************************************************************)
(* A trial that ends, in whatever way but by the death of its process, has *)
(* tried to remove the runtime and the launchers it staged, with a single  *)
(* exception: a launcher whose directory could not be resolved (line 609   *)
(* of review_runtime.py) stays behind.  Then the trial was refused, and no *)
(* unit is or will be there that runs from it.                             *)
(***************************************************************************)
NothingLeftBehind ==
    trial \in {"recorded", "refused"} =>
        /\ workdir # "made"
        /\ LauncherLeft =>
              /\ launcher = "unresolved"
              /\ trial = "refused"
              /\ Gone /\ "apart" \notin holders

(***************************************************************************)
(* A trial comes to an end, whatever its processes and threads do.         *)
(***************************************************************************)
TrialEnds == trial # "idle" ~> trial \in {"recorded", "refused", "crashed"}
=============================================================================
