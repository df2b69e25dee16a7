----------------------------- MODULE CodexPlanner -----------------------------
(***************************************************************************)
(* CodexPlannerProvider.run of codex_planner.py: the pinned runtime is     *)
(* attested and run in contained units, and what it printed is parsed, as  *)
(* an event stream and then as a plan.                                     *)
(***************************************************************************)
EXTENDS AttestedRuntime, PlanContract, EventStream

VARIABLES
    planner,   \* where the run is
    workdir,   \* its TemporaryDirectory: "none", "made", "removed" (or tried to)
    reply      \* its result

plannerVars == <<planner, workdir, reply>>
providerVars == <<attestedVars, planVars, streamVars, plannerVars>>

NoPlanner ==
    /\ NoRuntime /\ NoPlan /\ NoStream
    /\ planner = "idle" /\ workdir = "none" /\ reply = "none"

PlannerFails == planner' = "returned" /\ reply' = "failed"

\* A prompt that is too large, or a directory that cannot be made.
RefusePlanner ==
    /\ planner = "idle" /\ PlannerFails
    /\ UNCHANGED <<attestedVars, planVars, streamVars, workdir>>

StartPlanner ==
    /\ planner = "idle" /\ planner' = "executing"
    /\ workdir' = "made"
    /\ UNCHANGED <<attestedVars, planVars, streamVars, reply>>

Execute ==
    /\ planner = "executing" /\ Attesting
    /\ UNCHANGED <<planVars, streamVars, plannerVars>>

\* The directory is removed whether the runtime was run or not; the output of a
\* command that succeeded without a word on stderr is parsed.
LeaveDirectory ==
    /\ planner = "executing" /\ stage = "returned"
    /\ \/ /\ result = "output"
          /\ workdir' = "removed"
          /\ planner' = "streaming" /\ UNCHANGED reply
       \/ workdir' = "removed" /\ PlannerFails
    /\ UNCHANGED <<attestedVars, planVars, streamVars>>

ReadEvent ==
    /\ planner = "streaming" /\ Event
    /\ UNCHANGED <<attestedVars, planVars, plannerVars>>

EndOfStream ==
    /\ planner = "streaming" /\ StreamEnds
    /\ planner' = "judging"
    /\ UNCHANGED <<attestedVars, planVars, streamVars, workdir, reply>>

\* Anything else in the stream, or a message that is no plan at all.
InvalidOutput ==
    /\ planner = "streaming" /\ PlannerFails
    /\ UNCHANGED <<attestedVars, planVars, streamVars, workdir>>

JudgePlan ==
    /\ planner = "judging" /\ PlanStep
    /\ UNCHANGED <<attestedVars, streamVars, plannerVars>>

PlanAccepted ==
    /\ planner = "judging" /\ verdict = "accepted"
    /\ planner' = "returned" /\ reply' = "plan"
    /\ UNCHANGED <<attestedVars, planVars, streamVars, workdir>>

PlanRejected ==
    /\ planner = "judging" /\ verdict = "rejected" /\ PlannerFails
    /\ UNCHANGED <<attestedVars, planVars, streamVars, workdir>>

Planning ==
    \/ RefusePlanner \/ StartPlanner \/ Execute \/ LeaveDirectory \/ ReadEvent
    \/ EndOfStream \/ InvalidOutput \/ JudgePlan \/ PlanAccepted \/ PlanRejected
=============================================================================
