----------------------------- MODULE PlanContract -----------------------------
(***************************************************************************)
(* parse_plan of plan_contract.py: the tasks of a proposed plan, their     *)
(* dependencies, the search for cycles and the parallel groups.  What only *)
(* concerns one field, its type, length or wording, may reject a plan at   *)
(* any time and is not modelled otherwise.                                 *)
(*                                                                         *)
(* The search is the recursion of _reject_cycles with its stack written    *)
(* out.  Parts of the plan are chosen when the code first looks at them.   *)
(***************************************************************************)
EXTENDS PathClaims, FiniteSets

CONSTANTS
    TaskIds,    \* the ids of tasks
    Known,      \* known_task_ids
    Proposals,  \* the dependencies a plan may have
    Claims,     \* the sets of path claims a task may have
    Paths       \* bound: the concrete paths that the properties look at

ASSUME ProposalsAssumption ==
    \A d \in Proposals :
        /\ DOMAIN d \subseteq TaskIds /\ IsFiniteSet(DOMAIN d)
        /\ d \in [DOMAIN d -> SUBSET TaskIds]

ASSUME ClaimsAssumption ==
    /\ \A allowed \in Claims : allowed \subseteq Seq(Parts)
    /\ Paths \subseteq Seq(Parts)

VARIABLES
    verdict,    \* "none", "searching", "grouping", "accepted", "rejected"
    deps,       \* deps[t]: depends_on of task t in the plan
    visited,    \* tasks of which all dependencies are visited
    stack,      \* the calls of visit
    todo,       \* todo[t]: dependencies within the plan still to be visited for t
    claims,     \* claims[t]: allowed_paths of task t
    groups      \* parallel_groups

planVars == <<verdict, deps, visited, stack, todo, claims, groups>>

Tasks == DOMAIN deps
None == [t \in {} |-> {}]

NoPlan ==
    /\ verdict = "none"
    /\ deps = None /\ todo = None /\ claims = None
    /\ visited = {} /\ stack = <<>> /\ groups = {}

Reject ==
    /\ verdict' = "rejected"
    /\ deps' = None /\ todo' = None /\ claims' = None
    /\ visited' = {} /\ stack' = <<>> /\ groups' = {}

\* The tasks and their dependencies as far as parse_task and parse_plan look
\* at them one by one.
Sound(d) ==
    /\ DOMAIN d # {}
    /\ DOMAIN d \cap Known = {}
    /\ \A t \in DOMAIN d : t \notin d[t] /\ d[t] \subseteq DOMAIN d \cup Known

Parse ==
    /\ verdict = "none"
    /\ \E d \in Proposals :
          /\ Sound(d)
          /\ deps' = d
          /\ todo' = [t \in DOMAIN d |-> d[t] \cap DOMAIN d]
    /\ verdict' = "searching"
    /\ UNCHANGED <<visited, stack, claims, groups>>

-----------------------------------------------------------------------------
(* _reject_cycles *)

Top == stack[Len(stack)]

\* The loop over the tasks of the plan, which returns at once from a visited one.
Visit(t) ==
    /\ verdict = "searching" /\ stack = <<>>
    /\ t \in Tasks \ visited
    /\ stack' = <<t>>
    /\ UNCHANGED <<verdict, deps, visited, todo, claims, groups>>

\* The loop over the dependencies of the task on top.
VisitDependency(t) ==
    /\ verdict = "searching" /\ stack # <<>>
    /\ t \in todo[Top] \ (visited \cup Range(stack))
    /\ stack' = Append(stack, t)
    /\ UNCHANGED <<verdict, deps, visited, todo, claims, groups>>

\* The call returns, or t had been visited before.
Advance(t) ==
    /\ verdict = "searching" /\ stack # <<>>
    /\ t \in todo[Top] \cap visited
    /\ todo' = [todo EXCEPT ![Top] = @ \ {t}]
    /\ UNCHANGED <<verdict, deps, visited, stack, claims, groups>>

\* A task that is being visited is a dependency again.
Cycle ==
    /\ verdict = "searching" /\ stack # <<>>
    /\ todo[Top] \cap Range(stack) # {}
    /\ Reject

\* Mutant of Leave: a task counts as visited before its dependencies are.
LeaveEarly ==
    /\ verdict = "searching" /\ stack # <<>>
    /\ visited' = visited \cup {Top}
    /\ stack' = Front(stack)
    /\ UNCHANGED <<verdict, deps, todo, claims, groups>>

Leave ==
    /\ verdict = "searching" /\ stack # <<>>
    /\ todo[Top] = {}
    /\ visited' = visited \cup {Top}
    /\ stack' = Front(stack)
    /\ UNCHANGED <<verdict, deps, todo, claims, groups>>

\* The claims and the groups come into view.
Searched ==
    /\ verdict = "searching" /\ stack = <<>> /\ visited = Tasks
    /\ verdict' = "grouping"
    /\ claims' \in [Tasks -> {allowed \in Claims : ClaimsAccepted(allowed)}]
    /\ groups' \in SUBSET {g \in SUBSET Tasks : Cardinality(g) > 1}
    /\ UNCHANGED <<deps, visited, stack, todo>>

-----------------------------------------------------------------------------
(* _parallel_groups *)

\* Mutant of Reachable: only what a task names itself.
Named(plan, t) == plan[t] \cap DOMAIN plan

\* _reachable_dependencies: what is new after n rounds was pending before.
Reachable(plan, t) ==
    LET within(u) == plan[u] \cap DOMAIN plan
        reached[n \in 0 .. Cardinality(DOMAIN plan)] ==
            IF n = 0 THEN within(t)
            ELSE reached[n - 1] \cup UNION {within(u) : u \in reached[n - 1]}
    IN  reached[Cardinality(DOMAIN plan)]

Separate(left, right) ==
    /\ right \notin Reachable(deps, left) /\ left \notin Reachable(deps, right)
    /\ \A p \in claims[left], q \in claims[right] : ~ClaimsOverlap(p, q)

GroupsFit ==
    /\ \A g, h \in groups : g # h => g \cap h = {}
    /\ \A g \in groups : \A left, right \in g : left # right => Separate(left, right)

Accept ==
    /\ verdict = "grouping" /\ GroupsFit
    /\ verdict' = "accepted"
    /\ UNCHANGED <<deps, visited, stack, todo, claims, groups>>

\* A check of one field fails, or one that has been modelled.
Invalid == verdict \in {"none", "grouping"} /\ Reject

PlanStep ==
    \/ Parse \/ Cycle \/ Leave \/ Searched \/ Accept \/ Invalid
    \/ \E t \in Tasks : Visit(t) \/ VisitDependency(t) \/ Advance(t)

-----------------------------------------------------------------------------
(* Correctness. *)

\* The parts of a plan belong to its tasks, and the search stays within it.
PlanTypeOK ==
    /\ verdict \in {"none", "searching", "grouping", "accepted", "rejected"}
    /\ deps \in [Tasks -> SUBSET TaskIds] /\ Tasks \subseteq TaskIds
    /\ visited \subseteq Tasks
    /\ stack \in Seq(Tasks)
    /\ todo \in [Tasks -> SUBSET Tasks]
    /\ claims \in [DOMAIN claims -> Claims] /\ DOMAIN claims \subseteq Tasks
    /\ groups \subseteq SUBSET Tasks

(***************************************************************************)
(* The tasks of a set, each of which waits for another of them, never      *)
(* start.  An accepted plan has no such set: whatever is done first, there *)
(* is a next task of which every dependency within the plan is done, and   *)
(* every other one is known.                                               *)
(***************************************************************************)
AcceptedPlanCanRun ==
    verdict = "accepted" =>
        /\ \A t \in Tasks : deps[t] \subseteq Tasks \cup Known
        /\ \A S \in SUBSET Tasks :
              (\A t \in S : deps[t] \cap S # {}) => S = {}

\* From left, following dependencies, one never comes to right.
Unreachable(left, right) ==
    \E C \in SUBSET Tasks :
        /\ left \in C /\ right \notin C
        /\ \A t \in C : deps[t] \cap Tasks \subseteq C

(***************************************************************************)
(* Tasks that an accepted plan runs in parallel do not wait for each other *)
(* through any chain of tasks, and no path may be changed by both.         *)
(***************************************************************************)
ParallelWorkIsApart ==
    verdict = "accepted" =>
        \A g \in groups : \A left, right \in g :
            left # right =>
                /\ Unreachable(left, right)
                /\ \A path \in Paths :
                      ~(PathAllowed(claims[left], path) /\ PathAllowed(claims[right], path))
=============================================================================
