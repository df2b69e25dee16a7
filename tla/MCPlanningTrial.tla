--------------------------- MODULE MCPlanningTrial ---------------------------
(* A small instance: two streams of a chunk each and a limit of one, two     *)
(* files, two revisions, and plans of up to three tasks.                     *)
EXTENDS PlanningTrial

TwoTasks == {"t1", "t2"}
ThreeTasks == {"t1", "t2", "t3"}
Ids == ThreeTasks \cup {"known", "ghost"}

\* Every graph on two tasks, a known and an unknown one, every graph on three
\* tasks, and a plan that proposes the known task again.
AllProposals ==
    [TwoTasks -> SUBSET {"t1", "t2", "known", "ghost"}]
        \cup [ThreeTasks -> SUBSET ThreeTasks]
        \cup [{"known"} -> {{}}]

Names == {"app", "doc"}
StarAndPart == [p \in {"*", "a*"} |-> IF p = "*" THEN Names ELSE {"app"}]
NamesAndPatterns == Names \cup {"src", "docs", "policy", "**"} \cup DOMAIN StarAndPart
Policy == {<<"policy", "**">>}

SomeClaims ==
    {{<<"src", "*", "doc">>}, {<<"src", "app", "**">>}, {<<"docs", "a*">>}, {<<"policy", "*">>}}

ShortPaths ==
    {<<"src", x>> : x \in Names} \cup {<<"src", x, y>> : x, y \in Names}
        \cup {<<"docs", x>> : x \in Names}

Sizes == [r \in Revisions |-> IF r = Base THEN 2 ELSE 1]
=============================================================================
