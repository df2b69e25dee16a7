------------------------------ MODULE GatedTask ------------------------------
(***************************************************************************)
(* What the task ledger promises those who act on a task, with no rows, no *)
(* revisions, no leases and no clock: a task moves along the edges of the  *)
(* policy, carries the gates it has passed on the commit and in the        *)
(* attempt it has, loses them when either changes, crosses a gated edge    *)
(* only on a report made where it stands, and is at a stage only with all  *)
(* the gates that stage requires.  WorkflowState is shown to implement     *)
(* this module.                                                            *)
(***************************************************************************)
EXTENDS Naturals

CONSTANTS
    Tasks,      \* task identifiers
    Heads,      \* Git object names
    Gates,      \* gate identifiers
    Limits,     \* the attempts a contract may allow
    Entries,    \* the stages a task may start from
    Moves,      \* Moves[stage]: the stages a task may move to
    Restarts,   \* the edges that begin a new attempt
    Pushes,     \* the edges that may bring another head
    GatedMoves, \* the edges that need a report
    Required    \* Required[stage]: the gated edges a task must have passed

VARIABLES
    place,     \* place[t]: the stage, commit and attempt of t, or Unknown
    passed,    \* passed[t]: the gated edges that count for t as it is
    reports    \* reports[t]: the gates that reported since t last moved

ledger == <<place, passed, reports>>

Unknown == [stage |-> "unknown"]

Init == /\ place = [t \in Tasks |-> Unknown]
        /\ passed = [t \in Tasks |-> {}]
        /\ reports = [t \in Tasks |-> {}]

Enter(t) ==
    /\ place[t] = Unknown
    /\ \E stage \in Entries, head \in Heads, limit \in Limits :
          place' = [place EXCEPT ![t] =
                      [stage |-> stage, head |-> head, attempt |-> 1, limit |-> limit]]
    /\ UNCHANGED <<passed, reports>>

\* A gate reports that the task passes it as it stands.
Report(t, gate) ==
    /\ place[t] # Unknown
    /\ reports' = [reports EXCEPT ![t] = @ \cup {gate}]
    /\ UNCHANGED <<place, passed>>

\* The gates that count after a move: another commit or attempt voids them.
PassedAfter(t, edge, head) ==
    (IF head = place[t].head /\ edge \notin Restarts THEN passed[t] ELSE {})
    \cup ({edge} \cap GatedMoves)

Advance(t, stage, head) ==
    LET edge == <<place[t].stage, stage>>
        attempt == IF edge \in Restarts THEN place[t].attempt + 1 ELSE place[t].attempt
    IN
    /\ head # place[t].head => edge \in Pushes
    /\ edge \in GatedMoves => reports[t] # {}
    /\ attempt <= place[t].limit
    /\ Required[stage] \subseteq PassedAfter(t, edge, head)
    /\ place' = [place EXCEPT ![t] = [stage |-> stage, head |-> head, attempt |-> attempt,
                                      limit |-> place[t].limit]]
    /\ passed' = [passed EXCEPT ![t] = PassedAfter(t, edge, head)]
    /\ reports' = [reports EXCEPT ![t] = {}]

Next ==
    \E t \in Tasks :
        \/ Enter(t)
        \/ \E gate \in Gates : Report(t, gate)
        \/ /\ place[t] # Unknown
           /\ \E stage \in Moves[place[t].stage], head \in Heads : Advance(t, stage, head)

Spec == Init /\ [][Next]_ledger
=============================================================================
