---------------------------- MODULE WorkflowState ----------------------------
(***************************************************************************)
(* The task-state ledger of td_controller/workflow_state.py, in the same   *)
(* database as the leases of TaskLease, whose rows it reads.               *)
(*                                                                         *)
(* A caller first reads a task, decides, and calls later: its arguments    *)
(* expected_state, expected_revision and expected_head_sha are those of    *)
(* the revision e it read, which may be an old one.  Evidence and          *)
(* transitions read the clock inside their transactions.  register reads   *)
(* it before, and the clock may be set back in between: its instant is any *)
(* one.  A call that is refused changes nothing: it is a stuttering step.  *)
(***************************************************************************)
EXTENDS TaskLease, Sequences, FiniteSets

CONSTANTS
    Heads,         \* Git object names
    Gates,         \* gate identifiers
    EvidenceIds,   \* identifiers of gate evidence
    AttemptLimits, \* the max_attempts of the task contracts
    Targets,         \* input bound: the states callers ask for
    RecordingStates, \* input bound: the states in which gates report results
    MaxRevision      \* bound: the last revision of a task

ASSUME AttemptAssumption == AttemptLimits \subseteq Nat \ {0}
ASSUME RevisionAssumption == MaxRevision \in Nat

VARIABLES
    task,      \* task[t]: the row of t in task_states, or NoTask
    history,   \* history[t]: the events of t in task_transitions, in order
    evidence   \* evidence[v]: the row of v in gate_evidence, or NoEvidence

stateVars == <<task, history, evidence>>
vars == <<leaseVars, stateVars>>

-----------------------------------------------------------------------------
(* The transition policy. *)

NormalTransitions ==
    { <<"APPROVED", "QUEUED">>, <<"QUEUED", "LEASED">>,
      <<"LEASED", "IMPLEMENTING">>, <<"IMPLEMENTING", "VERIFYING">>,
      <<"VERIFYING", "PR_DRAFT">>, <<"PR_DRAFT", "REVIEWING">>,
      <<"REVIEWING", "REMEDIATING">>, <<"REVIEWING", "CI_PENDING">>,
      <<"REMEDIATING", "VERIFYING">>,
      <<"CI_PENDING", "READY_FOR_POLICY_MERGE">>,
      <<"READY_FOR_POLICY_MERGE", "AUTO_MERGE_PENDING">>,
      <<"AUTO_MERGE_PENDING", "MERGED">>, <<"MERGED", "DONE">>,
      <<"FAILED_RETRYABLE", "QUEUED">> }

FailureStates == {"BLOCKED_REQUIREMENTS", "BLOCKED_DEPENDENCY",
                  "FAILED_RETRYABLE", "QUARANTINED"}
InterruptionStates == FailureStates \cup {"CANCELLED", "SUPERSEDED"}

InterruptibleStates == {edge[1] : edge \in NormalTransitions} \ {"MERGED"}

TerminalStates == {"DONE", "CANCELLED", "SUPERSEDED"} \cup
                  (FailureStates \ {"FAILED_RETRYABLE"})

TaskStates == {edge[1] : edge \in NormalTransitions} \cup TerminalStates

HeadChangeTransitions == {<<"IMPLEMENTING", "VERIFYING">>, <<"REMEDIATING", "VERIFYING">>}

EvidenceGateTransitions == {<<"VERIFYING", "PR_DRAFT">>, <<"REVIEWING", "CI_PENDING">>,
                            <<"CI_PENDING", "READY_FOR_POLICY_MERGE">>}

\* The states a task may move to.
Allowed(prior) ==
    ({new \in TaskStates : <<prior, new>> \in NormalTransitions} \cup
     (IF prior \in InterruptibleStates THEN InterruptionStates ELSE {}))
    \ {prior}

\* The result a transition must report.
ResultOf(new) == IF new \in FailureStates THEN "FAIL"
                 ELSE IF new \in {"CANCELLED", "SUPERSEDED"} THEN "NONE" ELSE "PASS"

Retrying(prior, new) == prior = "FAILED_RETRYABLE" /\ new = "QUEUED"

\* Mutant of NextAttempt: a retry is not counted.
SameAttempt(row, new) == row.attempt

\* Only a retry starts a new attempt.
NextAttempt(row, new) == IF Retrying(row.state, new) THEN row.attempt + 1 ELSE row.attempt

-----------------------------------------------------------------------------
(* The rows. *)

NoTask == [state |-> "NONE"]
TaskRows == [state : TaskStates, revision : Nat, attempt : Nat,
             max_attempts : AttemptLimits, base : Heads, head : Heads,
             updated_at : Times]

Events == [prior : TaskStates \cup {"NONE"}, new : TaskStates, attempt : Nat,
           head : Heads, gate : Gates, result : {"PASS", "FAIL", "NONE"},
           artifacts : SUBSET EvidenceIds]

NoEvidence == [result |-> "NONE"]
EvidenceRows == [task : Tasks, attempt : Nat, revision : Nat, gate : Gates,
                 head : Heads, result : {"PASS", "FAIL"}]

Registered(t) == task[t] # NoTask

StateInit ==
    /\ task = [t \in Tasks |-> NoTask]
    /\ history = [t \in Tasks |-> << >>]
    /\ evidence = [v \in EvidenceIds |-> NoEvidence]

\* The statuses of a contract that may enter the ledger.
DispatchableStates == {"APPROVED", "QUEUED"}

\* register: an approved or queued contract enters the ledger once.
Register(t, status, limit, base, gate, instant) ==
    /\ ~Registered(t)
    /\ task' = [task EXCEPT ![t] =
                  [state |-> status, revision |-> 1, attempt |-> 1,
                   max_attempts |-> limit, base |-> base, head |-> base,
                   updated_at |-> instant]]
    /\ history' = [history EXCEPT ![t] =
                     <<[prior |-> "NONE", new |-> status, attempt |-> 1,
                        head |-> base, gate |-> gate, result |-> "PASS",
                        artifacts |-> {}]>>]
    /\ UNCHANGED <<leaseVars, evidence>>

\* Mutant of AuthoritativeLease: the state of the row is believed, not its term.
UnsweptLease(id, t) == Active(id) /\ lease[id].task = t

\* A lease of the task that is active and whose term is not over right now.
\* Nothing compares its owner with the caller: knowing the lease is enough.
AuthoritativeLease(id, t) ==
    Active(id) /\ lease[id].task = t /\ lease[id].expires_at > clock

\* Mutant of Current: the compare-and-swap compares heads only.
SameHead(t, e) == task[t].head = history[t][e].head

\* The revision e the caller read is the current one.
Current(t, e) == /\ task[t].state = history[t][e].new
                 /\ task[t].revision = e
                 /\ task[t].head = history[t][e].head

\* record_evidence: one immutable gate result for the current revision.
RecordEvidence(t, id, e) ==
    /\ Registered(t) /\ AuthoritativeLease(id, t)
    /\ task[t].revision = e
    /\ task[t].head = history[t][e].head
    /\ task[t].attempt = history[t][e].attempt
    /\ task[t].state \in RecordingStates
    /\ \E v \in EvidenceIds, gate \in Gates, result \in {"PASS", "FAIL"} :
          /\ evidence[v] = NoEvidence
          /\ evidence' = [evidence EXCEPT ![v] =
                            [task |-> t, attempt |-> history[t][e].attempt,
                             revision |-> e, gate |-> gate,
                             head |-> history[t][e].head, result |-> result]]
    /\ UNCHANGED <<leaseVars, task, history>>

\* Mutant of EvidenceAuthorized: evidence of any revision.
EvidenceOfAnyRevision(t, e, attempt, gate, artifacts) ==
    /\ artifacts # {}
    /\ \A v \in artifacts :
          /\ evidence[v] # NoEvidence
          /\ evidence[v].task = t /\ evidence[v].attempt = attempt
          /\ evidence[v].gate = gate /\ evidence[v].head = history[t][e].head
          /\ evidence[v].result = "PASS"

\* Every cited record passed this gate on this very revision and head.
EvidenceAuthorized(t, e, attempt, gate, artifacts) ==
    /\ artifacts # {}
    /\ \A v \in artifacts :
          evidence[v] = [task |-> t, attempt |-> attempt, revision |-> e,
                         gate |-> gate, head |-> history[t][e].head,
                         result |-> "PASS"]

\* Evidence is required on a gated edge and refused on every other one.
EvidencePolicy(t, e, new, attempt, gate, artifacts) ==
    IF <<history[t][e].new, new>> \in EvidenceGateTransitions
    THEN EvidenceAuthorized(t, e, attempt, gate, artifacts)
    ELSE artifacts = {}

\* Mutant of HeadPolicy: commits may be pushed at any time.
AnyHead(t, e, new, head) == TRUE

HeadPolicy(t, e, new, head) ==
    head # history[t][e].head => <<history[t][e].new, new>> \in HeadChangeTransitions

\* The update of the row and the event appended with it.
Move(t, e, new, attempt, head, gate, artifacts) ==
    /\ task' = [task EXCEPT ![t].state = new,
                            ![t].revision = task[t].revision + 1,
                            ![t].attempt = attempt,
                            ![t].head = head,
                            ![t].updated_at = clock]
    /\ history' = [history EXCEPT ![t] = Append(@,
                     [prior |-> history[t][e].new, new |-> new, attempt |-> attempt,
                      head |-> head, gate |-> gate, result |-> ResultOf(new),
                      artifacts |-> artifacts])]

\* A transition is not dated before the change it follows.
TimeMovesOn(t) == task[t].updated_at <= clock

(***************************************************************************)
(* transition.  The attempt and the result the caller passes are accepted  *)
(* for one value only, so they are not inputs here.                        *)
(***************************************************************************)
Transition(t, id, e) ==
    /\ Registered(t) /\ AuthoritativeLease(id, t)
    /\ Current(t, e)
    /\ TimeMovesOn(t)
    /\ \E new \in Allowed(history[t][e].new) \cap Targets :
          LET attempt == NextAttempt(task[t], new) IN
          /\ attempt \in 1 .. task[t].max_attempts
          /\ \E head \in Heads :
                /\ HeadPolicy(t, e, new, head)
                /\ \E gate \in Gates, artifacts \in SUBSET EvidenceIds :
                      /\ EvidencePolicy(t, e, new, attempt, gate, artifacts)
                      /\ Move(t, e, new, attempt, head, gate, artifacts)
    /\ UNCHANGED <<leaseVars, evidence>>

\* Bound: the history of a task is no longer than this.
RoomFor(t) == Len(history[t]) < MaxRevision

StateCall(t) ==
    \/ \E status \in DispatchableStates, limit \in AttemptLimits,
          base \in Heads, gate \in Gates, instant \in Times :
             Register(t, status, limit, base, gate, instant)
    \/ \E id \in LeaseIds, e \in 1 .. Len(history[t]) :
          \/ RecordEvidence(t, id, e)
          \/ RoomFor(t) /\ Transition(t, id, e)

Init == LeaseInit /\ StateInit

Next == \/ LeaseNext /\ UNCHANGED stateVars
        \/ \E t \in Tasks : StateCall(t)

Spec == Init /\ [][Next]_vars

-----------------------------------------------------------------------------
(* Correctness. *)

(***************************************************************************)
(* The columns of the three tables, beside the leases.                     *)
(***************************************************************************)
TypeOK ==
    /\ LeaseTypeOK
    /\ task \in [Tasks -> TaskRows \cup {NoTask}]
    /\ history \in [Tasks -> Seq(Events)]
    /\ evidence \in [EvidenceIds -> EvidenceRows \cup {NoEvidence}]

Edge(event) == <<event.prior, event.new>>
Last(t) == history[t][Len(history[t])]

(***************************************************************************)
(* The append-only history replays to the current row: as many events as   *)
(* revisions, each event starting where the one before it ended, the last  *)
(* one describing the row.  A caller that acted on a stale revision would  *)
(* break the chain.                                                        *)
(***************************************************************************)
HistoryReplays ==
    \A t \in Tasks :
        IF Registered(t)
        THEN /\ Len(history[t]) = task[t].revision
             /\ history[t] # << >>
             /\ history[t][1].prior = "NONE"
             /\ \A i \in 2 .. Len(history[t]) : history[t][i].prior = history[t][i - 1].new
             /\ Last(t).new = task[t].state
             /\ Last(t).head = task[t].head
             /\ Last(t).attempt = task[t].attempt
        ELSE history[t] = << >>

(***************************************************************************)
(* Every passage of a gated edge cites records that passed that very gate  *)
(* on the revision, head and attempt the task had when it passed, and the  *)
(* records still say so: evidence cannot be replayed after a remediation,  *)
(* fabricated, or rewritten afterwards.                                    *)
(***************************************************************************)
GatedByEvidence ==
    \A t \in Tasks : \A i \in 2 .. Len(history[t]) :
        Edge(history[t][i]) \in EvidenceGateTransitions =>
            /\ history[t][i].artifacts # {}
            /\ \A v \in history[t][i].artifacts :
                  evidence[v] = [task |-> t, attempt |-> history[t][i].attempt,
                                 revision |-> i - 1, gate |-> history[t][i].gate,
                                 head |-> history[t][i - 1].head, result |-> "PASS"]

(***************************************************************************)
(* What is merged is what was verified, reviewed and tested: when a task   *)
(* is at or past a gate, the gated edge was passed on the head and in the  *)
(* attempt the task has now, and neither changed since.                    *)
(***************************************************************************)
PastCI == {"READY_FOR_POLICY_MERGE", "AUTO_MERGE_PENDING", "MERGED", "DONE"}
PastReview == PastCI \cup {"CI_PENDING"}
PastVerification == PastReview \cup {"PR_DRAFT", "REVIEWING"}

PassedOnThisHead(t, edge) ==
    \E i \in 2 .. Len(history[t]) :
        /\ Edge(history[t][i]) = edge
        /\ \A j \in i - 1 .. Len(history[t]) : /\ history[t][j].head = task[t].head
                                              /\ history[t][j].attempt = task[t].attempt

MergedHeadWasGated ==
    \A t \in Tasks :
        /\ task[t].state \in PastVerification => PassedOnThisHead(t, <<"VERIFYING", "PR_DRAFT">>)
        /\ task[t].state \in PastReview => PassedOnThisHead(t, <<"REVIEWING", "CI_PENDING">>)
        /\ task[t].state \in PastCI =>
              PassedOnThisHead(t, <<"CI_PENDING", "READY_FOR_POLICY_MERGE">>)

(***************************************************************************)
(* The attempt of a task is one more than the retries in its history, and  *)
(* never passes the limit of its contract.                                 *)
(***************************************************************************)
Retries(t) == {i \in 2 .. Len(history[t]) : Edge(history[t][i]) = <<"FAILED_RETRYABLE", "QUEUED">>}

AttemptsCounted ==
    \A t \in Tasks : Registered(t) =>
        /\ task[t].attempt = 1 + Cardinality(Retries(t))
        /\ task[t].attempt <= task[t].max_attempts

(***************************************************************************)
(* What docs/ENGINEERING_QUALITY_POLICY.md says of the loop between review *)
(* and remediation: at most two remediation rounds are allowed.            *)
(***************************************************************************)
Remediations(t) == {i \in 2 .. Len(history[t]) : Edge(history[t][i]) = <<"REVIEWING", "REMEDIATING">>}

RemediationRoundsBounded == \A t \in Tasks : Cardinality(Remediations(t)) <= 2

(***************************************************************************)
(* A task or its evidence changes only under the one lease that is in      *)
(* force for it at that moment: a controller whose lease expired, even if  *)
(* nobody swept the row yet, changes nothing.                              *)
(***************************************************************************)
InForce(t) == {id \in LeaseIds : /\ lease[id].state = "ACTIVE"
                                 /\ lease[id].task = t
                                 /\ clock < lease[id].expires_at}

EvidenceOf(t) == {v \in EvidenceIds : evidence[v] # NoEvidence /\ evidence[v].task = t}

ChangesUnderLease ==
    [][\A t \in Tasks :
          (Registered(t) /\ task'[t] # task[t]) \/ EvidenceOf(t)' # EvidenceOf(t) =>
              Cardinality(InForce(t)) = 1]_vars

(***************************************************************************)
(* The three tables implement GatedTask.  A task carries the gated edges   *)
(* in its history that were passed on its head and attempt, and the gates  *)
(* with a record that passed at its current revision: that is, whatever    *)
(* revision a caller had read, an action takes effect on the task as it    *)
(* is, and evidence of an earlier commit, attempt or revision is worth     *)
(* nothing.                                                                *)
(***************************************************************************)
ReportsOf(t) ==
    IF Registered(t)
    THEN {gate \in Gates : \E v \in EvidenceIds :
            evidence[v] = [task |-> t, attempt |-> task[t].attempt,
                           revision |-> task[t].revision, gate |-> gate,
                           head |-> task[t].head, result |-> "PASS"]}
    ELSE {}

PassedOf(t) == {edge \in EvidenceGateTransitions : PassedOnThisHead(t, edge)}

Place(t) ==
    IF Registered(t)
    THEN [stage |-> task[t].state, head |-> task[t].head,
          attempt |-> task[t].attempt, limit |-> task[t].max_attempts]
    ELSE [stage |-> "unknown"]

RequiredGates ==
    [state \in TaskStates |->
        {edge \in EvidenceGateTransitions :
            \/ edge[1] = "VERIFYING" /\ state \in PastVerification
            \/ edge[1] = "REVIEWING" /\ state \in PastReview
            \/ edge[1] = "CI_PENDING" /\ state \in PastCI}]

Policy == [state \in TaskStates |-> Allowed(state)]

Promise == INSTANCE GatedTask WITH
    place <- [t \in Tasks |-> Place(t)],
    passed <- [t \in Tasks |-> PassedOf(t)],
    reports <- [t \in Tasks |-> ReportsOf(t)],
    Limits <- AttemptLimits,
    Entries <- DispatchableStates,
    Moves <- Policy,
    Restarts <- {<<"FAILED_RETRYABLE", "QUEUED">>},
    Pushes <- HeadChangeTransitions,
    GatedMoves <- EvidenceGateTransitions,
    Required <- RequiredGates

ImplementsGatedTask == Promise!Spec
=============================================================================
