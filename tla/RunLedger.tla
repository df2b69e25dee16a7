------------------------------ MODULE RunLedger ------------------------------
(***************************************************************************)
(* The durable run ledger of td_controller/state.py: admission of provider *)
(* runs under a concurrency limit, a daily budget and a reserve for review *)
(* and remediation.  A reservation is a row with status RUNNING; nothing   *)
(* but finish ever ends it.  Each operation is one SQLite transaction,     *)
(* except that the day of a run is read before its transaction starts.     *)
(***************************************************************************)
EXTENDS Integers, FiniteSets

CONSTANTS
    RunIds,          \* the uuids of the runs
    Days,            \* calendar days
    MaxConcurrent,   \* limits.max_concurrent_runs
    MaxPerDay,       \* limits.max_runs_per_day
    ReservePercent   \* limits.review_reserve_percent

ASSUME RunIdAssumption == IsFiniteSet(RunIds)
ASSUME LimitAssumption ==
    MaxConcurrent \in Nat /\ MaxPerDay \in Nat /\ ReservePercent \in 0 .. 100

VARIABLE runs   \* runs[r]: the row of run r, or NoRun

ReviewRoles == {"code_review", "security_review", "qa_review", "remediation"}
RunRoles == ReviewRoles \cup {"implementation", "planning"}

NoRun == [status |-> "NONE"]
RunRows == [role : RunRoles, status : {"RUNNING", "SUCCEEDED", "FAILED"}, day : Days]

Running == {r \in RunIds : runs[r].status = "RUNNING"}
StartedOn(day) == {r \in RunIds : runs[r] # NoRun /\ runs[r].day = day}
NonReviewOn(day) == {r \in StartedOn(day) : runs[r].role \notin ReviewRoles}

\* math.ceil(max_runs_per_day * review_reserve_percent / 100)
Reserved == (MaxPerDay * ReservePercent + 99) \div 100
NonReviewLimit == MaxPerDay - Reserved

LedgerInit == runs = [r \in RunIds |-> NoRun]

\* Mutant of Admissible: a failed run gives its place of the day back.
AdmissibleForgiving(role, day) ==
    LET started == {r \in StartedOn(day) : runs[r].status # "FAILED"}
    IN  /\ Cardinality(Running) < MaxConcurrent
        /\ Cardinality(started) < MaxPerDay
        /\ role \notin ReviewRoles => Cardinality(NonReviewOn(day)) < NonReviewLimit

\* The admission controls, checked inside the transaction.
Admissible(role, day) ==
    /\ Cardinality(Running) < MaxConcurrent
    /\ Cardinality(StartedOn(day)) < MaxPerDay
    /\ role \notin ReviewRoles => Cardinality(NonReviewOn(day)) < NonReviewLimit

\* reserve, for a run whose started_at was read on this day.
Reserve(r, role, day) ==
    /\ runs[r] = NoRun
    /\ Admissible(role, day)
    /\ runs' = [runs EXCEPT ![r] = [role |-> role, status |-> "RUNNING", day |-> day]]

\* finish: the run must still be RUNNING (otherwise KeyError).
Finish(r, status) ==
    /\ runs[r].status = "RUNNING"
    /\ runs' = [runs EXCEPT ![r].status = status]

LedgerNext ==
    \E r \in RunIds :
       \/ \E role \in RunRoles, day \in Days : Reserve(r, role, day)
       \/ \E status \in {"SUCCEEDED", "FAILED"} : Finish(r, status)

LedgerSpec == LedgerInit /\ [][LedgerNext]_runs

-----------------------------------------------------------------------------
(* Correctness. *)

(***************************************************************************)
(* The columns of the runs table.                                          *)
(***************************************************************************)
RunsTypeOK == runs \in [RunIds -> RunRows \cup {NoRun}]

(***************************************************************************)
(* The hard limits hold at all times, whatever controllers race for the    *)
(* last slot and whenever midnight falls: so many runs at once, so many a  *)
(* day, failed ones included, and the share of the day kept for review and *)
(* remediation is never spent on anything else.                            *)
(***************************************************************************)
ConcurrencyLimit == Cardinality(Running) <= MaxConcurrent
DailyBudget == \A day \in Days : Cardinality(StartedOn(day)) <= MaxPerDay
ReviewReserve == \A day \in Days : Cardinality(NonReviewOn(day)) <= NonReviewLimit

WithinLimits == ConcurrencyLimit /\ DailyBudget /\ ReviewReserve

(***************************************************************************)
(* A run is finished exactly once and its record is kept: it never goes    *)
(* back to RUNNING, changes its outcome, its role or its day.              *)
(***************************************************************************)
RunKept(r) == /\ runs[r] # NoRun =>
                    /\ runs'[r] # NoRun
                    /\ runs'[r].role = runs[r].role
                    /\ runs'[r].day = runs[r].day
              /\ runs[r].status \in {"SUCCEEDED", "FAILED"} => runs'[r] = runs[r]
FinishedOnce == [][\A r \in RunIds : RunKept(r)]_runs
=============================================================================
