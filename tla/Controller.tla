------------------------------ MODULE Controller ------------------------------
(***************************************************************************)
(* Controller.run of td_controller/controller.py: processes that take one  *)
(* provider run each through the pause switch (pause.py), the run ledger   *)
(* and the provider, with an operator who pauses and resumes at any time.  *)
(*                                                                         *)
(* The switch is a file: status() looks once whether it exists.  If the    *)
(* file goes away before its reason is read, status() raises instead of    *)
(* reporting a pause; run then ends the same way, so both are one step.    *)
(***************************************************************************)
EXTENDS RunLedger

CONSTANTS
    Processes,   \* controller processes, one call of run at a time each
    Roles,       \* input bound: the roles asked for
    Sessions     \* the session identities a provider may report

ASSUME RoleAssumption == Roles \subseteq RunRoles
ASSUME DayAssumption == Days \subseteq Nat

VARIABLES
    paused,        \* the pause file exists
    today,         \* the current day
    job,           \* job[p]: where p is in run, and its local variables
    lost,          \* history: runs whose process died or could not finish them
    pausedSince    \* history: processes that have been paused since they reserved

controlVars == <<paused, today, job, lost, pausedSince>>
controllerVars == <<runs, controlVars>>

NoSession == "none"   \* no, or a blank, session identity
NoDay == -1
NoId == "none"

Steps == {"idle", "unpaused", "dated", "reserved", "cleared", "calling",
          "closing", "returned", "raised"}
Jobs == [step : Steps, role : RunRoles \cup {NoId}, run : RunIds \cup {NoId},
         day : Days \cup {NoDay}, outcome : {"SUCCEEDED", "FAILED"},
         session : Sessions \cup {NoSession}]

Idle == [step |-> "idle", role |-> NoId, run |-> NoId, day |-> NoDay,
         outcome |-> "FAILED", session |-> NoSession]

\* The steps during which a process is responsible for its run.
Owning == {"reserved", "cleared", "calling", "closing"}
Owners(r) == {p \in Processes : job[p].step \in Owning /\ job[p].run = r}

ControllerInit ==
    /\ LedgerInit
    /\ paused = FALSE
    /\ today \in Days
    /\ job = [p \in Processes |-> Idle]
    /\ lost = {}
    /\ pausedSince = {}

Goto(p, step) == job' = [job EXCEPT ![p].step = step]

\* run raises: what it knew but the role it was called with is gone.
Raise(p) ==
    job' = [job EXCEPT ![p] = [Idle EXCEPT !.step = "raised", !.role = job[p].role]]

\* The first pause check of a new call.
Launch(p, role) ==
    /\ job' = [job EXCEPT ![p] =
                 [Idle EXCEPT !.role = role,
                              !.step = IF paused THEN "raised" ELSE "unpaused"]]
    /\ UNCHANGED <<runs, paused, today, lost, pausedSince>>

StartRun(p, role) == job[p].step = "idle" /\ Launch(p, role)

\* reserve reads the clock before it opens its transaction.
ReadDay(p) ==
    /\ job[p].step = "unpaused"
    /\ job' = [job EXCEPT ![p].step = "dated", ![p].day = today]
    /\ UNCHANGED <<runs, paused, today, lost, pausedSince>>

ReserveRun(p, r) ==
    /\ job[p].step = "dated"
    /\ Reserve(r, job[p].role, job[p].day)
    /\ job' = [job EXCEPT ![p].step = "reserved", ![p].run = r]
    /\ pausedSince' = IF paused THEN pausedSince \cup {p} ELSE pausedSince \ {p}
    /\ UNCHANGED <<paused, today, lost>>

\* Mutant of RefuseRun: the row is inserted first and not rolled back.
RefuseRunInserting(p) ==
    /\ job[p].step = "dated"
    /\ \E r \in RunIds :
          /\ runs[r] = NoRun
          /\ runs' = [runs EXCEPT ![r] = [role |-> job[p].role, status |-> "RUNNING",
                                          day |-> job[p].day]]
    /\ Goto(p, "raised")
    /\ UNCHANGED <<paused, today, lost, pausedSince>>

\* A limit rejects the run, or the database stays busy: AdmissionError.
RefuseRun(p) ==
    /\ job[p].step = "dated"
    /\ Raise(p)
    /\ UNCHANGED <<runs, paused, today, lost, pausedSince>>

\* Mutants of CheckAgain: no second check; a second check before the try; a
\* pause that closes the row itself, before the handler closes it again.
CheckOnce(p) ==
    /\ job[p].step = "reserved"
    /\ Goto(p, "cleared")
    /\ UNCHANGED <<runs, paused, today, lost, pausedSince>>

CheckOutsideTry(p) ==
    /\ job[p].step = "reserved"
    /\ Goto(p, IF paused THEN "raised" ELSE "cleared")
    /\ UNCHANGED <<runs, paused, today, lost, pausedSince>>

CheckAgainClosing(p) ==
    /\ job[p].step = "reserved"
    /\ IF paused THEN Finish(job[p].run, "FAILED") /\ Goto(p, "closing")
                 ELSE Goto(p, "cleared") /\ UNCHANGED runs
    /\ UNCHANGED <<paused, today, lost, pausedSince>>

\* The second pause check; from here on a failure closes the run as FAILED.
CheckAgain(p) ==
    /\ job[p].step = "reserved"
    /\ Goto(p, IF paused THEN "closing" ELSE "cleared")
    /\ UNCHANGED <<runs, paused, today, lost, pausedSince>>

CallProvider(p) ==
    /\ job[p].step = "cleared"
    /\ Goto(p, "calling")
    /\ UNCHANGED <<runs, paused, today, lost, pausedSince>>

ProviderReturns(p, session) ==
    /\ job[p].step = "calling"
    /\ job' = [job EXCEPT ![p].step = "closing", ![p].outcome = "SUCCEEDED",
                          ![p].session = session]
    /\ UNCHANGED <<runs, paused, today, lost, pausedSince>>

ProviderRaises(p) ==
    /\ job[p].step = "calling"
    /\ Goto(p, "closing")
    /\ UNCHANGED <<runs, paused, today, lost, pausedSince>>

FinishRun(p) ==
    /\ job[p].step = "closing"
    /\ Finish(job[p].run, job[p].outcome)
    /\ IF job[p].outcome = "SUCCEEDED" THEN Goto(p, "returned") ELSE Raise(p)
    /\ UNCHANGED <<paused, today, lost, pausedSince>>

\* The database stays busy: finish raises and the row is still RUNNING.
FinishFails(p) ==
    /\ job[p].step = "closing"
    /\ Raise(p)
    /\ lost' = lost \cup {job[p].run}
    /\ UNCHANGED <<runs, paused, today, pausedSince>>

\* The caller of run takes its result or its exception.
Collect(p) ==
    /\ job[p].step \in {"returned", "raised"}
    /\ job' = [job EXCEPT ![p] = Idle]
    /\ UNCHANGED <<runs, paused, today, lost, pausedSince>>

(***************************************************************************)
(* The process dies, or an exception that is no Exception (an interrupt)   *)
(* leaves run without closing the row.                                     *)
(***************************************************************************)
Crash(p) ==
    /\ job[p].step # "idle"
    /\ job' = [job EXCEPT ![p] = Idle]
    /\ lost' = IF job[p].step \in Owning THEN lost \cup {job[p].run} ELSE lost
    /\ UNCHANGED <<runs, paused, today, pausedSince>>

Pause == /\ paused' = TRUE
         /\ UNCHANGED <<runs, today, job, lost, pausedSince>>

Resume == /\ paused' = FALSE
          /\ pausedSince' = {}
          /\ UNCHANGED <<runs, today, job, lost>>

Midnight == /\ today + 1 \in Days
            /\ today' = today + 1
            /\ UNCHANGED <<runs, paused, job, lost, pausedSince>>

\* A step of run after its start.
Proceed(p) ==
    \/ ReadDay(p)
    \/ \E r \in RunIds : ReserveRun(p, r)
    \/ RefuseRun(p)
    \/ CheckAgain(p)
    \/ CallProvider(p)
    \/ \E session \in Sessions \cup {NoSession} : ProviderReturns(p, session)
    \/ ProviderRaises(p)
    \/ FinishRun(p)
    \/ FinishFails(p)

Operator == Pause \/ Resume

ControllerNext ==
    \/ \E p \in Processes : \/ \E role \in Roles : StartRun(p, role)
                            \/ Proceed(p)
                            \/ Collect(p)
                            \/ Crash(p)
    \/ Operator
    \/ Midnight

ControllerSpec == ControllerInit /\ [][ControllerNext]_controllerVars

(***************************************************************************)
(* Fairness: a process that is not killed executes its next statement (a   *)
(* provider call ends, because its subprocess is killed at a timeout).     *)
(* Nothing is assumed of the operator, of crashes or of new calls.         *)
(***************************************************************************)
ControllerFairness ==
    \A p \in Processes : WF_controllerVars(Proceed(p)) /\ WF_controllerVars(Collect(p))

FairControllerSpec == ControllerSpec /\ ControllerFairness

-----------------------------------------------------------------------------
(* Correctness. *)

(***************************************************************************)
(* The local variables of run, the switch, and the history variables.      *)
(***************************************************************************)
ControllerTypeOK ==
    /\ RunsTypeOK
    /\ paused \in BOOLEAN
    /\ today \in Days
    /\ job \in [Processes -> Jobs]
    /\ lost \subseteq RunIds
    /\ pausedSince \subseteq Processes

(***************************************************************************)
(* A process between its reservation and its finish owns one RUNNING row   *)
(* that no other process works on: finish can never meet a run that is not *)
(* active, and there are never more provider calls than the limit allows.  *)
(***************************************************************************)
OwnersHoldReservations ==
    /\ \A p \in Processes : job[p].step \in Owning =>
          /\ runs[job[p].run].status = "RUNNING"
          /\ runs[job[p].run].role = job[p].role
          /\ Owners(job[p].run) = {p}
    /\ Cardinality({p \in Processes : job[p].step = "calling"}) <= MaxConcurrent

(***************************************************************************)
(* A reservation is only ever left behind by a process that died or could  *)
(* not write its end: every other way out of run, the pause found after    *)
(* admission and a failing provider included, closes the row.              *)
(***************************************************************************)
NoReservationLeaks ==
    \A r \in RunIds : runs[r].status = "RUNNING" => r \in lost \/ Owners(r) # {}

(***************************************************************************)
(* A pause that is on when a run is reserved, and stays on, keeps the      *)
(* provider from being called for that run.                                *)
(***************************************************************************)
PauseStopsReservedRuns ==
    [][\A p \in Processes :
          job[p].step # "calling" /\ job'[p].step = "calling" =>
              p \notin pausedSince]_controllerVars

(***************************************************************************)
(* Controllers reach the ledger only through reserve and finish: however   *)
(* they interleave, crash or fail, the table behaves as the run ledger     *)
(* promises.                                                               *)
(***************************************************************************)
ImplementsLedger == LedgerSpec

(***************************************************************************)
(* Every reservation whose process survives is closed in the end.          *)
(***************************************************************************)
EveryRunEnds ==
    \A r \in RunIds :
        runs[r].status = "RUNNING" ~> runs[r].status # "RUNNING" \/ r \in lost

(***************************************************************************)
(* What AGENT_CAPACITY_POLICY.md says of a controller that died: stale     *)
(* reservations expire safely.                                             *)
(***************************************************************************)
StaleReservationsExpire ==
    \A r \in RunIds : r \in lost ~> runs[r].status # "RUNNING"
=============================================================================
