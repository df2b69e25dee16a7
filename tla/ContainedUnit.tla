---------------------------- MODULE ContainedUnit ----------------------------
(***************************************************************************)
(* SystemdCgroupExecutor of review_runtime.py: one command in a transient  *)
(* unit of the user's systemd.  The child of the bounded process below is  *)
(* the systemd-run client; the processes of the unit hold its pipes in a   *)
(* session apart.  Whatever becomes of the client, the caller stops and    *)
(* kills the unit, looks whether it is gone and removes the staged         *)
(* launcher; one exit, before the unit is asked for, leaves the launcher.  *)
(* Systemd handles the requests in the order they were sent.               *)
(***************************************************************************)
EXTENDS BoundedProcess

VARIABLES
    unit,       \* the transient unit
    launcher,   \* its staging directory: "none", "staged", "removed" (or tried to),
                \* or "unresolved": staged, and given up before the try that removes it
    step,       \* where the call is
    outcome     \* its result, as far as it is known

unitVars == <<unit, launcher, step, outcome>>
containedVars == <<processVars, unitVars>>

At(from, to) == step = from /\ step' = to

NoCall ==
    /\ Quiet
    /\ unit = "none" /\ launcher = "none"
    /\ step = "idle" /\ outcome = "none"

-----------------------------------------------------------------------------
(* The unit.  As long as it has processes, or its request is on its way, its *)
(* pipes are held "apart".                                                   *)

\* The client hands its pipes over.
RequestUnit ==
    /\ child = "running" /\ unit = "none"
    /\ unit' = "requested"
    /\ holders' = holders \cup {"apart"}
    /\ UNCHANGED <<child, written, threads, caller, launcher, step, outcome>>

StartUnit ==
    /\ unit = "requested"
    /\ unit' = "active"
    /\ UNCHANGED <<processVars, launcher, step, outcome>>

RefuseUnit ==
    /\ unit = "requested"
    /\ unit' = "dead"
    /\ holders' = holders \ {"apart"}
    /\ UNCHANGED <<child, written, threads, caller, launcher, step, outcome>>

\* Its command ends.
UnitEnds ==
    /\ unit = "active"
    /\ unit' = "stopping"
    /\ UNCHANGED <<processVars, launcher, step, outcome>>

\* RuntimeMaxSec; its mutant has no such limit.
NoRuntimeLimit == FALSE
RuntimeLimit == TRUE

UnitTimesOut == RuntimeLimit /\ UnitEnds

\* KillMode=control-group, SendSIGKILL, FinalKillSignal, TimeoutStopSec: a process
\* that no signal interrupts may outlive its unit.
Deactivated ==
    /\ unit = "stopping"
    /\ unit' = "dead"
    /\ holders' \in {holders, holders \ {"apart"}}
    /\ UNCHANGED <<child, written, threads, caller, launcher, step, outcome>>

LeftoverEnds ==
    /\ unit = "dead" /\ HolderEnds("apart")
    /\ UNCHANGED unitVars

Systemd == StartUnit \/ RefuseUnit \/ UnitTimesOut \/ Deactivated

\* The client and its helpers, and the writers of the pipes.
Outside ==
    \/ RequestUnit \/ Systemd \/ UnitEnds \/ LeftoverEnds
    \/ /\ End \/ Fork("group") \/ HolderEnds("group") \/ \E s \in Streams : Write(s)
       /\ UNCHANGED unitVars

-----------------------------------------------------------------------------
(* run. *)

\* _stage_clean_environment_launcher; when it fails it removes what it made.
StageLauncher ==
    /\ At("idle", "staged")
    /\ launcher' = "staged"
    /\ UNCHANGED <<processVars, unit, outcome>>

\* That, or anything before it, fails.
StageFails ==
    /\ At("idle", "returned")
    /\ launcher' \in {launcher, "removed"}
    /\ outcome' = "failed"
    /\ UNCHANGED <<processVars, unit>>

(***************************************************************************)
(* The path of the staging directory cannot be resolved any more: another  *)
(* program moved it, or the file system fails.  _systemd_property_path     *)
(* raises between the staging and the try that would remove the launcher.  *)
(***************************************************************************)
RootUnresolved ==
    /\ At("staged", "returned")
    /\ launcher' = "unresolved"
    /\ outcome' = "failed"
    /\ UNCHANGED <<processVars, unit>>

\* Mutant of Overlaps: the launcher stays.
OverlapsLeaking ==
    /\ At("staged", "returned")
    /\ outcome' = "failed"
    /\ UNCHANGED <<processVars, unit, launcher>>

\* The staging directory and a containment path overlap.
Overlaps ==
    /\ At("staged", "returned")
    /\ launcher' = "removed"
    /\ outcome' = "failed"
    /\ UNCHANGED <<processVars, unit>>

\* The staged launcher is no longer the pinned one.
LauncherChanged ==
    /\ At("staged", "stop")
    /\ outcome' = "failed"
    /\ UNCHANGED <<processVars, unit, launcher>>

\* The name of the unit is new.
Delegate ==
    /\ At("staged", "running")
    /\ Begin \/ BeginFails
    /\ unit' = "none"
    /\ UNCHANGED <<launcher, outcome>>

\* Mutant of Collect: a failed client ends the call.
CollectFailing ==
    /\ step = "running" /\ main = "answered"
    /\ step' = IF answer = "output" THEN "stop" ELSE "clean"
    /\ outcome' = answer
    /\ UNCHANGED <<processVars, unit, launcher>>

Collect ==
    /\ At("running", "stop") /\ main = "answered"
    /\ outcome' = answer
    /\ UNCHANGED <<processVars, unit, launcher>>

(***************************************************************************)
(* _kill_transient_unit.  Each systemctl command has five seconds; whether *)
(* its request was served is not looked at.                                *)
(***************************************************************************)
Stop ==
    /\ At("stop", "kill")
    /\ unit' \in IF unit \in {"requested", "active"} THEN {"stopping", unit} ELSE {unit}
    /\ UNCHANGED <<processVars, launcher, outcome>>

Kill ==
    /\ At("kill", "verify")
    /\ unit' \in IF unit \in {"requested", "active"} THEN {"stopping", unit} ELSE {unit}
    /\ UNCHANGED <<processVars, launcher, outcome>>

Gone == unit \in {"none", "dead"}

\* _verify_transient_unit.  A unit that is gone stays so, hence the two readings,
\* of its state and of the events of its control group, are one step.
Verify ==
    /\ At("verify", "reset") /\ Gone /\ "apart" \notin holders
    /\ UNCHANGED <<processVars, unit, launcher, outcome>>

\* It is not gone, or systemctl fails, hangs or makes no sense.
CleanupFails ==
    /\ step \in {"stop", "kill", "verify", "reset"} /\ step' = "clean"
    /\ outcome' = "uncontained"
    /\ UNCHANGED <<processVars, unit, launcher>>

ResetFailed ==
    /\ At("reset", "clean")
    /\ UNCHANGED <<processVars, unit, launcher, outcome>>

\* The pipes and the local variables are gone when the call returns.
Forget ==
    /\ holders' = holders \ {"group"}
    /\ written' = [s \in Streams |-> 0]
    /\ taken' = [s \in Streams |-> 0]
    /\ hand' = [s \in Streams |-> 0]
    /\ kept' = [s \in Streams |-> 0]
    /\ reader' = [s \in Streams |-> "done"]
    /\ writer' = "done"
    /\ overflow' = FALSE /\ broken' = FALSE /\ stop' = FALSE
    /\ main' = "idle"
    /\ timedOut' = FALSE /\ unreaped' = FALSE
    /\ answer' = "none"

\* _remove_launcher_staging ignores errors.
RemoveLauncher ==
    /\ At("clean", "returned")
    /\ launcher' = "removed"
    /\ Forget
    /\ UNCHANGED <<child, unit, outcome>>

Contained ==
    \/ RootUnresolved \/ Overlaps \/ LauncherChanged \/ Delegate \/ Collect
    \/ Stop \/ Kill \/ Verify \/ CleanupFails \/ ResetFailed \/ RemoveLauncher

\* The steps of the bounded process: the caller's and the threads'.
Waiting == step = "running" /\ Caller /\ UNCHANGED unitVars
Threads == step = "running" /\ Workers /\ UNCHANGED unitVars

-----------------------------------------------------------------------------
(* Correctness. *)

(***************************************************************************)
(* When the call returns or raises without saying that its cleanup failed, *)
(* the unit is gone and no process of it is left, however the client, the  *)
(* threads and the time limits ended.                                      *)
(***************************************************************************)
ContainedAtReturn ==
    step = "returned" /\ outcome # "uncontained" => Gone /\ "apart" \notin holders

(***************************************************************************)
(* A unit that was asked for ends, even when nobody is left to stop it.    *)
(***************************************************************************)
EveryUnitEnds == unit = "requested" ~> unit = "dead"
=============================================================================
