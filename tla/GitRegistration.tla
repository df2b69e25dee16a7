--------------------------- MODULE GitRegistration ---------------------------
(***************************************************************************)
(* One task branch is reserved (exact_branch_reservation.py) and its       *)
(* worktree registered (worktree_registration.py), each by a Git process   *)
(* whose own word is not believed: afterwards the repository is observed,  *)
(* and git_ref_outcome.py judges process and observation together.         *)
(*                                                                         *)
(* Callers are controller processes that work for the same workspace: one  *)
(* that died and its successor, or two at once.  Peers inside one process  *)
(* are serialised by the holds of WorkspaceCapabilities.  A Git process    *)
(* lives on when its caller dies, and one that is killed at its time limit *)
(* but cannot be reaped may still finish the system call it is in.         *)
(***************************************************************************)
EXTENDS Naturals

CONSTANTS
    Callers,     \* controller processes
    Processes,   \* bound: the Git processes ever started
    Nobody       \* no process

ASSUME NobodyAssumption == Nobody \notin Processes
ASSUME ProcessAssumption == {"absent", "other"} \cap Processes = {}

VARIABLES
    branch,    \* who made the task branch: a process, "absent" or "other"
    entries,   \* the entries in .git/worktrees, by the process that made them
    marker,    \* the process whose worktree entry .git of the workspace names
    proc,      \* proc[p]: a Git process
    call,      \* call[c]: what caller c is doing
    reserved,  \* the callers that were given the ReservedBranch
    result,    \* history: result[p] of the call that started p
    unreaped   \* history: the killed processes that were not reaped

repository == <<branch, entries, marker>>
callers == <<call, reserved, result>>
vars == <<repository, proc, callers, unreaped>>

Idle == [op |-> "none", step |-> "idle", proc |-> Nobody, output |-> "none",
         before |-> FALSE, bound |-> Nobody, view |-> "none"]

Ops == {"reserve", "register"}
Steps == {"idle", "ready", "waiting", "looking", "listing", "head", "judging"}
Outputs == {"none", "clean", "loud", "nonzero"}   \* of the process; "none": the runner failed
Views == {"none", "absent", "exact", "other", "unsafe"}
Calls == [op : Ops \cup {"none"}, step : Steps, proc : Processes \cup {Nobody},
          output : Outputs, before : BOOLEAN, bound : Processes \cup {Nobody},
          view : Views]

\* A process: its life, what it was started for, how far it got.
Stages == {"start", "checked", "entered", "marked", "done"}
Lives == {"unused", "running", "killed", "dead"}
Procs == [life : Lives, op : Ops \cup {"none"}, stage : Stages, output : Outputs]
Unused == [life |-> "unused", op |-> "none", stage |-> "start", output |-> "none"]

Init ==
    /\ branch \in {"absent", "other"}
    /\ entries = {} /\ marker = Nobody
    /\ proc = [p \in Processes |-> Unused]
    /\ call = [c \in Callers |-> Idle]
    /\ reserved = {}
    /\ result = [p \in Processes |-> "none"]
    /\ unreaped = {}

-----------------------------------------------------------------------------
(* The Git process.  A killed one that was not reaped is in its last       *)
(* system call: it may take one more step, and then it is dead.            *)

Step(p, op, from, to) ==
    /\ proc[p].life \in {"running", "killed"} /\ proc[p].op = op
    /\ proc[p].stage = from
    /\ proc' = [proc EXCEPT ![p].stage = to,
                            ![p].life = IF @ = "killed" THEN "dead" ELSE @]
    /\ UNCHANGED <<callers, unreaped>>

\* git worktree list shows an entry under the branch once its HEAD is set.
Listed == {p \in entries : proc[p].stage = "done"}

\* git update-ref with the zero old value: created only if absent.
MakeBranch(p) ==
    /\ Step(p, "reserve", "start", "done")
    /\ branch = "absent"
    /\ branch' = p
    /\ UNCHANGED <<entries, marker>>

\* git worktree add: it checks, makes the entry, writes .git, and has a
\* second process set HEAD.
CheckTree(p) ==
    /\ Step(p, "register", "start", "checked")
    /\ Listed = {} /\ marker = Nobody
    /\ UNCHANGED repository

MakeEntry(p) ==
    /\ Step(p, "register", "checked", "entered")
    /\ entries' = entries \cup {p}
    /\ UNCHANGED <<branch, marker>>

MakeMarker(p) ==
    /\ Step(p, "register", "entered", "marked")
    /\ marker' = p
    /\ UNCHANGED <<branch, entries>>

MakeHead(p) ==
    /\ Step(p, "register", "marked", "done")
    /\ UNCHANGED repository

\* It reports success only when it has done everything.
Succeed(p) ==
    /\ proc[p].life = "running" /\ proc[p].stage = "done"
    /\ \E output \in {"clean", "loud"} :
          proc' = [proc EXCEPT ![p].life = "dead", ![p].output = output]
    /\ UNCHANGED <<repository, callers, unreaped>>

\* It fails, or somebody else kills it; git worktree clears the workspace and
\* removes its entry, if it still can.
Fail(p) ==
    /\ proc[p].life = "running"
    /\ proc' = [proc EXCEPT ![p].life = "dead", ![p].output = "nonzero"]
    /\ \/ UNCHANGED repository
       \/ /\ proc[p].op = "register" /\ proc[p].stage \in {"entered", "marked"}
          /\ entries' = entries \ {p}
          /\ marker' = Nobody
          /\ UNCHANGED branch
    /\ UNCHANGED <<callers, unreaped>>

Die(p) ==
    /\ proc[p].life = "killed"
    /\ proc' = [proc EXCEPT ![p].life = "dead"]
    /\ UNCHANGED <<repository, callers, unreaped>>

Git(p) ==
    \/ MakeBranch(p)
    \/ CheckTree(p) \/ MakeEntry(p) \/ MakeMarker(p) \/ MakeHead(p)
    \/ Succeed(p) \/ Fail(p) \/ Die(p)

-----------------------------------------------------------------------------
(* The caller. *)

Goto(c, step) == call' = [call EXCEPT ![c].step = step]

\* The call ends with the outcome, which its process is remembered by.
EndCall(c, outcome) ==
    /\ call' = [call EXCEPT ![c] = Idle]
    /\ result' = [p \in Processes |-> IF p = call[c].proc THEN outcome ELSE result[p]]
    /\ reserved' = IF outcome = "created" /\ call[c].op = "reserve"
                   THEN reserved \cup {c} ELSE reserved
    /\ UNCHANGED <<repository, proc, unreaped>>

BeginReserve(c) ==
    /\ call[c] = Idle
    /\ call' = [call EXCEPT ![c] = [Idle EXCEPT !.op = "reserve", !.step = "ready"]]
    /\ UNCHANGED <<repository, proc, reserved, result, unreaped>>

\* register takes a ReservedBranch and looks at the workspace first.
BeginRegister(c) ==
    /\ call[c] = Idle
    /\ c \in reserved
    /\ call' = [call EXCEPT ![c] = [Idle EXCEPT !.op = "register", !.before = TRUE,
                                                !.step = "looking"]]
    /\ UNCHANGED <<repository, proc, reserved, result, unreaped>>

Launch(c, p) ==
    /\ call[c].step = "ready"
    /\ proc[p] = Unused
    /\ proc' = [proc EXCEPT ![p] = [Unused EXCEPT !.life = "running", !.op = call[c].op]]
    /\ call' = [call EXCEPT ![c].step = "waiting", ![c].proc = p]
    /\ UNCHANGED <<repository, reserved, result, unreaped>>

\* The runner fails before there is a process.
LaunchFails(c) ==
    /\ call[c].step = "ready"
    /\ Goto(c, "looking")
    /\ UNCHANGED <<repository, proc, reserved, result, unreaped>>

ProcessEnds(c) ==
    LET p == call[c].proc IN
    /\ call[c].step = "waiting"
    /\ proc[p].life = "dead"
    /\ call' = [call EXCEPT ![c].step = "looking", ![c].output = proc[p].output]
    /\ UNCHANGED <<repository, proc, reserved, result, unreaped>>

\* A limit is exceeded, or a stream or a verification fails: a process that
\* still runs is killed, and it may be that it could not be reaped.
RunnerFails(c) ==
    LET p == call[c].proc IN
    /\ call[c].step = "waiting"
    /\ \/ /\ proc' = [proc EXCEPT ![p].life = "dead"]
          /\ UNCHANGED unreaped
       \/ /\ proc[p].life = "running"
          /\ proc' = [proc EXCEPT ![p].life = "killed"]
          /\ unreaped' = unreaped \cup {p}
    /\ Goto(c, "looking")
    /\ UNCHANGED <<repository, reserved, result>>

\* An observation is complete: the one before registration must find nothing.
Observed(c, view) ==
    IF ~call[c].before
    THEN /\ call' = [call EXCEPT ![c].step = "judging", ![c].view = view]
         /\ UNCHANGED <<repository, proc, reserved, result, unreaped>>
    ELSE IF view = "absent"
    THEN /\ call' = [call EXCEPT ![c].step = "ready", ![c].before = FALSE]
         /\ UNCHANGED <<repository, proc, reserved, result, unreaped>>
    ELSE EndCall(c, "indeterminate")

\* _observe_direct_ref.
LookAtBranch(c) ==
    /\ call[c].step = "looking" /\ call[c].op = "reserve"
    /\ \/ Observed(c, "unsafe")
       \/ Observed(c, IF branch \in Processes THEN "exact" ELSE branch)

\* _observe_workspace: the marker and its binding, or an empty workspace.
LookAtMarker(c) ==
    /\ call[c].step = "looking" /\ call[c].op = "register"
    /\ \/ Observed(c, "unsafe") \/ Observed(c, "other")
       \/ /\ marker \in entries \cup {Nobody}
          /\ call' = [call EXCEPT ![c].step = "listing", ![c].bound = marker]
          /\ UNCHANGED <<repository, proc, reserved, result, unreaped>>

\* _branch_registration.  With no marker, any listing is another one; with a
\* marker, its answer is the observation unless it is exact.
LookAtList(c) ==
    /\ call[c].step = "listing"
    /\ \/ Observed(c, "unsafe")
       \/ /\ Listed = {}
          /\ Observed(c, "absent")
       \/ /\ Listed # {} /\ call[c].bound = Nobody
          /\ Observed(c, "other")
       \/ /\ \E p \in Processes : Listed = {p}
          /\ call[c].bound # Nobody
          /\ Goto(c, "head")
          /\ UNCHANGED <<repository, proc, reserved, result, unreaped>>

\* HEAD of the workspace is the branch and its commit, and the binding is
\* still the same.
LookAtHead(c) ==
    /\ call[c].step = "head"
    /\ \/ Observed(c, "unsafe") \/ Observed(c, "other")
       \/ /\ marker = call[c].bound /\ marker \in Listed
          /\ Observed(c, "exact")

\* Mutant of Classify: an exact branch is enough.
ClassifyByView(output, view) ==
    CASE view = "exact" -> "created"
      [] view = "absent" /\ output \in {"none", "nonzero"} -> "rejected"
      [] OTHER -> "indeterminate"

\* Mutant of Classify: a failed process is a rejection.
ClassifyByProcess(output, view) ==
    CASE view = "exact" /\ output = "clean" -> "created"
      [] output \in {"none", "nonzero"} -> "rejected"
      [] OTHER -> "indeterminate"

\* classify_ref_creation of a process that was launched.
Classify(output, view) ==
    CASE view = "exact" /\ output = "clean" -> "created"
      [] view = "absent" /\ output \in {"none", "nonzero"} -> "rejected"
      [] OTHER -> "indeterminate"

Judge(c) ==
    /\ call[c].step = "judging"
    /\ EndCall(c, Classify(call[c].output, call[c].view))

\* A hold or a verification fails: whatever was known, it must be reconciled.
CapabilityFails(c) ==
    /\ call[c].step \notin {"idle", "waiting"}
    /\ EndCall(c, "indeterminate")

\* The controller dies and starts again without what it knew.
Crash(c) ==
    /\ call' = [call EXCEPT ![c] = Idle]
    /\ reserved' = reserved \ {c}
    /\ UNCHANGED <<repository, proc, result, unreaped>>

Caller(c) ==
    \/ BeginReserve(c) \/ BeginRegister(c)
    \/ \E p \in Processes : Launch(c, p)
    \/ LaunchFails(c) \/ ProcessEnds(c) \/ RunnerFails(c)
    \/ LookAtBranch(c) \/ LookAtMarker(c) \/ LookAtList(c) \/ LookAtHead(c)
    \/ Judge(c) \/ CapabilityFails(c)
    \/ Crash(c)

Next == (\E c \in Callers : Caller(c)) \/ (\E p \in Processes : Git(p))

Spec == Init /\ [][Next]_vars

-----------------------------------------------------------------------------
(* Correctness. *)

Outcomes == {"created", "rejected", "indeterminate"}

(***************************************************************************)
(* The refs, entries and markers that exist and who made them, the Git     *)
(* processes, and the calls with their outcomes.                           *)
(***************************************************************************)
TypeOK ==
    /\ branch \in Processes \cup {"absent", "other"}
    /\ entries \subseteq Processes
    /\ marker \in Processes \cup {Nobody}
    /\ proc \in [Processes -> Procs]
    /\ call \in [Callers -> Calls]
    /\ reserved \subseteq Callers
    /\ result \in [Processes -> Outcomes \cup {"none"}]
    /\ unreaped \subseteq Processes

\* The branch is the work of process p.
LeftBranch(p) == branch = p

(***************************************************************************)
(* A branch or a worktree that a call reports as created was made by that  *)
(* call's own process, to the end, and no other call ever reports the same *)
(* one: whoever finds the work of a predecessor must reconcile it.         *)
(***************************************************************************)
CreatedOnce ==
    \A p \in Processes : result[p] = "created" =>
        /\ proc[p].stage = "done" /\ proc[p].output = "clean"
        /\ proc[p].op = "reserve" => LeftBranch(p)
        /\ \A q \in Processes \ {p} : result[q] = "created" => proc[q].op # proc[p].op

(***************************************************************************)
(* A call is reported as rejected only if its process has not made the     *)
(* branch or the registration that lists it, or could not be reaped: an    *)
(* effect that is there is never taken for a clean failure.                *)
(***************************************************************************)
RejectedMadeNothing ==
    \A p \in Processes \ unreaped :
        result[p] = "rejected" => ~LeftBranch(p) /\ p \notin Listed

(***************************************************************************)
(* What WorktreeRegistrationRejectedError says (worktree_registration.py): *)
(* it is raised when observation confirms that no registration was         *)
(* created.  Asked only of processes that are dead, and only of an entry   *)
(* that the marker of the workspace names.                                 *)
(***************************************************************************)
RejectedMeansUnregistered ==
    \A p \in Processes \ unreaped :
        result[p] = "rejected" => ~(p \in entries /\ marker = p)
=============================================================================
