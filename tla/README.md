# Verification of the orchestration controller

The program in this repository is an orchestration controller for coding
agents: a Python package, `src/.agent-workflow/controller/td_controller/`
(48 files, about 9,100 lines; the rest of the tree is documentation, tests,
research material and three small tools). It leases tasks, drives them through
a gated life cycle, reserves capacity for model runs, runs the mandatory
reviews, has a contained planner propose a plan, prepares a Git worktree under
pinned directories, and lets a tool-less model propose text that a container
applies.

This directory holds TLA+ models of that core, TLC configurations that check
them on small instances, and TLAPS proofs of what matters most for every size.
Paths without a directory below are files of `td_controller/`.

**Contents.** 1 The system · 2 How to run · 3 The modules and the code ·
4 The runs · 5 Fairness · 6 The proofs · 7 What the models say about the code ·
8 What is not modelled · 9 The plan

## 1. The system

### Persistent state and who shares it

Several controller processes (a controller, its restarted successor, or two at
once) share two SQLite databases and one Git repository. Each transaction is
`BEGIN IMMEDIATE` with a busy timeout of five seconds, so transactions are
serial; **what is read before one (the clock, the day, the pause switch, a
revision) may be stale inside it**. Inside one process, threads share two pinned
directory descriptors behind reentrant locks. Git processes, podman containers
and their descendants outlive the controller that started them.

```
 task contract --> lease ledger --> task state ledger          SQLite (workflow)
                       |  the active lease is read in the same transaction
 controller ------> run ledger <--- review coordinator          SQLite (runs)
   |  pause switch        ^ two Controller.run per review
   v
 planning trial --> attested runtime --> transient unit --+
   |  event stream, plan contract                          v
 bounded process (SubprocessExecutor) <-- systemd-run client
   |
   +-----------------> git: branch reservation -> worktree registration
                             |      under holds of both pinned directories
                             v
                       workspace materialization (blob by blob)
                             |
                       text mutation: broker -> container script -> outcome
```

### The components

| Component (files) | State | Operations | What is hard | What makes it correct |
|---|---|---|---|---|
| Task lease ledger (`lease.py`) | table `task_leases`, two unique partial indexes on active rows | `acquire`, `heartbeat`, `release`, `active` (each sweeps stale rows) | the clock is read before the transaction and may be set back; owners die | one active lease per task and branch; a consistent story in every row; an abandoned lease ends |
| Task state ledger (`workflow_state.py`) | tables `task_states`, `task_transitions`, `gate_evidence` | `register`, `record_evidence`, `transition` | callers act on revisions they read earlier; leases end meanwhile; evidence is cited again after a retry | history replays to the row; gated edges cite matching evidence; what is merged is what was gated; changes only under a lease in force |
| Run ledger (`state.py`) | table `runs` | `reserve`, `finish` | three limits, several processes, midnight | limits hold; a run ends once |
| Controller, pause switch (`controller.py`, `pause.py`, `provider.py`) | a pause file; locals of `run` | `Controller.run`, `pause`, `resume` | pause between check and reservation; failing providers; death | a pause stops a reserved run; no reservation leaks; every run ends |
| Review coordinator (`review.py`) | locals | `run_required_reviews` | providers repeat or omit sessions; other processes use the ledger | two separate sessions, both successful, neither the implementer's |
| Bounded process (`review_runtime.py`) | a child, three threads, two buffers; a transient unit, a staged launcher, a staged runtime | `SubprocessExecutor._run`, `SystemdCgroupExecutor.run`, `execute_attested_codex` | output limit, time limit, descendants that keep the pipes, children that do not die, clients that die before their unit, staged files that change | a returned output is whole; the unit is gone or its cleanup is reported; what runs was pinned; the call and the unit end |
| Branch reservation (`exact_branch_reservation.py`, `exact_ref_command.py`, `exact_ref_hook_guard.py`, `git_ref_outcome.py`) | the ref | `reserve_exact_task_branch` | the Git process dies, outlives its caller or loses its answer | nothing is reported created twice; no effect is called a clean failure |
| Worktree registration (`worktree_registration.py`, `exact_worktree_command.py`, `worktree_marker_contract.py`) | marker, administrative entry, backlink, HEAD | `register_no_checkout_worktree` | as above, and `git worktree add` is several steps | as above; a binding that is returned was true at one instant |
| Pinned directories (`workspace_identity_handle.py`, `pinned_directory_executor.py`) | two descriptors, two reentrant locks, hold owner, poison, closed | `hold_identity`, `hold_execution`, `run`, `verify`, `close` | nested holds, concurrent close, a directory that others change | used alone, never after close or breach; locks balanced; calls return |
| Workspace materialization (`workspace_tree_materializer.py`, `workspace_blob_writer.py`, `repository_blob_loader.py`, readers and parsers) | files, temporary names, the disk | `materialize_workspace_tree` | every system call may fail; death; power failure; other programs | no partial file under a path; nothing replaced; a rejection had no effect; a success stays |
| Text mutation (`text_mutation_contract.py`, `text_mutation_broker.py`, `mutation_pipeline.py`, `attested_text_replacement.py`, `attested_payload_runner.py`, `replacement_outcome.py`) | the files, the container | `MutationPipeline.run` | compare and rename are two steps; containers outlive callers; cleanup goes by name; confirmations are lost | applied stays; rejected changed nothing; versions are not overwritten unseen; no half file |
| Planning trial (`planning_trial.py`, `codex_planner.py`, `plan_contract.py`) | a temporary directory; locals | `run_planning_trial`, `CodexPlannerProvider.run`, `parse_plan` | HEAD moves; the process dies; plans that wait for themselves or meet in one file | a record is about the approved revision; an accepted plan can be carried out, and its parallel tasks are apart; nothing is left behind; the trial ends |
| Review adapter (`codex_review.py`, `review_contract.py`, `model_broker.py`) | locals | one session, an event-stream parser | the order of events | the message is that of one whole turn; the rest is not modelled |
| Runtime attestation (`codex_runtime_container.py`, `podman_mount_policy.py`, `effective_identity.py`) | none | reads of the host | – | not modelled |
| Task contract (`task_contract.py`) | none | parsing, path claims | patterns are compared without being expanded | claims that do not overlap match no common path |
| Configuration, command line (`config.py`, `__main__.py`) | none | parsing, printing | – | its limits are constants |
| Scripts and tools | none | – | – | not modelled |

The hazards this code is exposed to are listed, each at the line where it bites
and with the properties that would notice it going wrong, in `PROJECT.json`.

## 2. How to run

```
tlasany M.tla                                   parse
tlc -workers 2 -config TaskLease.cfg MCTaskLease.tla
tlapm WorkflowStateProofs.tla
```

`PROJECT.json` lists runs, properties, the source lines of every definition, and
the mutants. A **mutant** is an operator that stands next to the one it mutates,
has the same parameters, is marked `\* Mutant of X`, and is used by no
specification; put in the place of `X` it makes TLC violate the property it is
listed with. It keeps the properties honest: each one can be broken by a
plausible bug in the code.

## 3. The modules and the code

`MC…` modules only give constants their values. `…Proofs` modules hold the
theorems of the module they are named after; ControllerProofs also those of
RunLedger and ReviewCoordinator, WorkflowStateProofs those of TaskLease, and
PlanningTrialProofs those of the modules the planning trial is composed of.

**ExclusiveLease** — what the lease ledger promises, without a clock or a table:
an identifier is used once, a hold excludes others of its task and branch, and
ends by its owner or after its deadline.

**TaskLease** — `lease.py`. `lease[id]` is a row; `clock` what `_utc_now` reads;
`call[c]` the instant the pending call of process `c` has read. `ReadClock` is
the line before the transaction, `Acquire`, `Heartbeat`, `Release` and `Sweep`
(`active()`) are the transactions, each with the `_expire_stale` it starts with;
`Abandon` is every way to raise or die before the commit (SQLite rolls all of it
back, the expiries too). `SetBack` sets the clock back.

**WorkflowState** — `workflow_state.py` in the same database, so it EXTENDS
TaskLease. The transition policy is data (`NormalTransitions`,
`InterruptibleStates`, …) and a few operators (`Allowed`, `ResultOf`,
`NextAttempt`, `HeadPolicy`, `EvidencePolicy`). A caller passes the state,
revision and head of any revision it ever read: `Transition` takes that revision
as a parameter. A refused call is a stuttering step.

**GatedTask** — what the task ledger promises, without rows, revisions, leases or a
clock: a task carries the gates it passed on the commit and in the attempt it has,
crosses a gated edge only on a report made where it stands, and is at a stage only
with the gates that stage requires. WorkflowState implements it: `Place`, `PassedOf`
and `ReportsOf` are what its rows, its history and its evidence amount to, so an old
revision, an old record or an expired lease has no effect that a ledger without
them could not have.

**RunLedger** — `state.py`: `Reserve` with the three admission rules, `Finish`.
It is both a component and the abstract specification of the next module.

**Controller** — `controller.py`, `pause.py`: `job[p]` is the program counter and
the locals of `Controller.run` in process `p`. `ReadDay` (outside the
transaction) and `ReserveRun`/`RefuseRun` split `reserve` where the code does.
`lost` (rows left by a dead process or a failed write) and `pausedSince` are
history variables. EXTENDS RunLedger.

**ReviewCoordinator** — `review.py`: two runs of Controller in a row and the
freshness rules; plain runs go on beside it. EXTENDS Controller.

**SoleUse** — a resource is used by one user at a time, closed only by its user
or when nobody uses it, and not used afterwards.

**WorkspaceCapabilities** — both pinned directories: reentrant locks as `owner`
and `depth`, the guards of every method, the way out of each one (also the
refused ones), poison and the replayed failure of `close`. A call is split where
it may wait or be overtaken: acquire, act, leave. It implements SoleUse twice.

**AdminBinding** — `verify_worktree_admin_binding`, one file-system call per
action, between which every link may change. A leaf's version stands for the
inode, size and times it is read with.

**GitRegistration** — branch reservation, worktree registration and the
judgement of both. A Git process has a stage and an output of its own; callers
launch it, lose it or reap it, observe, and classify.

**BoundedProcess** — `SubprocessExecutor._run`: child, descendants, two readers,
one writer, the caller. Output is counted in chunks. It has no specification of
its own: the next module embeds it.

**ContainedUnit** — `SystemdCgroupExecutor.run` EXTENDS BoundedProcess, whose child
is the `systemd-run` client. `unit` is what systemd does with the request; the
processes of the unit hold the pipes of the call from a session of their own, so
that a client killed at its time limit leaves both running. `Stop`, `Kill`,
`Verify` and `ResetFailed` are the cleanup in the `finally` block, `CleanupFails`
every way in which it raises. `RootUnresolved` is the one exit between the staging of
the launcher and the `try`.

**AttestedRuntime** — `execute_attested_codex` EXTENDS ContainedUnit: the staging,
the version call, the second hash, the rename and the real call. `changed` is a
history variable.

**PathClaims, PlanContract** — `_path_claims_overlap` and `_glob_matches` on paths
as sequences of components, and `parse_plan`. The recursion of `_reject_cycles` is
written out with its stack, so that the order in which tasks are visited is free.

**EventStream** — `_parse_event_stream`, one event per action.

**CodexPlanner, PlanningTrial** — the planner's run, which takes the steps of the
attested runtime, the event stream and the plan contract one after the other, and
the trial around it. PlanningTrial holds `Spec`, the death of the process
(`Crash`) and the fairness of the whole composition.

**WorkspaceTree** — the materializer and the blob writer, one system call per
action, the way out of the hold included (`LeaveFails`), over a file system with names, inodes and what has reached the disk. The
manifest names no path twice (`ManifestAssumption`: `_valid_manifest` demands
strictly ascending paths) and may be empty.

**TextReplacement** — request, proposal, container, script (one action per
command with its own failure), judgement, cleanup by name, dead controllers,
power failures. `written` is a history variable; `after[f]` is the set of versions
a power failure may leave of `f`.

How they compose: WorkflowState and TaskLease share the lease table and the
clock; ReviewCoordinator, Controller and RunLedger share the run table;
GitRegistration, WorkspaceTree and TextReplacement model *processes* that work
for one workspace and say in their head comments that peers of one process are
excluded by the holds WorkspaceCapabilities models; AdminBinding refines the
moment at which GitRegistration observes the marker. The planning trial is one
specification of eight modules: PlanningTrial EXTENDS CodexPlanner, which EXTENDS
AttestedRuntime (and ContainedUnit and BoundedProcess below it), PlanContract (and
PathClaims) and EventStream.

Abstractions used everywhere: identifiers, digests, SHAs and contents are model
values (a digest *is* its content); checks of argument syntax are left out, as
they refuse a call before it touches state; times are small numbers.

## 4. The runs

Every bound is a constant named as such in its module.

| Run | Instance | What it shows |
|---|---|---|
| `lease` | 2 processes of 2 owners, 2 tasks, 2 branches, 2 lease ids, instants 0..2, term 1 | `Exclusive`, `ConsistentRows`, the refinement of ExclusiveLease, and `AbandonedLeaseEnds` |
| `workflow` | one task, 2 heads, 4 evidence ids, attempt limits 1 and 2, 13 revisions, a lease that ends and is taken over | replay of the history, evidence, heads, the refinement of GatedTask (attempts among it), changes only under a lease in force |
| `workflow_rounds` | one task, 1 head, 3 evidence ids, 15 revisions | **violated**: `RemediationRoundsBounded` (section 7) |
| `controller_stale` | one day | **violated**: `StaleReservationsExpire` (section 7) |
| `review` | 2 processes that run plain tasks or both reviews, 3 runs, 2 days, 1 run at a time and 2 a day with 30 % reserve, 2 sessions and the implementer's | limits, ownership, leaks, pause, the refinement of RunLedger, `ReviewsAreSeparate`, `EveryRunEnds` |
| `capabilities` | 2 threads, 2 directories | breach, SoleUse of both, every call returns |
| `binding` | 2 entries, 2 paths, 3 changes | a binding that is returned was true at one instant |
| `registration` | 2 callers, 3 Git processes | `CreatedOnce`, `RejectedMadeNothing` |
| `registration_partial` | the same | **violated**: `RejectedMeansUnregistered` (section 7) |
| `planning` | 2 streams of a chunk each, limit 1, 2 staged files, 2 revisions, every dependency graph on three tasks and on two with a known and an unknown one, 4 sets of claims, 6 events | ten properties of the trial and of its parts, among them the two that units and trials end |
| `tree` | 2 writers, 2 files, 1 directory, 1 change by others, 1 power failure | four properties of publication |
| `text` | 2 controllers, 2 files, 2 contents, 1 foreign write, 1 power failure | four properties of replacement |

Why the bounds are enough. A violation of exclusion needs two rows and two calls
whose readings and commits cross: two processes, two instants and one in which
the term has passed. With 13 revisions a task can be done without a detour, merged after an
early retry, or ready to merge after a remediation; four evidence records cover
its gates and leave an old one to cite again. Three runs are one more than a day
allows and two more than may run at once, and the review reserve of 30 % of two
runs leaves one slot for others: each of the three limits meets a run it must refuse
while the other two would admit it, and a model without any one of them violates
`WithinLimits`. With two processes and one run at a time, the bound on provider
calls in `OwnersHoldReservations` can be broken too; several runs at once are left
to the theorems, which hold for every limit. Two days bring the reading of the day
across midnight. Three run ids are too many to take in every order together with
liveness, so this run uses `RepresentativeSpec` of MCReviewCoordinator: one order
of the first use of run ids, no session for plain runs (nobody looks at it) and s2
for the first fresh session of a coordinator. Every other behaviour is one of these
with ids or sessions renamed, and a process that can take a step can take one like
it, so fairness means the same. Two threads and two directories are all the orders in which two nested
locks can be taken. Three Git processes are a predecessor's, one's own and a
rival's. One chunk in each stream and a limit of one make the two readers compete for the
last room, and a unit or a client may end with its chunk unwritten, unread, unkept
or dropped. Three tasks are the least in which a chain and a cycle have a middle,
and two with a known and an unknown id meet every other check; the claims have a
literal prefix in common, a wildcard inside, at the end, and a protected path. Six
events are one more than a whole turn needs. Three changes are enough to undo a link, redo it and
change another between two readings. Two writers whose blobs agree in one file
and differ in the other meet both kinds of leftovers. Symmetry is used only over
sets whose members the modules treat alike and only in runs without liveness.

Deadlock is checked wherever the component is a server that must always be able
to go on (the ledgers, the registration, the capabilities); it is not where a
call comes to an end (`binding`, `planning`, `tree`, `text`), and in `workflow`,
where the last revision is a bound.

## 5. Fairness

Liveness is claimed only of these specifications:

- `FairLeaseSpec`: time passes (weak fairness of `Tick`), a controller keeps
  calling `active()` (weak fairness of its clock reading) and is not met by a
  busy database for ever (strong fairness of `Sweep`: the busy timeout is five
  seconds and writers are single short transactions). `AbandonedLeaseEnds`
  assumes further, in the property itself, that the clock stops being set back.
- `FairReviewSpec` (and `FairControllerSpec`, `RepresentativeSpec`): a process that is not killed executes its next statement;
  a provider call ends because its subprocess is killed at its time limit.
  Nothing is assumed of operators, crashes or new calls.
- `FairSpec` of WorkspaceCapabilities: a thread inside a method goes on (weak);
  a lock that is free again and again is given to a waiting thread, and a block
  under a hold ends (strong: it is a finite list of calls).
- `FairSpec` of PlanningTrial: the controller takes its steps, because each of its
  waits has a time limit (the child, its reaping, the threads, every systemctl and
  git command). Systemd serves a request and ends a unit at `RuntimeMaxSec` or when
  it was stopped, also when the controller is dead. Nothing is assumed of clients,
  commands, descendants and threads.

## 6. The proofs

TLC checks the instances of section 4; TLAPS proves the following for every value
of the constants that satisfies the named assumptions of the modules. The invariants
are proved in one form: `Init => IInv`, `IInv /\ [Next]_vars => IInv'` with one step
per action, `IInv => Property`.

| Module | Theorems | Inductive invariant and why it is needed |
|---|---|---|
| WorkflowStateProofs, first part | `LeaseTypeCorrect`, `LeaseExclusive`, `LeaseRowsConsistent`, `LeaseHistoryKept`, `LeaseRefines` | `LeaseTypeOK /\ Exclusive /\ ConsistentRows`. The index test alone keeps `Exclusive`; that the *expiry* inside each call cannot spoil it is the lemma `ExpireStaleRow`. `ConsistentRows` needs the test of the heartbeat against the pending instant, as the clock may have been set back. The refinement maps every call to `Answer` of ExclusiveLease at the instant the call read. |
| WorkflowStateProofs, second part | `StateTypeCorrect`, `HistoriesReplay`, `GatesCiteEvidence`, `MergesWereGated`, `AttemptsAreCounted`, `ChangesAreUnderLease`, `RecordsAreKept`, `WorkflowKeepsLeases`, `EvidenceIsDated`, `WorkflowRefinesGatedTask` | `StateInv`: `LeaseIInv` of the leases it shares a database with, the types, and for each task `Sound`, that is the four properties at once. They need each other: that evidence cited before is of a smaller revision follows from `Replays`, that a head stays gated from which edges may change it. Every transition is first brought into one form (`Moved`, lemma `TransitionMoves`), whatever revision its caller had read. `ChangesAreUnderLease` is `Exclusive` at the instant of the change. For GatedTask one thing more is needed, that no record of evidence is ahead of its task (`EvidenceDated`): a task that has moved stands there without reports; `PassedKept`, `PassedNow` and `PassedBefore` say which gates count after a move. `WorkflowKeepsLeases` shows that the composition is still a lease ledger, so all of the first part holds of it. |
| ControllerProofs | `LedgerWithinLimits`, `LedgerFinishedOnce`, `ControllerRefinesLedger`, `ControllerWithinLimits`, `ControllerFinishedOnce`, `ControllerNoLeaks`, `ControllerOwnersHold`, `ControllerPauseStops` | `LedgerIInv` (types and limits; the lemmas count rows) and, for the controller, what each program counter means (`JobMeans`), that a process past its reservation owns a RUNNING row (`RowsOwned`), that no row has two owners (`OneOwner`) and that every RUNNING row is explained (`RunningExplained`). The bound on provider calls follows by counting: owners map one to one to RUNNING rows. For the pause, `SwitchWatched`: a process counts as paused since its reservation only while the switch is on, so the second check finds it. |
| ControllerProofs, last part | `ReviewTypeCorrect`, `AcceptedReviewsAreSeparate`, `ReviewsWithinLimits`, `ReviewsRefineLedger`, `ReviewsFinishedOnce`, `ReviewsOwnersHold`, `ReviewsPauseStops`, `ReserveIsForReviews` | `ControllerIInv` carried over (a review step is a step of controllers), what a returned run means (`ReturnedMeans`: its row has succeeded, with its role) and what the stage of a coordinator remembers (`StageMeans`). Without these, the row of the code review could be another one by the time the QA review is accepted. What holds of controllers is carried over to coordinators step by step, the switch included (`ReviewSwitchNext`). `ReserveIsForReviews`: whatever is reserved for implementation leaves the ceiling of the percentage free (`ReserveIsCeiling`). |
| WorkspaceCapabilitiesProofs | `CapabilityTypeCorrect`, `LocksAreBalanced`, `BreachIsFinal`, `CapabilitiesRefineSoleUse`, `CapabilitiesNeverDeadlock` | `LocksBalanced`, that a lock without owner has depth zero (`Released`), that a directory in use is open (`OpenForUse`) and that a breach poisons (`Poisons`). Who works in a directory owns its lock (`InsideOwns`), so there is one user, and every step is a step of SoleUse or none (`UseStep`). Locks are taken in one order (`InOrder`), so who waits, waits for a thread that can go on, or for one that waits only for such a thread. `CanGoOn` states without ENABLED when a thread has a step. |
| GitRegistrationProofs | `RegistrationTypeCorrect`, `CreatedByOne`, `RejectedLeftNothing` | What a process has left, by how far it got (`ProcessMeans`); what a call knows of its process and what an observation has shown (`CallMeans`); and that of all processes whose work is, or can only be, reported as created there is one of a kind (`OneFixed`): whoever finds the listing with one entry, and whose process ended well, has found its own. |
| AdminBindingProofs | `BindingTypeCorrect`, `BindingTrueOnce` | `TypeOK /\ Dated /\ Found /\ Witnessed`: versions never pass the number of changes, what was read was there, and if the second reading of the backlink (and of the marker) finds the version of the first, then the links agreed at an instant in between. |
| TextReplacementProofs | `TextTypeCorrect`, `AppliedIsDurable`, `RejectedIsClean`, `ReplacesWhatWasSeen`, `FilesAreWhole` | `TypeOK /\ Local /\ NeverHalf /\ Watched /\ Numbered /\ Placed`. `Local` ties caller, container and outcome; `Watched` says that one container of the name is live and that, between comparing and renaming, the file changed only by another program; `Numbered` orders versions; `Placed` says where the replacement of a container is while it passes `look`, `flush` and `print`. |
| WorkspaceTreeProofs | `TreeInvariant`, `PathsLeadToWholeFiles`, `RejectionIsHonest`, `MaterializedTreesStay`, `WritersReplaceNothing` | `TreeInv`: the shape of names and inodes (`TreeShape`: a name leads to no inode but one written for it), a file is whole and synced before and after it has a name, in the tree and on the disk (`Sealed`), and for each writer that its temporary file is its own (`OwnsTemp`), that what it has brought to a stage is still there (`Placed`) and that it knows its effects (`Knows`). A step of one writer is shown to take nothing away that another one relies on (`Keeps`, lemmas `Kept` and `Others`), which is where two writers with the same temporary name meet. |
| PlanningTrialProofs, the plan | `OverlapFindsCommonPaths`, `MatchesWhatCanBeCut`, `ReachableIsLeastClosed`, `ParallelTasksAreApart`, `AcceptedPlansHaveOrder`, `RejectedCyclesAreReal` | `Grouped` (what was checked of the parallel groups so far) on top of the invariant of the next row. The operators are proved first: the two-sided comparison of claims against the recursive matching, the matching against a division of the path into pieces, the rounds of the closure against the least closed set. For the search, the stack is a chain of dependencies (`Pathed`), so what closes it is a cycle; and where no set of tasks waits for itself (`Searching`), an order that leaves a task out can be made longer (`OrderExtends`), so the longest has them all. |
| PlanningTrialProofs, the trial | `PlanTypeCorrect`, `OutputsAreWhole`, `UnitsAreContained`, `NothingIsLeftBehind`, `RuntimesWerePinned`, `PlansComeFromOneTurn`, `AcceptedPlansCanRun`, `RecordsAreAboutBase` | `TrialInvariant`, one conjunct for each part of the composition: `ProcessInvariant` (what a reader took is kept, in its hand or dropped, and a reader that ended by itself has drained a pipe nobody can write to), `CallInvariant` (nothing of an earlier call is left when the next one starts; what was staged is removed, unless its directory did not resolve, and then the trial is refused with no unit left, `GivenUp`; what was not hashed since it changed is known), `Streamed` (the events read so far, for what the parser remembers), `Shape` and `Searching` (no visited task belongs to a set of tasks that all wait for each other: stated over sets, the absence of cycles needs no induction over paths) and `Recorded` (where the trial is and what it has read). |

`LeaseRefines`, `WorkflowRefinesGatedTask`, `ControllerRefinesLedger`,
`ReviewsRefineLedger` and `CapabilitiesRefineSoleUse` are refinements under the
mappings given in the modules: initial states map to initial states, every step to a
step or a stutter. `LeaseHistoryKept`, `LedgerFinishedOnce`,
`ControllerFinishedOnce`, `LocksAreBalanced`, `AttemptsAreCounted`, `RecordsAreKept`,
`EvidenceIsDated`, `ReserveIsForReviews`, `AcceptedPlansHaveOrder` and
`RejectedCyclesAreReal` are only proved, and so is `CapabilitiesNeverDeadlock`, beside
TLC's own check for deadlock. The type invariants
of the modules above are proved and therefore not checked by a run.

The assumptions on constants are named in the modules that declare them and are
evaluated by the runs. They say that bounds, times and limits are natural numbers,
that a name for nobody or nothing is none of the things it stands beside, that
selections and claims are of the declared sets, that the run identifiers are finitely
many, and that a manifest names no path twice. No proof takes a bound for more than
a number.

Recursion without an induction theorem. The induction theorems of the library take
an operator as a parameter, which the provers cannot instantiate. What a recursive
function computes is proved by the least counterexample instead: that a set of
natural numbers that is not empty has a least member is a fact about one set
(lemma `LeastNumber`, from the well-foundedness of `<` on the naturals), and the set
of sizes at which a claim fails is such a set. `GlobMatches` and `Reachable` are
therefore written as recursive functions over a stated domain, not as RECURSIVE
operators. That a plan and the claims of its tasks are finite (`ProposalsAssumption`,
`ClaimsAssumption`: finitely many tasks, claims and paths that are sequences of path
parts) is what parsed JSON text is.

Only model-checked: liveness (`AbandonedLeaseEnds`, `EveryRunEnds`,
`EveryCallReturns`, `EveryUnitEnds`, `TrialEnds`), as fairness and ENABLED are out of
TLAPS's reach. Every invariant, action property and refinement that a run checks is
proved.

## 7. What the models say about the code

Three runs are expected to be violated; each states a sentence of the repository.

- **Stale reservations do not expire.** `docs/AGENT_CAPACITY_POLICY.md:132` says
  "Stale reservations expire safely." A RUNNING row ends only by `finish`
  (`state.py:146`), so a controller that dies keeps its slot for ever
  (`controller_stale`). `NoReservationLeaks` shows that nothing *else* leaks.
- **A rejected registration may be half made.** If `git worktree add` ends between
  the marker and HEAD, the entry is listed as detached, `_branch_registration`
  finds no match, and `worktree_registration.py:193` answers ABSENT, though the
  binding was verified just before. The call is rejected, which
  `worktree_registration.py:30` reserves for "observation confirms no
  registration was created" (`registration_partial`).

- **Rounds of remediation are not counted.** `docs/ENGINEERING_QUALITY_POLICY.md:367`
  says "At most two remediation rounds are allowed." `limits.maxRemediationRounds`
  is parsed (`config.py:240`) and read nowhere; the edge at `workflow_state.py:30`
  may be taken any number of times (`workflow_rounds`).

Other behaviours the models contain, which no property forbids:

- `heartbeat` and `release` read the clock before their transaction (`lease.py:155`):
  one that waits for the write lock past the end of the term still succeeds, as of
  the instant it read. `ExclusiveLease` therefore answers as of that instant. It is
  exclusive all the same: whoever wants the lease must first expire it in a
  transaction of its own.
- `reserve` reads the day before its transaction (`state.py:86`); a reservation that
  waits over midnight is counted on, and limited by, the day it read.
- A Git process that was killed but not reaped may make the ref after the
  observation that found none; the call has been judged rejected
  (`git_ref_outcome.py:71`). `RejectedMadeNothing` leaves out such processes, and
  names them (`unreaped`).
- `podman rm -f` removes the container by its name (`attested_payload_runner.py:160`),
  which may be the one another controller, or a dead one, started. The other caller
  then gets an indeterminate outcome, never a wrong one. TERM runs the trap, which
  removes the temporary file, and the script goes on until KILL.
- The pause switch is read before and after the reservation, not during the provider
  call: a pause that is set later lets the call finish.
- The coordinator looks at roles, sessions and statuses, never at the verdict: a
  review that blocks is a run that SUCCEEDED, and is accepted as a review.
- The staged launcher may stay behind. `review_runtime.py:609` resolves its directory
  after line 608 has staged it and before the `try` of line 658; if that raises (the
  directory was moved, or the file system fails), nothing tries to remove it.
  `NothingLeftBehind` names this exit, shows that it is the only one, and that no unit
  runs from what is left: the trial is refused.
- The staged runtime is hashed before and after the version call and not after the
  real one: it may change in between and later. `RuntimeWasPinned` names the window
  (`changed`).
- The processes a dead unit left behind are found only if systemd still reports its
  control group, and requests reach systemd in the order they were sent: both are
  assumptions of ContainedUnit about systemd.
- `_json_size_upper_bound` is no upper bound for lists of digits; the real length is
  checked afterwards, so that nothing longer passes.
- The planning trial reads HEAD at two instants. A commit made and undone in between
  is not noticed.

## 8. What is not modelled

- *Pure I/O and set-up*: parsing of configuration, contracts and review artifacts;
  command lines and environments; the attestation of the container runtime, which
  reads the host and keeps nothing; scripts.
- *Parts of modelled files*: the verifier of a whole tree and the parsers of
  manifests and blobs; the fixed proof payload of `attested_workspace_payload.py`;
  the default wiring of `mutation_dependencies.py`; read-only calls (`records`,
  `get`, `current`, `history`, `summary`).
- *External code*, modelled from how it is used: SQLite as serial transactions that
  roll back whole; Git, podman, systemd and the file system step by step where the
  code depends on the steps. A leaf is assumed not to change and change back within
  one tick of the file system's clock (AdminBinding).
- Paths with more than one directory in them (WorkspaceTree): the code makes the
  directories of a path one by one in the same loop.

## 9. The plan

Done, in this order, most important first: leases; task states; run ledger and
controller; reviews; capabilities; binding; registration; tree; text replacement;
the planning trial with the bounded process, the transient unit, the runtime, the
event stream and the plan contract; the proofs of section 6.

Left to model: the contract of review artifacts (`review_contract.py`); the tree
verifier, as a part of WorkspaceTree; the attestation of the container runtime, of
interest for the instants at which it looks at the host.

Left to prove: of what the runs check, nothing but the liveness properties, which
stay with TLC. Worth stating and proving next are safety facts that liveness rests on
(as `CapabilitiesNeverDeadlock` is): that a controller, a contained call and a
registration always have a step of their own or wait for a process that does.
