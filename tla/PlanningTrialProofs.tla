-------------------------- MODULE PlanningTrialProofs --------------------------
(***************************************************************************)
(* Proofs about the planning trial: what an output, an ended call, a       *)
(* staged runtime, an event stream, an accepted plan and a record can be   *)
(* relied on for, for any limits, files, plans and revisions.              *)
(***************************************************************************)
EXTENDS PlanningTrial, SequenceTheorems, FiniteSetTheorems, WellFoundedInduction, TLAPS

-----------------------------------------------------------------------------
(* The bounded process. *)

Counters == [Streams -> Nat]

\* The types of the state of a bounded process.
ProcessShape ==
    /\ child \in {"running", "killed", "ended"}
    /\ holders \subseteq {"group", "apart"}
    /\ written \in Counters /\ taken \in Counters
    /\ hand \in Counters /\ kept \in Counters
    /\ reader \in [Streams -> {"reading", "counting", "checking", "done"}]
    /\ overflow \in BOOLEAN /\ broken \in BOOLEAN
    /\ stop \in BOOLEAN /\ timedOut \in BOOLEAN
    /\ main \in {"idle", "waiting", "reaping", "joining", "stopping", "answered"}
    /\ answer \in {"none", "output", "failed"}

\* What one reader has taken is kept, is in its hand, or was dropped.
Accounted ==
    /\ Kept <= Limit
    /\ \A s \in Streams :
          /\ reader[s] # "counting" => hand[s] = 0
          /\ ~overflow => kept[s] + hand[s] = taken[s]

\* A reader that ended by itself had read everything, and nobody can write any more.
Drained ==
    main \notin {"idle", "answered"} \/ answer = "output" =>
        \A s \in Streams :
            reader[s] = "done" /\ ~stop /\ ~broken /\ ~overflow =>
                ~Open /\ taken[s] = written[s]

\* How far the caller is, and what it knows by then.
Called ==
    /\ main = "idle" => \A s \in Streams : reader[s] = "done"
    /\ main \notin {"idle", "waiting"} => timedOut \/ child = "ended" \/ answer = "failed"
    /\ main # "answered" => answer = "none"
    /\ answer = "output" => ~Alive /\ ~timedOut /\ ~overflow /\ ~broken

ProcessInvariant == ProcessShape /\ Accounted /\ Drained /\ Called

\* A step of the child, the unit or the other processes around them.
World ==
    /\ child' \in {child, "ended"}
    /\ holders' \subseteq {"group", "apart"}
    /\ written' \in Counters
    /\ ~Open => ~Open' /\ written' = written
    /\ UNCHANGED <<threads, caller>>

LEMMA ProcessInit == Quiet => ProcessInvariant
  <1> SUFFICES ASSUME Quiet PROVE ProcessInvariant
    OBVIOUS
  <1>1. ProcessShape
    BY DEF Quiet, ProcessShape, Counters
  <1>2. Accounted
    BY LimitAssumption DEF Quiet, Accounted, Kept, Streams
  <1>3. Drained /\ Called
    BY DEF Quiet, Drained, Called
  <1> QED
    BY <1>1, <1>2, <1>3 DEF ProcessInvariant

\* Killing the group leaves the types alone, and never opens a pipe.
LEMMA KillGroupCloses ==
    ASSUME ProcessShape, KillGroup
    PROVE  /\ child' \in {"running", "killed", "ended"}
           /\ holders' \subseteq {"group", "apart"}
           /\ child = "ended" => child' = "ended"
           /\ ~Open => ~Open'
  BY DEF ProcessShape, KillGroup, Open

LEMMA BeginStep == ProcessInvariant /\ (Begin \/ BeginFails) => ProcessInvariant'
  <1> SUFFICES ASSUME ProcessInvariant, Begin \/ BeginFails PROVE ProcessInvariant'
    OBVIOUS
  <1> USE DEF ProcessInvariant
  <1>1. ProcessShape'
    BY DEF ProcessShape, Begin, BeginFails, world, threads
  <1>2. Accounted'
    BY DEF ProcessShape, Accounted, Called, Kept, Begin, BeginFails, threads
  <1>3. Drained'
    BY DEF ProcessShape, Drained, Begin, BeginFails, world, threads
  <1>4. Called'
    BY DEF Called, Begin, BeginFails, world, threads
  <1> QED
    BY <1>1, <1>2, <1>3, <1>4

LEMMA WorldStep == ProcessInvariant /\ World => ProcessInvariant'
  <1> SUFFICES ASSUME ProcessInvariant, World PROVE ProcessInvariant'
    OBVIOUS
  <1> USE DEF ProcessInvariant, World, threads, caller
  <1>1. ProcessShape'
    BY DEF ProcessShape
  <1>2. Accounted'
    BY DEF Accounted, Kept
  <1>3. Drained'
    BY DEF Drained
  <1>4. Called'
    BY DEF Called, Alive
  <1> QED
    BY <1>1, <1>2, <1>3, <1>4

LEMMA ForgetStep == ProcessInvariant /\ Forget /\ child' = child => ProcessInvariant'
  <1> SUFFICES ASSUME ProcessInvariant, Forget, child' = child PROVE ProcessInvariant'
    OBVIOUS
  <1> USE DEF ProcessInvariant, Forget
  <1>1. ProcessShape'
    BY DEF ProcessShape, Counters
  <1>2. Accounted'
    BY LimitAssumption DEF Accounted, Kept, Streams
  <1>3. Drained' /\ Called'
    BY DEF Drained, Called
  <1> QED
    BY <1>1, <1>2, <1>3

\* The steps of one reader, which are the only ones that move its counters.
LEMMA ReaderStep ==
    ASSUME ProcessInvariant, NEW s \in Streams, Reader(s) \/ ReadFails(s)
    PROVE  ProcessInvariant'
  <1> USE DEF ProcessInvariant, ReaderAt
  <1>1. CASE Read(s)
    <2>1. PICK n \in 1 .. written[s] - taken[s] :
              /\ taken' = [taken EXCEPT ![s] = @ + n]
              /\ hand' = [hand EXCEPT ![s] = n]
      BY <1>1 DEF Read
    <2>2. /\ reader[s] = "reading" /\ reader' = [reader EXCEPT ![s] = "counting"]
          /\ UNCHANGED <<world, written, kept, writer, overflow, broken, caller>>
      BY <1>1 DEF Read
    <2> USE <2>1, <2>2 DEF world, caller
    <2>3. n \in Nat
      BY DEF ProcessShape, Counters
    <2>4. ProcessShape'
      BY <2>3 DEF ProcessShape, Counters
    <2>5. Accounted'
      BY <2>3 DEF ProcessShape, Counters, Accounted, Kept
    <2>6. Drained'
      BY DEF ProcessShape, Drained, Open, Called, Alive
    <2>7. Called'
      BY DEF ProcessShape, Called, Alive
    <2> QED
      BY <2>4, <2>5, <2>6, <2>7
  <1>2. CASE Count(s)
    <2> DEFINE room == Limit - Kept
               accepted == IF hand[s] <= room THEN hand[s] ELSE room
    <2>1. /\ reader[s] = "counting" /\ reader' = [reader EXCEPT ![s] = "checking"]
          /\ kept' = [kept EXCEPT ![s] = @ + accepted]
          /\ overflow' = (overflow \/ accepted < hand[s])
          /\ hand' = [hand EXCEPT ![s] = 0]
          /\ UNCHANGED <<world, written, taken, writer, broken, caller>>
      BY <1>2 DEF Count
    <2>2. Kept \in Nat /\ room \in Nat
      BY LimitAssumption DEF ProcessShape, Counters, Accounted, Kept, Streams
    <2>3. accepted \in Nat /\ accepted <= room /\ accepted <= hand[s]
      BY <2>2 DEF ProcessShape, Counters
    <2> HIDE DEF accepted
    <2> USE <2>1 DEF world, caller
    <2>4. ProcessShape'
      BY <2>3 DEF ProcessShape, Counters
    <2>5. Kept' = Kept + accepted
      BY <2>3, StreamsAssumption DEF ProcessShape, Counters, Kept, Streams
    <2>6. Kept' <= Limit
      BY <2>2, <2>3, <2>5, LimitAssumption
    <2>7. ASSUME NEW t \in Streams, ~overflow' PROVE kept'[t] + hand'[t] = taken'[t]
      <3>0. ~overflow /\ ~(accepted < hand[s])
        BY <2>7, <2>1, Zenon
      <3>1. ~overflow /\ accepted = hand[s]
        BY <3>0, <2>3 DEF ProcessShape, Counters
      <3>2. kept[t] + hand[t] = taken[t]
        BY <3>1 DEF Accounted
      <3>3. CASE t = s
        BY <3>1, <3>2, <3>3, <2>3 DEF ProcessShape, Counters
      <3>4. CASE t # s
        BY <3>2, <3>4 DEF ProcessShape, Counters
      <3> QED
        BY <3>3, <3>4
    <2>8. Accounted'
      BY <2>6, <2>7 DEF ProcessShape, Counters, Accounted
    <2>9. Drained'
      BY DEF ProcessShape, Drained, Open, Called, Alive
    <2>10. Called'
      BY DEF ProcessShape, Called, Alive
    <2> QED
      BY <2>4, <2>8, <2>9, <2>10
  <1>3. CASE ReadEnd(s)
    <2> USE <1>3 DEF ReadEnd, world, caller
    <2>1. ProcessShape'
      BY DEF ProcessShape
    <2>2. Accounted'
      BY DEF ProcessShape, Accounted, Kept
    <2>3. Drained'
      BY DEF ProcessShape, Drained, Open
    <2>4. Called'
      BY DEF ProcessShape, Called, Alive
    <2> QED
      BY <2>1, <2>2, <2>3, <2>4
  <1>4. CASE ReadStopped(s) \/ ReadOn(s)
    <2> USE <1>4 DEF ReadStopped, ReadOn, world, caller
    <2>1. ProcessShape'
      <3>1. reader' \in [Streams -> {"reading", "counting", "checking", "done"}]
        BY DEF ProcessShape
      <3> QED
        BY <3>1, ZenonT(30) DEF ProcessShape
    <2>2. Accounted'
      BY DEF ProcessShape, Accounted, Kept
    <2>3. Drained'
      BY DEF ProcessShape, Drained, Open, Called, Alive
    <2>4. Called'
      BY DEF ProcessShape, Called, Alive
    <2> QED
      BY <2>1, <2>2, <2>3, <2>4
  <1>5. CASE GiveUp(s) \/ ReadFails(s)
    <2> USE <1>5, KillGroupCloses DEF GiveUp, ReadFails, caller
    <2>1. ProcessShape'
      <3>1. reader' \in [Streams -> {"reading", "counting", "checking", "done"}]
        BY DEF ProcessShape
      <3> QED
        BY <3>1, ZenonT(30) DEF ProcessShape
    <2>2. Accounted'
      BY DEF ProcessShape, Accounted, Kept
    <2>3. Drained'
      BY DEF ProcessShape, Drained, Called, Alive
    <2>4. Called'
      BY DEF ProcessShape, Called, Alive
    <2> QED
      BY <2>1, <2>2, <2>3, <2>4
  <1> QED
    BY <1>1, <1>2, <1>3, <1>4, <1>5 DEF Reader

LEMMA WorkersStep == ProcessInvariant /\ Workers => ProcessInvariant'
  <1> SUFFICES ASSUME ProcessInvariant, Workers PROVE ProcessInvariant'
    OBVIOUS
  <1>1. CASE InputTaken \/ WriteStops
    <2> USE <1>1 DEF ProcessInvariant, InputTaken, WriteStops, Written, world, caller
    <2>1. ProcessShape'
      BY ZenonT(30) DEF ProcessShape
    <2>2. Accounted'
      BY DEF Accounted, Kept
    <2>3. Drained'
      BY DEF Drained, Open
    <2>4. Called'
      BY DEF Called, Alive
    <2> QED
      BY <2>1, <2>2, <2>3, <2>4
  <1>2. CASE WriteFails
    <2> USE <1>2, KillGroupCloses DEF ProcessInvariant, WriteFails, caller
    <2>1. ProcessShape'
      BY DEF ProcessShape
    <2>2. Accounted'
      BY DEF Accounted, Kept
    <2>3. Drained'
      BY DEF Drained, ProcessShape, Called, Alive
    <2>4. Called'
      BY DEF Called, ProcessShape, Alive
    <2> QED
      BY <2>1, <2>2, <2>3, <2>4
  <1> QED
    BY <1>1, <1>2, ReaderStep DEF Workers

LEMMA CallerStep == ProcessInvariant /\ Caller => ProcessInvariant'
  <1> SUFFICES ASSUME ProcessInvariant, Caller PROVE ProcessInvariant'
    OBVIOUS
  <1> USE DEF ProcessInvariant
  <1>1. CASE Return \/ Reap
    <2> USE <1>1 DEF Return, Reap, world, threads
    <2>1. ProcessShape'
      BY DEF ProcessShape
    <2>2. Accounted'
      BY DEF Accounted, Kept
    <2>3. Drained'
      BY DEF Drained, Open
    <2>4. Called'
      BY DEF Called
    <2> QED
      BY <2>1, <2>2, <2>3, <2>4
  <1>2. CASE TimeOut \/ StopWorkers
    <2> USE <1>2, KillGroupCloses DEF TimeOut, StopWorkers, threads
    <2>1. ProcessShape'
      BY DEF ProcessShape
    <2>2. Accounted'
      BY DEF Accounted, Kept
    <2>3. Drained'
      BY DEF Drained
    <2>4. Called'
      BY DEF Called, ProcessShape
    <2> QED
      BY <2>1, <2>2, <2>3, <2>4
  <1>3. CASE Judge
    <2> USE <1>3 DEF Judge, world, threads
    <2>1. ProcessShape'
      BY DEF ProcessShape
    <2>2. Accounted'
      BY DEF Accounted, Kept
    <2>3. Drained'
      BY DEF Drained, Open
    <2>4. Called'
      BY DEF Called, Alive
    <2> QED
      BY <2>1, <2>2, <2>3, <2>4
  <1> QED
    BY <1>1, <1>2, <1>3 DEF Caller

-----------------------------------------------------------------------------
(* The unit and the staged runtime. *)

\* Nothing of an earlier call is left: no client, no unit and no process of it.
Free == child # "running" /\ Gone /\ "apart" \notin holders

\* The types of the state of a contained call, and when it can be where.
CallShape ==
    /\ step \in {"idle", "staged", "running", "stop", "kill", "verify", "reset", "clean", "returned"}
    /\ stage \in {"idle", "probing", "checking", "executing", "returned"}
    /\ launcher \in {"none", "staged", "removed", "unresolved"}
    /\ outcome \in {"none", "failed", "output", "uncontained"}
    /\ result \in {"none", "failed", "output"}
    /\ trial # "crashed" =>
          /\ step # "idle" => stage \in {"probing", "executing"}
          /\ stage # "idle" => planner # "idle"
          /\ stage \notin {"idle", "returned"} => planner = "executing"
          /\ planner # "idle" => trial \in {"planning", "recorded", "refused"}
          /\ trial \in {"recorded", "refused"} => planner \in {"idle", "returned"}
          /\ child = "running" => main = "waiting"
    /\ trial = "crashed" => step = "idle"
    /\ step # "running" => main \in {"idle", "answered"}
    /\ step \in {"idle", "staged", "returned"} => main = "idle"

\* Before a call and after its verification nothing is left of an earlier one.
Freed ==
    trial # "crashed" =>
        /\ stage # "returned" /\ step \in {"idle", "staged"} => Free
        /\ step = "reset" => Free
        /\ step \in {"clean", "returned"} /\ outcome # "uncontained" => Free

\* What was staged is removed, or cannot be resolved, before the call returns.
Removes ==
    trial # "crashed" =>
        /\ step \in {"idle", "returned"} => launcher # "staged"
        /\ planner # "executing" => workdir # "made"

Pins == stage = "checking" => Files \subseteq pinned \cup changed \cup unchecked

\* A launcher that could not be resolved ends its call, with it the trial, and
\* nothing of a unit is there.
GivenUp ==
    /\ stage # "returned" => result = "none"
    /\ planner # "returned" => reply = "none"
    /\ trial # "crashed" /\ launcher = "unresolved" =>
          /\ Free
          /\ \/ step = "returned" /\ outcome = "failed"
             \/ step = "idle" /\ stage = "returned"
          /\ result # "output"
          /\ planner \in {"executing", "returned"} /\ reply # "plan"
          /\ trial # "recorded"

CallInvariant == CallShape /\ Freed /\ Removes /\ Pins /\ GivenUp

-----------------------------------------------------------------------------
(* Which steps there are, for each part of the state. *)

\* Steps of the trial around the planner.
AroundPlanner ==
    \/ Unavailable \/ LookBefore \/ AskSize \/ OpenBlob \/ ReadChunk \/ Loaded
    \/ LookAfter \/ LookAfterFails

\* Steps of the planner around the runtime.
AroundRuntime ==
    \/ RefusePlanner \/ StartPlanner \/ LeaveDirectory \/ ReadEvent
    \/ EndOfStream \/ InvalidOutput \/ JudgePlan \/ PlanAccepted \/ PlanRejected

LEMMA StepCases ==
    ASSUME [Next]_vars
    PROVE  \/ AroundPlanner
           \/ trial = "planning" /\ AroundRuntime /\ UNCHANGED trialVars
           \/ /\ trial = "planning" /\ planner = "executing" /\ Attesting
              /\ UNCHANGED <<planVars, streamVars, plannerVars, trialVars>>
           \/ Others
           \/ Crash
           \/ UNCHANGED vars
  BY DEF Next, TrialStep, RunPlanner, Planning, Execute, AroundPlanner, AroundRuntime

LEMMA AroundPlannerSteps == AroundPlanner => UNCHANGED providerVars
  BY DEF AroundPlanner, Unavailable, Refuse, LookBefore, AskSize, OpenBlob, ReadChunk,
         Loaded, LookAfter, LookAfterFails

LEMMA AroundRuntimeSteps == AroundRuntime => UNCHANGED attestedVars
  BY DEF AroundRuntime, RefusePlanner, StartPlanner, LeaveDirectory, ReadEvent,
         EndOfStream, InvalidOutput, JudgePlan, PlanAccepted, PlanRejected, providerVars

LEMMA OutsideSteps ==
    ASSUME ProcessShape, Outside
    PROVE  World
  <1> USE DEF ProcessShape, World, Open, threads, caller, processVars, world
  <1>1. CASE RequestUnit
    BY <1>1 DEF RequestUnit
  <1>2. CASE Systemd
    BY <1>2 DEF Systemd, StartUnit, RefuseUnit, UnitTimesOut, UnitEnds, Deactivated
  <1>3. CASE UnitEnds
    BY <1>3 DEF UnitEnds
  <1>4. CASE LeftoverEnds
    BY <1>4 DEF LeftoverEnds, HolderEnds
  <1>5. CASE End \/ Fork("group") \/ HolderEnds("group")
    BY <1>5 DEF End, Fork, HolderEnds
  <1>6. ASSUME NEW s \in Streams, Write(s) PROVE World
    <2>1. written' \in Counters
      BY <1>6 DEF Write, Counters
    <2> QED
      BY <1>6, <2>1 DEF Write
  <1> QED
    BY <1>1, <1>2, <1>3, <1>4, <1>5, <1>6 DEF Outside

LEMMA AttestingSteps ==
    ASSUME Attesting
    PROVE  \/ Begin \/ BeginFails \/ Caller
           \/ Forget /\ child' = child
           \/ UNCHANGED processVars
  <1>1. CASE Contained
    BY <1>1 DEF Contained, RootUnresolved, Overlaps, LauncherChanged, Delegate, Collect, Stop, Kill,
                Verify, CleanupFails, ResetFailed, RemoveLauncher
  <1>2. CASE Waiting
    BY <1>2 DEF Waiting
  <1>3. CASE ~Contained /\ ~Waiting
    BY <1>3 DEF Attesting, StageRuntime, StagingFails, CallBoundary, StageLauncher,
                StageFails, Probed, ProbeFails, HashFails, Install, Executed, Hash,
                containedVars
  <1> QED
    BY <1>1, <1>2, <1>3

\* Every step of the trial is one of the bounded process or leaves it alone.
LEMMA ProcessStep == ProcessInvariant /\ [Next]_vars => ProcessInvariant'
  <1> SUFFICES ASSUME ProcessInvariant, [Next]_vars PROVE ProcessInvariant'
    OBVIOUS
  <1>u. ASSUME UNCHANGED processVars PROVE ProcessInvariant'
    BY <1>u DEF processVars, world, threads, caller, ProcessInvariant, ProcessShape,
                Accounted, Kept, Drained, Called, Open, Alive
  <1>1. CASE AroundPlanner
    BY <1>1, <1>u, AroundPlannerSteps DEF providerVars, attestedVars, containedVars
  <1>2. CASE AroundRuntime
    BY <1>2, <1>u, AroundRuntimeSteps DEF attestedVars, containedVars
  <1>3. CASE Attesting
    BY <1>3, <1>u, AttestingSteps, BeginStep, CallerStep, ForgetStep
  <1>4. CASE Others
    <2>1. CASE Outside
      BY <2>1, OutsideSteps, WorldStep DEF ProcessInvariant
    <2>2. CASE \E f \in Files : Tamper(f)
      BY <2>2, <1>u DEF Tamper, containedVars
    <2>3. CASE Threads
      BY <2>3, WorkersStep DEF Threads
    <2> QED
      BY <1>4, <2>1, <2>2, <2>3 DEF Others, Around
  <1>5. CASE Crash
    BY <1>5, ForgetStep DEF Crash
  <1>6. CASE UNCHANGED vars
    BY <1>6, <1>u DEF vars, providerVars, attestedVars, containedVars
  <1> QED
    BY <1>1, <1>2, <1>3, <1>4, <1>5, <1>6, StepCases

-----------------------------------------------------------------------------
(* The invariant of the calls. *)

LEMMA CallInit == Init => CallInvariant
  <1> SUFFICES ASSUME Init PROVE CallInvariant
    OBVIOUS
  <1> USE DEF Init, NoPlanner, NoRuntime, NoCall, Quiet
  <1>1. CallShape
    BY DEF CallShape
  <1>2. Freed /\ Removes /\ Pins /\ GivenUp
    BY DEF Freed, Removes, Pins, GivenUp, Free, Gone
  <1> QED
    BY <1>1, <1>2 DEF CallInvariant

\* The steps of the trial and of the planner leave the runtime alone, and begin and
\* end a run of the planner only where no call of the runtime is under way.
LEMMA CallAroundPlanner == CallInvariant /\ AroundPlanner => CallInvariant'
  <1> SUFFICES ASSUME CallInvariant, AroundPlanner PROVE CallInvariant'
    OBVIOUS
  <1> USE DEF CallInvariant, providerVars, attestedVars, containedVars, processVars,
              world, caller, unitVars, runtimeVars, plannerVars
  <1>1. /\ UNCHANGED providerVars
        /\ trial # "crashed" /\ trial' # "crashed"
        /\ trial' \in {"sizing", "opening", "reading", "planning"} \cup {trial}
              => trial' = trial \/ planner = "idle"
        /\ trial' \in {"recorded", "refused"} => planner \in {"idle", "returned"}
        /\ trial \notin {"recorded", "refused"}
        /\ trial' \notin {"planning", "recorded", "refused"} => planner = "idle"
    BY AroundPlannerSteps
       DEF AroundPlanner, Unavailable, Refuse, LookBefore, AskSize, OpenBlob, ReadChunk,
           Loaded, Go, LookAfter, LookAfterFails, CallShape
  <1>2. CallShape'
    BY <1>1 DEF CallShape
  <1>3. Freed' /\ Removes' /\ Pins'
    BY <1>1 DEF Freed, Removes, Pins, Free, Gone
  <1>4. GivenUp'
    <2>1. reply # "plan" => trial' # "recorded"
      BY DEF AroundPlanner, Unavailable, Refuse, LookBefore, AskSize, OpenBlob, ReadChunk,
             Loaded, Go, LookAfter, LookAfterFails
    <2> QED
      BY <1>1, <2>1 DEF GivenUp, Free, Gone
  <1> QED
    BY <1>2, <1>3, <1>4

LEMMA CallAroundRuntime ==
    CallInvariant /\ trial = "planning" /\ AroundRuntime /\ UNCHANGED trialVars
        => CallInvariant'
  <1> SUFFICES ASSUME CallInvariant, trial = "planning", AroundRuntime, UNCHANGED trialVars
               PROVE  CallInvariant'
    OBVIOUS
  <1> USE DEF CallInvariant, attestedVars, containedVars, processVars, world, caller,
              unitVars, runtimeVars, trialVars
  <1>1. /\ UNCHANGED attestedVars /\ trial' = trial
        /\ planner' # "idle"
        /\ stage \notin {"idle", "returned"} => planner' = "executing"
        /\ planner' # "executing" => workdir' # "made"
    <2> USE AroundRuntimeSteps DEF CallShape, Removes, plannerVars
    <2>1. CASE RefusePlanner \/ StartPlanner \/ LeaveDirectory
      BY <2>1 DEF AroundRuntime, RefusePlanner, StartPlanner, LeaveDirectory, PlannerFails
    <2>2. CASE ReadEvent \/ EndOfStream \/ InvalidOutput
      BY <2>2 DEF ReadEvent, EndOfStream, InvalidOutput, PlannerFails
    <2>3. CASE JudgePlan \/ PlanAccepted \/ PlanRejected
      BY <2>3 DEF JudgePlan, PlanAccepted, PlanRejected, PlannerFails
    <2> QED
      BY <2>1, <2>2, <2>3 DEF AroundRuntime
  <1>2. CallShape'
    BY <1>1 DEF CallShape
  <1>3. Freed' /\ Removes' /\ Pins'
    BY <1>1 DEF Freed, Removes, Pins, Free, Gone
  <1>4. /\ planner' # "returned" => reply' = "none"
        /\ launcher = "unresolved" => planner' \in {"executing", "returned"} /\ reply' # "plan"
    <2> USE DEF CallShape, GivenUp, plannerVars
    <2>1. CASE RefusePlanner \/ StartPlanner \/ LeaveDirectory
      BY <2>1 DEF RefusePlanner, StartPlanner, LeaveDirectory, PlannerFails
    <2>2. CASE ReadEvent \/ EndOfStream \/ InvalidOutput
      BY <2>2 DEF ReadEvent, EndOfStream, InvalidOutput, PlannerFails
    <2>3. CASE JudgePlan \/ PlanAccepted \/ PlanRejected
      BY <2>3 DEF JudgePlan, PlanAccepted, PlanRejected, PlannerFails
    <2> QED
      BY <2>1, <2>2, <2>3 DEF AroundRuntime
  <1>5. GivenUp'
    BY <1>1, <1>4 DEF GivenUp, Free, Gone
  <1> QED
    BY <1>2, <1>3, <1>5

\* The steps of execute_attested_codex itself.
LEMMA CallRuntime ==
    ASSUME CallInvariant, trial = "planning", planner = "executing",
           UNCHANGED <<plannerVars, trialVars>>,
           \/ StageRuntime \/ StagingFails \/ CallBoundary \/ Probed \/ ProbeFails
           \/ HashFails \/ Install \/ Executed \/ \E f \in Files : Hash(f)
    PROVE  CallInvariant'
  <1> USE DEF CallInvariant, containedVars, processVars, world, caller, unitVars,
              runtimeVars, trialVars, plannerVars
  <1>1. CASE StageRuntime \/ StagingFails \/ HashFails \/ Install
    <2> USE <1>1 DEF StageRuntime, StagingFails, HashFails, Install, Unattested
    <2>1. CallShape'
      BY DEF CallShape
    <2>2. Freed'
      BY DEF Freed, Free, Gone
    <2>3. Removes' /\ Pins'
      BY DEF Removes, Pins
    <2>4. GivenUp'
      BY DEF CallShape, GivenUp, Freed, Free, Gone
    <2> QED
      BY <2>1, <2>2, <2>3, <2>4
  <1>2. CASE CallBoundary
    <2> USE <1>2 DEF CallBoundary, StageLauncher, StageFails, At
    <2>1. CallShape'
      BY DEF CallShape
    <2>2. Freed'
      BY DEF Freed, Free, Gone
    <2>3. Removes' /\ Pins'
      BY DEF Removes, Pins
    <2>4. GivenUp'
      BY DEF CallShape, GivenUp, Freed, Free, Gone
    <2> QED
      BY <2>1, <2>2, <2>3, <2>4
  <1>3. CASE Probed \/ ProbeFails \/ Executed
    <2> USE <1>3 DEF Probed, ProbeFails, Executed, Returned, Unattested
    <2>1. CallShape'
      BY DEF CallShape
    <2>2. Freed'
      BY DEF Freed, Free, Gone
    <2>3. Removes' /\ Pins'
      BY DEF Removes, Pins
    <2>4. GivenUp'
      BY DEF CallShape, GivenUp, Freed, Free, Gone
    <2> QED
      BY <2>1, <2>2, <2>3, <2>4
  <1>4. ASSUME NEW f \in Files, Hash(f) PROVE CallInvariant'
    <2> USE <1>4 DEF Hash
    <2>1. CallShape'
      BY DEF CallShape
    <2>2. Freed' /\ Removes' /\ GivenUp'
      BY DEF Freed, Free, Gone, Removes, GivenUp
    <2>3. Pins'
      BY DEF Pins
    <2> QED
      BY <2>1, <2>2, <2>3
  <1> QED
    BY <1>1, <1>2, <1>3, <1>4

\* The steps of one contained call.
LEMMA CallContained ==
    ASSUME ProcessInvariant, CallInvariant, trial = "planning", planner = "executing",
           UNCHANGED <<plannerVars, trialVars, runtimeVars>>,
           Contained \/ Waiting
    PROVE  CallInvariant'
  <1> USE DEF CallInvariant, containedVars, processVars, world, caller, unitVars,
              runtimeVars, trialVars, plannerVars
  <1>1. CASE RootUnresolved \/ Overlaps \/ LauncherChanged \/ Delegate
    <2> USE <1>1 DEF RootUnresolved, Overlaps, LauncherChanged, Delegate, Begin, BeginFails, At
    <2>1. CallShape'
      BY DEF CallShape
    <2>2. Freed'
      BY DEF CallShape, Freed, Free, Gone
    <2>3. Removes' /\ Pins'
      BY DEF Removes, Pins
    <2>4. GivenUp'
      BY DEF CallShape, GivenUp, Freed, Free, Gone
    <2> QED
      BY <2>1, <2>2, <2>3, <2>4
  <1>2. CASE Collect \/ Stop \/ Kill \/ Verify
    <2> USE <1>2 DEF Collect, Stop, Kill, Verify, At
    <2>1. CallShape'
      BY DEF CallShape, ProcessInvariant, ProcessShape
    <2>2. Freed'
      BY DEF CallShape, Freed, Free, Gone
    <2>3. Removes' /\ Pins'
      BY DEF Removes, Pins
    <2>4. GivenUp'
      BY DEF CallShape, GivenUp, Freed, Free, Gone
    <2> QED
      BY <2>1, <2>2, <2>3, <2>4
  <1>3. CASE CleanupFails \/ ResetFailed \/ RemoveLauncher
    <2> USE <1>3 DEF CleanupFails, ResetFailed, RemoveLauncher, Forget, At
    <2>1. CallShape'
      BY DEF CallShape
    <2>2. Freed'
      BY DEF CallShape, Freed, Free, Gone
    <2>3. Removes' /\ Pins'
      BY DEF Removes, Pins
    <2>4. GivenUp'
      BY DEF CallShape, GivenUp, Freed, Free, Gone
    <2> QED
      BY <2>1, <2>2, <2>3, <2>4
  <1>4. CASE Waiting
    <2> USE <1>4 DEF Waiting
    <2>1. child' = "running" => main' = "waiting"
      BY DEF Caller, Return, TimeOut, Reap, StopWorkers, Judge, KillGroup, CallShape,
             threads
    <2>2. CallShape'
      BY <2>1 DEF CallShape
    <2>3. Freed' /\ Removes' /\ Pins' /\ GivenUp'
      BY DEF Freed, Removes, Pins, GivenUp
    <2> QED
      BY <2>2, <2>3
  <1> QED
    BY <1>1, <1>2, <1>3, <1>4 DEF Contained

\* What happens around the call never brings a unit or a client back.
LEMMA CallOthers == ProcessInvariant /\ CallInvariant /\ Others => CallInvariant'
  <1> SUFFICES ASSUME ProcessInvariant, CallInvariant, Others PROVE CallInvariant'
    OBVIOUS
  <1> USE DEF CallInvariant, containedVars, processVars, world, caller, unitVars,
              runtimeVars, trialVars, plannerVars
  <1>o. UNCHANGED <<trial, planner, workdir, reply>>
    BY DEF Others
  <1>1. ASSUME NEW f \in Files, Tamper(f) PROVE CallInvariant'
    <2> USE <1>o, <1>1 DEF Tamper
    <2>1. CallShape'
      BY DEF CallShape
    <2>2. Freed' /\ Removes' /\ GivenUp'
      BY DEF Freed, Free, Gone, Removes, GivenUp
    <2>3. Pins'
      BY DEF Pins
    <2> QED
      BY <2>1, <2>2, <2>3
  <1>2. CASE Outside /\ UNCHANGED runtimeVars
    <2>1. child' \in {child, "ended"} /\ main' = main
      BY <1>2, OutsideSteps DEF ProcessInvariant, World
    <2>2. UNCHANGED <<step, outcome, launcher>>
      BY <1>2 DEF Outside, RequestUnit, Systemd, StartUnit, RefuseUnit, UnitTimesOut,
                  UnitEnds, Deactivated, LeftoverEnds
    <2>3. Free => Free'
      <3> USE DEF Free, Gone
      <3>1. CASE RequestUnit \/ Systemd \/ UnitEnds
        BY <2>1, <3>1 DEF RequestUnit, Systemd, StartUnit, RefuseUnit, UnitTimesOut,
                          UnitEnds, Deactivated
      <3>2. CASE LeftoverEnds
        BY <2>1, <3>2 DEF LeftoverEnds, HolderEnds
      <3>3. CASE ~(RequestUnit \/ Systemd \/ UnitEnds \/ LeftoverEnds)
        BY <1>2, <2>1, <3>3 DEF Outside, End, Fork, HolderEnds, Write
      <3> QED
        BY <3>1, <3>2, <3>3
    <2>4. CallShape'
      BY <1>o, <1>2, <2>1, <2>2 DEF CallShape
    <2>5. Freed'
      BY <1>o, <1>2, <2>2, <2>3 DEF Freed
    <2>6. Removes' /\ Pins' /\ GivenUp'
      BY <1>o, <1>2, <2>2, <2>3 DEF Removes, Pins, GivenUp
    <2> QED
      BY <2>4, <2>5, <2>6
  <1>3. CASE Threads /\ UNCHANGED runtimeVars
    <2>1. step = "running" /\ UNCHANGED <<main, unitVars>>
      BY <1>3 DEF Threads, Workers, Reader, Read, ReadEnd, ReadStopped, Count, ReadOn,
                  GiveUp, ReadFails, InputTaken, WriteStops, Written, WriteFails
    <2>2. child' = "running" => child = "running"
      BY <1>3 DEF Threads, Workers, Reader, Read, ReadEnd, ReadStopped, Count, ReadOn,
                  GiveUp, ReadFails, InputTaken, WriteStops, Written, WriteFails, KillGroup
    <2>3. CallShape'
      BY <1>o, <1>3, <2>1, <2>2 DEF CallShape
    <2>4. Freed' /\ Removes' /\ Pins' /\ GivenUp'
      BY <1>o, <1>3, <2>1 DEF Freed, Removes, Pins, GivenUp
    <2> QED
      BY <2>3, <2>4
  <1> QED
    BY <1>1, <1>2, <1>3 DEF Others, Around

LEMMA CallStep == ProcessInvariant /\ CallInvariant /\ [Next]_vars => CallInvariant'
  <1> SUFFICES ASSUME ProcessInvariant, CallInvariant, [Next]_vars PROVE CallInvariant'
    OBVIOUS
  <1>1. CASE /\ trial = "planning" /\ planner = "executing" /\ Attesting
             /\ UNCHANGED <<planVars, streamVars, plannerVars, trialVars>>
    BY <1>1, CallRuntime, CallContained DEF Attesting
  <1>2. CASE Crash
    <2>1. CallShape'
      BY <1>2 DEF Crash, Forget, CallInvariant, CallShape
    <2>2. Freed' /\ Removes' /\ Pins' /\ GivenUp'
      BY <1>2 DEF Crash, Freed, Removes, Pins, GivenUp
    <2> QED
      BY <2>1, <2>2 DEF CallInvariant
  <1>3. CASE UNCHANGED vars
    BY <1>3 DEF vars, providerVars, attestedVars, containedVars, processVars, world, caller,
                unitVars, runtimeVars, plannerVars, trialVars, CallInvariant, CallShape,
                Freed, Removes, Pins, GivenUp, Free, Gone
  <1> QED
    BY <1>1, <1>2, <1>3, StepCases, CallAroundPlanner, CallAroundRuntime, CallOthers

-----------------------------------------------------------------------------
(* The event stream and the trial. *)

Kinds == {"thread", "turn", "progress", "message", "completed"}

\* The events that were read so far, for what the parser remembers of them.
Streamed ==
    /\ events \in Seq(Kinds)
    /\ Len(events) <= MaxEvents
    /\ threadSeen \in BOOLEAN /\ turnStarted \in BOOLEAN
    /\ turnCompleted \in BOOLEAN /\ finalMessageSeen \in BOOLEAN
    /\ turnStarted => threadSeen
    /\ finalMessageSeen => turnStarted
    /\ turnCompleted => finalMessageSeen
    /\ ~threadSeen => Len(events) = 0
    /\ threadSeen => Len(events) >= 1 /\ events[1] = "thread"
    /\ threadSeen /\ ~turnStarted => Len(events) = 1
    /\ turnStarted => Len(events) >= 2 /\ events[2] = "turn"
    /\ turnStarted /\ ~finalMessageSeen =>
          \A i \in 3 .. Len(events) : events[i] = "progress"
    /\ finalMessageSeen /\ ~turnCompleted =>
          /\ Len(events) >= 3 /\ events[Len(events)] = "message"
          /\ \A i \in 3 .. Len(events) - 1 : events[i] = "progress"
    /\ turnCompleted =>
          /\ Len(events) >= 4
          /\ events[Len(events)] = "completed" /\ events[Len(events) - 1] = "message"
          /\ \A i \in 3 .. Len(events) - 2 : events[i] = "progress"

\* What the planner and the trial have done by the time they are where they are.
Recorded ==
    /\ planner \in {"idle", "executing", "streaming", "judging", "returned"}
    /\ planner = "judging" \/ reply = "plan" => StreamEnds
    /\ reply = "plan" => planner = "returned" /\ verdict = "accepted"
    /\ trial \notin {"idle", "refused", "crashed"} => seen = {Base}
    /\ trial \in {"opening", "reading", "planning", "recorded"} => size = BacklogSize[Base]
    /\ trial \in {"reading", "planning", "recorded"} => blob = Base
    /\ trial \in {"planning", "recorded"} => payload = size
    /\ trial = "recorded" => reply = "plan"

LEMMA StreamInit == NoStream => Streamed
  <1> SUFFICES ASSUME NoStream PROVE Streamed
    OBVIOUS
  <1>1. events \in Seq(Kinds) /\ Len(events) = 0
    BY EmptySeq DEF NoStream
  <1>2. /\ threadSeen \in BOOLEAN /\ turnStarted \in BOOLEAN
        /\ turnCompleted \in BOOLEAN /\ finalMessageSeen \in BOOLEAN
        /\ ~threadSeen /\ ~turnStarted /\ ~turnCompleted /\ ~finalMessageSeen
    BY DEF NoStream
  <1> QED
    BY <1>1, <1>2, EventsAssumption DEF Streamed

LEMMA EventStep == Streamed /\ Event => Streamed'
  <1> SUFFICES ASSUME Streamed, Event PROVE Streamed'
    OBVIOUS
  <1> USE DEF Streamed
  <1>1. PICK kind \in Kinds : Take(kind)
    BY DEF Event, ThreadStarted, TurnStarted, TurnCompleted, Progress, AgentMessage, Kinds
  <1>2. /\ events' \in Seq(Kinds) /\ Len(events') = Len(events) + 1
        /\ \A i \in 1 .. Len(events) : events'[i] = events[i]
        /\ events'[Len(events) + 1] = kind
        /\ Len(events) < MaxEvents
    BY <1>1, AppendProperties DEF Take
  <1>3. Len(events) \in Nat /\ Len(events') <= MaxEvents
    BY <1>2, LenProperties, EventsAssumption
  <1>k. ASSUME NEW k, Take(k) PROVE events'[Len(events')] = k
    <2>1. events' = Append(events, k) /\ k = events'[Len(events) + 1]
      BY <1>k DEF Take
    <2> QED
      BY <2>1, <1>2, <1>3
  <1> USE <1>2, <1>3
  <1>4. CASE ThreadStarted
    BY <1>4, <1>k DEF ThreadStarted
  <1>5. CASE TurnStarted
    <2>1. /\ threadSeen' = threadSeen /\ turnStarted' = TRUE
          /\ turnCompleted' = turnCompleted /\ finalMessageSeen' = finalMessageSeen
          /\ threadSeen /\ ~turnStarted /\ ~turnCompleted /\ ~finalMessageSeen
      BY <1>5 DEF TurnStarted, InTurn
    <2>2. Len(events) = 1 /\ Len(events') = 2 /\ events'[2] = "turn" /\ events'[1] = "thread"
      <3>1. events'[Len(events')] = "turn"
        BY <1>5, <1>k DEF TurnStarted
      <3>2. Len(events) = 1 /\ Len(events') = 2
        BY <2>1, SMTT(20)
      <3>3. events'[1] = events[1] /\ events[1] = "thread"
        BY <2>1, <3>2
      <3> QED
        BY <3>1, <3>2, <3>3
    <2> QED
      BY <2>1, <2>2
  <1>6. CASE TurnCompleted
    BY <1>6, <1>k DEF TurnCompleted, InTurn
  <1>7. CASE Progress
    BY <1>7, <1>k DEF Progress, InTurn
  <1>8. CASE AgentMessage
    BY <1>8, <1>k DEF AgentMessage, InTurn
  <1> QED
    BY <1>4, <1>5, <1>6, <1>7, <1>8 DEF Event

LEMMA WholeTurn == Streamed /\ StreamEnds => OneWholeTurn
  <1> SUFFICES ASSUME Streamed, StreamEnds PROVE OneWholeTurn
    OBVIOUS
  <1> DEFINE n == Len(events) - 4
             begin == <<"thread", "turn">>
             middle == [i \in 1 .. n |-> "progress"]
             end == <<"message", "completed">>
  <1>1. n \in Nat /\ n \in 0 .. MaxEvents /\ Len(events) = n + 4
    BY LenProperties, EventsAssumption DEF Streamed, StreamEnds
  <1> HIDE DEF n
  <1>2. begin \in Seq(Kinds) /\ Len(begin) = 2 /\ begin[1] = "thread" /\ begin[2] = "turn"
    BY DEF Kinds
  <1>3. end \in Seq(Kinds) /\ Len(end) = 2 /\ end[1] = "message" /\ end[2] = "completed"
    BY DEF Kinds
  <1>4. middle \in Seq(Kinds) /\ Len(middle) = n /\ \A i \in 1 .. n : middle[i] = "progress"
    BY <1>1 DEF Kinds
  <1> HIDE DEF begin, middle, end
  <1>5. /\ begin \o middle \in Seq(Kinds) /\ Len(begin \o middle) = n + 2
        /\ \A i \in 1 .. n + 2 :
              (begin \o middle)[i] = IF i <= 2 THEN begin[i] ELSE middle[i - 2]
    <2>1. /\ begin \o middle \in Seq(Kinds)
          /\ Len(begin \o middle) = Len(begin) + Len(middle)
          /\ \A i \in 1 .. Len(begin) + Len(middle) :
                (begin \o middle)[i] =
                    IF i <= Len(begin) THEN begin[i] ELSE middle[i - Len(begin)]
      BY <1>2, <1>4, ConcatProperties
    <2> QED
      BY <1>1, <1>2, <1>4, <2>1
  <1>6. /\ begin \o middle \o end \in Seq(Kinds) /\ Len(begin \o middle \o end) = n + 4
        /\ \A i \in 1 .. n + 4 :
              (begin \o middle \o end)[i] =
                  IF i <= n + 2 THEN (begin \o middle)[i] ELSE end[i - (n + 2)]
    <2> DEFINE front == begin \o middle
    <2>1. front \in Seq(Kinds) /\ Len(front) = n + 2
      BY <1>5
    <2> HIDE DEF front
    <2>2. /\ front \o end \in Seq(Kinds)
          /\ Len(front \o end) = Len(front) + Len(end)
          /\ \A i \in 1 .. Len(front) + Len(end) :
                (front \o end)[i] =
                    IF i <= Len(front) THEN front[i] ELSE end[i - Len(front)]
      BY <1>3, <2>1, ConcatProperties
    <2>3. /\ front \o end \in Seq(Kinds) /\ Len(front \o end) = n + 4
          /\ \A i \in 1 .. n + 4 :
                (front \o end)[i] = IF i <= n + 2 THEN front[i] ELSE end[i - (n + 2)]
      BY <1>1, <1>3, <2>1, <2>2
    <2> QED
      BY <2>3 DEF front
  <1>7. ASSUME NEW i \in 1 .. n + 4 PROVE events[i] = (begin \o middle \o end)[i]
    <2>1. CASE i \in 1 .. 2
      <3>1. (begin \o middle \o end)[i] = begin[i]
        BY <1>1, <1>5, <1>6, <2>1
      <3>2. events[1] = "thread" /\ events[2] = "turn"
        BY DEF Streamed, StreamEnds
      <3> QED
        BY <1>2, <2>1, <3>1, <3>2
    <2>2. CASE i \in 3 .. n + 2
      BY <1>1, <1>4, <1>5, <1>6, <2>2 DEF Streamed, StreamEnds
    <2>3. CASE i \in {n + 3, n + 4}
      BY <1>1, <1>3, <1>6, <2>3 DEF Streamed, StreamEnds
    <2>4. i \in 1 .. 2 \/ i \in 3 .. n + 2 \/ i \in {n + 3, n + 4}
      BY <1>1
    <2> QED
      BY <2>1, <2>2, <2>3, <2>4
  <1>8. events = begin \o middle \o end
    BY <1>1, <1>6, <1>7, SeqEqual DEF Streamed
  <1> QED
    BY <1>1, <1>8 DEF OneWholeTurn, begin, middle, end

LEMMA StreamStep == Streamed /\ [Next]_vars => Streamed'
  <1> SUFFICES ASSUME Streamed, [Next]_vars PROVE Streamed'
    OBVIOUS
  <1>1. Event \/ UNCHANGED streamVars
    <2>1. CASE AroundRuntime
      BY <2>1 DEF AroundRuntime, RefusePlanner, StartPlanner, LeaveDirectory, ReadEvent,
                  EndOfStream, InvalidOutput, JudgePlan, PlanAccepted, PlanRejected
    <2>2. CASE AroundPlanner
      BY <2>2, AroundPlannerSteps DEF providerVars
    <2>3. CASE Others \/ Crash \/ UNCHANGED vars
      BY <2>3 DEF Others, Crash, vars, providerVars
    <2> QED
      BY <2>1, <2>2, <2>3, StepCases
  <1> QED
    BY <1>1, EventStep DEF streamVars, Streamed

-----------------------------------------------------------------------------
(* The trial. *)

LEMMA RecordedInit == Init => Recorded
  BY DEF Init, NoPlanner, Recorded

LEMMA RecordedStep == Recorded /\ [Next]_vars => Recorded'
  <1> SUFFICES ASSUME Recorded, [Next]_vars PROVE Recorded'
    OBVIOUS
  <1> USE DEF Recorded
  <1>1. CASE AroundPlanner
    <2>1. UNCHANGED <<planner, reply, verdict, streamVars>>
      BY <1>1, AroundPlannerSteps DEF providerVars, plannerVars, planVars
    <2> QED
      BY <1>1, <2>1 DEF streamVars, StreamEnds, AroundPlanner, Unavailable, Refuse, LookBefore,
                  AskSize, OpenBlob, ReadChunk, Loaded, Go, LookAfter, LookAfterFails, Approved
  <1>2. CASE trial = "planning" /\ AroundRuntime /\ UNCHANGED trialVars
    <2> USE <1>2 DEF trialVars, StreamEnds
    <2>1. CASE RefusePlanner \/ StartPlanner \/ LeaveDirectory \/ InvalidOutput
      BY <2>1 DEF RefusePlanner, StartPlanner, LeaveDirectory, InvalidOutput, PlannerFails,
                  streamVars, planVars
    <2>2. CASE ReadEvent
      BY <2>2 DEF ReadEvent, plannerVars, planVars
    <2>3. CASE EndOfStream
      BY <2>3 DEF EndOfStream, StreamEnds, streamVars, planVars
    <2>4. CASE JudgePlan \/ PlanAccepted \/ PlanRejected
      BY <2>4 DEF JudgePlan, PlanAccepted, PlanRejected, PlannerFails, plannerVars,
                  streamVars, planVars
    <2> QED
      BY <2>1, <2>2, <2>3, <2>4 DEF AroundRuntime
  <1>3. CASE UNCHANGED <<planVars, streamVars, plannerVars, trialVars>>
    BY <1>3 DEF planVars, streamVars, plannerVars, trialVars, StreamEnds
  <1>4. CASE Crash
    BY <1>4 DEF Crash
  <1> QED
    BY <1>1, <1>2, <1>3, <1>4, StepCases DEF Others, vars, providerVars

-----------------------------------------------------------------------------
(* Path claims and reachable dependencies: what two recursive functions     *)
(* compute, for all arguments.  That they have a value at all is shown      *)
(* first; the inductions are arguments by the least counterexample.         *)

\* The principle behind every induction below.
LEMMA LeastNumber ==
  ASSUME NEW T, T \subseteq Nat, T # {}
  PROVE  \E n \in T : \A m \in T : n <= m
  <1> DEFINE R == OpToRel(<, Nat)
  <1>1. IsWellFoundedOn(R, Nat)
    BY NatLessThanWellFounded, Zenon
  <1>2. \A x, y \in Nat : y < x => <<y, x>> \in R
    BY SMT DEF OpToRel
  <1> HIDE DEF R
  <1>3. \E x \in T : \A y \in T : ~(<<y, x>> \in R)
    BY <1>1, WFMin, Zenon
  <1>4. PICK x \in T : \A y \in T : ~(<<y, x>> \in R)
    BY <1>3
  <1>5. \A y \in T : ~(y < x)
    BY <1>2, <1>4
  <1> QED BY <1>5, SMT

\* The arguments of match.
Places(claim, path) == (1 .. Len(claim) + 1) \X (1 .. Len(path) + 1)

\* What one call of match returns, given what the calls it makes return.
Matched(claim, path, m, at) ==
  IF at[1] > Len(claim) THEN at[2] > Len(path)
  ELSE IF claim[at[1]] = "**"
       THEN m[<<at[1] + 1, at[2]>>] \/ (at[2] <= Len(path) /\ m[<<at[1], at[2] + 1>>])
       ELSE /\ at[2] <= Len(path)
            /\ PartMatches(claim[at[1]], path[at[2]])
            /\ m[<<at[1] + 1, at[2] + 1>>]

\* The function that GlobMatches defines, under a name.
Match(claim, path) ==
  CHOOSE m : m = [at \in Places(claim, path) |-> Matched(claim, path, m, at)]

\* How much of the claim and of the path is left: every call of match has less
\* left than the one that makes it.
Ahead(claim, path, at) == (Len(claim) + 1 - at[1]) + (Len(path) + 1 - at[2])

LEMMA MatchIsChosen ==
  ASSUME NEW claim, NEW path
  PROVE  GlobMatches(claim, path) = Match(claim, path)[<<1, 1>>]
BY Zenon DEF GlobMatches, Match, Matched, Places

LEMMA MatchedIsBoolean ==
  ASSUME NEW claim \in Seq(Parts), NEW path \in Seq(Parts), NEW at \in Places(claim, path), NEW m
  PROVE  Matched(claim, path, m, at) \in BOOLEAN
  <1> DEFINE c == at[1]
             p == at[2]
  <1>1. c \in Nat /\ p \in Nat /\ Len(claim) \in Nat /\ Len(path) \in Nat
    BY DEF Places
  <1>2. CASE c > Len(claim)
    <2>1. Matched(claim, path, m, at) = (p > Len(path))
      BY <1>2 DEF Matched
    <2> QED BY <1>1, <2>1
  <1>3. CASE ~(c > Len(claim)) /\ claim[c] = "**"
    <2>1. Matched(claim, path, m, at)
            = (m[<<c + 1, p>>] \/ (p <= Len(path) /\ m[<<c, p + 1>>]))
      BY <1>3, Zenon DEF Matched
    <2> QED BY <2>1
  <1>4. CASE ~(c > Len(claim)) /\ claim[c] # "**"
    <2>1. Matched(claim, path, m, at)
            = (p <= Len(path) /\ PartMatches(claim[c], path[p]) /\ m[<<c + 1, p + 1>>])
      BY <1>4, Zenon DEF Matched
    <2> QED BY <2>1
  <1> QED BY <1>2, <1>3, <1>4

LEMMA MatchedLooksAhead ==
  ASSUME NEW claim \in Seq(Parts), NEW path \in Seq(Parts),
         NEW f \in [Places(claim, path) -> BOOLEAN], NEW g \in [Places(claim, path) -> BOOLEAN],
         NEW at \in Places(claim, path),
         \A b \in Places(claim, path) :
            Ahead(claim, path, b) < Ahead(claim, path, at) => f[b] = g[b]
  PROVE  Matched(claim, path, f, at) = Matched(claim, path, g, at)
  <1>1. PICK c \in 1 .. Len(claim) + 1, p \in 1 .. Len(path) + 1 : at = <<c, p>>
    BY DEF Places
  <1>2. Len(claim) \in Nat /\ Len(path) \in Nat /\ at[1] = c /\ at[2] = p
    BY <1>1
  <1>3. ASSUME NEW d \in {c, c + 1}, NEW q \in {p, p + 1}, <<d, q>> # at,
               d <= Len(claim) + 1, q <= Len(path) + 1
        PROVE  f[<<d, q>>] = g[<<d, q>>] /\ f[<<d, q>>] \in BOOLEAN
    <2>1. <<d, q>> \in Places(claim, path)
      BY <1>2, <1>3 DEF Places
    <2>2. d > c \/ q > p
      BY <1>1, <1>2, <1>3
    <2>3. Ahead(claim, path, <<d, q>>) < Ahead(claim, path, at)
      BY <1>1, <1>2, <1>3, <2>2 DEF Ahead
    <2> QED BY <2>1, <2>3
  <1>4. ASSUME c > Len(claim)
        PROVE  Matched(claim, path, f, at) <=> Matched(claim, path, g, at)
    <2>1. Matched(claim, path, f, at) = Matched(claim, path, g, at)
      BY <1>2, <1>4 DEF Matched
    <2> QED BY <2>1
  <1>5. ASSUME c <= Len(claim) /\ claim[c] = "**"
        PROVE  Matched(claim, path, f, at) <=> Matched(claim, path, g, at)
    <2>1. f[<<c + 1, p>>] = g[<<c + 1, p>>] /\ f[<<c + 1, p>>] \in BOOLEAN
      BY <1>1, <1>2, <1>3, <1>5
    <2>2. p <= Len(path) => f[<<c, p + 1>>] = g[<<c, p + 1>>] /\ f[<<c, p + 1>>] \in BOOLEAN
      BY <1>1, <1>2, <1>3
    <2> QED BY <1>2, <1>5, <2>1, <2>2 DEF Matched
  <1>6. ASSUME c <= Len(claim) /\ claim[c] # "**"
        PROVE  Matched(claim, path, f, at) <=> Matched(claim, path, g, at)
    <2>1. p <= Len(path) => /\ f[<<c + 1, p + 1>>] = g[<<c + 1, p + 1>>]
                            /\ f[<<c + 1, p + 1>>] \in BOOLEAN
      BY <1>1, <1>2, <1>3, <1>6
    <2> DEFINE one == PartMatches(claim[c], path[p])
    <2>2. /\ Matched(claim, path, f, at) <=> (p <= Len(path) /\ one /\ f[<<c + 1, p + 1>>])
          /\ Matched(claim, path, g, at) <=> (p <= Len(path) /\ one /\ g[<<c + 1, p + 1>>])
      BY <1>2, <1>6 DEF Matched
    <2> HIDE DEF one
    <2> QED BY <2>1, <2>2
  <1>7. Matched(claim, path, f, at) <=> Matched(claim, path, g, at)
    BY <1>2, <1>4, <1>5, <1>6
  <1> QED BY <1>7, MatchedIsBoolean

\* match is what its definition says: a function that is right where at most so
\* much is left can be made right where one more is left.
LEMMA MatchHasValue ==
  ASSUME NEW claim \in Seq(Parts), NEW path \in Seq(Parts)
  PROVE  /\ Match(claim, path) \in [Places(claim, path) -> BOOLEAN]
         /\ \A at \in Places(claim, path) :
               Match(claim, path)[at] = Matched(claim, path, Match(claim, path), at)
  <1> DEFINE D == Places(claim, path)
             A(at) == Ahead(claim, path, at)
             M(f, at) == Matched(claim, path, f, at)
             Right(f, k) == f \in [D -> BOOLEAN] /\ \A at \in D : A(at) < k => f[at] = M(f, at)
             Bad == {k \in Nat : \A f \in [D -> BOOLEAN] : ~Right(f, k)}
  <1>0. \A at \in D : A(at) \in Nat /\ A(at) < Len(claim) + Len(path) + 1
    BY DEF Places, Ahead
  <1>1. ASSUME NEW k \in Nat, NEW f \in [D -> BOOLEAN], Right(f, k)
        PROVE  \E g \in [D -> BOOLEAN] : Right(g, k + 1)
    <2> DEFINE g == [at \in D |-> M(f, at)]
    <2>1. \A at \in D : M(f, at) \in BOOLEAN
      BY MatchedIsBoolean
    <2>2. g \in [D -> BOOLEAN]
      BY <2>1
    <2>3. ASSUME NEW at \in D, A(at) < k + 1 PROVE g[at] = M(g, at)
      <3>1. ASSUME NEW b \in D, A(b) < A(at) PROVE f[b] = g[b]
        <4>1. A(b) < k
          BY <1>0, <2>3, <3>1
        <4> QED BY <1>1, <4>1
      <3>2. M(f, at) = M(g, at)
        BY <2>2, <3>1, MatchedLooksAhead
      <3> QED BY <3>2
    <2> QED BY <2>2, <2>3
  <1>2. 0 \notin Bad
    <2> DEFINE f == [at \in D |-> FALSE]
    <2>1. f \in [D -> BOOLEAN]
      OBVIOUS
    <2>2. \A at \in D : ~(A(at) < 0)
      BY <1>0
    <2> QED BY <2>1, <2>2
  <1>3. Bad = {}
    <2> SUFFICES ASSUME Bad # {} PROVE FALSE
      OBVIOUS
    <2>1. PICK n \in Bad : \A k \in Bad : n <= k
      BY LeastNumber
    <2>2. n # 0 /\ n \in Nat /\ n - 1 \in Nat /\ n - 1 \notin Bad
      BY <1>2, <2>1
    <2>3. PICK f \in [D -> BOOLEAN] : Right(f, n - 1)
      BY <2>2
    <2>4. \E g \in [D -> BOOLEAN] : Right(g, (n - 1) + 1)
      BY <1>1, <2>2, <2>3
    <2> QED BY <2>2, <2>4
  <1>4. PICK f \in [D -> BOOLEAN] : Right(f, Len(claim) + Len(path) + 1)
    <2>1. Len(claim) + Len(path) + 1 \in Nat
      OBVIOUS
    <2> QED BY <1>3, <2>1
  <1>5. \A at \in D : f[at] = M(f, at)
    BY <1>0, <1>4
  <1>6. f = [at \in D |-> M(f, at)]
    BY <1>5
  <1> DEFINE m == Match(claim, path)
  <1>7. m = [at \in D |-> M(m, at)]
    BY <1>6, Zenon DEF Match
  <1> HIDE DEF m, D
  <1>8. \A at \in D : m[at] = M(m, at)
    BY <1>7
  <1>9. m \in [D -> BOOLEAN]
    BY <1>7, MatchedIsBoolean DEF D
  <1> QED BY <1>8, <1>9 DEF m, D

\* The literal prefix ends before the first wildcard.
LEMMA LiteralPrefixIs ==
  ASSUME NEW claim \in Seq(Parts)
  PROVE  \E k \in 0 .. Len(claim) :
            /\ LiteralPrefix(claim) = SubSeq(claim, 1, k)
            /\ \A i \in 1 .. k : ~IsWild(claim[i])
  <1> DEFINE Wild == {i \in 1 .. Len(claim) : IsWild(claim[i])}
  <1>0. Len(claim) \in Nat
    OBVIOUS
  <1>1. CASE Wild = {}
    <2>1. SelectInSeq(claim, IsWild) = 0
      BY <1>1 DEF SelectInSeq
    <2>2. LiteralPrefix(claim) = SubSeq(claim, 1, Len(claim))
      BY <2>1 DEF LiteralPrefix
    <2> QED BY <1>0, <1>1, <2>2
  <1>2. CASE Wild # {}
    <2>1. SelectInSeq(claim, IsWild) = Min(Wild)
      BY <1>2 DEF SelectInSeq
    <2>2. Wild \subseteq Nat
      BY <1>0
    <2>3. \E n \in Wild : \A m \in Wild : n <= m
      BY <1>2, <2>2, LeastNumber
    <2>4. Min(Wild) \in Wild /\ \A m \in Wild : Min(Wild) <= m
      BY <2>3, Zenon DEF Min
    <2> DEFINE first == Min(Wild)
    <2>5. first \in 1 .. Len(claim) /\ first # 0
      BY <1>0, <2>4
    <2>6. LiteralPrefix(claim) = SubSeq(claim, 1, first - 1)
      BY <2>1, <2>5 DEF LiteralPrefix
    <2>7. \A i \in 1 .. first - 1 : ~IsWild(claim[i])
      BY <1>0, <2>4, <2>5
    <2>8. first - 1 \in 0 .. Len(claim)
      BY <1>0, <2>5
    <2> QED BY <2>6, <2>7, <2>8
  <1> QED BY <1>1, <1>2

\* A path that a claim matches begins with the literal prefix of the claim.
LEMMA LiteralPartsMatch ==
  ASSUME NEW claim \in Seq(Parts), NEW path \in Seq(Parts), GlobMatches(claim, path),
         NEW k \in 0 .. Len(claim), \A i \in 1 .. k : ~IsWild(claim[i])
  PROVE  k <= Len(path) /\ \A i \in 1 .. k : path[i] = claim[i]
  <1> DEFINE m == Match(claim, path)
             D == Places(claim, path)
             Bad == {i \in 0 .. k : ~(i <= Len(path) /\ m[<<i + 1, i + 1>>])}
  <1>0. Len(claim) \in Nat /\ Len(path) \in Nat /\ k \in Nat /\ k <= Len(claim)
    OBVIOUS
  <1>m. m[<<1, 1>>]
    BY MatchIsChosen
  <1>1. \A at \in D : m[at] = Matched(claim, path, m, at)
    BY MatchHasValue
  <1>2. ASSUME NEW i \in 1 .. k, i <= Len(path) + 1, m[<<i, i>>]
        PROVE  i <= Len(path) /\ path[i] = claim[i] /\ m[<<i + 1, i + 1>>]
    <2>1. <<i, i>> \in D
      BY <1>0, <1>2 DEF Places
    <2>2. claim[i] # "**" /\ claim[i] \notin DOMAIN Wildcards
      BY DEF IsWild
    <2>3. i <= Len(claim)
      BY <1>0
    <2>4. Matched(claim, path, m, <<i, i>>)
      BY <1>1, <1>2, <2>1
    <2>5. i <= Len(path) /\ PartMatches(claim[i], path[i]) /\ m[<<i + 1, i + 1>>]
      BY <1>0, <2>2, <2>3, <2>4 DEF Matched
    <2> QED BY <2>2, <2>5 DEF PartMatches
  <1> HIDE DEF m
  <1>3. Bad = {}
    <2> SUFFICES ASSUME Bad # {} PROVE FALSE
      OBVIOUS
    <2>1. PICK n \in Bad : \A j \in Bad : n <= j
      <3>1. Bad \subseteq Nat
        BY <1>0
      <3> QED BY <3>1, LeastNumber
    <2>2. n \in Nat /\ n <= k
      BY <1>0
    <2>3. n # 0
      <3>1. 0 <= Len(path) /\ m[<<0 + 1, 0 + 1>>]
        BY <1>0, <1>m
      <3> QED BY <3>1
    <2>4. n - 1 \in 0 .. k /\ n - 1 \notin Bad
      <3>1. n - 1 \in Nat /\ n - 1 <= k /\ ~(n <= n - 1)
        BY <1>0, <2>2, <2>3
      <3>2. n - 1 \in 0 .. k
        BY <1>0, <3>1
      <3> HIDE DEF Bad
      <3>3. n - 1 \notin Bad
        BY <2>1, <3>1
      <3> QED BY <3>2, <3>3
    <2>5. n - 1 <= Len(path) /\ m[<<(n - 1) + 1, (n - 1) + 1>>]
      BY <2>4
    <2>6. (n - 1) + 1 = n /\ n \in 1 .. k /\ n <= Len(path) + 1
      BY <1>0, <2>2, <2>3, <2>5
    <2>7. n <= Len(path) /\ m[<<n + 1, n + 1>>]
      BY <1>2, <2>5, <2>6
    <2> QED BY <2>7
  <1>4. ASSUME NEW i \in 1 .. k PROVE path[i] = claim[i]
    <2>1. i \in Nat /\ i - 1 \in 0 .. k /\ (i - 1) + 1 = i
      BY <1>0
    <2>2. i - 1 \notin Bad
      BY <1>3
    <2>3. i - 1 <= Len(path) /\ m[<<(i - 1) + 1, (i - 1) + 1>>]
      BY <2>1, <2>2
    <2>4. i <= Len(path) + 1 /\ m[<<i, i>>]
      BY <1>0, <2>1, <2>3
    <2> QED BY <1>2, <2>4
  <1>5. k \notin Bad
    BY <1>3
  <1> QED BY <1>0, <1>4, <1>5

(***************************************************************************)
(* _path_claims_overlap compares claims without expanding them.  It is on  *)
(* the safe side: two claims that _glob_matches gives one path overlap,    *)
(* for claims and paths of any length and any wildcards.                   *)
(***************************************************************************)
THEOREM OverlapFindsCommonPaths ==
  ASSUME NEW left \in Seq(Parts), NEW right \in Seq(Parts), NEW path \in Seq(Parts),
         GlobMatches(left, path), GlobMatches(right, path)
  PROVE  ClaimsOverlap(left, right)
  <1>1. PICK k \in 0 .. Len(left) : /\ LiteralPrefix(left) = SubSeq(left, 1, k)
                                   /\ \A i \in 1 .. k : ~IsWild(left[i])
    BY LiteralPrefixIs
  <1>2. PICK l \in 0 .. Len(right) : /\ LiteralPrefix(right) = SubSeq(right, 1, l)
                                    /\ \A i \in 1 .. l : ~IsWild(right[i])
    BY LiteralPrefixIs
  <1>3. k <= Len(path) /\ \A i \in 1 .. k : path[i] = left[i]
    BY <1>1, LiteralPartsMatch
  <1>4. l <= Len(path) /\ \A i \in 1 .. l : path[i] = right[i]
    BY <1>2, LiteralPartsMatch
  <1>5. ASSUME NEW a \in Seq(Parts), NEW b \in Seq(Parts), NEW i \in 0 .. Len(a),
               NEW j \in 0 .. Len(b), i <= j, \A n \in 1 .. i : a[n] = b[n]
        PROVE  IsPrefix(SubSeq(a, 1, i), SubSeq(b, 1, j))
    <2>1. /\ Len(a) \in Nat /\ Len(b) \in Nat /\ i \in Nat /\ j \in Nat
          /\ i <= Len(a) /\ j <= Len(b)
      OBVIOUS
    <2>2. /\ SubSeq(a, 1, i) \in Seq(Parts) /\ Len(SubSeq(a, 1, i)) = i
          /\ \A n \in 1 .. i : SubSeq(a, 1, i)[n] = a[n]
      BY <2>1
    <2>3. /\ SubSeq(b, 1, j) \in Seq(Parts) /\ Len(SubSeq(b, 1, j)) = j
          /\ \A n \in 1 .. j : SubSeq(b, 1, j)[n] = b[n]
      BY <2>1
    <2> DEFINE s == SubSeq(a, 1, i)
               t == SubSeq(b, 1, j)
    <2> HIDE DEF s, t
    <2>4. /\ SubSeq(s, 1, i) \in Seq(Parts) /\ Len(SubSeq(s, 1, i)) = i
          /\ \A n \in 1 .. i : SubSeq(s, 1, i)[n] = s[n]
      BY <2>1, <2>2 DEF s
    <2>5. /\ SubSeq(t, 1, i) \in Seq(Parts) /\ Len(SubSeq(t, 1, i)) = i
          /\ \A n \in 1 .. i : SubSeq(t, 1, i)[n] = t[n]
      BY <1>5, <2>1, <2>3 DEF t
    <2>6. \A n \in 1 .. i : s[n] = t[n]
      BY <1>5, <2>1, <2>2, <2>3 DEF s, t
    <2>7. SubSeq(s, 1, i) = SubSeq(t, 1, i)
      BY <2>1, <2>4, <2>5, <2>6
    <2>8. Len(s) = i /\ Len(t) = j
      BY <2>2, <2>3 DEF s, t
    <2> QED BY <1>5, <2>7, <2>8 DEF IsPrefix, s, t
  <1>6. k \in Nat /\ l \in Nat
    OBVIOUS
  <1>7. CASE k <= l
    <2>1. \A n \in 1 .. k : left[n] = right[n]
      BY <1>3, <1>4, <1>6, <1>7
    <2> QED BY <1>1, <1>2, <1>5, <1>7, <2>1 DEF ClaimsOverlap
  <1>8. CASE l <= k
    <2>1. \A n \in 1 .. l : right[n] = left[n]
      BY <1>3, <1>4, <1>6, <1>8
    <2> QED BY <1>1, <1>2, <1>5, <1>8, <2>1 DEF ClaimsOverlap
  <1> QED BY <1>6, <1>7, <1>8

\* The piece of the path that starts at cut[i] is one that part i allows.
PieceFits(claim, path, cut, i) ==
  IF claim[i] = "**" THEN cut[i] <= cut[i + 1]
  ELSE cut[i + 1] = cut[i] + 1 /\ PartMatches(claim[i], path[cut[i]])

\* A claim matches a path when the path can be cut into one piece for each part
\* of the claim: the pieces of "**" have any length, the others are one name.
CanBeCut(claim, path) ==
  \E cut \in [1 .. Len(claim) + 1 -> 1 .. Len(path) + 1] :
    /\ cut[1] = 1 /\ cut[Len(claim) + 1] = Len(path) + 1
    /\ \A i \in 1 .. Len(claim) : PieceFits(claim, path, cut, i)

\* The ways to cut what is left of the path.
CutsFrom(claim, path, at) ==
  {cut \in [at[1] .. Len(claim) + 1 -> 1 .. Len(path) + 1] :
    /\ cut[at[1]] = at[2] /\ cut[Len(claim) + 1] = Len(path) + 1
    /\ \A i \in at[1] .. Len(claim) : PieceFits(claim, path, cut, i)}

\* A call of match is right if the calls it makes are.
LEMMA MatchedMeansCut ==
  ASSUME NEW claim \in Seq(Parts), NEW path \in Seq(Parts),
         NEW at \in Places(claim, path),
         NEW m \in [Places(claim, path) -> BOOLEAN],
         \A b \in Places(claim, path) :
            Ahead(claim, path, b) < Ahead(claim, path, at)
                => (m[b] <=> CutsFrom(claim, path, b) # {})
  PROVE  Matched(claim, path, m, at) <=> CutsFrom(claim, path, at) # {}
  <1> DEFINE n == Len(claim)
             l == Len(path)
  <1>1. PICK c \in 1 .. n + 1, p \in 1 .. l + 1 : at = <<c, p>>
    BY DEF Places
  <1>2. n \in Nat /\ l \in Nat /\ at[1] = c /\ at[2] = p /\ c \in Nat /\ p \in Nat
    BY <1>1
  <1>3. ASSUME NEW d \in {c, c + 1}, NEW q \in {p, p + 1}, <<d, q>> # at, d <= n + 1, q <= l + 1
        PROVE  m[<<d, q>>] <=> CutsFrom(claim, path, <<d, q>>) # {}
    <2>1. <<d, q>> \in Places(claim, path)
      BY <1>2, <1>3 DEF Places
    <2>2. d > c \/ q > p
      BY <1>1, <1>2, <1>3
    <2>3. Ahead(claim, path, <<d, q>>) < Ahead(claim, path, at)
      BY <1>1, <1>2, <1>3, <2>2 DEF Ahead
    <2> QED BY <2>1, <2>3
  <1>c. ASSUME NEW d, NEW q, NEW cut
        PROVE  cut \in CutsFrom(claim, path, <<d, q>>)
                 <=> /\ cut \in [d .. n + 1 -> 1 .. l + 1]
                     /\ cut[d] = q /\ cut[n + 1] = l + 1
                     /\ \A i \in d .. n : PieceFits(claim, path, cut, i)
    BY DEF CutsFrom
  \* To continue a cut by the part before it, and to take that part away.
  <1>4. ASSUME NEW q \in 1 .. l + 1, c <= n, NEW cut \in CutsFrom(claim, path, <<c + 1, q>>),
               \/ claim[c] = "**" /\ p <= q
               \/ claim[c] # "**" /\ q = p + 1 /\ PartMatches(claim[c], path[p])
        PROVE  CutsFrom(claim, path, at) # {}
    <2> DEFINE new == [i \in c .. n + 1 |-> IF i = c THEN p ELSE cut[i]]
    <2>1. /\ cut \in [c + 1 .. n + 1 -> 1 .. l + 1] /\ cut[c + 1] = q /\ cut[n + 1] = l + 1
          /\ \A i \in c + 1 .. n : PieceFits(claim, path, cut, i)
      BY <1>4, <1>c
    <2>2. new \in [c .. n + 1 -> 1 .. l + 1] /\ new[c] = p /\ new[n + 1] = l + 1
      BY <1>2, <1>4, <2>1
    <2>3. new[c] = p /\ new[c + 1] = q /\ \A i \in c + 1 .. n + 1 : new[i] = cut[i]
      BY <1>2, <1>4, <2>1
    <2> HIDE DEF new
    <2>4. PieceFits(claim, path, new, c)
      BY <1>2, <1>4, <2>3 DEF PieceFits
    <2>5. ASSUME NEW i \in c + 1 .. n PROVE PieceFits(claim, path, new, i)
      <3>1. new[i] = cut[i] /\ new[i + 1] = cut[i + 1] /\ PieceFits(claim, path, cut, i)
        BY <1>2, <2>1, <2>3
      <3> QED BY <3>1 DEF PieceFits
    <2>6. \A i \in c .. n : PieceFits(claim, path, new, i)
      BY <1>2, <2>4, <2>5
    <2>7. new \in CutsFrom(claim, path, <<c, p>>)
      BY <1>c, <2>2, <2>6
    <2> QED BY <1>1, <2>7
  <1>5. ASSUME c <= n, NEW cut \in CutsFrom(claim, path, at)
        PROVE  /\ cut[c] = p /\ cut[c + 1] \in 1 .. l + 1 /\ PieceFits(claim, path, cut, c)
               /\ CutsFrom(claim, path, <<c + 1, cut[c + 1]>>) # {}
    <2> DEFINE q == cut[c + 1]
               new == [i \in c + 1 .. n + 1 |-> cut[i]]
    <2>1. /\ cut \in [c .. n + 1 -> 1 .. l + 1] /\ cut[c] = p /\ cut[n + 1] = l + 1
          /\ \A i \in c .. n : PieceFits(claim, path, cut, i)
      BY <1>1, <1>5, <1>c
    <2>2. c \in c .. n /\ c + 1 \in c .. n + 1 /\ n + 1 \in c + 1 .. n + 1
      BY <1>2, <1>5
    <2>3. new \in [c + 1 .. n + 1 -> 1 .. l + 1] /\ new[c + 1] = q /\ new[n + 1] = l + 1
      BY <1>2, <2>1, <2>2
    <2>4. \A i \in c + 1 .. n + 1 : new[i] = cut[i]
      OBVIOUS
    <2> HIDE DEF new
    <2>5. ASSUME NEW i \in c + 1 .. n PROVE PieceFits(claim, path, new, i)
      <3>1. new[i] = cut[i] /\ new[i + 1] = cut[i + 1] /\ PieceFits(claim, path, cut, i)
        BY <1>2, <2>1, <2>4
      <3> QED BY <3>1 DEF PieceFits
    <2>6. new \in CutsFrom(claim, path, <<c + 1, q>>)
      BY <1>c, <2>3, <2>5
    <2> QED BY <2>1, <2>2, <2>6
  \* "**" may take one more name.
  <1>6. ASSUME c <= n, claim[c] = "**", p <= l, NEW cut \in CutsFrom(claim, path, <<c, p + 1>>)
        PROVE  CutsFrom(claim, path, at) # {}
    <2> DEFINE q == cut[c + 1]
               new == [cut EXCEPT ![c] = p]
    <2>1. /\ cut \in [c .. n + 1 -> 1 .. l + 1] /\ cut[c] = p + 1 /\ cut[n + 1] = l + 1
          /\ \A i \in c .. n : PieceFits(claim, path, cut, i)
      BY <1>6, <1>c
    <2>2. /\ new \in [c .. n + 1 -> 1 .. l + 1] /\ new[c] = p
          /\ \A i \in c + 1 .. n + 1 : new[i] = cut[i]
      BY <1>2, <1>6, <2>1
    <2>3. new[n + 1] = l + 1 /\ c + 1 \in c + 1 .. n + 1
      BY <1>2, <1>6, <2>1, <2>2
    <2> HIDE DEF new
    <2>4. PieceFits(claim, path, new, c)
      <3>1. PieceFits(claim, path, cut, c)
        BY <1>2, <1>6, <2>1
      <3>2. p + 1 <= cut[c + 1]
        BY <1>6, <2>1, <3>1 DEF PieceFits
      <3>3. new[c + 1] = cut[c + 1] /\ cut[c + 1] \in Nat
        BY <1>2, <1>6, <2>1, <2>2, <2>3
      <3>4. p <= new[c + 1]
        BY <1>2, <3>2, <3>3
      <3> QED BY <1>6, <2>2, <3>4 DEF PieceFits
    <2>5. ASSUME NEW i \in c + 1 .. n PROVE PieceFits(claim, path, new, i)
      <3>1. new[i] = cut[i] /\ new[i + 1] = cut[i + 1] /\ PieceFits(claim, path, cut, i)
        BY <1>2, <2>1, <2>2
      <3> QED BY <3>1 DEF PieceFits
    <2>6. \A i \in c .. n : PieceFits(claim, path, new, i)
      BY <1>2, <2>4, <2>5
    <2>7. new \in CutsFrom(claim, path, <<c, p>>)
      BY <1>c, <2>2, <2>3, <2>6
    <2> QED BY <1>1, <2>7
  <1>7. ASSUME c <= n, claim[c] = "**", NEW cut \in CutsFrom(claim, path, at), cut[c + 1] # p
        PROVE  p <= l /\ CutsFrom(claim, path, <<c, p + 1>>) # {}
    <2> DEFINE q == cut[c + 1]
               new == [cut EXCEPT ![c] = p + 1]
    <2>1. /\ cut \in [c .. n + 1 -> 1 .. l + 1] /\ cut[c] = p /\ cut[n + 1] = l + 1
          /\ \A i \in c .. n : PieceFits(claim, path, cut, i)
      BY <1>1, <1>7, <1>c
    <2>2. q \in 1 .. l + 1 /\ p <= q
      <3>1. PieceFits(claim, path, cut, c) /\ c + 1 \in c .. n + 1
        BY <1>2, <1>7, <2>1
      <3> QED BY <1>7, <2>1, <3>1 DEF PieceFits
    <2>3. p + 1 <= q /\ p <= l
      BY <1>2, <1>7, <2>2
    <2>4. /\ new \in [c .. n + 1 -> 1 .. l + 1] /\ new[c] = p + 1
          /\ \A i \in c + 1 .. n + 1 : new[i] = cut[i]
      BY <1>2, <1>7, <2>1, <2>3
    <2>5. new[n + 1] = l + 1 /\ new[c + 1] = q
      BY <1>2, <1>7, <2>1, <2>4
    <2> HIDE DEF new
    <2>6. PieceFits(claim, path, new, c)
      BY <1>7, <2>3, <2>4, <2>5 DEF PieceFits
    <2>7. ASSUME NEW i \in c + 1 .. n PROVE PieceFits(claim, path, new, i)
      <3>1. new[i] = cut[i] /\ new[i + 1] = cut[i + 1] /\ PieceFits(claim, path, cut, i)
        BY <1>2, <2>1, <2>4
      <3> QED BY <3>1 DEF PieceFits
    <2>8. \A i \in c .. n : PieceFits(claim, path, new, i)
      BY <1>2, <2>6, <2>7
    <2>9. new \in CutsFrom(claim, path, <<c, p + 1>>)
      BY <1>c, <2>4, <2>5, <2>8
    <2> QED BY <2>3, <2>9
  <1>8. CASE c > n
    <2>1. c = n + 1
      BY <1>2, <1>8
    <2>2. Matched(claim, path, m, at) <=> p = l + 1
      BY <1>2, <1>8 DEF Matched
    <2>3. ASSUME p = l + 1 PROVE CutsFrom(claim, path, at) # {}
      <3> DEFINE cut == [i \in c .. n + 1 |-> p]
      <3>1. cut \in [c .. n + 1 -> 1 .. l + 1] /\ cut[c] = p /\ cut[n + 1] = l + 1
        BY <1>2, <2>1, <2>3
      <3>2. c .. n = {}
        BY <1>2, <1>8
      <3>3. cut \in CutsFrom(claim, path, <<c, p>>)
        BY <1>c, <3>1, <3>2
      <3> QED BY <1>1, <3>3
    <2>4. ASSUME NEW cut \in CutsFrom(claim, path, at) PROVE p = l + 1
      BY <1>1, <1>c, <2>1, <2>4
    <2> QED BY <2>2, <2>3, <2>4
  <1>9. CASE c <= n /\ claim[c] = "**"
    <2>1. Matched(claim, path, m, at) <=> m[<<c + 1, p>>] \/ (p <= l /\ m[<<c, p + 1>>])
      BY <1>2, <1>9 DEF Matched
    <2>2. m[<<c + 1, p>>] <=> CutsFrom(claim, path, <<c + 1, p>>) # {}
      <3>1. <<c + 1, p>> # at /\ c + 1 <= n + 1 /\ p <= l + 1
        BY <1>1, <1>2, <1>9
      <3> QED BY <1>3, <3>1
    <2>3. p <= l => (m[<<c, p + 1>>] <=> CutsFrom(claim, path, <<c, p + 1>>) # {})
      <3>1. <<c, p + 1>> # at /\ c <= n + 1 /\ (p <= l => p + 1 <= l + 1)
        BY <1>1, <1>2, <1>9
      <3> QED BY <1>3, <3>1
    <2>4. ASSUME NEW cut \in CutsFrom(claim, path, <<c + 1, p>>) PROVE CutsFrom(claim, path, at) # {}
      BY <1>2, <1>4, <1>9
    <2>5. ASSUME p <= l, NEW cut \in CutsFrom(claim, path, <<c, p + 1>>)
          PROVE  CutsFrom(claim, path, at) # {}
      BY <1>6, <1>9, <2>5
    <2>6. ASSUME NEW cut \in CutsFrom(claim, path, at)
          PROVE  \/ CutsFrom(claim, path, <<c + 1, p>>) # {}
                 \/ p <= l /\ CutsFrom(claim, path, <<c, p + 1>>) # {}
      BY <1>5, <1>7, <1>9
    <2> QED BY <2>1, <2>2, <2>3, <2>4, <2>5, <2>6
  <1>10. CASE c <= n /\ claim[c] # "**"
    <2> DEFINE one == PartMatches(claim[c], path[p])
    <2>1. Matched(claim, path, m, at) <=> p <= l /\ one /\ m[<<c + 1, p + 1>>]
      BY <1>2, <1>10 DEF Matched
    <2>2. p <= l => (m[<<c + 1, p + 1>>] <=> CutsFrom(claim, path, <<c + 1, p + 1>>) # {})
      <3>1. <<c + 1, p + 1>> # at /\ c + 1 <= n + 1 /\ (p <= l => p + 1 <= l + 1)
        BY <1>1, <1>2, <1>10
      <3> QED BY <1>3, <3>1
    <2>3. ASSUME p <= l, one, NEW cut \in CutsFrom(claim, path, <<c + 1, p + 1>>)
          PROVE  CutsFrom(claim, path, at) # {}
      <3>1. p + 1 \in 1 .. l + 1
        BY <1>2, <2>3
      <3> QED BY <1>4, <1>10, <2>3, <3>1
    <2>4. ASSUME NEW cut \in CutsFrom(claim, path, at)
          PROVE  p <= l /\ one /\ CutsFrom(claim, path, <<c + 1, p + 1>>) # {}
      <3>1. /\ cut[c] = p /\ cut[c + 1] \in 1 .. l + 1 /\ PieceFits(claim, path, cut, c)
            /\ CutsFrom(claim, path, <<c + 1, cut[c + 1]>>) # {}
        BY <1>5, <1>10
      <3>2. cut[c + 1] = p + 1 /\ one
        BY <1>10, <3>1 DEF PieceFits
      <3> QED BY <1>2, <3>1, <3>2
    <2> HIDE DEF one
    <2> QED BY <2>1, <2>2, <2>3, <2>4
  <1> QED BY <1>2, <1>8, <1>9, <1>10

(***************************************************************************)
(* The recursion of _glob_matches with its two ways to read "**" finds a   *)
(* way to cut the path whenever there is one, and never another.           *)
(***************************************************************************)
THEOREM MatchesWhatCanBeCut ==
  ASSUME NEW claim \in Seq(Parts), NEW path \in Seq(Parts)
  PROVE  GlobMatches(claim, path) <=> CanBeCut(claim, path)
  <1> DEFINE D == Places(claim, path)
             m == Match(claim, path)
             A(at) == Ahead(claim, path, at)
             Bad == {k \in Nat : \E at \in D : A(at) = k /\ ~(m[at] <=> CutsFrom(claim, path, at) # {})}
  <1>1. m \in [D -> BOOLEAN] /\ \A at \in D : m[at] = Matched(claim, path, m, at)
    BY MatchHasValue
  <1>2. \A at \in D : A(at) \in Nat
    BY DEF Places, Ahead
  <1>3. Bad = {}
    <2> SUFFICES ASSUME Bad # {} PROVE FALSE
      OBVIOUS
    <2>1. PICK k \in Bad : \A j \in Bad : k <= j
      BY LeastNumber
    <2>2. PICK at \in D : A(at) = k /\ ~(m[at] <=> CutsFrom(claim, path, at) # {})
      OBVIOUS
    <2>3. ASSUME NEW b \in D, A(b) < A(at) PROVE m[b] <=> CutsFrom(claim, path, b) # {}
      <3>1. A(b) \in Nat /\ k \in Nat /\ ~(k <= A(b))
        BY <1>2, <2>2, <2>3
      <3>2. A(b) \notin Bad
        BY <2>1, <3>1
      <3> QED BY <3>1, <3>2
    <2>4. Matched(claim, path, m, at) <=> CutsFrom(claim, path, at) # {}
      BY <1>1, <2>3, MatchedMeansCut
    <2> QED BY <1>1, <2>2, <2>4
  <1>4. <<1, 1>> \in D
    BY DEF Places
  <1>5. m[<<1, 1>>] <=> CutsFrom(claim, path, <<1, 1>>) # {}
    BY <1>2, <1>3, <1>4
  <1>6. CanBeCut(claim, path) <=> CutsFrom(claim, path, <<1, 1>>) # {}
    BY DEF CanBeCut, CutsFrom
  <1> QED BY <1>5, <1>6, MatchIsChosen

\* One more round of _reachable_dependencies.
Further(plan, S) == S \cup UNION {plan[u] \cap DOMAIN plan : u \in S}

\* With a task, the set has what the task depends on within the plan.
Closed(plan, S) == \A t \in S : plan[t] \cap DOMAIN plan \subseteq S

Round(plan, t, reached, n) ==
  IF n = 0 THEN plan[t] \cap DOMAIN plan ELSE Further(plan, reached[n - 1])

\* The function that Reachable defines, under a name.
Rounds(plan, t) ==
  CHOOSE reached : reached =
    [n \in 0 .. Cardinality(DOMAIN plan) |->
        IF n = 0 THEN plan[t] \cap DOMAIN plan
        ELSE reached[n - 1] \cup UNION {plan[u] \cap DOMAIN plan : u \in reached[n - 1]}]

LEMMA RoundsHaveValue ==
  ASSUME NEW plan, NEW t, Cardinality(DOMAIN plan) \in Nat
  PROVE  /\ Reachable(plan, t) = Rounds(plan, t)[Cardinality(DOMAIN plan)]
         /\ Rounds(plan, t)[0] = plan[t] \cap DOMAIN plan
         /\ \A n \in 1 .. Cardinality(DOMAIN plan) : Rounds(plan, t)[n] = Further(plan, Rounds(plan, t)[n - 1])
  <1> DEFINE N == Cardinality(DOMAIN plan)
             Right(f, k) == f = [n \in 0 .. N |-> f[n]] /\ \A n \in 0 .. N : n < k => f[n] = Round(plan, t, f, n)
             Bad == {k \in Nat : \A f : ~Right(f, k)}
  <1>1. Reachable(plan, t) = Rounds(plan, t)[N]
    BY Zenon DEF Reachable, Rounds
  <1>2. ASSUME NEW k \in Nat, NEW f, Right(f, k) PROVE \E g : Right(g, k + 1)
    <2> DEFINE g == [n \in 0 .. N |-> Round(plan, t, f, n)]
    <2>1. ASSUME NEW n \in 0 .. N, n < k + 1 PROVE g[n] = Round(plan, t, g, n)
      <3>1. n # 0 => n - 1 \in 0 .. N /\ n - 1 < k
        BY <2>1
      <3>2. n # 0 => f[n - 1] = g[n - 1]
        BY <1>2, <3>1
      <3> QED BY <3>2 DEF Round
    <2>2. Right(g, k + 1)
      BY <2>1
    <2> QED BY <2>2
  <1>3. 0 \notin Bad
    <2> DEFINE f == [n \in 0 .. N |-> {}]
    <2>1. Right(f, 0)
      OBVIOUS
    <2> QED BY <2>1
  <1>4. Bad = {}
    <2> SUFFICES ASSUME Bad # {} PROVE FALSE
      OBVIOUS
    <2>1. PICK n \in Bad : \A k \in Bad : n <= k
      BY LeastNumber
    <2>2. n # 0 /\ n \in Nat /\ n - 1 \in Nat /\ n - 1 \notin Bad
      BY <1>3, <2>1
    <2>3. PICK f : Right(f, n - 1)
      BY <2>2
    <2> HIDE DEF Right
    <2>4. \E g : Right(g, (n - 1) + 1)
      BY <1>2, <2>2, <2>3, Zenon
    <2> QED BY <2>2, <2>4
  <1>5. PICK f : Right(f, N + 1)
    <2>1. N + 1 \in Nat
      OBVIOUS
    <2> QED BY <1>4, <2>1
  <1>6. f = [n \in 0 .. N |-> Round(plan, t, f, n)]
    BY <1>5
  <1>7. Rounds(plan, t) = [n \in 0 .. N |-> Round(plan, t, Rounds(plan, t), n)]
    BY <1>6, Zenon DEF Rounds, Round, Further
  <1>8. \A n \in 0 .. N : Rounds(plan, t)[n] = Round(plan, t, Rounds(plan, t), n)
    BY <1>7
  <1> QED BY <1>1, <1>8 DEF Round

(***************************************************************************)
(* What _reachable_dependencies returns for a task of a plan is the least  *)
(* set that has the dependencies of the task within the plan and, with     *)
(* every task, those of that task: nothing is missed however long a chain  *)
(* is, and nothing is added.                                               *)
(***************************************************************************)
THEOREM ReachableIsLeastClosed ==
  ASSUME NEW plan, IsFiniteSet(DOMAIN plan), NEW t \in DOMAIN plan
  PROVE  /\ Reachable(plan, t) \subseteq DOMAIN plan
         /\ plan[t] \cap DOMAIN plan \subseteq Reachable(plan, t)
         /\ Closed(plan, Reachable(plan, t))
         /\ \A C : plan[t] \cap DOMAIN plan \subseteq C /\ Closed(plan, C) => Reachable(plan, t) \subseteq C
  <1> DEFINE N == Cardinality(DOMAIN plan)
             r == Rounds(plan, t)
  <1>0. N \in Nat
    BY FS_CardinalityType
  <1>1. /\ Reachable(plan, t) = r[N]
        /\ r[0] = plan[t] \cap DOMAIN plan
        /\ \A n \in 1 .. N : r[n] = Further(plan, r[n - 1])
    BY <1>0, RoundsHaveValue
  <1> HIDE DEF r
  <1>2. ASSUME NEW n \in 0 .. N PROVE r[n] \subseteq DOMAIN plan /\ plan[t] \cap DOMAIN plan \subseteq r[n]
    <2> DEFINE Bad == {k \in 0 .. N : ~(r[k] \subseteq DOMAIN plan /\ plan[t] \cap DOMAIN plan \subseteq r[k])}
    <2> SUFFICES ASSUME Bad # {} PROVE FALSE
      OBVIOUS
    <2>1. Bad \subseteq Nat
      OBVIOUS
    <2>2. PICK k \in Bad : \A j \in Bad : k <= j
      BY <2>1, LeastNumber
    <2>3. k \in Nat /\ k <= N /\ k # 0
      BY <1>0, <1>1
    <2>4. k \in 1 .. N /\ k - 1 \in 0 .. N /\ ~(k <= k - 1)
      BY <1>0, <2>3
    <2>5. k - 1 \notin Bad
      BY <2>2, <2>4
    <2>6. r[k - 1] \subseteq DOMAIN plan /\ plan[t] \cap DOMAIN plan \subseteq r[k - 1]
      BY <2>4, <2>5
    <2>7. r[k] = Further(plan, r[k - 1])
      BY <1>1, <2>4
    <2>8. r[k] \subseteq DOMAIN plan /\ plan[t] \cap DOMAIN plan \subseteq r[k]
      BY <2>6, <2>7 DEF Further
    <2> QED BY <2>8
  <1>3. ASSUME NEW C, plan[t] \cap DOMAIN plan \subseteq C, Closed(plan, C), NEW n \in 0 .. N
        PROVE  r[n] \subseteq C
    <2> DEFINE Bad == {k \in 0 .. N : ~(r[k] \subseteq C)}
    <2> SUFFICES ASSUME Bad # {} PROVE FALSE
      OBVIOUS
    <2>1. Bad \subseteq Nat
      OBVIOUS
    <2>2. PICK k \in Bad : \A j \in Bad : k <= j
      BY <2>1, LeastNumber
    <2>3. k \in Nat /\ k <= N /\ k # 0
      BY <1>0, <1>1, <1>3
    <2>4. k \in 1 .. N /\ k - 1 \in 0 .. N /\ ~(k <= k - 1)
      BY <1>0, <2>3
    <2>5. k - 1 \notin Bad
      BY <2>2, <2>4
    <2>6. r[k - 1] \subseteq C /\ r[k] = Further(plan, r[k - 1])
      BY <1>1, <2>4, <2>5
    <2>7. r[k] \subseteq C
      BY <1>3, <2>6 DEF Further, Closed
    <2> QED BY <2>7
  \* Until nothing is new, every round finds another task.
  <1>4. ASSUME NEW n \in 0 .. N PROVE Closed(plan, r[n]) \/ Cardinality(r[n]) > n
    <2> DEFINE Bad == {k \in 0 .. N : ~(Closed(plan, r[k]) \/ Cardinality(r[k]) > k)}
    <2> SUFFICES ASSUME Bad # {} PROVE FALSE
      OBVIOUS
    <2>1. Bad \subseteq Nat
      OBVIOUS
    <2>2. PICK k \in Bad : \A j \in Bad : k <= j
      BY <2>1, LeastNumber
    <2>3. k \in Nat /\ k <= N /\ IsFiniteSet(r[k]) /\ Cardinality(r[k]) \in Nat
      BY <1>0, <1>2, FS_Subset, FS_CardinalityType
    <2>4. k # 0
      <3>1. r[0] = {} => Closed(plan, r[0])
        BY DEF Closed
      <3>2. IsFiniteSet(r[0]) /\ 0 \in 0 .. N
        BY <1>0, <1>2, FS_Subset
      <3>3. r[0] # {} => Cardinality(r[0]) > 0
        BY <3>2, FS_EmptySet, FS_CardinalityType
      <3> QED BY <3>1, <3>3
    <2>5. k \in 1 .. N /\ k - 1 \in 0 .. N /\ ~(k <= k - 1)
      BY <1>0, <2>3, <2>4
    <2>6. k - 1 \notin Bad
      BY <2>2, <2>5
    <2>7. r[k] = Further(plan, r[k - 1]) /\ IsFiniteSet(r[k - 1]) /\ Cardinality(r[k - 1]) \in Nat
      BY <1>1, <1>2, <2>5, FS_Subset, FS_CardinalityType
    <2>8. CASE Closed(plan, r[k - 1])
      <3>1. r[k] = r[k - 1]
        BY <2>7, <2>8 DEF Further, Closed
      <3> QED BY <2>8, <3>1
    <2>9. CASE ~Closed(plan, r[k - 1])
      <3>1. r[k - 1] \subseteq r[k] /\ r[k - 1] # r[k]
        BY <2>7, <2>9 DEF Further, Closed
      <3>2. Cardinality(r[k - 1]) < Cardinality(r[k])
        BY <2>3, <2>7, <3>1, FS_Subset
      <3>3. Cardinality(r[k - 1]) > k - 1
        BY <2>5, <2>6, <2>9
      <3> QED BY <2>3, <2>7, <3>2, <3>3
    <2> QED BY <2>8, <2>9
  <1>5. N \in 0 .. N
    BY <1>0
  <1>6. Cardinality(r[N]) <= N /\ Cardinality(r[N]) \in Nat
    BY <1>2, <1>5, FS_Subset, FS_CardinalityType
  <1>7. Closed(plan, r[N])
    BY <1>0, <1>4, <1>5, <1>6
  <1> QED BY <1>1, <1>2, <1>3, <1>5, <1>7

-----------------------------------------------------------------------------
(* The plan contract. *)

\* What the steps say of the parts of a plan when it is rejected.
LEMMA RejectedIsEmpty ==
    ASSUME Reject
    PROVE  /\ verdict' = "rejected" /\ Tasks' = {}
           /\ visited' = {} /\ stack' = <<>> /\ groups' = {}
           /\ deps' = None /\ todo' = None /\ claims' = None
  BY DEF Reject, Tasks, None

(***************************************************************************)
(* The types, and what is empty before a plan is parsed.                   *)
(***************************************************************************)
Shape ==
    /\ PlanTypeOK
    /\ verdict = "none" => visited = {} /\ stack = <<>> /\ claims = None /\ groups = {}

(***************************************************************************)
(* What the search knows: a dependency is visited or still to do; and a    *)
(* visited task waits for no set of tasks that wait for each other.        *)
(***************************************************************************)
Searching ==
    /\ verdict \in {"searching", "grouping", "accepted"} =>
          \A t \in Tasks : deps[t] \subseteq Tasks \cup Known
    /\ \A t \in Tasks : deps[t] \cap Tasks \subseteq visited \cup todo[t]
    /\ \A S \in SUBSET Tasks :
          (\A t \in S : deps[t] \cap S # {}) => S \cap visited = {}
    /\ verdict \in {"grouping", "accepted"} => visited = Tasks

(***************************************************************************)
(* Claims and groups: there are finitely many tasks, every one has accepted *)
(* claims once the search is over, and the groups were looked at.          *)
(***************************************************************************)
Grouped ==
    /\ IsFiniteSet(Tasks)
    /\ verdict \in {"grouping", "accepted"} => claims \in [Tasks -> Claims]
    /\ verdict = "accepted" => GroupsFit

LEMMA EmptyPlan ==
    /\ None \in [{} -> SUBSET TaskIds] /\ None \in [{} -> SUBSET {}]
    /\ None \in [{} -> Claims] /\ DOMAIN None = {}
  BY DEF None

LEMMA RejectedIsSound == Reject => Shape' /\ Searching'
  <1> SUFFICES ASSUME Reject PROVE Shape' /\ Searching'
    OBVIOUS
  <1>1. stack' \in Seq(Tasks')
    BY RejectedIsEmpty
  <1>2. Shape'
    BY <1>1, EmptyPlan, RejectedIsEmpty DEF Shape, PlanTypeOK
  <1>3. Searching'
    BY RejectedIsEmpty DEF Searching
  <1> QED
    BY <1>2, <1>3

LEMMA ShapeInit == NoPlan => Shape
  <1> SUFFICES ASSUME NoPlan PROVE Shape
    OBVIOUS
  <1>1. Tasks = {}
    BY EmptyPlan DEF NoPlan, Tasks
  <1>2. stack \in Seq(Tasks)
    BY DEF NoPlan
  <1> QED
    BY <1>1, <1>2, EmptyPlan DEF NoPlan, PlanTypeOK, Shape

\* A step of the plan contract keeps the types.
LEMMA ShapeStep == Shape /\ [PlanStep]_planVars => Shape'
  <1> SUFFICES ASSUME Shape, [PlanStep]_planVars PROVE Shape'
    OBVIOUS
  <1> USE DEF PlanTypeOK, Shape
  <1>1. CASE Parse
    <2>1. PICK d \in Proposals :
              /\ deps' = d
              /\ todo' = [t \in DOMAIN d |-> d[t] \cap DOMAIN d]
      BY <1>1 DEF Parse
    <2>2. d \in [DOMAIN d -> SUBSET TaskIds] /\ DOMAIN d \subseteq TaskIds
      BY ProposalsAssumption
    <2>3. Tasks' = DOMAIN d
      BY <2>1 DEF Tasks
    <2>4. /\ verdict = "none" /\ verdict' = "searching"
          /\ visited' = {} /\ stack' = <<>> /\ claims' = None /\ groups' = {}
      BY <1>1 DEF Parse
    <2>5. stack' \in Seq(Tasks')
      BY <2>4
    <2>6. claims' \in [DOMAIN claims' -> Claims] /\ DOMAIN claims' = {}
      BY <2>4, EmptyPlan
    <2>7. todo' \in [Tasks' -> SUBSET Tasks']
      BY <2>1, <2>3
    <2>8. deps' \in [Tasks' -> SUBSET TaskIds] /\ Tasks' \subseteq TaskIds
      BY <2>1, <2>2, <2>3
    <2> QED
      BY <2>4, <2>5, <2>6, <2>7, <2>8
  <1>2. CASE \E t \in Tasks : Visit(t)
    BY <1>2 DEF Visit, Tasks
  <1>3. CASE \E t \in Tasks : VisitDependency(t)
    <2>1. PICK t \in Tasks : VisitDependency(t)
      BY <1>3
    <2>2. stack' \in Seq(Tasks')
      BY <2>1 DEF VisitDependency, Tasks
    <2> QED
      BY <2>1, <2>2 DEF VisitDependency, Tasks
  <1>4. CASE \E t \in Tasks : Advance(t)
    <2>1. PICK t \in Tasks : Advance(t)
      BY <1>4
    <2>2. todo' \in [Tasks -> SUBSET Tasks]
      BY <2>1 DEF Advance
    <2> QED
      BY <2>1, <2>2 DEF Advance, Tasks
  <1>5. CASE Cycle
    BY <1>5, RejectedIsSound DEF Cycle
  <1>6. CASE Leave
    <2>1. Len(stack) \in Nat \ {0} /\ Top \in Tasks
      BY <1>6 DEF Leave, Top
    <2>2. stack' \in Seq(Tasks)
      BY <1>6, <2>1 DEF Leave, Front
    <2> QED
      BY <1>6, <2>1, <2>2 DEF Leave, Tasks
  <1>7. CASE Searched
    <2>1. claims' \in [Tasks -> Claims] /\ DOMAIN claims' = Tasks
      BY <1>7 DEF Searched
    <2>2. groups' \subseteq SUBSET Tasks
      BY <1>7 DEF Searched
    <2> QED
      BY <1>7, <2>1, <2>2 DEF Searched, Tasks
  <1>8. CASE Accept
    BY <1>8 DEF Accept, Tasks
  <1>9. CASE Invalid
    BY <1>9, RejectedIsSound DEF Invalid
  <1>10. CASE UNCHANGED planVars
    BY <1>10 DEF planVars, Tasks
  <1> QED
    BY <1>1, <1>2, <1>3, <1>4, <1>5, <1>6, <1>7, <1>8, <1>9, <1>10 DEF PlanStep

LEMMA SearchingInit == NoPlan => Searching
  <1> SUFFICES ASSUME NoPlan PROVE Searching
    OBVIOUS
  <1>1. Tasks = {}
    BY EmptyPlan DEF NoPlan, Tasks
  <1> QED
    BY <1>1 DEF NoPlan, Searching

\* A task that is left has all its dependencies visited, so that it cannot be in a
\* set of tasks that wait for each other unless one of them was visited before.
LEMMA SearchingStep ==
    Shape /\ Searching /\ [PlanStep]_planVars => Searching'
  <1> SUFFICES ASSUME Shape, Searching, [PlanStep]_planVars PROVE Searching'
    OBVIOUS
  <1>1. CASE Parse
    <2>1. PICK d \in Proposals :
              /\ Sound(d)
              /\ deps' = d
              /\ todo' = [t \in DOMAIN d |-> d[t] \cap DOMAIN d]
      BY <1>1 DEF Parse
    <2>2. Tasks' = DOMAIN d
      BY <2>1 DEF Tasks
    <2>3. verdict' = "searching" /\ visited' = {}
      BY <1>1 DEF Parse, Shape
    <2> QED
      BY <2>1, <2>2, <2>3 DEF Searching, Sound
  <1>2. CASE \E t \in Tasks : Visit(t)
    BY <1>2 DEF Visit, Tasks, Searching
  <1>3. CASE \E t \in Tasks : VisitDependency(t)
    BY <1>3 DEF VisitDependency, Tasks, Searching
  <1>4. CASE \E t \in Tasks : Advance(t)
    <2>1. PICK t \in Tasks : Advance(t)
      BY <1>4
    <2>2. ASSUME NEW u \in Tasks PROVE todo[u] \subseteq visited \cup todo'[u]
      BY <2>1 DEF Advance, Shape, PlanTypeOK
    <2>3. UNCHANGED <<verdict, deps, visited>> /\ Tasks' = Tasks
      BY <2>1 DEF Advance, Tasks
    <2> QED
      BY <2>2, <2>3 DEF Searching
  <1>5. CASE Cycle
    BY <1>5, RejectedIsSound DEF Cycle
  <1>6. CASE Leave
    <2>1. /\ UNCHANGED <<verdict, deps, todo>> /\ Tasks' = Tasks
          /\ visited' = visited \cup {Top} /\ todo[Top] = {} /\ verdict = "searching"
      BY <1>6 DEF Leave, Tasks
    <2>2. ASSUME NEW S \in SUBSET Tasks, \A t \in S : deps[t] \cap S # {}
          PROVE  Top \notin S
      <3>1. S \cap visited = {}
        BY <2>2 DEF Searching
      <3>2. Top \in S => deps[Top] \cap Tasks \subseteq visited
        BY <2>1 DEF Searching
      <3> QED
        BY <2>2, <3>1, <3>2
    <2> QED
      BY <2>1, <2>2 DEF Searching
  <1>7. CASE Searched
    BY <1>7 DEF Searched, Tasks, Searching
  <1>8. CASE Accept
    BY <1>8 DEF Accept, Tasks, Searching
  <1>9. CASE Invalid
    BY <1>9, RejectedIsSound DEF Invalid
  <1>10. CASE UNCHANGED planVars
    BY <1>10 DEF planVars, Tasks, Searching
  <1> QED
    BY <1>1, <1>2, <1>3, <1>4, <1>5, <1>6, <1>7, <1>8, <1>9, <1>10 DEF PlanStep

LEMMA PlanStepCases == [Next]_vars => [PlanStep]_planVars \/ Reject
  <1> SUFFICES ASSUME [Next]_vars PROVE [PlanStep]_planVars \/ Reject
    OBVIOUS
  <1>1. CASE AroundRuntime
    BY <1>1 DEF AroundRuntime, RefusePlanner, StartPlanner, LeaveDirectory, ReadEvent,
                EndOfStream, InvalidOutput, JudgePlan, PlanAccepted, PlanRejected
  <1>2. CASE AroundPlanner
    BY <1>2, AroundPlannerSteps DEF providerVars
  <1>3. CASE Others \/ Crash \/ UNCHANGED vars
    BY <1>3 DEF Others, Crash, vars, providerVars
  <1> QED
    BY <1>1, <1>2, <1>3, StepCases

LEMMA GroupedInit == NoPlan => Grouped
  <1> SUFFICES ASSUME NoPlan PROVE Grouped
    OBVIOUS
  <1>1. Tasks = {}
    BY EmptyPlan DEF NoPlan, Tasks
  <1> QED
    BY <1>1, FS_EmptySet DEF NoPlan, Grouped

LEMMA GroupedStep == Shape /\ Grouped /\ [Next]_vars => Grouped'
  <1> SUFFICES ASSUME Shape, Grouped, [Next]_vars PROVE Grouped'
    OBVIOUS
  <1>1. CASE Reject
    BY <1>1, RejectedIsEmpty, FS_EmptySet DEF Grouped
  <1>2. CASE Parse
    <2>1. PICK d \in Proposals : deps' = d
      BY <1>2 DEF Parse
    <2>2. IsFiniteSet(Tasks')
      BY <2>1, ProposalsAssumption DEF Tasks
    <2> QED
      BY <1>2, <2>2 DEF Parse, Grouped
  <1>3. CASE Searched
    <2>1. claims' \in [Tasks -> {allowed \in Claims : ClaimsAccepted(allowed)}]
      BY <1>3 DEF Searched
    <2>2. claims' \in [Tasks -> Claims]
      BY <2>1
    <2> QED
      BY <1>3, <2>2 DEF Searched, Grouped, Tasks
  <1>4. CASE Accept
    <2>1. GroupsFit'
      BY <1>4 DEF Accept, GroupsFit, Separate
    <2> QED
      BY <1>4, <2>1 DEF Accept, Grouped, Tasks
  <1>5. CASE Leave \/ \E t \in Tasks : Visit(t) \/ VisitDependency(t) \/ Advance(t)
    BY <1>5 DEF Leave, Visit, VisitDependency, Advance, Grouped, Tasks
  <1>6. CASE UNCHANGED planVars
    <2>1. GroupsFit => GroupsFit'
      BY <1>6 DEF planVars, GroupsFit, Separate
    <2> QED
      BY <1>6, <2>1 DEF planVars, Grouped, Tasks
  <1> QED
    BY <1>1, <1>2, <1>3, <1>4, <1>5, <1>6, PlanStepCases DEF PlanStep, Cycle, Invalid

-----------------------------------------------------------------------------
(* The theorems. *)

(***************************************************************************)
(* The inductive invariant of the planning trial: what is true of the      *)
(* bounded process, of the calls of the runtime, of the event stream, of   *)
(* the plan and of the trial, at every step of any of them and of the      *)
(* programs around them.                                                   *)
(***************************************************************************)
THEOREM TrialInvariant ==
    Spec => [](ProcessInvariant /\ CallInvariant /\ Streamed /\ Shape /\ Searching /\ Grouped
             /\ Recorded)
  <1>1. Init => Quiet /\ NoStream /\ NoPlan
    BY DEF Init, NoPlanner, NoRuntime, NoCall
  <1>2. Shape /\ Searching /\ [Next]_vars => Shape' /\ Searching'
    BY PlanStepCases, ShapeStep, SearchingStep, RejectedIsSound
  <1> QED
    BY <1>1, <1>2, ProcessInit, ProcessStep, CallInit, CallStep, StreamInit, StreamStep,
       ShapeInit, SearchingInit, GroupedInit, GroupedStep, RecordedInit, RecordedStep, PTL DEF Spec

(***************************************************************************)
(* The parts of a plan belong to its tasks, at every step of its check.    *)
(***************************************************************************)
THEOREM PlanTypeCorrect == Spec => []PlanTypeOK
  <1>1. Shape => PlanTypeOK
    BY DEF Shape
  <1> QED
    BY <1>1, TrialInvariant, PTL

(***************************************************************************)
(* What _run returns is the whole output of a child that was not killed,   *)
(* for any limit, and however the threads, the child, its descendants and  *)
(* the time limits interleave.                                             *)
(***************************************************************************)
THEOREM OutputsAreWhole == Spec => []OutputIsWhole
  <1>1. ProcessInvariant => OutputIsWhole
    <2> SUFFICES ASSUME ProcessInvariant, answer = "output" PROVE OutputIsWhole
      BY DEF OutputIsWhole
    <2>1. /\ main = "answered" /\ child = "ended" /\ ~timedOut /\ ~overflow /\ ~broken
          /\ \A s \in Streams : reader[s] = "done"
      BY DEF ProcessInvariant, ProcessShape, Called, Alive
    <2>2. \A s \in Streams : kept[s] = taken[s]
      BY <2>1 DEF ProcessInvariant, ProcessShape, Accounted, Counters
    <2>3. ~stop => \A s \in Streams : kept[s] = written[s]
      BY <2>1, <2>2 DEF ProcessInvariant, Drained
    <2> QED
      BY <2>1, <2>2, <2>3 DEF OutputIsWhole, ProcessInvariant, Accounted
  <1> QED
    BY <1>1, TrialInvariant, PTL

(***************************************************************************)
(* A contained call that ends, and does not say that its cleanup failed,   *)
(* has left no unit and no process of one.                                 *)
(***************************************************************************)
THEOREM UnitsAreContained == Spec => []ContainedAtReturn
  <1>1. CallInvariant => ContainedAtReturn
    <2> SUFFICES ASSUME CallInvariant, step = "returned", outcome # "uncontained"
                 PROVE  Gone /\ "apart" \notin holders
      BY DEF ContainedAtReturn
    <2>1. trial # "crashed"
      BY DEF CallInvariant, CallShape
    <2> QED
      BY <2>1 DEF CallInvariant, Freed, Free
  <1> QED
    BY <1>1, TrialInvariant, PTL

(***************************************************************************)
(* A trial that ends has tried to remove all that it staged, but for a     *)
(* launcher whose directory could not be resolved: then it was refused,    *)
(* and no unit runs from what is left.                                     *)
(***************************************************************************)
THEOREM NothingIsLeftBehind == Spec => []NothingLeftBehind
  <1>1. CallInvariant => NothingLeftBehind
    <2> SUFFICES ASSUME CallInvariant, trial \in {"recorded", "refused"}
                 PROVE  /\ workdir # "made"
                        /\ LauncherLeft =>
                              /\ launcher = "unresolved"
                              /\ trial = "refused"
                              /\ Gone /\ "apart" \notin holders
      BY DEF NothingLeftBehind
    <2>1. planner \in {"idle", "returned"} /\ step = "idle"
      BY DEF CallInvariant, CallShape
    <2>2. workdir # "made" /\ launcher # "staged"
      BY <2>1 DEF CallInvariant, Removes
    <2>3. ASSUME launcher = "unresolved"
          PROVE  trial = "refused" /\ Gone /\ "apart" \notin holders
      BY <2>3 DEF CallInvariant, GivenUp, Free
    <2> QED
      BY <2>2, <2>3 DEF LauncherLeft
  <1> QED
    BY <1>1, TrialInvariant, PTL

(***************************************************************************)
(* The command is never called with a file that was changed before it was  *)
(* hashed for the second time, for any set of staged files.                *)
(***************************************************************************)
THEOREM RuntimesWerePinned == Spec => RuntimeWasPinned
  <1>1. CallInvariant /\ [Next]_vars
            => [stage # "executing" /\ stage' = "executing"
                    => Files \subseteq pinned \cup changed]_attestedVars
    <2> SUFFICES ASSUME CallInvariant, [Next]_vars,
                        stage # "executing", stage' = "executing"
                 PROVE  Files \subseteq pinned \cup changed
      OBVIOUS
    <2>1. Attesting
      <3>1. ~(UNCHANGED attestedVars) /\ ~Crash /\ ~Others
        BY DEF attestedVars, runtimeVars, Crash, Others, Around, Tamper
      <3> QED
        BY <3>1, StepCases, AroundPlannerSteps, AroundRuntimeSteps DEF vars, providerVars
    <2>2. Install
      BY <2>1 DEF Attesting, StageRuntime, StagingFails, CallBoundary, Probed, ProbeFails,
                  HashFails, Executed, Hash, Unattested, runtimeVars
    <2> QED
      BY <2>2 DEF Install, CallInvariant, Pins
  <1> QED
    BY <1>1, TrialInvariant, PTL DEF Spec, RuntimeWasPinned

(***************************************************************************)
(* A plan is only taken from one whole turn of one thread of the provider. *)
(***************************************************************************)
THEOREM PlansComeFromOneTurn == Spec => []PlanFromOneTurn
  <1>1. Streamed /\ Recorded => PlanFromOneTurn
    BY WholeTurn DEF Recorded, PlanFromOneTurn
  <1> QED
    BY <1>1, TrialInvariant, PTL

(***************************************************************************)
(* A plan that is accepted can run to its end, whatever its tasks are and  *)
(* however they depend on each other: no set of them waits for itself, and *)
(* every other dependency is a known task.                                 *)
(***************************************************************************)
THEOREM AcceptedPlansCanRun == Spec => []AcceptedPlanCanRun
  <1>1. Searching => AcceptedPlanCanRun
    <2> SUFFICES ASSUME Searching, verdict = "accepted" PROVE AcceptedPlanCanRun
      BY DEF AcceptedPlanCanRun
    <2>1. ASSUME NEW S \in SUBSET Tasks, \A t \in S : deps[t] \cap S # {} PROVE S = {}
      BY <2>1 DEF Searching
    <2> QED
      BY <2>1 DEF Searching, AcceptedPlanCanRun
  <1> QED
    BY <1>1, TrialInvariant, PTL

(***************************************************************************)
(* A record is about the approved revision, whatever HEAD did meanwhile.   *)
(***************************************************************************)
THEOREM RecordsAreAboutBase == Spec => []RecordIsAboutBase
  <1>1. Recorded => RecordIsAboutBase
    BY DEF Recorded, RecordIsAboutBase
  <1> QED
    BY <1>1, TrialInvariant, PTL

(***************************************************************************)
(* Tasks in one parallel group of an accepted plan do not wait for each    *)
(* other through any chain of tasks, and no path is open to both: for      *)
(* plans, claims and paths of any size.                                    *)
(***************************************************************************)
THEOREM ParallelTasksAreApart == Spec => []ParallelWorkIsApart
  <1>1. Shape /\ Grouped => ParallelWorkIsApart
    <2> SUFFICES ASSUME Shape, Grouped, verdict = "accepted", NEW g \in groups,
                        NEW left \in g, NEW right \in g, left # right
                 PROVE  /\ Unreachable(left, right)
                        /\ \A path \in Paths : ~(/\ PathAllowed(claims[left], path)
                                                 /\ PathAllowed(claims[right], path))
      BY Zenon DEF ParallelWorkIsApart
    <2>1. Separate(left, right) /\ left \in Tasks /\ right \in Tasks
      BY DEF Grouped, GroupsFit, Shape, PlanTypeOK
    <2>2. /\ Reachable(deps, left) \subseteq Tasks /\ deps[left] \cap Tasks \subseteq Reachable(deps, left)
          /\ Closed(deps, Reachable(deps, left))
      BY <2>1, ReachableIsLeastClosed DEF Grouped, Tasks
    <2>3. Unreachable(left, right)
      <3> DEFINE C == Reachable(deps, left) \cup {left}
      <3>1. C \in SUBSET Tasks /\ left \in C /\ right \notin C
        BY <2>1, <2>2 DEF Separate
      <3>2. \A t \in C : deps[t] \cap Tasks \subseteq C
        BY <2>2 DEF Closed, Tasks
      <3> HIDE DEF C
      <3> QED
        BY <3>1, <3>2 DEF Unreachable
    <2>4. ASSUME NEW path \in Paths,
                 PathAllowed(claims[left], path), PathAllowed(claims[right], path)
          PROVE  FALSE
      <3>1. PICK p \in claims[left] : GlobMatches(p, path)
        BY <2>4 DEF PathAllowed
      <3>2. PICK q \in claims[right] : GlobMatches(q, path)
        BY <2>4 DEF PathAllowed
      <3>3. claims[left] \in Claims /\ claims[right] \in Claims
        BY <2>1 DEF Grouped
      <3>4. p \in Seq(Parts) /\ q \in Seq(Parts) /\ path \in Seq(Parts)
        BY <3>1, <3>2, <3>3, ClaimsAssumption
      <3>5. ClaimsOverlap(p, q)
        BY <3>1, <3>2, <3>4, OverlapFindsCommonPaths
      <3> QED
        BY <2>1, <3>5 DEF Separate
    <2> QED
      BY <2>3, <2>4
  <1> QED
    BY <1>1, TrialInvariant, PTL

-----------------------------------------------------------------------------
(* What is accepted can be put in order, and what is rejected for a cycle   *)
(* has one.                                                                *)

\* An order in which the tasks of D can be done one after the other.
IsOrder(order, D) ==
    /\ order \in [D -> 1 .. Cardinality(D)]
    /\ \A t, u \in D : order[t] = order[u] => t = u
    /\ \A t \in D : \A u \in deps[t] \cap Tasks : u \in D /\ order[u] < order[t]

HasOrder == verdict = "accepted" => \E order : IsOrder(order, Tasks)

\* A task whose dependencies are in the order already can be done after them.
LEMMA OrderExtends ==
  ASSUME NEW D, D \subseteq Tasks, IsFiniteSet(D), NEW order, IsOrder(order, D),
         NEW t \in Tasks \ D, deps[t] \cap Tasks \subseteq D
  PROVE  \E longer : IsOrder(longer, D \cup {t})
  <1> DEFINE n == Cardinality(D)
             longer == [u \in D \cup {t} |-> IF u = t THEN n + 1 ELSE order[u]]
  <1>1. n \in Nat /\ Cardinality(D \cup {t}) = n + 1
    BY FS_AddElement, FS_CardinalityType
  <1>2. \A u \in D : order[u] \in 1 .. n
    BY DEF IsOrder
  <1>3. longer \in [D \cup {t} -> 1 .. n + 1]
    BY <1>1, <1>2
  <1>4. longer[t] = n + 1 /\ \A u \in D : longer[u] = order[u] /\ u # t
    OBVIOUS
  <1> HIDE DEF longer, n
  <1>5. \A u, v \in D \cup {t} : longer[u] = longer[v] => u = v
    BY <1>1, <1>2, <1>4 DEF IsOrder
  <1>6. ASSUME NEW u \in D \cup {t}, NEW v \in deps[u] \cap Tasks
        PROVE  v \in D \cup {t} /\ longer[v] < longer[u]
    <2>1. CASE u = t
      BY <1>1, <1>2, <1>4, <1>6, <2>1
    <2>2. CASE u \in D
      BY <1>4, <1>6, <2>2 DEF IsOrder
    <2> QED BY <2>1, <2>2
  <1> QED BY <1>1, <1>3, <1>5, <1>6 DEF IsOrder

\* If no set of tasks waits for itself, the longest order has every task in it.
LEMMA OrderExists ==
  ASSUME IsFiniteSet(Tasks),
         \A S \in SUBSET Tasks : (\A t \in S : deps[t] \cap S # {}) => S = {}
  PROVE  \E order : IsOrder(order, Tasks)
  <1> DEFINE N == Cardinality(Tasks)
             Left == {n \in Nat : \E D \in SUBSET Tasks :
                                     /\ n = N - Cardinality(D)
                                     /\ \E order : IsOrder(order, D)}
  <1>1. \A D \in SUBSET Tasks : /\ IsFiniteSet(D) /\ Cardinality(D) \in Nat
                                /\ Cardinality(D) <= N /\ N \in Nat
    BY FS_Subset, FS_CardinalityType
  <1>2. N \in Left
    <2>1. Cardinality({}) = 0
      BY FS_EmptySet
    <2>2. IsOrder([t \in {} |-> 0], {})
      BY <2>1 DEF IsOrder
    <2> QED BY <1>1, <2>1, <2>2
  <1>3. PICK n \in Left : \A m \in Left : n <= m
    BY <1>2, LeastNumber
  <1>4. PICK D \in SUBSET Tasks : n = N - Cardinality(D) /\ \E order : IsOrder(order, D)
    BY <1>3
  <1>o. PICK order : IsOrder(order, D)
    BY <1>4
  <1>5. CASE D = Tasks
    BY <1>o, <1>5
  <1>6. CASE D # Tasks
    <2>1. PICK t \in Tasks \ D : deps[t] \cap (Tasks \ D) = {}
      BY <1>6
    <2>2. PICK longer : IsOrder(longer, D \cup {t})
      BY <1>1, <1>o, <2>1, OrderExtends
    <2>3. Cardinality(D \cup {t}) = Cardinality(D) + 1 /\ D \cup {t} \in SUBSET Tasks
      BY <1>1, <2>1, FS_AddElement
    <2>4. n - 1 = N - Cardinality(D \cup {t}) /\ n - 1 \in Nat /\ ~(n <= n - 1)
      <3>1. Cardinality(D) + 1 <= N
        BY <1>1, <2>3
      <3> QED BY <1>1, <1>4, <2>3, <3>1
    <2>5. n - 1 \in Left
      BY <2>2, <2>3, <2>4
    <2> QED BY <1>3, <2>4, <2>5
  <1> QED BY <1>5, <1>6

(***************************************************************************)
(* The tasks of an accepted plan can be done one after the other, each     *)
(* after everything in the plan that it depends on, in a plan of any size. *)
(***************************************************************************)
THEOREM AcceptedPlansHaveOrder == Spec => []HasOrder
  <1>1. Searching /\ Grouped => HasOrder
    <2> SUFFICES ASSUME Searching, Grouped, verdict = "accepted"
                 PROVE  \E order : IsOrder(order, Tasks)
      BY DEF HasOrder
    <2>1. ASSUME NEW S \in SUBSET Tasks, \A t \in S : deps[t] \cap S # {} PROVE S = {}
      BY <2>1 DEF Searching
    <2> QED BY <2>1, OrderExists DEF Grouped
  <1> QED
    BY <1>1, TrialInvariant, PTL

\* The calls of visit are a path along dependencies.
Pathed ==
    /\ \A t \in Tasks : todo[t] \subseteq deps[t]
    /\ \A i \in 1 .. Len(stack) - 1 : stack[i + 1] \in deps[stack[i]]

HasCycle == \E S \in SUBSET Tasks : S # {} /\ \A t \in S : deps[t] \cap S # {}

CyclesAreReal == [][Cycle => HasCycle]_vars

LEMMA PathedInit == NoPlan => Pathed
  <1> SUFFICES ASSUME NoPlan PROVE Pathed
    OBVIOUS
  <1>1. Tasks = {} /\ Len(stack) = 0
    BY EmptyPlan DEF NoPlan, Tasks
  <1> QED
    BY <1>1 DEF Pathed

LEMMA PathedStep == Shape /\ Pathed /\ [Next]_vars => Pathed'
  <1> SUFFICES ASSUME Shape, Pathed, [Next]_vars PROVE Pathed'
    OBVIOUS
  <1>0. stack \in Seq(Tasks) /\ Len(stack) \in Nat /\ todo \in [Tasks -> SUBSET Tasks]
    BY DEF Shape, PlanTypeOK
  <1>1. CASE Reject
    <2>1. Tasks' = {} /\ Len(stack') = 0
      BY <1>1, RejectedIsEmpty
    <2> QED BY <2>1 DEF Pathed
  <1>2. CASE Parse
    <2>1. PICK d \in Proposals : deps' = d /\ todo' = [t \in DOMAIN d |-> d[t] \cap DOMAIN d]
      BY <1>2 DEF Parse
    <2>2. Len(stack') = 0
      BY <1>2 DEF Parse, Shape
    <2> QED BY <2>1, <2>2 DEF Pathed, Tasks
  <1>3. ASSUME NEW t \in Tasks, Visit(t) PROVE Pathed'
    <2>1. Len(stack') = 1
      BY <1>3 DEF Visit
    <2> QED BY <1>3, <2>1 DEF Visit, Pathed, Tasks
  <1>4. ASSUME NEW t \in Tasks, VisitDependency(t) PROVE Pathed'
    <2>1. Len(stack) # 0 /\ Top \in Tasks /\ t \in deps[Top]
      BY <1>0, <1>4 DEF VisitDependency, Top, Pathed
    <2>2. /\ Len(stack') = Len(stack) + 1 /\ stack'[Len(stack) + 1] = t
          /\ \A i \in 1 .. Len(stack) : stack'[i] = stack[i]
      BY <1>0, <1>4 DEF VisitDependency
    <2>3. ASSUME NEW i \in 1 .. Len(stack') - 1 PROVE stack'[i + 1] \in deps[stack'[i]]
      <3>1. CASE i = Len(stack)
        BY <1>0, <2>1, <2>2, <3>1 DEF Top
      <3>2. CASE i \in 1 .. Len(stack) - 1
        <4>1. i + 1 \in 1 .. Len(stack) /\ i \in 1 .. Len(stack)
          BY <1>0, <3>2
        <4> QED BY <2>2, <3>2, <4>1 DEF Pathed
      <3> QED BY <1>0, <2>2, <3>1, <3>2
    <2> QED BY <1>4, <2>3 DEF VisitDependency, Pathed, Tasks
  <1>5. ASSUME NEW t \in Tasks, Advance(t) PROVE Pathed'
    BY <1>0, <1>5 DEF Advance, Pathed, Tasks
  <1>6. CASE Leave
    <2>1. /\ Len(stack) # 0 /\ Len(stack') = Len(stack) - 1
          /\ \A i \in 1 .. Len(stack) - 1 : stack'[i] = stack[i]
      <3>1. stack' = SubSeq(stack, 1, Len(stack) - 1)
        BY <1>6 DEF Leave, Front
      <3>2. Len(stack) # 0
        BY <1>0, <1>6 DEF Leave
      <3> DEFINE n == Len(stack) - 1
      <3>3. n \in Nat /\ n <= Len(stack)
        BY <1>0, <3>2
      <3>4. stack' = SubSeq(stack, 1, n)
        BY <3>1
      <3> HIDE DEF n
      <3>5. Len(stack') = n
        BY <1>0, <3>3, <3>4
      <3>6. \A i \in 1 .. n : stack'[i] = stack[i]
        BY <1>0, <3>3, <3>4
      <3> QED BY <3>2, <3>5, <3>6 DEF n
    <2>2. ASSUME NEW i \in 1 .. Len(stack') - 1 PROVE stack'[i + 1] \in deps[stack'[i]]
      <3>1. i + 1 \in 1 .. Len(stack) - 1 /\ i \in 1 .. Len(stack) - 1
        BY <1>0, <2>1
      <3> QED BY <2>1, <3>1 DEF Pathed
    <2> QED BY <1>6, <2>2 DEF Leave, Pathed, Tasks
  <1>7. CASE Searched \/ Accept \/ UNCHANGED planVars
    BY <1>7 DEF Searched, Accept, planVars, Pathed, Tasks
  <1> QED
    BY <1>1, <1>2, <1>3, <1>4, <1>5, <1>6, <1>7, PlanStepCases DEF PlanStep, Cycle, Invalid

\* The calls from the one for the dependency on.
LEMMA StackHasCycle ==
  ASSUME Shape, Pathed, Cycle
  PROVE  HasCycle
  <1>0. stack \in Seq(Tasks) /\ Len(stack) \in Nat
    BY DEF Shape, PlanTypeOK
  <1>1. Len(stack) \in Nat \ {0} /\ Top \in Tasks
    BY <1>0 DEF Cycle, Top
  <1>2. PICK k \in 1 .. Len(stack) : stack[k] \in todo[Top]
    BY <1>0 DEF Cycle, Range
  <1> DEFINE S == {stack[i] : i \in k .. Len(stack)}
  <1>3. S \in SUBSET Tasks /\ stack[k] \in S
    BY <1>0, <1>2
  <1>4. ASSUME NEW i \in k .. Len(stack) PROVE deps[stack[i]] \cap S # {}
    <2>1. CASE i = Len(stack)
      BY <1>1, <1>2, <1>3, <2>1 DEF Pathed, Top
    <2>2. CASE i # Len(stack)
      <3>1. i \in 1 .. Len(stack) - 1 /\ i + 1 \in k .. Len(stack)
        BY <1>0, <2>2
      <3> QED BY <3>1 DEF Pathed
    <2> QED BY <2>1, <2>2
  <1>5. \A t \in S : deps[t] \cap S # {}
    BY <1>4
  <1> HIDE DEF S
  <1> QED BY <1>3, <1>5 DEF HasCycle

(***************************************************************************)
(* The search is sound as well as complete: a plan that is rejected for a  *)
(* cycle has a set of tasks that wait for each other, which is just what   *)
(* an accepted plan never has.                                             *)
(***************************************************************************)
THEOREM RejectedCyclesAreReal == Spec => CyclesAreReal
  <1>1. Init => NoPlan
    BY DEF Init, NoPlanner, NoRuntime, NoCall
  <1>2. Shape /\ Pathed /\ [Next]_vars => [Cycle => HasCycle]_vars
    BY StackHasCycle
  <1> QED
    BY <1>1, <1>2, PathedInit, PathedStep, TrialInvariant, PTL DEF Spec, CyclesAreReal
=============================================================================
