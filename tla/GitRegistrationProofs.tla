------------------------- MODULE GitRegistrationProofs -------------------------
(***************************************************************************)
(* Theorems about GitRegistration, for any number of controllers and of    *)
(* Git processes: what is reported as created is there and was made by     *)
(* the caller's own process, what is reported as rejected is not there.    *)
(***************************************************************************)
EXTENDS GitRegistration, TLAPS

AfterProcess == {"looking", "listing", "head", "judging"}

(***************************************************************************)
(* How far a process got and what it left in the repository: the branch    *)
(* and the finished entry are there for good, an unfinished entry as long  *)
(* as its process lives.                                                   *)
(***************************************************************************)
ProcessMeans(p) ==
    /\ proc[p].life = "unused" => proc[p].stage = "start" /\ proc[p].op = "none"
    /\ proc[p].output # "none" => proc[p].life = "dead"
    /\ proc[p].output \in {"clean", "loud"} => proc[p].stage = "done"
    /\ branch = p <=> proc[p].op = "reserve" /\ proc[p].stage = "done"
    /\ p \in entries => /\ proc[p].op = "register"
                        /\ proc[p].stage \in {"entered", "marked", "done"}
    /\ proc[p].op = "register" /\ proc[p].stage = "done" => p \in entries
    /\ /\ proc[p].op = "register" /\ proc[p].stage \in {"entered", "marked"}
       /\ proc[p].life \in {"running", "killed"}
       => p \in entries
    /\ p \in unreaped => proc[p].life \in {"killed", "dead"}

\* Process p is over and has left neither a branch nor a listed entry.
Gone(p) == proc[p].life = "dead" /\ branch # p /\ p \notin Listed

(***************************************************************************)
(* What a call knows of its process: past the wait it is dead, unless it   *)
(* could not be reaped, and an observation that found nothing says that    *)
(* there is nothing of it.                                                 *)
(***************************************************************************)
CallMeans(c) ==
    LET p == call[c].proc IN
    /\ call[c].output # "none" => /\ p # Nobody /\ call[c].step \in AfterProcess
                                  /\ proc[p].output = call[c].output
    /\ p # Nobody => /\ proc[p].op = call[c].op /\ proc[p].life # "unused"
                     /\ call[c].op # "none" /\ ~call[c].before
                     /\ call[c].step \in {"waiting"} \cup AfterProcess
                     /\ call[c].step \in AfterProcess =>
                           proc[p].life = "dead" \/ p \in unreaped
    /\ call[c].step = "waiting" => p # Nobody
    /\ call[c].step = "ready" => call[c].op # "none" /\ ~call[c].before
    /\ call[c].step \in {"listing", "head"} => call[c].op = "register"
    /\ call[c].step = "judging" /\ call[c].view = "absent" /\ p \notin unreaped \cup {Nobody}
          => Gone(p)

ResultMeans(p) ==
    /\ result[p] = "created" => proc[p].output = "clean"
    /\ result[p] = "rejected" /\ p \notin unreaped => Gone(p)

(***************************************************************************)
(* The processes whose work is, or can only be, reported as created: for   *)
(* each kind of work there is one.                                         *)
(***************************************************************************)
Sure(c) ==
    /\ call[c].output = "clean"
    /\ call[c].step = "head" \/ (call[c].step = "judging" /\ call[c].view = "exact")

Fixed(p) == result[p] = "created" \/ \E c \in Callers : call[c].proc = p /\ Sure(c)

OneFixed ==
    \A p, q \in Processes : Fixed(p) /\ Fixed(q) /\ proc[p].op = proc[q].op => p = q

RegistrationIInv ==
    /\ TypeOK
    /\ \A p \in Processes : ProcessMeans(p) /\ ResultMeans(p)
    /\ \A c \in Callers : CallMeans(c)
    /\ OneFixed

-----------------------------------------------------------------------------
(* The Git processes. *)

LEMMA RegistrationInit == Init => RegistrationIInv
  <1> SUFFICES ASSUME Init PROVE RegistrationIInv
    OBVIOUS
  <1>1. TypeOK
    BY DEF Init, TypeOK, Procs, Unused, Calls, Idle, Lives, Stages, Steps, Outputs, Views, Ops
  <1>2. \A p \in Processes : ProcessMeans(p) /\ ResultMeans(p)
    BY ProcessAssumption DEF Init, ProcessMeans, ResultMeans, Unused
  <1>3. \A c \in Callers : CallMeans(c)
    BY DEF Init, CallMeans, Idle
  <1>4. OneFixed
    BY DEF Init, OneFixed, Fixed, Sure, Idle
  <1> QED BY <1>1, <1>2, <1>3, <1>4 DEF RegistrationIInv

\* A system call of a process that lives, and dies after it if it was killed.
LEMMA StepShape ==
    ASSUME TypeOK, NEW p \in Processes, NEW op, NEW from, NEW to \in Stages,
           Step(p, op, from, to)
    PROVE  /\ proc[p].life \in {"running", "killed"} /\ proc[p].op = op /\ proc[p].stage = from
           /\ proc' \in [Processes -> Procs]
           /\ proc'[p].op = op /\ proc'[p].stage = to /\ proc'[p].output = proc[p].output
           /\ proc'[p].life = IF proc[p].life = "killed" THEN "dead" ELSE "running"
           /\ \A q \in Processes \ {p} : proc'[q] = proc[q]
           /\ UNCHANGED <<callers, unreaped>>
  <1> DEFINE after == [proc[p] EXCEPT !.stage = to,
                                      !.life = IF @ = "killed" THEN "dead" ELSE @]
  <1>1. proc[p] \in Procs
    BY DEF TypeOK
  <1>2. after \in Procs /\ after.op = proc[p].op /\ after.output = proc[p].output
        /\ after.stage = to /\ after.life = IF proc[p].life = "killed" THEN "dead" ELSE proc[p].life
    BY <1>1 DEF Procs, Lives
  <1>3. proc' = [proc EXCEPT ![p] = after]
    BY DEF Step
  <1>4. /\ proc[p].life \in {"running", "killed"} /\ proc[p].op = op /\ proc[p].stage = from
        /\ UNCHANGED <<callers, unreaped>>
    BY DEF Step
  <1>5. proc \in [Processes -> Procs]
    BY DEF TypeOK
  <1> HIDE DEF after
  <1>6. proc' \in [Processes -> Procs] /\ proc'[p] = after
        /\ \A q \in Processes \ {p} : proc'[q] = proc[q]
    BY <1>2, <1>3, <1>5
  <1> QED BY <1>2, <1>4, <1>6

(***************************************************************************)
(* Whatever a Git process does, it lives, and it touches only itself and   *)
(* what it made: the branch only if there is none, and its own entry.      *)
(***************************************************************************)
LEMMA GitTouchesItsOwn ==
    ASSUME RegistrationIInv, NEW p \in Processes, Git(p)
    PROVE  /\ UNCHANGED <<callers, unreaped>>
           /\ proc[p].life \in {"running", "killed"}
           /\ proc' \in [Processes -> Procs]
           /\ proc'[p].op = proc[p].op /\ proc'[p].life # "unused"
           /\ proc[p].life = "killed" => proc'[p].life \in {"killed", "dead"}
           /\ \A q \in Processes \ {p} : proc'[q] = proc[q]
           /\ branch' \in {branch, p}
           /\ branch' # branch => branch = "absent"
           /\ entries' \ {p} = entries \ {p}
           /\ marker' \in {marker, p, Nobody}
  <1> USE DEF RegistrationIInv, TypeOK, Procs, Lives, Stages, Outputs, Ops
  <1>1. CASE MakeBranch(p)
    <2>1. Step(p, "reserve", "start", "done") /\ branch = "absent" /\ branch' = p
          /\ UNCHANGED <<entries, marker>>
      BY <1>1 DEF MakeBranch
    <2> QED BY <2>1, StepShape
  <1>2. CASE CheckTree(p) \/ MakeHead(p)
    BY <1>2 DEF CheckTree, MakeHead, Step, repository, callers
  <1>3. CASE MakeEntry(p) \/ MakeMarker(p)
    BY <1>3 DEF MakeEntry, MakeMarker, Step, repository, callers
  <1>4. CASE Succeed(p) \/ Die(p)
    BY <1>4 DEF Succeed, Die, repository, callers
  <1>5. CASE Fail(p)
    <2> DEFINE after == [proc[p] EXCEPT !.life = "dead", !.output = "nonzero"]
    <2>1. proc' = [proc EXCEPT ![p] = after] /\ proc \in [Processes -> Procs]
      BY <1>5 DEF Fail
    <2>2. proc[p].life = "running" /\ UNCHANGED <<callers, unreaped>>
      BY <1>5 DEF Fail
    <2>3. after \in Procs /\ after.op = proc[p].op /\ after.life = "dead"
      BY <2>1
    <2>4. /\ branch' = branch /\ marker' \in {marker, Nobody}
          /\ entries' = entries \/ entries' = entries \ {p}
      BY <1>5 DEF Fail, repository
    <2> HIDE DEF after, RegistrationIInv, TypeOK, Procs
    <2>5. proc' \in [Processes -> Procs] /\ proc'[p] = after
          /\ \A q \in Processes \ {p} : proc'[q] = proc[q]
      BY <2>1, <2>3
    <2> QED
      BY <2>2, <2>3, <2>4, <2>5
  <1> HIDE DEF RegistrationIInv, TypeOK, Procs, Lives, Stages, Outputs, Ops
  <1>6. \/ MakeBranch(p) \/ CheckTree(p) \/ MakeHead(p) \/ MakeEntry(p) \/ MakeMarker(p)
        \/ Succeed(p) \/ Die(p) \/ Fail(p)
    BY DEF Git
  <1> QED BY <1>1, <1>2, <1>3, <1>4, <1>5, <1>6

LEMMA GitProcessMeans ==
    ASSUME RegistrationIInv, NEW p \in Processes, Git(p)
    PROVE  ProcessMeans(p)'
  <1> USE DEF RegistrationIInv, TypeOK, ProcessMeans, Procs, Lives, Stages, Outputs, Ops
  <1>1. CASE MakeBranch(p)
    BY <1>1 DEF MakeBranch, Step, repository, callers
  <1>2. CASE CheckTree(p) \/ MakeHead(p)
    BY <1>2 DEF CheckTree, MakeHead, Step, repository, callers
  <1>3. CASE MakeEntry(p) \/ MakeMarker(p)
    BY <1>3 DEF MakeEntry, MakeMarker, Step, repository, callers
  <1>4. CASE Succeed(p) \/ Die(p)
    BY <1>4 DEF Succeed, Die, repository, callers
  <1>5. CASE Fail(p)
    BY <1>5 DEF Fail, repository, callers
  <1> QED BY <1>1, <1>2, <1>3, <1>4, <1>5 DEF Git

LEMMA GitKeepsInv ==
    ASSUME RegistrationIInv, NEW p \in Processes, Git(p)
    PROVE  RegistrationIInv'
  <1>1. /\ UNCHANGED <<callers, unreaped>>
        /\ proc[p].life \in {"running", "killed"}
        /\ proc' \in [Processes -> Procs]
        /\ proc'[p].op = proc[p].op /\ proc'[p].life # "unused"
        /\ proc[p].life = "killed" => proc'[p].life \in {"killed", "dead"}
        /\ \A q \in Processes \ {p} : proc'[q] = proc[q]
        /\ branch' \in {branch, p}
        /\ branch' # branch => branch = "absent"
        /\ entries' \ {p} = entries \ {p}
        /\ marker' \in {marker, p, Nobody}
    BY GitTouchesItsOwn
  <1>2. UNCHANGED <<call, result, reserved, unreaped>>
    BY <1>1 DEF callers
  <1>3. TypeOK'
    BY <1>1, <1>2 DEF RegistrationIInv, TypeOK
  <1>4. ASSUME NEW q \in Processes, Gone(q) PROVE Gone(q)' /\ q # p
    BY <1>1, <1>4 DEF Gone, Listed
  <1>5. \A q \in Processes : proc[q].output # "none" => proc'[q] = proc[q]
    BY <1>1 DEF RegistrationIInv, ProcessMeans
  <1>6. ASSUME NEW q \in Processes PROVE ProcessMeans(q)'
    <2>1. CASE q = p
      BY <2>1, GitProcessMeans
    <2>2. CASE q # p
      BY <1>1, <1>2, <2>2, ProcessAssumption DEF RegistrationIInv, ProcessMeans
    <2> QED BY <2>1, <2>2
  <1>7. ASSUME NEW q \in Processes PROVE ResultMeans(q)'
    BY <1>2, <1>4, <1>5 DEF RegistrationIInv, ResultMeans
  <1>8. ASSUME NEW c \in Callers PROVE CallMeans(c)'
    <2>1. call[c].proc \in Processes \cup {Nobody}
      BY DEF RegistrationIInv, TypeOK, Calls
    <2>2. CallMeans(c)
      BY DEF RegistrationIInv
    <2>3. call[c].proc = p => call[c].step \notin AfterProcess \/ p \in unreaped
      BY <1>1, <2>2, NobodyAssumption DEF CallMeans
    <2> QED BY <1>1, <1>2, <1>4, <1>5, <2>1, <2>2, <2>3, NobodyAssumption
            DEF CallMeans, RegistrationIInv, ProcessMeans
  <1>9. OneFixed'
    <2>1. \A q \in Processes : Fixed(q)' <=> Fixed(q)
      BY <1>2 DEF Fixed, Sure
    <2>2. \A q \in Processes : proc'[q].op = proc[q].op
      BY <1>1
    <2> QED BY <2>1, <2>2 DEF RegistrationIInv, OneFixed
  <1> QED BY <1>3, <1>6, <1>7, <1>8, <1>9 DEF RegistrationIInv

-----------------------------------------------------------------------------
(* The callers. *)

(***************************************************************************)
(* A step of caller c that starts, kills and judges nothing keeps the      *)
(* invariant if what it says of c is true, and if c is not sure of a       *)
(* process after it unless it was before.                                  *)
(***************************************************************************)
LEMMA CallStep ==
    ASSUME RegistrationIInv, NEW c \in Callers,
           UNCHANGED <<repository, proc, result, unreaped>>,
           call' \in [Callers -> Calls], reserved' \subseteq Callers,
           \A d \in Callers \ {c} : call'[d] = call[d],
           CallMeans(c)',
           Sure(c)' => \/ Sure(c) /\ call'[c].proc = call[c].proc
                       \/ \A p, q \in Processes :
                             p = call[c].proc' /\ Fixed(q) /\ proc[p].op = proc[q].op => p = q
    PROVE  RegistrationIInv'
  <1>1. UNCHANGED <<branch, entries, marker, proc, result, unreaped>>
    BY DEF repository
  <1>2. TypeOK'
    BY <1>1 DEF RegistrationIInv, TypeOK
  <1>3. ASSUME NEW p \in Processes PROVE ProcessMeans(p)' /\ ResultMeans(p)'
    BY <1>1 DEF RegistrationIInv, ProcessMeans, ResultMeans, Gone, Listed
  <1>4. ASSUME NEW d \in Callers PROVE CallMeans(d)'
    <2>1. CASE d = c
      BY <2>1
    <2>2. CASE d # c
      BY <1>1, <2>2 DEF RegistrationIInv, CallMeans, Gone, Listed
    <2> QED BY <2>1, <2>2
  <1>5. \A d \in Callers \ {c} : Sure(d)' <=> Sure(d)
    BY DEF Sure
  <1>6. OneFixed'
    <2>1. CASE Sure(c)' => Sure(c) /\ call'[c].proc = call[c].proc
      <3>1. \A p \in Processes : Fixed(p)' => Fixed(p)
        BY <1>1, <1>5, <2>1 DEF Fixed
      <3> QED BY <1>1, <3>1 DEF RegistrationIInv, OneFixed
    <2>2. CASE \A p, q \in Processes :
                  p = call'[c].proc /\ Fixed(q) /\ proc[p].op = proc[q].op => p = q
      <3>1. \A p \in Processes : Fixed(p)' => Fixed(p) \/ p = call'[c].proc
        BY <1>1, <1>5 DEF Fixed
      <3>2. \A p, q \in Processes : Fixed(p) /\ Fixed(q) /\ proc[p].op = proc[q].op => p = q
        BY DEF RegistrationIInv, OneFixed
      <3> QED BY <1>1, <2>2, <3>1, <3>2 DEF OneFixed
    <2> QED BY <2>1, <2>2
  <1> QED BY <1>2, <1>3, <1>4, <1>6 DEF RegistrationIInv

\* A call that ends for whatever reason but a judgement is indeterminate.
LEMMA EndIndeterminate ==
    ASSUME RegistrationIInv, NEW c \in Callers, EndCall(c, "indeterminate")
    PROVE  RegistrationIInv'
  <1>1. UNCHANGED <<branch, entries, marker, proc, unreaped>>
    BY DEF EndCall, repository
  <1>2. call' = [call EXCEPT ![c] = Idle] /\ reserved' = reserved
    BY DEF EndCall
  <1>3. Idle \in Calls
    BY DEF Idle, Calls, Steps, Outputs, Views
  <1>4. result' \in [Processes -> Outcomes \cup {"none"}]
        /\ \A p \in Processes : result'[p] \in {result[p], "indeterminate"}
    BY DEF EndCall, RegistrationIInv, TypeOK, Outcomes
  <1>5. TypeOK'
    BY <1>1, <1>2, <1>3, <1>4 DEF RegistrationIInv, TypeOK
  <1>6. ASSUME NEW p \in Processes PROVE ProcessMeans(p)' /\ ResultMeans(p)'
    BY <1>1, <1>4 DEF RegistrationIInv, ProcessMeans, ResultMeans, Gone, Listed
  <1>7. call'[c] = Idle /\ \A d \in Callers \ {c} : call'[d] = call[d]
    BY <1>2 DEF RegistrationIInv, TypeOK
  <1>8. ASSUME NEW d \in Callers PROVE CallMeans(d)' /\ (Sure(d)' => Sure(d) /\ call'[d] = call[d])
    <2>1. CASE d = c
      BY <1>7, <2>1 DEF CallMeans, Sure, Idle
    <2>2. CASE d # c
      BY <1>1, <1>7, <2>2 DEF RegistrationIInv, CallMeans, Sure, Gone, Listed
    <2> QED BY <2>1, <2>2
  <1>9. OneFixed'
    <2>1. \A p \in Processes : Fixed(p)' => Fixed(p)
      BY <1>4, <1>8 DEF Fixed
    <2> QED BY <1>1, <2>1 DEF RegistrationIInv, OneFixed
  <1> QED BY <1>5, <1>6, <1>8, <1>9 DEF RegistrationIInv

\* What a call that was launched is judged to be is what it is.
LEMMA JudgeInv ==
    ASSUME RegistrationIInv, NEW c \in Callers, Judge(c)
    PROVE  RegistrationIInv'
  <1> DEFINE verdict == Classify(call[c].output, call[c].view)
             p == call[c].proc
  <1>1. call[c].step = "judging" /\ EndCall(c, verdict)
    BY DEF Judge
  <1>2. UNCHANGED <<branch, entries, marker, proc, unreaped>>
    BY <1>1 DEF EndCall, repository
  <1>3. call[c] \in Calls /\ CallMeans(c)
    BY DEF RegistrationIInv, TypeOK
  <1>4. verdict = "created" => Sure(c) /\ p \in Processes /\ proc[p].output = "clean"
    BY <1>1, <1>3 DEF Classify, Sure, CallMeans, Calls, Views, Outputs
  <1>5. verdict = "rejected" => p \in unreaped \cup {Nobody} \/ Gone(p)
    BY <1>1, <1>3 DEF Classify, CallMeans
  <1>6. verdict \in Outcomes
    BY DEF Classify, Outcomes
  <1>7. call' = [call EXCEPT ![c] = Idle] /\ reserved' \in {reserved, reserved \cup {c}}
        /\ result' = [q \in Processes |-> IF q = p THEN verdict ELSE result[q]]
    BY <1>1 DEF EndCall
  <1> HIDE DEF verdict
  <1>8. Idle \in Calls
    BY DEF Idle, Calls, Steps, Outputs, Views
  <1>9. TypeOK'
    BY <1>2, <1>6, <1>7, <1>8 DEF RegistrationIInv, TypeOK
  <1>10. call'[c] = Idle /\ \A d \in Callers \ {c} : call'[d] = call[d]
    BY <1>7 DEF RegistrationIInv, TypeOK
  <1>11. ASSUME NEW d \in Callers PROVE CallMeans(d)' /\ (Sure(d)' => Sure(d) /\ call'[d] = call[d])
    <2>1. CASE d = c
      BY <1>10, <2>1 DEF CallMeans, Sure, Idle
    <2>2. CASE d # c
      BY <1>2, <1>10, <2>2 DEF RegistrationIInv, CallMeans, Sure, Gone, Listed
    <2> QED BY <2>1, <2>2
  <1>12. ASSUME NEW q \in Processes PROVE ProcessMeans(q)' /\ ResultMeans(q)'
    <2>1. ProcessMeans(q)'
      BY <1>2 DEF RegistrationIInv, ProcessMeans
    <2>2. ResultMeans(q)'
      <3>1. CASE q = p
        BY <1>2, <1>4, <1>5, <1>7, <3>1, NobodyAssumption DEF ResultMeans, Gone, Listed
      <3>2. CASE q # p
        BY <1>2, <1>7, <3>2 DEF RegistrationIInv, ResultMeans, Gone, Listed
      <3> QED BY <3>1, <3>2
    <2> QED BY <2>1, <2>2
  <1>13. OneFixed'
    <2>1. \A q \in Processes : Fixed(q)' => Fixed(q)
      BY <1>4, <1>7, <1>11 DEF Fixed
    <2> QED BY <1>2, <2>1 DEF RegistrationIInv, OneFixed
  <1> QED BY <1>9, <1>11, <1>12, <1>13 DEF RegistrationIInv

\* Two processes whose work is there for good are one, if they did the same.
LEMMA BranchIsOnes ==
    ASSUME RegistrationIInv, NEW p \in Processes, NEW q \in Processes,
           Fixed(q), proc[p].op = proc[q].op,
           branch = p \/ Listed = {p}
    PROVE  p = q
  <1>1. proc[q].output = "clean"
    BY DEF RegistrationIInv, Fixed, Sure, ResultMeans, CallMeans
  <1>2. proc[q].stage = "done"
    BY <1>1 DEF RegistrationIInv, ProcessMeans
  <1>3. CASE branch = p
    BY <1>2, <1>3 DEF RegistrationIInv, ProcessMeans
  <1>4. CASE Listed = {p}
    <2>1. p \in entries
      BY <1>4 DEF Listed
    <2>2. proc[q].op = "register"
      BY <2>1 DEF RegistrationIInv, ProcessMeans
    <2>3. q \in Listed
      BY <1>2, <2>2 DEF RegistrationIInv, ProcessMeans, Listed
    <2> QED BY <1>4, <2>3
  <1> QED BY <1>3, <1>4

\* Steps of a caller before there is a process, and its crash.
LEMMA OutsideProcess ==
    ASSUME RegistrationIInv, NEW c \in Callers,
           BeginReserve(c) \/ BeginRegister(c) \/ LaunchFails(c) \/ Crash(c)
    PROVE  RegistrationIInv'
  <1>1. call[c] \in Calls /\ CallMeans(c) /\ call \in [Callers -> Calls] /\ reserved \subseteq Callers
    BY DEF RegistrationIInv, TypeOK
  <1> DEFINE after == call'[c]
  <1>2. /\ UNCHANGED <<repository, proc, result, unreaped>> /\ reserved' \subseteq Callers
        /\ call' = [call EXCEPT ![c] = after]
        /\ after \in Calls /\ after.proc = Nobody /\ after.output = "none"
        /\ after.step \in {"idle", "ready", "looking"}
        /\ after.step = "ready" => after.op # "none" /\ ~after.before
    <2>1. CASE BeginReserve(c)
      BY <1>1, <2>1 DEF BeginReserve, Calls, Idle, Ops, Steps, Outputs, Views
    <2>2. CASE BeginRegister(c)
      BY <1>1, <2>2 DEF BeginRegister, Calls, Idle, Ops, Steps, Outputs, Views
    <2>3. CASE Crash(c)
      BY <1>1, <2>3 DEF Crash, Calls, Idle, Ops, Steps, Outputs, Views
    <2>4. CASE LaunchFails(c)
      <3>1. call' = [call EXCEPT ![c] = [call[c] EXCEPT !.step = "looking"]] /\ reserved' = reserved
            /\ call[c].step = "ready" /\ UNCHANGED <<repository, proc, result, unreaped>>
        BY <2>4 DEF LaunchFails, Goto
      <3>2. after = [call[c] EXCEPT !.step = "looking"]
        BY <1>1, <3>1
      <3>3. call[c].proc = Nobody /\ call[c].output = "none"
        BY <1>1, <3>1 DEF CallMeans, AfterProcess
      <3> QED BY <1>1, <3>1, <3>2, <3>3 DEF Calls, Steps
    <2> QED BY <2>1, <2>2, <2>3, <2>4
  <1>3. CallMeans(c)'
    BY <1>2 DEF CallMeans
  <1>4. ~Sure(c)'
    BY <1>2 DEF Sure
  <1>5. call' \in [Callers -> Calls] /\ \A d \in Callers \ {c} : call'[d] = call[d]
    BY <1>1, <1>2
  <1> QED BY <1>2, <1>3, <1>4, <1>5, CallStep

\* A caller starts a process that was never used.
LEMMA LaunchInv ==
    ASSUME RegistrationIInv, NEW c \in Callers, NEW p \in Processes, Launch(c, p)
    PROVE  RegistrationIInv'
  <1>1. call[c] \in Calls /\ CallMeans(c) /\ call \in [Callers -> Calls] /\ proc \in [Processes -> Procs]
    BY DEF RegistrationIInv, TypeOK
  <1> DEFINE started == [Unused EXCEPT !.life = "running", !.op = call[c].op]
  <1>2. /\ call[c].step = "ready" /\ proc[p] = Unused
        /\ proc' = [proc EXCEPT ![p] = started]
        /\ call' = [call EXCEPT ![c] = [call[c] EXCEPT !.step = "waiting", !.proc = p]]
        /\ UNCHANGED <<branch, entries, marker, reserved, result, unreaped>>
    BY <1>1 DEF Launch, repository
  <1>3. started \in Procs /\ started.stage = "start" /\ started.output = "none"
        /\ started.life = "running" /\ started.op = call[c].op
    BY <1>1 DEF Unused, Procs, Lives, Stages, Outputs, Calls
  <1> HIDE DEF started
  <1>4. proc' \in [Processes -> Procs] /\ proc'[p] = started
        /\ \A q \in Processes \ {p} : proc'[q] = proc[q]
    BY <1>1, <1>2, <1>3
  <1>5. /\ call' \in [Callers -> Calls] /\ \A d \in Callers \ {c} : call'[d] = call[d]
        /\ call'[c] = [call[c] EXCEPT !.step = "waiting", !.proc = p]
    <2>1. [call[c] EXCEPT !.step = "waiting", !.proc = p] \in Calls
      BY <1>1 DEF Calls, Steps
    <2> QED BY <1>1, <1>2, <2>1
  <1>6. /\ call'[c].step = "waiting" /\ call'[c].proc = p /\ call'[c].output = "none"
        /\ call'[c].op = call[c].op /\ call[c].op # "none" /\ ~call'[c].before
    BY <1>1, <1>2, <1>5 DEF Calls, CallMeans, AfterProcess
  <1>7. TypeOK'
    BY <1>2, <1>4, <1>5 DEF RegistrationIInv, TypeOK
  <1>8. /\ \A d \in Callers \ {c} : call[d].proc # p
        /\ result[p] \notin {"created", "rejected"} \/ p \in unreaped
        /\ branch # p /\ p \notin entries /\ p \notin unreaped
    <2>1. /\ proc[p].life = "unused" /\ proc[p].op = "none"
          /\ proc[p].output = "none" /\ ProcessMeans(p) /\ ResultMeans(p)
      BY <1>2 DEF RegistrationIInv, Unused
    <2>2. \A d \in Callers \ {c} : call[d].proc # p
      BY <2>1, NobodyAssumption DEF RegistrationIInv, CallMeans
    <2> QED BY <2>1, <2>2 DEF ProcessMeans, ResultMeans, Gone
  <1>9. ASSUME NEW q \in Processes, Gone(q) PROVE Gone(q)'
    BY <1>2, <1>4, <1>9 DEF Gone, Listed, Unused
  <1>10. ASSUME NEW q \in Processes PROVE ProcessMeans(q)' /\ ResultMeans(q)'
    <2>1. CASE q = p
      BY <1>2, <1>3, <1>4, <1>6, <1>8, <2>1 DEF ProcessMeans, ResultMeans
    <2>2. CASE q # p
      BY <1>2, <1>4, <1>9, <2>2 DEF RegistrationIInv, ProcessMeans, ResultMeans
    <2> QED BY <2>1, <2>2
  <1>11. ASSUME NEW d \in Callers PROVE CallMeans(d)'
    <2>1. CASE d = c
      <3>1. /\ proc'[p].op = call'[d].op /\ proc'[p].life = "running"
            /\ call'[d].step = "waiting" /\ call'[d].proc = p /\ call'[d].output = "none"
            /\ call'[d].op # "none" /\ ~call'[d].before
        BY <1>3, <1>4, <1>6, <2>1
      <3> QED BY <3>1, NobodyAssumption DEF CallMeans, AfterProcess
    <2>2. CASE d # c
      <3>1. call[d].proc \in Processes \cup {Nobody} /\ CallMeans(d)
        BY DEF RegistrationIInv, TypeOK, Calls
      <3>2. CASE call[d].proc = Nobody
        BY <1>2, <1>5, <2>2, <3>1, <3>2 DEF CallMeans
      <3>3. CASE call[d].proc \in Processes
        <4>1. proc'[call[d].proc] = proc[call[d].proc] /\ call'[d] = call[d]
          BY <1>4, <1>5, <1>8, <2>2, <3>3
        <4>2. Gone(call[d].proc) => Gone(call[d].proc)'
          <5>1. branch' = branch /\ entries' = entries
            BY <1>2
          <5> QED BY <4>1, <5>1 DEF Gone, Listed
        <4>3. unreaped' = unreaped
          BY <1>2
        <4> QED BY <3>1, <3>3, <4>1, <4>2, <4>3 DEF CallMeans
      <3> QED BY <3>1, <3>2, <3>3
    <2> QED BY <2>1, <2>2
  <1>12. OneFixed'
    <2>1. \A d \in Callers : Sure(d)' => Sure(d) /\ call'[d] = call[d]
      BY <1>5, <1>6 DEF Sure
    <2>2. \A q \in Processes : Fixed(q)' => Fixed(q) /\ q # p
      BY <1>2, <1>8, <2>1 DEF Fixed, Sure, RegistrationIInv, CallMeans
    <2> QED BY <1>2, <1>4, <2>2 DEF RegistrationIInv, OneFixed
  <1> QED BY <1>7, <1>10, <1>11, <1>12 DEF RegistrationIInv

\* The process has ended: its caller looks what it left.
LEMMA ProcessEndsInv ==
    ASSUME RegistrationIInv, NEW c \in Callers, ProcessEnds(c)
    PROVE  RegistrationIInv'
  <1> DEFINE p == call[c].proc
  <1>1. call[c] \in Calls /\ CallMeans(c) /\ call \in [Callers -> Calls]
        /\ proc \in [Processes -> Procs] /\ reserved \subseteq Callers
    BY DEF RegistrationIInv, TypeOK
  <1>2. /\ call[c].step = "waiting" /\ proc[p].life = "dead"
        /\ call' = [call EXCEPT ![c] = [call[c] EXCEPT !.step = "looking", !.output = proc[p].output]]
        /\ UNCHANGED <<repository, proc, reserved, result, unreaped>>
    BY <1>1 DEF ProcessEnds
  <1>3. p \in Processes /\ proc[p].op = call[c].op /\ call[c].op # "none" /\ ~call[c].before
    BY <1>1, <1>2 DEF CallMeans, Calls
  <1>4. [call[c] EXCEPT !.step = "looking", !.output = proc[p].output] \in Calls
    BY <1>1, <1>3 DEF Calls, Procs, Steps
  <1>5. /\ call' \in [Callers -> Calls] /\ \A d \in Callers \ {c} : call'[d] = call[d]
        /\ call'[c] = [call[c] EXCEPT !.step = "looking", !.output = proc[p].output]
    BY <1>1, <1>2, <1>4
  <1>6. /\ call'[c].step = "looking" /\ call'[c].proc = p /\ call'[c].output = proc[p].output
        /\ call'[c].op = call[c].op /\ ~call'[c].before
    BY <1>1, <1>3, <1>5 DEF Calls
  <1>7. CallMeans(c)'
    BY <1>2, <1>3, <1>6, NobodyAssumption DEF CallMeans, AfterProcess
  <1>8. ~Sure(c)'
    BY <1>6 DEF Sure
  <1> QED BY <1>1, <1>2, <1>5, <1>7, <1>8, CallStep

\* A limit or a stream fails: the process is killed, and perhaps not reaped.
LEMMA RunnerFailsInv ==
    ASSUME RegistrationIInv, NEW c \in Callers, RunnerFails(c)
    PROVE  RegistrationIInv'
  <1> DEFINE p == call[c].proc
  <1>1. call[c] \in Calls /\ CallMeans(c) /\ call \in [Callers -> Calls]
        /\ proc \in [Processes -> Procs] /\ unreaped \subseteq Processes
    BY DEF RegistrationIInv, TypeOK
  <1>2. /\ call[c].step = "waiting"
        /\ call' = [call EXCEPT ![c] = [call[c] EXCEPT !.step = "looking"]]
        /\ UNCHANGED <<branch, entries, marker, reserved, result>>
    BY <1>1 DEF RunnerFails, Goto, repository
  <1>3. p \in Processes /\ proc[p].op = call[c].op /\ call[c].op # "none" /\ ~call[c].before
        /\ call[c].output = "none" /\ proc[p].life # "unused"
    BY <1>1, <1>2 DEF CallMeans, Calls, AfterProcess
  <1>4. PICK life \in {"dead", "killed"} :
           /\ proc' = [proc EXCEPT ![p] = [proc[p] EXCEPT !.life = life]]
           /\ life = "dead" => unreaped' = unreaped
           /\ life = "killed" => proc[p].life = "running" /\ unreaped' = unreaped \cup {p}
    BY <1>1, <1>3 DEF RunnerFails
  <1> DEFINE after == [proc[p] EXCEPT !.life = life]
  <1>5. after \in Procs /\ after.op = proc[p].op /\ after.stage = proc[p].stage
        /\ after.output = proc[p].output /\ after.life = life
    BY <1>1, <1>3 DEF Procs, Lives
  <1>6. proc' = [proc EXCEPT ![p] = after]
    BY <1>4
  <1> HIDE DEF after
  <1>7. proc' \in [Processes -> Procs] /\ proc'[p] = after
        /\ \A q \in Processes \ {p} : proc'[q] = proc[q]
    BY <1>1, <1>3, <1>5, <1>6
  <1>8. unreaped \subseteq unreaped' /\ unreaped' \subseteq unreaped \cup {p}
        /\ (p \in unreaped' => life = "killed" \/ p \in unreaped)
        /\ (life = "killed" => p \in unreaped')
    BY <1>4
  <1>9. /\ call' \in [Callers -> Calls] /\ \A d \in Callers \ {c} : call'[d] = call[d]
        /\ call'[c] = [call[c] EXCEPT !.step = "looking"]
    <2>1. [call[c] EXCEPT !.step = "looking"] \in Calls
      BY <1>1 DEF Calls, Steps
    <2> QED BY <1>1, <1>2, <2>1
  <1>10. /\ call'[c].step = "looking" /\ call'[c].proc = p /\ call'[c].output = "none"
         /\ call'[c].op = call[c].op /\ ~call'[c].before
    BY <1>1, <1>3, <1>9 DEF Calls
  <1>11. TypeOK'
    BY <1>1, <1>2, <1>3, <1>7, <1>8, <1>9 DEF RegistrationIInv, TypeOK
  <1>12. \A q \in Processes :
            /\ proc'[q].op = proc[q].op /\ proc'[q].stage = proc[q].stage
            /\ proc'[q].output = proc[q].output
            /\ proc[q].life # "unused" => proc'[q].life # "unused"
            /\ proc[q].life = "dead" => proc'[q].life = "dead"
    BY <1>4, <1>5, <1>7
  <1>13. ASSUME NEW q \in Processes, Gone(q) PROVE Gone(q)'
    <2>0. /\ entries' = entries /\ branch' = branch /\ proc'[q].stage = proc[q].stage
          /\ proc[q].life = "dead" => proc'[q].life = "dead"
      BY <1>2, <1>12
    <2>1. q \in Listed' => q \in Listed
      BY <2>0 DEF Listed
    <2>2. proc'[q].life = "dead" /\ branch' # q /\ q \notin Listed'
      BY <1>2, <1>12, <1>13, <2>1 DEF Gone
    <2> QED BY <2>2 DEF Gone
  <1>14. ASSUME NEW q \in Processes PROVE ProcessMeans(q)' /\ ResultMeans(q)'
    <2>0. ResultMeans(q) /\ ProcessMeans(q)
      BY DEF RegistrationIInv
    <2>1. ResultMeans(q)'
      BY <1>2, <1>8, <1>12, <1>13, <2>0 DEF ResultMeans
    <2>2. CASE q = p
      <3>1. proc[p].output # "none" => life = "dead"
        BY <1>4, <2>0, <2>2 DEF ProcessMeans
      <3>2. /\ proc'[p].op = proc[p].op /\ proc'[p].stage = proc[p].stage
            /\ proc'[p].output = proc[p].output /\ proc'[p].life = life
        BY <1>5, <1>7
      <3>3. life = "killed" => proc[p].life = "running"
        BY <1>4
      <3> QED BY <1>2, <1>8, <2>0, <2>1, <2>2, <3>1, <3>2, <3>3 DEF ProcessMeans
    <2>3. CASE q # p
      BY <1>2, <1>7, <1>8, <2>0, <2>1, <2>3 DEF ProcessMeans
    <2> QED BY <2>2, <2>3
  <1>15. ASSUME NEW d \in Callers PROVE CallMeans(d)'
    <2>1. CASE d = c
      <3>1. p \in unreaped' \/ proc'[p].life = "dead"
        BY <1>4, <1>5, <1>7, <1>8
      <3>2. proc'[p].op = call'[c].op /\ proc'[p].life # "unused" /\ call'[c].op # "none"
        BY <1>3, <1>10, <1>12
      <3> QED BY <1>10, <2>1, <3>1, <3>2 DEF CallMeans, AfterProcess
    <2>2. CASE d # c
      <3>1. call[d].proc \in Processes \cup {Nobody} /\ CallMeans(d) /\ call'[d] = call[d]
        BY <1>9, <2>2 DEF RegistrationIInv, TypeOK, Calls
      <3>2. CASE call[d].proc = Nobody
        BY <3>1, <3>2 DEF CallMeans
      <3>3. CASE call[d].proc \in Processes
        <4>1. Gone(call[d].proc) => Gone(call[d].proc)'
          BY <1>2, <1>12, <3>1, <3>3 DEF Gone, Listed
        <4> QED BY <1>8, <1>12, <3>1, <3>3, <4>1 DEF CallMeans
      <3> QED BY <3>1, <3>2, <3>3
    <2> QED BY <2>1, <2>2
  <1>16. OneFixed'
    <2>1. ASSUME NEW d \in Callers, Sure(d)' PROVE Sure(d) /\ call'[d] = call[d]
      <3>1. d # c
        BY <1>10, <2>1 DEF Sure
      <3>2. call'[d] = call[d]
        BY <1>9, <3>1
      <3> QED BY <2>1, <3>2 DEF Sure
    <2>2. \A q \in Processes : Fixed(q)' => Fixed(q)
      BY <1>2, <2>1 DEF Fixed
    <2> QED BY <1>12, <2>2 DEF RegistrationIInv, OneFixed
  <1> QED BY <1>11, <1>14, <1>15, <1>16 DEF RegistrationIInv

-----------------------------------------------------------------------------
(* What the caller sees. *)

\* An observation is recorded, answers the question before registration, or
\* ends the call.
LEMMA ObservedInv ==
    ASSUME RegistrationIInv, NEW c \in Callers, NEW view \in Views,
           call[c].step \in {"looking", "listing", "head"}, call[c].op # "none",
           view = "absent" /\ call[c].proc \notin unreaped \cup {Nobody} => Gone(call[c].proc),
           view = "exact" /\ call[c].output = "clean" =>
               \/ Sure(c)
               \/ \A p, q \in Processes :
                     p = call[c].proc /\ Fixed(q) /\ proc[p].op = proc[q].op => p = q,
           Observed(c, view)
    PROVE  RegistrationIInv'
  <1>1. call[c] \in Calls /\ CallMeans(c) /\ call \in [Callers -> Calls] /\ reserved \subseteq Callers
    BY DEF RegistrationIInv, TypeOK
  <1>2. CASE ~call[c].before
    <2>1. /\ call' = [call EXCEPT ![c] = [call[c] EXCEPT !.step = "judging", !.view = view]]
          /\ UNCHANGED <<repository, proc, reserved, result, unreaped>>
      BY <1>1, <1>2 DEF Observed
    <2>2. [call[c] EXCEPT !.step = "judging", !.view = view] \in Calls
      BY <1>1 DEF Calls, Steps
    <2>3. /\ call' \in [Callers -> Calls] /\ \A d \in Callers \ {c} : call'[d] = call[d]
          /\ call'[c] = [call[c] EXCEPT !.step = "judging", !.view = view]
      BY <1>1, <2>1, <2>2
    <2>4. /\ call'[c].step = "judging" /\ call'[c].proc = call[c].proc /\ call'[c].view = view
          /\ call'[c].output = call[c].output /\ call'[c].op = call[c].op
          /\ call'[c].before = call[c].before
      BY <1>1, <2>3 DEF Calls
    <2>5. CallMeans(c)'
      BY <1>1, <1>2, <2>1, <2>4 DEF CallMeans, AfterProcess, Gone, Listed, repository
    <2>6. Sure(c)' => \/ Sure(c) /\ call'[c].proc = call[c].proc
                      \/ \A p, q \in Processes :
                            p = call'[c].proc /\ Fixed(q) /\ proc[p].op = proc[q].op => p = q
      BY <2>4 DEF Sure
    <2> QED BY <1>1, <2>1, <2>3, <2>5, <2>6, CallStep
  <1>3. CASE call[c].before /\ view = "absent"
    <2>1. /\ call' = [call EXCEPT ![c] = [call[c] EXCEPT !.step = "ready", !.before = FALSE]]
          /\ UNCHANGED <<repository, proc, reserved, result, unreaped>>
      BY <1>1, <1>3 DEF Observed
    <2>2. [call[c] EXCEPT !.step = "ready", !.before = FALSE] \in Calls
      BY <1>1 DEF Calls, Steps
    <2>3. /\ call' \in [Callers -> Calls] /\ \A d \in Callers \ {c} : call'[d] = call[d]
          /\ call'[c] = [call[c] EXCEPT !.step = "ready", !.before = FALSE]
      BY <1>1, <2>1, <2>2
    <2>4. /\ call'[c].step = "ready" /\ call'[c].proc = Nobody
          /\ call'[c].output = "none" /\ call'[c].op = call[c].op /\ ~call'[c].before
      BY <1>1, <1>3, <2>3 DEF Calls, CallMeans
    <2>5. CallMeans(c)'
      BY <2>4 DEF CallMeans
    <2>6. ~Sure(c)'
      BY <2>4 DEF Sure
    <2> QED BY <1>1, <2>1, <2>3, <2>5, <2>6, CallStep
  <1>4. CASE call[c].before /\ view # "absent"
    BY <1>4, EndIndeterminate DEF Observed
  <1> QED BY <1>2, <1>3, <1>4

LEMMA LookAtBranchInv ==
    ASSUME RegistrationIInv, NEW c \in Callers, LookAtBranch(c)
    PROVE  RegistrationIInv'
  <1> DEFINE p == call[c].proc
  <1>1. /\ call[c].step = "looking" /\ call[c].op = "reserve"
        /\ Observed(c, "unsafe") \/ Observed(c, IF branch \in Processes THEN "exact" ELSE branch)
    BY DEF LookAtBranch
  <1>2. call[c] \in Calls /\ CallMeans(c) /\ branch \in Processes \cup {"absent", "other"}
        /\ p \in Processes \cup {Nobody} /\ entries \subseteq Processes
    BY DEF RegistrationIInv, TypeOK, Calls
  <1>3. CASE Observed(c, "unsafe")
    BY <1>1, <1>3, ObservedInv DEF Views
  <1>4. CASE branch \in Processes /\ Observed(c, "exact")
    <2>1. call[c].output = "clean" => p \in Processes /\ branch = p
      BY <1>1, <1>2 DEF CallMeans, RegistrationIInv, ProcessMeans
    <2>2. call[c].output = "clean" =>
             \A o, q \in Processes : o = p /\ Fixed(q) /\ proc[o].op = proc[q].op => o = q
      BY <2>1, BranchIsOnes
    <2> QED BY <1>1, <1>4, <2>2, ObservedInv DEF Views
  <1>5. CASE branch \in {"absent", "other"} /\ Observed(c, branch)
    <2>1. p \in Processes => branch # p /\ p \notin Listed
      BY <1>1, <1>2, <1>5, ProcessAssumption, NobodyAssumption
         DEF CallMeans, RegistrationIInv, ProcessMeans, Listed
    <2>2. p \notin unreaped \cup {Nobody} => Gone(p)
      BY <1>1, <1>2, <2>1 DEF CallMeans, AfterProcess, Gone
    <2> QED BY <1>1, <1>5, <2>2, ObservedInv DEF Views
  <1> QED BY <1>1, <1>2, <1>3, <1>4, <1>5, ProcessAssumption

\* A caller goes from one look to the next.
LEMMA GotoInv ==
    ASSUME RegistrationIInv, NEW c \in Callers, NEW step \in {"listing", "head"},
           NEW bound \in Processes \cup {Nobody},
           call[c].step \in {"looking", "listing"}, call[c].op = "register",
           call' = [call EXCEPT ![c] = [call[c] EXCEPT !.step = step, !.bound = bound]],
           step = "head" /\ call[c].output = "clean" =>
               \A p, q \in Processes :
                  p = call[c].proc /\ Fixed(q) /\ proc[p].op = proc[q].op => p = q,
           UNCHANGED <<repository, proc, reserved, result, unreaped>>
    PROVE  RegistrationIInv'
  <1>1. call[c] \in Calls /\ CallMeans(c) /\ call \in [Callers -> Calls] /\ reserved \subseteq Callers
    BY DEF RegistrationIInv, TypeOK
  <1>2. [call[c] EXCEPT !.step = step, !.bound = bound] \in Calls
    BY <1>1 DEF Calls, Steps
  <1>3. /\ call' \in [Callers -> Calls] /\ \A d \in Callers \ {c} : call'[d] = call[d]
        /\ call'[c] = [call[c] EXCEPT !.step = step, !.bound = bound]
    BY <1>1, <1>2
  <1>4. /\ call'[c].step = step /\ call'[c].proc = call[c].proc
        /\ call'[c].output = call[c].output /\ call'[c].op = call[c].op
        /\ call'[c].before = call[c].before
    BY <1>1, <1>3 DEF Calls
  <1>5. CallMeans(c)'
    BY <1>1, <1>4 DEF CallMeans, AfterProcess
  <1>6. Sure(c)' => \A p, q \in Processes :
                       p = call'[c].proc /\ Fixed(q) /\ proc[p].op = proc[q].op => p = q
    BY <1>4 DEF Sure
  <1> QED BY <1>1, <1>3, <1>5, <1>6, CallStep

LEMMA LookAtMarkerInv ==
    ASSUME RegistrationIInv, NEW c \in Callers, LookAtMarker(c)
    PROVE  RegistrationIInv'
  <1>1. call[c].step = "looking" /\ call[c].op = "register"
    BY DEF LookAtMarker
  <1>2. CASE Observed(c, "unsafe") \/ Observed(c, "other")
    BY <1>1, <1>2, ObservedInv DEF Views
  <1>3. CASE /\ call' = [call EXCEPT ![c].step = "listing", ![c].bound = marker]
             /\ UNCHANGED <<repository, proc, reserved, result, unreaped>>
    <2>1. call' = [call EXCEPT ![c] = [call[c] EXCEPT !.step = "listing", !.bound = marker]]
      BY <1>3 DEF RegistrationIInv, TypeOK
    <2>2. marker \in Processes \cup {Nobody}
      BY DEF RegistrationIInv, TypeOK
    <2> QED BY <1>1, <1>3, <2>1, <2>2, GotoInv
  <1> QED BY <1>2, <1>3 DEF LookAtMarker

LEMMA LookAtListInv ==
    ASSUME RegistrationIInv, NEW c \in Callers, LookAtList(c)
    PROVE  RegistrationIInv'
  <1> DEFINE p == call[c].proc
  <1>1. call[c] \in Calls /\ CallMeans(c) /\ call \in [Callers -> Calls]
        /\ p \in Processes \cup {Nobody}
    BY DEF RegistrationIInv, TypeOK, Calls
  <1>2. call[c].step = "listing" /\ call[c].op = "register"
    BY <1>1 DEF LookAtList, CallMeans
  <1>3. CASE Observed(c, "unsafe") \/ Observed(c, "other")
    BY <1>2, <1>3, ObservedInv DEF Views
  <1>4. CASE Listed = {} /\ Observed(c, "absent")
    <2>1. p \in Processes => branch # p
      BY <1>1, <1>2, NobodyAssumption DEF CallMeans, RegistrationIInv, ProcessMeans
    <2>2. p \notin unreaped \cup {Nobody} => Gone(p)
      BY <1>1, <1>2, <1>4, <2>1 DEF CallMeans, AfterProcess, Gone
    <2> QED BY <1>2, <1>4, <2>2, ObservedInv DEF Views
  <1>5. CASE /\ \E o \in Processes : Listed = {o}
             /\ Goto(c, "head")
             /\ UNCHANGED <<repository, proc, reserved, result, unreaped>>
    <2>1. call' = [call EXCEPT ![c] = [call[c] EXCEPT !.step = "head", !.bound = call[c].bound]]
      <3>1. [call[c] EXCEPT !.step = "head"] =
               [call[c] EXCEPT !.step = "head", !.bound = call[c].bound]
        BY <1>1 DEF Calls
      <3> QED BY <1>1, <1>5, <3>1 DEF Goto
    <2>2. ASSUME call[c].output = "clean", NEW o \in Processes, NEW q \in Processes,
                 o = p, Fixed(q), proc[o].op = proc[q].op
          PROVE  o = q
      <3>1. proc[o].output = "clean" /\ proc[o].op = "register"
        BY <1>1, <1>2, <2>2, NobodyAssumption DEF CallMeans
      <3>2. o \in Listed
        BY <3>1 DEF RegistrationIInv, ProcessMeans, Listed
      <3>3. Listed = {o}
        BY <1>5, <3>2
      <3> QED BY <2>2, <3>3, BranchIsOnes
    <2>3. call[c].bound \in Processes \cup {Nobody}
      BY <1>1 DEF Calls
    <2> QED BY <1>2, <1>5, <2>1, <2>2, <2>3, GotoInv
  <1> QED BY <1>3, <1>4, <1>5 DEF LookAtList

LEMMA LookAtHeadInv ==
    ASSUME RegistrationIInv, NEW c \in Callers, LookAtHead(c)
    PROVE  RegistrationIInv'
  <1>1. call[c].step = "head" /\ call[c].op = "register"
    BY DEF LookAtHead, RegistrationIInv, CallMeans
  <1>2. CASE Observed(c, "unsafe") \/ Observed(c, "other")
    BY <1>1, <1>2, ObservedInv DEF Views
  <1>3. CASE Observed(c, "exact")
    <2>1. call[c].output = "clean" => Sure(c)
      BY <1>1 DEF Sure
    <2> QED BY <1>1, <1>3, <2>1, ObservedInv DEF Views
  <1> QED BY <1>2, <1>3 DEF LookAtHead

LEMMA RegistrationStep == RegistrationIInv /\ [Next]_vars => RegistrationIInv'
  <1> SUFFICES ASSUME RegistrationIInv, [Next]_vars PROVE RegistrationIInv'
    OBVIOUS
  <1>1. ASSUME NEW c \in Callers, Caller(c) PROVE RegistrationIInv'
    <2>1. CASE BeginReserve(c) \/ BeginRegister(c) \/ LaunchFails(c) \/ Crash(c)
      BY <2>1, OutsideProcess
    <2>2. CASE \E p \in Processes : Launch(c, p)
      BY <2>2, LaunchInv
    <2>3. CASE ProcessEnds(c)
      BY <2>3, ProcessEndsInv
    <2>4. CASE RunnerFails(c)
      BY <2>4, RunnerFailsInv
    <2>5. CASE LookAtBranch(c)
      BY <2>5, LookAtBranchInv
    <2>6. CASE LookAtMarker(c)
      BY <2>6, LookAtMarkerInv
    <2>7. CASE LookAtList(c)
      BY <2>7, LookAtListInv
    <2>8. CASE LookAtHead(c)
      BY <2>8, LookAtHeadInv
    <2>9. CASE Judge(c)
      BY <2>9, JudgeInv
    <2>10. CASE CapabilityFails(c)
      BY <2>10, EndIndeterminate DEF CapabilityFails
    <2> QED BY <1>1, <2>1, <2>2, <2>3, <2>4, <2>5, <2>6, <2>7, <2>8, <2>9, <2>10 DEF Caller
  <1>2. CASE \E p \in Processes : Git(p)
    BY <1>2, GitKeepsInv
  <1>3. CASE UNCHANGED vars
    <2>1. UNCHANGED <<branch, entries, marker, proc, call, reserved, result, unreaped>>
      BY <1>3 DEF vars, repository, callers
    <2>2. TypeOK' /\ OneFixed'
      BY <2>1 DEF RegistrationIInv, TypeOK, OneFixed, Fixed, Sure
    <2>3. \A p \in Processes : ProcessMeans(p)' /\ ResultMeans(p)'
      BY <2>1 DEF RegistrationIInv, ProcessMeans, ResultMeans, Gone, Listed
    <2>4. \A c \in Callers : CallMeans(c)'
      BY <2>1 DEF RegistrationIInv, CallMeans, Gone, Listed
    <2> QED BY <2>2, <2>3, <2>4 DEF RegistrationIInv
  <1> QED BY <1>1, <1>2, <1>3 DEF Next

\* The invariant: what processes, calls and outcomes mean, and one fixed work.
THEOREM RegistrationInvariant == Spec => []RegistrationIInv
  <1> QED BY RegistrationInit, RegistrationStep, PTL DEF Spec

-----------------------------------------------------------------------------
(* The theorems. *)

\* The repository, the processes and the calls keep their types.
THEOREM RegistrationTypeCorrect == Spec => []TypeOK
  <1>1. RegistrationIInv => TypeOK
    BY DEF RegistrationIInv
  <1> QED BY <1>1, RegistrationInvariant, PTL

(***************************************************************************)
(* What is created was made by the caller's own process and is nobody      *)
(* else's, however many controllers die and come back in between.          *)
(***************************************************************************)
THEOREM CreatedByOne == Spec => []CreatedOnce
  <1>1. RegistrationIInv => CreatedOnce
    <2> SUFFICES ASSUME RegistrationIInv, NEW p \in Processes, result[p] = "created"
                 PROVE  /\ proc[p].stage = "done" /\ proc[p].output = "clean"
                        /\ proc[p].op = "reserve" => LeftBranch(p)
                        /\ \A q \in Processes \ {p} :
                              result[q] = "created" => proc[q].op # proc[p].op
      BY DEF CreatedOnce
    <2>1. proc[p].output = "clean" /\ proc[p].stage = "done"
      BY DEF RegistrationIInv, ResultMeans, ProcessMeans
    <2>2. proc[p].op = "reserve" => LeftBranch(p)
      BY <2>1 DEF RegistrationIInv, ProcessMeans, LeftBranch
    <2>3. ASSUME NEW q \in Processes \ {p}, result[q] = "created"
          PROVE  proc[q].op # proc[p].op
      BY <2>3 DEF RegistrationIInv, OneFixed, Fixed
    <2> QED BY <2>1, <2>2, <2>3
  <1> QED BY <1>1, RegistrationInvariant, PTL

(***************************************************************************)
(* What is rejected left nothing that is listed, unless the process could  *)
(* not be reaped.                                                          *)
(***************************************************************************)
THEOREM RejectedLeftNothing == Spec => []RejectedMadeNothing
  <1>1. RegistrationIInv => RejectedMadeNothing
    BY DEF RegistrationIInv, ResultMeans, Gone, RejectedMadeNothing, LeftBranch
  <1> QED BY <1>1, RegistrationInvariant, PTL
=============================================================================
