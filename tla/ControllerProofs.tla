--------------------------- MODULE ControllerProofs ---------------------------
(***************************************************************************)
(* Theorems about RunLedger, Controller and ReviewCoordinator, each of     *)
(* which extends the one before it, for any finite set of run ids, any     *)
(* limits, days and sessions and any number of processes.                  *)
(***************************************************************************)
EXTENDS ReviewCoordinator, FiniteSetTheorems, TLAPS

LedgerIInv == RunsTypeOK /\ WithinLimits

-----------------------------------------------------------------------------
(* Counting rows. *)

LEMMA RowSetsFinite ==
  ASSUME NEW day
  PROVE  /\ IsFiniteSet(Running) /\ Cardinality(Running) \in Nat
         /\ IsFiniteSet(StartedOn(day)) /\ Cardinality(StartedOn(day)) \in Nat
         /\ IsFiniteSet(NonReviewOn(day)) /\ Cardinality(NonReviewOn(day)) \in Nat
<1>1. Running \subseteq RunIds /\ StartedOn(day) \subseteq RunIds /\ NonReviewOn(day) \subseteq RunIds
  BY DEF Running, StartedOn, NonReviewOn
<1> QED BY <1>1, RunIdAssumption, FS_Subset, FS_CardinalityType

\* The reserve is a part of the daily budget.
LEMMA NonReviewLimitType == NonReviewLimit \in Nat
<1>1. MaxPerDay * ReservePercent \in Nat /\ MaxPerDay * ReservePercent <= MaxPerDay * 100
  BY LimitAssumption, SMT
<1> DEFINE product == MaxPerDay * ReservePercent
<1>2. (product + 99) \div 100 \in Nat /\ (product + 99) \div 100 <= MaxPerDay
  <2>1. product \in Nat /\ product <= MaxPerDay * 100 /\ MaxPerDay \in Nat
    BY <1>1, LimitAssumption
  <2> HIDE DEF product
  <2> QED BY <2>1
<1> QED BY <1>2, LimitAssumption DEF NonReviewLimit, Reserved

(***************************************************************************)
(* The reserve is the least whole number of runs that is not below its     *)
(* percentage of the daily budget.                                         *)
(***************************************************************************)
LEMMA ReserveIsCeiling ==
  /\ Reserved \in 0 .. MaxPerDay
  /\ Reserved * 100 >= MaxPerDay * ReservePercent
  /\ \A n \in Nat : n * 100 >= MaxPerDay * ReservePercent => n >= Reserved
<1>1. MaxPerDay * ReservePercent \in Nat /\ MaxPerDay * ReservePercent <= MaxPerDay * 100
  BY LimitAssumption, SMT
<1> DEFINE product == MaxPerDay * ReservePercent
<1>2. product \in Nat /\ product <= MaxPerDay * 100 /\ MaxPerDay \in Nat
  BY <1>1, LimitAssumption
<1>3. Reserved = (product + 99) \div 100
  BY DEF Reserved
<1> HIDE DEF product
<1>4. /\ Reserved \in 0 .. MaxPerDay /\ Reserved * 100 >= product
      /\ \A n \in Nat : n * 100 >= product => n >= Reserved
  BY <1>2, <1>3
<1> QED BY <1>4 DEF product

LEMMA LedgerInitInv == LedgerInit => LedgerIInv
<1> SUFFICES ASSUME LedgerInit PROVE LedgerIInv
  OBVIOUS
<1>1. /\ Running = {}
      /\ \A day \in Days : StartedOn(day) = {} /\ NonReviewOn(day) = {}
  BY DEF LedgerInit, Running, StartedOn, NonReviewOn, NoRun
<1>2. WithinLimits
  BY <1>1, FS_EmptySet, LimitAssumption, NonReviewLimitType
  DEF WithinLimits, ConcurrencyLimit, DailyBudget, ReviewReserve
<1>3. RunsTypeOK
  BY DEF LedgerInit, RunsTypeOK
<1> QED BY <1>2, <1>3 DEF LedgerIInv

LEMMA ReserveInv ==
  ASSUME LedgerIInv, NEW r \in RunIds, NEW role \in RunRoles, NEW day \in Days,
         Reserve(r, role, day)
  PROVE  LedgerIInv'
<1> DEFINE row == [role |-> role, status |-> "RUNNING", day |-> day]
<1>1. row \in RunRows /\ row # NoRun
  BY DEF RunRows, NoRun
<1>2. runs[r] = NoRun /\ runs' = [runs EXCEPT ![r] = row] /\ runs'[r] = row
  BY DEF Reserve, LedgerIInv, RunsTypeOK
<1>3. RunsTypeOK'
  BY <1>1, <1>2 DEF LedgerIInv, RunsTypeOK
<1>4. ConcurrencyLimit'
  <2>1. Running' = Running \cup {r} /\ r \notin Running
    BY <1>2 DEF Running, NoRun
  <2>2. Cardinality(Running') = Cardinality(Running) + 1
    BY <2>1, RowSetsFinite, FS_AddElement
  <2> QED BY <2>2, RowSetsFinite, LimitAssumption DEF Reserve, Admissible, ConcurrencyLimit
<1>5. ASSUME NEW d \in Days
      PROVE  /\ Cardinality(StartedOn(d)') <= MaxPerDay
             /\ Cardinality(NonReviewOn(d)') <= NonReviewLimit
  <2>1. r \notin StartedOn(d) /\ r \notin NonReviewOn(d)
    BY <1>2 DEF StartedOn, NonReviewOn
  <2>2. StartedOn(d)' = IF d = day THEN StartedOn(d) \cup {r} ELSE StartedOn(d)
    BY <1>1, <1>2 DEF StartedOn
  <2>3. NonReviewOn(d)' = IF d = day /\ role \notin ReviewRoles
                          THEN NonReviewOn(d) \cup {r} ELSE NonReviewOn(d)
    BY <1>1, <1>2, <2>1, <2>2 DEF NonReviewOn, StartedOn
  <2>4. Cardinality(StartedOn(d)') <= MaxPerDay
    <3>1. CASE d = day
      <4>1. Cardinality(StartedOn(d)') = Cardinality(StartedOn(d)) + 1
        BY <2>1, <2>2, <3>1, RowSetsFinite, FS_AddElement
      <4> QED BY <3>1, <4>1, RowSetsFinite, LimitAssumption DEF Reserve, Admissible
    <3>2. CASE d # day
      BY <2>2, <3>2 DEF LedgerIInv, WithinLimits, DailyBudget
    <3> QED BY <3>1, <3>2
  <2>5. Cardinality(NonReviewOn(d)') <= NonReviewLimit
    <3>1. CASE d = day /\ role \notin ReviewRoles
      <4>1. Cardinality(NonReviewOn(d)') = Cardinality(NonReviewOn(d)) + 1
        BY <2>1, <2>3, <3>1, RowSetsFinite, FS_AddElement
      <4> QED BY <3>1, <4>1, RowSetsFinite, NonReviewLimitType DEF Reserve, Admissible
    <3>2. CASE ~(d = day /\ role \notin ReviewRoles)
      BY <2>3, <3>2 DEF LedgerIInv, WithinLimits, ReviewReserve
    <3> QED BY <3>1, <3>2
  <2> QED BY <2>4, <2>5
<1> QED BY <1>3, <1>4, <1>5 DEF LedgerIInv, WithinLimits, DailyBudget, ReviewReserve

LEMMA FinishInv ==
  ASSUME LedgerIInv, NEW r \in RunIds, NEW status \in {"SUCCEEDED", "FAILED"},
         Finish(r, status)
  PROVE  LedgerIInv'
<1>1. runs[r] \in RunRows /\ runs[r].status = "RUNNING"
  BY DEF Finish, LedgerIInv, RunsTypeOK, NoRun
<1> DEFINE row == [runs[r] EXCEPT !.status = status]
<1>2. row \in RunRows /\ row.role = runs[r].role /\ row.day = runs[r].day /\ row.status = status
  BY <1>1 DEF RunRows
<1>3. row # NoRun /\ runs[r] # NoRun
  BY <1>1, <1>2 DEF NoRun
<1>4. runs' = [runs EXCEPT ![r] = row]
  BY DEF Finish
<1> HIDE DEF row
<1>5. RunsTypeOK'
  BY <1>2, <1>4 DEF LedgerIInv, RunsTypeOK
<1>6. \A q \in RunIds : /\ runs'[q] = NoRun <=> runs[q] = NoRun
                        /\ runs[q] # NoRun => /\ runs'[q].role = runs[q].role
                                              /\ runs'[q].day = runs[q].day
                        /\ runs'[q].status = "RUNNING" => runs[q].status = "RUNNING"
  BY <1>1, <1>2, <1>3, <1>4 DEF LedgerIInv, RunsTypeOK
<1>7. ConcurrencyLimit'
  <2>1. Running' \subseteq Running
    BY <1>6 DEF Running
  <2>2. Cardinality(Running') <= Cardinality(Running) /\ Cardinality(Running') \in Nat
    BY <2>1, RowSetsFinite, FS_Subset, FS_CardinalityType
  <2> QED BY <2>2, RowSetsFinite, LimitAssumption DEF LedgerIInv, WithinLimits, ConcurrencyLimit
<1>8. \A d \in Days : StartedOn(d)' = StartedOn(d)
  BY <1>6 DEF StartedOn
<1>9. \A d \in Days : NonReviewOn(d)' = NonReviewOn(d)
  BY <1>6, <1>8 DEF NonReviewOn, StartedOn
<1> QED BY <1>5, <1>7, <1>8, <1>9 DEF LedgerIInv, WithinLimits, DailyBudget, ReviewReserve

LEMMA LedgerStepInv == LedgerIInv /\ [LedgerNext]_runs => LedgerIInv'
<1> SUFFICES ASSUME LedgerIInv, [LedgerNext]_runs PROVE LedgerIInv'
  OBVIOUS
<1>1. ASSUME NEW r \in RunIds, NEW role \in RunRoles, NEW day \in Days, Reserve(r, role, day)
      PROVE  LedgerIInv'
  BY <1>1, ReserveInv
<1>2. ASSUME NEW r \in RunIds, NEW status \in {"SUCCEEDED", "FAILED"}, Finish(r, status)
      PROVE  LedgerIInv'
  BY <1>2, FinishInv
<1>3. CASE UNCHANGED runs
  BY <1>3 DEF LedgerIInv, RunsTypeOK, WithinLimits, ConcurrencyLimit, DailyBudget,
              ReviewReserve, Running, StartedOn, NonReviewOn
<1> QED BY <1>1, <1>2, <1>3 DEF LedgerNext

(***************************************************************************)
(* Every table the ledger can reach respects the concurrency limit, the    *)
(* daily budget and the review reserve.                                    *)
(***************************************************************************)
THEOREM LedgerWithinLimits == LedgerSpec => [](RunsTypeOK /\ WithinLimits)
<1>1. LedgerIInv <=> RunsTypeOK /\ WithinLimits
  BY DEF LedgerIInv
<1> QED BY <1>1, LedgerInitInv, LedgerStepInv, PTL DEF LedgerSpec

LEMMA LedgerStepKeeps ==
  ASSUME RunsTypeOK, [LedgerNext]_runs
  PROVE  \A r \in RunIds : RunKept(r)
<1>1. ASSUME NEW q \in RunIds, NEW role \in RunRoles, NEW day \in Days, Reserve(q, role, day)
      PROVE  \A r \in RunIds : RunKept(r)
  <2> DEFINE row == [role |-> role, status |-> "RUNNING", day |-> day]
  <2>1. runs[q] = NoRun /\ runs' = [runs EXCEPT ![q] = row]
    BY <1>1 DEF Reserve
  <2> HIDE DEF row
  <2> QED BY <2>1 DEF RunKept, NoRun, RunsTypeOK
<1>2. ASSUME NEW q \in RunIds, NEW status \in {"SUCCEEDED", "FAILED"}, Finish(q, status)
      PROVE  \A r \in RunIds : RunKept(r)
  <2> DEFINE row == [runs[q] EXCEPT !.status = status]
  <2>1. runs[q] \in RunRows /\ runs[q].status = "RUNNING" /\ runs' = [runs EXCEPT ![q] = row]
    BY <1>2 DEF Finish, RunsTypeOK, NoRun
  <2>2. row.role = runs[q].role /\ row.day = runs[q].day /\ row \in RunRows /\ row # NoRun
    BY <2>1 DEF RunRows, NoRun
  <2> HIDE DEF row
  <2> QED BY <2>1, <2>2 DEF RunKept, RunsTypeOK
<1>3. CASE UNCHANGED runs
  BY <1>3 DEF RunKept
<1> QED BY <1>1, <1>2, <1>3 DEF LedgerNext

(***************************************************************************)
(* No step of the ledger reopens a finished run or rewrites what a row     *)
(* says of its role and its day.                                           *)
(***************************************************************************)
THEOREM LedgerFinishedOnce == LedgerSpec => FinishedOnce
<1>1. RunsTypeOK /\ [LedgerNext]_runs => [\A r \in RunIds : RunKept(r)]_runs
  BY LedgerStepKeeps
<1> QED BY <1>1, LedgerWithinLimits, PTL DEF LedgerSpec, FinishedOnce

-----------------------------------------------------------------------------
(* The controller processes.  The invariant says what the local variables  *)
(* of a process mean at each step of run, that the rows of two processes   *)
(* are never the same row, and where every RUNNING row comes from.         *)

JobMeans(j) ==
    /\ j.step \in {"unpaused", "dated"} \cup Owning => j.role \in RunRoles
    /\ j.step = "dated" => j.day \in Days
    /\ j.step \in Owning => j.run \in RunIds

Owns(p, r) == job[p].step \in Owning /\ job[p].run = r

RowsOwned ==
    \A p \in Processes : job[p].step \in Owning =>
        /\ runs[job[p].run].status = "RUNNING"
        /\ runs[job[p].run].role = job[p].role

OneOwner ==
    \A p, q \in Processes :
        /\ job[p].step \in Owning
        /\ job[q].step \in Owning
        /\ job[p].run = job[q].run
        => p = q

RunningExplained ==
    \A r \in RunIds : runs[r].status = "RUNNING" =>
        r \in lost \/ \E p \in Processes : Owns(p, r)

ControllerIInv ==
    /\ LedgerIInv
    /\ ControllerTypeOK
    /\ \A p \in Processes : JobMeans(job[p])
    /\ RowsOwned
    /\ OneOwner
    /\ RunningExplained

LEMMA ControllerInitInv == ControllerInit => ControllerIInv
<1> SUFFICES ASSUME ControllerInit PROVE ControllerIInv
  OBVIOUS
<1>1. LedgerIInv /\ RunsTypeOK
  BY LedgerInitInv DEF ControllerInit, LedgerIInv
<1>2. Idle \in Jobs /\ Idle.step = "idle"
  BY DEF Idle, Jobs, Steps
<1>3. \A p \in Processes : job[p] = Idle
  BY DEF ControllerInit
<1>4. ControllerTypeOK
  BY <1>1, <1>2 DEF ControllerInit, ControllerTypeOK
<1>5. \A p \in Processes : JobMeans(job[p]) /\ job[p].step \notin Owning
  BY <1>2, <1>3 DEF JobMeans, Owning
<1>6. \A r \in RunIds : runs[r].status # "RUNNING"
  BY DEF ControllerInit, LedgerInit, NoRun
<1> QED BY <1>1, <1>4, <1>5, <1>6 DEF ControllerIInv, RowsOwned, OneOwner, RunningExplained

\* A step of one process that leaves the ledger alone: it may go on with its
\* own run, or leave it, and a run that it leaves is recorded as lost.
LEMMA JobStep ==
  ASSUME ControllerIInv, NEW p \in Processes, NEW j \in Jobs,
         job' = [job EXCEPT ![p] = j],
         JobMeans(j),
         j.step \in Owning => /\ job[p].step \in Owning
                              /\ j.run = job[p].run
                              /\ j.role = job[p].role,
         job[p].step \in Owning /\ j.step \notin Owning => job[p].run \in lost',
         lost \subseteq lost', lost' \subseteq RunIds,
         UNCHANGED <<runs, paused, today, pausedSince>>
  PROVE  ControllerIInv'
<1>1. \A q \in Processes : job'[q] = IF q = p THEN j ELSE job[q]
  BY DEF ControllerIInv, ControllerTypeOK
<1>2. LedgerIInv'
  BY DEF ControllerIInv, LedgerIInv, RunsTypeOK, WithinLimits, ConcurrencyLimit,
         DailyBudget, ReviewReserve, Running, StartedOn, NonReviewOn
<1>3. ControllerTypeOK'
  BY DEF ControllerIInv, ControllerTypeOK, RunsTypeOK
<1>4. \A q \in Processes : JobMeans(job'[q])
  BY <1>1 DEF ControllerIInv
<1>5. RowsOwned'
  BY <1>1 DEF ControllerIInv, RowsOwned
<1>6. OneOwner'
  BY <1>1 DEF ControllerIInv, OneOwner
<1>7. RunningExplained'
  BY <1>1 DEF ControllerIInv, RunningExplained, Owns
<1>8. (\A q \in Processes : JobMeans(job[q]))'
  BY <1>4 DEF JobMeans
<1> QED BY <1>2, <1>3, <1>5, <1>6, <1>7, <1>8 DEF ControllerIInv

LEMMA ReserveRunInv ==
  ASSUME ControllerIInv, NEW p \in Processes, NEW r \in RunIds, ReserveRun(p, r)
  PROVE  ControllerIInv' /\ LedgerNext
<1> DEFINE j == [job[p] EXCEPT !.step = "reserved", !.run = r]
           row == [role |-> job[p].role, status |-> "RUNNING", day |-> job[p].day]
<1>1. /\ job[p] \in Jobs /\ job[p].step = "dated" /\ JobMeans(job[p])
      /\ job[p].role \in RunRoles /\ job[p].day \in Days
  BY DEF ReserveRun, ControllerIInv, ControllerTypeOK, JobMeans
<1>2. /\ j \in Jobs /\ j.step = "reserved" /\ j.run = r /\ j.role = job[p].role
      /\ "reserved" \in Owning /\ "dated" \notin Owning /\ job' = [job EXCEPT ![p] = j]
  BY <1>1 DEF ReserveRun, Jobs, Steps, Owning
<1>3. JobMeans(j)
  BY <1>1, <1>2 DEF JobMeans
<1>4. /\ runs[r] = NoRun /\ runs' = [runs EXCEPT ![r] = row]
      /\ row.status = "RUNNING" /\ row.role = job[p].role
  BY DEF ReserveRun, Reserve
<1>5. LedgerNext /\ LedgerIInv'
  BY <1>1, LedgerStepInv DEF ReserveRun, LedgerNext, ControllerIInv
<1> HIDE DEF j, row
<1>6. \A q \in Processes : job'[q] = IF q = p THEN j ELSE job[q]
  BY <1>2 DEF ControllerIInv, ControllerTypeOK
<1>7. \A s \in RunIds : runs'[s] = IF s = r THEN row ELSE runs[s]
  BY <1>4 DEF ControllerIInv, ControllerTypeOK, RunsTypeOK
<1>8. \A q \in Processes : job[q].step \in Owning => job[q].run \in RunIds /\ job[q].run # r
  BY <1>4 DEF ControllerIInv, JobMeans, RowsOwned, NoRun
<1>9. ControllerTypeOK'
  <2>1. pausedSince' \subseteq Processes
    BY DEF ReserveRun, ControllerIInv, ControllerTypeOK
  <2> QED BY ZenonT(60), <2>1, <1>2, <1>5 DEF ReserveRun, ControllerIInv, ControllerTypeOK, LedgerIInv
<1>10. (\A q \in Processes : JobMeans(job[q]))'
  <2>1. \A q \in Processes : JobMeans(job'[q])
    BY <1>3, <1>6 DEF ControllerIInv
  <2> QED BY <2>1 DEF JobMeans
<1>11. RowsOwned'
  BY <1>2, <1>4, <1>6, <1>7, <1>8 DEF ControllerIInv, RowsOwned
<1>12. OneOwner'
  BY <1>2, <1>6, <1>8 DEF ControllerIInv, OneOwner
<1>13. RunningExplained'
  <2>1. lost' = lost
    BY DEF ReserveRun
  <2> QED BY <2>1, <1>1, <1>2, <1>6, <1>7 DEF ControllerIInv, RunningExplained, Owns
<1> QED BY <1>5, <1>9, <1>10, <1>11, <1>12, <1>13 DEF ControllerIInv

LEMMA FinishRunInv ==
  ASSUME ControllerIInv, NEW p \in Processes, FinishRun(p)
  PROVE  ControllerIInv' /\ LedgerNext
<1> DEFINE j == IF job[p].outcome = "SUCCEEDED" THEN [job[p] EXCEPT !.step = "returned"]
                ELSE [Idle EXCEPT !.step = "raised", !.role = job[p].role]
           r == job[p].run
           row == [runs[r] EXCEPT !.status = job[p].outcome]
<1>1. /\ job[p] \in Jobs /\ job[p].step = "closing" /\ job[p].step \in Owning
      /\ r \in RunIds /\ job[p].outcome \in {"SUCCEEDED", "FAILED"}
  BY DEF FinishRun, ControllerIInv, ControllerTypeOK, JobMeans, Owning, Jobs
<1>2. /\ j \in Jobs /\ j.step \notin Owning /\ j.step \notin {"unpaused", "dated"}
      /\ job' = [job EXCEPT ![p] = j]
  BY <1>1 DEF FinishRun, Goto, Raise, Idle, Jobs, Steps, Owning
<1>3. JobMeans(j)
  BY <1>2 DEF JobMeans
<1>4. LedgerNext /\ LedgerIInv'
  BY <1>1, LedgerStepInv DEF FinishRun, LedgerNext, ControllerIInv
<1>5. /\ runs' = [runs EXCEPT ![r] = row] /\ runs[r] \in RunRows
      /\ runs[r].status = "RUNNING"
  BY <1>1 DEF FinishRun, Finish, ControllerIInv, ControllerTypeOK, RunsTypeOK, NoRun
<1>6. row.status # "RUNNING"
  BY <1>1, <1>5 DEF RunRows
<1> HIDE DEF j, row, r
<1>7. \A q \in Processes : job'[q] = IF q = p THEN j ELSE job[q]
  BY <1>2 DEF ControllerIInv, ControllerTypeOK
<1>8. \A t \in RunIds : runs'[t] = IF t = r THEN row ELSE runs[t]
  BY <1>5 DEF ControllerIInv, ControllerTypeOK, RunsTypeOK
<1>9. \A q \in Processes : q # p /\ job[q].step \in Owning =>
          job[q].run \in RunIds /\ job[q].run # r
  BY <1>1 DEF ControllerIInv, JobMeans, OneOwner, r
<1>10. ControllerTypeOK'
  BY <1>2, <1>4 DEF FinishRun, ControllerIInv, ControllerTypeOK, LedgerIInv
<1>11. (\A q \in Processes : JobMeans(job[q]))'
  <2>1. \A q \in Processes : JobMeans(job'[q])
    BY <1>3, <1>7 DEF ControllerIInv
  <2> QED BY <2>1 DEF JobMeans
<1>12. RowsOwned'
  BY <1>2, <1>7, <1>8, <1>9 DEF ControllerIInv, RowsOwned
<1>13. OneOwner'
  BY <1>2, <1>7 DEF ControllerIInv, OneOwner
<1>14. RunningExplained'
  <2>1. lost' = lost
    BY DEF FinishRun
  <2> QED BY <2>1, <1>6, <1>7, <1>8 DEF ControllerIInv, RunningExplained, Owns, r
<1> QED BY <1>4, <1>10, <1>11, <1>12, <1>13, <1>14 DEF ControllerIInv

\* The steps of one process that keep its run or end it without the ledger.
LEMMA JobStepsInv ==
  ASSUME ControllerIInv, NEW p \in Processes,
         \/ \E role \in RunRoles : Launch(p, role) /\ job[p].step \notin Owning
         \/ ReadDay(p) \/ RefuseRun(p) \/ CheckAgain(p) \/ CallProvider(p)
         \/ \E session \in Sessions \cup {NoSession} : ProviderReturns(p, session)
         \/ ProviderRaises(p) \/ FinishFails(p) \/ Collect(p) \/ Crash(p)
  PROVE  ControllerIInv' /\ UNCHANGED runs
<1>1. /\ job[p] \in Jobs /\ JobMeans(job[p]) /\ today \in Days
      /\ lost \subseteq RunIds
  BY DEF ControllerIInv, ControllerTypeOK
<1>2. /\ Idle \in Jobs /\ Idle.step = "idle" /\ JobMeans(Idle) /\ "idle" \notin Owning
  BY DEF Idle, Jobs, Steps, JobMeans, Owning
<1>3. ASSUME NEW role \in RunRoles, Launch(p, role), job[p].step \notin Owning
      PROVE  ControllerIInv' /\ UNCHANGED runs
  <2> DEFINE s == IF paused THEN "raised" ELSE "unpaused"
             j == [Idle EXCEPT !.role = role, !.step = s]
  <2>1. /\ j \in Jobs /\ j.step \notin Owning /\ JobMeans(j)
        /\ job' = [job EXCEPT ![p] = j] /\ job[p].step \notin Owning
    BY <1>3 DEF Launch, Idle, Jobs, Steps, JobMeans, Owning
  <2>2. lost' = lost /\ UNCHANGED <<runs, paused, today, pausedSince>>
    BY <1>3 DEF Launch
  <2> HIDE DEF j
  <2> QED BY <1>1, <2>1, <2>2, JobStep
<1>4. CASE ReadDay(p)
  <2> DEFINE j == [job[p] EXCEPT !.step = "dated", !.day = today]
  <2>1. /\ j \in Jobs /\ j.step \notin Owning /\ JobMeans(j)
        /\ job' = [job EXCEPT ![p] = j] /\ job[p].step \notin Owning
    BY <1>1, <1>4 DEF ReadDay, Jobs, Steps, JobMeans, Owning
  <2>2. lost' = lost /\ UNCHANGED <<runs, paused, today, pausedSince>>
    BY <1>4 DEF ReadDay
  <2> HIDE DEF j
  <2> QED BY <1>1, <2>1, <2>2, JobStep
<1>5. CASE RefuseRun(p)
  <2> DEFINE j == [Idle EXCEPT !.step = "raised", !.role = job[p].role]
  <2>1. /\ j \in Jobs /\ j.step \notin Owning /\ JobMeans(j)
        /\ job' = [job EXCEPT ![p] = j] /\ job[p].step \notin Owning
    BY <1>1, <1>5 DEF RefuseRun, Raise, Idle, Jobs, Steps, JobMeans, Owning
  <2>2. lost' = lost /\ UNCHANGED <<runs, paused, today, pausedSince>>
    BY <1>5 DEF RefuseRun
  <2> HIDE DEF j
  <2> QED BY <1>1, <2>1, <2>2, JobStep
<1>6. CASE CheckAgain(p) \/ CallProvider(p) \/ ProviderRaises(p)
  <2>1. PICK s \in {"closing", "cleared", "calling"} : Goto(p, s)
    BY <1>6 DEF CheckAgain, CallProvider, ProviderRaises
  <2> DEFINE j == [job[p] EXCEPT !.step = s]
  <2>2. job[p].step \in Owning
    BY <1>6 DEF CheckAgain, CallProvider, ProviderRaises, Owning
  <2>3. /\ j \in Jobs /\ JobMeans(j) /\ j.run = job[p].run /\ j.role = job[p].role
        /\ j.step \in Owning /\ job' = [job EXCEPT ![p] = j]
    BY <1>1, <2>1, <2>2 DEF Goto, Jobs, Steps, JobMeans, Owning
  <2>4. lost' = lost /\ UNCHANGED <<runs, paused, today, pausedSince>>
    BY <1>6 DEF CheckAgain, CallProvider, ProviderRaises
  <2> HIDE DEF j
  <2> QED BY <1>1, <2>2, <2>3, <2>4, JobStep
<1>7. ASSUME NEW session \in Sessions \cup {NoSession}, ProviderReturns(p, session)
      PROVE  ControllerIInv' /\ UNCHANGED runs
  <2> DEFINE j == [job[p] EXCEPT !.step = "closing", !.outcome = "SUCCEEDED",
                                 !.session = session]
  <2>1. job[p].step \in Owning
    BY <1>7 DEF ProviderReturns, Owning
  <2>2. /\ j \in Jobs /\ JobMeans(j) /\ j.run = job[p].run /\ j.role = job[p].role
        /\ j.step \in Owning /\ job' = [job EXCEPT ![p] = j]
    BY <1>1, <1>7, <2>1 DEF ProviderReturns, Jobs, Steps, JobMeans, Owning
  <2>3. lost' = lost /\ UNCHANGED <<runs, paused, today, pausedSince>>
    BY <1>7 DEF ProviderReturns
  <2> HIDE DEF j
  <2> QED BY <1>1, <2>1, <2>2, <2>3, JobStep
<1>8. CASE FinishFails(p)
  <2> DEFINE j == [Idle EXCEPT !.step = "raised", !.role = job[p].role]
  <2>1. job[p].step \in Owning /\ job[p].run \in RunIds
    BY <1>1, <1>8 DEF FinishFails, Owning, JobMeans
  <2>2. /\ j \in Jobs /\ j.step \notin Owning /\ JobMeans(j) /\ job' = [job EXCEPT ![p] = j]
    BY <1>1, <1>8 DEF FinishFails, Raise, Idle, Jobs, Steps, JobMeans, Owning
  <2>3. /\ lost' = lost \cup {job[p].run}
        /\ UNCHANGED <<runs, paused, today, pausedSince>>
    BY <1>8 DEF FinishFails
  <2> HIDE DEF j
  <2> QED BY <1>1, <2>1, <2>2, <2>3, JobStep
<1>9. CASE Collect(p)
  <2>1. job[p].step \notin Owning /\ job' = [job EXCEPT ![p] = Idle]
    BY <1>9 DEF Collect, Owning
  <2>2. lost' = lost /\ UNCHANGED <<runs, paused, today, pausedSince>>
    BY <1>9 DEF Collect
  <2> QED BY <1>1, <1>2, <2>1, <2>2, JobStep
<1>10. CASE Crash(p)
  <2>1. /\ job' = [job EXCEPT ![p] = Idle]
        /\ lost' = IF job[p].step \in Owning THEN lost \cup {job[p].run} ELSE lost
        /\ UNCHANGED <<runs, paused, today, pausedSince>>
    BY <1>10 DEF Crash
  <2>2. job[p].step \in Owning => job[p].run \in RunIds
    BY <1>1 DEF JobMeans
  <2> QED BY <1>1, <1>2, <2>1, <2>2, JobStep
<1> QED BY <1>3, <1>4, <1>5, <1>6, <1>7, <1>8, <1>9, <1>10

\* The switch and the calendar touch neither a job nor the ledger.
LEMMA EnvironmentInv ==
  ASSUME ControllerIInv, Operator \/ Midnight \/ UNCHANGED controllerVars
  PROVE  ControllerIInv' /\ UNCHANGED runs
<1>1. UNCHANGED <<runs, job, lost>>
  BY DEF Operator, Pause, Resume, Midnight, controllerVars, controlVars
<1>2. paused' \in BOOLEAN /\ today' \in Days /\ pausedSince' \subseteq Processes
  BY DEF Operator, Pause, Resume, Midnight, controllerVars, controlVars,
         ControllerIInv, ControllerTypeOK
<1>3. LedgerIInv'
  BY <1>1, LedgerStepInv DEF ControllerIInv
<1>4. ControllerTypeOK'
  BY <1>1, <1>2 DEF ControllerIInv, ControllerTypeOK, RunsTypeOK
<1> QED BY <1>1, <1>3, <1>4 DEF ControllerIInv, JobMeans, RowsOwned, OneOwner,
           RunningExplained, Owns

LEMMA ControllerStepInv ==
  ControllerIInv /\ [ControllerNext]_controllerVars => ControllerIInv' /\ [LedgerNext]_runs
<1> SUFFICES ASSUME ControllerIInv, [ControllerNext]_controllerVars
             PROVE  ControllerIInv' /\ [LedgerNext]_runs
  OBVIOUS
<1>1. ASSUME NEW p \in Processes,
             \/ \E role \in Roles : StartRun(p, role)
             \/ Proceed(p) \/ Collect(p) \/ Crash(p)
      PROVE  ControllerIInv' /\ [LedgerNext]_runs
  <2>1. ASSUME NEW r \in RunIds, ReserveRun(p, r)
        PROVE  ControllerIInv' /\ [LedgerNext]_runs
    BY <2>1, ReserveRunInv
  <2>2. CASE FinishRun(p)
    BY <2>2, FinishRunInv
  <2>3. ASSUME NEW role \in Roles, StartRun(p, role)
        PROVE  ControllerIInv' /\ [LedgerNext]_runs
    <3>1. role \in RunRoles /\ Launch(p, role) /\ job[p].step \notin Owning
      BY <2>3, RoleAssumption DEF StartRun, Owning
    <3> QED BY <3>1, JobStepsInv
  <2> QED BY <1>1, <2>1, <2>2, <2>3, JobStepsInv DEF Proceed
<1>2. CASE Operator \/ Midnight \/ UNCHANGED controllerVars
  BY <1>2, EnvironmentInv
<1> QED BY <1>1, <1>2 DEF ControllerNext

THEOREM ControllerInvariant == ControllerSpec => []ControllerIInv
<1> QED BY ControllerInitInv, ControllerStepInv, PTL DEF ControllerSpec

(***************************************************************************)
(* Any number of racing, crashing and failing controllers, with the switch *)
(* and the calendar moving under them, behave on the ledger's table as the *)
(* run ledger promises.                                                    *)
(***************************************************************************)
THEOREM ControllerRefinesLedger == ControllerSpec => ImplementsLedger
<1>1. ControllerInit => LedgerInit
  BY DEF ControllerInit
<1> QED BY <1>1, ControllerInvariant, ControllerStepInv, PTL
    DEF ControllerSpec, ImplementsLedger, LedgerSpec

(***************************************************************************)
(* Whatever the interleaving, the concurrency limit, the daily budget and  *)
(* the review reserve hold at every moment.                                *)
(***************************************************************************)
THEOREM ControllerWithinLimits == ControllerSpec => [](ControllerTypeOK /\ WithinLimits)
<1>1. ControllerIInv => ControllerTypeOK /\ WithinLimits
  BY DEF ControllerIInv, LedgerIInv
<1> QED BY <1>1, ControllerInvariant, PTL

(***************************************************************************)
(* A run of a controller is finished once and its record is kept.          *)
(***************************************************************************)
THEOREM ControllerFinishedOnce == ControllerSpec => FinishedOnce
<1> QED BY ControllerRefinesLedger, LedgerFinishedOnce, PTL DEF ImplementsLedger

(***************************************************************************)
(* A row that is still RUNNING has a process working on it, or is one of   *)
(* those a dead process or a failed write left behind.                     *)
(***************************************************************************)
THEOREM ControllerNoLeaks == ControllerSpec => []NoReservationLeaks
<1>1. ControllerIInv => NoReservationLeaks
  BY DEF ControllerIInv, RunningExplained, NoReservationLeaks, Owns, Owners
<1> QED BY <1>1, ControllerInvariant, PTL

LEMMA InvariantOwnsRows == ControllerIInv => OwnersHoldReservations
<1> SUFFICES ASSUME ControllerIInv PROVE OwnersHoldReservations
  OBVIOUS
<1>1. ASSUME NEW p \in Processes, job[p].step \in Owning
      PROVE  /\ runs[job[p].run].status = "RUNNING"
             /\ runs[job[p].run].role = job[p].role
             /\ Owners(job[p].run) = {p}
  BY <1>1 DEF ControllerIInv, RowsOwned, OneOwner, Owners
<1> DEFINE callers == {p \in Processes : job[p].step = "calling"}
           rowOf == [p \in callers |-> job[p].run]
<1>2. \A p \in callers : job[p].step \in Owning
  BY DEF Owning
<1>3. rowOf \in [callers -> Running]
  BY <1>1, <1>2 DEF ControllerIInv, JobMeans, Running
<1>4. rowOf \in Injection(callers, Running)
  BY <1>2, <1>3 DEF ControllerIInv, OneOwner, Injection, IsInjective
<1>5. Cardinality(callers) <= Cardinality(Running) /\ Cardinality(callers) \in Nat
  BY <1>3, <1>4, RowSetsFinite, FS_Injection, FS_CardinalityType
<1>6. Cardinality(Running) <= MaxConcurrent
  BY DEF ControllerIInv, LedgerIInv, WithinLimits, ConcurrencyLimit
<1>7. Cardinality(callers) <= MaxConcurrent
  BY <1>5, <1>6, RowSetsFinite, LimitAssumption
<1> QED BY <1>1, <1>7 DEF OwnersHoldReservations

(***************************************************************************)
(* Between its reservation and its finish a process has a RUNNING row of   *)
(* its own, so provider calls are as limited as rows are.                  *)
(***************************************************************************)
THEOREM ControllerOwnersHold == ControllerSpec => []OwnersHoldReservations
<1> QED BY InvariantOwnsRows, ControllerInvariant, PTL

-----------------------------------------------------------------------------
(* The pause switch. *)

(***************************************************************************)
(* A process has been paused since its reservation only while the switch   *)
(* is on, so the second check finds it, and whoever passed that check has  *)
(* not been.                                                               *)
(***************************************************************************)
SwitchWatched ==
    /\ pausedSince # {} => paused
    /\ \A p \in Processes : job[p].step = "cleared" => p \notin pausedSince

PauseKept ==
    \A p \in Processes :
        job[p].step # "calling" /\ job'[p].step = "calling" => p \notin pausedSince

\* One process moves to a place, which it may reach as cleared only if the
\* switch is off.
LEMMA SwitchStep ==
  ASSUME ControllerTypeOK, SwitchWatched, NEW p \in Processes, NEW j,
         job' = [job EXCEPT ![p] = j], UNCHANGED <<paused, pausedSince>>,
         j.step = "cleared" => ~paused,
         j.step = "calling" => job[p].step = "cleared"
  PROVE  SwitchWatched' /\ PauseKept
<1>1. \A q \in Processes : job'[q] = IF q = p THEN j ELSE job[q]
  BY DEF ControllerTypeOK
<1>2. SwitchWatched'
  BY <1>1 DEF SwitchWatched
<1>3. PauseKept
  BY <1>1 DEF SwitchWatched, PauseKept
<1> QED BY <1>2, <1>3

\* Whatever one process does, as a controller or inside a coordinator.
LEMMA SwitchWork ==
  ASSUME ControllerTypeOK, SwitchWatched, NEW p \in Processes,
         \/ \E role \in RunRoles : Launch(p, role)
         \/ Proceed(p) \/ Collect(p) \/ Crash(p)
  PROVE  SwitchWatched' /\ PauseKept
<1>a. ASSUME NEW place, Goto(p, place), UNCHANGED <<paused, pausedSince>>,
             place = "cleared" => ~paused,
             place = "calling" => job[p].step = "cleared"
      PROVE  SwitchWatched' /\ PauseKept
  <2>1. job' = [job EXCEPT ![p] = [job[p] EXCEPT !.step = place]]
    BY <1>a DEF Goto
  <2>2. [job[p] EXCEPT !.step = place].step = place
    BY DEF ControllerTypeOK, Jobs
  <2> QED BY <1>a, <2>1, <2>2, SwitchStep
<1>b. ASSUME job' = [job EXCEPT ![p] = Idle], UNCHANGED <<paused, pausedSince>>
      PROVE  SwitchWatched' /\ PauseKept
  BY <1>b, SwitchStep DEF Idle
<1>c. ASSUME Raise(p), UNCHANGED <<paused, pausedSince>>
      PROVE  SwitchWatched' /\ PauseKept
  <2> DEFINE j == [Idle EXCEPT !.step = "raised", !.role = job[p].role]
  <2>1. job' = [job EXCEPT ![p] = j] /\ j.step = "raised"
    BY <1>c DEF Raise, Idle
  <2> QED BY <1>c, <2>1, SwitchStep
<1>1. ASSUME NEW role \in RunRoles, Launch(p, role)
      PROVE  SwitchWatched' /\ PauseKept
  <2>1. PICK place \in {"raised", "unpaused"} :
          job' = [job EXCEPT ![p] = [Idle EXCEPT !.role = role, !.step = place]]
    BY <1>1 DEF Launch
  <2>2. [Idle EXCEPT !.role = role, !.step = place].step = place
    BY DEF Idle
  <2> QED BY <1>1, <2>1, <2>2, SwitchStep DEF Launch
<1>2. CASE ReadDay(p)
  <2>1. job' = [job EXCEPT ![p] = [job[p] EXCEPT !.step = "dated", !.day = today]]
    BY <1>2 DEF ReadDay
  <2>2. [job[p] EXCEPT !.step = "dated", !.day = today].step = "dated"
    BY DEF ControllerTypeOK, Jobs
  <2> QED BY <1>2, <2>1, <2>2, SwitchStep DEF ReadDay
<1>3. ASSUME NEW r \in RunIds, ReserveRun(p, r)
      PROVE  SwitchWatched' /\ PauseKept
  <2>1. \A q \in Processes :
          job'[q].step = IF q = p THEN "reserved" ELSE job[q].step
    BY <1>3 DEF ReserveRun, ControllerTypeOK, Jobs
  <2>2. /\ pausedSince' = IF paused THEN pausedSince \cup {p} ELSE pausedSince \ {p}
        /\ paused' = paused
    BY <1>3 DEF ReserveRun
  <2> QED BY <2>1, <2>2 DEF SwitchWatched, PauseKept
<1>4. CASE RefuseRun(p)
  BY <1>4, <1>c DEF RefuseRun
<1>5. CASE CheckAgain(p)
  <2>1. CASE paused
    BY <1>5, <2>1, <1>a DEF CheckAgain
  <2>2. CASE ~paused
    BY <1>5, <2>2, <1>a DEF CheckAgain
  <2> QED BY <2>1, <2>2
<1>6. CASE CallProvider(p)
  BY <1>6, <1>a DEF CallProvider
<1>7. ASSUME NEW session \in Sessions \cup {NoSession}, ProviderReturns(p, session)
      PROVE  SwitchWatched' /\ PauseKept
  <2> DEFINE j == [job[p] EXCEPT !.step = "closing", !.outcome = "SUCCEEDED",
                                 !.session = session]
  <2>1. job' = [job EXCEPT ![p] = j]
    BY <1>7 DEF ProviderReturns
  <2>2. j.step = "closing"
    BY DEF ControllerTypeOK, Jobs
  <2> QED BY <1>7, <2>1, <2>2, SwitchStep DEF ProviderReturns
<1>8. CASE ProviderRaises(p)
  BY <1>8, <1>a DEF ProviderRaises
<1>9. CASE FinishRun(p)
  <2>1. Goto(p, "returned") \/ Raise(p)
    BY <1>9 DEF FinishRun
  <2> QED BY <1>9, <2>1, <1>a, <1>c DEF FinishRun
<1>10. CASE FinishFails(p)
  BY <1>10, <1>c DEF FinishFails
<1>11. CASE Collect(p) \/ Crash(p)
  BY <1>11, <1>b DEF Collect, Crash
<1> QED BY <1>1, <1>2, <1>3, <1>4, <1>5, <1>6, <1>7, <1>8, <1>9, <1>10, <1>11
    DEF Proceed

LEMMA SwitchEnvironment ==
  ASSUME SwitchWatched, Operator \/ Midnight \/ UNCHANGED controllerVars
  PROVE  SwitchWatched' /\ PauseKept
BY DEF Operator, Pause, Resume, Midnight, controllerVars, controlVars, SwitchWatched, PauseKept

LEMMA SwitchNext ==
  ControllerTypeOK /\ SwitchWatched /\ [ControllerNext]_controllerVars
    => SwitchWatched' /\ PauseKept
<1>1. ASSUME NEW p \in Processes, NEW role \in Roles, StartRun(p, role)
      PROVE  role \in RunRoles /\ Launch(p, role)
  BY <1>1, RoleAssumption DEF StartRun
<1> QED BY <1>1, SwitchWork, SwitchEnvironment DEF ControllerNext

(***************************************************************************)
(* A pause that is on when a run is reserved, and stays on, keeps the      *)
(* provider from being called for that run.                                *)
(***************************************************************************)
THEOREM ControllerPauseStops == ControllerSpec => PauseStopsReservedRuns
<1>1. ControllerInit => SwitchWatched
  BY DEF ControllerInit, SwitchWatched, Idle
<1>2. ControllerIInv => ControllerTypeOK
  BY DEF ControllerIInv
<1>3. ControllerSpec => [][PauseKept]_controllerVars
  BY <1>1, <1>2, SwitchNext, ControllerInvariant, PTL DEF ControllerSpec
<1> QED BY <1>3 DEF PauseStopsReservedRuns, PauseKept

-----------------------------------------------------------------------------
(* The review coordinator: its steps are steps of controllers. *)

\* A run that returned is recorded as a successful run of its role.
ReturnedMeans(p) ==
    job[p].step = "returned" =>
        /\ job[p].run \in RunIds
        /\ runs[job[p].run].status = "SUCCEEDED"
        /\ runs[job[p].run].role = job[p].role

\* What the coordinator of p knows at each stage.
StageMeans(p) ==
    /\ Stage(p) = "code" => job[p].role = "code_review"
    /\ Stage(p) = "qa" =>
          /\ job[p].role = "qa_review"
          /\ review[p].run \in RunIds /\ review[p].session \in Sessions
          /\ review[p].session \notin review[p].excluded
          /\ runs[review[p].run].status = "SUCCEEDED"
          /\ runs[review[p].run].role = "code_review"

ReviewIInv ==
    /\ ControllerIInv
    /\ ReviewTypeOK
    /\ \A p \in Processes : ReturnedMeans(p) /\ StageMeans(p)
    /\ ReviewsAreSeparate

\* A review step is a step of the controllers: it launches a run only where a
\* process works on none.
LEMMA ReviewStepControls ==
  ASSUME ControllerIInv, [ReviewNext]_allVars
  PROVE  ControllerIInv' /\ [LedgerNext]_runs
<1>1. ASSUME NEW p \in Processes, NEW excluded, BeginReviews(p, excluded)
      PROVE  ControllerIInv' /\ [LedgerNext]_runs
  <2>1. Launch(p, "code_review") /\ job[p].step \notin Owning /\ "code_review" \in RunRoles
    BY <1>1 DEF BeginReviews, StartRun, Owning, RunRoles, ReviewRoles
  <2> QED BY <2>1, JobStepsInv
<1>2. ASSUME NEW p \in Processes, CodeReviewed(p)
      PROVE  ControllerIInv' /\ [LedgerNext]_runs
  <2>1. Launch(p, "qa_review") /\ job[p].step \notin Owning /\ "qa_review" \in RunRoles
    BY <1>2 DEF CodeReviewed, Owning, RunRoles, ReviewRoles
  <2> QED BY <2>1, JobStepsInv
<1>3. ASSUME NEW p \in Processes,
             QaReviewed(p) \/ ReviewsFail(p) \/ PlainRun(p) \/ Proceed(p) \/ ReviewCrash(p)
      PROVE  ControllerIInv' /\ [LedgerNext]_runs
  <2>1. [ControllerNext]_controllerVars
    BY <1>3 DEF QaReviewed, ReviewsFail, PlainRun, ReviewCrash, ControllerNext
  <2> QED BY <2>1, ControllerStepInv
<1>4. CASE Operator \/ Midnight \/ UNCHANGED allVars
  <2>1. [ControllerNext]_controllerVars
    BY <1>4 DEF ControllerNext, allVars
  <2> QED BY <2>1, ControllerStepInv
<1> QED BY <1>1, <1>2, <1>3, <1>4 DEF ReviewNext

\* Rows of successful runs stay as they are.
LEMMA SuccessStays ==
  ASSUME ControllerIInv, [LedgerNext]_runs
  PROVE  \A r \in RunIds : runs[r].status = "SUCCEEDED" => runs'[r] = runs[r]
BY LedgerStepKeeps DEF ControllerIInv, ControllerTypeOK, RunKept

\* The job of a process that does not start a new run keeps its role, and
\* returns only when its row was closed as successful.
JobGoesOn(p) ==
    /\ job'[p].role = job[p].role
    /\ job'[p].step = "returned" =>
          \/ job'[p] = job[p]
          \/ /\ job'[p].run = job[p].run /\ job[p].run \in RunIds
             /\ runs'[job[p].run].status = "SUCCEEDED"
             /\ runs'[job[p].run].role = job[p].role

LEMMA ProceedGoesOn ==
  ASSUME ControllerIInv, NEW p \in Processes, Proceed(p)
  PROVE  JobGoesOn(p) /\ \A q \in Processes \ {p} : job'[q] = job[q]
<1>0. job \in [Processes -> Jobs] /\ job[p] \in Jobs /\ runs \in [RunIds -> RunRows \cup {NoRun}]
  BY DEF ControllerIInv, ControllerTypeOK, RunsTypeOK
<1>1. ASSUME NEW step \in Steps \ {"returned"}, Goto(p, step)
      PROVE  JobGoesOn(p) /\ \A q \in Processes \ {p} : job'[q] = job[q]
  <2>1. job' = [job EXCEPT ![p] = [job[p] EXCEPT !.step = step]]
    BY <1>1 DEF Goto
  <2> QED BY <1>0, <2>1 DEF JobGoesOn, Jobs
<1>r. ASSUME Raise(p)
      PROVE  JobGoesOn(p) /\ \A q \in Processes \ {p} : job'[q] = job[q]
  BY <1>0, <1>r DEF Raise, Idle, JobGoesOn, Jobs
<1>2. CASE RefuseRun(p) \/ CheckAgain(p) \/ CallProvider(p) \/ ProviderRaises(p) \/ FinishFails(p)
  <2>1. CASE CheckAgain(p) \/ CallProvider(p) \/ ProviderRaises(p)
    <3>1. PICK step \in {"closing", "cleared", "calling"} : Goto(p, step)
      BY <2>1 DEF CheckAgain, CallProvider, ProviderRaises
    <3> QED BY <1>1, <3>1 DEF Steps
  <2> QED BY <1>2, <1>r, <2>1 DEF RefuseRun, FinishFails
<1>3. CASE ReadDay(p)
  BY <1>0, <1>3 DEF ReadDay, JobGoesOn, Jobs
<1>4. ASSUME NEW r \in RunIds, ReserveRun(p, r)
      PROVE  JobGoesOn(p) /\ \A q \in Processes \ {p} : job'[q] = job[q]
  BY <1>0, <1>4 DEF ReserveRun, JobGoesOn, Jobs
<1>5. ASSUME NEW session \in Sessions \cup {NoSession}, ProviderReturns(p, session)
      PROVE  JobGoesOn(p) /\ \A q \in Processes \ {p} : job'[q] = job[q]
  BY <1>0, <1>5 DEF ProviderReturns, JobGoesOn, Jobs
<1>6. CASE FinishRun(p)
  <2>1. /\ job[p].run \in RunIds /\ runs[job[p].run].status = "RUNNING"
        /\ runs[job[p].run].role = job[p].role
    BY <1>6 DEF FinishRun, ControllerIInv, JobMeans, RowsOwned, Owning
  <2>2. runs[job[p].run] \in RunRows
    BY <1>0, <2>1 DEF NoRun
  <2>3. runs' = [runs EXCEPT ![job[p].run].status = job[p].outcome]
    BY <1>6 DEF FinishRun, Finish
  <2>4. runs'[job[p].run].status = job[p].outcome /\ runs'[job[p].run].role = job[p].role
    BY <1>0, <2>1, <2>2, <2>3 DEF RunRows
  <2>5. CASE job[p].outcome = "SUCCEEDED"
    <3>1. job' = [job EXCEPT ![p] = [job[p] EXCEPT !.step = "returned"]]
      BY <1>6, <2>5 DEF FinishRun, Goto
    <3>2. /\ job'[p].role = job[p].role /\ job'[p].run = job[p].run
          /\ \A q \in Processes \ {p} : job'[q] = job[q]
      BY <1>0, <3>1 DEF Jobs
    <3> QED BY <2>1, <2>4, <2>5, <3>2 DEF JobGoesOn
  <2>6. CASE job[p].outcome # "SUCCEEDED"
    BY <1>6, <1>r, <2>6 DEF FinishRun
  <2> QED BY <2>5, <2>6
<1> QED BY <1>2, <1>3, <1>4, <1>5, <1>6 DEF Proceed

\* The other processes are where they were.
Alone(p) == \A q \in Processes \ {p} : job'[q] = job[q] /\ review'[q] = review[q]

LEMMA OthersMean ==
  ASSUME ReviewIInv, [LedgerNext]_runs, NEW p \in Processes, Alone(p),
         ReturnedMeans(p)', StageMeans(p)'
  PROVE  \A q \in Processes : ReturnedMeans(q)' /\ StageMeans(q)'
<1>1. \A r \in RunIds : runs[r].status = "SUCCEEDED" => runs'[r] = runs[r]
  BY SuccessStays DEF ReviewIInv
<1>2. ASSUME NEW q \in Processes \ {p} PROVE ReturnedMeans(q)' /\ StageMeans(q)'
  BY <1>1, <1>2 DEF ReviewIInv, Alone, ReturnedMeans, StageMeans, Stage
<1> QED BY <1>2

\* Evidence stays true.
LEMMA EvidenceStays ==
  ASSUME ReviewIInv, [LedgerNext]_runs, accepted' = accepted
  PROVE  ReviewsAreSeparate'
<1>1. \A r \in RunIds : runs[r].status = "SUCCEEDED" => runs'[r] = runs[r]
  BY SuccessStays DEF ReviewIInv
<1>2. \A e \in accepted : e.codeRun \in RunIds /\ e.qaRun \in RunIds
  BY DEF ReviewIInv, ReviewTypeOK, Evidence
<1> QED BY <1>1, <1>2 DEF ReviewIInv, ReviewsAreSeparate

LEMMA ReviewTypes ==
  ASSUME ReviewTypeOK, ControllerTypeOK', NEW p \in Processes, NEW state \in Reviews \cup {NoReview},
         review' = [review EXCEPT ![p] = state], accepted' \subseteq Evidence
  PROVE  ReviewTypeOK'
BY DEF ReviewTypeOK

LEMMA LaunchMeans ==
  ASSUME ReviewIInv, NEW p \in Processes, NEW role \in RunRoles, Launch(p, role)
  PROVE  /\ job'[p].role = role /\ job'[p].step \in {"raised", "unpaused"} /\ runs' = runs
         /\ \A q \in Processes \ {p} : job'[q] = job[q]
<1> DEFINE step == IF paused THEN "raised" ELSE "unpaused"
           started == [Idle EXCEPT !.role = role, !.step = step]
<1>1. job' = [job EXCEPT ![p] = started] /\ runs' = runs
  BY DEF Launch
<1>2. started.role = role /\ started.step = step
  BY DEF Idle
<1>3. job \in [Processes -> Jobs]
  BY DEF ReviewIInv, ControllerIInv, ControllerTypeOK
<1> QED BY <1>1, <1>2, <1>3

LEMMA BeginInv ==
  ASSUME ReviewIInv, ControllerIInv', [LedgerNext]_runs, NEW p \in Processes,
         NEW excluded \in SUBSET Sessions, BeginReviews(p, excluded)
  PROVE  ReviewIInv'
<1> DEFINE state == [stage |-> "code", excluded |-> excluded]
<1>0. review \in [Processes -> Reviews \cup {NoReview}] /\ ControllerTypeOK'
  BY DEF ReviewIInv, ReviewTypeOK, ControllerIInv
<1>1. state \in Reviews /\ review' = [review EXCEPT ![p] = state] /\ accepted' = accepted
  BY DEF BeginReviews, Reviews
<1>2. state.stage = "code"
  OBVIOUS
<1>3. /\ job'[p].role = "code_review" /\ job'[p].step # "returned"
      /\ \A q \in Processes \ {p} : job'[q] = job[q]
  BY LaunchMeans DEF BeginReviews, StartRun, RunRoles, ReviewRoles
<1> HIDE DEF state
<1>4. Alone(p) /\ review'[p] = state
  BY <1>0, <1>1, <1>3 DEF Alone
<1>5. ReturnedMeans(p)' /\ StageMeans(p)'
  BY <1>2, <1>3, <1>4 DEF ReturnedMeans, StageMeans, Stage
<1>6. ReviewTypeOK'
  BY <1>0, <1>1, ReviewTypes DEF ReviewIInv, ReviewTypeOK
<1> QED BY <1>1, <1>4, <1>5, <1>6, OthersMean, EvidenceStays DEF ReviewIInv

LEMMA CodeReviewedInv ==
  ASSUME ReviewIInv, ControllerIInv', [LedgerNext]_runs, NEW p \in Processes, CodeReviewed(p)
  PROVE  ReviewIInv'
<1> DEFINE state == [stage |-> "qa", excluded |-> review[p].excluded,
                     session |-> job[p].session, run |-> job[p].run]
<1>0. /\ review \in [Processes -> Reviews \cup {NoReview}] /\ ControllerTypeOK'
      /\ job[p] \in Jobs
  BY DEF ReviewIInv, ReviewTypeOK, ControllerIInv, ControllerTypeOK
<1>1. review' = [review EXCEPT ![p] = state] /\ accepted' = accepted
  BY DEF CodeReviewed
<1>2. /\ job[p].run \in RunIds /\ runs[job[p].run].status = "SUCCEEDED"
      /\ runs[job[p].run].role = "code_review"
  BY DEF CodeReviewed, ReviewIInv, ReturnedMeans, StageMeans
<1>3. /\ job[p].session \in Sessions /\ job[p].session \notin review[p].excluded
      /\ review[p].excluded \in SUBSET Sessions
  <2>1. job[p].session \in Sessions
    BY <1>0 DEF CodeReviewed, Fresh, Jobs
  <2>2. review[p] \in Reviews /\ review[p].stage = "code"
    BY <1>0 DEF CodeReviewed, Stage, NoReview
  <2>3. review[p].excluded \in SUBSET Sessions
    BY <2>2 DEF Reviews
  <2> QED BY <2>1, <2>3 DEF CodeReviewed, Fresh
<1>4. /\ job'[p].role = "qa_review" /\ job'[p].step # "returned" /\ runs' = runs
      /\ \A q \in Processes \ {p} : job'[q] = job[q]
  BY LaunchMeans DEF CodeReviewed, RunRoles, ReviewRoles
<1>5. state \in Reviews
  BY <1>2, <1>3 DEF Reviews
<1>6. /\ state.stage = "qa" /\ state.excluded = review[p].excluded
      /\ state.session = job[p].session /\ state.run = job[p].run
  OBVIOUS
<1> HIDE DEF state
<1>7. Alone(p) /\ review'[p] = state
  BY <1>0, <1>1, <1>4 DEF Alone
<1>8. ReturnedMeans(p)' /\ StageMeans(p)'
  BY <1>2, <1>3, <1>4, <1>6, <1>7 DEF ReturnedMeans, StageMeans, Stage
<1>9. ReviewTypeOK'
  BY <1>0, <1>1, <1>5, ReviewTypes DEF ReviewIInv, ReviewTypeOK
<1> QED BY <1>1, <1>7, <1>8, <1>9, OthersMean, EvidenceStays DEF ReviewIInv

\* A review that is over.
LEMMA NoReviewInv ==
  ASSUME ReviewIInv, ControllerIInv', [LedgerNext]_runs, NEW p \in Processes,
         review' = [review EXCEPT ![p] = NoReview], job' = [job EXCEPT ![p] = Idle],
         accepted' \subseteq Evidence, ReviewsAreSeparate'
  PROVE  ReviewIInv'
<1>0. /\ review \in [Processes -> Reviews \cup {NoReview}] /\ ControllerTypeOK'
      /\ job \in [Processes -> Jobs]
  BY DEF ReviewIInv, ReviewTypeOK, ControllerIInv, ControllerTypeOK
<1>1. Alone(p) /\ review'[p] = NoReview /\ job'[p] = Idle
  BY <1>0 DEF Alone
<1>2. NoReview.stage = "none" /\ Idle.step = "idle"
  BY DEF NoReview, Idle
<1>3. ReturnedMeans(p)' /\ StageMeans(p)'
  BY <1>1, <1>2 DEF ReturnedMeans, StageMeans, Stage
<1>4. ReviewTypeOK'
  BY <1>0, ReviewTypes DEF ReviewIInv
<1> QED BY <1>1, <1>3, <1>4, OthersMean DEF ReviewIInv

LEMMA QaReviewedInv ==
  ASSUME ReviewIInv, ControllerIInv', [LedgerNext]_runs, NEW p \in Processes, QaReviewed(p)
  PROVE  ReviewIInv'
<1> DEFINE e == [excluded |-> review[p].excluded, code |-> review[p].session,
                 qa |-> job[p].session, codeRun |-> review[p].run, qaRun |-> job[p].run]
<1>0. /\ review \in [Processes -> Reviews \cup {NoReview}] /\ accepted \subseteq Evidence
      /\ job[p] \in Jobs
  BY DEF ReviewIInv, ReviewTypeOK, ControllerIInv, ControllerTypeOK
<1>1. /\ accepted' = accepted \cup {e} /\ review' = [review EXCEPT ![p] = NoReview]
      /\ job' = [job EXCEPT ![p] = Idle] /\ runs' = runs
  BY DEF QaReviewed, Collect
<1>2. /\ job[p].run \in RunIds /\ runs[job[p].run].status = "SUCCEEDED"
      /\ runs[job[p].run].role = "qa_review"
      /\ review[p].run \in RunIds /\ runs[review[p].run].status = "SUCCEEDED"
      /\ runs[review[p].run].role = "code_review"
      /\ review[p].session \in Sessions /\ review[p].session \notin review[p].excluded
  BY DEF QaReviewed, ReviewIInv, ReturnedMeans, StageMeans
<1>3. /\ job[p].session \in Sessions /\ job[p].session # review[p].session
      /\ job[p].session \notin review[p].excluded
  BY <1>0 DEF QaReviewed, Fresh, Jobs
<1>4. review[p].excluded \in SUBSET Sessions
  <2>1. review[p] \in Reviews /\ review[p].stage = "qa"
    BY <1>0 DEF QaReviewed, Stage, NoReview
  <2> QED BY <2>1 DEF Reviews
<1>5. e \in Evidence
  BY <1>2, <1>3, <1>4 DEF Evidence
<1>6. /\ e.excluded = review[p].excluded /\ e.code = review[p].session
      /\ e.qa = job[p].session /\ e.codeRun = review[p].run /\ e.qaRun = job[p].run
  OBVIOUS
<1> HIDE DEF e
<1>7. /\ e.code # e.qa /\ {e.code, e.qa} \cap e.excluded = {}
      /\ e.codeRun # e.qaRun
      /\ runs[e.codeRun].role = "code_review" /\ runs[e.codeRun].status = "SUCCEEDED"
      /\ runs[e.qaRun].role = "qa_review" /\ runs[e.qaRun].status = "SUCCEEDED"
  BY <1>2, <1>3, <1>6
<1>8. ReviewsAreSeparate'
  BY <1>1, <1>7 DEF ReviewIInv, ReviewsAreSeparate
<1> QED BY <1>0, <1>1, <1>5, <1>8, NoReviewInv

LEMMA ReviewEndsInv ==
  ASSUME ReviewIInv, ControllerIInv', [LedgerNext]_runs, NEW p \in Processes,
         ReviewsFail(p) \/ ReviewCrash(p)
  PROVE  ReviewIInv'
<1>1. /\ review' = [review EXCEPT ![p] = NoReview] /\ job' = [job EXCEPT ![p] = Idle]
      /\ accepted' = accepted
  BY DEF ReviewsFail, ReviewCrash, Collect, Crash
<1>2. accepted' \subseteq Evidence
  BY <1>1 DEF ReviewIInv, ReviewTypeOK
<1> QED BY <1>1, <1>2, EvidenceStays, NoReviewInv

LEMMA QuietInv ==
  ASSUME ReviewIInv, ControllerIInv', [LedgerNext]_runs, UNCHANGED reviewVars,
         NEW p \in Processes, \A q \in Processes \ {p} : job'[q] = job[q],
         ReturnedMeans(p)', StageMeans(p)'
  PROVE  ReviewIInv'
<1>1. Alone(p) /\ accepted' = accepted
  BY DEF Alone, reviewVars
<1>2. ReviewTypeOK'
  BY DEF ReviewIInv, ReviewTypeOK, reviewVars, ControllerIInv
<1> QED BY <1>1, <1>2, OthersMean, EvidenceStays DEF ReviewIInv

LEMMA ProceedInv ==
  ASSUME ReviewIInv, ControllerIInv', [LedgerNext]_runs, NEW p \in Processes, Proceed(p),
         UNCHANGED reviewVars
  PROVE  ReviewIInv'
<1>1. JobGoesOn(p) /\ \A q \in Processes \ {p} : job'[q] = job[q]
  BY ProceedGoesOn DEF ReviewIInv
<1>2. \A r \in RunIds : runs[r].status = "SUCCEEDED" => runs'[r] = runs[r]
  BY SuccessStays DEF ReviewIInv
<1>3. ReturnedMeans(p)'
  BY <1>1, <1>2 DEF ReviewIInv, ReturnedMeans, JobGoesOn
<1>4. StageMeans(p)'
  BY <1>1, <1>2 DEF ReviewIInv, StageMeans, Stage, JobGoesOn, reviewVars
<1> QED BY <1>1, <1>3, <1>4, QuietInv

LEMMA PlainInv ==
  ASSUME ReviewIInv, ControllerIInv', [LedgerNext]_runs, NEW p \in Processes, PlainRun(p)
  PROVE  ReviewIInv'
<1>1. job'[p].step # "returned" /\ \A q \in Processes \ {p} : job'[q] = job[q]
  <2>1. ASSUME NEW role \in Roles, StartRun(p, role)
        PROVE  job'[p].step # "returned" /\ \A q \in Processes \ {p} : job'[q] = job[q]
    <3>1. role \in RunRoles /\ Launch(p, role)
      BY <2>1, RoleAssumption DEF StartRun
    <3> QED BY <3>1, LaunchMeans
  <2>2. CASE Collect(p)
    BY <2>2 DEF Collect, Idle, ReviewIInv, ControllerIInv, ControllerTypeOK
  <2> QED BY <2>1, <2>2 DEF PlainRun
<1>2. ReturnedMeans(p)' /\ StageMeans(p)' /\ UNCHANGED reviewVars
  BY <1>1 DEF PlainRun, ReturnedMeans, StageMeans, Stage, reviewVars
<1> QED BY <1>1, <1>2, QuietInv

LEMMA ReviewStepInv ==
  ASSUME ReviewIInv, [ReviewNext]_allVars
  PROVE  ReviewIInv'
<1>1. ControllerIInv' /\ [LedgerNext]_runs
  BY ReviewStepControls DEF ReviewIInv
<1>2. ASSUME NEW p \in Processes, NEW excluded \in SUBSET Sessions, BeginReviews(p, excluded)
      PROVE  ReviewIInv'
  BY <1>1, <1>2, BeginInv
<1>3. ASSUME NEW p \in Processes,
             \/ CodeReviewed(p) \/ QaReviewed(p) \/ ReviewsFail(p) \/ PlainRun(p)
             \/ Proceed(p) /\ UNCHANGED reviewVars
             \/ ReviewCrash(p)
      PROVE  ReviewIInv'
  BY <1>1, <1>3, CodeReviewedInv, QaReviewedInv, ReviewEndsInv, PlainInv, ProceedInv
<1>4. CASE ((Operator \/ Midnight) /\ UNCHANGED reviewVars) \/ UNCHANGED allVars
  <2>1. UNCHANGED <<runs, job, review, accepted>>
    BY <1>4 DEF Operator, Pause, Resume, Midnight, allVars, controllerVars, controlVars, reviewVars
  <2> QED BY <1>1, <2>1, EvidenceStays DEF ReviewIInv, ReviewTypeOK, ControllerIInv, ReturnedMeans,
        StageMeans, Stage
<1> QED BY <1>2, <1>3, <1>4, ExclusionAssumption DEF ReviewNext

LEMMA ReviewInitInv == ReviewInit => ReviewIInv
<1> SUFFICES ASSUME ReviewInit PROVE ReviewIInv
  OBVIOUS
<1>1. ControllerIInv /\ ControllerTypeOK
  BY ControllerInitInv DEF ReviewInit, ControllerIInv
<1>2. \A p \in Processes : job[p].step = "idle" /\ review[p].stage = "none"
  BY DEF ReviewInit, ControllerInit, Idle, NoReview
<1>3. ReviewTypeOK
  BY <1>1 DEF ReviewInit, ReviewTypeOK
<1>4. ReviewsAreSeparate
  BY DEF ReviewInit, ReviewsAreSeparate
<1> QED BY <1>1, <1>2, <1>3, <1>4 DEF ReviewIInv, ReturnedMeans, StageMeans, Stage

LEMMA ReviewInvariant == ReviewSpec => []ReviewIInv
<1>1. ReviewIInv /\ [ReviewNext]_allVars => ReviewIInv'
  BY ReviewStepInv
<1> QED BY <1>1, ReviewInitInv, PTL DEF ReviewSpec

(***************************************************************************)
(* Where a coordinator is, and evidence with the identities of two         *)
(* sessions in it.                                                         *)
(***************************************************************************)
THEOREM ReviewTypeCorrect == ReviewSpec => []ReviewTypeOK
<1>1. ReviewIInv => ReviewTypeOK
  BY DEF ReviewIInv
<1> QED BY <1>1, ReviewInvariant, PTL

(***************************************************************************)
(* The reviews a coordinator accepts (review.py, run_required_reviews) are *)
(* two successful runs of two fresh sessions, whatever other coordinators, *)
(* plain runs, crashes and the operator do in between.                     *)
(***************************************************************************)
THEOREM AcceptedReviewsAreSeparate == ReviewSpec => []ReviewsAreSeparate
<1>1. ReviewIInv => ReviewsAreSeparate
  BY DEF ReviewIInv
<1> QED BY <1>1, ReviewInvariant, PTL

(***************************************************************************)
(* Coordinators too stay within the limits of the ledger and leave no      *)
(* reservation behind unless a process died or could not close it.         *)
(***************************************************************************)
THEOREM ReviewsWithinLimits == ReviewSpec => [](WithinLimits /\ NoReservationLeaks)
<1>1. ReviewIInv => WithinLimits /\ NoReservationLeaks
  BY DEF ReviewIInv, ControllerIInv, LedgerIInv, RunningExplained, NoReservationLeaks, Owns, Owners
<1> QED BY <1>1, ReviewInvariant, PTL

(***************************************************************************)
(* A coordinator too reaches the ledger only through reserve and finish.   *)
(***************************************************************************)
THEOREM ReviewsRefineLedger == ReviewSpec => ImplementsLedger
<1>1. ReviewInit => LedgerInit
  BY DEF ReviewInit, ControllerInit
<1>2. ReviewIInv /\ [ReviewNext]_allVars => [LedgerNext]_runs
  BY ReviewStepControls DEF ReviewIInv
<1> QED BY <1>1, <1>2, ReviewInvariant, PTL DEF ReviewSpec, ImplementsLedger, LedgerSpec

(***************************************************************************)
(* So the successful runs behind accepted evidence are never rewritten.    *)
(***************************************************************************)
THEOREM ReviewsFinishedOnce == ReviewSpec => FinishedOnce
<1> QED BY ReviewsRefineLedger, LedgerFinishedOnce, PTL DEF ImplementsLedger

(***************************************************************************)
(* Inside a coordinator a process has a RUNNING row of its own between its *)
(* reservation and its finish, also when the QA review is launched by the  *)
(* code review's return.                                                   *)
(***************************************************************************)
THEOREM ReviewsOwnersHold == ReviewSpec => []OwnersHoldReservations
<1>1. ReviewIInv => OwnersHoldReservations
  BY InvariantOwnsRows DEF ReviewIInv
<1> QED BY <1>1, ReviewInvariant, PTL

LEMMA ReviewSwitchNext ==
  ASSUME ControllerTypeOK, SwitchWatched, [ReviewNext]_allVars
  PROVE  SwitchWatched' /\ PauseKept
<1>1. ASSUME NEW p \in Processes,
             \/ \E excluded \in Exclusions : BeginReviews(p, excluded)
             \/ CodeReviewed(p) \/ QaReviewed(p) \/ ReviewsFail(p) \/ PlainRun(p)
             \/ Proceed(p) /\ UNCHANGED reviewVars
             \/ ReviewCrash(p)
      PROVE  SwitchWatched' /\ PauseKept
  <2>1. \/ \E role \in RunRoles : Launch(p, role)
        \/ Proceed(p) \/ Collect(p) \/ Crash(p)
    BY <1>1, RoleAssumption DEF BeginReviews, CodeReviewed, QaReviewed, ReviewsFail, PlainRun,
       ReviewCrash, StartRun, RunRoles, ReviewRoles
  <2> QED BY <2>1, SwitchWork
<1>2. CASE (Operator \/ Midnight) /\ UNCHANGED reviewVars
  BY <1>2, SwitchEnvironment
<1>3. CASE UNCHANGED allVars
  BY <1>3, SwitchEnvironment DEF allVars
<1> QED BY <1>1, <1>2, <1>3 DEF ReviewNext

(***************************************************************************)
(* A pause that stays on keeps a coordinator from calling a provider for   *)
(* either of its two runs.                                                 *)
(***************************************************************************)
THEOREM ReviewsPauseStops == ReviewSpec => PauseStopsReservedRuns
<1>1. ReviewInit => SwitchWatched
  BY DEF ReviewInit, ControllerInit, SwitchWatched, Idle
<1>2. ReviewIInv => ControllerTypeOK
  BY DEF ReviewIInv, ControllerIInv
<1>3. ASSUME ControllerTypeOK, SwitchWatched, [ReviewNext]_allVars
      PROVE  SwitchWatched' /\ [PauseKept]_controllerVars
  BY <1>3, ReviewSwitchNext
<1>4. ReviewSpec => [][PauseKept]_controllerVars
  BY <1>1, <1>2, <1>3, ReviewInvariant, PTL DEF ReviewSpec
<1> QED BY <1>4 DEF PauseStopsReservedRuns, PauseKept

-----------------------------------------------------------------------------
(* What the reserve is for. *)

ReviewsOn(day) == {r \in StartedOn(day) : runs[r].role \in ReviewRoles}

(***************************************************************************)
(* As long as fewer review and remediation runs than the reserve have been *)
(* started on a day, nothing but the concurrency limit keeps another one   *)
(* out, whatever else was started that day.                                *)
(***************************************************************************)
RoomForReviews ==
    \A day \in Days :
        Cardinality(ReviewsOn(day)) < Reserved /\ Cardinality(Running) < MaxConcurrent
            => \A role \in ReviewRoles : Admissible(role, day)

LEMMA LimitsLeaveRoom == WithinLimits => RoomForReviews
<1> SUFFICES ASSUME WithinLimits, NEW day \in Days, NEW role \in ReviewRoles,
                    Cardinality(ReviewsOn(day)) < Reserved, Cardinality(Running) < MaxConcurrent
             PROVE  Admissible(role, day)
  BY DEF RoomForReviews
<1>1. StartedOn(day) = NonReviewOn(day) \cup ReviewsOn(day)
      /\ NonReviewOn(day) \cap ReviewsOn(day) = {}
  BY DEF NonReviewOn, ReviewsOn
<1>2. IsFiniteSet(ReviewsOn(day)) /\ Cardinality(ReviewsOn(day)) \in Nat
  <2>1. ReviewsOn(day) \subseteq StartedOn(day)
    BY DEF ReviewsOn
  <2> QED BY <2>1, RowSetsFinite, FS_Subset, FS_CardinalityType
<1>3. Cardinality(StartedOn(day)) = Cardinality(NonReviewOn(day)) + Cardinality(ReviewsOn(day))
  <2>1. Cardinality(NonReviewOn(day) \cup ReviewsOn(day)) =
          Cardinality(NonReviewOn(day)) + Cardinality(ReviewsOn(day))
            - Cardinality(NonReviewOn(day) \cap ReviewsOn(day))
    BY <1>2, RowSetsFinite, FS_Union
  <2>2. Cardinality(NonReviewOn(day) \cap ReviewsOn(day)) = 0
    BY <1>1, FS_EmptySet
  <2>3. Cardinality(NonReviewOn(day)) \in Nat
    BY RowSetsFinite
  <2> QED BY <1>1, <1>2, <2>1, <2>2, <2>3
<1>4. Cardinality(NonReviewOn(day)) <= MaxPerDay - Reserved
  BY DEF WithinLimits, ReviewReserve, NonReviewLimit
<1>5. Cardinality(StartedOn(day)) < MaxPerDay
  BY <1>2, <1>3, <1>4, RowSetsFinite, ReserveIsCeiling, LimitAssumption
<1> QED BY <1>5 DEF Admissible

(***************************************************************************)
(* The work of a day can never crowd out the reviews of that day: neither  *)
(* under racing controllers nor under coordinators.                        *)
(***************************************************************************)
THEOREM ReserveIsForReviews == /\ ControllerSpec => []RoomForReviews
                               /\ ReviewSpec => []RoomForReviews
<1>1. ControllerSpec => []RoomForReviews
  BY LimitsLeaveRoom, ControllerWithinLimits, PTL
<1>2. ReviewSpec => []RoomForReviews
  BY LimitsLeaveRoom, ReviewsWithinLimits, PTL
<1> QED BY <1>1, <1>2
=============================================================================
