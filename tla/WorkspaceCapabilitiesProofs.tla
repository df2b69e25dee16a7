---------------------- MODULE WorkspaceCapabilitiesProofs ----------------------
(***************************************************************************)
(* Theorems about WorkspaceCapabilities, for any number of threads: the    *)
(* locks are balanced, nothing runs in a repository after a breach, and    *)
(* both directories implement SoleUse.                                     *)
(***************************************************************************)
EXTENDS WorkspaceCapabilities, TLAPS

\* A lock that nobody owns is not acquired.
Released == \A d \in Directories : owner[d] = NoThread => depth[d] = 0

\* The descriptor is open until the directory is closed, and as long as a
\* thread works in it.
OpenForUse ==
    \A d \in Directories : /\ open[d] = ~closed[d]
                           /\ \A t \in Threads : Working(t, d) => open[d]

Poisons == breached => poisoned

CapabilityIInv == TypeOK /\ Released /\ LocksBalanced /\ OpenForUse /\ Poisons

-----------------------------------------------------------------------------
(* Whose lock it is. *)

\* A thread that is inside a method, or holds the directory, owns the lock.
LEMMA InsideOwns ==
    ASSUME CapabilityIInv, NEW t \in Threads, NEW d \in Directories,
           Working(t, d) \/ (call[t].dir = d /\ call[t].step \in {"locked", "working"})
    PROVE  owner[d] = t /\ \A u \in Threads : Acquired(u, d) > 0 => u = t
  <1>1. \A u \in Threads : Acquired(u, d) \in 0 .. 2
    BY DEF Acquired
  <1>2. Acquired(t, d) > 0
    BY DEF Acquired, Working
  <1>3. owner[d] = t
    BY <1>1, <1>2 DEF CapabilityIInv, LocksBalanced
  <1> QED BY <1>1, <1>3 DEF CapabilityIInv, LocksBalanced

\* So it is the only one that works in it or is about to.
LEMMA OnlyOneWorks ==
    ASSUME CapabilityIInv, NEW t \in Threads, NEW d \in Directories,
           Working(t, d) \/ (call[t].dir = d /\ call[t].step \in {"locked", "working"})
    PROVE  \A u \in Threads \ {t} :
              ~Working(u, d) /\ ~(call[u].dir = d /\ call[u].step \in {"locked", "working"})
  BY InsideOwns

(***************************************************************************)
(* The user of a directory, before and after a step.                       *)
(***************************************************************************)
LEMMA UserIs ==
    ASSUME NEW d
    PROVE  /\ (\A t \in Threads : ~Working(t, d)) => User(d) = NoThread
           /\ \A t \in Threads :
                 Working(t, d) /\ (\A u \in Threads : Working(u, d) => u = t) => User(d) = t
  <1>1. (\A t \in Threads : ~Working(t, d)) => User(d) = NoThread
    BY DEF User
  <1>2. ASSUME NEW t \in Threads, Working(t, d), \A u \in Threads : Working(u, d) => u = t
        PROVE  User(d) = t
    BY <1>2 DEF User
  <1> QED BY <1>1, <1>2

LEMMA UserBecomes ==
    ASSUME NEW d
    PROVE  /\ (\A t \in Threads : ~Working(t, d)') => User(d)' = NoThread
           /\ \A t \in Threads :
                 Working(t, d)' /\ (\A u \in Threads : Working(u, d)' => u = t) => User(d)' = t
  <1>1. (\A t \in Threads : ~Working(t, d)') => User(d)' = NoThread
    BY DEF User
  <1>2. ASSUME NEW t \in Threads, Working(t, d)', \A u \in Threads : Working(u, d)' => u = t
        PROVE  User(d)' = t
    BY <1>2 DEF User
  <1> QED BY <1>1, <1>2

\* If the same threads work in it, it has the same user.
LEMMA UserStays ==
    ASSUME NEW d, \A t \in Threads : Working(t, d)' <=> Working(t, d)
    PROVE  User(d)' = User(d)
  BY DEF User

-----------------------------------------------------------------------------
(* The invariant. *)

LEMMA CapabilityInit == Init => CapabilityIInv
  <1> SUFFICES ASSUME Init PROVE CapabilityIInv
    OBVIOUS
  <1>1. TypeOK
    BY DEF Init, TypeOK, Calls
  <1>2. \A t \in Threads, d \in Directories : Acquired(t, d) = 0 /\ ~Working(t, d)
    BY ThreadAssumption DEF Init, Acquired, Working, Idle, Directories
  <1> QED BY <1>1, <1>2, ThreadAssumption
          DEF CapabilityIInv, Init, Released, LocksBalanced, OpenForUse, Poisons, Directories

\* A method that ends gives back what it has acquired, and no more.
LEMMA ReturnBalances ==
    ASSUME CapabilityIInv, NEW t \in Threads, Return(t), UNCHANGED holder,
           call[t].step \in {"locked", "working"}
    PROVE  /\ owner' \in [Directories -> Threads \cup {NoThread}]
           /\ depth' \in [Directories -> Nat] /\ call' \in [Threads -> Calls]
           /\ Released' /\ LocksBalanced'
           /\ \A u \in Threads, d \in Directories : Working(u, d)' => Working(u, d)
           /\ \A u \in Threads, d \in Directories :
                 call[t].dir # d \/ call[t].step = "locked" => (Working(u, d)' <=> Working(u, d))
  <1>0. PICK d \in Directories : d = call[t].dir
    BY DEF CapabilityIInv, TypeOK, Calls, Idle, Directories
  <1>1. d \in Directories /\ call \in [Threads -> Calls] /\ depth[d] \in Nat
        /\ owner \in [Directories -> Threads \cup {NoThread}] /\ depth \in [Directories -> Nat]
        /\ holder \in [Directories -> Threads \cup {NoThread}]
    BY DEF CapabilityIInv, TypeOK, Calls, Idle, Directories
  <1>2. owner[d] = t
    BY <1>0, <1>1, InsideOwns
  <1>3. depth[d] = Acquired(t, d) /\ depth[d] > 0
    BY <1>1, <1>2 DEF CapabilityIInv, LocksBalanced
  <1>4. call' = [call EXCEPT ![t] = Idle] /\ depth' = [depth EXCEPT ![d] = @ - 1]
        /\ owner' = IF depth[d] = 1 THEN [owner EXCEPT ![d] = NoThread] ELSE owner
    BY <1>0 DEF Return, Unlock
  <1>5. call'[t] = Idle /\ (\A u \in Threads \ {t} : call'[u] = call[u])
        /\ depth'[d] = depth[d] - 1 /\ (\A e \in Directories \ {d} : depth'[e] = depth[e])
        /\ (owner'[d] = IF depth[d] = 1 THEN NoThread ELSE t)
        /\ (\A e \in Directories \ {d} : owner'[e] = owner[e])
    BY <1>1, <1>2, <1>4
  <1>6. /\ Acquired(t, d)' = depth[d] - 1
        /\ \A e \in Directories \ {d} : Acquired(t, e)' = Acquired(t, e)
        /\ \A u \in Threads \ {t}, e \in Directories : Acquired(u, e)' = Acquired(u, e)
    BY <1>0, <1>1, <1>3, <1>5 DEF Acquired, Idle
  <1>7. owner' \in [Directories -> Threads \cup {NoThread}] /\ depth' \in [Directories -> Nat]
        /\ call' \in [Threads -> Calls]
    BY <1>1, <1>3, <1>4 DEF Calls
  <1>8. Released'
    BY <1>2, <1>5, ThreadAssumption DEF CapabilityIInv, Released
  <1>9. LocksBalanced'
    <2>1. ASSUME NEW e \in Directories, NEW u \in Threads
          PROVE  IF owner'[e] = u THEN depth'[e] = Acquired(u, e)' /\ depth'[e] > 0
                                  ELSE Acquired(u, e)' = 0
      <3>1. CASE e # d
        BY <1>5, <1>6, <3>1 DEF CapabilityIInv, LocksBalanced
      <3>2. CASE e = d /\ u # t
        BY <1>1, <1>2, <1>5, <1>6, <3>2, ThreadAssumption DEF CapabilityIInv, LocksBalanced
      <3>3. CASE e = d /\ u = t
        BY <1>1, <1>3, <1>5, <1>6, <3>3, ThreadAssumption
      <3> QED BY <3>1, <3>2, <3>3
    <2> QED BY <2>1 DEF LocksBalanced
  <1>10. \A u \in Threads, e \in Directories :
            /\ Working(u, e)' => Working(u, e)
            /\ d # e \/ call[t].step = "locked" => (Working(u, e)' <=> Working(u, e))
    BY <1>0, <1>1, <1>5 DEF Working, Idle
  <1> QED BY <1>0, <1>7, <1>8, <1>9, <1>10

-----------------------------------------------------------------------------
(* The steps. *)

(***************************************************************************)
(* What a step is to the use of a directory: nothing, or a step of SoleUse.*)
(***************************************************************************)
UseStep(d) ==
    \/ User(d)' = User(d) /\ open'[d] = open[d]
    \/ \E t \in Threads : /\ User(d) = NoThread /\ open[d]
                          /\ User(d)' = t /\ open'[d] = open[d]
    \/ \E t \in Threads : User(d) = t /\ User(d)' = NoThread /\ open'[d] = open[d]
    \/ User(d) = NoThread /\ open[d] /\ open'[d] = FALSE /\ User(d)' = NoThread

StaysOut ==
    breached => \A t \in Threads : Working(t, "repository")' => Working(t, "repository")

Sound == CapabilityIInv' /\ StaysOut /\ \A d \in Directories : UseStep(d)

\* Steps that only change the calls, and what other programs change.
LEMMA QuietSound ==
    ASSUME CapabilityIInv, UNCHANGED <<lockVars, stateVars, breached>>,
           call' \in [Threads -> Calls], intact' \in [Directories -> BOOLEAN],
           \A t \in Threads : \/ call'[t] = call[t]
                             \/ /\ call'[t].step \notin {"locked", "working"}
                                /\ call[t].step \notin {"locked", "working"}
    PROVE  Sound
  <1>1. UNCHANGED <<owner, depth, holder, closed, cleanupFailed, poisoned, open, breached>>
    BY DEF lockVars, stateVars
  <1>2. \A t \in Threads, d \in Directories : /\ Working(t, d)' <=> Working(t, d)
                                             /\ Acquired(t, d)' = Acquired(t, d)
    BY <1>1 DEF Working, Acquired
  <1>3. TypeOK' /\ Released' /\ Poisons'
    BY <1>1 DEF CapabilityIInv, TypeOK, Released, Poisons
  <1>4. LocksBalanced' /\ OpenForUse'
    BY <1>1, <1>2 DEF CapabilityIInv, LocksBalanced, OpenForUse
  <1>5. \A d \in Directories : UseStep(d)
    BY <1>1, <1>2, UserStays DEF UseStep
  <1>6. StaysOut
    BY <1>2 DEF StaysOut, Directories
  <1> QED BY <1>3, <1>4, <1>5, <1>6 DEF Sound, CapabilityIInv

LEMMA AcquireSound ==
    ASSUME CapabilityIInv, NEW t \in Threads, Acquire(t)
    PROVE  Sound
  <1>0. PICK d \in Directories : d = call[t].dir
    BY DEF CapabilityIInv, TypeOK, Calls, Idle, Directories
  <1>1. call \in [Threads -> Calls] /\ depth[d] \in Nat /\ call[t] \in Calls
        /\ owner \in [Directories -> Threads \cup {NoThread}] /\ depth \in [Directories -> Nat]
        /\ holder \in [Directories -> Threads \cup {NoThread}]
    BY DEF CapabilityIInv, TypeOK
  <1>2. /\ call[t].step = "waiting" /\ owner[d] \in {t, NoThread}
        /\ owner' = [owner EXCEPT ![d] = t] /\ depth' = [depth EXCEPT ![d] = @ + 1]
        /\ call' = [call EXCEPT ![t] = [call[t] EXCEPT !.step = "locked"]]
        /\ UNCHANGED <<holder, closed, cleanupFailed, poisoned, open, intact, breached>>
    BY <1>0, <1>1 DEF Acquire, stateVars
  <1>3. [call[t] EXCEPT !.step = "locked"] \in Calls
    BY <1>1, <1>2 DEF Calls, Idle
  <1>4. /\ call' \in [Threads -> Calls] /\ \A u \in Threads \ {t} : call'[u] = call[u]
        /\ call'[t] = [call[t] EXCEPT !.step = "locked"]
    BY <1>1, <1>2, <1>3
  <1>5. call'[t].step = "locked" /\ call'[t].dir = d
    BY <1>0, <1>1, <1>2, <1>4 DEF Calls, Idle
  <1>6. owner'[d] = t /\ depth'[d] = depth[d] + 1
        /\ \A e \in Directories \ {d} : owner'[e] = owner[e] /\ depth'[e] = depth[e]
    BY <1>1, <1>2
  <1>7. Acquired(t, d) = depth[d] /\ \A u \in Threads \ {t} : Acquired(u, d) = 0
    <2>1. \A u \in Threads : Acquired(u, d) \in 0 .. 2
      BY DEF Acquired
    <2>2. CASE owner[d] = t
      BY <2>2 DEF CapabilityIInv, LocksBalanced
    <2>3. CASE owner[d] = NoThread
      BY <2>3, ThreadAssumption DEF CapabilityIInv, LocksBalanced, Released
    <2> QED BY <1>2, <2>2, <2>3
  <1>8. /\ Acquired(t, d)' = Acquired(t, d) + 1
        /\ \A e \in Directories \ {d} : Acquired(t, e)' = Acquired(t, e)
        /\ \A u \in Threads \ {t}, e \in Directories : Acquired(u, e)' = Acquired(u, e)
    BY <1>0, <1>1, <1>2, <1>4, <1>5 DEF Acquired
  <1>9. \A u \in Threads, e \in Directories : Working(u, e)' <=> Working(u, e)
    BY <1>2, <1>4, <1>5 DEF Working
  <1>10. TypeOK'
    BY <1>1, <1>2, <1>4 DEF CapabilityIInv, TypeOK
  <1>11. Released' /\ Poisons' /\ OpenForUse'
    BY <1>2, <1>6, <1>9, ThreadAssumption DEF CapabilityIInv, Released, Poisons, OpenForUse
  <1>12. ASSUME NEW e \in Directories, NEW u \in Threads
         PROVE  IF owner'[e] = u THEN depth'[e] = Acquired(u, e)' /\ depth'[e] > 0
                                 ELSE Acquired(u, e)' = 0
    <2>1. CASE e # d
      BY <1>6, <1>8, <2>1 DEF CapabilityIInv, LocksBalanced
    <2>2. CASE e = d /\ u = t
      BY <1>1, <1>6, <1>7, <1>8, <2>2
    <2>3. CASE e = d /\ u # t
      BY <1>6, <1>7, <1>8, <2>3
    <2> QED BY <2>1, <2>2, <2>3
  <1>13. \A e \in Directories : UseStep(e)
    BY <1>2, <1>9, UserStays DEF UseStep
  <1>14. StaysOut
    BY <1>9 DEF StaysOut, Directories
  <1>15. LocksBalanced'
    BY <1>12 DEF LocksBalanced
  <1> QED BY <1>10, <1>11, <1>13, <1>14, <1>15 DEF Sound, CapabilityIInv

\* Methods that only end: the refused ones, verify, run and a second close.
LEMMA ReturnSound ==
    ASSUME CapabilityIInv, NEW t \in Threads, Return(t), UNCHANGED <<stateVars, intact, breached>>,
           call[t].step \in {"locked", "working"}
    PROVE  Sound
  <1>1. UNCHANGED <<holder, closed, cleanupFailed, poisoned, open, intact, breached>>
    BY DEF stateVars
  <1>2. /\ owner' \in [Directories -> Threads \cup {NoThread}]
        /\ depth' \in [Directories -> Nat] /\ call' \in [Threads -> Calls]
        /\ Released' /\ LocksBalanced'
        /\ \A u \in Threads, d \in Directories : Working(u, d)' => Working(u, d)
        /\ \A u \in Threads, d \in Directories :
              call[t].dir # d \/ call[t].step = "locked" => (Working(u, d)' <=> Working(u, d))
    BY <1>1, ReturnBalances
  <1>3. TypeOK' /\ Poisons' /\ OpenForUse'
    BY <1>1, <1>2 DEF CapabilityIInv, TypeOK, Poisons, OpenForUse
  <1>4. StaysOut
    BY <1>2 DEF StaysOut, Directories
  <1>5. ASSUME NEW d \in Directories PROVE UseStep(d)
    <2>1. CASE \A u \in Threads : Working(u, d)' <=> Working(u, d)
      BY <1>1, <2>1, UserStays DEF UseStep
    <2>2. CASE \E u \in Threads : Working(u, d) /\ ~Working(u, d)'
      <3>1. PICK u \in Threads : Working(u, d) /\ ~Working(u, d)'
        BY <2>2
      <3>2. \A v \in Threads : Working(v, d) => v = u
        BY <3>1, OnlyOneWorks
      <3>3. User(d) = u
        BY <3>1, <3>2, UserIs
      <3>4. \A v \in Threads : ~Working(v, d)'
        BY <1>2, <3>1, <3>2
      <3>5. User(d)' = NoThread
        BY <3>4, UserBecomes
      <3> QED BY <1>1, <3>3, <3>5 DEF UseStep
    <2> QED BY <1>2, <2>1, <2>2
  <1> QED BY <1>2, <1>3, <1>4, <1>5 DEF Sound, CapabilityIInv

\* A thread that was not working in d begins to, or goes on.
LEMMA TakeStep ==
    ASSUME CapabilityIInv, NEW t \in Threads, NEW d \in Directories,
           call[t].dir = d, call[t].step = "locked",
           Verifies(d), UNCHANGED open, Working(t, d)',
           \A u \in Threads, e \in Directories :
              u # t \/ e # d => (Working(u, e)' <=> Working(u, e))
    PROVE  StaysOut /\ \A e \in Directories : UseStep(e)
  <1>1. \A u \in Threads \ {t} : ~Working(u, d) /\ ~Working(u, d)'
    BY OnlyOneWorks
  <1>2. User(d)' = t
    BY <1>1, UserBecomes
  <1>3. User(d) \in {NoThread, t}
    BY <1>1, UserIs
  <1>4. open[d]
    BY DEF CapabilityIInv, OpenForUse, Verifies, TypeOK
  <1>5. UseStep(d)
    BY <1>2, <1>3, <1>4 DEF UseStep
  <1>6. \A e \in Directories \ {d} : UseStep(e)
    BY UserStays DEF UseStep
  <1>7. StaysOut
    BY DEF StaysOut, CapabilityIInv, Poisons, Verifies, Directories
  <1> QED BY <1>5, <1>6, <1>7

LEMMA HoldSound ==
    ASSUME CapabilityIInv, NEW t \in Threads, Hold(t)
    PROVE  Sound
  <1>0. PICK d \in Directories : d = call[t].dir
    BY DEF CapabilityIInv, TypeOK, Calls, Idle, Directories
  <1>1. call \in [Threads -> Calls] /\ holder \in [Directories -> Threads \cup {NoThread}]
    BY DEF CapabilityIInv, TypeOK
  <1>2. /\ call[t].step = "locked" /\ holder[d] = NoThread /\ Verifies(d)
        /\ holder' = [holder EXCEPT ![d] = t] /\ call' = [call EXCEPT ![t] = Idle]
        /\ UNCHANGED <<owner, depth, closed, cleanupFailed, poisoned, open, intact, breached>>
    BY <1>0 DEF Hold, In, lockVars
  <1>3. /\ holder'[d] = t /\ \A e \in Directories \ {d} : holder'[e] = holder[e]
        /\ call'[t] = Idle /\ \A u \in Threads \ {t} : call'[u] = call[u]
    BY <1>1, <1>2
  <1>4. \A u \in Threads, e \in Directories : Acquired(u, e)' = Acquired(u, e)
    BY <1>0, <1>2, <1>3, ThreadAssumption DEF Acquired, Idle
  <1>5. /\ Working(t, d)'
        /\ \A u \in Threads, e \in Directories :
              u # t \/ e # d => (Working(u, e)' <=> Working(u, e))
    BY <1>0, <1>2, <1>3, ThreadAssumption DEF Working, Idle
  <1>6. StaysOut /\ \A e \in Directories : UseStep(e)
    BY <1>0, <1>2, <1>5, TakeStep
  <1>7. TypeOK' /\ Released' /\ Poisons'
    BY <1>1, <1>2 DEF CapabilityIInv, TypeOK, Released, Poisons, Calls
  <1>8. LocksBalanced'
    BY <1>2, <1>4 DEF CapabilityIInv, LocksBalanced
  <1>9. OpenForUse'
    <2>1. open[d] = ~closed[d] /\ ~closed[d]
      BY <1>2 DEF CapabilityIInv, OpenForUse, Verifies
    <2> QED BY <1>2, <1>5, <2>1 DEF CapabilityIInv, OpenForUse
  <1> QED BY <1>6, <1>7, <1>8, <1>9 DEF Sound, CapabilityIInv

LEMMA StartSound ==
    ASSUME CapabilityIInv, NEW t \in Threads, Start(t)
    PROVE  Sound
  <1>0. PICK d \in Directories : d = call[t].dir
    BY DEF CapabilityIInv, TypeOK, Calls, Idle, Directories
  <1>1. call \in [Threads -> Calls] /\ call[t] \in Calls
    BY DEF CapabilityIInv, TypeOK
  <1>2. /\ call[t].step = "locked" /\ Verifies(d)
        /\ call' = [call EXCEPT ![t] = [call[t] EXCEPT !.step = "working"]]
        /\ UNCHANGED <<owner, depth, holder, closed, cleanupFailed, poisoned, open, intact, breached>>
    BY <1>0, <1>1 DEF Start, lockVars, stateVars
  <1>3. [call[t] EXCEPT !.step = "working"] \in Calls
    BY <1>1, <1>2 DEF Calls, Idle
  <1>4. call' \in [Threads -> Calls] /\ \A u \in Threads \ {t} : call'[u] = call[u]
    BY <1>1, <1>2, <1>3
  <1>5. call'[t].step = "working" /\ call'[t].dir = d
    BY <1>0, <1>1, <1>2 DEF Calls, Idle
  <1>6. \A u \in Threads, e \in Directories : Acquired(u, e)' = Acquired(u, e)
    BY <1>0, <1>2, <1>4, <1>5 DEF Acquired
  <1>7. /\ Working(t, d)'
        /\ \A u \in Threads, e \in Directories :
              u # t \/ e # d => (Working(u, e)' <=> Working(u, e))
    BY <1>0, <1>2, <1>4, <1>5 DEF Working
  <1>8. StaysOut /\ \A e \in Directories : UseStep(e)
    BY <1>0, <1>2, <1>7, TakeStep
  <1>9. TypeOK' /\ Released' /\ Poisons'
    BY <1>2, <1>4 DEF CapabilityIInv, TypeOK, Released, Poisons
  <1>10. LocksBalanced'
    BY <1>2, <1>6 DEF CapabilityIInv, LocksBalanced
  <1>11. OpenForUse'
    <2>1. open[d] = ~closed[d] /\ ~closed[d]
      BY <1>2 DEF CapabilityIInv, OpenForUse, Verifies
    <2> QED BY <1>2, <1>7, <2>1 DEF CapabilityIInv, OpenForUse
  <1> QED BY <1>8, <1>9, <1>10, <1>11 DEF Sound, CapabilityIInv

LEMMA LeaveSound ==
    ASSUME CapabilityIInv, NEW t \in Threads, NEW d \in Directories, Leave(t, d)
    PROVE  Sound
  <1>1. /\ owner \in [Directories -> Threads \cup {NoThread}] /\ depth \in [Directories -> Nat]
        /\ holder \in [Directories -> Threads \cup {NoThread}] /\ holder[d] = t
    BY DEF Leave, CapabilityIInv, TypeOK
  <1>2. Working(t, d)
    BY <1>1 DEF Working
  <1>3. owner[d] = t
    BY <1>2, InsideOwns
  <1>4. Acquired(t, d) = 1 /\ depth[d] = 1
    BY <1>1, <1>3 DEF Leave, Acquired, Idle, CapabilityIInv, LocksBalanced
  <1>5. /\ holder' = [holder EXCEPT ![d] = NoThread] /\ owner' = [owner EXCEPT ![d] = NoThread]
        /\ depth' = [depth EXCEPT ![d] = 0] /\ call[t] = Idle
        /\ poisoned' = (poisoned \/ (d = "repository" /\ ~Verifies(d)))
        /\ breached' = (breached \/ (d = "repository" /\ ~intact[d]))
        /\ UNCHANGED <<closed, cleanupFailed, open, intact, call>>
    BY <1>1, <1>4 DEF Leave, Unlock
  <1>6. /\ holder'[d] = NoThread /\ owner'[d] = NoThread /\ depth'[d] = 0
        /\ \A e \in Directories \ {d} : /\ holder'[e] = holder[e] /\ owner'[e] = owner[e]
                                        /\ depth'[e] = depth[e]
    BY <1>1, <1>5
  <1>7. /\ Acquired(t, d)' = 0
        /\ \A u \in Threads, e \in Directories :
              u # t \/ e # d => Acquired(u, e)' = Acquired(u, e)
    BY <1>1, <1>5, <1>6, ThreadAssumption DEF Acquired, Idle
  <1>8. /\ ~Working(t, d)'
        /\ \A u \in Threads, e \in Directories :
              u # t \/ e # d => (Working(u, e)' <=> Working(u, e))
    BY <1>1, <1>5, <1>6, ThreadAssumption DEF Working, Idle
  <1>9. TypeOK'
    BY <1>1, <1>5 DEF CapabilityIInv, TypeOK
  <1>10. Released' /\ OpenForUse'
    BY <1>5, <1>6, <1>8 DEF CapabilityIInv, Released, OpenForUse
  <1>11. Poisons'
    BY <1>5 DEF CapabilityIInv, Poisons, Verifies
  <1>12. LocksBalanced'
    <2>1. ASSUME NEW e \in Directories, NEW u \in Threads
          PROVE  IF owner'[e] = u THEN depth'[e] = Acquired(u, e)' /\ depth'[e] > 0
                                  ELSE Acquired(u, e)' = 0
      <3>1. CASE e # d
        BY <1>6, <1>7, <3>1 DEF CapabilityIInv, LocksBalanced
      <3>2. CASE e = d /\ u = t
        BY <1>6, <1>7, <3>2, ThreadAssumption
      <3>3. CASE e = d /\ u # t
        BY <1>3, <1>6, <1>7, <3>3, ThreadAssumption DEF CapabilityIInv, LocksBalanced
      <3> QED BY <3>1, <3>2, <3>3
    <2> QED BY <2>1 DEF LocksBalanced
  <1>13. UseStep(d)
    <2>1. \A u \in Threads \ {t} : ~Working(u, d)
      BY <1>2, OnlyOneWorks
    <2>2. User(d) = t /\ User(d)' = NoThread
      BY <1>2, <1>8, <2>1, UserIs, UserBecomes
    <2> QED BY <1>5, <2>2 DEF UseStep
  <1>14. \A e \in Directories \ {d} : UseStep(e)
    BY <1>5, <1>8, UserStays DEF UseStep
  <1>15. StaysOut
    BY <1>8 DEF StaysOut, Directories
  <1> QED BY <1>9, <1>10, <1>11, <1>12, <1>13, <1>14, <1>15 DEF Sound, CapabilityIInv

LEMMA CloseSound ==
    ASSUME CapabilityIInv, NEW t \in Threads, CloseOnce(t)
    PROVE  Sound
  <1>0. PICK d \in Directories : d = call[t].dir
    BY DEF CapabilityIInv, TypeOK, Calls, Idle, Directories
  <1>1. /\ call[t].step = "locked" /\ holder[d] # t /\ ~closed[d] /\ Return(t)
        /\ closed' = [closed EXCEPT ![d] = TRUE] /\ open' = [open EXCEPT ![d] = FALSE]
        /\ \E failed \in BOOLEAN : cleanupFailed' = [cleanupFailed EXCEPT ![d] = failed]
        /\ UNCHANGED <<holder, poisoned, intact, breached>>
    BY <1>0 DEF CloseOnce, In
  <1>2. /\ owner' \in [Directories -> Threads \cup {NoThread}]
        /\ depth' \in [Directories -> Nat] /\ call' \in [Threads -> Calls]
        /\ Released' /\ LocksBalanced'
        /\ \A u \in Threads, e \in Directories : Working(u, e)' <=> Working(u, e)
    BY <1>1, ReturnBalances
  <1>3. \A u \in Threads : ~Working(u, d)
    <2>1. ~Working(t, d)
      BY <1>0, <1>1 DEF Working
    <2> QED BY <1>0, <1>1, <2>1, OnlyOneWorks
  <1>4. TypeOK' /\ Poisons'
    BY <1>1, <1>2 DEF CapabilityIInv, TypeOK, Poisons
  <1>5. closed'[d] = TRUE /\ open'[d] = FALSE
        /\ \A e \in Directories \ {d} : closed'[e] = closed[e] /\ open'[e] = open[e]
    BY <1>1 DEF CapabilityIInv, TypeOK
  <1>6. OpenForUse'
    BY <1>2, <1>3, <1>5 DEF CapabilityIInv, OpenForUse
  <1>7. UseStep(d)
    <2>1. User(d) = NoThread /\ User(d)' = NoThread
      BY <1>2, <1>3, UserIs, UserBecomes
    <2>2. open[d]
      BY <1>1 DEF CapabilityIInv, OpenForUse
    <2> QED BY <1>5, <2>1, <2>2 DEF UseStep
  <1>8. \A e \in Directories \ {d} : UseStep(e)
    BY <1>2, <1>5, UserStays DEF UseStep
  <1>9. StaysOut
    BY <1>2 DEF StaysOut, Directories
  <1> QED BY <1>2, <1>4, <1>6, <1>7, <1>8, <1>9 DEF Sound, CapabilityIInv

LEMMA ProceedSound ==
    ASSUME CapabilityIInv, NEW t \in Threads, Proceed(t)
    PROVE  Sound
  <1>1. CASE Hold(t)
    BY <1>1, HoldSound
  <1>2. CASE Start(t)
    BY <1>2, StartSound
  <1>3. CASE CloseOnce(t)
    BY <1>3, CloseSound
  <1>4. CASE RefuseHold(t) \/ Verify(t) \/ RefuseStart(t) \/ Finish(t) \/ RefuseClose(t) \/ CloseAgain(t)
    <2>1. /\ Return(t) /\ UNCHANGED <<stateVars, intact, breached>>
          /\ call[t].step \in {"locked", "working"}
      BY <1>4 DEF RefuseHold, Verify, RefuseStart, Finish, RefuseClose, CloseAgain, In
    <2> QED BY <2>1, ReturnSound
  <1> QED BY <1>1, <1>2, <1>3, <1>4 DEF Proceed

LEMMA StepSound ==
    ASSUME CapabilityIInv, [Next]_vars
    PROVE  Sound
  <1>0. call \in [Threads -> Calls] /\ intact \in [Directories -> BOOLEAN]
    BY DEF CapabilityIInv, TypeOK
  <1>1. ASSUME NEW t \in Threads, NEW method \in Methods, NEW d \in Directories, Begin(t, method, d)
        PROVE  Sound
    <2>1. /\ call' = [call EXCEPT ![t] = [method |-> method, dir |-> d, step |-> "waiting"]]
          /\ call[t] = Idle
          /\ UNCHANGED <<lockVars, stateVars, breached, intact>>
      BY <1>1 DEF Begin
    <2>2. [method |-> method, dir |-> d, step |-> "waiting"] \in Calls
      BY DEF Calls
    <2>3. call' \in [Threads -> Calls]
          /\ call'[t].step = "waiting" /\ \A u \in Threads \ {t} : call'[u] = call[u]
      BY <1>0, <2>1, <2>2
    <2>4. call[t].step = "idle"
      BY <2>1 DEF Idle
    <2>5. intact' \in [Directories -> BOOLEAN] /\ UNCHANGED <<lockVars, stateVars, breached>>
      BY <1>0, <2>1
    <2> QED BY <2>3, <2>4, <2>5, QuietSound
  <1>2. ASSUME NEW d \in Directories, Disturb(d) PROVE Sound
    <2>1. intact' \in [Directories -> BOOLEAN] /\ call' = call /\ UNCHANGED <<lockVars, stateVars, breached>>
      BY <1>0, <1>2 DEF Disturb
    <2> QED BY <1>0, <2>1, QuietSound
  <1>3. CASE UNCHANGED vars
    BY <1>0, <1>3, QuietSound DEF vars
  <1> QED BY <1>1, <1>2, <1>3, AcquireSound, ProceedSound, LeaveSound DEF Next

\* The invariant: balanced locks, descriptors open while used, poison kept.
THEOREM CapabilityInvariant == Spec => []CapabilityIInv
  <1>1. CapabilityIInv /\ [Next]_vars => CapabilityIInv'
    BY StepSound DEF Sound
  <1> QED BY <1>1, CapabilityInit, PTL DEF Spec

-----------------------------------------------------------------------------
(* The theorems. *)

\* The locks, flags and calls keep their types.
THEOREM CapabilityTypeCorrect == Spec => []TypeOK
  <1>1. CapabilityIInv => TypeOK
    BY DEF CapabilityIInv
  <1> QED BY <1>1, CapabilityInvariant, PTL

\* Every way out of every method gives back the locks it acquired.
THEOREM LocksAreBalanced == Spec => []LocksBalanced
  <1>1. CapabilityIInv => LocksBalanced
    BY DEF CapabilityIInv
  <1> QED BY <1>1, CapabilityInvariant, PTL

\* No thread begins to work in the repository after a breach.
THEOREM BreachIsFinal == Spec => NothingAfterBreach
  <1>1. CapabilityIInv /\ [Next]_vars =>
           [breached => \A t \in Threads :
               Working(t, "repository")' => Working(t, "repository")]_vars
    BY StepSound DEF Sound, StaysOut
  <1> QED BY <1>1, CapabilityInvariant, PTL DEF Spec, NothingAfterBreach

(***************************************************************************)
(* The workspace and the repository are each used by one thread at a time, *)
(* stay open for as long, and are not used after they are closed: the      *)
(* locks and holds implement SoleUse.                                      *)
(***************************************************************************)
THEOREM CapabilitiesRefineSoleUse == Spec => UsedAlone
  <1>1. Init => Workspace!Init /\ Repository!Init
    <2> SUFFICES ASSUME Init PROVE Workspace!Init /\ Repository!Init
      OBVIOUS
    <2>1. \A t \in Threads, d \in Directories : ~Working(t, d)
      BY ThreadAssumption DEF Init, Working, Idle
    <2>2. \A d \in Directories : User(d) = NoThread
      BY <2>1, UserIs
    <2> QED BY <2>2 DEF Init, Workspace!Init, Repository!Init, Directories
  <1>2. CapabilityIInv /\ [Next]_vars =>
           /\ [Workspace!Next]_<<User("workspace"), open["workspace"]>>
           /\ [Repository!Next]_<<User("repository"), open["repository"]>>
    <2> SUFFICES ASSUME CapabilityIInv, [Next]_vars
                 PROVE  /\ [Workspace!Next]_<<User("workspace"), open["workspace"]>>
                        /\ [Repository!Next]_<<User("repository"), open["repository"]>>
      OBVIOUS
    <2>1. UseStep("workspace") /\ UseStep("repository")
      BY StepSound DEF Sound, Directories
    <2>2. [Workspace!Next]_<<User("workspace"), open["workspace"]>>
      BY <2>1 DEF UseStep, Workspace!Next, Workspace!Take, Workspace!Leave, Workspace!Retire
    <2>3. [Repository!Next]_<<User("repository"), open["repository"]>>
      BY <2>1 DEF UseStep, Repository!Next, Repository!Take, Repository!Leave, Repository!Retire
    <2> QED BY <2>2, <2>3
  <1> QED BY <1>1, <1>2, CapabilityInvariant, PTL
          DEF Spec, UsedAlone, Workspace!Spec, Repository!Spec

-----------------------------------------------------------------------------
(* No deadlock.  Liveness stays with TLC, but that there is always a thread *)
(* which can make a step needs no fairness.                                *)

\* The lock order of the callers, while a thread waits for the workspace.
InOrder ==
    \A t \in Threads :
        call[t].step = "waiting" /\ call[t].dir = "workspace" => owner["repository"] # t

(***************************************************************************)
(* t is not blocked: inside a method every branch ends in a step of        *)
(* Proceed; a lock that is free, or its own, it can acquire; and between   *)
(* two calls the innermost of its blocks can end.                          *)
(***************************************************************************)
CanGoOn(t) ==
    \/ call[t].step \in {"locked", "working"}
    \/ call[t].step = "waiting" /\ owner[call[t].dir] \in {t, NoThread}
    \/ /\ call[t] = Idle
       /\ \E d \in Directories :
             holder[d] = t /\ (d = "workspace" => holder["repository"] # t)

\* Every thread that waits for a lock waits for one that can go on, or for
\* one that itself waits only for such a thread.
NoDeadlock ==
    \A t \in Threads :
        call[t].step = "waiting" =>
            \/ CanGoOn(t)
            \/ LET first == owner[call[t].dir]
               IN  /\ first \in Threads
                   /\ \/ CanGoOn(first)
                      \/ LET second == owner[call[first].dir]
                         IN  second \in Threads /\ CanGoOn(second)

LEMMA OrderInit == Init => InOrder
  BY DEF Init, InOrder, Idle

LEMMA OrderStep == CapabilityIInv /\ InOrder /\ [Next]_vars => InOrder'
  <1> SUFFICES ASSUME CapabilityIInv, InOrder, [Next]_vars PROVE InOrder'
    OBVIOUS
  <1>0. /\ call \in [Threads -> Calls] /\ "repository" \in Directories
        /\ owner \in [Directories -> Threads \cup {NoThread}]
    BY DEF CapabilityIInv, TypeOK, Directories
  <1>1. ASSUME NEW t \in Threads, NEW method \in Methods, NEW d \in Directories, Begin(t, method, d)
        PROVE  InOrder'
    <2>1. /\ owner' = owner /\ (d = "workspace" => owner["repository"] # t)
          /\ call'[t].dir = d /\ \A u \in Threads \ {t} : call'[u] = call[u]
      BY <1>0, <1>1 DEF Begin, lockVars
    <2> QED BY <2>1 DEF InOrder
  <1>2. ASSUME NEW t \in Threads, Acquire(t) PROVE InOrder'
    <2>1. /\ call'[t].step = "locked" /\ \A u \in Threads \ {t} : call'[u] = call[u]
          /\ \A u \in Threads \ {t} : owner'["repository"] = u => owner["repository"] = u
      BY <1>0, <1>2 DEF Acquire, Calls, Idle
    <2> QED BY <2>1 DEF InOrder
  <1>3. ASSUME NEW t \in Threads, NEW d, Unlock(d),
               call' = call \/ call' = [call EXCEPT ![t] = Idle]
        PROVE  InOrder'
    <2>1. \A u \in Threads : call'[u] = call[u] \/ call'[u].step = "idle"
      BY <1>0, <1>3 DEF Idle
    <2>2. \A u \in Threads : owner'["repository"] = u => owner["repository"] = u
      BY <1>0, <1>3, ThreadAssumption DEF Unlock
    <2> QED BY <2>1, <2>2 DEF InOrder
  <1>4. ASSUME NEW t \in Threads, Hold(t) \/ Start(t) PROVE InOrder'
    <2>1. owner' = owner
      BY <1>4 DEF Hold, Start, lockVars
    <2>2. \A u \in Threads : call'[u] = call[u] \/ call'[u].step \in {"idle", "working"}
      BY <1>0, <1>4 DEF Hold, Start, Idle, Calls
    <2> QED BY <2>1, <2>2 DEF InOrder
  <1>5. ASSUME NEW t \in Threads, Proceed(t) PROVE InOrder'
    <2>1. CASE Hold(t) \/ Start(t)
      BY <1>4, <2>1
    <2>2. CASE Return(t)
      BY <1>3, <2>2 DEF Return
    <2> QED BY <1>5, <2>1, <2>2 DEF Proceed, RefuseHold, Verify, RefuseStart, Finish, RefuseClose,
                                   CloseOnce, CloseAgain
  <1>6. ASSUME NEW t \in Threads, NEW d \in Directories, Leave(t, d) PROVE InOrder'
    BY <1>3, <1>6 DEF Leave
  <1>7. CASE (\E d \in Directories : Disturb(d)) \/ UNCHANGED vars
    BY <1>7 DEF Disturb, InOrder, lockVars, vars
  <1> QED BY <1>1, <1>2, <1>5, <1>6, <1>7 DEF Next

\* Who owns the lock of a directory and is not inside a method waits for the
\* repository, or can end a block.
LEMMA OwnerGoesOn ==
    ASSUME CapabilityIInv, InOrder, NEW d \in Directories, owner[d] # NoThread
    PROVE  /\ owner[d] \in Threads
           /\ \/ CanGoOn(owner[d])
              \/ /\ d = "workspace"
                 /\ call[owner[d]].step = "waiting" /\ call[owner[d]].dir = "repository"
                 /\ owner["repository"] \notin {owner[d], NoThread}
  <1> DEFINE u == owner[d]
  <1>1. /\ u \in Threads /\ call[u] \in Calls
        /\ \A e \in Directories : owner[e] \in Threads \cup {NoThread}
    BY DEF CapabilityIInv, TypeOK
  <1>2. Acquired(u, d) > 0
    BY <1>1 DEF CapabilityIInv, LocksBalanced
  <1>3. CASE call[u].step \in {"locked", "working"}
    BY <1>1, <1>3 DEF CanGoOn
  <1>4. CASE call[u].step \notin {"locked", "working"}
    <2>1. holder[d] = u
      BY <1>2, <1>4 DEF Acquired
    <2>2. CASE call[u] = Idle
      BY <1>1, <2>1, <2>2 DEF CanGoOn, Directories
    <2>3. CASE call[u].step = "waiting" /\ call[u].dir = d
      BY <1>1, <2>3 DEF CanGoOn
    <2>4. CASE call[u].step = "waiting" /\ call[u].dir # d
      <3>1. call[u].dir = "repository" /\ d = "workspace"
        BY <1>1, <2>4 DEF InOrder, Calls, Directories, Idle
      <3> QED BY <1>1, <2>4, <3>1 DEF CanGoOn
    <2> QED BY <1>1, <1>4, <2>2, <2>3, <2>4 DEF Calls, Idle
  <1> QED BY <1>3, <1>4

(***************************************************************************)
(* With the callers' lock order there is no circle of threads that wait    *)
(* for each other, however many there are: behind every thread that waits  *)
(* is one, at most two locks away, that can go on.                         *)
(***************************************************************************)
THEOREM CapabilitiesNeverDeadlock == Spec => []NoDeadlock
  <1>1. CapabilityIInv /\ InOrder => NoDeadlock
    <2> SUFFICES ASSUME CapabilityIInv, InOrder, NEW t \in Threads, call[t].step = "waiting",
                        ~CanGoOn(t)
                 PROVE  LET first == owner[call[t].dir]
                        IN  /\ first \in Threads
                            /\ \/ CanGoOn(first)
                               \/ LET second == owner[call[first].dir]
                                  IN  second \in Threads /\ CanGoOn(second)
      BY DEF NoDeadlock
    <2> DEFINE first == owner[call[t].dir]
    <2>1. call[t].dir \in Directories /\ first # NoThread /\ "repository" \in Directories
      BY DEF CapabilityIInv, TypeOK, CanGoOn, Calls, Idle, Directories
    <2>2. CASE CanGoOn(first)
      BY <2>1, <2>2, OwnerGoesOn
    <2>3. CASE ~CanGoOn(first)
      <3>1. first \in Threads /\ call[first].dir = "repository" /\ owner["repository"] # NoThread
        BY <2>1, <2>3, OwnerGoesOn
      <3>2. owner["repository"] \in Threads /\ CanGoOn(owner["repository"])
        BY <2>1, <3>1, OwnerGoesOn
      <3> QED BY <3>1, <3>2
    <2> QED BY <2>2, <2>3
  <1> QED BY <1>1, OrderInit, OrderStep, CapabilityInvariant, PTL DEF Spec
=============================================================================
