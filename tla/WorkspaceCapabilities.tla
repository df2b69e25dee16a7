------------------------ MODULE WorkspaceCapabilities ------------------------
(***************************************************************************)
(* The two pinned directories of one controller process: the workspace     *)
(* (WorkspaceIdentityHandle) and the repository (PinnedDirectoryExecutor). *)
(* Each owns one descriptor behind a reentrant lock.  A thread holds a     *)
(* directory while a trusted operation runs, runs commands in it, verifies *)
(* it, or closes it; the directory's metadata may be changed by other      *)
(* programs at any time.                                                   *)
(*                                                                         *)
(* The modelled threads follow the lock order of the callers in            *)
(* exact_branch_reservation.py, worktree_registration.py and               *)
(* workspace_tree_materializer.py: the workspace is never asked for while  *)
(* the repository is held.                                                 *)
(***************************************************************************)
EXTENDS Naturals

CONSTANTS
    Threads,
    NoThread

ASSUME ThreadAssumption == NoThread \notin Threads

Directories == {"workspace", "repository"}

\* The calls that start and end with a verification and work in between:
\* run, run_with_workspace_descriptor and verify_worktree_admin_binding.
Commands == {"run"}
Methods == Commands \cup {"hold", "verify", "close"}

VARIABLES
    owner,         \* owner[d]: the thread that owns the lock of d
    depth,         \* depth[d]: how many times it has acquired it
    holder,        \* _hold_owner
    closed,        \* _closed
    cleanupFailed, \* _cleanup_failed
    poisoned,      \* _poisoned (of the repository)
    open,          \* the kernel has the descriptor of d open
    intact,        \* fstat of d finds the directory it was, safely owned
    call,          \* call[t]: the method t is in
    breached       \* history: a hold of the repository ended while it was not intact

lockVars == <<owner, depth>>
stateVars == <<holder, closed, cleanupFailed, poisoned, open>>
vars == <<lockVars, stateVars, intact, call, breached>>

Idle == [method |-> "none", dir |-> "workspace", step |-> "idle"]
Calls == {Idle} \cup [method : Methods, dir : Directories,
                      step : {"waiting", "locked", "working"}]

Init ==
    /\ owner = [d \in Directories |-> NoThread]
    /\ depth = [d \in Directories |-> 0]
    /\ holder = [d \in Directories |-> NoThread]
    /\ closed = [d \in Directories |-> FALSE]
    /\ cleanupFailed = [d \in Directories |-> FALSE]
    /\ poisoned = FALSE
    /\ open = [d \in Directories |-> TRUE]
    /\ intact = [d \in Directories |-> TRUE]
    /\ call = [t \in Threads |-> Idle]
    /\ breached = FALSE

-----------------------------------------------------------------------------
(* The reentrant lock. *)

Acquire(t) ==
    LET d == call[t].dir IN
    /\ call[t].step = "waiting"
    /\ owner[d] \in {t, NoThread}
    /\ owner' = [owner EXCEPT ![d] = t]
    /\ depth' = [depth EXCEPT ![d] = @ + 1]
    /\ call' = [call EXCEPT ![t].step = "locked"]
    /\ UNCHANGED <<stateVars, intact, breached>>

Unlock(d) ==
    /\ depth' = [depth EXCEPT ![d] = @ - 1]
    /\ owner' = IF depth[d] = 1 THEN [owner EXCEPT ![d] = NoThread] ELSE owner

\* The method of t ends: it gives back what it has acquired itself.
Return(t) ==
    /\ Unlock(call[t].dir)
    /\ call' = [call EXCEPT ![t] = Idle]

-----------------------------------------------------------------------------
(* The methods. *)

\* _verify_locked.  The workspace has no poison.
Verifies(d) ==
    /\ ~closed[d]
    /\ d = "repository" => ~poisoned
    /\ intact[d]

\* Commands run in the repository; the lock order is the callers'.
Begin(t, method, d) ==
    /\ call[t] = Idle
    /\ method \in Commands => d = "repository"
    /\ d = "workspace" => owner["repository"] # t
    /\ call' = [call EXCEPT ![t] = [method |-> method, dir |-> d, step |-> "waiting"]]
    /\ UNCHANGED <<lockVars, stateVars, intact, breached>>

In(t, method) == call[t].method = method /\ call[t].step = "locked"

\* hold_identity and hold_execution keep the lock for the caller's block.
Hold(t) ==
    LET d == call[t].dir IN
    /\ In(t, "hold")
    /\ holder[d] = NoThread /\ Verifies(d)
    /\ holder' = [holder EXCEPT ![d] = t]
    /\ call' = [call EXCEPT ![t] = Idle]
    /\ UNCHANGED <<lockVars, closed, cleanupFailed, poisoned, open, intact, breached>>

\* The directory is held already, or its verification fails.
RefuseHold(t) ==
    /\ In(t, "hold")
    /\ holder[call[t].dir] # NoThread \/ ~Verifies(call[t].dir)
    /\ Return(t)
    /\ UNCHANGED <<stateVars, intact, breached>>

Verify(t) ==
    /\ In(t, "verify")
    /\ Return(t)
    /\ UNCHANGED <<stateVars, intact, breached>>

Start(t) ==
    /\ call[t].method \in Commands /\ call[t].step = "locked"
    /\ Verifies(call[t].dir)
    /\ call' = [call EXCEPT ![t].step = "working"]
    /\ UNCHANGED <<lockVars, stateVars, intact, breached>>

\* Mutant of RefuseStart: the lock is not given back on a failed verification.
RefuseStartLocked(t) ==
    /\ call[t].method \in Commands /\ call[t].step = "locked"
    /\ ~Verifies(call[t].dir)
    /\ call' = [call EXCEPT ![t] = Idle]
    /\ UNCHANGED <<lockVars, stateVars, intact, breached>>

RefuseStart(t) ==
    /\ call[t].method \in Commands /\ call[t].step = "locked"
    /\ ~Verifies(call[t].dir)
    /\ Return(t)
    /\ UNCHANGED <<stateVars, intact, breached>>

\* The process ended, failed or timed out, and the last verification is done;
\* its result or its exception goes to the caller.
Finish(t) ==
    /\ call[t].step = "working"
    /\ Return(t)
    /\ UNCHANGED <<stateVars, intact, breached>>

(***************************************************************************)
(* The caller's block ends, with an exception or without.  The repository  *)
(* is verified once more and poisoned if that fails.  Contexts nest, so    *)
(* the repository, held last, is left first.                               *)
(***************************************************************************)
\* Mutant of Leave: a block that raised skips the last verification.
LeaveUnverified(t, d) ==
    /\ call[t] = Idle /\ holder[d] = t
    /\ d = "workspace" => holder["repository"] # t
    /\ holder' = [holder EXCEPT ![d] = NoThread]
    /\ Unlock(d)
    /\ breached' = (breached \/ (d = "repository" /\ ~intact[d]))
    /\ UNCHANGED <<closed, cleanupFailed, poisoned, open, intact, call>>

Leave(t, d) ==
    /\ call[t] = Idle /\ holder[d] = t
    /\ d = "workspace" => holder["repository"] # t
    /\ holder' = [holder EXCEPT ![d] = NoThread]
    /\ poisoned' = (poisoned \/ (d = "repository" /\ ~Verifies(d)))
    /\ breached' = (breached \/ (d = "repository" /\ ~intact[d]))
    /\ Unlock(d)
    /\ UNCHANGED <<closed, cleanupFailed, open, intact, call>>

\* close() of the thread that holds the directory is refused.
RefuseClose(t) ==
    /\ In(t, "close")
    /\ holder[call[t].dir] = t
    /\ Return(t)
    /\ UNCHANGED <<stateVars, intact, breached>>

\* Mutant of CloseOnce: the holder may close.
CloseHeld(t) ==
    LET d == call[t].dir IN
    /\ In(t, "close") /\ ~closed[d]
    /\ closed' = [closed EXCEPT ![d] = TRUE]
    /\ open' = [open EXCEPT ![d] = FALSE]
    /\ Return(t)
    /\ UNCHANGED <<holder, cleanupFailed, poisoned, intact, breached>>

\* The one attempt to close; the kernel gives the descriptor up either way.
CloseOnce(t) ==
    LET d == call[t].dir IN
    /\ In(t, "close")
    /\ holder[d] # t /\ ~closed[d]
    /\ closed' = [closed EXCEPT ![d] = TRUE]
    /\ open' = [open EXCEPT ![d] = FALSE]
    /\ \E failed \in BOOLEAN : cleanupFailed' = [cleanupFailed EXCEPT ![d] = failed]
    /\ Return(t)
    /\ UNCHANGED <<holder, poisoned, intact, breached>>

\* Every later close replays the result of the first.
CloseAgain(t) ==
    LET d == call[t].dir IN
    /\ In(t, "close")
    /\ holder[d] # t /\ closed[d]
    /\ Return(t)
    /\ UNCHANGED <<stateVars, intact, breached>>

\* Another program changes the directory's owner or mode, or restores them.
Disturb(d) ==
    /\ intact' = [intact EXCEPT ![d] = ~@]
    /\ UNCHANGED <<lockVars, stateVars, call, breached>>

\* What a thread does inside a method.
Proceed(t) ==
    \/ Hold(t) \/ RefuseHold(t)
    \/ Verify(t)
    \/ Start(t) \/ RefuseStart(t) \/ Finish(t)
    \/ RefuseClose(t) \/ CloseOnce(t) \/ CloseAgain(t)

Next ==
    \/ \E t \in Threads :
          \/ \E method \in Methods, d \in Directories : Begin(t, method, d)
          \/ Acquire(t)
          \/ Proceed(t)
          \/ \E d \in Directories : Leave(t, d)
    \/ \E d \in Directories : Disturb(d)

Spec == Init /\ [][Next]_vars

(***************************************************************************)
(* Fairness.  A thread inside a method runs on (every command has a time   *)
(* limit).  A block under a hold is a finite list of calls, so it ends     *)
(* even if it is between two calls again and again.  A lock that is        *)
(* released again and again is given to a thread that waits for it.        *)
(***************************************************************************)
Fairness ==
    \A t \in Threads : /\ WF_vars(Proceed(t))
                       /\ SF_vars(Acquire(t))
                       /\ \A d \in Directories : SF_vars(Leave(t, d))

FairSpec == Spec /\ Fairness

-----------------------------------------------------------------------------
(* Correctness. *)

\* The thread that works in d: it holds it, or runs a command in it.
Working(t, d) == holder[d] = t \/ (call[t].dir = d /\ call[t].step = "working")

\* The number of times t must have acquired the lock of d.
Acquired(t, d) ==
    (IF holder[d] = t THEN 1 ELSE 0)
      + (IF call[t].dir = d /\ call[t].step \in {"locked", "working"} THEN 1 ELSE 0)

(***************************************************************************)
(* The reentrant locks and who holds each directory, its two descriptors,  *)
(* the poison of the executor, and the calls of the threads.               *)
(***************************************************************************)
TypeOK ==
    /\ owner \in [Directories -> Threads \cup {NoThread}]
    /\ depth \in [Directories -> Nat]
    /\ holder \in [Directories -> Threads \cup {NoThread}]
    /\ closed \in [Directories -> BOOLEAN]
    /\ cleanupFailed \in [Directories -> BOOLEAN]
    /\ poisoned \in BOOLEAN
    /\ open \in [Directories -> BOOLEAN]
    /\ intact \in [Directories -> BOOLEAN]
    /\ call \in [Threads -> Calls]
    /\ breached \in BOOLEAN

(***************************************************************************)
(* The reentrant lock is acquired exactly as often as the holds and the    *)
(* methods of its owner need: no way out of a method, refused or not,      *)
(* leaves it locked or gives it away under a hold.                         *)
(***************************************************************************)
LocksBalanced ==
    \A d \in Directories, t \in Threads :
        IF owner[d] = t THEN depth[d] = Acquired(t, d) /\ depth[d] > 0
                        ELSE Acquired(t, d) = 0

(***************************************************************************)
(* Once a hold of the repository has ended over a directory that was not   *)
(* what it was, no command ever runs in it and it is never held again,     *)
(* even if the directory looks right later.                                *)
(***************************************************************************)
NothingAfterBreach ==
    [][breached => \A t \in Threads :
           Working(t, "repository")' => Working(t, "repository")]_vars

User(d) == IF \E t \in Threads : Working(t, d)
           THEN CHOOSE t \in Threads : Working(t, d)
           ELSE NoThread

(***************************************************************************)
(* Locks, nesting, refusals and closes together implement SoleUse: while a *)
(* thread holds a directory or runs a command in /proc/self/fd of it, no   *)
(* peer works in it and nobody closes it, and it is not used again after   *)
(* it is closed.                                                           *)
(***************************************************************************)
Workspace == INSTANCE SoleUse WITH user <- User("workspace"), open <- open["workspace"]
Repository == INSTANCE SoleUse WITH user <- User("repository"), open <- open["repository"]

UsedAlone == Workspace!Spec /\ Repository!Spec

(***************************************************************************)
(* Every call returns: with the callers' lock order no thread waits for    *)
(* ever, and close does wait but not for ever.                             *)
(***************************************************************************)
EveryCallReturns == \A t \in Threads : call[t].step # "idle" ~> call[t].step = "idle"
=============================================================================
