------------------------------- MODULE SoleUse -------------------------------
(***************************************************************************)
(* What a pinned directory promises the threads that share it, with no     *)
(* lock and no nesting: one thread uses it at a time, its descriptor stays *)
(* open for as long as it is used, and once retired it is never used       *)
(* again.  WorkspaceCapabilities is shown to implement this module for the *)
(* workspace and for the repository.                                       *)
(***************************************************************************)
CONSTANTS
    Threads,   \* the threads of one controller process
    NoThread   \* nobody uses the directory

VARIABLES
    user,   \* the thread that uses the directory
    open    \* the descriptor is open

Init == user = NoThread /\ open = TRUE

Take(t) == /\ user = NoThread /\ open
           /\ user' = t
           /\ UNCHANGED open

Leave(t) == /\ user = t
            /\ user' = NoThread
            /\ UNCHANGED open

Retire == /\ user = NoThread /\ open
          /\ open' = FALSE
          /\ UNCHANGED user

Next == Retire \/ \E t \in Threads : Take(t) \/ Leave(t)

Spec == Init /\ [][Next]_<<user, open>>
=============================================================================
