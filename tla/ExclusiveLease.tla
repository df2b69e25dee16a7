--------------------------- MODULE ExclusiveLease ---------------------------
(***************************************************************************)
(* What the lease ledger promises its callers, with no clock and no table: *)
(* a call is answered as of the instant it was made, a lease identifier is *)
(* used once, a hold excludes every other hold of its task and its branch, *)
(* and a hold ends either because its owner gives it back before the       *)
(* deadline or because the deadline had passed when somebody called.       *)
(* TaskLease is shown to implement this module.                            *)
(***************************************************************************)
EXTENDS Naturals

CONSTANTS
    Tasks,      \* task identifiers
    Branches,   \* branch names
    Owners,     \* controller identities
    LeaseIds,   \* lease identifiers
    Callers,    \* processes
    OwnerOf,    \* the identity of each process
    Instants,   \* the times a call may be made at
    NoInstant   \* no call is being made

VARIABLES
    hold,    \* hold[id] is Unused, a hold, or Spent
    asked    \* asked[c]: the instant of the call that c is making

Unused == [status |-> "unused"]
Spent  == [status |-> "spent"]

Holds == [status : {"held"}, task : Tasks, branch : Branches,
          owner : Owners, deadline : Nat]

Held(id) == hold[id].status = "held"

\* The holds whose deadline has come by the time now.
Overdue(now) == {id \in LeaseIds : Held(id) /\ hold[id].deadline <= now}

\* Every hold that is overdue at the time now is spent.
Lapse(now) == [id \in LeaseIds |-> IF id \in Overdue(now) THEN Spent ELSE hold[id]]

Init == /\ hold = [id \in LeaseIds |-> Unused]
        /\ asked = [c \in Callers |-> NoInstant]

Ask(c, now) == /\ asked[c] = NoInstant
               /\ asked' = [asked EXCEPT ![c] = now]
               /\ UNCHANGED hold

(***************************************************************************)
(* A new hold: no hold that is still in force has its task or its branch.  *)
(***************************************************************************)
Grant(id, new, now) ==
    /\ hold[id] = Unused
    /\ new.deadline > now
    /\ \A other \in LeaseIds \ Overdue(now) :
          Held(other) => /\ hold[other].task # new.task
                         /\ hold[other].branch # new.branch
    /\ hold' = [Lapse(now) EXCEPT ![id] = new]

\* The owner of a hold in force moves its deadline.
Extend(id, owner, now, deadline) ==
    /\ Held(id) /\ hold[id].owner = owner /\ hold[id].deadline > now
    /\ deadline > now
    /\ hold' = [Lapse(now) EXCEPT ![id].deadline = deadline]

\* The owner of a hold in force gives it back.
GiveBack(id, owner, now) ==
    /\ Held(id) /\ hold[id].owner = owner /\ hold[id].deadline > now
    /\ hold' = [Lapse(now) EXCEPT ![id] = Spent]

\* Overdue holds are taken away, and nothing else happens.
Reclaim(now) == hold' = Lapse(now)

Refuse == UNCHANGED hold

\* The call of c takes effect as of its instant, or is refused.
Answer(c) ==
    LET now == asked[c]
        me == OwnerOf[c]
    IN
    /\ now # NoInstant
    /\ asked' = [asked EXCEPT ![c] = NoInstant]
    /\ \/ Refuse
       \/ Reclaim(now)
       \/ \E id \in LeaseIds :
             \/ \E deadline \in Instants, t \in Tasks, b \in Branches :
                   Grant(id, [status |-> "held", task |-> t, branch |-> b,
                              owner |-> me, deadline |-> deadline], now)
             \/ GiveBack(id, me, now)
             \/ \E deadline \in Instants : Extend(id, me, now, deadline)

Next == \E c \in Callers : \/ \E now \in Instants : Ask(c, now)
                           \/ Answer(c)

Spec == Init /\ [][Next]_<<hold, asked>>
=============================================================================
