------------------------------ MODULE TaskLease ------------------------------
(***************************************************************************)
(* The durable task leases of td_controller/lease.py: one SQLite table,    *)
(* any number of controller processes.                                     *)
(*                                                                         *)
(* Every call reads the clock BEFORE it opens its transaction, and the     *)
(* transaction may start much later, after other controllers committed:    *)
(* ReadClock is a step of its own, and the actions that commit use the     *)
(* instant the call read, not the present one.  The other arguments of a   *)
(* call are free, so they are chosen when the call commits.  A call that   *)
(* raises rolls back everything, the expiry of stale rows included.        *)
(***************************************************************************)
EXTENDS Integers

CONSTANTS
    Tasks,        \* task identifiers
    Branches,     \* branch names
    Owners,       \* controller identities, the "owner" of a lease
    LeaseIds,     \* the identifiers the lease-id factory may return
    Controllers,  \* processes that hold a TaskLeaseLedger
    OwnerOf,      \* the identity each process uses; two may share one
    Ttls,         \* the times to live a call may ask for, in clock units
    Horizon       \* bound: the last instant of the clock

ASSUME OwnerAssumption == OwnerOf \in [Controllers -> Owners]
ASSUME TtlAssumption == Ttls \subseteq Nat \ {0}
ASSUME HorizonAssumption == Horizon \in Nat

VARIABLES
    lease,   \* lease[id]: the row with that primary key, or NoLease
    clock,   \* what now() returns; it may be set back
    call     \* call[c]: the instant read by the pending call of c, or NoTime

leaseVars == <<lease, clock, call>>

Times  == 0 .. Horizon
NoTime == -1

NoLease == [state |-> "NONE"]

Rows == [task : Tasks, branch : Branches, owner : Owners,
         state : {"ACTIVE", "RELEASED", "EXPIRED"},
         acquired_at : Times, heartbeat_at : Times, expires_at : Times,
         released_at : Times \cup {NoTime}]

Active(id) == lease[id].state = "ACTIVE"

-----------------------------------------------------------------------------
LeaseInit ==
    /\ lease = [id \in LeaseIds |-> NoLease]
    /\ clock = 0
    /\ call = [c \in Controllers |-> NoTime]

\* Real time passes.
Tick == /\ clock < Horizon
        /\ clock' = clock + 1
        /\ UNCHANGED <<lease, call>>

\* The wall clock is set back: nothing in the code assumes it is monotone.
SetBack == /\ \E t \in Times : t < clock /\ clock' = t
           /\ UNCHANGED <<lease, call>>

\* A call validates its arguments and reads the clock.
ReadClock(c) ==
    /\ call[c] = NoTime
    /\ call' = [call EXCEPT ![c] = clock]
    /\ UNCHANGED <<lease, clock>>

Pending(c) == call[c] # NoTime

Return(c) == /\ call' = [call EXCEPT ![c] = NoTime]
             /\ UNCHANGED clock

\* An active row is stale at an instant from its expiry on.
Stale(row, now) == row.state = "ACTIVE" /\ row.expires_at <= now

\* The rows after _expire_stale at the instant now.
ExpireStale(now) ==
    [id \in LeaseIds |->
        IF Stale(lease[id], now)
        THEN [lease[id] EXCEPT !.state = "EXPIRED", !.released_at = now]
        ELSE lease[id]]

\* Mutant of IndexesAllow: no unique index on the branch.
IndexesAllowBranches(rows, t, b) ==
    \A id \in LeaseIds : rows[id].state = "ACTIVE" => rows[id].task # t

\* The unique partial indexes: no active row has this task or this branch.
IndexesAllow(rows, t, b) ==
    \A id \in LeaseIds :
        rows[id].state = "ACTIVE" => rows[id].task # t /\ rows[id].branch # b

\* Bound: a lease is asked for only if it ends within the horizon.
WithinHorizon(instant) == instant <= Horizon

Acquire(c, id, t, b, ttl) ==
    LET now == call[c] IN
    /\ Pending(c)
    /\ WithinHorizon(now + ttl)
    /\ lease[id] = NoLease
    /\ IndexesAllow(ExpireStale(now), t, b)
    /\ lease' = [ExpireStale(now) EXCEPT ![id] =
                   [task |-> t, branch |-> b, owner |-> OwnerOf[c],
                    state |-> "ACTIVE", acquired_at |-> now,
                    heartbeat_at |-> now, expires_at |-> now + ttl,
                    released_at |-> NoTime]]
    /\ Return(c)

\* Mutants of OwnActive: anybody's lease; a clock before the last heartbeat.
AnyActive(c, id, now) ==
    Active(id) /\ ~Stale(lease[id], now) /\ lease[id].heartbeat_at <= now

OwnActiveAnyTime(c, id, now) ==
    Active(id) /\ ~Stale(lease[id], now) /\ lease[id].owner = OwnerOf[c]

\* The row a heartbeat or a release may touch, once stale rows are expired.
OwnActive(c, id, now) ==
    /\ Active(id) /\ ~Stale(lease[id], now)
    /\ lease[id].owner = OwnerOf[c]
    /\ lease[id].heartbeat_at <= now

Heartbeat(c, id, ttl) ==
    LET now == call[c] IN
    /\ Pending(c)
    /\ WithinHorizon(now + ttl)
    /\ OwnActive(c, id, now)
    /\ lease' = [ExpireStale(now) EXCEPT ![id].heartbeat_at = now,
                                         ![id].expires_at = now + ttl]
    /\ Return(c)

Release(c, id) ==
    LET now == call[c] IN
    /\ Pending(c)
    /\ OwnActive(c, id, now)
    /\ lease' = [ExpireStale(now) EXCEPT ![id].state = "RELEASED",
                                         ![id].released_at = now]
    /\ Return(c)

\* Mutant of Sweep: active() only reads.
SweepReading(c) == Pending(c) /\ Return(c) /\ UNCHANGED lease

\* active(): the sweep a restarted controller runs.
Sweep(c) ==
    /\ Pending(c)
    /\ lease' = ExpireStale(call[c])
    /\ Return(c)

(***************************************************************************)
(* The call raises (a conflict, no such active lease, a clock that went    *)
(* back, a busy database) or its process dies before the commit: SQLite    *)
(* rolls the whole transaction back.                                       *)
(***************************************************************************)
Abandon(c) ==
    /\ Pending(c)
    /\ Return(c)
    /\ UNCHANGED lease

ClockStep == Tick \/ SetBack

LeaseCall(c) ==
    \/ ReadClock(c)
    \/ \E id \in LeaseIds, t \in Tasks, b \in Branches, ttl \in Ttls :
          Acquire(c, id, t, b, ttl)
    \/ \E id \in LeaseIds, ttl \in Ttls : Heartbeat(c, id, ttl)
    \/ \E id \in LeaseIds : Release(c, id)
    \/ Sweep(c)
    \/ Abandon(c)

LeaseNext == ClockStep \/ \E c \in Controllers : LeaseCall(c)

LeaseSpec == LeaseInit /\ [][LeaseNext]_leaseVars

(***************************************************************************)
(* Fairness, for liveness only: time passes, and some controller keeps     *)
(* calling active(), whose transaction does not meet a busy database for   *)
(* ever (the busy timeout is 5 seconds and writers are short).             *)
(***************************************************************************)
LeaseFairness ==
    /\ WF_leaseVars(Tick)
    /\ \A c \in Controllers :
          WF_leaseVars(ReadClock(c)) /\ SF_leaseVars(Sweep(c))

FairLeaseSpec == LeaseSpec /\ LeaseFairness

-----------------------------------------------------------------------------
(* Correctness. *)

(***************************************************************************)
(* The columns of the lease table: three states, and instants of the clock *)
(* in every timestamp.                                                     *)
(***************************************************************************)
LeaseTypeOK ==
    /\ lease \in [LeaseIds -> Rows \cup {NoLease}]
    /\ clock \in Times
    /\ call \in [Controllers -> Times \cup {NoTime}]

(***************************************************************************)
(* At most one active lease exists per task and per branch, whatever the   *)
(* controllers interleave and however old the instants they read are       *)
(* (AGENT_ORCHESTRATION_PLAN.md, "Leases and recovery").                   *)
(***************************************************************************)
Exclusive ==
    \A i, j \in LeaseIds :
        Active(i) /\ Active(j) /\ i # j =>
            lease[i].task # lease[j].task /\ lease[i].branch # lease[j].branch

(***************************************************************************)
(* The timestamps of a row tell a consistent story, although every call    *)
(* writes an instant it read earlier and the clock may go back: a lease is *)
(* never heartbeaten before it was acquired, a released lease was given    *)
(* back while it was in force, and an expired one only after its term.     *)
(***************************************************************************)
RowStory(row) ==
    /\ row.acquired_at <= row.heartbeat_at
    /\ row.heartbeat_at < row.expires_at
    /\ row.state = "ACTIVE" => row.released_at = NoTime
    /\ row.state = "RELEASED" =>
          row.heartbeat_at <= row.released_at /\ row.released_at < row.expires_at
    /\ row.state = "EXPIRED" => row.expires_at <= row.released_at

ConsistentRows == \A id \in LeaseIds : lease[id] # NoLease => RowStory(lease[id])

(***************************************************************************)
(* The history of leases is kept: an identifier names one acquisition for  *)
(* ever, its owner, task, branch and instant of acquisition never change,  *)
(* and a lease that ended never changes again (a late heartbeat or release *)
(* cannot revive or rewrite it).                                           *)
(***************************************************************************)
RowKept(id) ==
    lease[id] # NoLease =>
        /\ lease'[id] # NoLease
        /\ lease'[id].owner = lease[id].owner
        /\ lease'[id].task = lease[id].task
        /\ lease'[id].branch = lease[id].branch
        /\ lease'[id].acquired_at = lease[id].acquired_at
        /\ ~Active(id) => lease'[id] = lease[id]

HistoryKept == [][\A id \in LeaseIds : RowKept(id)]_leaseVars

(***************************************************************************)
(* A lease whose owner stopped heartbeating does not hold its task for     *)
(* ever: if the clock stops being set back, an active lease that keeps the *)
(* same heartbeat is eventually expired (or released) by the sweeps.       *)
(***************************************************************************)
SteadyClock == <>[][clock' >= clock]_leaseVars

AbandonedLeaseEnds ==
    SteadyClock =>
        \A id \in LeaseIds, h \in Times :
            []<>~(Active(id) /\ lease[id].heartbeat_at = h)

(***************************************************************************)
(* The ledger implements the abstract exclusive lease: the active rows are *)
(* the holds, the rows that ended are spent identifiers, and each call is  *)
(* answered as of the instant it read, for the identity of its caller.     *)
(***************************************************************************)
HoldOf(row) ==
    IF row = NoLease THEN [status |-> "unused"]
    ELSE IF row.state = "ACTIVE"
    THEN [status |-> "held", task |-> row.task, branch |-> row.branch,
          owner |-> row.owner, deadline |-> row.expires_at]
    ELSE [status |-> "spent"]

Holding == [id \in LeaseIds |-> HoldOf(lease[id])]

Abstract == 
    INSTANCE ExclusiveLease WITH
        hold <- Holding, asked <- call,
        Callers <- Controllers, Instants <- Times, NoInstant <- NoTime

ImplementsExclusiveLease == Abstract!Spec
=============================================================================
