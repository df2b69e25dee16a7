------------------------- MODULE WorkflowStateProofs -------------------------
(***************************************************************************)
(* Proofs about the two ledgers that share a database, for any number of   *)
(* tasks, branches, owners, identifiers and controllers, and any horizon.  *)
(*                                                                         *)
(* Of the lease ledger: a task and a branch have one lease at a time, its  *)
(* rows tell one story, and it implements ExclusiveLease.  Of the task     *)
(* ledger: its history replays, gated edges cite evidence of their own     *)
(* revision, what is merged is what was gated, attempts are counted, tasks *)
(* change under one lease in force, records are kept, and it implements    *)
(* GatedTask.                                                              *)
(***************************************************************************)
EXTENDS WorkflowState, FiniteSetTheorems, TLAPS

-----------------------------------------------------------------------------
(* The lease ledger. *)

LeaseIInv == LeaseTypeOK /\ Exclusive /\ ConsistentRows

(***************************************************************************)
(* What _expire_stale does to one row: it keeps its type and its story,    *)
(* leaves every row that stays active (or never was) as it is, and turns   *)
(* an active row into nothing but an expired one.                          *)
(***************************************************************************)
LEMMA ExpireStaleRow ==
  ASSUME LeaseTypeOK, ConsistentRows, NEW now \in Times, NEW id \in LeaseIds
  PROVE  LET new == ExpireStale(now)[id] IN
         /\ new \in Rows \cup {NoLease}
         /\ new # NoLease => RowStory(new)
         /\ new.state = "ACTIVE" => new = lease[id]
         /\ new = NoLease <=> lease[id] = NoLease
         /\ ~Active(id) => new = lease[id]
         /\ lease[id] # NoLease => /\ new.task = lease[id].task
                                   /\ new.branch = lease[id].branch
                                   /\ new.owner = lease[id].owner
                                   /\ new.acquired_at = lease[id].acquired_at
<1> DEFINE new == ExpireStale(now)[id]
<1>1. CASE Stale(lease[id], now)
  <2>1. lease[id] \in Rows /\ lease[id] # NoLease
    BY <1>1 DEF LeaseTypeOK, Stale, NoLease
  <2>2. new = [lease[id] EXCEPT !.state = "EXPIRED", !.released_at = now]
    BY <1>1 DEF ExpireStale
  <2>3. /\ new \in Rows /\ new.state = "EXPIRED" /\ new.released_at = now
        /\ new.task = lease[id].task /\ new.branch = lease[id].branch
        /\ new.owner = lease[id].owner /\ new.acquired_at = lease[id].acquired_at
        /\ new.heartbeat_at = lease[id].heartbeat_at
        /\ new.expires_at = lease[id].expires_at
    BY <2>1, <2>2 DEF Rows
  <2>4. RowStory(new)
    BY <1>1, <2>1, <2>3 DEF ConsistentRows, RowStory, Stale
  <2>5. new # NoLease
    BY <2>3 DEF NoLease
  <2> QED BY <1>1, <2>1, <2>3, <2>4, <2>5 DEF Stale, Active
<1>2. CASE ~Stale(lease[id], now)
  <2>1. new = lease[id]
    BY <1>2 DEF ExpireStale
  <2> QED BY <2>1 DEF LeaseTypeOK, ConsistentRows
<1> QED BY <1>1, <1>2

(***************************************************************************)
(* A step that replaces the row of one identifier after the expiry, and    *)
(* leaves every other expired row alone, keeps the invariant when the new  *)
(* row is well formed and, if active, meets no other active row.           *)
(***************************************************************************)
LEMMA ReplaceRow ==
  ASSUME LeaseIInv, NEW now \in Times, NEW id \in LeaseIds, NEW row \in Rows,
         RowStory(row),
         row.state = "ACTIVE" =>
            \A other \in LeaseIds \ {id} :
               ExpireStale(now)[other].state = "ACTIVE" =>
                  /\ lease[other].task # row.task
                  /\ lease[other].branch # row.branch,
         lease' = [ExpireStale(now) EXCEPT ![id] = row]
  PROVE  /\ lease' \in [LeaseIds -> Rows \cup {NoLease}]
         /\ Exclusive' /\ ConsistentRows'
<1>1. lease'[id] = row /\ \A other \in LeaseIds \ {id} : lease'[other] = ExpireStale(now)[other]
  BY DEF ExpireStale
<1>2. lease' \in [LeaseIds -> Rows \cup {NoLease}]
  BY ExpireStaleRow DEF ExpireStale, LeaseIInv
<1>3. Exclusive'
  <2> SUFFICES ASSUME NEW i \in LeaseIds, NEW j \in LeaseIds, i # j,
                      lease'[i].state = "ACTIVE", lease'[j].state = "ACTIVE"
               PROVE  lease'[i].task # lease'[j].task /\ lease'[i].branch # lease'[j].branch
    BY DEF Exclusive, Active
  <2>1. \A other \in LeaseIds \ {id} :
           lease'[other].state = "ACTIVE" => lease'[other] = lease[other]
    BY <1>1, ExpireStaleRow DEF LeaseIInv
  <2>2. CASE i # id /\ j # id
    BY <2>1, <2>2 DEF LeaseIInv, Exclusive, Active
  <2>3. CASE i = id
    BY <1>1, <2>1, <2>3
  <2>4. CASE j = id
    BY <1>1, <2>1, <2>4
  <2> QED BY <2>2, <2>3, <2>4
<1>4. ConsistentRows'
  BY <1>1, ExpireStaleRow DEF ConsistentRows, LeaseIInv
<1> QED BY <1>2, <1>3, <1>4

LEMMA LeaseInitInv == LeaseInit => LeaseIInv
<1> SUFFICES ASSUME LeaseInit PROVE LeaseIInv
  OBVIOUS
<1>1. \A id \in LeaseIds : lease[id] = NoLease /\ ~Active(id)
  BY DEF LeaseInit, Active, NoLease
<1>2. LeaseTypeOK
  BY HorizonAssumption DEF LeaseInit, LeaseTypeOK, Times
<1> QED BY <1>1, <1>2 DEF LeaseIInv, Exclusive, ConsistentRows

\* A call that has read the clock holds an instant of the clock.
LEMMA PendingInstant ==
  ASSUME LeaseTypeOK, NEW c \in Controllers, Pending(c)
  PROVE  call[c] \in Times
BY DEF LeaseTypeOK, Pending

\* Returning leaves the pending calls well typed.
LEMMA ReturnTypes ==
  ASSUME LeaseTypeOK, NEW c \in Controllers, Return(c)
  PROVE  clock' \in Times /\ call' \in [Controllers -> Times \cup {NoTime}]
BY DEF LeaseTypeOK, Return

LEMMA AcquireInv ==
  ASSUME LeaseIInv, NEW c \in Controllers, NEW id \in LeaseIds,
         NEW t \in Tasks, NEW b \in Branches, NEW ttl \in Ttls,
         Acquire(c, id, t, b, ttl)
  PROVE  LeaseIInv'
<1> DEFINE now == call[c]
           row == [task |-> t, branch |-> b, owner |-> OwnerOf[c],
                   state |-> "ACTIVE", acquired_at |-> now,
                   heartbeat_at |-> now, expires_at |-> now + ttl,
                   released_at |-> NoTime]
<1>1. now \in Times
  BY PendingInstant DEF Acquire, LeaseIInv
<1>2. ttl \in Nat \ {0} /\ now + ttl \in Times
  BY <1>1, TtlAssumption, HorizonAssumption DEF Acquire, WithinHorizon, Times
<1>3. row \in Rows /\ RowStory(row)
  BY <1>1, <1>2, OwnerAssumption, HorizonAssumption DEF Rows, RowStory, Times
<1>4. lease' = [ExpireStale(now) EXCEPT ![id] = row]
  BY DEF Acquire
<1>5. \A other \in LeaseIds \ {id} :
         ExpireStale(now)[other].state = "ACTIVE" =>
            lease[other].task # t /\ lease[other].branch # b
  BY <1>1, ExpireStaleRow DEF Acquire, IndexesAllow, LeaseIInv
<1>6. /\ lease' \in [LeaseIds -> Rows \cup {NoLease}]
      /\ Exclusive' /\ ConsistentRows'
  <2> HIDE DEF row, now
  <2>1. row.task = t /\ row.branch = b
    BY DEF row
  <2> QED BY <1>1, <1>3, <1>4, <1>5, <2>1, ReplaceRow
<1>7. clock' \in Times /\ call' \in [Controllers -> Times \cup {NoTime}]
  BY ReturnTypes DEF Acquire, LeaseIInv
<1> QED BY <1>6, <1>7 DEF LeaseIInv, LeaseTypeOK

\* The row a heartbeat or a release works on is active after the expiry too.
LEMMA OwnActiveRow ==
  ASSUME LeaseIInv, NEW c \in Controllers, NEW id \in LeaseIds,
         NEW now \in Times, OwnActive(c, id, now)
  PROVE  /\ lease[id] \in Rows /\ lease[id].state = "ACTIVE"
         /\ ExpireStale(now)[id] = lease[id]
         /\ RowStory(lease[id])
         /\ lease[id].heartbeat_at <= now /\ now < lease[id].expires_at
         /\ \A other \in LeaseIds \ {id} :
               ExpireStale(now)[other].state = "ACTIVE" =>
                  /\ lease[other].task # lease[id].task
                  /\ lease[other].branch # lease[id].branch
<1>1. lease[id] \in Rows /\ lease[id].state = "ACTIVE" /\ lease[id] # NoLease
  BY DEF OwnActive, LeaseIInv, LeaseTypeOK, Active, NoLease
<1>2. ExpireStale(now)[id] = lease[id]
  BY DEF OwnActive, ExpireStale
<1>3. RowStory(lease[id])
  BY <1>1 DEF LeaseIInv, ConsistentRows
<1>4. lease[id].heartbeat_at <= now /\ now < lease[id].expires_at
  BY <1>1, HorizonAssumption DEF OwnActive, Stale, Rows, Times
<1>5. ASSUME NEW other \in LeaseIds \ {id}, ExpireStale(now)[other].state = "ACTIVE"
      PROVE  /\ lease[other].task # lease[id].task
             /\ lease[other].branch # lease[id].branch
  <2>1. lease[other].state = "ACTIVE"
    BY <1>5, ExpireStaleRow DEF LeaseIInv
  <2> QED BY <1>1, <2>1 DEF LeaseIInv, Exclusive, Active
<1> QED BY <1>1, <1>2, <1>3, <1>4, <1>5

LEMMA HeartbeatInv ==
  ASSUME LeaseIInv, NEW c \in Controllers, NEW id \in LeaseIds, NEW ttl \in Ttls,
         Heartbeat(c, id, ttl)
  PROVE  LeaseIInv'
<1> DEFINE now == call[c]
           row == [lease[id] EXCEPT !.heartbeat_at = now, !.expires_at = now + ttl]
<1>1. now \in Times
  BY PendingInstant DEF Heartbeat, LeaseIInv
<1>2. ttl \in Nat \ {0} /\ now + ttl \in Times
  BY <1>1, TtlAssumption, HorizonAssumption DEF Heartbeat, WithinHorizon, Times
<1>3. OwnActive(c, id, now)
  BY DEF Heartbeat
<1>4. /\ row \in Rows
      /\ row.state = "ACTIVE" /\ row.task = lease[id].task /\ row.branch = lease[id].branch
      /\ row.acquired_at = lease[id].acquired_at /\ row.released_at = lease[id].released_at
      /\ row.heartbeat_at = now /\ row.expires_at = now + ttl
  <2>1. lease[id] \in Rows /\ lease[id].state = "ACTIVE"
    BY <1>1, <1>3, OwnActiveRow
  <2> QED BY <1>1, <1>2, <2>1 DEF Rows
<1>5. RowStory(row)
  BY <1>1, <1>2, <1>3, <1>4, OwnActiveRow, HorizonAssumption DEF RowStory, Rows, Times
<1>6. lease' = [ExpireStale(now) EXCEPT ![id] = row]
  BY <1>1, <1>3, OwnActiveRow DEF Heartbeat, ExpireStale
<1>7. /\ lease' \in [LeaseIds -> Rows \cup {NoLease}]
      /\ Exclusive' /\ ConsistentRows'
  <2> HIDE DEF row, now
  <2>1. \A other \in LeaseIds \ {id} :
           ExpireStale(now)[other].state = "ACTIVE" =>
              lease[other].task # row.task /\ lease[other].branch # row.branch
    BY <1>1, <1>3, <1>4, OwnActiveRow
  <2> QED BY <1>1, <1>4, <1>5, <1>6, <2>1, ReplaceRow
<1>8. clock' \in Times /\ call' \in [Controllers -> Times \cup {NoTime}]
  BY ReturnTypes DEF Heartbeat, LeaseIInv
<1> QED BY <1>7, <1>8 DEF LeaseIInv, LeaseTypeOK

LEMMA ReleaseInv ==
  ASSUME LeaseIInv, NEW c \in Controllers, NEW id \in LeaseIds, Release(c, id)
  PROVE  LeaseIInv'
<1> DEFINE now == call[c]
           row == [lease[id] EXCEPT !.state = "RELEASED", !.released_at = now]
<1>1. now \in Times
  BY PendingInstant DEF Release, LeaseIInv
<1>2. OwnActive(c, id, now)
  BY DEF Release
<1>3. /\ row \in Rows /\ row.state = "RELEASED" /\ row.released_at = now
      /\ row.acquired_at = lease[id].acquired_at
      /\ row.heartbeat_at = lease[id].heartbeat_at
      /\ row.expires_at = lease[id].expires_at
  <2>1. lease[id] \in Rows
    BY <1>1, <1>2, OwnActiveRow
  <2> QED BY <1>1, <2>1 DEF Rows
<1>4. RowStory(row)
  BY <1>1, <1>2, <1>3, OwnActiveRow DEF RowStory
<1>5. lease' = [ExpireStale(now) EXCEPT ![id] = row]
  BY <1>1, <1>2, OwnActiveRow DEF Release, ExpireStale
<1>6. /\ lease' \in [LeaseIds -> Rows \cup {NoLease}]
      /\ Exclusive' /\ ConsistentRows'
  <2> HIDE DEF row, now
  <2> QED BY <1>1, <1>3, <1>4, <1>5, ReplaceRow
<1>7. clock' \in Times /\ call' \in [Controllers -> Times \cup {NoTime}]
  BY ReturnTypes DEF Release, LeaseIInv
<1> QED BY <1>6, <1>7 DEF LeaseIInv, LeaseTypeOK

LEMMA SweepInv ==
  ASSUME LeaseIInv, NEW c \in Controllers, Sweep(c)
  PROVE  LeaseIInv'
<1>1. call[c] \in Times
  BY PendingInstant DEF Sweep, LeaseIInv
<1>2. lease' = ExpireStale(call[c]) /\ lease' \in [LeaseIds -> Rows \cup {NoLease}]
  BY <1>1, ExpireStaleRow DEF Sweep, ExpireStale, LeaseIInv
<1>3. \A id \in LeaseIds :
         /\ lease'[id].state = "ACTIVE" => lease'[id] = lease[id]
         /\ lease'[id] # NoLease => RowStory(lease'[id])
  BY <1>1, <1>2, ExpireStaleRow DEF LeaseIInv
<1>4. Exclusive' /\ ConsistentRows'
  BY <1>3 DEF LeaseIInv, Exclusive, ConsistentRows, Active
<1>5. clock' \in Times /\ call' \in [Controllers -> Times \cup {NoTime}]
  BY ReturnTypes DEF Sweep, LeaseIInv
<1> QED BY <1>2, <1>4, <1>5 DEF LeaseIInv, LeaseTypeOK

(***************************************************************************)
(* The steps that leave the table alone: the clock, a call that starts,    *)
(* a call that fails.                                                      *)
(***************************************************************************)
LEMMA TableUnchangedInv ==
  ASSUME LeaseIInv, UNCHANGED lease,
         clock' \in Times, call' \in [Controllers -> Times \cup {NoTime}]
  PROVE  LeaseIInv'
BY DEF LeaseIInv, LeaseTypeOK, Exclusive, ConsistentRows, Active

LEMMA LeaseCallInv ==
  ASSUME LeaseIInv, NEW c \in Controllers, LeaseCall(c)
  PROVE  LeaseIInv'
<1>1. CASE ReadClock(c)
  BY <1>1, TableUnchangedInv DEF ReadClock, LeaseIInv, LeaseTypeOK
<1>2. CASE \E id \in LeaseIds, t \in Tasks, b \in Branches, ttl \in Ttls :
              Acquire(c, id, t, b, ttl)
  BY <1>2, AcquireInv
<1>3. CASE \E id \in LeaseIds, ttl \in Ttls : Heartbeat(c, id, ttl)
  BY <1>3, HeartbeatInv
<1>4. CASE \E id \in LeaseIds : Release(c, id)
  BY <1>4, ReleaseInv
<1>5. CASE Sweep(c)
  BY <1>5, SweepInv
<1>6. CASE Abandon(c)
  BY <1>6, ReturnTypes, TableUnchangedInv DEF Abandon, LeaseIInv
<1> QED BY <1>1, <1>2, <1>3, <1>4, <1>5, <1>6 DEF LeaseCall

LEMMA LeaseStepInv == LeaseIInv /\ [LeaseNext]_leaseVars => LeaseIInv'
<1> SUFFICES ASSUME LeaseIInv, [LeaseNext]_leaseVars PROVE LeaseIInv'
  OBVIOUS
<1>1. CASE Tick
  BY <1>1, HorizonAssumption, TableUnchangedInv DEF Tick, LeaseIInv, LeaseTypeOK, Times
<1>2. CASE SetBack
  BY <1>2, TableUnchangedInv DEF SetBack, LeaseIInv, LeaseTypeOK
<1>3. ASSUME NEW c \in Controllers, LeaseCall(c) PROVE LeaseIInv'
  BY <1>3, LeaseCallInv
<1>4. CASE UNCHANGED leaseVars
  BY <1>4, TableUnchangedInv DEF leaseVars, LeaseIInv, LeaseTypeOK
<1> QED BY <1>1, <1>2, <1>3, <1>4 DEF LeaseNext, ClockStep

(***************************************************************************)
(* The inductive invariant of the ledger: types, exclusivity and the story *)
(* of the timestamps hold together in every reachable state.               *)
(***************************************************************************)
THEOREM LeaseInvariant == LeaseSpec => []LeaseIInv
<1> QED BY LeaseInitInv, LeaseStepInv, PTL DEF LeaseSpec

\* Every value in the table, the clock and the pending calls has its type.
THEOREM LeaseTypeCorrect == LeaseSpec => []LeaseTypeOK
<1>1. LeaseIInv => LeaseTypeOK
  BY DEF LeaseIInv
<1> QED BY <1>1, LeaseInvariant, PTL

\* At most one active lease per task and per branch (the unique indexes).
THEOREM LeaseExclusive == LeaseSpec => []Exclusive
<1>1. LeaseIInv => Exclusive
  BY DEF LeaseIInv
<1> QED BY <1>1, LeaseInvariant, PTL

\* The timestamps of every row tell a consistent story.
THEOREM LeaseRowsConsistent == LeaseSpec => []ConsistentRows
<1>1. LeaseIInv => ConsistentRows
  BY DEF LeaseIInv
<1> QED BY <1>1, LeaseInvariant, PTL

-----------------------------------------------------------------------------
(* The history of leases. *)

\* A step that replaces one row after the expiry keeps every other row.
LEMMA ReplaceRowKept ==
  ASSUME LeaseIInv, NEW now \in Times, NEW id \in LeaseIds, NEW row,
         lease' = [ExpireStale(now) EXCEPT ![id] = row],
         NEW other \in LeaseIds \ {id}
  PROVE  RowKept(other)
<1>1. lease'[other] = ExpireStale(now)[other]
  BY DEF ExpireStale
<1> QED BY <1>1, ExpireStaleRow DEF RowKept, LeaseIInv

LEMMA LeaseCallKept ==
  ASSUME LeaseIInv, NEW c \in Controllers, LeaseCall(c), NEW id \in LeaseIds
  PROVE  RowKept(id)
<1>1. CASE ReadClock(c) \/ Abandon(c)
  BY <1>1 DEF ReadClock, Abandon, RowKept
<1>2. ASSUME NEW new \in LeaseIds, NEW t \in Tasks, NEW b \in Branches,
             NEW ttl \in Ttls, Acquire(c, new, t, b, ttl)
      PROVE  RowKept(id)
  <2>1. call[c] \in Times
    BY <1>2, PendingInstant DEF Acquire, LeaseIInv
  <2>2. CASE id = new
    BY <1>2, <2>2 DEF Acquire, RowKept
  <2>3. CASE id # new
    BY <1>2, <2>1, <2>3, ReplaceRowKept DEF Acquire
  <2> QED BY <2>2, <2>3
<1>3. ASSUME NEW own \in LeaseIds, NEW ttl \in Ttls, Heartbeat(c, own, ttl)
      PROVE  RowKept(id)
  <2> DEFINE row == [lease[own] EXCEPT !.heartbeat_at = call[c], !.expires_at = call[c] + ttl]
  <2>1. call[c] \in Times /\ OwnActive(c, own, call[c])
    BY <1>3, PendingInstant DEF Heartbeat, LeaseIInv
  <2>2. lease' = [ExpireStale(call[c]) EXCEPT ![own] = row]
    BY <1>3, <2>1, OwnActiveRow DEF Heartbeat, ExpireStale
  <2>3. CASE id = own
    <3>1. lease[id] \in Rows /\ Active(id) /\ lease'[id] = row
      BY <2>1, <2>2, <2>3, OwnActiveRow DEF ExpireStale, Active
    <3>2. row.task = lease[id].task /\ row.branch = lease[id].branch
          /\ row.owner = lease[id].owner /\ row.acquired_at = lease[id].acquired_at
          /\ row.state = "ACTIVE"
      BY <3>1, <2>3 DEF Rows, Active
    <3>3. row # NoLease
      BY <3>2 DEF NoLease
    <3> HIDE DEF row
    <3> QED BY <3>1, <3>2, <3>3 DEF RowKept
  <2>4. CASE id # own
    BY <2>1, <2>2, <2>4, ReplaceRowKept
  <2> QED BY <2>3, <2>4
<1>4. ASSUME NEW own \in LeaseIds, Release(c, own)
      PROVE  RowKept(id)
  <2> DEFINE row == [lease[own] EXCEPT !.state = "RELEASED", !.released_at = call[c]]
  <2>1. call[c] \in Times /\ OwnActive(c, own, call[c])
    BY <1>4, PendingInstant DEF Release, LeaseIInv
  <2>2. lease' = [ExpireStale(call[c]) EXCEPT ![own] = row]
    BY <1>4, <2>1, OwnActiveRow DEF Release, ExpireStale
  <2>3. CASE id = own
    <3>1. lease[id] \in Rows /\ Active(id) /\ lease'[id] = row
      BY <2>1, <2>2, <2>3, OwnActiveRow DEF ExpireStale, Active
    <3>2. row.task = lease[id].task /\ row.branch = lease[id].branch
          /\ row.owner = lease[id].owner /\ row.acquired_at = lease[id].acquired_at
          /\ row.state = "RELEASED"
      BY <3>1, <2>3 DEF Rows
    <3>3. row # NoLease
      BY <3>2 DEF NoLease
    <3> HIDE DEF row
    <3> QED BY <3>1, <3>2, <3>3 DEF RowKept
  <2>4. CASE id # own
    BY <2>1, <2>2, <2>4, ReplaceRowKept
  <2> QED BY <2>3, <2>4
<1>5. CASE Sweep(c)
  <2>1. call[c] \in Times /\ lease' = ExpireStale(call[c])
    BY <1>5, PendingInstant DEF Sweep, LeaseIInv
  <2> QED BY <2>1, ExpireStaleRow DEF RowKept, LeaseIInv
<1> QED BY <1>1, <1>2, <1>3, <1>4, <1>5 DEF LeaseCall

LEMMA LeaseStepKept ==
  LeaseIInv /\ [LeaseNext]_leaseVars => [\A id \in LeaseIds : RowKept(id)]_leaseVars
<1> SUFFICES ASSUME LeaseIInv, LeaseNext PROVE \A id \in LeaseIds : RowKept(id)
  OBVIOUS
<1>1. CASE ClockStep
  BY <1>1 DEF ClockStep, Tick, SetBack, RowKept
<1>2. CASE \E c \in Controllers : LeaseCall(c)
  BY <1>2, LeaseCallKept
<1> QED BY <1>1, <1>2 DEF LeaseNext

(***************************************************************************)
(* Identifiers are never reused and a lease that ended never changes: no   *)
(* late heartbeat or release revives or rewrites it.                       *)
(***************************************************************************)
THEOREM LeaseHistoryKept == LeaseSpec => HistoryKept
<1> QED BY LeaseInvariant, LeaseStepKept, PTL DEF LeaseSpec, HistoryKept

-----------------------------------------------------------------------------
(* The ledger implements the abstract exclusive lease. *)

LEMMA RefinesInit == LeaseInit => Abstract!Init
BY DEF LeaseInit, Abstract!Init, Abstract!Unused, Holding, HoldOf

\* The mapping of one row, by its state.
LEMMA HoldOfRow ==
  ASSUME NEW row \in Rows
  PROVE  /\ row.state = "ACTIVE" =>
               HoldOf(row) = [status |-> "held", task |-> row.task, branch |-> row.branch,
                              owner |-> row.owner, deadline |-> row.expires_at]
         /\ row.state # "ACTIVE" => HoldOf(row) = [status |-> "spent"]
<1>1. row # NoLease
  BY DEF Rows, NoLease
<1> QED BY <1>1 DEF HoldOf

\* A hold of the mapping is an active row, with its deadline.
LEMMA HeldIsActive ==
  ASSUME LeaseTypeOK, NEW id \in LeaseIds
  PROVE  /\ Abstract!Held(id) <=> Active(id)
         /\ Active(id) => /\ Holding[id].task = lease[id].task
                          /\ Holding[id].branch = lease[id].branch
                          /\ Holding[id].owner = lease[id].owner
                          /\ Holding[id].deadline = lease[id].expires_at
         /\ Holding[id] = Abstract!Unused <=> lease[id] = NoLease
<1>1. Holding[id] = HoldOf(lease[id])
  BY DEF Holding
<1>2. CASE lease[id] = NoLease
  BY <1>1, <1>2 DEF Abstract!Held, Abstract!Unused, Active, NoLease, HoldOf
<1>3. CASE lease[id] # NoLease
  <2>1. lease[id] \in Rows
    BY <1>3 DEF LeaseTypeOK
  <2> QED BY <1>1, <1>3, <2>1, HoldOfRow DEF Abstract!Held, Abstract!Unused, Active
<1> QED BY <1>2, <1>3

\* Expiring the stale rows lapses exactly the overdue holds.
LEMMA ExpireIsLapse ==
  ASSUME LeaseIInv, NEW now \in Times
  PROVE  [id \in LeaseIds |-> HoldOf(ExpireStale(now)[id])] = Abstract!Lapse(now)
<1> SUFFICES ASSUME NEW id \in LeaseIds
             PROVE  HoldOf(ExpireStale(now)[id]) = Abstract!Lapse(now)[id]
  BY DEF Abstract!Lapse
<1>1. id \in Abstract!Overdue(now) <=> Stale(lease[id], now)
  BY HeldIsActive DEF Abstract!Overdue, Stale, Active, LeaseIInv
<1>2. CASE Stale(lease[id], now)
  <2>1. ExpireStale(now)[id] \in Rows /\ ExpireStale(now)[id].state # "ACTIVE"
    <3>1. lease[id] \in Rows
      BY <1>2 DEF Stale, LeaseIInv, LeaseTypeOK, NoLease
    <3> QED BY <1>2, <3>1 DEF ExpireStale, Rows
  <2> QED BY <1>1, <1>2, <2>1, HoldOfRow DEF Abstract!Lapse, Abstract!Spent
<1>3. CASE ~Stale(lease[id], now)
  BY <1>1, <1>3 DEF Abstract!Lapse, ExpireStale, Holding
<1> QED BY <1>2, <1>3

\* Replacing one row after the expiry replaces one hold after the lapse.
LEMMA ReplaceIsReplace ==
  ASSUME LeaseIInv, NEW now \in Times, NEW id \in LeaseIds, NEW row,
         lease' = [ExpireStale(now) EXCEPT ![id] = row]
  PROVE  Holding' = [Abstract!Lapse(now) EXCEPT ![id] = HoldOf(row)]
<1>1. Holding' = [i \in LeaseIds |-> IF i = id THEN HoldOf(row)
                                     ELSE HoldOf(ExpireStale(now)[i])]
  BY DEF Holding, ExpireStale
<1>2. \A i \in LeaseIds : HoldOf(ExpireStale(now)[i]) = Abstract!Lapse(now)[i]
  BY ExpireIsLapse
<1>3. Abstract!Lapse(now) = [i \in LeaseIds |-> Abstract!Lapse(now)[i]]
  BY DEF Abstract!Lapse
<1> HIDE DEF Holding
<1> QED BY <1>1, <1>2, <1>3

LEMMA AcquireGrants ==
  ASSUME LeaseIInv, NEW c \in Controllers, NEW id \in LeaseIds,
         NEW t \in Tasks, NEW b \in Branches, NEW ttl \in Ttls,
         Acquire(c, id, t, b, ttl)
  PROVE  Abstract!Answer(c)
<1> DEFINE now == call[c]
           row == [task |-> t, branch |-> b, owner |-> OwnerOf[c],
                   state |-> "ACTIVE", acquired_at |-> now,
                   heartbeat_at |-> now, expires_at |-> now + ttl,
                   released_at |-> NoTime]
           new == [status |-> "held", task |-> t, branch |-> b,
                   owner |-> OwnerOf[c], deadline |-> now + ttl]
<1>1. now \in Times /\ OwnerOf[c] \in Owners
  BY PendingInstant, OwnerAssumption DEF Acquire, LeaseIInv
<1>2. ttl \in Nat \ {0} /\ now + ttl \in Times /\ now + ttl > now
  BY <1>1, TtlAssumption, HorizonAssumption DEF Acquire, WithinHorizon, Times
<1>3. HoldOf(row) = new
  BY DEF HoldOf, NoLease
<1>4. Holding' = [Abstract!Lapse(now) EXCEPT ![id] = new]
  BY <1>1, <1>3, ReplaceIsReplace DEF Acquire
<1>5. Holding[id] = Abstract!Unused
  BY HeldIsActive DEF Acquire, LeaseIInv
<1>6. ASSUME NEW other \in LeaseIds \ Abstract!Overdue(now), Abstract!Held(other)
      PROVE  Holding[other].task # new.task /\ Holding[other].branch # new.branch
  <2>1. Active(other) /\ Holding[other].task = lease[other].task
        /\ Holding[other].branch = lease[other].branch
        /\ Holding[other].deadline = lease[other].expires_at
    BY <1>6, HeldIsActive DEF LeaseIInv
  <2>2. ~Stale(lease[other], now)
    BY <1>6, <2>1 DEF Abstract!Overdue, Stale
  <2>3. ExpireStale(now)[other] = lease[other]
    BY <2>2 DEF ExpireStale
  <2> QED BY <2>1, <2>3 DEF Acquire, IndexesAllow, Active
<1>7. Abstract!Grant(id, new, now)
  BY <1>2, <1>4, <1>5, <1>6 DEF Abstract!Grant
<1>8. now # NoTime /\ call' = [call EXCEPT ![c] = NoTime]
  BY DEF Acquire, Pending, Return
<1> QED BY <1>2, <1>7, <1>8 DEF Abstract!Answer

\* The hold behind a row that a heartbeat or a release may touch.
LEMMA OwnHold ==
  ASSUME LeaseIInv, NEW c \in Controllers, NEW id \in LeaseIds,
         NEW now \in Times, OwnActive(c, id, now)
  PROVE  /\ Abstract!Held(id) /\ Holding[id].owner = OwnerOf[c]
         /\ Holding[id].deadline > now
         /\ Abstract!Lapse(now)[id] = Holding[id]
<1>1. Active(id) /\ lease[id].owner = OwnerOf[c]
  BY DEF OwnActive
<1>2. lease[id].expires_at > now
  BY OwnActiveRow, HorizonAssumption DEF Rows, Times
<1>3. /\ Abstract!Held(id) /\ Holding[id].owner = OwnerOf[c]
      /\ Holding[id].deadline = lease[id].expires_at
  BY <1>1, HeldIsActive DEF LeaseIInv
<1>4. id \notin Abstract!Overdue(now)
  <2>1. lease[id].expires_at \in Times
    BY OwnActiveRow DEF Rows
  <2> QED BY <1>2, <1>3, <2>1, HorizonAssumption DEF Abstract!Overdue, Times
<1> QED BY <1>2, <1>3, <1>4 DEF Abstract!Lapse

LEMMA HeartbeatExtends ==
  ASSUME LeaseIInv, NEW c \in Controllers, NEW id \in LeaseIds, NEW ttl \in Ttls,
         Heartbeat(c, id, ttl)
  PROVE  Abstract!Answer(c)
<1> DEFINE now == call[c]
           row == [lease[id] EXCEPT !.heartbeat_at = now, !.expires_at = now + ttl]
<1>1. now \in Times /\ OwnActive(c, id, now) /\ OwnerOf[c] \in Owners
  BY PendingInstant, OwnerAssumption DEF Heartbeat, LeaseIInv
<1>2. now + ttl \in Times /\ now + ttl > now
  BY <1>1, TtlAssumption, HorizonAssumption DEF Heartbeat, WithinHorizon, Times
<1>3. lease' = [ExpireStale(now) EXCEPT ![id] = row]
  BY <1>1, OwnActiveRow DEF Heartbeat, ExpireStale
<1>4. HoldOf(row) = [Holding[id] EXCEPT !.deadline = now + ttl]
  <2>1. lease[id] \in Rows /\ lease[id].state = "ACTIVE"
    BY <1>1, OwnActiveRow
  <2>2. /\ row \in Rows /\ row.state = "ACTIVE"
        /\ row.task = lease[id].task /\ row.branch = lease[id].branch
        /\ row.owner = lease[id].owner /\ row.expires_at = now + ttl
    BY <1>1, <1>2, <2>1 DEF Rows
  <2>3. HoldOf(row) = [status |-> "held", task |-> lease[id].task,
                       branch |-> lease[id].branch, owner |-> lease[id].owner,
                       deadline |-> now + ttl]
    <3> HIDE DEF row, now
    <3> QED BY <2>2, HoldOfRow
  <2>4. Holding[id] = [status |-> "held", task |-> lease[id].task,
                       branch |-> lease[id].branch, owner |-> lease[id].owner,
                       deadline |-> lease[id].expires_at]
    BY <2>1, HoldOfRow DEF Holding
  <2> HIDE DEF row, now
  <2> QED BY <2>3, <2>4
<1>5. Holding' = [Abstract!Lapse(now) EXCEPT ![id] = HoldOf(row)]
  <2> HIDE DEF row, now
  <2> QED BY <1>1, <1>3, ReplaceIsReplace
<1>6. Holding' = [Abstract!Lapse(now) EXCEPT ![id].deadline = now + ttl]
  BY <1>1, <1>4, <1>5, OwnHold DEF Abstract!Lapse
<1>7. Abstract!Extend(id, OwnerOf[c], now, now + ttl)
  <2> HIDE DEF now
  <2> QED BY <1>1, <1>2, <1>6, OwnHold DEF Abstract!Extend
<1>8. now # NoTime /\ call' = [call EXCEPT ![c] = NoTime]
  BY DEF Heartbeat, Pending, Return
<1> HIDE DEF row
<1> QED BY <1>2, <1>7, <1>8 DEF Abstract!Answer

LEMMA ReleaseGivesBack ==
  ASSUME LeaseIInv, NEW c \in Controllers, NEW id \in LeaseIds, Release(c, id)
  PROVE  Abstract!Answer(c)
<1> DEFINE now == call[c]
           row == [lease[id] EXCEPT !.state = "RELEASED", !.released_at = now]
<1>1. now \in Times /\ OwnActive(c, id, now) /\ OwnerOf[c] \in Owners
  BY PendingInstant, OwnerAssumption DEF Release, LeaseIInv
<1>2. lease' = [ExpireStale(now) EXCEPT ![id] = row]
  BY <1>1, OwnActiveRow DEF Release, ExpireStale
<1>3. HoldOf(row) = Abstract!Spent
  <2>1. lease[id] \in Rows
    BY <1>1, OwnActiveRow
  <2>2. row \in Rows /\ row.state = "RELEASED"
    BY <1>1, <2>1 DEF Rows
  <2> HIDE DEF row
  <2> QED BY <2>2, HoldOfRow DEF Abstract!Spent
<1>4. Holding' = [Abstract!Lapse(now) EXCEPT ![id] = Abstract!Spent]
  <2> HIDE DEF row, now
  <2> QED BY <1>1, <1>2, <1>3, ReplaceIsReplace
<1>5. Abstract!GiveBack(id, OwnerOf[c], now)
  <2> HIDE DEF now
  <2> QED BY <1>1, <1>4, OwnHold DEF Abstract!GiveBack
<1>6. now # NoTime /\ call' = [call EXCEPT ![c] = NoTime]
  BY DEF Release, Pending, Return
<1> HIDE DEF row
<1> QED BY <1>5, <1>6 DEF Abstract!Answer

LEMMA SweepReclaims ==
  ASSUME LeaseIInv, NEW c \in Controllers, Sweep(c)
  PROVE  Abstract!Answer(c)
<1>1. call[c] \in Times /\ lease' = ExpireStale(call[c])
  BY PendingInstant DEF Sweep, LeaseIInv
<1>2. Holding' = Abstract!Lapse(call[c])
  BY <1>1, ExpireIsLapse DEF Holding
<1>3. call[c] # NoTime /\ call' = [call EXCEPT ![c] = NoTime]
  BY DEF Sweep, Pending, Return
<1> QED BY <1>2, <1>3 DEF Abstract!Answer, Abstract!Reclaim

LEMMA RefinesStep ==
  LeaseIInv /\ [LeaseNext]_leaseVars => [Abstract!Next]_<<Holding, call>>
<1> SUFFICES ASSUME LeaseIInv, [LeaseNext]_leaseVars
             PROVE  [Abstract!Next]_<<Holding, call>>
  OBVIOUS
<1>1. CASE ClockStep \/ UNCHANGED leaseVars
  <2>1. UNCHANGED <<lease, call>>
    BY <1>1 DEF ClockStep, Tick, SetBack, leaseVars
  <2> QED BY <2>1 DEF Holding
<1>2. ASSUME NEW c \in Controllers, LeaseCall(c)
      PROVE  [Abstract!Next]_<<Holding, call>>
  <2>1. CASE ReadClock(c)
    <3>1. Holding' = Holding
      BY <2>1 DEF ReadClock, Holding
    <3>2. clock \in Times /\ Abstract!Ask(c, clock)
      BY <2>1, <3>1 DEF ReadClock, Abstract!Ask, LeaseIInv, LeaseTypeOK
    <3> QED BY <3>2 DEF Abstract!Next
  <2>2. CASE Abandon(c)
    <3>1. Holding' = Holding
      BY <2>2 DEF Abandon, Holding
    <3>2. Abstract!Answer(c)
      BY <2>2, <3>1 DEF Abandon, Pending, Return, Abstract!Answer, Abstract!Refuse
    <3> QED BY <3>2 DEF Abstract!Next
  <2>3. CASE \E id \in LeaseIds, t \in Tasks, b \in Branches, ttl \in Ttls :
                Acquire(c, id, t, b, ttl)
    BY <2>3, AcquireGrants DEF Abstract!Next
  <2>4. CASE \E id \in LeaseIds, ttl \in Ttls : Heartbeat(c, id, ttl)
    BY <2>4, HeartbeatExtends DEF Abstract!Next
  <2>5. CASE \E id \in LeaseIds : Release(c, id)
    BY <2>5, ReleaseGivesBack DEF Abstract!Next
  <2>6. CASE Sweep(c)
    BY <2>6, SweepReclaims DEF Abstract!Next
  <2> QED BY <1>2, <2>1, <2>2, <2>3, <2>4, <2>5, <2>6 DEF LeaseCall
<1> QED BY <1>1, <1>2 DEF LeaseNext

(***************************************************************************)
(* Every behaviour of the ledger, however its calls interleave, is one of  *)
(* the abstract exclusive lease: initial states map to initial states and  *)
(* every step to a step or a stutter.                                      *)
(***************************************************************************)
THEOREM LeaseRefines == LeaseSpec => ImplementsExclusiveLease
<1> QED BY LeaseInvariant, RefinesInit, RefinesStep, PTL
        DEF LeaseSpec, ImplementsExclusiveLease, Abstract!Spec

-----------------------------------------------------------------------------
(* The invariants, task by task. *)

Replays(t) ==
    IF Registered(t)
    THEN /\ Len(history[t]) = task[t].revision
         /\ history[t] # << >>
         /\ history[t][1].prior = "NONE"
         /\ \A i \in 2 .. Len(history[t]) : history[t][i].prior = history[t][i - 1].new
         /\ Last(t).new = task[t].state
         /\ Last(t).head = task[t].head
         /\ Last(t).attempt = task[t].attempt
    ELSE history[t] = << >>

Cited(t, i) ==
    /\ history[t][i].artifacts # {}
    /\ \A v \in history[t][i].artifacts :
          evidence[v] = [task |-> t, attempt |-> history[t][i].attempt,
                         revision |-> i - 1, gate |-> history[t][i].gate,
                         head |-> history[t][i - 1].head, result |-> "PASS"]

Gated(t) ==
    \A i \in 2 .. Len(history[t]) :
        Edge(history[t][i]) \in EvidenceGateTransitions => Cited(t, i)

Merged(t) ==
    /\ task[t].state \in PastVerification => PassedOnThisHead(t, <<"VERIFYING", "PR_DRAFT">>)
    /\ task[t].state \in PastReview => PassedOnThisHead(t, <<"REVIEWING", "CI_PENDING">>)
    /\ task[t].state \in PastCI =>
          PassedOnThisHead(t, <<"CI_PENDING", "READY_FOR_POLICY_MERGE">>)

Counted(t) ==
    Registered(t) =>
        /\ task[t].attempt = 1 + Cardinality(Retries(t))
        /\ task[t].attempt <= task[t].max_attempts

Sound(t) == Replays(t) /\ Gated(t) /\ Merged(t) /\ Counted(t)

StateInv == LeaseIInv /\ TypeOK /\ \A t \in Tasks : Sound(t)

LEMMA SoundMeans ==
    (\A t \in Tasks : Sound(t)) =>
        HistoryReplays /\ GatedByEvidence /\ MergedHeadWasGated /\ AttemptsCounted
  BY DEF Sound, Replays, Gated, Cited, Merged, Counted,
         HistoryReplays, GatedByEvidence, MergedHeadWasGated, AttemptsCounted

\* A record of evidence that passed is a record.
LEMMA PassIsEvidence ==
    ASSUME NEW t, NEW a, NEW r, NEW g, NEW h
    PROVE  [task |-> t, attempt |-> a, revision |-> r, gate |-> g,
            head |-> h, result |-> "PASS"] # NoEvidence
  BY DEF NoEvidence

-----------------------------------------------------------------------------
(* A task that a step leaves alone. *)

LEMMA SoundFrame ==
    ASSUME NEW t \in Tasks, TypeOK, Sound(t),
           task'[t] = task[t], history'[t] = history[t],
           \A v \in EvidenceIds : evidence[v] # NoEvidence => evidence'[v] = evidence[v]
    PROVE  Sound(t)'
  <1>1. Replays(t)'
    BY DEF Sound, Replays, Registered, Last
  <1>2. Counted(t)'
    BY DEF Sound, Counted, Registered, Retries, Edge
  <1>3. Merged(t)'
    BY DEF Sound, Merged, PassedOnThisHead, Edge
  <1>4. Gated(t)'
    <2> SUFFICES ASSUME NEW i \in 2 .. Len(history[t]),
                        Edge(history[t][i]) \in EvidenceGateTransitions
                 PROVE  Cited(t, i)'
      BY DEF Gated
    <2>1. Cited(t, i)
      BY DEF Sound, Gated
    <2>2. history[t] \in Seq(Events) /\ i \in 1 .. Len(history[t])
      BY DEF TypeOK
    <2>3. history[t][i] \in Events
      BY <2>2
    <2>4. history[t][i].artifacts \subseteq EvidenceIds
      BY <2>3 DEF Events
    <2> QED
      BY <2>1, <2>4, PassIsEvidence DEF Cited
  <1> QED BY <1>1, <1>2, <1>3, <1>4 DEF Sound

-----------------------------------------------------------------------------
(* register. *)

LEMMA RegisterInv ==
    ASSUME StateInv, NEW t \in Tasks, NEW status \in DispatchableStates,
           NEW limit \in AttemptLimits, NEW base \in Heads, NEW gate \in Gates,
           NEW instant \in Times, Register(t, status, limit, base, gate, instant)
    PROVE  StateInv'
  <1> DEFINE event == [prior |-> "NONE", new |-> status, attempt |-> 1, head |-> base,
                       gate |-> gate, result |-> "PASS", artifacts |-> {}]
             row == [state |-> status, revision |-> 1, attempt |-> 1,
                     max_attempts |-> limit, base |-> base, head |-> base,
                     updated_at |-> instant]
  <1>1. status \in TaskStates /\ status \notin PastVerification
    BY DEF DispatchableStates, TaskStates, TerminalStates, NormalTransitions, FailureStates,
           PastVerification, PastReview, PastCI
  <1>2. event \in Events /\ row \in TaskRows
    BY <1>1 DEF Events, TaskRows
  <1>3. /\ task' = [task EXCEPT ![t] = row]
        /\ history' = [history EXCEPT ![t] = <<event>>]
        /\ UNCHANGED <<leaseVars, evidence>>
    BY DEF Register
  <1>4. TypeOK'
    <2>1. LeaseTypeOK'
      BY <1>3 DEF StateInv, TypeOK, LeaseTypeOK, leaseVars, Active
    <2>2. <<event>> \in Seq(Events)
      BY <1>2
    <2> QED
      BY <1>2, <1>3, <2>1, <2>2 DEF StateInv, TypeOK
  <1>5. task'[t] = row /\ history'[t] = <<event>>
    BY <1>3 DEF StateInv, TypeOK
  <1>6. Sound(t)'
    <2>1. row # NoTask
      BY <1>1 DEF NoTask, TaskStates, TerminalStates, NormalTransitions, FailureStates
    <2>2. Len(<<event>>) = 1 /\ <<event>>[1] = event /\ <<event>> # << >>
      OBVIOUS
    <2>3. Replays(t)'
      BY <1>5, <2>1, <2>2 DEF Replays, Registered, Last
    <2>4. Gated(t)'
      BY <1>5, <2>2 DEF Gated
    <2>5. Merged(t)'
      BY <1>1, <1>5 DEF Merged, PastVerification, PastReview
    <2>6. Retries(t)' = {}
      BY <1>5, <2>2 DEF Retries
    <2>7. Counted(t)'
      BY <1>5, <2>6, FS_EmptySet, AttemptAssumption DEF Counted
    <2> QED BY <2>3, <2>4, <2>5, <2>7 DEF Sound
  <1>7. ASSUME NEW u \in Tasks, u # t PROVE Sound(u)'
    <2>1. task'[u] = task[u] /\ history'[u] = history[u] /\ evidence' = evidence
      BY <1>3, <1>7 DEF StateInv, TypeOK
    <2> QED BY <2>1, SoundFrame DEF StateInv
  <1>8. LeaseIInv'
    BY <1>3, LeaseStepInv DEF StateInv
  <1> QED BY <1>4, <1>6, <1>7, <1>8 DEF StateInv

-----------------------------------------------------------------------------
(* record_evidence. *)

LEMMA RecordEvidenceInv ==
    ASSUME StateInv, NEW t \in Tasks, NEW id \in LeaseIds, NEW e \in 1 .. Len(history[t]),
           RecordEvidence(t, id, e)
    PROVE  StateInv'
  <1>1. PICK v \in EvidenceIds, gate \in Gates, result \in {"PASS", "FAIL"} :
           /\ evidence[v] = NoEvidence
           /\ evidence' = [evidence EXCEPT ![v] =
                [task |-> t, attempt |-> history[t][e].attempt, revision |-> e,
                 gate |-> gate, head |-> history[t][e].head, result |-> result]]
    BY DEF RecordEvidence
  <1>2. UNCHANGED <<leaseVars, task, history>>
    BY DEF RecordEvidence
  <1>3. history[t][e] \in Events /\ e \in Nat
    BY DEF StateInv, TypeOK
  <1>4. TypeOK'
    <2>1. LeaseTypeOK'
      BY <1>2 DEF StateInv, TypeOK, LeaseTypeOK, leaseVars, Active
    <2>2. [task |-> t, attempt |-> history[t][e].attempt, revision |-> e, gate |-> gate,
           head |-> history[t][e].head, result |-> result] \in EvidenceRows
      BY <1>3 DEF Events, EvidenceRows
    <2> QED BY <1>1, <1>2, <2>1, <2>2 DEF StateInv, TypeOK
  <1>5. \A w \in EvidenceIds : evidence[w] # NoEvidence => evidence'[w] = evidence[w]
    BY <1>1 DEF StateInv, TypeOK
  <1>6. ASSUME NEW u \in Tasks PROVE Sound(u)'
    BY <1>2, <1>5, SoundFrame DEF StateInv
  <1>7. LeaseIInv'
    BY <1>2, LeaseStepInv DEF StateInv
  <1> QED BY <1>4, <1>6, <1>7 DEF StateInv

-----------------------------------------------------------------------------
(* transition. *)

\* The states a task may move to are states; only these edges lead past a gate.
LEMMA AllowedStates ==
    ASSUME NEW prior, NEW new \in Allowed(prior)
    PROVE  /\ new \in TaskStates
           /\ new \in PastVerification =>
                 <<prior, new>> \in
                    {<<"VERIFYING", "PR_DRAFT">>, <<"PR_DRAFT", "REVIEWING">>,
                     <<"REVIEWING", "CI_PENDING">>,
                     <<"CI_PENDING", "READY_FOR_POLICY_MERGE">>,
                     <<"READY_FOR_POLICY_MERGE", "AUTO_MERGE_PENDING">>,
                     <<"AUTO_MERGE_PENDING", "MERGED">>, <<"MERGED", "DONE">>}
  BY DEF Allowed, TaskStates, TerminalStates, NormalTransitions, FailureStates,
         InterruptionStates, PastVerification, PastReview, PastCI

\* What a transition is, once the caller's revision is known to be the last one.
Moved(t, new, head, gate, artifacts) ==
    LET n == Len(history[t])
        attempt == NextAttempt(task[t], new)
    IN
    /\ new \in Allowed(task[t].state)
    /\ attempt \in 1 .. task[t].max_attempts
    /\ head # task[t].head => <<task[t].state, new>> \in HeadChangeTransitions
    /\ IF <<task[t].state, new>> \in EvidenceGateTransitions
       THEN /\ artifacts # {}
            /\ \A v \in artifacts :
                  evidence[v] = [task |-> t, attempt |-> attempt, revision |-> n,
                                 gate |-> gate, head |-> task[t].head, result |-> "PASS"]
       ELSE artifacts = {}
    /\ task' = [task EXCEPT ![t] =
                  [@ EXCEPT !.state = new, !.revision = n + 1, !.attempt = attempt,
                            !.head = head, !.updated_at = clock]]
    /\ history' = [history EXCEPT ![t] = Append(@,
                     [prior |-> task[t].state, new |-> new, attempt |-> attempt,
                      head |-> head, gate |-> gate, result |-> ResultOf(new),
                      artifacts |-> artifacts])]
    /\ UNCHANGED <<leaseVars, evidence>>

LEMMA TransitionMoves ==
    ASSUME StateInv, NEW t \in Tasks, NEW id \in LeaseIds, NEW e \in 1 .. Len(history[t]),
           Transition(t, id, e)
    PROVE  /\ Registered(t)
           /\ \E new \in TaskStates, head \in Heads, gate \in Gates,
                 artifacts \in SUBSET EvidenceIds : Moved(t, new, head, gate, artifacts)
  <1>1. /\ Registered(t)
        /\ task[t].state = history[t][e].new /\ task[t].revision = e
        /\ task[t].head = history[t][e].head
    BY DEF Transition, Current
  <1>2. e = Len(history[t])
    BY <1>1 DEF StateInv, Sound, Replays
  <1>3. PICK new \in Allowed(history[t][e].new) \cap Targets :
          LET attempt == NextAttempt(task[t], new) IN
          /\ attempt \in 1 .. task[t].max_attempts
          /\ \E head \in Heads :
                /\ HeadPolicy(t, e, new, head)
                /\ \E gate \in Gates, artifacts \in SUBSET EvidenceIds :
                      /\ EvidencePolicy(t, e, new, attempt, gate, artifacts)
                      /\ Move(t, e, new, attempt, head, gate, artifacts)
    BY DEF Transition
  <1> DEFINE attempt == NextAttempt(task[t], new)
  <1>4. PICK head \in Heads, gate \in Gates, artifacts \in SUBSET EvidenceIds :
           /\ HeadPolicy(t, e, new, head)
           /\ EvidencePolicy(t, e, new, attempt, gate, artifacts)
           /\ Move(t, e, new, attempt, head, gate, artifacts)
    BY <1>3
  <1>5. new \in TaskStates /\ new \in Allowed(task[t].state)
    BY <1>1, <1>3, AllowedStates
  <1>6. head # task[t].head => <<task[t].state, new>> \in HeadChangeTransitions
    BY <1>1, <1>4 DEF HeadPolicy
  <1>7. IF <<task[t].state, new>> \in EvidenceGateTransitions
        THEN EvidenceAuthorized(t, e, attempt, gate, artifacts) ELSE artifacts = {}
    BY <1>1, <1>4 DEF EvidencePolicy
  <1>8. /\ task' = [task EXCEPT ![t].state = new, ![t].revision = task[t].revision + 1,
                               ![t].attempt = attempt, ![t].head = head,
                               ![t].updated_at = clock]
        /\ history' = [history EXCEPT ![t] = Append(@,
                     [prior |-> history[t][e].new, new |-> new, attempt |-> attempt,
                      head |-> head, gate |-> gate, result |-> ResultOf(new),
                      artifacts |-> artifacts])]
    BY <1>4 DEF Move
  <1>9. UNCHANGED <<leaseVars, evidence>>
    BY DEF Transition
  <1>10. Moved(t, new, head, gate, artifacts)
    <2>1. attempt \in 1 .. task[t].max_attempts
      BY <1>3
    <2>2. task' = [task EXCEPT ![t] =
                  [@ EXCEPT !.state = new, !.revision = Len(history[t]) + 1,
                            !.attempt = attempt, !.head = head, !.updated_at = clock]]
      BY <1>1, <1>2, <1>8
    <2> QED
      BY <1>1, <1>2, <1>5, <1>6, <1>7, <1>8, <1>9, <2>1, <2>2 DEF Moved, EvidenceAuthorized
  <1> QED BY <1>1, <1>4, <1>5, <1>10

\* The row and the history of a task that has moved.
LEMMA MovedShape ==
    ASSUME StateInv, NEW t \in Tasks, Registered(t),
           NEW new \in TaskStates, NEW head \in Heads, NEW gate \in Gates,
           NEW artifacts \in SUBSET EvidenceIds, Moved(t, new, head, gate, artifacts)
    PROVE  LET n == Len(history[t])
               attempt == NextAttempt(task[t], new)
               event == [prior |-> task[t].state, new |-> new, attempt |-> attempt,
                         head |-> head, gate |-> gate, result |-> ResultOf(new),
                         artifacts |-> artifacts]
           IN
           /\ n \in Nat \ {0} /\ attempt \in Nat
           /\ task[t] \in TaskRows /\ event \in Events
           /\ history[t] \in Seq(Events) /\ history'[t] \in Seq(Events)
           /\ task'[t] \in TaskRows
           /\ task'[t].state = new /\ task'[t].revision = n + 1
           /\ task'[t].attempt = attempt /\ task'[t].head = head
           /\ task'[t].max_attempts = task[t].max_attempts
           /\ Len(history'[t]) = n + 1 /\ history'[t][n + 1] = event
           /\ \A i \in 1 .. n : history'[t][i] = history[t][i]
           /\ \A u \in Tasks \ {t} : task'[u] = task[u] /\ history'[u] = history[u]
  <1> DEFINE n == Len(history[t])
             attempt == NextAttempt(task[t], new)
             event == [prior |-> task[t].state, new |-> new, attempt |-> attempt,
                       head |-> head, gate |-> gate, result |-> ResultOf(new),
                       artifacts |-> artifacts]
             row == [task[t] EXCEPT !.state = new, !.revision = n + 1, !.attempt = attempt,
                                    !.head = head, !.updated_at = clock]
  <1>1. task[t] \in TaskRows /\ history[t] \in Seq(Events)
    BY DEF StateInv, TypeOK, Registered
  <1>2. n \in Nat \ {0}
    BY <1>1 DEF StateInv, Sound, Replays
  <1>3. attempt \in Nat
    BY <1>1 DEF NextAttempt, TaskRows
  <1>4. event \in Events
    <2>1. ResultOf(new) \in {"PASS", "FAIL", "NONE"}
      BY DEF ResultOf
    <2> QED BY <1>1, <1>3, <2>1 DEF Events, TaskRows
  <1>5. clock \in Times
    BY DEF StateInv, TypeOK, LeaseTypeOK
  <1>6. row \in TaskRows
    <2>1. n + 1 \in Nat
      BY <1>2
    <2> HIDE DEF n, attempt
    <2> QED BY <1>1, <1>3, <1>5, <2>1 DEF TaskRows
  <1>7. task' = [task EXCEPT ![t] = row] /\ history' = [history EXCEPT ![t] = Append(@, event)]
    BY DEF Moved
  <1>8. task'[t] = row /\ history'[t] = Append(history[t], event)
    BY <1>7 DEF StateInv, TypeOK
  <1>9. /\ row.state = new /\ row.revision = n + 1 /\ row.attempt = attempt /\ row.head = head
        /\ row.max_attempts = task[t].max_attempts
    BY <1>1 DEF TaskRows
  <1>10. /\ Append(history[t], event) \in Seq(Events)
         /\ Len(Append(history[t], event)) = n + 1
         /\ Append(history[t], event)[n + 1] = event
         /\ \A i \in 1 .. n : Append(history[t], event)[i] = history[t][i]
    BY <1>1, <1>2, <1>4
  <1>11. \A u \in Tasks \ {t} : task'[u] = task[u] /\ history'[u] = history[u]
    BY <1>7 DEF StateInv, TypeOK
  <1> HIDE DEF n, attempt, event, row
  <1>12. task'[t] \in TaskRows /\ task'[t].state = new /\ task'[t].revision = n + 1
         /\ task'[t].attempt = attempt /\ task'[t].head = head
         /\ task'[t].max_attempts = task[t].max_attempts
    BY <1>6, <1>8, <1>9
  <1>13. /\ history'[t] \in Seq(Events) /\ Len(history'[t]) = n + 1
         /\ history'[t][n + 1] = event
         /\ \A i \in 1 .. n : history'[t][i] = history[t][i]
    BY <1>8, <1>10
  <1> QED
    BY <1>1, <1>2, <1>3, <1>4, <1>11, <1>12, <1>13 DEF n, attempt, event

\* An edge that was passed on this head and in this attempt stays so while both stay.
LEMMA PassedKept ==
    ASSUME NEW t \in Tasks, NEW edge, NEW n \in Nat \ {0},
           Len(history[t]) = n, Len(history'[t]) = n + 1,
           \A i \in 1 .. n : history'[t][i] = history[t][i],
           history'[t][n + 1].head = task'[t].head,
           history'[t][n + 1].attempt = task'[t].attempt,
           task'[t].head = task[t].head, task'[t].attempt = task[t].attempt,
           PassedOnThisHead(t, edge)
    PROVE  PassedOnThisHead(t, edge)'
  <1>1. PICK i \in 2 .. n :
           /\ Edge(history[t][i]) = edge
           /\ \A j \in i - 1 .. n : /\ history[t][j].head = task[t].head
                                    /\ history[t][j].attempt = task[t].attempt
    BY DEF PassedOnThisHead
  <1>2. Edge(history'[t][i]) = edge
    BY <1>1 DEF Edge
  <1>3. ASSUME NEW j \in i - 1 .. n + 1
        PROVE  history'[t][j].head = task'[t].head /\ history'[t][j].attempt = task'[t].attempt
    BY <1>1, <1>3
  <1> QED BY <1>1, <1>2, <1>3 DEF PassedOnThisHead, Edge

\* The edge that is passed now.
LEMMA PassedNow ==
    ASSUME NEW t \in Tasks, NEW edge, NEW n \in Nat \ {0},
           Len(history'[t]) = n + 1,
           history'[t][n].head = task'[t].head, history'[t][n].attempt = task'[t].attempt,
           history'[t][n + 1].head = task'[t].head,
           history'[t][n + 1].attempt = task'[t].attempt,
           Edge(history'[t][n + 1]) = edge
    PROVE  PassedOnThisHead(t, edge)'
  <1>1. n + 1 \in 2 .. Len(history'[t]) /\ (n + 1) - 1 = n
    OBVIOUS
  <1> QED BY <1>1 DEF PassedOnThisHead, Edge

LEMMA MovedSound ==
    ASSUME StateInv, NEW t \in Tasks, Registered(t),
           NEW new \in TaskStates, NEW head \in Heads, NEW gate \in Gates,
           NEW artifacts \in SUBSET EvidenceIds, Moved(t, new, head, gate, artifacts)
    PROVE  Sound(t)'
  <1> DEFINE n == Len(history[t])
             attempt == NextAttempt(task[t], new)
             prior == task[t].state
             event == [prior |-> prior, new |-> new, attempt |-> attempt,
                       head |-> head, gate |-> gate, result |-> ResultOf(new),
                       artifacts |-> artifacts]
  <1>0. /\ n \in Nat \ {0} /\ attempt \in Nat
        /\ task'[t] \in TaskRows /\ task[t] \in TaskRows
        /\ task'[t].state = new /\ task'[t].revision = n + 1
        /\ task'[t].attempt = attempt /\ task'[t].head = head
        /\ task'[t].max_attempts = task[t].max_attempts
        /\ Len(history'[t]) = n + 1 /\ history'[t][n + 1] = event
        /\ \A i \in 1 .. n : history'[t][i] = history[t][i]
    BY MovedShape
  <1>2. /\ new \in Allowed(prior)
        /\ attempt \in 1 .. task[t].max_attempts
        /\ head # task[t].head => <<prior, new>> \in HeadChangeTransitions
        /\ IF <<prior, new>> \in EvidenceGateTransitions
           THEN /\ artifacts # {}
                /\ \A v \in artifacts :
                      evidence[v] = [task |-> t, attempt |-> attempt, revision |-> n,
                                     gate |-> gate, head |-> task[t].head, result |-> "PASS"]
           ELSE artifacts = {}
        /\ evidence' = evidence
    BY DEF Moved
  <1>3. /\ Sound(t)
        /\ history[t][n].new = prior /\ history[t][n].head = task[t].head
        /\ history[t][n].attempt = task[t].attempt
        /\ history[t][1].prior = "NONE"
        /\ \A i \in 2 .. n : history[t][i].prior = history[t][i - 1].new
    BY DEF StateInv, Sound, Replays, Last
  <1> HIDE DEF n, attempt, prior
  <1>l. /\ event.prior = prior /\ event.new = new /\ event.attempt = attempt
        /\ event.head = head /\ event.gate = gate /\ event.artifacts = artifacts
    OBVIOUS
  <1> HIDE DEF event
  <1>m. /\ n \in Nat /\ n >= 1 /\ n = Len(history[t]) /\ Len(history'[t]) = n + 1
        /\ task'[t].state = new /\ task'[t].revision = n + 1
        /\ task'[t].attempt = attempt /\ task'[t].head = head
    BY <1>0 DEF n
  <1>1. /\ history'[t][n + 1] = event
        /\ history'[t][n] = history[t][n] /\ history'[t][1] = history[t][1]
        /\ \A i \in 2 .. n : history'[t][i] = history[t][i] /\ history'[t][i - 1] = history[t][i - 1]
    BY <1>0, <1>m
  <1>4. Registered(t)'
    BY <1>0 DEF Registered, NoTask, TaskRows, TaskStates, TerminalStates, NormalTransitions,
                FailureStates
  <1>5. Replays(t)'
    <2>1. history'[t] # << >>
      BY <1>m
    <2>2. ASSUME NEW i \in 2 .. n + 1 PROVE history'[t][i].prior = history'[t][i - 1].new
      <3>1. CASE i = n + 1
        BY <1>1, <1>3, <1>l, <1>m, <3>1
      <3>2. CASE i \in 2 .. n
        BY <1>1, <1>3, <3>2
      <3> QED BY <1>m, <3>1, <3>2
    <2> QED BY <1>1, <1>3, <1>4, <1>l, <1>m, <2>1, <2>2 DEF Replays, Last
  <1>6. Gated(t)'
    <2> SUFFICES ASSUME NEW i \in 2 .. n + 1,
                        Edge(history'[t][i]) \in EvidenceGateTransitions
                 PROVE  Cited(t, i)'
      BY <1>m DEF Gated, Edge
    <2>1. CASE i = n + 1
      <3>1. Edge(history'[t][i]) = <<prior, new>>
        BY <1>1, <1>l, <2>1 DEF Edge
      <3>2. i - 1 = n /\ history'[t][n].head = task[t].head
        BY <1>1, <1>3, <1>m, <2>1
      <3>3. history'[t][i].artifacts = artifacts /\ history'[t][i].gate = gate
            /\ history'[t][i].attempt = attempt
        BY <1>1, <1>l, <2>1
      <3> QED BY <1>2, <2>1, <3>1, <3>2, <3>3 DEF Cited
    <2>2. CASE i \in 2 .. n
      <3>1. history'[t][i] = history[t][i] /\ history'[t][i - 1] = history[t][i - 1]
        BY <1>1, <2>2
      <3>2. Cited(t, i)
        BY <1>3, <2>2, <3>1 DEF Sound, Gated, n
      <3> QED BY <1>2, <3>1, <3>2 DEF Cited
    <2> QED BY <1>m, <2>1, <2>2
  <1>7. Merged(t)'
    <2>1. SUFFICES ASSUME new \in PastVerification PROVE Merged(t)'
      BY <1>m DEF Merged, PastVerification, PastReview
    <2>2. <<prior, new>> \in
             {<<"VERIFYING", "PR_DRAFT">>, <<"PR_DRAFT", "REVIEWING">>,
              <<"REVIEWING", "CI_PENDING">>,
              <<"CI_PENDING", "READY_FOR_POLICY_MERGE">>,
              <<"READY_FOR_POLICY_MERGE", "AUTO_MERGE_PENDING">>,
              <<"AUTO_MERGE_PENDING", "MERGED">>, <<"MERGED", "DONE">>}
      BY <1>2, <2>1, AllowedStates
    <2>3. head = task[t].head /\ attempt = task[t].attempt
      BY <1>2, <2>2 DEF HeadChangeTransitions, NextAttempt, Retrying, attempt, prior
    <2>4. /\ history'[t][n].head = task'[t].head /\ history'[t][n].attempt = task'[t].attempt
          /\ history'[t][n + 1].head = task'[t].head
          /\ history'[t][n + 1].attempt = task'[t].attempt
      BY <1>1, <1>3, <1>l, <1>m, <2>3
    <2>5. Edge(history'[t][n + 1]) = <<prior, new>>
      BY <1>1, <1>l DEF Edge
    <2>6. ASSUME NEW edge, edge = <<prior, new>> PROVE PassedOnThisHead(t, edge)'
      BY <2>6, <1>0, <2>4, <2>5, PassedNow
    <2>7. ASSUME NEW edge, PassedOnThisHead(t, edge) PROVE PassedOnThisHead(t, edge)'
      BY <1>0, <1>m, <2>3, <2>4, <2>7, PassedKept
    <2>8. /\ prior \in PastVerification => PassedOnThisHead(t, <<"VERIFYING", "PR_DRAFT">>)
          /\ prior \in PastReview => PassedOnThisHead(t, <<"REVIEWING", "CI_PENDING">>)
          /\ prior \in PastCI =>
                PassedOnThisHead(t, <<"CI_PENDING", "READY_FOR_POLICY_MERGE">>)
      BY <1>3 DEF Sound, Merged, prior
    <2>9. /\ new = "PR_DRAFT" => prior = "VERIFYING"
          /\ new # "PR_DRAFT" => prior \in PastVerification
          /\ new = "CI_PENDING" => prior = "REVIEWING"
          /\ new \in PastReview /\ new # "CI_PENDING" => prior \in PastReview
          /\ new = "READY_FOR_POLICY_MERGE" => prior = "CI_PENDING"
          /\ new \in PastCI /\ new # "READY_FOR_POLICY_MERGE" => prior \in PastCI
      BY <2>2 DEF PastVerification, PastReview, PastCI
    <2>10. PassedOnThisHead(t, <<"VERIFYING", "PR_DRAFT">>)'
      BY <2>6, <2>7, <2>8, <2>9
    <2>11. new \in PastReview => PassedOnThisHead(t, <<"REVIEWING", "CI_PENDING">>)'
      BY <2>6, <2>7, <2>8, <2>9
    <2>12. new \in PastCI => PassedOnThisHead(t, <<"CI_PENDING", "READY_FOR_POLICY_MERGE">>)'
      BY <2>6, <2>7, <2>8, <2>9
    <2> QED BY <1>m, <2>10, <2>11, <2>12 DEF Merged
  <1>8. Counted(t)'
    <2> DEFINE retry == <<"FAILED_RETRYABLE", "QUEUED">>
    <2>1. /\ task[t].attempt = 1 + Cardinality(Retries(t)) /\ IsFiniteSet(Retries(t))
          /\ n + 1 \notin Retries(t)
      <3>1. Retries(t) \subseteq 1 .. n
        BY <1>m DEF Retries
      <3>2. IsFiniteSet(1 .. n)
        <4>1. n \in Int /\ 1 \in Int
          BY <1>m
        <4> QED BY <4>1, FS_Interval
      <3> QED BY <1>4, <1>m, <1>3, <3>1, <3>2, FS_Subset DEF Sound, Counted
    <2>2. Retries(t)' = Retries(t) \cup (IF <<prior, new>> = retry THEN {n + 1} ELSE {})
      <3>1. Retries(t)' = {i \in 2 .. n + 1 : Edge(history'[t][i]) = retry}
        BY <1>m DEF Retries, Edge
      <3>2. Retries(t) = {i \in 2 .. n : Edge(history[t][i]) = retry}
        BY DEF Retries, n
      <3>3. \A i \in 2 .. n : Edge(history'[t][i]) = Edge(history[t][i])
        BY <1>1 DEF Edge
      <3>4. Edge(history'[t][n + 1]) = <<prior, new>>
        BY <1>1, <1>l DEF Edge
      <3> QED BY <1>m, <3>1, <3>2, <3>3, <3>4
    <2>3. attempt = IF <<prior, new>> = retry THEN task[t].attempt + 1 ELSE task[t].attempt
      BY DEF attempt, prior, NextAttempt, Retrying
    <2>4. Cardinality(Retries(t)) \in Nat
      BY <2>1, FS_CardinalityType
    <2>5. attempt = 1 + Cardinality(Retries(t)')
      <3>1. CASE <<prior, new>> = retry
        <4>1. Cardinality(Retries(t) \cup {n + 1}) = Cardinality(Retries(t)) + 1
          BY <2>1, FS_AddElement
        <4> QED BY <2>1, <2>2, <2>3, <2>4, <3>1, <4>1
      <3>2. CASE <<prior, new>> # retry
        <4>1. Retries(t)' = Retries(t)
          BY <2>2, <3>2
        <4> QED BY <2>1, <2>3, <3>2, <4>1
      <3> QED BY <3>1, <3>2
    <2> QED BY <1>0, <1>2, <2>5 DEF Counted
  <1> QED BY <1>5, <1>6, <1>7, <1>8 DEF Sound

LEMMA TransitionInv ==
    ASSUME StateInv, NEW t \in Tasks, NEW id \in LeaseIds, NEW e \in 1 .. Len(history[t]),
           Transition(t, id, e)
    PROVE  StateInv'
  <1>1. Registered(t)
    BY TransitionMoves
  <1>2. PICK new \in TaskStates, head \in Heads, gate \in Gates,
             artifacts \in SUBSET EvidenceIds : Moved(t, new, head, gate, artifacts)
    BY TransitionMoves
  <1>3. UNCHANGED <<leaseVars, evidence>>
    BY <1>2 DEF Moved
  <1>4. /\ task'[t] \in TaskRows /\ history'[t] \in Seq(Events)
        /\ \A u \in Tasks \ {t} : task'[u] = task[u] /\ history'[u] = history[u]
    BY <1>1, <1>2, MovedShape
  <1>5. TypeOK'
    <2>1. LeaseTypeOK'
      BY <1>3 DEF StateInv, TypeOK, LeaseTypeOK, leaseVars, Active
    <2>2. DOMAIN task' = Tasks /\ DOMAIN history' = Tasks
      BY <1>2 DEF Moved, StateInv, TypeOK
    <2>3. \A u \in Tasks : task'[u] \in TaskRows \cup {NoTask} /\ history'[u] \in Seq(Events)
      BY <1>4 DEF StateInv, TypeOK
    <2>4. task' = [u \in Tasks |-> task'[u]] /\ history' = [u \in Tasks |-> history'[u]]
      BY <1>2, <2>2 DEF Moved, StateInv, TypeOK
    <2> QED BY <1>3, <2>1, <2>3, <2>4 DEF StateInv, TypeOK
  <1>6. Sound(t)'
    BY <1>1, <1>2, MovedSound
  <1>7. ASSUME NEW u \in Tasks, u # t PROVE Sound(u)'
    BY <1>3, <1>4, <1>7, SoundFrame DEF StateInv
  <1>8. LeaseIInv'
    BY <1>3, LeaseStepInv DEF StateInv
  <1> QED BY <1>5, <1>6, <1>7, <1>8 DEF StateInv

-----------------------------------------------------------------------------
(* The invariant, and what it says of every behaviour. *)

LEMMA StateInitInv == Init => StateInv
  <1> SUFFICES ASSUME Init PROVE StateInv
    OBVIOUS
  <1>1. LeaseIInv
    BY LeaseInitInv DEF Init
  <1>2. TypeOK
    <2>1. LeaseTypeOK
      BY <1>1 DEF LeaseIInv
    <2> QED BY <2>1 DEF Init, StateInit, TypeOK
  <1>3. ASSUME NEW t \in Tasks PROVE Sound(t)
    <2>1. task[t] = NoTask /\ history[t] = << >>
      BY DEF Init, StateInit
    <2>2. NoTask.state = "NONE" /\ "NONE" \notin PastVerification
      BY DEF NoTask, PastVerification, PastReview, PastCI
    <2> QED
      BY <2>1, <2>2 DEF Sound, Replays, Gated, Merged, Counted, Registered,
                        PastVerification, PastReview
  <1> QED BY <1>1, <1>2, <1>3 DEF StateInv

LEMMA StateStepInv == StateInv /\ [Next]_vars => StateInv'
  <1> SUFFICES ASSUME StateInv, [Next]_vars PROVE StateInv'
    OBVIOUS
  <1>1. ASSUME [LeaseNext]_leaseVars, UNCHANGED stateVars PROVE StateInv'
    <2>1. LeaseIInv'
      BY <1>1, LeaseStepInv DEF StateInv
    <2>2. TypeOK'
      BY <1>1, <2>1 DEF LeaseIInv, StateInv, TypeOK, stateVars
    <2>3. ASSUME NEW t \in Tasks PROVE Sound(t)'
      BY <1>1, SoundFrame DEF stateVars, StateInv
    <2> QED BY <2>1, <2>2, <2>3 DEF StateInv
  <1>2. CASE LeaseNext /\ UNCHANGED stateVars
    BY <1>1, <1>2
  <1>3. CASE UNCHANGED vars
    BY <1>1, <1>3 DEF vars
  <1>4. ASSUME NEW t \in Tasks, StateCall(t) PROVE StateInv'
    <2>1. CASE \E status \in DispatchableStates, limit \in AttemptLimits,
                  base \in Heads, gate \in Gates, instant \in Times :
                     Register(t, status, limit, base, gate, instant)
      BY <2>1, RegisterInv
    <2>2. ASSUME NEW id \in LeaseIds, NEW e \in 1 .. Len(history[t]),
                 RecordEvidence(t, id, e) \/ Transition(t, id, e)
          PROVE  StateInv'
      BY <2>2, RecordEvidenceInv, TransitionInv
    <2> QED BY <1>4, <2>1, <2>2 DEF StateCall
  <1> QED BY <1>2, <1>3, <1>4 DEF Next

\* The invariant: leases are exclusive, types hold and every task is sound.
THEOREM StateInvariant == Spec => []StateInv
  <1> QED BY StateInitInv, StateStepInv, PTL DEF Spec

\* The rows, events and records of the three tables keep their types.
THEOREM StateTypeCorrect == Spec => []TypeOK
  <1>1. StateInv => TypeOK
    BY DEF StateInv
  <1> QED BY <1>1, StateInvariant, PTL

\* The history of a task replays to its row, whatever revisions callers act on.
THEOREM HistoriesReplay == Spec => []HistoryReplays
  <1>1. StateInv => HistoryReplays
    BY SoundMeans DEF StateInv
  <1> QED BY <1>1, StateInvariant, PTL

\* Gated edges cite evidence of their own revision, which still says so.
THEOREM GatesCiteEvidence == Spec => []GatedByEvidence
  <1>1. StateInv => GatedByEvidence
    BY SoundMeans DEF StateInv
  <1> QED BY <1>1, StateInvariant, PTL

\* What is at or past a gate passed it on the head it has.
THEOREM MergesWereGated == Spec => []MergedHeadWasGated
  <1>1. StateInv => MergedHeadWasGated
    BY SoundMeans DEF StateInv
  <1> QED BY <1>1, StateInvariant, PTL

\* Attempts are counted and bounded.
THEOREM AttemptsAreCounted == Spec => []AttemptsCounted
  <1>1. StateInv => AttemptsCounted
    BY SoundMeans DEF StateInv
  <1> QED BY <1>1, StateInvariant, PTL

-----------------------------------------------------------------------------
(* Changes under a lease. *)

\* A lease that is authoritative is the only one in force for its task.
LEMMA OneInForce ==
    ASSUME StateInv, NEW t \in Tasks, NEW id \in LeaseIds, AuthoritativeLease(id, t)
    PROVE  Cardinality(InForce(t)) = 1
  <1>1. clock \in Times /\ lease[id] \in Rows
    BY DEF StateInv, TypeOK, LeaseTypeOK, AuthoritativeLease, Active, NoLease
  <1>2. id \in InForce(t)
    BY <1>1 DEF AuthoritativeLease, Active, InForce, Rows, Times
  <1>3. \A other \in InForce(t) : other = id
    BY DEF StateInv, LeaseIInv, Exclusive, AuthoritativeLease, Active, InForce
  <1>4. InForce(t) = {id}
    BY <1>2, <1>3
  <1> QED BY <1>4, FS_Singleton

\* A task or its evidence changes only under the one lease in force for it.
THEOREM ChangesAreUnderLease == Spec => ChangesUnderLease
  <1>1. ASSUME StateInv, [Next]_vars, NEW t \in Tasks,
               (Registered(t) /\ task'[t] # task[t]) \/ EvidenceOf(t)' # EvidenceOf(t)
        PROVE  Cardinality(InForce(t)) = 1
    <2>1. CASE UNCHANGED stateVars
      BY <1>1, <2>1 DEF stateVars, EvidenceOf
    <2>2. ASSUME NEW u \in Tasks, StateCall(u) PROVE Cardinality(InForce(t)) = 1
      <3>1. ASSUME NEW status \in DispatchableStates, NEW limit \in AttemptLimits,
                   NEW base \in Heads, NEW gate \in Gates, NEW instant \in Times,
                   Register(u, status, limit, base, gate, instant)
            PROVE  Cardinality(InForce(t)) = 1
        BY <1>1, <3>1 DEF Register, EvidenceOf, StateInv, TypeOK, Registered
      <3>2. ASSUME NEW id \in LeaseIds, NEW e \in 1 .. Len(history[u]), RecordEvidence(u, id, e)
            PROVE  Cardinality(InForce(t)) = 1
        <4>1. CASE u = t
          BY <3>2, <1>1, <4>1, OneInForce DEF RecordEvidence
        <4>2. CASE u # t
          <5>1. PICK v \in EvidenceIds, row \in [task : {u}, attempt : {history[u][e].attempt},
                        revision : {e}, gate : Gates, head : {history[u][e].head},
                        result : {"PASS", "FAIL"}] :
                   evidence[v] = NoEvidence /\ evidence' = [evidence EXCEPT ![v] = row]
            BY <3>2 DEF RecordEvidence
          <5>2. row.task = u /\ row # NoEvidence
            BY DEF NoEvidence
          <5>3. EvidenceOf(t)' = EvidenceOf(t)
            BY <1>1, <4>2, <5>1, <5>2 DEF EvidenceOf, StateInv, TypeOK
          <5>4. task' = task
            BY <3>2 DEF RecordEvidence
          <5> QED BY <1>1, <5>3, <5>4
        <4> QED BY <4>1, <4>2
      <3>3. ASSUME NEW id \in LeaseIds, NEW e \in 1 .. Len(history[u]), Transition(u, id, e)
            PROVE  Cardinality(InForce(t)) = 1
        <4>1. CASE u = t
          BY <1>1, <3>3, <4>1, OneInForce DEF Transition
        <4>2. CASE u # t
          <5>1. Registered(u)
            BY <1>1, <3>3, TransitionMoves
          <5>2. PICK new \in TaskStates, head \in Heads, gate \in Gates,
                     artifacts \in SUBSET EvidenceIds : Moved(u, new, head, gate, artifacts)
            BY <1>1, <3>3, TransitionMoves
          <5>3. task'[t] = task[t]
            BY <1>1, <4>2, <5>2 DEF Moved, StateInv, TypeOK
          <5>4. EvidenceOf(t)' = EvidenceOf(t)
            BY <3>3 DEF Transition, EvidenceOf
          <5> QED BY <1>1, <5>3, <5>4
        <4> QED BY <4>1, <4>2
      <3> QED BY <2>2, <3>1, <3>2, <3>3 DEF StateCall
    <2> QED BY <1>1, <2>1, <2>2 DEF Next, vars
  <1>2. StateInv /\ [Next]_vars =>
           [\A t \in Tasks :
              (Registered(t) /\ task'[t] # task[t]) \/ EvidenceOf(t)' # EvidenceOf(t) =>
                  Cardinality(InForce(t)) = 1]_vars
    BY <1>1
  <1> QED BY <1>2, StateInvariant, PTL DEF Spec, ChangesUnderLease

-----------------------------------------------------------------------------
(* The lease ledger below the task ledger. *)

(***************************************************************************)
(* No call of the task ledger writes the lease table, so beside them the   *)
(* leases are what LeaseSpec says, and all that is proved of it holds.     *)
(***************************************************************************)
THEOREM WorkflowKeepsLeases ==
    Spec => LeaseSpec /\ [](Exclusive /\ ConsistentRows) /\ HistoryKept /\ ImplementsExclusiveLease
  <1>1. Init => LeaseInit
    BY DEF Init
  <1>2. [Next]_vars => [LeaseNext]_leaseVars
    <2> SUFFICES ASSUME [Next]_vars PROVE [LeaseNext]_leaseVars
      OBVIOUS
    <2>1. ASSUME NEW t \in Tasks, StateCall(t) PROVE UNCHANGED leaseVars
      BY <2>1 DEF StateCall, Register, RecordEvidence, Transition
    <2> QED BY <2>1 DEF Next, vars
  <1>3. Spec => LeaseSpec
    BY <1>1, <1>2, PTL DEF Spec, LeaseSpec
  <1> QED BY <1>3, LeaseExclusive, LeaseRowsConsistent, LeaseHistoryKept, LeaseRefines, PTL

-----------------------------------------------------------------------------
(* The tables are append-only. *)

\* What a step may do to a task: its contract and its events stay, its row
\* moves on in revision and time, and a task that ended does not move.
TaskKept(t) ==
    Registered(t) =>
        /\ task'[t] # NoTask
        /\ task'[t].base = task[t].base /\ task'[t].max_attempts = task[t].max_attempts
        /\ task'[t].updated_at >= task[t].updated_at
        /\ Len(history'[t]) >= Len(history[t])
        /\ \A i \in 1 .. Len(history[t]) : history'[t][i] = history[t][i]
        /\ task[t].state \in TerminalStates => task'[t] = task[t] /\ history'[t] = history[t]

EvidenceKept == \A v \in EvidenceIds : evidence[v] # NoEvidence => evidence'[v] = evidence[v]

RecordsKept == [][(\A t \in Tasks : TaskKept(t)) /\ EvidenceKept]_vars

\* No transition leads out of a terminal state.
LEMMA TerminalIsFinal ==
    ASSUME NEW prior \in TerminalStates
    PROVE  Allowed(prior) = {}
  <1>1. prior \notin {edge[1] : edge \in NormalTransitions}
    BY DEF TerminalStates, FailureStates, NormalTransitions
  <1>2. \A new : <<prior, new>> \notin NormalTransitions
    BY DEF TerminalStates, FailureStates, NormalTransitions
  <1> QED BY <1>1, <1>2 DEF Allowed, InterruptibleStates

LEMMA UnmovedKept ==
    ASSUME StateInv, NEW t \in Tasks, task'[t] = task[t], history'[t] = history[t]
    PROVE  TaskKept(t)
  <1>1. history[t] \in Seq(Events) /\ Len(history[t]) \in Nat
    BY DEF StateInv, TypeOK
  <1>2. Registered(t) => task[t].updated_at \in Int
    BY DEF StateInv, TypeOK, Registered, TaskRows, Times
  <1> QED BY <1>1, <1>2 DEF TaskKept, Registered

LEMMA TransitionKept ==
    ASSUME StateInv, NEW t \in Tasks, NEW id \in LeaseIds, NEW e \in 1 .. Len(history[t]),
           Transition(t, id, e)
    PROVE  (\A u \in Tasks : TaskKept(u)) /\ EvidenceKept
  <1>1. PICK new \in TaskStates, head \in Heads, gate \in Gates, artifacts \in SUBSET EvidenceIds :
           Moved(t, new, head, gate, artifacts)
    BY TransitionMoves
  <1>2. Registered(t) /\ task[t].updated_at <= clock
    BY TransitionMoves DEF Transition, TimeMovesOn
  <1>3. /\ Len(history[t]) \in Nat /\ Len(history'[t]) = Len(history[t]) + 1
        /\ task[t] \in TaskRows /\ task'[t] \in TaskRows
        /\ task'[t].max_attempts = task[t].max_attempts
        /\ \A i \in 1 .. Len(history[t]) : history'[t][i] = history[t][i]
        /\ \A u \in Tasks \ {t} : task'[u] = task[u] /\ history'[u] = history[u]
    BY <1>1, <1>2, MovedShape
  <1>4. task'[t].base = task[t].base /\ task'[t].updated_at = clock
    BY <1>1, <1>3 DEF Moved, TaskRows, StateInv, TypeOK
  <1>5. new \in Allowed(task[t].state)
    BY <1>1 DEF Moved
  <1>6. TaskKept(t)
    BY <1>2, <1>3, <1>4, <1>5, TerminalIsFinal DEF TaskKept, TaskRows, NoTask, Times
  <1>7. EvidenceKept
    BY DEF Transition, EvidenceKept
  <1> QED BY <1>3, <1>6, <1>7, UnmovedKept

(***************************************************************************)
(* The audit trail is append-only: no call drops or rewrites an event or a *)
(* record of evidence, changes a contract or dates a task back, and a task *)
(* that is done, cancelled, superseded, blocked or quarantined stays so.   *)
(***************************************************************************)
THEOREM RecordsAreKept == Spec => RecordsKept
  <1>1. ASSUME StateInv, [Next]_vars
        PROVE  (\A t \in Tasks : TaskKept(t)) /\ EvidenceKept
    <2>1. CASE UNCHANGED stateVars
      BY <1>1, <2>1, UnmovedKept DEF stateVars, EvidenceKept
    <2>2. ASSUME NEW u \in Tasks, StateCall(u)
          PROVE  (\A t \in Tasks : TaskKept(t)) /\ EvidenceKept
      <3>1. ASSUME NEW status \in DispatchableStates, NEW limit \in AttemptLimits,
                   NEW base \in Heads, NEW gate \in Gates, NEW instant \in Times,
                   Register(u, status, limit, base, gate, instant)
            PROVE  (\A t \in Tasks : TaskKept(t)) /\ EvidenceKept
        <4>1. ~Registered(u) /\ evidence' = evidence
              /\ \A t \in Tasks \ {u} : task'[t] = task[t] /\ history'[t] = history[t]
          BY <1>1, <3>1 DEF Register, StateInv, TypeOK
        <4>2. TaskKept(u) /\ EvidenceKept
          BY <4>1 DEF TaskKept, EvidenceKept
        <4> QED BY <1>1, <4>1, <4>2, UnmovedKept
      <3>2. ASSUME NEW id \in LeaseIds, NEW e \in 1 .. Len(history[u]), RecordEvidence(u, id, e)
            PROVE  (\A t \in Tasks : TaskKept(t)) /\ EvidenceKept
        <4>1. task' = task /\ history' = history
          BY <3>2 DEF RecordEvidence
        <4>2. EvidenceKept
          <5>1. PICK v \in EvidenceIds, row \in [task : {u}, attempt : {history[u][e].attempt},
                        revision : {e}, gate : Gates, head : {history[u][e].head},
                        result : {"PASS", "FAIL"}] :
                   evidence[v] = NoEvidence /\ evidence' = [evidence EXCEPT ![v] = row]
            BY <3>2 DEF RecordEvidence
          <5> QED BY <1>1, <5>1 DEF EvidenceKept, StateInv, TypeOK
        <4> QED BY <1>1, <4>1, <4>2, UnmovedKept
      <3> QED BY <1>1, <2>2, <3>1, <3>2, TransitionKept DEF StateCall
    <2> QED BY <1>1, <2>1, <2>2 DEF Next, vars
  <1>2. StateInv /\ [Next]_vars => [(\A t \in Tasks : TaskKept(t)) /\ EvidenceKept]_vars
    BY <1>1
  <1> QED BY <1>2, StateInvariant, PTL DEF Spec, RecordsKept

-----------------------------------------------------------------------------
(* The task ledger implements GatedTask. *)

\* Evidence is never ahead of the task it is about.
EvidenceDated ==
    \A v \in EvidenceIds : evidence[v] # NoEvidence =>
        \A t \in Tasks : evidence[v].task = t => evidence[v].revision \in 1 .. Len(history[t])

\* The row of a record is of the task as it is, whatever revision was read.
LEMMA RecordEvidenceRow ==
    ASSUME StateInv, NEW t \in Tasks, NEW id \in LeaseIds, NEW e \in 1 .. Len(history[t]),
           RecordEvidence(t, id, e)
    PROVE  /\ Registered(t) /\ UNCHANGED <<task, history>>
           /\ e = Len(history[t]) /\ e = task[t].revision
           /\ \E v \in EvidenceIds, gate \in Gates, result \in {"PASS", "FAIL"} :
                 /\ evidence[v] = NoEvidence
                 /\ evidence' = [evidence EXCEPT ![v] =
                      [task |-> t, attempt |-> task[t].attempt, revision |-> e,
                       gate |-> gate, head |-> task[t].head, result |-> result]]
  <1>1. /\ Registered(t) /\ UNCHANGED <<task, history>>
        /\ task[t].revision = e /\ task[t].head = history[t][e].head
        /\ task[t].attempt = history[t][e].attempt
    BY DEF RecordEvidence
  <1>2. e = Len(history[t])
    BY <1>1 DEF StateInv, Sound, Replays
  <1> QED BY <1>1, <1>2 DEF RecordEvidence

LEMMA EvidenceDatedStep == StateInv /\ EvidenceDated /\ [Next]_vars => EvidenceDated'
  <1> SUFFICES ASSUME StateInv, EvidenceDated, [Next]_vars,
                      NEW v \in EvidenceIds, evidence'[v] # NoEvidence,
                      NEW t \in Tasks, evidence'[v].task = t
               PROVE  evidence'[v].revision \in 1 .. Len(history'[t])
    BY DEF EvidenceDated
  <1>1. /\ Len(history[t]) \in Nat
        /\ evidence[v] # NoEvidence => evidence[v].revision \in Nat
    BY DEF StateInv, TypeOK, EvidenceRows
  <1>2. CASE UNCHANGED <<history, evidence>>
    BY <1>2 DEF EvidenceDated
  <1>3. ASSUME NEW u \in Tasks, NEW status \in DispatchableStates, NEW limit \in AttemptLimits,
               NEW base \in Heads, NEW gate \in Gates, NEW instant \in Times,
               Register(u, status, limit, base, gate, instant)
        PROVE  evidence'[v].revision \in 1 .. Len(history'[t])
    <2>1. history[u] = << >> /\ evidence' = evidence
      BY <1>3 DEF Register, StateInv, Sound, Replays
    <2>2. evidence[v].revision \in 1 .. Len(history[t])
      BY <2>1 DEF EvidenceDated
    <2>3. t # u
      BY <2>1, <2>2
    <2>4. history'[t] = history[t]
      BY <1>3, <2>3 DEF Register, StateInv, TypeOK
    <2> QED BY <2>1, <2>2, <2>4
  <1>4. ASSUME NEW u \in Tasks, NEW id \in LeaseIds, NEW e \in 1 .. Len(history[u]),
               RecordEvidence(u, id, e)
        PROVE  evidence'[v].revision \in 1 .. Len(history'[t])
    <2>1. history' = history /\ e \in 1 .. Len(history[u])
      BY <1>4, RecordEvidenceRow
    <2>2. PICK w \in EvidenceIds, gate \in Gates, result \in {"PASS", "FAIL"} :
             evidence' = [evidence EXCEPT ![w] =
                      [task |-> u, attempt |-> task[u].attempt, revision |-> e,
                       gate |-> gate, head |-> task[u].head, result |-> result]]
      BY <1>4, RecordEvidenceRow
    <2>3. CASE v = w
      BY <2>1, <2>2, <2>3 DEF StateInv, TypeOK
    <2>4. CASE v # w
      BY <2>1, <2>2, <2>4 DEF StateInv, TypeOK, EvidenceDated
    <2> QED BY <2>3, <2>4
  <1>5. ASSUME NEW u \in Tasks, NEW id \in LeaseIds, NEW e \in 1 .. Len(history[u]),
               Transition(u, id, e)
        PROVE  evidence'[v].revision \in 1 .. Len(history'[t])
    <2>1. evidence' = evidence
      BY <1>5 DEF Transition
    <2>2. Registered(u)
      BY <1>5, TransitionMoves
    <2>3. Len(history'[t]) >= Len(history[t]) /\ Len(history'[t]) \in Nat
      <3>1. PICK new \in TaskStates, head \in Heads, gate \in Gates,
                 artifacts \in SUBSET EvidenceIds : Moved(u, new, head, gate, artifacts)
        BY <1>5, TransitionMoves
      <3>2. /\ Len(history'[u]) = Len(history[u]) + 1 /\ Len(history[u]) \in Nat
            /\ \A w \in Tasks \ {u} : history'[w] = history[w]
        BY <2>2, <3>1, MovedShape
      <3> QED BY <1>1, <3>2
    <2> QED BY <1>1, <2>1, <2>3 DEF EvidenceDated
  <1> QED BY <1>2, <1>3, <1>4, <1>5 DEF Next, StateCall, vars, stateVars

\* No record of evidence is of a revision that its task has not reached.
THEOREM EvidenceIsDated == Spec => []EvidenceDated
  <1>1. Init => EvidenceDated
    BY DEF Init, StateInit, EvidenceDated
  <1> QED BY <1>1, StateInvariant, EvidenceDatedStep, PTL DEF Spec

\* What the mapping sees of a task that a step leaves alone.
LEMMA PromiseFrame ==
    ASSUME NEW t \in Tasks, task'[t] = task[t], history'[t] = history[t]
    PROVE  Place(t)' = Place(t) /\ PassedOf(t)' = PassedOf(t)
  <1>1. Place(t)' = Place(t)
    BY DEF Place, Registered
  <1>2. \A edge : PassedOnThisHead(t, edge)' <=> PassedOnThisHead(t, edge)
    BY DEF PassedOnThisHead, Edge
  <1> QED BY <1>1, <1>2 DEF PassedOf

LEMMA ReportsFrame ==
    ASSUME NEW t \in Tasks, task'[t] = task[t],
           \A v \in EvidenceIds : evidence'[v] = evidence[v] \/
              \A g \in Gates : /\ evidence[v] # [task |-> t, attempt |-> task[t].attempt,
                                      revision |-> task[t].revision, gate |-> g,
                                      head |-> task[t].head, result |-> "PASS"]
                               /\ evidence'[v] # [task |-> t, attempt |-> task[t].attempt,
                                      revision |-> task[t].revision, gate |-> g,
                                      head |-> task[t].head, result |-> "PASS"]
    PROVE  ReportsOf(t)' = ReportsOf(t)
  BY DEF ReportsOf, Registered

LEMMA PromiseInit == Init => Promise!Init
  <1> SUFFICES ASSUME Init PROVE Promise!Init
    OBVIOUS
  <1>1. \A t \in Tasks : ~Registered(t) /\ history[t] = << >>
    BY DEF Init, StateInit, Registered
  <1>2. ASSUME NEW t \in Tasks
        PROVE  Place(t) = Promise!Unknown /\ PassedOf(t) = {} /\ ReportsOf(t) = {}
    <2>1. Place(t) = Promise!Unknown /\ ReportsOf(t) = {}
      BY <1>1 DEF Place, ReportsOf, Promise!Unknown
    <2>2. \A edge : ~PassedOnThisHead(t, edge)
      BY <1>1 DEF PassedOnThisHead
    <2> QED BY <2>1, <2>2 DEF PassedOf
  <1> QED BY <1>2 DEF Promise!Init

\* register is Enter: nothing was recorded of a task that was not there.
LEMMA RegisterEnters ==
    ASSUME StateInv, EvidenceDated, NEW t \in Tasks, NEW status \in DispatchableStates,
           NEW limit \in AttemptLimits, NEW base \in Heads, NEW gate \in Gates,
           NEW instant \in Times, Register(t, status, limit, base, gate, instant)
    PROVE  Promise!Next
  <1>1. ~Registered(t) /\ history[t] = << >> /\ evidence' = evidence
    BY DEF Register, StateInv, Sound, Replays
  <1>2. /\ task'[t] = [state |-> status, revision |-> 1, attempt |-> 1,
                       max_attempts |-> limit, base |-> base, head |-> base,
                       updated_at |-> instant]
        /\ Len(history'[t]) = 1
        /\ \A u \in Tasks \ {t} : task'[u] = task[u] /\ history'[u] = history[u]
    BY DEF Register, StateInv, TypeOK
  <1>3. Registered(t)'
    BY <1>2 DEF Registered, NoTask, DispatchableStates
  <1>4. Place(t) = Promise!Unknown
    BY <1>1 DEF Place, Promise!Unknown
  <1>5. Place(t)' = [stage |-> status, head |-> base, attempt |-> 1, limit |-> limit]
    BY <1>2, <1>3 DEF Place
  <1>6. PassedOf(t) = {} /\ PassedOf(t)' = {}
    BY <1>1, <1>2 DEF PassedOf, PassedOnThisHead
  <1>7. ReportsOf(t) = {} /\ ReportsOf(t)' = {}
    <2>1. \A v \in EvidenceIds : evidence[v] # NoEvidence => evidence[v].task # t
      BY <1>1 DEF EvidenceDated
    <2>2. \A v \in EvidenceIds : \A a, r, g, h :
             evidence[v] # [task |-> t, attempt |-> a, revision |-> r, gate |-> g,
                            head |-> h, result |-> "PASS"]
      BY <2>1, PassIsEvidence
    <2> QED BY <1>1, <2>2 DEF ReportsOf
  <1>8. \A u \in Tasks \ {t} :
           Place(u)' = Place(u) /\ PassedOf(u)' = PassedOf(u) /\ ReportsOf(u)' = ReportsOf(u)
    BY <1>1, <1>2, PromiseFrame, ReportsFrame
  <1>9. Promise!Enter(t)
    BY <1>4, <1>5, <1>6, <1>7, <1>8 DEF Promise!Enter
  <1> QED BY <1>9 DEF Promise!Next

\* record_evidence is Report, or, when the gate failed, nothing.
LEMMA EvidenceReports ==
    ASSUME StateInv, NEW t \in Tasks, NEW id \in LeaseIds, NEW e \in 1 .. Len(history[t]),
           RecordEvidence(t, id, e)
    PROVE  [Promise!Next]_(Promise!ledger)
  <1> DEFINE Row(gate, result) ==
               [task |-> t, attempt |-> task[t].attempt, revision |-> task[t].revision,
                gate |-> gate, head |-> task[t].head, result |-> result]
  <1>1. Registered(t) /\ UNCHANGED <<task, history>>
    BY RecordEvidenceRow
  <1>2. PICK v \in EvidenceIds, gate \in Gates, result \in {"PASS", "FAIL"} :
           evidence[v] = NoEvidence /\ evidence' = [evidence EXCEPT ![v] = Row(gate, result)]
    BY RecordEvidenceRow
  <1>3. /\ evidence'[v] = Row(gate, result)
        /\ \A w \in EvidenceIds \ {v} : evidence'[w] = evidence[w]
        /\ \A g \in Gates : evidence[v] # Row(g, "PASS")
    BY <1>2, PassIsEvidence DEF StateInv, TypeOK
  <1>4. \A u \in Tasks : Place(u)' = Place(u) /\ PassedOf(u)' = PassedOf(u)
    BY <1>1, PromiseFrame
  <1>5. \A u \in Tasks \ {t} : ReportsOf(u)' = ReportsOf(u)
    <2> SUFFICES ASSUME NEW u \in Tasks \ {t} PROVE ReportsOf(u)' = ReportsOf(u)
      OBVIOUS
    <2>1. \A g \in Gates :
             /\ evidence[v] # [task |-> u, attempt |-> task[u].attempt,
                               revision |-> task[u].revision, gate |-> g,
                               head |-> task[u].head, result |-> "PASS"]
             /\ evidence'[v] # [task |-> u, attempt |-> task[u].attempt,
                                revision |-> task[u].revision, gate |-> g,
                                head |-> task[u].head, result |-> "PASS"]
      BY <1>2, <1>3, PassIsEvidence
    <2> QED BY <1>1, <1>3, <2>1, ReportsFrame
  <1>6. CASE result = "FAIL"
    <2>1. \A g \in Gates : evidence'[v] # Row(g, "PASS")
      BY <1>3, <1>6
    <2>2. ReportsOf(t)' = ReportsOf(t)
      BY <1>1, <1>3, <2>1, ReportsFrame
    <2>3. UNCHANGED Promise!ledger
      BY <1>4, <1>5, <2>2 DEF Promise!ledger
    <2> QED BY <2>3
  <1>7. CASE result = "PASS"
    <2>1. \A g \in Gates : evidence'[v] = Row(g, "PASS") <=> g = gate
      BY <1>3, <1>7
    <2>2. /\ ReportsOf(t) = {g \in Gates : \E w \in EvidenceIds : evidence[w] = Row(g, "PASS")}
          /\ ReportsOf(t)' = {g \in Gates : \E w \in EvidenceIds : evidence'[w] = Row(g, "PASS")}
      BY <1>1 DEF ReportsOf, Registered
    <2>3. ReportsOf(t)' = ReportsOf(t) \cup {gate}
      <3> HIDE DEF Row
      <3> QED BY <1>3, <2>1, <2>2
    <2>4. Place(t) # Promise!Unknown
      BY <1>1 DEF Place, Promise!Unknown
    <2>5. Promise!Report(t, gate)
      BY <1>4, <1>5, <2>3, <2>4 DEF Promise!Report
    <2> QED BY <2>5 DEF Promise!Next
  <1> QED BY <1>6, <1>7

\* Gates that count after a move counted before, on the same head and attempt,
\* or are the one that was passed now.
LEMMA PassedBefore ==
    ASSUME NEW t \in Tasks, NEW edge, NEW n \in Nat \ {0},
           Len(history[t]) = n, Len(history'[t]) = n + 1,
           \A i \in 1 .. n : history'[t][i] = history[t][i],
           history[t][n].head = task[t].head, history[t][n].attempt = task[t].attempt,
           PassedOnThisHead(t, edge)'
    PROVE  /\ task'[t].head = task[t].head /\ task'[t].attempt = task[t].attempt
           /\ PassedOnThisHead(t, edge) \/ edge = Edge(history'[t][n + 1])
  <1>1. PICK i \in 2 .. n + 1 :
           /\ Edge(history'[t][i]) = edge
           /\ \A j \in i - 1 .. n + 1 : /\ history'[t][j].head = task'[t].head
                                        /\ history'[t][j].attempt = task'[t].attempt
    BY DEF PassedOnThisHead, Edge
  <1>2. task'[t].head = task[t].head /\ task'[t].attempt = task[t].attempt
    <2>1. n \in i - 1 .. n + 1 /\ n \in 1 .. n
      OBVIOUS
    <2> QED BY <1>1, <2>1
  <1>3. CASE i = n + 1
    BY <1>1, <1>2, <1>3
  <1>4. CASE i # n + 1
    <2>1. i \in 2 .. n /\ \A j \in i - 1 .. n : j \in i - 1 .. n + 1 /\ j \in 1 .. n
      BY <1>4
    <2>2. Edge(history[t][i]) = edge
      BY <1>1, <2>1 DEF Edge
    <2>3. ASSUME NEW j \in i - 1 .. n
          PROVE  history[t][j].head = task[t].head /\ history[t][j].attempt = task[t].attempt
      BY <1>1, <1>2, <2>1
    <2> QED BY <1>2, <2>1, <2>2, <2>3 DEF PassedOnThisHead
  <1> QED BY <1>2, <1>3, <1>4

\* transition is Advance.
LEMMA MovedAdvances ==
    ASSUME StateInv, EvidenceDated, NEW t \in Tasks, Registered(t),
           NEW new \in TaskStates, NEW head \in Heads, NEW gate \in Gates,
           NEW artifacts \in SUBSET EvidenceIds, Moved(t, new, head, gate, artifacts)
    PROVE  Promise!Next
  <1> DEFINE n == Len(history[t])
             attempt == NextAttempt(task[t], new)
             prior == task[t].state
             event == [prior |-> prior, new |-> new, attempt |-> attempt,
                       head |-> head, gate |-> gate, result |-> ResultOf(new),
                       artifacts |-> artifacts]
             edge == <<prior, new>>
  <1>1. /\ n \in Nat \ {0} /\ attempt \in Nat
        /\ task[t] \in TaskRows /\ task'[t] \in TaskRows
        /\ task'[t].state = new /\ task'[t].revision = n + 1
        /\ task'[t].attempt = attempt /\ task'[t].head = head
        /\ task'[t].max_attempts = task[t].max_attempts
        /\ Len(history'[t]) = n + 1 /\ history'[t][n + 1] = event
        /\ \A i \in 1 .. n : history'[t][i] = history[t][i]
        /\ \A u \in Tasks \ {t} : task'[u] = task[u] /\ history'[u] = history[u]
    BY MovedShape
  <1>2. /\ history'[t][n + 1].head = head /\ history'[t][n + 1].attempt = attempt
        /\ Edge(history'[t][n + 1]) = edge
    <2>1. /\ event.prior = prior /\ event.new = new
          /\ event.attempt = attempt /\ event.head = head
      OBVIOUS
    <2> QED BY <1>1, <2>1 DEF Edge
  <1>3. /\ task[t].revision = n
        /\ history[t][n].head = task[t].head /\ history[t][n].attempt = task[t].attempt
    BY DEF StateInv, Sound, Replays, Last
  <1>4. /\ new \in Allowed(prior)
        /\ attempt <= task[t].max_attempts
        /\ head # task[t].head => edge \in HeadChangeTransitions
        /\ evidence' = evidence
    <2>1. attempt \in 1 .. task[t].max_attempts
      BY DEF Moved
    <2>2. task[t].max_attempts \in Nat
      BY <1>1, AttemptAssumption DEF TaskRows
    <2> QED BY <2>1, <2>2 DEF Moved
  <1>5. edge \in EvidenceGateTransitions => \E v \in EvidenceIds :
           evidence[v] = [task |-> t, attempt |-> attempt, revision |-> n,
                          gate |-> gate, head |-> task[t].head, result |-> "PASS"]
    BY DEF Moved
  <1>6. attempt = IF edge \in {<<"FAILED_RETRYABLE", "QUEUED">>} THEN task[t].attempt + 1
                  ELSE task[t].attempt
    BY DEF NextAttempt, Retrying
  <1>7. task[t].attempt \in Nat /\ prior \in TaskStates
    BY <1>1 DEF TaskRows
  <1>8. Registered(t)'
    BY <1>1 DEF Registered, NoTask, TaskRows, TaskStates, TerminalStates, NormalTransitions,
                FailureStates
  <1>9. Sound(t)'
    BY MovedSound
  <1>10. edge \in EvidenceGateTransitions => head = task[t].head /\ attempt = task[t].attempt
    BY <1>4, <1>6 DEF EvidenceGateTransitions, HeadChangeTransitions
  <1> HIDE DEF n, attempt, prior, edge, event
  <1> DEFINE after == Promise!PassedAfter(t, edge, head)
  <1>11. /\ Place(t) = [stage |-> prior, head |-> task[t].head, attempt |-> task[t].attempt,
                        limit |-> task[t].max_attempts]
         /\ Place(t)' = [stage |-> new, head |-> head, attempt |-> attempt,
                         limit |-> task[t].max_attempts]
         /\ Place(t) # Promise!Unknown
    BY <1>1, <1>8 DEF Place, Promise!Unknown, prior
  <1>12. after = (IF head = task[t].head /\ edge \notin {<<"FAILED_RETRYABLE", "QUEUED">>}
                  THEN PassedOf(t) ELSE {}) \cup ({edge} \cap EvidenceGateTransitions)
    BY <1>11 DEF Promise!PassedAfter
  <1>13. head = task[t].head /\ edge \notin {<<"FAILED_RETRYABLE", "QUEUED">>}
            <=> head = task[t].head /\ attempt = task[t].attempt
    BY <1>6, <1>7
  <1>14. PassedOf(t)' = after
    <2>1. ASSUME NEW gated \in EvidenceGateTransitions, PassedOnThisHead(t, gated)'
          PROVE  gated \in after
      <3>1. /\ head = task[t].head /\ attempt = task[t].attempt
            /\ PassedOnThisHead(t, gated) \/ gated = edge
        BY <1>1, <1>2, <1>3, <2>1, PassedBefore DEF n
      <3> QED BY <1>12, <1>13, <3>1 DEF PassedOf
    <2>2. ASSUME NEW gated \in after
          PROVE  gated \in EvidenceGateTransitions /\ PassedOnThisHead(t, gated)'
      <3>1. CASE gated = edge /\ edge \in EvidenceGateTransitions
        <4>1. n \in 1 .. n
          BY <1>1
        <4> QED BY <1>1, <1>2, <1>3, <1>10, <3>1, <4>1, PassedNow
      <3>2. CASE /\ head = task[t].head /\ attempt = task[t].attempt
                 /\ gated \in PassedOf(t)
        BY <1>1, <1>2, <3>2, PassedKept DEF PassedOf, n
      <3> QED BY <1>12, <1>13, <2>2, <3>1, <3>2
    <2>3. PassedOf(t)' = {gated \in EvidenceGateTransitions : PassedOnThisHead(t, gated)'}
      BY DEF PassedOf
    <2> QED BY <2>1, <2>2, <2>3
  <1>15. RequiredGates[new] \subseteq after
    <2>1. /\ new \in PastVerification => PassedOnThisHead(t, <<"VERIFYING", "PR_DRAFT">>)'
          /\ new \in PastReview => PassedOnThisHead(t, <<"REVIEWING", "CI_PENDING">>)'
          /\ new \in PastCI => PassedOnThisHead(t, <<"CI_PENDING", "READY_FOR_POLICY_MERGE">>)'
      BY <1>1, <1>9 DEF Sound, Merged
    <2>2. ASSUME NEW gated \in RequiredGates[new]
          PROVE  gated \in EvidenceGateTransitions /\ PassedOnThisHead(t, gated)'
      BY <2>1, <2>2 DEF RequiredGates, EvidenceGateTransitions
    <2> QED BY <1>14, <2>2 DEF PassedOf
  <1>16. edge \in EvidenceGateTransitions => ReportsOf(t) # {}
    <2> SUFFICES ASSUME edge \in EvidenceGateTransitions PROVE gate \in ReportsOf(t)
      OBVIOUS
    <2> QED BY <1>3, <1>5, <1>10 DEF ReportsOf
  <1>17. ReportsOf(t)' = {}
    <2>1. \A v \in EvidenceIds : evidence[v] # NoEvidence /\ evidence[v].task = t =>
             evidence[v].revision # n + 1
      BY <1>1 DEF EvidenceDated, n
    <2>2. ASSUME NEW v \in EvidenceIds, NEW a, NEW g, NEW h
          PROVE  evidence[v] # [task |-> t, attempt |-> a, revision |-> n + 1, gate |-> g,
                                head |-> h, result |-> "PASS"]
      BY <2>1, PassIsEvidence
    <2> QED BY <1>1, <1>4, <2>2 DEF ReportsOf
  <1>18. \A u \in Tasks \ {t} :
            Place(u)' = Place(u) /\ PassedOf(u)' = PassedOf(u) /\ ReportsOf(u)' = ReportsOf(u)
    BY <1>1, <1>4, PromiseFrame, ReportsFrame
  <1>19. Promise!Advance(t, new, head)
    <2>1. edge = <<Place(t).stage, new>>
      BY <1>11 DEF edge
    <2>2. /\ Place(t).head = task[t].head /\ Place(t).attempt = task[t].attempt
          /\ Place(t).limit = task[t].max_attempts
      BY <1>11
    <2>3. /\ Promise!PassedAfter(t, <<Place(t).stage, new>>, head) = after
          /\ PassedOf(t)' = Promise!PassedAfter(t, <<Place(t).stage, new>>, head)
      BY <1>14, <2>1
    <2> HIDE DEF after
    <2>4. [u \in Tasks |-> Place(u)]' =
             [[u \in Tasks |-> Place(u)] EXCEPT ![t] =
                [stage |-> new, head |-> head, attempt |-> attempt, limit |-> Place(t).limit]]
      BY <1>11, <1>18, <2>2
    <2>5. [u \in Tasks |-> PassedOf(u)]' =
             [[u \in Tasks |-> PassedOf(u)] EXCEPT ![t] =
                Promise!PassedAfter(t, <<Place(t).stage, new>>, head)]
      BY <1>18, <2>3
    <2>6. [u \in Tasks |-> ReportsOf(u)]' = [[u \in Tasks |-> ReportsOf(u)] EXCEPT ![t] = {}]
      BY <1>17, <1>18
    <2> QED BY <1>4, <1>6, <1>15, <1>16, <2>1, <2>2, <2>3, <2>4, <2>5, <2>6 DEF Promise!Advance
  <1>20. new \in Policy[Place(t).stage]
    BY <1>4, <1>7, <1>11 DEF Policy
  <1> QED BY <1>11, <1>19, <1>20 DEF Promise!Next

(***************************************************************************)
(* The task ledger implements GatedTask: whatever revisions callers act    *)
(* on, however leases end and whatever evidence is on record, a task moves *)
(* as if there were one state, one commit and the reports made on it.      *)
(***************************************************************************)
THEOREM WorkflowRefinesGatedTask == Spec => ImplementsGatedTask
  <1>1. ASSUME StateInv, EvidenceDated, [Next]_vars
        PROVE  [Promise!Next]_(Promise!ledger)
    <2>1. CASE UNCHANGED stateVars
      <3>1. \A t \in Tasks :
               Place(t)' = Place(t) /\ PassedOf(t)' = PassedOf(t) /\ ReportsOf(t)' = ReportsOf(t)
        BY <2>1, PromiseFrame, ReportsFrame DEF stateVars
      <3> QED BY <3>1 DEF Promise!ledger
    <2>2. ASSUME NEW t \in Tasks, StateCall(t) PROVE [Promise!Next]_(Promise!ledger)
      <3>1. ASSUME NEW status \in DispatchableStates, NEW limit \in AttemptLimits,
                   NEW base \in Heads, NEW gate \in Gates, NEW instant \in Times,
                   Register(t, status, limit, base, gate, instant)
            PROVE  Promise!Next
        BY <1>1, <3>1, RegisterEnters
      <3>2. ASSUME NEW id \in LeaseIds, NEW e \in 1 .. Len(history[t]), Transition(t, id, e)
            PROVE  Promise!Next
        <4>1. /\ Registered(t)
              /\ \E new \in TaskStates, head \in Heads, gate \in Gates,
                    artifacts \in SUBSET EvidenceIds : Moved(t, new, head, gate, artifacts)
          BY <1>1, <3>2, TransitionMoves
        <4> QED BY <1>1, <4>1, MovedAdvances
      <3>3. ASSUME NEW id \in LeaseIds, NEW e \in 1 .. Len(history[t]), RecordEvidence(t, id, e)
            PROVE  [Promise!Next]_(Promise!ledger)
        BY <1>1, <3>3, EvidenceReports
      <3> QED BY <2>2, <3>1, <3>2, <3>3 DEF StateCall
    <2> QED BY <1>1, <2>1, <2>2 DEF Next, vars
  <1> QED BY <1>1, PromiseInit, StateInvariant, EvidenceIsDated, PTL
          DEF Spec, ImplementsGatedTask, Promise!Spec

=============================================================================
