\* Two controllers, two tasks, two branches, two lease identifiers; the clock
\* may be set back as long as it is not steady.
SPECIFICATION FairLeaseSpec
CONSTANTS
    p1 = p1
    p2 = p2
    o1 = o1
    o2 = o2
    Tasks = {t1, t2}
    Branches = {b1, b2}
    Owners = {o1, o2}
    LeaseIds = {l1, l2}
    Controllers = {p1, p2}
    OwnerOf <- DistinctOwners
    Ttls = {1}
    Horizon = 2
INVARIANTS
    Exclusive
    ConsistentRows
PROPERTIES
    ImplementsExclusiveLease
    AbandonedLeaseEnds
