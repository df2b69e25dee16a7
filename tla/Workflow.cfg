\* The life of one task that changes hands: enough revisions to be ready to merge.
SPECIFICATION LifeSpec
CONSTANTS
    o1 = o1
    o2 = o2
    p2 = p2
    l1 = l1
    l2 = l2
    t1 = t1
    b1 = b1
    Tasks = {t1}
    Branches = {b1}
    Owners = {o1, o2}
    LeaseIds = {l1, l2}
    Controllers = {p2}
    OwnerOf <- OneController
    Ttls = {1}
    Horizon = 2
    Heads = {h1, h2}
    Gates = {g1}
    EvidenceIds = {e1, e2, e3, e4}
    AttemptLimits = {1, 2}
    Targets <- MainTargets
    RecordingStates <- Gated
    MaxRevision = 13
SYMMETRY Symmetry
CHECK_DEADLOCK FALSE
INVARIANTS
    HistoryReplays
    GatedByEvidence
    MergedHeadWasGated
PROPERTIES
    ChangesUnderLease
    ImplementsGatedTask
