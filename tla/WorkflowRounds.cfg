\* One task goes through review and remediation again and again.
SPECIFICATION LifeSpec
CONSTANTS
    o1 = o1
    o2 = o2
    p2 = p2
    l1 = l1
    l2 = l2
    t1 = t1
    b1 = b1
    Tasks = {t1}
    Branches = {b1}
    Owners = {o1, o2}
    LeaseIds = {l1, l2}
    Controllers = {p2}
    OwnerOf <- OneController
    Ttls = {1}
    Horizon = 2
    Heads = {h1}
    Gates = {g1}
    EvidenceIds = {e1, e2, e3}
    AttemptLimits = {1}
    Targets <- ReviewLoop
    RecordingStates <- Gated
    MaxRevision = 15
SYMMETRY Symmetry
CHECK_DEADLOCK FALSE
INVARIANTS
    RemediationRoundsBounded
