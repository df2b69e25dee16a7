\* Two writers, a file in the workspace and one in a directory, one change by
\* another program, one power failure.  A tree that has ended does nothing.
SPECIFICATION Spec
CONSTANTS
    w1 = w1
    w2 = w2
    f1 = f1
    f2 = f2
    d1 = d1
    b1 = b1
    b2 = b2
    b3 = b3
    Writers = {w1, w2}
    Manifest <- TwoFiles
    Dirs = {d1}
    Root = root
    DirOf <- Places
    BlobOf <- Blobs
    None = none
    Foreign = foreign
    MaxChanges = 1
CHECK_DEADLOCK FALSE
INVARIANTS
    NeverPartial
    RejectedHadNoEffect
    MaterializedStays
PROPERTIES
    NothingReplaced
