\* Two controllers and two files of one workspace, one write by another program,
\* one power failure.  A pipeline that has ended does nothing more.
SPECIFICATION Spec
CONSTANTS
    Callers = {c1, c2}
    Files = {f1, f2}
    Contents = {alpha, beta}
    Original = alpha
    Selections = {{f1, f2}}
    Outside = outside
    Nobody = nobody
    MaxOutside = 1
    MaxFailures = 1
SYMMETRY Symmetry
INVARIANTS
    AppliedStays
    RejectedChangedNothing
    NothingOverwritten
    NeverHalf
CHECK_DEADLOCK FALSE
