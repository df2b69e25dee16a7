\* Two entries and two paths, changed three times while one binding is made.
SPECIFICATION Spec
CONSTANTS
    Entries = {e1, e2}
    Paths = {p1, p2}
    MaxChanges = 3
SYMMETRY Symmetry
INVARIANTS
    BindingWasTrue
CHECK_DEADLOCK FALSE
