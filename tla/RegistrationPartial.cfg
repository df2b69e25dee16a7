\* Two controllers and three Git processes for one workspace.
SPECIFICATION Spec
CONSTANTS
    Callers = {c1, c2}
    Processes = {g1, g2, g3}
    Nobody = nobody
SYMMETRY Symmetry
INVARIANT
    RejectedMeansUnregistered
