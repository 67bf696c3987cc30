SPECIFICATION Spec
CONSTANTS
    d1 = d1
    d2 = d2
    c1 = c1
    c2 = c2
    Directories = {d1}
    Callers = {c1, c2}
    MaxGeneration <- TwoGenerations
    CancelDisposeAll = TRUE
INVARIANTS NoOrphan
