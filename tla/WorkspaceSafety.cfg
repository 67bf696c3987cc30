SPECIFICATION Spec
CONSTANTS
    d1 = d1
    d2 = d2
    c1 = c1
    c2 = c2
    Directories = {d1, d2}
    Callers = {c1, c2}
    MaxGeneration <- TwoDirectories
    CancelDisposeAll = FALSE
SYMMETRY CallerSymmetry
INVARIANTS CachedIsOpen NoOrphan PreviousEndsFirst RootLeavesNothing
