SPECIFICATION Spec
CONSTANTS
    w1 = w1
    w2 = w2
    a1 = a1
    a2 = a2
    i1 = i1
    i2 = i2
    i3 = i3
    x = x
    y = y
    o1 = o1
    o2 = o2
    Writers = {w1, w2}
    Aggregates = {a1, a2}
    EventIDs = {i1, i2}
    Payloads = {x, y}
    Owners = {o1, o2}
    NoOwner = NoOwner
    NoRow = NoRow
    NoRequest = NoRequest
    MaxSequence = 1
    AmbiguousCommit = TRUE
    Requests <- MCRequests
SYMMETRY WriterSymmetry
INVARIANTS OneWriter ReopenAccepts ConstraintsNeverBite NoticeFollowsCommit
PROPERTIES ProjectedTogether FencedStoreIsFrozen OwnersAreFenced ImplementsLog
