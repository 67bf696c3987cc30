SPECIFICATION Spec
CONSTANTS
    app = app
    project = project
    session = session
    l1 = l1
    l2 = l2
    c1 = c1
    c2 = c2
    p1 = p1
    p2 = p2
    r1 = r1
    r2 = r2
    Scopes = {app, project, session}
    Root = app
    ParentOf <- Chain
    Leaves = {l1, l2}
    Callers = {c1, c2}
    None = None
    Producers = {p1, p2}
    Consumers = {r1, r2}
    Capacity = 1
    MaxSends = 2
    leader = leader
    orphan = orphan
    k1 = k1
    Leader = leader
    Descendants = {orphan}
    Closers = {k1}
CHECK_DEADLOCK FALSE
INVARIANTS GroupIsGone
