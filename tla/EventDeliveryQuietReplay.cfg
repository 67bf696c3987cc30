SPECIFICATION FairSpec
CONSTANTS
    p1 = p1
    p2 = p2
    s1 = s1
    s2 = s2
    d1 = d1
    a1 = a1
    t1 = t1
    t2 = t2
    Publishers = {p1, p2}
    Aggregates = {a1}
    Owners = {}
    NoOwner = NoOwner
    NoAggregate = NoAggregate
    Event <- MCEvent
    Listeners = {}
    Subscribers = {}
    Tails = {d1}
    Types = {t1}
    Wants <- NoWants
    Starts <- MCStarts
    AggregateOf <- MCAggregateOf
    Capacity = 1
    BatchSize = 2
    MaxEvents = 2
    MaxLength = 2
    QuietReplay = TRUE
    Removal = FALSE
CHECK_DEADLOCK FALSE
PROPERTIES TailSeesEveryCommit
