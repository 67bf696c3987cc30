SPECIFICATION MCSpec
CONSTANTS
    p1 = p1
    p2 = p2
    s1 = s1
    s2 = s2
    d1 = d1
    a1 = a1
    t1 = t1
    t2 = t2
    Publishers = {p1, p2}
    Aggregates = {a1}
    Owners = {}
    NoOwner = NoOwner
    NoAggregate = NoAggregate
    Event <- MCEvent
    Listeners = {1}
    Subscribers = {s1, s2}
    Tails = {d1}
    Types = {t1, t2}
    Wants <- MCWants
    Starts <- MCStarts
    AggregateOf <- MCAggregateOf
    Capacity = 1
    BatchSize = 2
    MaxEvents = 3
    MaxLength = 3
    QuietReplay = TRUE
    Removal = TRUE
CHECK_DEADLOCK FALSE
INVARIANTS NoSilentLoss TailDeliversHistory FailureIsTrue
PROPERTIES CommitsReachSubscribers TailSeesEveryCommit CloseReturns
