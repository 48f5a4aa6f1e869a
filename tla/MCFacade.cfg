SPECIFICATION Spec
CONSTANTS
    t1 = t1
    t2 = t2
    o1 = o1
    Thread = {t1, t2}
    Nobody = Nobody
    Observer = {o1}
    NoObserver = NoObserver
    Calls <- AllCalls
    CallbackCalls <- FromObservers
    MaxFence = 2
    MaxRetained = 1
    MaxCalls = 4
    MaxDepth = 3
INVARIANTS
    ReadersSeeWholeMoves
    NoticesFollowCommits
PROPERTIES
    CallsReturn
    ImplementsAuthority
CHECK_DEADLOCK FALSE
