SPECIFICATION FairSpec
CONSTANTS
    Msgs = {m1, m2}
    Http = {m1, m2}
    Ws = {}
    Deliverers = {d1, d2}
    MaxRetries = 1
    RedisFaults = FALSE
    MaxCopies = 2
    MaxPosts = 3
    m1 = m1
    m2 = m2
    d1 = d1
    d2 = d2
PROPERTY ImplementsDispatch
CHECK_DEADLOCK FALSE
INVARIANT OneCopy
