SPECIFICATION AllSpec
CONSTANTS
    Msgs = {m1, m2, m3}
    Http = {m1}
    Ws = {m2}
    Deliverers = {d1, d2}
    MaxRetries = 1
    RedisFaults = TRUE
    MaxCopies = 1
    MaxPosts = 3
    m1 = m1
    m2 = m2
    m3 = m3
    d1 = d1
    d2 = d2
INVARIANTS Types GivenUpAfterAllPosts StoredMatchesRequest
    ProofsMatch MultiUsePaired
PROPERTY HolderOnlyForward
CHECK_DEADLOCK FALSE
