SPECIFICATION FairSpec
CONSTANTS
    Keys = {k1, k2}
    Agents = {a1, a2}
    Handlers = {h1}
    NoAgent = NoAgent
    MaxFaults = 0
    MaxMsgs = 2
    MaxPending = 3
    k1 = k1
    k2 = k2
    a1 = a1
    a2 = a2
    h1 = h1
INVARIANT RoutingConsistent
PROPERTY AcceptedIsTaken
CHECK_DEADLOCK FALSE
