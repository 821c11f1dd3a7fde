SPECIFICATION AllSpec
CONSTANTS
    Keys = {k1}
    Agents = {a1, a2}
    Handlers = {h1, h2}
    NoAgent = NoAgent
    MaxFaults = 1
    MaxMsgs = 2
    MaxPending = 2
    k1 = k1
    a1 = a1
    a2 = a2
    h1 = h1
    h2 = h2
SYMMETRY Symmetry
INVARIANTS Types PolledIsRouted AnswersMatch OnlyAttested
    ReportedPublished RequestsKept LedgerAgrees StaysValid
CHECK_DEADLOCK FALSE
