CONSTANTS
    Recs = {1}
    Conns = {c1, c2}
    ITasks = {i1, i2}
    ETasks = {e1}
    Kinds = {"once"}
    Autos = {TRUE}
    Removals = FALSE
    Unsolicited = FALSE
    MaxInvitations = 1
    MaxDid = 2
SPECIFICATION Spec
INVARIANT ServesOnce
CHECK_DEADLOCK FALSE
