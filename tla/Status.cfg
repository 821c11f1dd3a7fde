CONSTANTS
    Defs = {d1, d2}
    Creds = {c1}
    NoCred = NoCred
    Tasks = {t1, t2}
    Statuses = {"valid", "revoked"}
    Valid = "valid"
    ListSize = 2
    ShardSize = 1
    Retries = 2
    Updates = "alone"
    Deletes = TRUE
    MaxLists = 5
SPECIFICATION AllSpec
INVARIANTS TypeOK ListsInOrder EncodingsRight WalksEnd
PROPERTY EntryGivenOnce
SYMMETRY Symmetry
CHECK_DEADLOCK FALSE
