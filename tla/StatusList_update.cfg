CONSTANTS
    Defs = {d1}
    Creds = {c1, c2}
    NoCred = NoCred
    Tasks = {t1, t2}
    Statuses = {"valid", "revoked"}
    Valid = "valid"
    ListSize = 2
    ShardSize = 2
    Retries = 3
    Updates = "any time"
    Deletes = FALSE
    MaxLists = 3
SPECIFICATION Spec
PROPERTY UpdatesOwnEntry
CHECK_DEADLOCK FALSE
