SPECIFICATION AutoSpec
CONSTANTS
    Ids = {r1, r2}
    Threads = {t1, t2}
    NoThread = NoThread
    ITasks = {i1}
    HTasks = {h1}
    AutoOffer = FALSE
    AutoRequest = TRUE
    AutoStore = TRUE
    AutoIssues = {TRUE}
    AutoRemoves = {FALSE}
    Faults = FALSE
    MaxCreds = 2
    MaxReqs = 2
PROPERTIES
    AutoIssueCompletes
CHECK_DEADLOCK FALSE
