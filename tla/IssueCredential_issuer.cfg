SPECIFICATION Spec
CONSTANTS
    Ids = {r1}
    Threads = {t1, t2}
    NoThread = NoThread
    ITasks = {i1, i2}
    HTasks = {h1}
    AutoOffer = TRUE
    AutoRequest = TRUE
    AutoStore = TRUE
    AutoIssues = {TRUE, FALSE}
    AutoRemoves = {TRUE}
    Faults = TRUE
    MaxCreds = 2
    MaxReqs = 1
SYMMETRY Symmetry
INVARIANTS
    TypeOK
    OneCredentialPerThread
    SentIsRevocable
    AckedStoredOrReported
PROPERTIES
    IssuerSteps
    ImplementsIssuance
CHECK_DEADLOCK FALSE
