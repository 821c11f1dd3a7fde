CONSTANTS
    Tasks = {t1, t2}
    NonceEndpoint = TRUE
    MaxExchanges = 1
    MaxCodes = 1
    MaxNonces = 2
SPECIFICATION Spec
INVARIANT OneCredential
CHECK_DEADLOCK FALSE
