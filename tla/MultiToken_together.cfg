SPECIFICATION Spec
CONSTANTS
    Wallets = {"b"}
    Older = {}
    Managed = {}
    Tasks = {t1, t2}
    Lifetime = 3
    MaxTime = 5
    MaxTokens = 4
    t1 = t1
    t2 = t2
INVARIANT StaysValid
CHECK_DEADLOCK FALSE
