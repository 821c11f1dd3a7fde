CONSTANTS
    Codes = {c1}
    Requests = {q1, q2, q3}
    MaxTries = 2
    MaxTokens = 4
SPECIFICATION AllSpec
INVARIANTS Types CodesOnce SupersededUseless ExchangeOnce SpacedUses
    KeysServed AnswersApart QueriesAnswered
PROPERTY DeactivationSeen
CHECK_DEADLOCK FALSE
