SPECIFICATION SlotsFairSpec
CONSTANTS
    q1 = q1
    q2 = q2
    p1 = p1
    p2 = p2
    user = user
    token1 = token1
    token2 = token2
    everybody = everybody
    Queries = {q1, q2}
    Server <- ServerOf
    Counters <- AllKeys
    CountersOf <- KeysOfQuery
    SlotLimit <- Limits
    SlotTTL = 2
    MaxLeaks = 1
PROPERTY LeaksEnd
