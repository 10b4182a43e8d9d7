SPECIFICATION ServicesSpec
CONSTANTS
    p1 = p1
    p2 = p2
    t1 = t1
    t2 = t2
    t3 = t3
    k1 = k1
    k2 = k2
    user = user
    token1 = token1
    token2 = token2
    everybody = everybody
    b1 = b1
    b2 = b2
    Threads = {t1, t2, t3}
    Keys = {k1, k2}
    Objects = {o1, o2, o3}
    NoObject = NoObject
    Nobody = Nobody
    Queries <- ThreeQueries
    Server <- ServerOf
    Counters <- AllCounters
    CountersOf <- QueryCounters
    SlotLimit <- SlotLimits
    SlotTTL = 3
    MaxLeaks = 2
    Batches = {b1, b2}
    Parent <- ParentOf
    Managed = {b1}
    Retention = {1}
    MaxNow = 2
    MaxChanges = 1
    MaxMishaps = 1
    Schedulers = {p1, p2}
    Types = {"auction", "close"}
    Target <- TargetOf
    Window = 1
    LeaseTTL = 1
    MaxCall = 2
    MaxInstant = 3
    MaxCrashes = 1
    Publishers = {p1, p2}
    Members = {1, 2}
    People = {t1, t2}
    MaxSheet = 2
    MaxEdition = 2
    MaxFailures = 1
CHECK_DEADLOCK FALSE
INVARIANTS
    ServicesTypeOK
    TableIsExact
    SlotsBounded
    DeletionsHonest
    CapturesExclusive
PROPERTIES
    ImplementsMutex
    KeptWhileDue
    FirstCaptureKept
    TableFollows
