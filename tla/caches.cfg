SPECIFICATION CachesSpec
CONSTANTS
    p1 = p1
    p2 = p2
    q1 = q1
    q2 = q2
    Process <- Processes
    Request <- TwoRequests
    ProcessOf <- Homes
    Token <- TwoTokens
    Right <- OneRight
    TTL = 3
    Promotion = 1
    MaxHold = 1
    MaxRequests = 3
    MaxChanges = 1
    MaxFaults = 1
    Procs <- Processes
    Requests <- TwoRequests
    Home <- Homes
    Limit = 2
    MaxQueue = 1
    MaxDay = 1
    MaxCalls = 3
    MaxOutages = 1
    server = server
    t1 = t1
    t2 = t2
    r1 = r1
    r2 = r2
    Nobody = Nobody
    Servers = {server}
    Callers = {t1, t2}
    ServerOf <- OneServer
    Refreshes = {r1, r2}
    PoolOf <- OnePool
    RowsTTL = 1
    EmptyTTL = 1
    Stale = 2
    Ahead = 1
    MaxCall = 1
    MaxNow = 5
CHECK_DEADLOCK FALSE
INVARIANTS
    StaleForAWhileOnly
    ClearedIsGone
    CallsCollapsed
    ServedAgeBounded
    RefreshFlagExact
    QuotaBounded
    NotRefusedEarly
    UsageAccounted
