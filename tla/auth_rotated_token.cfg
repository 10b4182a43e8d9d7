SPECIFICATION Spec
CONSTANTS
    p1 = p1
    p2 = p2
    q1 = q1
    q2 = q2
    Process <- Processes
    Request <- Requests
    ProcessOf <- Homes
    Token <- TwoTokens
    Right <- OneRight
    TTL = 3
    Promotion = 1
    MaxHold = 1
    MaxRequests = 3
    MaxChanges = 1
    MaxFaults = 1
CHECK_DEADLOCK FALSE
INVARIANT RotatedTokenRefused
