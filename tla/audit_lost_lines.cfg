SPECIFICATION Spec
CONSTANTS
    p1 = p1
    p2 = p2
    e1 = e1
    e2 = e2
    Process <- Processes
    Event <- Events2
    File <- Files
    BatchSize = 2
    MaxRetries = 2
    MaxFaults = 2
    MaxCrashes = 1
CHECK_DEADLOCK FALSE
INVARIANT AcceptedIsKept
