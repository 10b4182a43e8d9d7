SPECIFICATION OneKindSpec
CONSTANTS
    b1 = b1
    s1 = s1
    Worker = worker
    Batch <- BothKinds
    Single <- OneSingle
    Item <- ThreeItems
    BatchOf <- TwoAndOne
    Ineligible = {}
    MaxWorkers = 2
    MaxRestarts = 1
    MaxCancels = 1
    MaxViews = 0
    MaxFaults = 1
CHECK_DEADLOCK FALSE
INVARIANT SingleSettles
PROPERTY WaitingBatchesEnd
