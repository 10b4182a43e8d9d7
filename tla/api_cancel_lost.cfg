SPECIFICATION Spec
CONSTANTS
    b1 = b1
    s1 = s1
    Worker = worker
    Batch <- OneBatch
    Single = {}
    Item <- ThreeItems
    BatchOf <- AllInBatch
    Ineligible <- SecondIneligible
    MaxWorkers = 1
    MaxRestarts = 1
    MaxCancels = 1
    MaxViews = 1
    MaxFaults = 1
CHECK_DEADLOCK FALSE
INVARIANT CancelIsKept
