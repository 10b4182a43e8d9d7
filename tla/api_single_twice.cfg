SPECIFICATION Spec
CONSTANTS
    b1 = b1
    s1 = s1
    Worker = worker
    Batch <- OneSingle
    Single <- OneSingle
    Item <- OneItem
    BatchOf <- AllInBatch
    Ineligible = {}
    MaxWorkers = 1
    MaxRestarts = 1
    MaxCancels = 1
    MaxViews = 1
    MaxFaults = 0
CHECK_DEADLOCK FALSE
INVARIANT ExecutedByOneProcess
