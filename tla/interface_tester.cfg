SPECIFICATION TesterSpec
CONSTANTS
    b1 = b1
    e1 = e1
    e2 = e2
    r1 = r1
    r2 = r2
    Worker = worker
    Batch <- OneBatch
    Single = {}
    Item <- ThreeItems
    BatchOf <- AllInBatch
    Ineligible <- SecondIneligible
    MaxWorkers = 1
    MaxRestarts = 1
    MaxCancels = 1
    MaxViews = 1
    MaxFaults = 1
    Editors = {e1, e2}
    Readers = {r1, r2}
    Apis = {daily, weekly}
    MaxReleases = 2
    Scanners = {worker_scan, manual_scan}
    Admins = {admin}
    MaxHash = 1
    Drafts = {candidate}
    MaxMoves = 1
SYMMETRY Symmetry
CHECK_DEADLOCK FALSE
INVARIANTS
    TesterTypeOK
    RunningHasOwner
    LateStartsBounded
    NothingStranded
    VerdictHonest
    PublishedIsServed
    DriftIsAlerted
PROPERTY ImplementsTestItem
