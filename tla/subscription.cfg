SPECIFICATION Spec
CONSTANTS
    month = month
    year = year
    Row <- Rows
    Plan <- Plans
    Duration <- Durations
    ExtraDays <- NoExtra
    MaxLag = 1
    Horizon = 6
INVARIANTS
    TypeOK
    AtMostOneActive
    PeriodsDisjoint
    PaidTimeKept
    QueueContiguous
    ExpiredOnlyAfterEnd
    EntitledIsServed

    
VIEW OpenColumns
CHECK_DEADLOCK FALSE
