SPECIFICATION FairSpec
INVARIANTS
    TypeOK
    RenamedWithoutGap
    StreamIsWritten
    CounterAgrees
PROPERTIES
    DownloadEnds
CONSTANTS
    Total = 5
    Budgets <- MCBudgets
    ParallelMinTotal = 3
    TargetSegments = 2
    MinSegmentBytes = 2
    SegmentAttempts = 2
    SingleStreamAttempts = 2
    ProbeAttempts = 2
    MaxChunk = 2
CHECK_DEADLOCK FALSE
