CONSTANTS
    p1 = p1
    p2 = p2
    p3 = p3
    Procs = {p1, p2, p3}
    PoolSize = 1
    MaxOverflow = 1
    Settings <- RunSettings
SPECIFICATION FairSpec
INVARIANTS
    TypeOK
    ConnectionsAccounted
    OnlyTokenIssueHoldsAndWaits
    ProgressBelowCapacity
    WaitsBeforeItCommits
PROPERTIES
    RequestsEnd
