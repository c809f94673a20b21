SPECIFICATION FairSpec
CONSTANTS
    r1 = r1
    r2 = r2
    r3 = r3
    Procs = {r1, r2, r3}
    MaxAttempts = 2
    MaxCount = 4
    Settings <- RunSettings
INVARIANTS TypeOK AttemptsBounded EndlessLockoutNeedsLosses
PROPERTIES LockoutEnds
