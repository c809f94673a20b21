SPECIFICATION Spec
CONSTANTS
    r1 = r1
    r2 = r2
    r3 = r3
    Procs = {r1}
    MaxAttempts = 2
    MaxCount = 0
    Settings <- AuditSettings
INVARIANTS FailedLoginsAudited
