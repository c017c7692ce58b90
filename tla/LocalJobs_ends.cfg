CONSTANTS
    j1 = j1
    j2 = j2
    j3 = j3
    a1 = a1
    a2 = a2
    Jobs = {j1}
    Accounts = {a1}
    NoJob = NoJob
    NoAccount = NoAccount
    MaxConcurrent = 1
    MaxRetries = 1
    RetryAtOnce = TRUE
    ReleaseBatch = 1
    HealthPolled = TRUE
    Faults = {"crash", "stop", "redis", "browser", "recovery", "login", "admin"}
    MaxFaults = 3
SPECIFICATION FairSpec
PROPERTIES EveryJobEnds ActiveDrains
