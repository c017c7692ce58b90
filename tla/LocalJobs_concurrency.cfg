CONSTANTS
    j1 = j1
    j2 = j2
    j3 = j3
    a1 = a1
    a2 = a2
    Jobs = {j1, j2}
    Accounts = {a1}
    NoJob = NoJob
    NoAccount = NoAccount
    MaxConcurrent = 1
    MaxRetries = 0
    RetryAtOnce = FALSE
    ReleaseBatch = 2
    HealthPolled = FALSE
    Faults = {}
    MaxFaults = 0
SPECIFICATION Spec
INVARIANT ConcurrencyRespected
