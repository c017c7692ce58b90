CONSTANTS
    g1 = g1
    g2 = g2
    w1 = w1
    w2 = w2
    l1 = l1
    l2 = l2
    l3 = l3
    l4 = l4
    l5 = l5
    Jobs = {g1, g2}
    Workers = {w1}
    LocalIds = {l1, l2}
    NoJob = NoJob
    NoWorker = NoWorker
    NoLocal = NoLocal
    MaxRetries = 0
    PostAttempts = 1
    Slots = 1
    MaxJobs = 2
    ListLimit = 2
    RetryAtOnce = FALSE
    ReleaseBatch = 1
    HealthPolled = FALSE
    Faults = {}
    MaxFaults = 0
SPECIFICATION Spec
PROPERTY StaysGlobalWhileBusy
