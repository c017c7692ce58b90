CONSTANTS
    Calls = {c1, c2}
    Workers = {w1}
    Accounts = {a1, a2}
    None = None
    Broken = Broken
    Pending = Pending
    Faults = {"store", "redis", "net", "disk", "crash", "orchestrator", "browser"}
    MaxFaults = 2
SPECIFICATION Spec
SYMMETRY Symmetry
INVARIANTS TypeOK PackageSurvives 
