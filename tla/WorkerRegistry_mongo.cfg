CONSTANTS
    w1 = w1
    w2 = w2
    u1 = u1
    u2 = u2
    p1 = p1
    p2 = p2
    Workers = {w1, w2}
    Seeds = {w1}
    Urls = {u1, u2}
    SeedUrl = u1
    Unknown = Unknown
    NoWorker = NoWorker
    NoRecord = NoRecord
    Polls = {p1, p2}
    Mongo = TRUE
    Faults = {"crash", "store"}
    MaxFaults = 2
SPECIFICATION Spec
SYMMETRY MCSymmetry
INVARIANTS TypeOK 
