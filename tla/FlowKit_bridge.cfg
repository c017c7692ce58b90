CONSTANTS
    r1 = r1
    s1 = s1
    s2 = s2
    Requests = {r1}
    Sockets = {s1, s2}
    NoSocket = NoSocket
    Faults = {"admin", "crash", "http", "net", "sw", "user"}
    MaxFaults = 2
SPECIFICATION FairSpec
INVARIANTS TypeOK OneSocket PendingIsExact NewestIsRegistered
PROPERTIES   KeyIsReported
