CONSTANTS
    r1 = r1
    s1 = s1
    s2 = s2
    Requests = {r1}
    Sockets = {s1, s2}
    NoSocket = NoSocket
    Faults = {"user"}
    MaxFaults = 1
SPECIFICATION Spec
INVARIANTS RefreshScheduled
