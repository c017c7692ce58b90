CONSTANTS
    c1 = c1
    c2 = c2
    c3 = c3
    o1 = o1
    o2 = o2
    Calls = {c1, c2}
    Objects = {o1, o2}
    Pids <- MCPids
    None = None
    Desktop <- MCDesktop
    Attempts = 2
    Operations = {"create", "delete", "start", "stop", "restart", "recover", "proxy", "settings", "install", "job"}
    MaxBegun = 3
    MaxFailures = 1
SPECIFICATION Spec
SYMMETRY MCSymmetry
INVARIANTS TypeOK NoOrphans NoGhosts JobsAreHandled
