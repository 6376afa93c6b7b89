CONSTANTS
    Threads = {t1, t2, t3}
    Clients = {c1, c2}
    Paths <- MCPaths
    Calls <- MCCalls
    None = None
    MaxFaults = 1
    t1 = t1
    t2 = t2
    t3 = t3
    c1 = c1
    c2 = c2
    p = p
    q = q
    a = a
    b = b
SPECIFICATION MCSpec
CHECK_DEADLOCK FALSE
INVARIANTS
    TypeOK
    ClaimsAreExclusive
    ParentsAreNoObstacle
    DeleteAllTriesAll
    FreedHandlesStayUnused
PROPERTIES
    EveryCallReturns
