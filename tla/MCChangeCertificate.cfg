CONSTANTS
    f = f
    g = g
    h = h
    t = t
    v1 = v1
    v2 = v2
    d1 = d1
    d2 = d2
    r1 = r1
    r2 = r2
    Functions <- MCFunctions
    FilesAt <- MCFilesAt
    MaxPush = 1
    CodeCalls <- MCCodeCalls
    Handlers = {h}
    Vulns = {v1, v2}
    Kev = {v1}
    Epss <- MCEpss
    Vulnerable <- MCVulnerable
    Depth = 2
    RowLimit = 2
    Graphs <- MCGraphs
    MaxChanges = 1
    MaxSecond = 1
    Deliveries = {d1}
    Requests = {r1}
SPECIFICATION Spec
CHECK_DEADLOCK FALSE
INVARIANTS
    TypeOK
    RiskExact
    GreenIsEarned
