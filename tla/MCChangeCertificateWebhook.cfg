CONSTANTS
    f = f
    g = g
    h = h
    t = t
    v1 = v1
    v2 = v2
    d1 = d1
    d2 = d2
    r1 = r1
    r2 = r2
    Functions <- MCFunctions
    FilesAt <- MCFilesAt
    MaxPush = 1
    CodeCalls <- MCCodeCalls
    Handlers = {h}
    Vulns = {v1, v2}
    Kev = {v1}
    Epss <- MCEpss
    Vulnerable <- MCVulnerable
    Depth = 2
    RowLimit = 2
    Graphs <- MCGraphs
    MaxChanges = 0
    MaxSecond = 0
    Deliveries = {d1, d2}
    Requests = {}
SPECIFICATION FairSpec
CHECK_DEADLOCK FALSE
INVARIANT
    CheckOwned
PROPERTIES
    VerdictsAreFinal
    ChecksComplete
