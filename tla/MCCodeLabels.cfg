SPECIFICATION LabelsSpec
CONSTANTS
    Commits   <- MCCommits
    Files     <- MCFiles
    Functions <- MCFunctions
    Names     <- MCNames
    NameOf    <- MCNameOf
    LineOf    <- MCLineOf
    Endpoints = {"/run"}
    Content   <- MCContent
    Runs      = {r1}
    None      = None
    Torn      = Torn
    MaxMoves  = 1
    MaxStarts = 2
    Vulns      = {"v1"}
    Advisories <- MCAdvisories
    Depth      = 2
    RowLimit   = 2
    MaxChanges = 0
CHECK_DEADLOCK FALSE
INVARIANT NotReachableInCode
