SPECIFICATION Spec
CONSTANTS
    Commits   <- MCCommits
    Files     <- MCFiles
    Functions <- MCFunctions
    Names     <- MCNames
    NameOf    <- MCNameOf
    LineOf    <- MCLineOf
    Endpoints <- MCEndpoints
    Content   <- MCContent
    Runs      = {r1, r2}
    None      = None
    Torn      = Torn
    MaxMoves  = 1
    MaxStarts = 3
SYMMETRY Symmetry
CHECK_DEADLOCK FALSE
INVARIANTS
    TypeOK
    SavedIsIngested
    FullScanIngestsCalls
