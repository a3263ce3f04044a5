SPECIFICATION FairSpec
CONSTANTS
    Graphs = {"old", "new"}
    Functions = {"f"}
    ResolvedIn <- MCResolvedIn
    Blasts = {"empty", "endpoint"}
    BlastIn <- MCBlastIn
    Deltas = {"clean", "critical"}
    DeltaIn <- MCDeltaIn
    RiskOf <- MCRiskOf
    None = None
    QueryAttempts = 2
    PostAttempts = 2
    MaxRuns = 2
    MaxChanges = 1
CHECK_DEADLOCK FALSE
INVARIANTS
    TypeOK
    ReportsAgree
PROPERTY RunsClose
