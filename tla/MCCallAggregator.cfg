CONSTANTS
    Keys = {f, g}
    MaxWindow = 2
    MaxCount = 2
    Nobody = Nobody
SPECIFICATION FairSpec
CHECK_DEADLOCK FALSE
INVARIANTS
    TypeOK
    MessageExact
    ClosedWindowAccounted
    SinglePlace
PROPERTIES
    ImplementsLedger
    CountedCallsLeaveTheMap
    FlushLoopEnds
