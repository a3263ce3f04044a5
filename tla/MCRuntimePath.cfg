CONSTANTS
    k1 = k1
    f1 = f1
    f2 = f2
    Keys <- MCKeys
    Nodes <- MCNodes
    KeyOf <- MCKeyOf
    InitialNodes <- MCInitialNodes
    Counts = {1, 2}
    TombstoneDays = 1
    Lateness = 0
    MaxDay = 2
    MaxEvents = 2
    MaxStarts = 2
    MaxWindow = 2
    MaxCalls = 2
SPECIFICATION PathFairSpec
CHECK_DEADLOCK FALSE
INVARIANTS
    TypeOK
    CallsAccounted
    DailyWithinWeekly
    EdgesWithinCalls
    LastSeenIsNewest
PROPERTY
    BucketsDrain
