CONSTANTS
    k1 = k1
    f1 = f1
    Keys <- OneKey
    Nodes <- OneNode
    KeyOf <- OneKeyOf
    InitialNodes <- OneNode
    Counts = {1}
    TombstoneDays = 2
    Lateness = 1
    MaxDay = 4
    MaxEvents = 2
    MaxStarts = 1
SPECIFICATION Spec
CHECK_DEADLOCK FALSE
PROPERTY
    TombstonesOnlyUnseen
