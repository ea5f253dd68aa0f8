SPECIFICATION SystemSpec
CONSTANTS
    SlotOrder <- MCSlotOrder
    Lookup = "lookup"
    UIntMod = 4
    BadBit = "bad"
    Threads = {t1}
    NoThread = NoThread
    MaxNest = 1
    Resolvers = {}
    ArmedFuses = {}
    Writers = {w1}
    FuseWrites = {1}
    CountWrites = {0}
    DepthWrites = {0}
    MaxWrites = 3
    InitialFuses = {1}
INVARIANT UnreportedIsAbsent
CHECK_DEADLOCK FALSE
