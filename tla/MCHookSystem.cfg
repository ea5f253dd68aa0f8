SPECIFICATION SystemSpec
CONSTANTS
    SlotOrder <- MCSlotOrder
    Lookup = "lookup"
    UIntMod = 3
    BadBit = "bad"
    Threads = {t1, t2}
    NoThread = NoThread
    MaxNest = 2
    Resolvers = {t1}
    ArmedFuses = {}
    Writers = {w1}
    FuseWrites = {0, 1}
    CountWrites = {2}
    DepthWrites = {0}
    MaxWrites = 3
    InitialFuses = {0, 1}
INVARIANTS SystemTypeOK NoFalsePositive DepthIsActivations Interlock
PROPERTY FuseWins
CHECK_DEADLOCK FALSE
