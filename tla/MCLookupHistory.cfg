SPECIFICATION HistorySpec
CONSTANTS
    SlotOrder <- MCSlotOrder
    Lookup = "lookup"
    UIntMod = 8
    Threads = {t1, t2}
    NoThread = NoThread
    MaxNest = 2
    Resolvers = {t1, t2}
    ArmedFuses = {1, 2}
INVARIANTS FuseOvershoot MaskReportsLookup MaxdepthSound
PROPERTIES FuseBlows ImplementsFuse
CHECK_DEADLOCK FALSE
