SPECIFICATION LifecycleSpec
CONSTANTS
    SlotOrder <- MCSlotOrder
    Lookup = "lookup"
    UIntMod = 64
    BadBit = "bad"
    Writers = {w1, w2}
    FuseWrites = {}
    CountWrites = {}
    DepthWrites = {}
    MaxWrites = 3
    Dispatchers = {t1, t2}
    OidOrder <- MCOidOrder
    NodeOid = "sedarwin"
    HooksOid = "hooks"
    UnsafeOid = "unsafe"
    DefaultFuse = 16
    MaxLoads = 2
INVARIANTS NothingDangles ParentLinked QuietUntilAsked RunningIsComplete LoneWriteRepairs
PROPERTY TransitionsEnd
CHECK_DEADLOCK FALSE
