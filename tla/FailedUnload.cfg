SPECIFICATION LifecycleSpec
CONSTANTS
    SlotOrder <- MCSlotOrder
    Lookup = "lookup"
    UIntMod = 64
    BadBit = "bad"
    Writers = {w1}
    FuseWrites = {}
    CountWrites = {}
    DepthWrites = {}
    MaxWrites = 1
    Dispatchers = {t1}
    OidOrder <- MCOidOrder
    NodeOid = "sedarwin"
    HooksOid = "hooks"
    UnsafeOid = "unsafe"
    DefaultFuse = 16
    MaxLoads = 1
INVARIANT LiveMaskReports
CHECK_DEADLOCK FALSE
