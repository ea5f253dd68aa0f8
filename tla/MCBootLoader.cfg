SPECIFICATION BootSpec
CONSTANTS
    SlotOrder <- MCSlotOrder
    Lookup = "lookup"
    UIntMod = 64
    BadBit = "bad"
    Writers = {}
    FuseWrites = {}
    CountWrites = {}
    DepthWrites = {}
    MaxWrites = 0
    Dispatchers = {}
    OidOrder <- MCOidOrder
    NodeOid = "sedarwin"
    HooksOid = "hooks"
    UnsafeOid = "hooks"
    DefaultFuse = 16
    MaxLoads = 0
    Daemon = Daemon
    Operators = {op}
    Tries = 2
    Transient = 1
INVARIANTS BootTypeOK GivesUpForCause
PROPERTIES DisarmedRecovers RunsEnd ConfirmationTrue
