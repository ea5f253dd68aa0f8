SPECIFICATION Spec
CONSTANTS
    Threads = {t1, t2}
    Procs = {p1, p2}
    Pids = {1}
    Nobody = Nobody
    Flags <- MCFlags
    SigLen = 3
    NameMax = 4
    NameLens = {4}
INVARIANTS
    TypeOK
    NamesRightProcess
    StuckOnlyIfTraced
    InBuffer
    FlagsSpelled
PROPERTY
    ReapCompletes
