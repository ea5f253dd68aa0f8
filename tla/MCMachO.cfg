SPECIFICATION Spec
CONSTANTS
    Digit = 16
    ThinHeader = 5
    LoadCommand = 2
    FatHeader = 4
    FatArch = 2
    Linkedit = 4
    Arm64 = 28
    Images <- MCImages
INVARIANTS ReadsInside SignatureFound SelftestParses
PROPERTY Terminates
CHECK_DEADLOCK FALSE
