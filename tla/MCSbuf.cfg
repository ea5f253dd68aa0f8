SPECIFICATION Spec
CONSTANTS
    MinExtend = 2
    PageSize = 4
    IntMax = 9
    SizeMod = 32
    NUL = "0"
    Space = " "
    Junk = "?"
    Pieces <- MCPieces
    NewSizes <- MCNewSizes
    CallerSizes = {0, 1, 3}
INVARIANTS SbufTypeOK ReservedByte InBounds HeapIsOwned
PROPERTY ImplementsString
