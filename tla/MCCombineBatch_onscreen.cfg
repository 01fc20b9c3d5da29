CONSTANTS
    p1 = p1
    p2 = p2
    p3 = p3
    Free = Free
    Garbage = Garbage
    Gone = Gone
    Null = Null
    Items <- MCItems
    Keys <- MCKeys
    Catalog <- MCCatalog
    Addresses <- MCAddresses
    Pieces <- MCPieces
    ScanCapacity = 5
    InitialStores <- PutAwayStores
    ShowDialogs = FALSE
    Faults = {}
    MaxMoves = 0
SPECIFICATION Spec
SYMMETRY PieceSymmetry
PROPERTIES
    NothingModifiedOnScreen
