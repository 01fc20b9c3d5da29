CONSTANTS
    p1 = p1
    p2 = p2
    p3 = p3
    Free = Free
    Garbage = Garbage
    Gone = Gone
    Null = Null
    Items <- MCItems
    Keys <- MCKeys
    Catalog <- MCCatalog
    Addresses <- MCAddresses
    Pieces <- MCPieces
    ScanCapacity = 4
    InitialStores <- FullStores
    ShowDialogs = FALSE
    Faults = {"promote", "written", "delete", "raise", "rollback", "partial", "scene"}
    MaxMoves = 1
SPECIFICATION Spec
SYMMETRY PieceSymmetry
PROPERTIES
    DamageIsOneCopy
    DanglesOnlyBlind
