CONSTANTS
    p1 = p1
    p2 = p2
    p3 = p3
    Free = Free
    Garbage = Garbage
    Gone = Gone
    Null = Null
    Items <- MCItems
    Keys <- MCKeys
    Catalog <- MCCatalog
    Addresses <- MCAddresses
    Pieces <- MCPieces
    ScanCapacity = 5
    InitialStores <- SmallStores
    ShowDialogs = FALSE
    Faults = {"catalog", "promote", "delete", "store", "garbage", "patch", "audit", "arm", "shutdown"}
    MaxMoves = 1
SPECIFICATION Spec
SYMMETRY PieceSymmetry
INVARIANTS
    TypeOK
    BatchShape
    SealedPlanIsSound
    PiecesShowPlaced
PROPERTIES
    KeepsLedger
