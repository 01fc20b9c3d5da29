CONSTANTS
    p1 = p1
    Free = Free
    Garbage = Garbage
    Gone = Gone
    Null = Null
    Items <- MCItems
    Keys <- MCKeys
    Catalog <- MCCatalog
    Addresses <- MCAddresses
    Pieces <- MCPieces
    ScanCapacity = 4
    InitialStores <- MCStores
    PortFaults = {"promote", "rollback", "written", "delete", "raise", "silent", "other"}
    MaxMoves = 2
SPECIFICATION Spec
INVARIANTS
    TypeOK
PROPERTIES
    SuccessIsTheMerge
    RefusalTakesNothing
    FailureIsOneCopy
    AlarmIsJustified
