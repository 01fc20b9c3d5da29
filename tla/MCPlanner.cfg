CONSTANTS
    Items <- MCItems
    Keys <- MCKeys
    Catalog <- MCCatalog
    Snapshots <- MCSnapshots
SPECIFICATION Spec
CHECK_DEADLOCK FALSE
INVARIANTS
    TypeOK
    PlanIsSound
    PlanIsDisjoint
    PlanIsMaximum
    PlanRecallsFewest
