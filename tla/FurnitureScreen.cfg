CONSTANTS
    Sites = {s1, s2, s3}
    MaxMoves = 3
    RowCount = 3
    Keyless = {2}
    MaxPairs = 3
SPECIFICATION ScreenSpec
INVARIANTS
    TypeOK
    HooksAreWhole
    ScreenTypeOK
    FinishedIsShownOrOwed
PROPERTIES
    WritesOnlyExpectedCode
    AuditIsTrue
    HookedStaysDisabled
    RebuildsOnlyPatched
