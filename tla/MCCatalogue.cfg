CONSTANTS
    Writings <- MCWritings
    MaxEntries = 5
    MaxName = 4
    MaxSize = 14
    MaxRecords = 3
    PayloadSize = 1
SPECIFICATION Spec
INVARIANTS
    TypeOK
    CatalogIsAsWritten
    WrittenIsRead
PROPERTIES
    AnswersAgree
