SPECIFICATION Spec
CONSTANTS
    d1 = d1
    Null = Null
    Docs <- OneDoc
    Retentions <- OneRetention
    MaxVersion = 1
    MaxArchives = 2
    MaxStops = 1
CHECK_DEADLOCK FALSE
INVARIANTS
    TypeOK
    RowsHaveFiles
    ArchivesAreComplete
