SPECIFICATION Spec
CONSTANTS
    d1 = d1
    Null = Null
    Docs <- NoDocs
    Retentions <- TwoRetentions
    MaxVersion = 2
    MaxArchives = 2
    MaxStops = 1
CHECK_DEADLOCK FALSE
INVARIANTS
    ServesCurrentSchema

    
