SPECIFICATION FairSpec
CONSTANTS
    u1 = u1
    u2 = u2
    u3 = u3
    a = a
    b = b
    Null = Null
    Uploads <- TwoUploads
    Names <- OneName
    Mimes <- AllMimes
    MaxFaults = 0
CHECK_DEADLOCK FALSE
PROPERTIES
    ExtractionEnds
