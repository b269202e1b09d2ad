SPECIFICATION Spec
CONSTANTS
    u1 = u1
    u2 = u2
    u3 = u3
    a = a
    b = b
    Null = Null
    Uploads <- ThreeUploads
    Names <- TwoNames
    Mimes <- DocxOnly
    MaxFaults = 1
SYMMETRY Symmetry
CHECK_DEADLOCK FALSE
INVARIANTS
    TypeOK
    VersionsAreStored
    SettledTextIsCurrent
    SettledPreviewIsCurrent
