SPECIFICATION FairSpec
CONSTANTS
    r1 = r1
    r2 = r2
    Null = Null
    Editions <- MCEditions
    Requests <- MCRequests
    TrialDays = 2
    GraceDays = 1
    DeletionDelay = 1
    Expiries <- MCExpiries
    MaxDay = 5
INVARIANTS
    TypeOK
    NeverEarly
    LicenceIsBacked
PROPERTIES
    DatesAreFixed
    TrialIsEnforced
