SPECIFICATION FairSpec
CONSTANTS
    t1 = t1
    t2 = t2
    n1 = n1
    n2 = n2
    n3 = n3
    c1 = c1
    c2 = c2
    p1 = p1
    m1 = m1
    s1 = s1
    other = other
    u1 = u1
    None = None
    Txs <- MCTxs
    Users <- MCUsers
    Senders <- MCSenders
    Pool = 2
    Submissions <- MCSubmissions
    Courts <- MCCourts
    Parties <- MCParties
    Members <- MCMembers
    TypeOf <- MCTypeOf
    UserOf <- MCUserOf
    Target = "ACTIVE"
    StatusRow = s1
    Others <- MCOthers
    Targets <- MCTargets
    MaxEvents = 1
CHECK_DEADLOCK FALSE
INVARIANTS
    TypeOK
    RulesHoldButForRaces
    SavedAsReported
PROPERTIES
    SubmissionEnds
