SPECIFICATION Spec
CONSTANTS
    h1 = h1
    h2 = h2
    h3 = h3
    l1 = l1
    l2 = l2
    a1 = a1
    t1 = t1
    t2 = t2
    None = None
    Hearings <- MCHearingIds
    Lawyers <- TwoLawyers
    Assignments <- OneRow
    Txs <- TwoRequests
    Windows <- AheadAndDay
    LastDay = 1
    MaxRequests = 3
SYMMETRY Symmetry
\* Requests and days run out.
CHECK_DEADLOCK FALSE
INVARIANTS
    TypeOK
    EventFollowsHearing
    AssigneeIsTold
    DoubleBookingIsUnseen
    RemindedOnce
