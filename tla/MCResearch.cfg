SPECIFICATION Spec
CONSTANTS
    t1 = t1
    t2 = t2
    s1 = s1
    s2 = s2
    Null = Null
    Txs <- MCTxs
    Sessions <- MCSessions
    Limits <- MCLimits
    Window = 2
    MaxMessages = 3
    MaxMonth = 1
SYMMETRY Symmetry
INVARIANTS
    LimitPassedByUncounted
    QuestionIsAsked
