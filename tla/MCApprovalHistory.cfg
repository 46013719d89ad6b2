\* Two requests at a time, any of which may die at any await: which overlaps
\* and deaths make a decision go missing.
SPECIFICATION FairHistorySpec
CONSTANTS
    a1 = a1  a2 = a2  a3 = a3  w1 = w1  NoId = NoId
    Withdrawals = {w1}
    Amount <- UnitAmount
    AmountUsd <- LargeUsd
    InitialBalance = 0
    Admins = {a1, a2, a3}
    SuperAdmins = {a3}
    Submitter = Submitter
    Thresholds <- VaryingThresholds
    MaxCalls = 2
    MayAbort = TRUE
INVARIANT QuorumDecides
PROPERTY DecisionCarriedOut
