\* Nothing fails; a withdrawal that needs approval.
SPECIFICATION Spec
CONSTANTS
    a1 = a1  a2 = a2  w1 = w1  w2 = w2  NoId = NoId
    Withdrawals = {w1}
    Amount <- UnitAmount
    AmountUsd <- LargeUsd
    InitialBalance = 1
    Admins = {a1, a2}
    SuperAdmins = {}
    Submitter = Submitter
    Thresholds <- DefaultThresholds
    MaxCalls = 2
    MayAbort = FALSE
    MaxJobs = 2
    FaultSets = {{}}
INVARIANT LargePayoutApproved
CHECK_DEADLOCK FALSE
