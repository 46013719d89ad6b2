\* Two administrators reject at the same time.
\* The system stops when every administrator has acted.
SPECIFICATION Spec
CONSTANTS
    a1 = a1  a2 = a2  a3 = a3  w1 = w1  w2 = w2  NoId = NoId
    Withdrawals = {w1}
    Amount <- UnitAmount
    AmountUsd <- LargeUsd
    InitialBalance = 0
    Admins = {a1, a2}
    SuperAdmins = {}
    Submitter = Submitter
    Thresholds <- DefaultThresholds
    MaxCalls = 2
    MayAbort = FALSE
INVARIANT RefundedAtMostOnce
CHECK_DEADLOCK FALSE
