\* Both services at work on one withdrawal; everything may fail but the queue.
SPECIFICATION Spec
CONSTANTS
    a1 = a1  a2 = a2  w1 = w1  w2 = w2  NoId = NoId
    Withdrawals = {w1}
    Amount <- UnitAmount
    AmountUsd <- LargeUsd
    InitialBalance = 1
    Admins = {a1, a2}
    SuperAdmins = {a2}
    Submitter = Submitter
    Thresholds <- DefaultThresholds
    MaxCalls = 2
    MayAbort = TRUE
    MaxJobs = 2
    FaultSets = {{"crash", "sendFails", "replyLost", "afterSend", "dbFails", "autoWithdraw"}}
INVARIANTS
    SentAtMostOnce
    SettlementReserved
