\* One withdrawal, changing thresholds, three administrators, one of whom may
\* override, three requests at a time; a request may die at any await.
SPECIFICATION Spec
CONSTANTS
    a1 = a1  a2 = a2  a3 = a3  w1 = w1  w2 = w2  NoId = NoId
    Withdrawals = {w1}
    Amount <- UnitAmount
    AmountUsd <- LargeUsd
    InitialBalance = 0
    Admins = {a1, a2, a3}
    SuperAdmins = {a3}
    Submitter = Submitter
    Thresholds <- VaryingThresholds
    MaxCalls = 3
    MayAbort = TRUE
SYMMETRY AdminSymmetry
INVARIANTS
    TypeOK
    QuorumRespected
    RefundBackedByRejection
    CoolingHonoured
PROPERTY ImplementsGate
