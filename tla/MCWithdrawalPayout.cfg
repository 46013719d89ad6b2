\* Three requests race for a balance that covers two of them, two executors.
\* The system stops when every withdrawal was requested and executed.
SPECIFICATION FairSpec
CONSTANTS
    w1 = w1  w2 = w2  w3 = w3  NoId = NoId
    Withdrawals = {w1, w2, w3}
    Amount <- ScarceAmount
    InitialBalance = 3
    MaxJobs = 2
    FaultSets <- RoughAndCalm
INVARIANTS
    TypeOK
    Solvent
    SettledAtMostOnce
PROPERTY ReservedIsSettled
CHECK_DEADLOCK FALSE
