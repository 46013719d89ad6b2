\* Each worker with two runs at a time and two attempts: two jobs for one
\* payment, one withdrawal, one webhook, one conversion.
\* The system stops when every job was added and served.
SPECIFICATION FairSpec
CONSTANTS
    Slots = {1, 2}
    PaymentJobs = {1, 2}
    PaymentOf <- OnePayment
    TransactionKind <- RightAndWrong
    PaymentAttempts = 2
    WithdrawalJobs = {1}
    EvmWithdrawals = {1}
    FirstNonce = 1
    WithdrawalAttempts = 2
    WebhookJobs = {1}
    WebhookAttempts = 3
    GiveUpAfter = 3
    Conversions = {1}
    StepJobs = {1, 2}
    ConversionAttempts = 2
    Scenarios <- AllScenarios
INVARIANTS
    TypeOK
    WorkerCreditsOnce
    FailedIsDeadLettered
    CompletedWasSold
PROPERTIES
    PaymentAccounted
    FailedIsNeverSent
    ConversionEnds
CHECK_DEADLOCK FALSE
