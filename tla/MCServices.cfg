\* Each service with the few calls that make its hazards possible.
\* The system stops when every bounded call was made.
SPECIFICATION FairSpec
CONSTANTS
    w1 = w1
    w2 = w2
    m1 = m1
    m2 = m2
    none = none
    Callers = {1, 2, 3}
    FailureThreshold = 3
    SuccessThreshold = 2
    MaxFailures = 4
    Events = {1, 2}
    Webhooks = {w1, w2}
    Subscriptions <- SomeSubscriptions
    MaxRetries = 2
    DisableAt = 2
    Merchants = {m1, m2}
    Requests = {1, 2, 3, 4}
    MerchantOf <- MostOfOne
    Cryptos = {"ETH", "BNB"}
    Currencies <- SomeCurrencies
    PathOf <- EvmPath
    RefundIds = {1, 2}
    Processings = {1, 2}
    PaymentAmount = 2
    Sweeps = {1, 2}
    FirstBalance = 4
    HotMinAmount = 1
    HotMaxAmount = 2
    HttpRequests = {1, 2, 3}
    Horizon = 3
    TagOf <- SomeTags
    RequestLimit = 2
    Window = 2
    WindowTtl = 3
    BurstLimit = 2
    BurstWindow = 1
    BurstTtl = 2
    Sources = {"binance", "coingecko", "kraken"}
    SourceRates = {200, 206, 300}
    Fetches = 2
    Updates = {1, 2, 3}
    Getters = {4}
    PatchOf <- SomePatches
    NoDocument = none
    Sockets = {1, 2, 3}
    MaxReconnectAttempts = 2
    MaxLosses = 4
    MaxRequests = 2
    MaxClients = 1
    Scenarios <- AllScenarios
INVARIANTS
    TypeOK
    AddressesDistinct
    RefundsWithinPayment
    SweepsAreRecorded
    LimitHolds
    NoSourceDecides
    UpdatesKept
PROPERTIES
    TransitionsEarned
    DisabledOnlyAfterExhausted
    DeliveriesEnd
    CacheConverges
    ConnectionRecovers
    ShutdownCompletes
CHECK_DEADLOCK FALSE
