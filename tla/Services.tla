------------------------------- MODULE Services --------------------------------
(***************************************************************************)
(* Services of the API process (src/backend/src/server.ts) that keep a     *)
(* state of their own: the circuit breaker, webhook delivery, deposit      *)
(* addresses, refunds, the hot wallet, the rate limiter, the exchange      *)
(* rates, the settings, the WhatsApp session and the process itself.       *)
(*                                                                         *)
(* None of them reads what another one writes.  A behaviour follows one of *)
(* them, the one in focus, and the others stay as they are.                *)
(***************************************************************************)
EXTENDS Integers

CONSTANTS
    Callers, FailureThreshold, SuccessThreshold, MaxFailures,
    Events, Webhooks, Subscriptions, MaxRetries, DisableAt,
    Merchants, Requests, MerchantOf, Cryptos, Currencies, PathOf,
    RefundIds, Processings, PaymentAmount,
    Sweeps, FirstBalance, HotMinAmount, HotMaxAmount,
    HttpRequests, Horizon, TagOf, RequestLimit, Window, WindowTtl,
    BurstLimit, BurstWindow, BurstTtl,
    Sources, SourceRates, Fetches,
    Updates, Getters, PatchOf, NoDocument,
    Sockets, MaxReconnectAttempts, MaxLosses,
    MaxRequests, MaxClients,
    Scenarios   \* bound: pairs of a service and what may go wrong in it

Focus == {"breaker", "delivery", "address", "refund", "wallet", "limiter", "rates", "settings",
          "whatsapp", "lifecycle"}

(* dies      a process dies between two awaits                             *)
(* db        a database call throws                                        *)
(* redis     a call to Redis throws                                        *)
(* node      a call to a blockchain node throws, whether it took effect or *)
(*           not                                                           *)
(* loses     Redis loses a key                                             *)
(* overlaps  refunds are created, or processed, several at a time, or      *)
(*           settings read and updated                                     *)
(* admin     an administrator asks for a WhatsApp session at any time      *)
(* logout    the WhatsApp device is logged out                             *)
(* keys      the keys of the WhatsApp session cannot be read               *)
(* stops     the WhatsApp session is ended                                 *)
(* deletes   the merchant deletes webhooks                                 *)
ServiceFaults == {"dies", "db", "redis", "node", "loses", "overlaps", "admin", "logout", "keys",
                  "stops", "deletes"}

VARIABLES
    focus,   \* the service the behaviour follows; never changes
    faults,
    breaker, failureCount, successCount, cooled, calling, failureRun, successRun,
    subscribed, dispatched, toPush, deliveryQueue, delivery, webhookFailures, isActive, deleted,
    currency, walletCrypto, derivationIndex, paymentIndex, request, address, overlapped,
    paymentStatus, refunds, creation, processing,
    hotBalance, coldBalance, hotChain, coldChain, sweep, lost,
    clock, windowKey, burstKey, windowExpires, burstExpires, http, late,
    cachedRate, lastRate, answer, fetches,
    document, stored, cached, expires, asking, applied,
    waSocket, current, isConnected, reconnectAttempts, losses, closedInRow,
    starting, stopping, forceTimer, databaseUp, listening, background, requests, clients, early

CB == INSTANCE CircuitBreaker
WD == INSTANCE WebhookDelivery
PA == INSTANCE PaymentAddress
RF == INSTANCE Refunds
HW == INSTANCE HotWallet
RL == INSTANCE RateLimiter
RA == INSTANCE Rates
ST == INSTANCE Settings
WA == INSTANCE WhatsApp
LC == INSTANCE Lifecycle

ASSUME ServicesAssumption ==
    /\ Scenarios \subseteq Focus \X SUBSET ServiceFaults
    /\ CB!BreakerConstants
    /\ WD!DeliveryConstants
    /\ PA!AddressConstants
    /\ RF!RefundsConstants
    /\ HW!WalletConstants
    /\ RL!LimiterConstants
    /\ RA!RatesConstants
    /\ ST!SettingsConstants
    /\ WA!WhatsAppConstants
    /\ LC!LifecycleConstants

breakerVars == <<breaker, failureCount, successCount, cooled, calling, failureRun, successRun>>
deliveryVars == <<dispatched, toPush, deliveryQueue, delivery, webhookFailures, isActive, deleted>>
addressVars == <<walletCrypto, derivationIndex, paymentIndex, request, address, overlapped>>
refundVars == <<paymentStatus, refunds, creation, processing>>
walletVars == <<hotBalance, coldBalance, hotChain, coldChain, sweep, lost>>
limiterVars == <<clock, windowKey, burstKey, windowExpires, burstExpires, http, late>>
ratesVars == <<cachedRate, lastRate, answer, fetches>>
settingsVars == <<stored, cached, expires, asking, applied>>
whatsAppVars == <<waSocket, current, isConnected, reconnectAttempts, losses, closedInRow>>
lifecycleVars == <<starting, stopping, forceTimer, databaseUp, listening, background, requests,
                   clients, early>>

vars == <<focus, faults, subscribed, currency, document, breakerVars, deliveryVars, addressVars, refundVars,
          walletVars, limiterVars, ratesVars, settingsVars, whatsAppVars, lifecycleVars>>

TypeOK ==
    /\ <<focus, faults>> \in Scenarios
    /\ CB!BreakerTypeOK
    /\ WD!DeliveryTypeOK
    /\ PA!AddressTypeOK
    /\ RF!RefundsTypeOK
    /\ HW!WalletTypeOK
    /\ RL!LimiterTypeOK
    /\ RA!RatesTypeOK
    /\ ST!SettingsTypeOK
    /\ WA!WhatsAppTypeOK
    /\ LC!LifecycleTypeOK

(* Subscriptions, currencies and documents differ only where they matter.  *)
Init ==
    /\ \E scenario \in Scenarios : focus = scenario[1] /\ faults = scenario[2]
    /\ CB!BreakerInit
    /\ WD!DeliveryInit
    /\ focus # "delivery" => subscribed = CHOOSE s \in Subscriptions : TRUE
    /\ PA!AddressInit
    /\ focus # "address" => currency = CHOOSE choice \in Currencies : TRUE
    /\ RF!RefundsInit
    /\ HW!WalletInit
    /\ RL!LimiterInit
    /\ RA!RatesInit
    /\ ST!SettingsInit
    /\ document \in IF focus = "settings" THEN {"settings", "thresholds", "rules"}
                                          ELSE {"settings"}
    /\ WA!WhatsAppInit
    /\ LC!LifecycleInit

Next ==
    /\ UNCHANGED <<focus, subscribed, currency, document>>
    /\ \/ /\ focus = "breaker" /\ CB!BreakerNext
          /\ UNCHANGED <<faults, deliveryVars, addressVars, refundVars, walletVars,
                         limiterVars, ratesVars, settingsVars, whatsAppVars, lifecycleVars>>
       \/ /\ focus = "delivery" /\ WD!DeliveryNext
          /\ UNCHANGED <<breakerVars, addressVars, refundVars, walletVars, limiterVars,
                         ratesVars, settingsVars, whatsAppVars, lifecycleVars>>
       \/ /\ focus = "address" /\ PA!AddressNext
          /\ UNCHANGED <<breakerVars, deliveryVars, refundVars, walletVars, limiterVars,
                         ratesVars, settingsVars, whatsAppVars, lifecycleVars>>
       \/ /\ focus = "refund" /\ RF!RefundsNext
          /\ UNCHANGED <<breakerVars, deliveryVars, addressVars, walletVars, limiterVars,
                         ratesVars, settingsVars, whatsAppVars, lifecycleVars>>
       \/ /\ focus = "wallet" /\ HW!WalletNext
          /\ UNCHANGED <<breakerVars, deliveryVars, addressVars, refundVars, limiterVars,
                         ratesVars, settingsVars, whatsAppVars, lifecycleVars>>
       \/ /\ focus = "limiter" /\ RL!LimiterNext
          /\ UNCHANGED <<breakerVars, deliveryVars, addressVars, refundVars, walletVars,
                         ratesVars, settingsVars, whatsAppVars, lifecycleVars>>
       \/ /\ focus = "rates" /\ RA!RatesNext
          /\ UNCHANGED <<breakerVars, deliveryVars, addressVars, refundVars, walletVars,
                         limiterVars, settingsVars, whatsAppVars, lifecycleVars>>
       \/ /\ focus = "settings" /\ ST!SettingsNext
          /\ UNCHANGED <<breakerVars, deliveryVars, addressVars, refundVars, walletVars,
                         limiterVars, ratesVars, whatsAppVars, lifecycleVars>>
       \/ /\ focus = "whatsapp" /\ WA!WhatsAppNext
          /\ UNCHANGED <<breakerVars, deliveryVars, addressVars, refundVars, walletVars,
                         limiterVars, ratesVars, settingsVars, lifecycleVars>>
       \/ /\ focus = "lifecycle" /\ LC!LifecycleNext
          /\ UNCHANGED <<breakerVars, deliveryVars, addressVars, refundVars, walletVars,
                         limiterVars, ratesVars, settingsVars, whatsAppVars>>

(* A live process goes on with its runs over the webhook queue, fires its  *)
(* timers and handles what its sockets report; keys of Redis expire.       *)
(* WhatsApp's servers answer.  Nothing else is promised to happen.         *)
Fairness ==
    /\ \A e \in Events : WF_deliveryVars(WD!RunStep(e))
    /\ \A i \in Events \X Webhooks : WF_deliveryVars(WD!DeliverStep(i))
    /\ WF_settingsVars(ST!Expire)
    /\ WF_whatsAppVars(focus = "whatsapp" /\ \E s \in Sockets : WA!SessionStep(s))
    /\ WF_lifecycleVars(LC!ForceExit)

Spec == Init /\ [][Next]_vars
FairSpec == Spec /\ Fairness

---------------------------------------------------------------------------
(* The properties of the services, stated in their modules                 *)

(* The circuit breaker opens, and closes again, only after as many         *)
(* failures or successes in a row as its thresholds say.                   *)
TransitionsEarned == CB!TransitionsEarned

(* A delivery disables its webhook only after DisableAt deliveries to it   *)
(* have each failed MaxRetries times.                                      *)
DisabledOnlyAfterExhausted == WD!DisabledOnlyAfterExhausted

(* A queued delivery reaches the merchant or is given up after its last    *)
(* attempt, while nothing fails but the merchant's server and no webhook   *)
(* is deleted.                                                             *)
DeliveriesEnd == WD!DeliveriesEnd

(* Two payments in one currency have different addresses if their first    *)
(* requests do not overlap.                                                *)
AddressesDistinct == PA!AddressesDistinct

(* Without any fault, no two payments of a merchant have the same address  *)
(* even under concurrent requests.                                         *)
AddressesUnique == PA!AddressesUnique

(* The refunds of a payment never exceed it while one is created and one   *)
(* is processed at a time.                                                 *)
RefundsWithinPayment == RF!RefundsWithinPayment

(* Concurrent sweeps record exactly what they moved.                       *)
SweepsAreRecorded == HW!SweepsAreRecorded

(* The window of the latest request to come lets no more than RequestLimit *)
(* requests pass, while no script runs later than the key outlives it.     *)
LimitHolds == RL!LimitHolds

(* No single source of rates moves the answer by more than 2 %.            *)
NoSourceDecides == RA!NoSourceDecides

(* No update of a document of settings undoes another one while calls do   *)
(* not overlap and nothing throws.                                         *)
UpdatesKept == ST!UpdatesKept

(* The copy of the settings in Redis is in the end the row, or gone.       *)
CacheConverges == ST!CacheConverges

(* A broken WhatsApp connection is made again and used, unless the service *)
(* gave up.                                                                *)
ConnectionRecovers == focus = "whatsapp" => WA!ConnectionRecovers

(* A shutdown ends, and disconnects the database after the last request.   *)
ShutdownCompletes == LC!ShutdownCompletes
=============================================================================
