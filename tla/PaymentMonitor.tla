---------------------------- MODULE PaymentMonitor ----------------------------
(***************************************************************************)
(* The life of a payment (src/backend/src/services/payment.service.ts):    *)
(* createPayment, verifyPayment, the monitoring loop that every replica    *)
(* runs from a timer, and the completion of a payment with the conversion  *)
(* that credits the merchant.                                              *)
(*                                                                         *)
(* The loop's callback is not awaited by the timer, and replicas share     *)
(* database and Redis, so checks of the same payment overlap.  A call      *)
(* being served is a job, its at the next thing it does; each action is    *)
(* the code between two awaits.  One transaction pays each payment.        *)
(***************************************************************************)
EXTENDS Naturals

CONSTANTS
    Payments,
    Slots,      \* bound: calls being served at the same time take a slot each
    Faults      \* what may go wrong, a subset of FaultKinds

(* dies         a process dies, or a database or Redis call throws         *)
(* engineFails  executeConversion throws before or after its transaction   *)
(* ratesFail    convertToUsdt throws too                                   *)
FaultKinds == {"dies", "engineFails", "ratesFail"}

ASSUME MonitorAssumption == Faults \subseteq FaultKinds

VARIABLES
    status,       \* payment.status, "NONE" before the row is created
    window,       \* payment.expiresAt is ahead, at most 60 s ago, or older
    cached,       \* payments whose Redis key payment:<id>:data exists
    monitoring,   \* Redis set payments:monitoring
    confirming,   \* Redis set payments:confirming
    funded,       \* payments whose address holds a balance
    confirmed,    \* payments whose transaction has the required confirmations
    usdtWallets,  \* payments whose merchant has a wallet with crypto 'USDT';
                  \* never changes: nothing in the code creates one
    txRow,        \* payments with a row in transactions
    pending,      \* how many times wallet.pendingBalance was incremented
    converted,    \* payments with a row in conversions
    credits,      \* how many times the merchant's wallet was credited
    fee,          \* the fee record, by where its amounts come from
    completedEvents,  \* payment.completed webhooks dispatched
    listing,      \* an expiry check changed rows and is about to list them
    expiring,     \* listed payments still to be reported as expired
    jobs          \* the calls being served

rowVars == <<status, txRow, pending, converted, credits, fee>>
redisVars == <<cached, monitoring, confirming>>
worldVars == <<window, funded, confirmed, usdtWallets>>
expiryVars == <<listing, expiring>>
vars == <<rowVars, redisVars, worldVars, completedEvents, expiryVars, jobs>>

(* The members of PaymentStatus this service uses; UNDERPAID also means    *)
(* that a payment was detected and waits for confirmations.                *)
PaymentStatus == {"AWAITING_PAYMENT", "UNDERPAID", "PAID", "EXPIRED"}

Job == [slot : Slots, p : Payments,
        op : {"create", "detect", "confirm", "verify"},
        at : {"monitor", "cache", "lookup", "drop", "read", "detected",
              "unmonitor", "watch", "pending", "load", "unwatch",
              "transaction", "check", "markPaid", "markUnderpaid",
              "convert", "credit", "fallback", "settle", "cleanup", "notify"},
        result : {"none", "engine", "fallback"}]

TypeOK ==
    /\ status \in [Payments -> PaymentStatus \cup {"NONE"}]
    /\ window \in [Payments -> {"open", "recent", "old"}]
    /\ cached \in SUBSET Payments
    /\ monitoring \in SUBSET Payments
    /\ confirming \in SUBSET Payments
    /\ funded \in SUBSET Payments
    /\ confirmed \in SUBSET Payments
    /\ usdtWallets \in SUBSET Payments
    /\ txRow \in SUBSET Payments
    /\ pending \in [Payments -> Nat]
    /\ converted \in SUBSET Payments
    /\ credits \in [Payments -> Nat]
    /\ fee \in [Payments -> {"none", "engine", "fallback"}]
    /\ completedEvents \in [Payments -> Nat]
    /\ listing \in BOOLEAN
    /\ expiring \in SUBSET Payments
    /\ jobs \in SUBSET Job

Init ==
    /\ status = [p \in Payments |-> "NONE"]
    /\ window = [p \in Payments |-> "open"]
    /\ cached = {} /\ monitoring = {} /\ confirming = {}
    /\ funded = {} /\ confirmed = {}
    /\ usdtWallets \in SUBSET Payments
    /\ txRow = {}
    /\ pending = [p \in Payments |-> 0]
    /\ converted = {}
    /\ credits = [p \in Payments |-> 0]
    /\ fee = [p \in Payments |-> "none"]
    /\ completedEvents = [p \in Payments |-> 0]
    /\ listing = FALSE /\ expiring = {}
    /\ jobs = {}

SetStatus(p, s) == status' = [status EXCEPT ![p] = s]

Start(op, at, p) ==
    \E s \in Slots :
        /\ \A j \in jobs : j.slot # s
        /\ jobs' = jobs \cup {[slot |-> s, p |-> p, op |-> op, at |-> at, result |-> "none"]}
Goto(j, step) == jobs' = (jobs \ {j}) \cup {[j EXCEPT !.at = step]}
GotoSettle(j, source) ==
    jobs' = (jobs \ {j}) \cup {[j EXCEPT !.at = "settle", !.result = source]}
Done(j) == jobs' = jobs \ {j}

---------------------------------------------------------------------------
(* createPayment                                                           *)

CreatePayment(p) ==
    /\ status[p] = "NONE"
    /\ SetStatus(p, "AWAITING_PAYMENT")
    /\ Start("create", "monitor", p)
    /\ UNCHANGED <<txRow, pending, converted, credits, fee, redisVars, worldVars,
                   completedEvents, expiryVars>>

AddToMonitoring(j) ==
    /\ j.at = "monitor"
    /\ monitoring' = monitoring \cup {j.p}
    /\ Goto(j, "cache")
    /\ UNCHANGED <<rowVars, cached, confirming, worldVars, completedEvents, expiryVars>>

CachePayment(j) ==
    /\ j.at = "cache"
    /\ cached' = cached \cup {j.p}
    /\ Done(j)
    /\ UNCHANGED <<rowVars, monitoring, confirming, worldVars, completedEvents, expiryVars>>

---------------------------------------------------------------------------
(* checkPendingPayments                                                    *)

CheckPending(p) ==
    /\ p \in monitoring
    /\ Start("detect", "lookup", p)
    /\ UNCHANGED <<rowVars, redisVars, worldVars, completedEvents, expiryVars>>

LookUpCache(j) ==
    /\ j.at = "lookup"
    /\ Goto(j, IF j.p \in cached THEN "read" ELSE "drop")
    /\ UNCHANGED <<rowVars, redisVars, worldVars, completedEvents, expiryVars>>

DropUncached(j) ==
    /\ j.at = "drop"
    /\ monitoring' = monitoring \ {j.p}
    /\ Done(j)
    /\ UNCHANGED <<rowVars, cached, confirming, worldVars, completedEvents, expiryVars>>

(* The balance of the address, then the row.                               *)
ReadPayment(j) ==
    /\ j.at = "read"
    /\ IF j.p \in funded /\ status[j.p] = "AWAITING_PAYMENT"
       THEN Goto(j, "detected") ELSE Done(j)
    /\ UNCHANGED <<rowVars, redisVars, worldVars, completedEvents, expiryVars>>

(* The update names the row by its id only: the status may have changed.   *)
MarkDetected(j) ==
    /\ j.at = "detected"
    /\ SetStatus(j.p, "UNDERPAID")
    /\ Goto(j, "unmonitor")
    /\ UNCHANGED <<txRow, pending, converted, credits, fee, redisVars, worldVars,
                   completedEvents, expiryVars>>

Unmonitor(j) ==
    /\ j.at = "unmonitor"
    /\ monitoring' = monitoring \ {j.p}
    /\ Goto(j, "watch")
    /\ UNCHANGED <<rowVars, cached, confirming, worldVars, completedEvents, expiryVars>>

(* Shared with verifyPayment, whose last write it is.                      *)
Watch(j) ==
    /\ j.at = "watch"
    /\ confirming' = confirming \cup {j.p}
    /\ IF j.op = "detect" THEN Goto(j, "pending") ELSE Done(j)
    /\ UNCHANGED <<rowVars, cached, monitoring, worldVars, completedEvents, expiryVars>>

AddPendingBalance(j) ==
    /\ j.at = "pending"
    /\ pending' = [pending EXCEPT ![j.p] = @ + 1]
    /\ Done(j)
    /\ UNCHANGED <<status, txRow, converted, credits, fee, redisVars, worldVars,
                   completedEvents, expiryVars>>

---------------------------------------------------------------------------
(* checkConfirmingPayments                                                 *)

CheckConfirming(p) ==
    /\ p \in confirming
    /\ Start("confirm", "load", p)
    /\ UNCHANGED <<rowVars, redisVars, worldVars, completedEvents, expiryVars>>

(* Seeded fault: a detected payment does not count as one that waits.      *)
LoadPaymentAwaiting(j) ==
    /\ j.at = "load"
    /\ Goto(j, IF status[j.p] = "AWAITING_PAYMENT" THEN "transaction" ELSE "unwatch")
    /\ UNCHANGED <<rowVars, redisVars, worldVars, completedEvents, expiryVars>>

LoadPayment(j) ==
    /\ j.at = "load"
    /\ Goto(j, IF status[j.p] \in {"UNDERPAID", "AWAITING_PAYMENT"}
               THEN "transaction" ELSE "unwatch")
    /\ UNCHANGED <<rowVars, redisVars, worldVars, completedEvents, expiryVars>>

Unwatch(j) ==
    /\ j.at = "unwatch"
    /\ confirming' = confirming \ {j.p}
    /\ Done(j)
    /\ UNCHANGED <<rowVars, cached, monitoring, worldVars, completedEvents, expiryVars>>

(* Seeded fault: the number of confirmations is recorded and not compared. *)
CheckTransactionEarly(j) ==
    /\ j.at = "transaction"
    /\ IF j.p \in txRow THEN Goto(j, "convert") ELSE Done(j)
    /\ UNCHANGED <<rowVars, redisVars, worldVars, completedEvents, expiryVars>>

(* The latest Transaction row of the payment and its confirmations.        *)
CheckTransaction(j) ==
    /\ j.at = "transaction"
    /\ IF j.p \in txRow /\ j.p \in confirmed THEN Goto(j, "convert") ELSE Done(j)
    /\ UNCHANGED <<rowVars, redisVars, worldVars, completedEvents, expiryVars>>

---------------------------------------------------------------------------
(* verifyPayment                                                           *)

VerifyPayment(p) ==
    /\ status[p] \notin {"NONE", "PAID", "EXPIRED"}
    /\ Start("verify", "check", p)
    /\ UNCHANGED <<rowVars, redisVars, worldVars, completedEvents, expiryVars>>

(* The confirmations are read and the Transaction row is inserted; a       *)
(* second insertion of the same hash breaks the unique index and throws.   *)
CreateTransaction(j) ==
    /\ j.at = "check"
    /\ IF j.p \in txRow
       THEN Done(j) /\ UNCHANGED txRow
       ELSE /\ txRow' = txRow \cup {j.p}
            /\ Goto(j, IF j.p \in confirmed THEN "markPaid" ELSE "markUnderpaid")
    /\ UNCHANGED <<status, pending, converted, credits, fee, redisVars, worldVars,
                   completedEvents, expiryVars>>

(* Seeded faults: a legacy member of PaymentStatus; a payment marked PAID  *)
(* is left for the monitoring loop, which no longer looks at it.           *)
MarkVerifiedLegacy(j) ==
    /\ \/ j.at = "markPaid" /\ SetStatus(j.p, "CONFIRMED") /\ Goto(j, "convert")
       \/ j.at = "markUnderpaid" /\ SetStatus(j.p, "CONFIRMING") /\ Goto(j, "watch")
    /\ UNCHANGED <<txRow, pending, converted, credits, fee, redisVars, worldVars,
                   completedEvents, expiryVars>>

MarkVerifiedOnly(j) ==
    /\ \/ j.at = "markPaid" /\ SetStatus(j.p, "PAID") /\ Goto(j, "watch")
       \/ j.at = "markUnderpaid" /\ SetStatus(j.p, "UNDERPAID") /\ Goto(j, "watch")
    /\ UNCHANGED <<txRow, pending, converted, credits, fee, redisVars, worldVars,
                   completedEvents, expiryVars>>

MarkVerified(j) ==
    /\ \/ j.at = "markPaid" /\ SetStatus(j.p, "PAID") /\ Goto(j, "convert")
       \/ j.at = "markUnderpaid" /\ SetStatus(j.p, "UNDERPAID") /\ Goto(j, "watch")
    /\ UNCHANGED <<txRow, pending, converted, credits, fee, redisVars, worldVars,
                   completedEvents, expiryVars>>

---------------------------------------------------------------------------
(* processConfirmedPayment and conversionService.executeConversion         *)

(* An existing conversion is the result; otherwise rates are fetched.      *)
ReadConversion(j) ==
    /\ j.at = "convert"
    /\ \/ j.p \in converted /\ GotoSettle(j, "engine")
       \/ j.p \notin converted /\ Goto(j, "credit")
       \/ "engineFails" \in Faults /\ Goto(j, "fallback")
    /\ UNCHANGED <<rowVars, redisVars, worldVars, completedEvents, expiryVars>>

(* updateMany on the wallet whose crypto is 'USDT'.  The settlement wallet  *)
(* of getOrCreateUsdtWallet is 'USDT_TRC20': it matches no row and nothing  *)
(* throws.                                                                 *)
CreditWallet(p) ==
    credits' = IF p \in usdtWallets THEN [credits EXCEPT ![p] = @ + 1] ELSE credits

(* Seeded fault: the wallet is credited outside the transaction.           *)
CreditMerchantFirst(j) ==
    /\ j.at = "credit"
    /\ CreditWallet(j.p)
    /\ converted' = converted \cup {j.p}
    /\ IF j.p \in converted THEN Goto(j, "fallback") ELSE GotoSettle(j, "engine")
    /\ UNCHANGED <<status, txRow, pending, fee, redisVars, worldVars,
                   completedEvents, expiryVars>>

(* One transaction inserts the conversion, unique per payment, and credits *)
(* the wallet.  Queueing the fee and the swap comes after it and may throw *)
(* although the conversion is committed.                                   *)
CreditMerchant(j) ==
    /\ j.at = "credit"
    /\ \/ /\ j.p \notin converted
          /\ converted' = converted \cup {j.p}
          /\ CreditWallet(j.p)
          /\ \/ GotoSettle(j, "engine")
             \/ "engineFails" \in Faults /\ Goto(j, "fallback")
       \/ /\ j.p \in converted
          /\ Goto(j, "fallback") /\ UNCHANGED <<converted, credits>>
    /\ UNCHANGED <<status, txRow, pending, fee, redisVars, worldVars,
                   completedEvents, expiryVars>>

FallBack(j) ==
    /\ j.at = "fallback"
    /\ \/ GotoSettle(j, "fallback")
       \/ "ratesFail" \in Faults /\ Done(j)
    /\ UNCHANGED <<rowVars, redisVars, worldVars, completedEvents, expiryVars>>

(* Seeded fault: fee records without their unique index.                   *)
SettleWithoutIndex(j) ==
    /\ j.at = "settle"
    /\ IF status[j.p] = "PAID"
       THEN Done(j) /\ UNCHANGED <<status, fee>>
       ELSE /\ fee' = [fee EXCEPT ![j.p] = j.result]
            /\ SetStatus(j.p, "PAID")
            /\ Goto(j, "cleanup")
    /\ UNCHANGED <<txRow, pending, converted, credits, redisVars, worldVars,
                   completedEvents, expiryVars>>

(* The second transaction: it ends the job if the payment is PAID, and     *)
(* fails on a second fee record, whose payment is unique.                  *)
Settle(j) ==
    /\ j.at = "settle"
    /\ IF status[j.p] = "PAID" \/ fee[j.p] # "none"
       THEN Done(j) /\ UNCHANGED <<status, fee>>
       ELSE /\ fee' = [fee EXCEPT ![j.p] = j.result]
            /\ SetStatus(j.p, "PAID")
            /\ Goto(j, "cleanup")
    /\ UNCHANGED <<txRow, pending, converted, credits, redisVars, worldVars,
                   completedEvents, expiryVars>>

Cleanup(j) ==
    /\ j.at = "cleanup"
    /\ monitoring' = monitoring \ {j.p}
    /\ confirming' = confirming \ {j.p}
    /\ Goto(j, "notify")
    /\ UNCHANGED <<rowVars, cached, worldVars, completedEvents, expiryVars>>

NotifyCompleted(j) ==
    /\ j.at = "notify"
    /\ completedEvents' = [completedEvents EXCEPT ![j.p] = @ + 1]
    /\ Done(j)
    /\ UNCHANGED <<rowVars, redisVars, worldVars, expiryVars>>

---------------------------------------------------------------------------
(* checkExpiredPayments.  Checks that overlap are one: what they list and  *)
(* report are sets.                                                        *)

(* Seeded fault: every payment that is not paid expires.                   *)
ExpireUnpaid ==
    LET late == {p \in Payments : /\ status[p] \in {"AWAITING_PAYMENT", "UNDERPAID"}
                                  /\ window[p] # "open"}
    IN /\ late # {}
       /\ status' = [p \in Payments |-> IF p \in late THEN "EXPIRED" ELSE status[p]]
       /\ listing' = TRUE
       /\ UNCHANGED <<txRow, pending, converted, credits, fee, redisVars, worldVars,
                      completedEvents, expiring, jobs>>

ExpirePayments ==
    LET late == {p \in Payments : status[p] = "AWAITING_PAYMENT" /\ window[p] # "open"}
    IN /\ late # {}
       /\ status' = [p \in Payments |-> IF p \in late THEN "EXPIRED" ELSE status[p]]
       /\ listing' = TRUE
       /\ UNCHANGED <<txRow, pending, converted, credits, fee, redisVars, worldVars,
                      completedEvents, expiring, jobs>>

ListExpired ==
    /\ listing
    /\ listing' = FALSE
    /\ expiring' = expiring \cup {p \in Payments : status[p] = "EXPIRED" /\ window[p] = "recent"}
    /\ UNCHANGED <<rowVars, redisVars, worldVars, completedEvents, jobs>>

ReportExpired(p) ==
    /\ p \in expiring
    /\ expiring' = expiring \ {p}
    /\ monitoring' = monitoring \ {p}
    /\ UNCHANGED <<rowVars, cached, confirming, worldVars, completedEvents, listing, jobs>>

---------------------------------------------------------------------------
(* The chain, time and failures                                            *)

FundsArrive(p) ==
    /\ status[p] # "NONE" /\ p \notin funded
    /\ funded' = funded \cup {p}
    /\ UNCHANGED <<rowVars, redisVars, window, confirmed, usdtWallets, completedEvents, expiryVars, jobs>>

FundsConfirmed(p) ==
    /\ p \in funded \ confirmed
    /\ confirmed' = confirmed \cup {p}
    /\ UNCHANGED <<rowVars, redisVars, window, funded, usdtWallets, completedEvents, expiryVars, jobs>>

TimePasses(p) ==
    /\ status[p] # "NONE" /\ window[p] # "old"
    /\ window' = [window EXCEPT ![p] = IF @ = "open" THEN "recent" ELSE "old"]
    /\ UNCHANGED <<rowVars, redisVars, funded, confirmed, usdtWallets, completedEvents, expiryVars, jobs>>

(* The key outlives the payment's expiry by an hour.                       *)
CacheExpires(p) ==
    /\ p \in cached /\ window[p] = "old"
    /\ cached' = cached \ {p}
    /\ UNCHANGED <<rowVars, monitoring, confirming, worldVars, completedEvents,
                   expiryVars, jobs>>

JobDies(j) ==
    /\ "dies" \in Faults
    /\ Done(j)
    /\ UNCHANGED <<rowVars, redisVars, worldVars, completedEvents, expiryVars>>

ExpiryDies ==
    /\ "dies" \in Faults
    /\ listing \/ expiring # {}
    /\ listing' = FALSE /\ expiring' = {}
    /\ UNCHANGED <<rowVars, redisVars, worldVars, completedEvents, jobs>>

---------------------------------------------------------------------------

Step(j) ==
    \/ AddToMonitoring(j) \/ CachePayment(j)
    \/ LookUpCache(j) \/ DropUncached(j) \/ ReadPayment(j) \/ MarkDetected(j)
    \/ Unmonitor(j) \/ Watch(j) \/ AddPendingBalance(j)
    \/ LoadPayment(j) \/ Unwatch(j) \/ CheckTransaction(j)
    \/ CreateTransaction(j) \/ MarkVerified(j)
    \/ ReadConversion(j) \/ CreditMerchant(j) \/ FallBack(j) \/ Settle(j)
    \/ Cleanup(j) \/ NotifyCompleted(j)

Timer(p) == CheckPending(p) \/ CheckConfirming(p)

World(p) == FundsArrive(p) \/ FundsConfirmed(p) \/ TimePasses(p) \/ CacheExpires(p)

Next ==
    \/ \E p \in Payments : CreatePayment(p) \/ VerifyPayment(p) \/ Timer(p)
    \/ \E j \in jobs : Step(j) \/ JobDies(j)
    \/ ExpirePayments \/ ListExpired \/ ExpiryDies
    \/ \E p \in Payments : ReportExpired(p) \/ World(p)

(* Promises settle while the process lives.  The timer fires for ever; its *)
(* fairness is strong because the slots, which the code does not have, may *)
(* all be taken now and then.                                              *)
Fairness ==
    /\ \A s \in Slots : WF_vars(\E j \in jobs : j.slot = s /\ Step(j))
    /\ \A p \in Payments : SF_vars(CheckPending(p)) /\ SF_vars(CheckConfirming(p))
    /\ WF_vars(ExpirePayments) /\ WF_vars(ListExpired)
    /\ \A p \in Payments : WF_vars(ReportExpired(p))

Spec == Init /\ [][Next]_vars
FairSpec == Spec /\ Fairness

---------------------------------------------------------------------------
(* Properties                                                              *)

(* However monitoring loops and manual verification overlap, and whatever  *)
(* dies or falls back, the merchant is credited for a payment at most once. *)
CreditedAtMostOnce == \A p \in Payments : credits[p] <= 1

(* The merchant is told at most once that a payment completed, although    *)
(* its status may leave PAID and be completed again.                       *)
CompletedOnce == \A p \in Payments : completedEvents[p] <= 1

(* Nothing is credited, recorded or reported for a payment before its      *)
(* transaction was verified and had the required confirmations.            *)
CreditedWhenConfirmed ==
    \A p \in Payments :
        credits[p] > 0 \/ fee[p] # "none" => p \in txRow \cap confirmed

(* An expired payment was not credited: once funds are seen, expiry no     *)
(* longer takes the payment, however late its confirmations come.          *)
ExpiredNotCredited ==
    \A p \in Payments :
        status[p] = "EXPIRED" => credits[p] = 0 /\ fee[p] = "none"

(* A payment that is PAID, with no call about it being served, was         *)
(* converted and its merchant credited once, if the merchant has a wallet  *)
(* for the conversion to find.                                             *)
PaidIsCredited ==
    \A p \in Payments :
        /\ status[p] = "PAID"
        /\ \A j \in jobs : j.p # p
        => p \in converted /\ credits[p] = IF p \in usdtWallets THEN 1 ELSE 0

(* A payment whose transaction was submitted and has the required          *)
(* confirmations is eventually converted, and credited if there is a       *)
(* wallet to credit, whatever the timers do meanwhile.                     *)
ConfirmedIsCredited ==
    \A p \in Payments :
        p \in txRow \cap confirmed ~> p \in converted /\ (p \in usdtWallets => credits[p] > 0)
=============================================================================
