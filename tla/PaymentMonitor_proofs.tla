------------------------- MODULE PaymentMonitor_proofs -------------------------
(***************************************************************************)
(* Theorems about PaymentMonitor, for any set of payments, any number of   *)
(* overlapping calls and whatever dies, throws or falls back.              *)
(***************************************************************************)
EXTENDS PaymentMonitor, TLAPS

---------------------------------------------------------------------------
(* Type correctness                                                        *)

(* Starting, advancing and ending a call keeps jobs well typed.            *)
LEMMA StartType ==
    ASSUME jobs \in SUBSET Job, NEW p \in Payments,
           NEW op \in {"create", "detect", "confirm", "verify"},
           NEW at \in {"monitor", "lookup", "load", "check"},
           Start(op, at, p)
    PROVE  jobs' \in SUBSET Job
BY DEF Start, Job

LEMMA GotoType ==
    ASSUME jobs \in SUBSET Job, NEW j \in jobs,
           NEW step \in {"monitor", "cache", "lookup", "drop", "read", "detected",
              "unmonitor", "watch", "pending", "load", "unwatch",
              "transaction", "check", "markPaid", "markUnderpaid",
              "convert", "credit", "fallback", "settle", "cleanup", "notify"},
           Goto(j, step)
    PROVE  jobs' \in SUBSET Job
BY DEF Goto, Job

LEMMA SettleType ==
    ASSUME jobs \in SUBSET Job, NEW j \in jobs,
           NEW source \in {"engine", "fallback"}, GotoSettle(j, source)
    PROVE  jobs' \in SUBSET Job
BY DEF GotoSettle, Job

LEMMA DoneType ==
    ASSUME jobs \in SUBSET Job, NEW j \in jobs, Done(j)
    PROVE  jobs' \in SUBSET Job
BY DEF Done

(* What a step of a call does to jobs.                                     *)
LEMMA StepJobs ==
    ASSUME TypeOK, NEW j \in jobs, Step(j)
    PROVE  jobs' \in SUBSET Job
<1>0. jobs \in SUBSET Job
  BY DEF TypeOK
<1>1. CASE AddToMonitoring(j) \/ LookUpCache(j) \/ MarkDetected(j) \/ Unmonitor(j)
           \/ LoadPayment(j) \/ MarkVerified(j) \/ Cleanup(j)
  BY <1>0, <1>1, GotoType
     DEF AddToMonitoring, LookUpCache, MarkDetected, Unmonitor, LoadPayment,
         MarkVerified, Cleanup
<1>2. CASE CachePayment(j) \/ DropUncached(j) \/ AddPendingBalance(j) \/ Unwatch(j)
           \/ NotifyCompleted(j)
  BY <1>0, <1>2, DoneType
     DEF CachePayment, DropUncached, AddPendingBalance, Unwatch, NotifyCompleted
<1>3. CASE ReadPayment(j) \/ Watch(j) \/ CheckTransaction(j) \/ CreateTransaction(j)
           \/ Settle(j)
  BY <1>0, <1>3, GotoType, DoneType
     DEF ReadPayment, Watch, CheckTransaction, CreateTransaction, Settle
<1>4. CASE ReadConversion(j) \/ CreditMerchant(j)
  BY <1>0, <1>4, GotoType, SettleType DEF ReadConversion, CreditMerchant
<1>5. CASE FallBack(j)
  BY <1>0, <1>5, DoneType, SettleType DEF FallBack
<1> QED  BY <1>1, <1>2, <1>3, <1>4, <1>5 DEF Step

LEMMA TypeInit == Init => TypeOK
<1> SUFFICES ASSUME Init PROVE TypeOK
  OBVIOUS
<1>1. listing \in BOOLEAN
  BY DEF Init
<1>2. jobs \in SUBSET Job
  BY DEF Init
<1>3. /\ status \in [Payments -> PaymentStatus \cup {"NONE"}]
      /\ window \in [Payments -> {"open", "recent", "old"}]
      /\ fee \in [Payments -> {"none", "engine", "fallback"}]
  BY DEF Init
<1>4. /\ pending \in [Payments -> Nat] /\ credits \in [Payments -> Nat]
      /\ completedEvents \in [Payments -> Nat]
  BY DEF Init
<1> QED  BY <1>1, <1>2, <1>3, <1>4 DEF Init, TypeOK

(* A step of a call stays within the types.                                *)
LEMMA TypeStep ==
    ASSUME TypeOK, NEW j \in jobs, Step(j)
    PROVE  TypeOK'
<1>0. /\ j \in Job /\ j.p \in Payments
      /\ j.result \in {"none", "engine", "fallback"}
      /\ jobs' \in SUBSET Job
  BY StepJobs DEF TypeOK, Job
<1>1. CASE AddToMonitoring(j)
  BY <1>0, <1>1 DEF TypeOK, AddToMonitoring, rowVars, worldVars, expiryVars
<1>2. CASE CachePayment(j)
  BY <1>0, <1>2 DEF TypeOK, CachePayment, rowVars, worldVars, expiryVars
<1>3. CASE LookUpCache(j)
  BY <1>0, <1>3 DEF TypeOK, LookUpCache, rowVars, redisVars, worldVars, expiryVars
<1>4. CASE DropUncached(j)
  BY <1>0, <1>4 DEF TypeOK, DropUncached, rowVars, worldVars, expiryVars
<1>5. CASE ReadPayment(j)
  BY <1>0, <1>5 DEF TypeOK, ReadPayment, rowVars, redisVars, worldVars, expiryVars
<1>6. CASE MarkDetected(j)
  BY <1>0, <1>6 DEF TypeOK, MarkDetected, SetStatus, PaymentStatus, redisVars, worldVars, expiryVars
<1>7. CASE Unmonitor(j)
  BY <1>0, <1>7 DEF TypeOK, Unmonitor, rowVars, worldVars, expiryVars
<1>8. CASE Watch(j)
  BY <1>0, <1>8 DEF TypeOK, Watch, rowVars, worldVars, expiryVars
<1>9. CASE AddPendingBalance(j)
  BY <1>0, <1>9 DEF TypeOK, AddPendingBalance, redisVars, worldVars, expiryVars
<1>10. CASE LoadPayment(j)
  BY <1>0, <1>10 DEF TypeOK, LoadPayment, rowVars, redisVars, worldVars, expiryVars
<1>11. CASE Unwatch(j)
  BY <1>0, <1>11 DEF TypeOK, Unwatch, rowVars, worldVars, expiryVars
<1>12. CASE CheckTransaction(j)
  BY <1>0, <1>12 DEF TypeOK, CheckTransaction, rowVars, redisVars, worldVars, expiryVars
<1>13. CASE CreateTransaction(j)
  BY <1>0, <1>13 DEF TypeOK, CreateTransaction, redisVars, worldVars, expiryVars
<1>14. CASE MarkVerified(j)
  BY <1>0, <1>14 DEF TypeOK, MarkVerified, SetStatus, PaymentStatus, redisVars, worldVars, expiryVars
<1>15. CASE ReadConversion(j)
  BY <1>0, <1>15 DEF TypeOK, ReadConversion, rowVars, redisVars, worldVars, expiryVars
<1>16. CASE CreditMerchant(j)
  BY <1>0, <1>16 DEF TypeOK, CreditMerchant, CreditWallet, redisVars, worldVars, expiryVars
<1>17. CASE FallBack(j)
  BY <1>0, <1>17 DEF TypeOK, FallBack, rowVars, redisVars, worldVars, expiryVars
<1>18. CASE Settle(j)
  BY <1>0, <1>18 DEF TypeOK, Settle, SetStatus, PaymentStatus, redisVars, worldVars, expiryVars
<1>19. CASE Cleanup(j)
  BY <1>0, <1>19 DEF TypeOK, Cleanup, rowVars, worldVars, expiryVars
<1>20. CASE NotifyCompleted(j)
  BY <1>0, <1>20 DEF TypeOK, NotifyCompleted, rowVars, redisVars, worldVars, expiryVars
<1> QED  BY <1>1, <1>2, <1>3, <1>4, <1>5, <1>6, <1>7, <1>8, <1>9, <1>10, <1>11,
            <1>12, <1>13, <1>14, <1>15, <1>16, <1>17, <1>18, <1>19, <1>20 DEF Step

LEMMA TypeNext == TypeOK /\ [Next]_vars => TypeOK'
<1> SUFFICES ASSUME TypeOK, [Next]_vars PROVE TypeOK'
  OBVIOUS
<1>1. ASSUME NEW p \in Payments, CreatePayment(p) PROVE TypeOK'
  <2>1. jobs' \in SUBSET Job
    BY <1>1, StartType DEF TypeOK, CreatePayment
  <2> QED  BY <1>1, <2>1 DEF TypeOK, CreatePayment, SetStatus, PaymentStatus,
                             redisVars, worldVars, expiryVars
<1>2. ASSUME NEW p \in Payments, VerifyPayment(p) \/ Timer(p) PROVE TypeOK'
  <2>1. jobs' \in SUBSET Job
    BY <1>2, StartType DEF TypeOK, VerifyPayment, Timer, CheckPending, CheckConfirming
  <2> QED  BY <1>2, <2>1 DEF TypeOK, VerifyPayment, Timer, CheckPending, CheckConfirming,
                             rowVars, redisVars, worldVars, expiryVars
<1>3. ASSUME NEW j \in jobs, Step(j) PROVE TypeOK'
  BY <1>3, TypeStep
<1>4. ASSUME NEW j \in jobs, JobDies(j) PROVE TypeOK'
  <2>1. jobs' \in SUBSET Job
    BY <1>4, DoneType DEF TypeOK, JobDies
  <2> QED  BY <1>4, <2>1 DEF TypeOK, JobDies, rowVars, redisVars, worldVars, expiryVars
<1>5. CASE ExpirePayments
  BY <1>5 DEF TypeOK, ExpirePayments, PaymentStatus, redisVars, worldVars
<1>6. CASE ListExpired \/ ExpiryDies
  BY <1>6 DEF TypeOK, ListExpired, ExpiryDies, rowVars, redisVars, worldVars
<1>7. ASSUME NEW p \in Payments, ReportExpired(p) PROVE TypeOK'
  BY <1>7 DEF TypeOK, ReportExpired, rowVars, worldVars
<1>8. ASSUME NEW p \in Payments, World(p) PROVE TypeOK'
  BY <1>8 DEF TypeOK, World, FundsArrive, FundsConfirmed, TimePasses, CacheExpires,
              rowVars, redisVars, worldVars, expiryVars
<1>9. CASE UNCHANGED vars
  BY <1>9 DEF TypeOK, vars, rowVars, redisVars, worldVars, expiryVars
<1> QED  BY <1>1, <1>2, <1>3, <1>4, <1>5, <1>6, <1>7, <1>8, <1>9 DEF Next

(* The state of the payment service has its declared types in every        *)
(* reachable state.                                                        *)
THEOREM TypeCorrect == Spec => []TypeOK
<1>1. Init => TypeOK
  BY TypeInit
<1>2. TypeOK /\ [Next]_vars => TypeOK'
  BY TypeNext
<1> QED  BY <1>1, <1>2, PTL DEF Spec

---------------------------------------------------------------------------
(* Credits and confirmations                                               *)

(* Where a call is once it knows that the payment is confirmed.            *)
Completing == {"convert", "credit", "fallback", "settle", "cleanup", "notify"}

(* A payment has one credit if it has a conversion that found a wallet,    *)
(* and none otherwise.                                                     *)
CreditInv == \A p \in Payments : credits[p] = IF p \in converted \cap usdtWallets THEN 1 ELSE 0

(* Calls that complete a payment, conversions and fee records are there    *)
(* only for payments whose transaction is recorded and confirmed.          *)
ConfirmedInv ==
    /\ \A j \in jobs : j.at \in Completing \cup {"markPaid"} => j.p \in txRow \cap confirmed
    /\ \A p \in Payments : p \in converted \/ fee[p] # "none" => p \in txRow \cap confirmed

LEMMA CreditNext == TypeOK /\ CreditInv /\ [Next]_vars => CreditInv'
<1> SUFFICES ASSUME TypeOK, CreditInv, [Next]_vars PROVE CreditInv'
  OBVIOUS
<1>1. ASSUME NEW j \in jobs, CreditMerchant(j) PROVE CreditInv'
  <2>1. j.p \in Payments
    BY DEF TypeOK, Job
  <2> QED  BY <1>1, <2>1 DEF TypeOK, CreditInv, CreditMerchant, CreditWallet, worldVars
<1>2. ASSUME UNCHANGED <<credits, converted, usdtWallets>> PROVE CreditInv'
  BY <1>2 DEF CreditInv
<1>3. ASSUME NEW j \in jobs, Step(j) \/ JobDies(j), ~ CreditMerchant(j)
      PROVE  UNCHANGED <<credits, converted, usdtWallets>>
  BY <1>3 DEF Step, JobDies, rowVars, worldVars, AddToMonitoring, CachePayment, LookUpCache, DropUncached,
     ReadPayment, MarkDetected, Unmonitor, Watch, AddPendingBalance, LoadPayment, Unwatch,
     CheckTransaction, CreateTransaction, MarkVerified, ReadConversion, FallBack, Settle,
     Cleanup, NotifyCompleted
<1>4. ASSUME NEW p \in Payments,
             CreatePayment(p) \/ VerifyPayment(p) \/ Timer(p) \/ ReportExpired(p) \/ World(p)
      PROVE  UNCHANGED <<credits, converted, usdtWallets>>
  BY <1>4 DEF CreatePayment, VerifyPayment, Timer, CheckPending, CheckConfirming,
     ReportExpired, World, FundsArrive, FundsConfirmed, TimePasses, CacheExpires, rowVars, worldVars
<1>5. ASSUME ExpirePayments \/ ListExpired \/ ExpiryDies \/ UNCHANGED vars
      PROVE  UNCHANGED <<credits, converted, usdtWallets>>
  BY <1>5 DEF ExpirePayments, ListExpired, ExpiryDies, vars, rowVars, worldVars
<1> QED  BY <1>1, <1>2, <1>3, <1>4, <1>5 DEF Next

(* The merchant is credited at most once for a payment: the conversion,    *)
(* unique per payment, and the credit are one transaction.                 *)
THEOREM CreditTheorem == Spec => []CreditedAtMostOnce
<1>1. Init => CreditInv
  BY DEF Init, CreditInv
<1>2. ASSUME CreditInv PROVE CreditedAtMostOnce
  <2> SUFFICES ASSUME NEW p \in Payments PROVE credits[p] <= 1
    BY DEF CreditedAtMostOnce
  <2>1. credits[p] = 0 \/ credits[p] = 1
    BY <1>2 DEF CreditInv
  <2> QED  BY <2>1
<1> QED  BY <1>1, <1>2, CreditNext, TypeCorrect, PTL DEF Spec

(* What a step of a call does to the calls being served.                   *)
LEMMA StepFlow ==
    ASSUME TypeOK, NEW j \in jobs, Step(j), NEW k \in jobs', k \notin jobs
    PROVE  /\ k.p = j.p
           /\ k.at = "markPaid" => j.at = "check" /\ j.p \in confirmed /\ j.p \in txRow'
           /\ k.at \in Completing =>
                 \/ j.at \in Completing \cup {"markPaid"}
                 \/ j.at = "transaction" /\ j.p \in txRow \cap confirmed
<1>0. j \in Job
  BY DEF TypeOK
<1> USE DEF Goto, GotoSettle, Done, Job, Completing
<1>1. CASE AddToMonitoring(j) \/ LookUpCache(j) \/ MarkDetected(j) \/ Unmonitor(j)
           \/ LoadPayment(j)
  BY <1>0, <1>1 DEF AddToMonitoring, LookUpCache, MarkDetected, Unmonitor, LoadPayment
<1>2. CASE CachePayment(j) \/ DropUncached(j) \/ AddPendingBalance(j) \/ Unwatch(j)
           \/ NotifyCompleted(j)
  BY <1>0, <1>2
     DEF CachePayment, DropUncached, AddPendingBalance, Unwatch, NotifyCompleted
<1>3. CASE ReadPayment(j) \/ Watch(j) \/ CheckTransaction(j)
  BY <1>0, <1>3 DEF ReadPayment, Watch, CheckTransaction
<1>4. CASE CreateTransaction(j)
  BY <1>0, <1>4 DEF CreateTransaction
<1>7. CASE MarkVerified(j)
  BY <1>0, <1>7 DEF MarkVerified
<1>5. CASE ReadConversion(j) \/ FallBack(j)
  <2>1. j.at \in {"convert", "fallback"}
    BY <1>5 DEF ReadConversion, FallBack
  <2>2. \/ \E r \in {"engine", "fallback"} : GotoSettle(j, r)
        \/ Goto(j, "credit") \/ Goto(j, "fallback") \/ Done(j)
    BY <1>5 DEF ReadConversion, FallBack
  <2>3. ASSUME NEW r \in {"engine", "fallback"}, GotoSettle(j, r)
        PROVE  k.p = j.p /\ k.at = "settle"
    BY <1>0, <2>3
  <2>4. ASSUME NEW a \in {"credit", "fallback"}, Goto(j, a)
        PROVE  k.p = j.p /\ k.at = a
    BY <1>0, <2>4
  <2> QED  BY <2>1, <2>2, <2>3, <2>4
<1>8. CASE CreditMerchant(j)
  <2>1. /\ j.at = "credit"
        /\ GotoSettle(j, "engine") \/ Goto(j, "fallback")
    BY <1>8 DEF CreditMerchant
  <2>2. CASE GotoSettle(j, "engine")
    BY <1>0, <2>1, <2>2
  <2>3. CASE Goto(j, "fallback")
    BY <1>0, <2>1, <2>3
  <2> QED  BY <2>1, <2>2, <2>3
<1>6. CASE Settle(j) \/ Cleanup(j)
  BY <1>0, <1>6 DEF Settle, Cleanup
<1> QED  BY <1>1, <1>2, <1>3, <1>4, <1>5, <1>6, <1>7, <1>8 DEF Step

(* Rows in transactions and confirmations are never taken back.            *)
LEMMA ChainGrows == [Next]_vars => txRow \subseteq txRow' /\ confirmed \subseteq confirmed'
<1> SUFFICES ASSUME [Next]_vars PROVE txRow \subseteq txRow' /\ confirmed \subseteq confirmed'
  OBVIOUS
<1>1. ASSUME NEW j \in jobs, CreateTransaction(j)
      PROVE  txRow \subseteq txRow' /\ confirmed' = confirmed
  BY <1>1 DEF CreateTransaction, worldVars
<1>2. ASSUME NEW j \in jobs, Step(j) \/ JobDies(j), ~ CreateTransaction(j)
      PROVE  UNCHANGED <<txRow, confirmed>>
  BY <1>2 DEF Step, JobDies, rowVars, worldVars, AddToMonitoring, CachePayment, LookUpCache,
     DropUncached, ReadPayment, MarkDetected, Unmonitor, Watch, AddPendingBalance, LoadPayment,
     Unwatch, CheckTransaction, MarkVerified, ReadConversion, CreditMerchant, FallBack, Settle,
     Cleanup, NotifyCompleted
<1>3. ASSUME NEW p \in Payments,
             CreatePayment(p) \/ VerifyPayment(p) \/ Timer(p) \/ ReportExpired(p)
      PROVE  UNCHANGED <<txRow, confirmed>>
  BY <1>3 DEF CreatePayment, VerifyPayment, Timer, CheckPending, CheckConfirming,
     ReportExpired, rowVars, worldVars
<1>4. ASSUME NEW p \in Payments, World(p)
      PROVE  txRow' = txRow /\ confirmed \subseteq confirmed'
  BY <1>4 DEF World, FundsArrive, FundsConfirmed, TimePasses, CacheExpires, rowVars, worldVars
<1>5. ASSUME ExpirePayments \/ ListExpired \/ ExpiryDies \/ UNCHANGED vars
      PROVE  UNCHANGED <<txRow, confirmed>>
  BY <1>5 DEF ExpirePayments, ListExpired, ExpiryDies, vars, rowVars, worldVars
<1> QED  BY <1>1, <1>2, <1>3, <1>4, <1>5 DEF Next

(* Calls that begin, end or die bring no call that completes a payment.    *)
LEMMA NewJob ==
    ASSUME TypeOK, [Next]_vars, NEW k \in jobs', k \notin jobs
    PROVE  \/ k.at \in {"monitor", "lookup", "load", "check"} /\ k.result = "none"
           \/ \E j \in jobs : Step(j)
<1>1. ASSUME NEW p \in Payments, CreatePayment(p) \/ VerifyPayment(p) \/ Timer(p)
      PROVE  k.at \in {"monitor", "lookup", "load", "check"} /\ k.result = "none"
  BY <1>1 DEF CreatePayment, VerifyPayment, Timer, CheckPending, CheckConfirming, Start
<1>2. ASSUME NEW j \in jobs, JobDies(j) PROVE FALSE
  BY <1>2 DEF JobDies, Done
<1>3. ASSUME ExpirePayments \/ ListExpired \/ ExpiryDies PROVE FALSE
  BY <1>3 DEF ExpirePayments, ListExpired, ExpiryDies
<1>4. ASSUME NEW p \in Payments, ReportExpired(p) \/ World(p) PROVE FALSE
  BY <1>4 DEF ReportExpired, World, FundsArrive, FundsConfirmed, TimePasses, CacheExpires
<1>5. ASSUME UNCHANGED vars PROVE FALSE
  BY <1>5 DEF vars
<1> QED  BY <1>1, <1>2, <1>3, <1>4, <1>5 DEF Next

(* Conversions and fee records are written by calls that complete.         *)
LEMMA RecordsWritten ==
    ASSUME TypeOK, [Next]_vars, NEW p \in Payments,
           converted' # converted \/ fee' # fee
    PROVE  \E j \in jobs :
              /\ Step(j) /\ j.at \in {"credit", "settle"}
              /\ p # j.p => (p \in converted' <=> p \in converted) /\ fee'[p] = fee[p]
<1>1. ASSUME NEW j \in jobs, CreditMerchant(j)
      PROVE  /\ Step(j) /\ j.at \in {"credit", "settle"}
             /\ p # j.p => (p \in converted' <=> p \in converted) /\ fee'[p] = fee[p]
  BY <1>1 DEF Step, CreditMerchant
<1>2. ASSUME NEW j \in jobs, Settle(j)
      PROVE  /\ Step(j) /\ j.at \in {"credit", "settle"}
             /\ p # j.p => (p \in converted' <=> p \in converted) /\ fee'[p] = fee[p]
  BY <1>2 DEF Step, Settle, TypeOK
<1>3. ASSUME NEW j \in jobs, Step(j) \/ JobDies(j), ~ CreditMerchant(j), ~ Settle(j)
      PROVE  UNCHANGED <<converted, fee>>
  BY <1>3 DEF Step, JobDies, rowVars, AddToMonitoring, CachePayment, LookUpCache,
     DropUncached, ReadPayment, MarkDetected, Unmonitor, Watch, AddPendingBalance, LoadPayment,
     Unwatch, CheckTransaction, CreateTransaction, MarkVerified, ReadConversion, FallBack,
     Cleanup, NotifyCompleted
<1>4. ASSUME NEW q \in Payments,
             CreatePayment(q) \/ VerifyPayment(q) \/ Timer(q) \/ ReportExpired(q) \/ World(q)
      PROVE  UNCHANGED <<converted, fee>>
  BY <1>4 DEF CreatePayment, VerifyPayment, Timer, CheckPending, CheckConfirming,
     ReportExpired, World, FundsArrive, FundsConfirmed, TimePasses, CacheExpires, rowVars
<1>5. ASSUME ExpirePayments \/ ListExpired \/ ExpiryDies \/ UNCHANGED vars
      PROVE  UNCHANGED <<converted, fee>>
  BY <1>5 DEF ExpirePayments, ListExpired, ExpiryDies, vars, rowVars
<1> QED  BY <1>1, <1>2, <1>3, <1>4, <1>5 DEF Next

LEMMA ConfirmedNext == TypeOK /\ ConfirmedInv /\ [Next]_vars => ConfirmedInv'
<1> SUFFICES ASSUME TypeOK, ConfirmedInv, [Next]_vars PROVE ConfirmedInv'
  OBVIOUS
<1>1. txRow \subseteq txRow' /\ confirmed \subseteq confirmed'
  BY ChainGrows
<1>2. ASSUME NEW k \in jobs', k.at \in Completing \cup {"markPaid"}
      PROVE  k.p \in txRow' \cap confirmed'
  <2>1. CASE k \in jobs
    BY <1>1, <1>2, <2>1 DEF ConfirmedInv
  <2>2. CASE k \notin jobs
    <3>1. PICK j \in jobs : Step(j)
      BY <1>2, <2>2, NewJob DEF Completing
    <3>2. /\ k.p = j.p
          /\ k.at = "markPaid" => j.at = "check" /\ j.p \in confirmed /\ j.p \in txRow'
          /\ k.at \in Completing =>
                \/ j.at \in Completing \cup {"markPaid"}
                \/ j.at = "transaction" /\ j.p \in txRow \cap confirmed
      BY <2>2, <3>1, StepFlow
    <3> QED  BY <1>1, <1>2, <3>2 DEF ConfirmedInv
  <2> QED  BY <2>1, <2>2
<1>3. ASSUME NEW p \in Payments, p \in converted' \/ fee'[p] # "none"
      PROVE  p \in txRow' \cap confirmed'
  <2>1. CASE converted' = converted /\ fee' = fee
    BY <1>1, <1>3, <2>1 DEF ConfirmedInv
  <2>2. CASE converted' # converted \/ fee' # fee
    <3>1. PICK j \in jobs : /\ Step(j) /\ j.at \in {"credit", "settle"}
                            /\ p # j.p => /\ p \in converted' <=> p \in converted
                                          /\ fee'[p] = fee[p]
      BY <2>2, RecordsWritten
    <3>2. j.p \in txRow \cap confirmed
      BY <3>1 DEF ConfirmedInv, Completing
    <3> QED  BY <1>1, <1>3, <3>1, <3>2 DEF ConfirmedInv
  <2> QED  BY <2>1, <2>2
<1> QED  BY <1>2, <1>3 DEF ConfirmedInv

(* Nothing is credited or recorded for a payment before its transaction    *)
(* was verified and confirmed: every call that completes a payment has     *)
(* seen that, and neither is ever taken back.                              *)
THEOREM ConfirmedTheorem == Spec => []CreditedWhenConfirmed
<1>1. Init => CreditInv /\ ConfirmedInv
  BY DEF Init, CreditInv, ConfirmedInv
<1>2. ASSUME TypeOK, CreditInv, ConfirmedInv PROVE CreditedWhenConfirmed
  <2> SUFFICES ASSUME NEW p \in Payments, credits[p] > 0 \/ fee[p] # "none"
               PROVE  p \in txRow \cap confirmed
    BY DEF CreditedWhenConfirmed
  <2>1. p \notin converted => credits[p] = 0
    BY <1>2 DEF CreditInv
  <2>2. p \in converted \/ fee[p] # "none"
    BY <2>1
  <2> QED  BY <1>2, <2>2 DEF ConfirmedInv
<1> QED  BY <1>1, <1>2, CreditNext, ConfirmedNext, TypeCorrect, PTL DEF Spec

---------------------------------------------------------------------------
(* Expiry                                                                  *)

(* The statuses of a payment before its funds were seen, and where a call  *)
(* about it may then be.                                                   *)
Unseen == {"NONE", "AWAITING_PAYMENT", "EXPIRED"}
Early == {"monitor", "cache", "lookup", "drop", "read", "detected",
          "check", "markPaid", "markUnderpaid"}

(* An unseen payment is in no set and no record that leads to a credit.    *)
UnseenInv ==
    \A p \in Payments : status[p] \in Unseen =>
        /\ p \notin converted /\ fee[p] = "none" /\ p \notin confirming
        /\ \A j \in jobs : j.p = p => j.at \in Early

LEMMA StatusNext ==
    ASSUME TypeOK, [Next]_vars, NEW p \in Payments, status'[p] \in Unseen
    PROVE  status[p] \in Unseen
<1> USE DEF Unseen
<1>1. ASSUME NEW j \in jobs, MarkDetected(j) \/ MarkVerified(j) \/ Settle(j)
      PROVE  status[p] \in Unseen
  <2>1. status'[p] = status[p] \/ status'[p] \in {"UNDERPAID", "PAID"}
    BY <1>1 DEF MarkDetected, MarkVerified, Settle, SetStatus, TypeOK
  <2> QED  BY <2>1
<1>2. ASSUME NEW j \in jobs, Step(j) \/ JobDies(j),
             ~ MarkDetected(j), ~ MarkVerified(j), ~ Settle(j)
      PROVE  status' = status
  BY <1>2 DEF Step, JobDies, rowVars, AddToMonitoring, CachePayment, LookUpCache,
     DropUncached, ReadPayment, Unmonitor, Watch, AddPendingBalance, LoadPayment, Unwatch,
     CheckTransaction, CreateTransaction, ReadConversion, CreditMerchant, FallBack, Cleanup,
     NotifyCompleted
<1>3. ASSUME NEW q \in Payments, CreatePayment(q) PROVE status[p] \in Unseen
  BY <1>3 DEF CreatePayment, SetStatus, TypeOK
<1>4. ASSUME NEW q \in Payments, VerifyPayment(q) \/ Timer(q) \/ ReportExpired(q) \/ World(q)
      PROVE  status' = status
  BY <1>4 DEF VerifyPayment, Timer, CheckPending, CheckConfirming, ReportExpired, World,
     FundsArrive, FundsConfirmed, TimePasses, CacheExpires, rowVars
<1>5. CASE ExpirePayments
  BY <1>5 DEF ExpirePayments
<1>6. ASSUME ListExpired \/ ExpiryDies \/ UNCHANGED vars PROVE status' = status
  BY <1>6 DEF ListExpired, ExpiryDies, vars, rowVars
<1> QED  BY <1>1, <1>2, <1>3, <1>4, <1>5, <1>6 DEF Next

(* A call about an unseen payment that leaves it unseen stays early.       *)
LEMMA StepEarly ==
    ASSUME TypeOK, NEW j \in jobs, Step(j), j.at \in Early, status'[j.p] \in Unseen,
           NEW k \in jobs', k \notin jobs
    PROVE  k.at \in Early
<1>0. j \in Job /\ j.p \in Payments
  BY DEF TypeOK, Job
<1> USE DEF Goto, Done, Job, Early
<1>1. CASE AddToMonitoring(j) \/ CachePayment(j) \/ LookUpCache(j) \/ DropUncached(j)
  BY <1>0, <1>1 DEF AddToMonitoring, CachePayment, LookUpCache, DropUncached
<1>2. CASE ReadPayment(j)
  BY <1>0, <1>2 DEF ReadPayment
<1>3. CASE CreateTransaction(j)
  BY <1>0, <1>3 DEF CreateTransaction
<1>4. CASE MarkDetected(j) \/ MarkVerified(j)
  <2>1. status'[j.p] \in {"UNDERPAID", "PAID"}
    BY <1>0, <1>4 DEF MarkDetected, MarkVerified, SetStatus, TypeOK
  <2> QED  BY <2>1 DEF Unseen
<1>5. ASSUME Unmonitor(j) \/ Watch(j) \/ AddPendingBalance(j) \/ LoadPayment(j) \/ Unwatch(j)
             \/ CheckTransaction(j) \/ ReadConversion(j) \/ CreditMerchant(j) \/ FallBack(j)
             \/ Settle(j) \/ Cleanup(j) \/ NotifyCompleted(j)
      PROVE  FALSE
  BY <1>5 DEF Unmonitor, Watch, AddPendingBalance, LoadPayment, Unwatch, CheckTransaction,
     ReadConversion, CreditMerchant, FallBack, Settle, Cleanup, NotifyCompleted
<1> QED  BY <1>1, <1>2, <1>3, <1>4, <1>5 DEF Step

(* Only calls that are past detection put payments into confirming.        *)
LEMMA WatchedBy ==
    ASSUME TypeOK, [Next]_vars, NEW p \in confirming', p \notin confirming
    PROVE  \E j \in jobs : j.p = p /\ j.at = "watch"
<1>1. ASSUME NEW j \in jobs, Watch(j) PROVE j.p = p /\ j.at = "watch"
  BY <1>1 DEF Watch
<1>2. ASSUME NEW j \in jobs, Step(j) \/ JobDies(j), ~ Watch(j)
      PROVE  confirming' \subseteq confirming
  BY <1>2 DEF Step, JobDies, redisVars, AddToMonitoring, CachePayment, LookUpCache,
     DropUncached, ReadPayment, MarkDetected, Unmonitor, AddPendingBalance, LoadPayment,
     Unwatch, CheckTransaction, CreateTransaction, MarkVerified, ReadConversion,
     CreditMerchant, FallBack, Settle, Cleanup, NotifyCompleted
<1>3. ASSUME NEW q \in Payments,
             CreatePayment(q) \/ VerifyPayment(q) \/ Timer(q) \/ ReportExpired(q) \/ World(q)
      PROVE  confirming' = confirming
  BY <1>3 DEF CreatePayment, VerifyPayment, Timer, CheckPending, CheckConfirming,
     ReportExpired, World, FundsArrive, FundsConfirmed, TimePasses, CacheExpires, redisVars
<1>4. ASSUME ExpirePayments \/ ListExpired \/ ExpiryDies \/ UNCHANGED vars
      PROVE  confirming' = confirming
  BY <1>4 DEF ExpirePayments, ListExpired, ExpiryDies, vars, redisVars
<1> QED  BY <1>1, <1>2, <1>3, <1>4 DEF Next

(* A call about an unseen payment begins where nothing completes it.       *)
LEMMA NewJobEarly ==
    ASSUME TypeOK, [Next]_vars, NEW k \in jobs', k \notin jobs, k.p \notin confirming
    PROVE  k.at \in Early \/ \E j \in jobs : Step(j)
<1>1. ASSUME NEW p \in Payments, CheckConfirming(p) PROVE k.p \in confirming
  BY <1>1 DEF CheckConfirming, Start
<1>2. ASSUME NEW p \in Payments, CreatePayment(p) \/ VerifyPayment(p) \/ CheckPending(p)
      PROVE  k.at \in Early
  BY <1>2 DEF CreatePayment, VerifyPayment, CheckPending, Start, Early
<1>3. ASSUME NEW j \in jobs, JobDies(j) PROVE FALSE
  BY <1>3 DEF JobDies, Done
<1>4. ASSUME ExpirePayments \/ ListExpired \/ ExpiryDies \/ UNCHANGED vars PROVE FALSE
  BY <1>4 DEF ExpirePayments, ListExpired, ExpiryDies, vars
<1>5. ASSUME NEW p \in Payments, ReportExpired(p) \/ World(p) PROVE FALSE
  BY <1>5 DEF ReportExpired, World, FundsArrive, FundsConfirmed, TimePasses, CacheExpires
<1> QED  BY <1>1, <1>2, <1>3, <1>4, <1>5 DEF Next, Timer

LEMMA UnseenNext == TypeOK /\ UnseenInv /\ [Next]_vars => UnseenInv'
<1> SUFFICES ASSUME TypeOK, UnseenInv, [Next]_vars,
                    NEW p \in Payments, status'[p] \in Unseen
             PROVE  /\ p \notin converted' /\ fee'[p] = "none" /\ p \notin confirming'
                    /\ \A k \in jobs' : k.p = p => k.at \in Early
  BY DEF UnseenInv
<1>1. /\ p \notin converted /\ fee[p] = "none" /\ p \notin confirming
      /\ \A j \in jobs : j.p = p => j.at \in Early
  BY StatusNext DEF UnseenInv
<1>2. p \notin confirming'
  BY <1>1, WatchedBy DEF Early
<1>3. p \notin converted' /\ fee'[p] = "none"
  <2>1. CASE converted' = converted /\ fee' = fee
    BY <1>1, <2>1
  <2>2. CASE converted' # converted \/ fee' # fee
    BY <1>1, <2>2, RecordsWritten DEF Early
  <2> QED  BY <2>1, <2>2
<1>4. ASSUME NEW k \in jobs', k.p = p PROVE k.at \in Early
  <2>1. CASE k \in jobs
    BY <1>1, <1>4, <2>1
  <2>2. ASSUME k \notin jobs, NEW j \in jobs, Step(j) PROVE k.at \in Early
    <3>1. k.p = j.p
      BY <2>2, StepFlow
    <3> QED  BY <1>1, <1>4, <2>2, <3>1, StepEarly
  <2> QED  BY <1>1, <1>4, <2>1, <2>2, NewJobEarly
<1> QED  BY <1>2, <1>3, <1>4

(* An expired payment was not credited: a payment leaves the statuses that *)
(* expire before anything of its completion begins, and never returns.     *)
THEOREM ExpiredTheorem == Spec => []ExpiredNotCredited
<1>1. Init => CreditInv /\ UnseenInv
  BY DEF Init, CreditInv, UnseenInv
<1>2. ASSUME CreditInv, UnseenInv PROVE ExpiredNotCredited
  BY <1>2 DEF CreditInv, UnseenInv, Unseen, ExpiredNotCredited
<1> QED  BY <1>1, <1>2, CreditNext, UnseenNext, TypeCorrect, PTL DEF Spec

---------------------------------------------------------------------------
(* The completion webhook                                                  *)

(* Calls that have committed the completion of their payment.              *)
Late == {"cleanup", "notify"}

(* A fee record comes with one call that will tell the merchant, or with   *)
(* one that told it, or died.                                              *)
NotifyInv ==
    /\ \A j \in jobs : j.at = "settle" => j.result # "none"
    /\ \A j \in jobs : j.at \in Late => fee[j.p] # "none" /\ completedEvents[j.p] = 0
    /\ \A j, k \in jobs : j.at \in Late /\ k.at \in Late /\ j.p = k.p => j = k
    /\ \A p \in Payments : /\ completedEvents[p] = 0 \/ completedEvents[p] = 1
                           /\ fee[p] = "none" => completedEvents[p] = 0

(* A step replaces its call by at most one.                                *)
LEMMA StepReplaces ==
    ASSUME TypeOK, NEW j \in jobs, Step(j)
    PROVE  \A k \in jobs' : k \notin jobs =>
              /\ j \notin jobs'
              /\ \A l \in jobs' : l \notin jobs => l = k
<1> SUFFICES ASSUME NEW k \in jobs', k \notin jobs
             PROVE  /\ j \notin jobs'
                    /\ \A l \in jobs' : l \notin jobs => l = k
  OBVIOUS
<1> USE DEF Goto, GotoSettle, Done
<1>1. CASE AddToMonitoring(j) \/ LookUpCache(j) \/ MarkDetected(j) \/ Unmonitor(j)
           \/ LoadPayment(j) \/ Cleanup(j) \/ MarkVerified(j)
  BY <1>1 DEF AddToMonitoring, LookUpCache, MarkDetected, Unmonitor, LoadPayment, Cleanup,
     MarkVerified
<1>2. CASE CachePayment(j) \/ DropUncached(j) \/ AddPendingBalance(j) \/ Unwatch(j)
           \/ NotifyCompleted(j)
  BY <1>2 DEF CachePayment, DropUncached, AddPendingBalance, Unwatch, NotifyCompleted
<1>3. CASE ReadPayment(j) \/ Watch(j) \/ CheckTransaction(j) \/ Settle(j)
           \/ CreateTransaction(j)
  BY <1>3 DEF ReadPayment, Watch, CheckTransaction, Settle, CreateTransaction
<1>4. CASE ReadConversion(j) \/ FallBack(j)
  BY <1>4 DEF ReadConversion, FallBack
<1>5. CASE CreditMerchant(j)
  <2>1. GotoSettle(j, "engine") \/ Goto(j, "fallback")
    BY <1>5 DEF CreditMerchant
  <2> QED  BY <2>1
<1> QED  BY <1>1, <1>2, <1>3, <1>4, <1>5 DEF Step

(* A call settles with a result, and commits a completion only when there  *)
(* is no fee record.                                                       *)
LEMMA StepLate ==
    ASSUME TypeOK, NotifyInv, NEW j \in jobs, Step(j), NEW k \in jobs', k \notin jobs
    PROVE  /\ k.at = "settle" => k.result # "none"
           /\ k.at \in Late =>
                 \/ j.at = "settle" /\ fee[j.p] = "none" /\ fee'[j.p] # "none"
                 \/ j.at = "cleanup"
<1>0. j \in Job /\ j.p \in Payments
  BY DEF TypeOK, Job
<1> USE DEF Goto, GotoSettle, Done, Job, Late
<1>1. CASE Settle(j)
  <2>1. j.result # "none"
    BY <1>1 DEF Settle, NotifyInv
  <2> QED  BY <1>0, <1>1, <2>1 DEF Settle, TypeOK
<1>2. CASE Cleanup(j)
  BY <1>0, <1>2 DEF Cleanup
<1>3. CASE AddToMonitoring(j) \/ LookUpCache(j) \/ MarkDetected(j) \/ Unmonitor(j)
           \/ LoadPayment(j) \/ MarkVerified(j)
  BY <1>0, <1>3 DEF AddToMonitoring, LookUpCache, MarkDetected, Unmonitor, LoadPayment,
     MarkVerified
<1>4. CASE CachePayment(j) \/ DropUncached(j) \/ AddPendingBalance(j) \/ Unwatch(j)
           \/ NotifyCompleted(j)
  BY <1>0, <1>4 DEF CachePayment, DropUncached, AddPendingBalance, Unwatch, NotifyCompleted
<1>5. CASE ReadPayment(j) \/ Watch(j) \/ CheckTransaction(j) \/ CreateTransaction(j)
  BY <1>0, <1>5 DEF ReadPayment, Watch, CheckTransaction, CreateTransaction
<1>6. CASE ReadConversion(j) \/ CreditMerchant(j) \/ FallBack(j)
  <2>1. \/ \E r \in {"engine", "fallback"} : GotoSettle(j, r)
        \/ Goto(j, "credit") \/ Goto(j, "fallback") \/ Done(j)
    <3>1. ASSUME CreditMerchant(j) PROVE GotoSettle(j, "engine") \/ Goto(j, "fallback")
      BY <3>1 DEF CreditMerchant
    <3> QED  BY <1>6, <3>1 DEF ReadConversion, FallBack
  <2>2. ASSUME NEW r \in {"engine", "fallback"}, GotoSettle(j, r)
        PROVE  k.at = "settle" /\ k.result = r
    BY <1>0, <2>2
  <2>3. ASSUME NEW a \in {"credit", "fallback"}, Goto(j, a) PROVE k.at = a
    BY <1>0, <2>3
  <2> QED  BY <2>1, <2>2, <2>3
<1> QED  BY <1>1, <1>2, <1>3, <1>4, <1>5, <1>6 DEF Step

(* Only a call's own steps write fee records and dispatch webhooks.        *)
LEMMA OtherSteps ==
    ASSUME [Next]_vars, ~ \E j \in jobs : Step(j)
    PROVE  fee' = fee /\ completedEvents' = completedEvents
<1>1. ASSUME NEW p \in Payments,
             CreatePayment(p) \/ VerifyPayment(p) \/ Timer(p) \/ ReportExpired(p) \/ World(p)
      PROVE  fee' = fee /\ completedEvents' = completedEvents
  BY <1>1 DEF CreatePayment, VerifyPayment, Timer, CheckPending, CheckConfirming,
     ReportExpired, World, FundsArrive, FundsConfirmed, TimePasses, CacheExpires, rowVars
<1>2. ASSUME ExpirePayments \/ ListExpired \/ ExpiryDies \/ UNCHANGED vars
      PROVE  fee' = fee /\ completedEvents' = completedEvents
  BY <1>2 DEF ExpirePayments, ListExpired, ExpiryDies, vars, rowVars
<1>3. ASSUME NEW j \in jobs, JobDies(j)
      PROVE  fee' = fee /\ completedEvents' = completedEvents
  BY <1>3 DEF JobDies, rowVars
<1> QED  BY <1>1, <1>2, <1>3 DEF Next

LEMMA StepRecords ==
    ASSUME TypeOK, NotifyInv, NEW j \in jobs, Step(j), NEW p \in Payments
    PROVE  /\ fee[p] # "none" => fee'[p] # "none"
           /\ fee'[p] = fee[p] \/ p = j.p
           /\ \/ completedEvents'[p] = completedEvents[p]
              \/ p = j.p /\ NotifyCompleted(j) /\ completedEvents'[p] = completedEvents[p] + 1
<1>1. CASE Settle(j)
  <2>1. j.p \in Payments /\ j.result # "none"
    BY <1>1 DEF TypeOK, Job, Settle, NotifyInv
  <2> QED  BY <1>1, <2>1 DEF Settle, TypeOK
<1>2. CASE NotifyCompleted(j)
  <2>1. completedEvents \in [Payments -> Nat] /\ fee' = fee
    BY <1>2 DEF TypeOK, NotifyCompleted, rowVars
  <2> QED  BY <1>2, <2>1 DEF NotifyCompleted
<1>3. ASSUME ~ Settle(j), ~ NotifyCompleted(j)
      PROVE  fee' = fee /\ completedEvents' = completedEvents
  BY <1>3 DEF Step, rowVars, AddToMonitoring, CachePayment, LookUpCache, DropUncached,
     ReadPayment, MarkDetected, Unmonitor, Watch, AddPendingBalance, LoadPayment, Unwatch,
     CheckTransaction, CreateTransaction, MarkVerified, ReadConversion, CreditMerchant,
     FallBack, Cleanup
<1> QED  BY <1>1, <1>2, <1>3

LEMMA NotifyNext == TypeOK /\ NotifyInv /\ [Next]_vars => NotifyInv'
<1> SUFFICES ASSUME TypeOK, NotifyInv, [Next]_vars PROVE NotifyInv'
  OBVIOUS
<1>0. TypeOK' /\ \A j \in jobs : j.p \in Payments
  BY TypeNext DEF TypeOK, Job
<1>1. ASSUME ~ \E j \in jobs : Step(j) PROVE NotifyInv'
  <2>1. fee' = fee /\ completedEvents' = completedEvents
    BY <1>1, OtherSteps
  <2>2. \A k \in jobs' : k \in jobs \/ k.at \notin Late \cup {"settle"}
    BY <1>1, NewJob DEF Late
  <2> QED  BY <2>1, <2>2 DEF NotifyInv
<1>2. ASSUME NEW j \in jobs, Step(j) PROVE NotifyInv'
  <2>0. j.p \in Payments
    BY <1>0, <1>2
  <2>1. \A k \in jobs' : k.at = "settle" => k.result # "none"
    BY <1>2, StepLate DEF NotifyInv
  (* A call that is late now was late before, or has just committed.       *)
  <2>2. ASSUME NEW k \in jobs', k.at \in Late, k \notin jobs
        PROVE  /\ k.p = j.p /\ fee'[k.p] # "none" /\ completedEvents'[k.p] = 0
               /\ \A l \in jobs' : l.at \in Late /\ l.p = k.p => l = k
    <3>1. /\ k.p = j.p /\ j \notin jobs'
          /\ \A l \in jobs' : l \notin jobs => l = k
      BY <1>2, <2>2, StepFlow, StepReplaces
    <3>2. \/ j.at = "settle" /\ fee[j.p] = "none" /\ fee'[j.p] # "none"
          \/ j.at = "cleanup"
      BY <1>2, <2>2, StepLate
    <3>3. ~ NotifyCompleted(j)
      BY <3>2 DEF NotifyCompleted
    <3>4. completedEvents'[j.p] = completedEvents[j.p]
      BY <1>2, <2>0, <3>3, StepRecords
    <3>5. CASE j.at = "settle" /\ fee[j.p] = "none" /\ fee'[j.p] # "none"
      BY <2>0, <3>1, <3>4, <3>5 DEF NotifyInv
    <3>6. CASE j.at = "cleanup"
      <4>1. fee[j.p] # "none" /\ completedEvents[j.p] = 0
        BY <3>6 DEF NotifyInv, Late
      <4>2. fee'[j.p] # "none"
        BY <1>2, <2>0, <4>1, StepRecords
      <4>3. \A l \in jobs : l.at \in Late /\ l.p = j.p => l = j
        BY <3>6 DEF NotifyInv, Late
      <4> QED  BY <3>1, <3>4, <4>1, <4>2, <4>3
    <3> QED  BY <3>2, <3>5, <3>6
  <2>3. ASSUME NEW k \in jobs', k.at \in Late, k \in jobs
        PROVE  fee'[k.p] # "none" /\ completedEvents'[k.p] = 0
    <3>1. k.p \in Payments /\ fee[k.p] # "none" /\ completedEvents[k.p] = 0
      BY <1>0, <2>3 DEF NotifyInv
    <3>2. fee'[k.p] # "none"
      BY <1>2, <3>1, StepRecords
    <3>3. k.p # j.p \/ ~ NotifyCompleted(j)
      <4> SUFFICES ASSUME k.p = j.p, NotifyCompleted(j) PROVE FALSE
        OBVIOUS
      <4>1. j.at = "notify" /\ jobs' = jobs \ {j}
        BY DEF NotifyCompleted, Done
      <4>2. k = j
        BY <2>3, <4>1 DEF NotifyInv, Late
      <4> QED  BY <2>3, <4>1, <4>2
    <3> QED  BY <1>2, <3>1, <3>2, <3>3, StepRecords
  <2>4. ASSUME NEW k \in jobs', k.at \in Late PROVE fee'[k.p] # "none" /\ completedEvents'[k.p] = 0
    BY <2>2, <2>3, <2>4
  <2>5. ASSUME NEW k \in jobs', NEW l \in jobs', k.at \in Late, l.at \in Late, k.p = l.p
        PROVE  k = l
    <3>1. CASE k \in jobs /\ l \in jobs
      BY <2>5, <3>1 DEF NotifyInv
    <3>2. CASE k \notin jobs
      BY <2>2, <2>5, <3>2
    <3>3. CASE l \notin jobs
      BY <2>2, <2>5, <3>3
    <3> QED  BY <3>1, <3>2, <3>3
  <2>6. ASSUME NEW p \in Payments
        PROVE  /\ completedEvents'[p] = 0 \/ completedEvents'[p] = 1
               /\ fee'[p] = "none" => completedEvents'[p] = 0
    <3>1. CASE p = j.p /\ NotifyCompleted(j)
      <4>1. j.at \in Late
        BY <3>1 DEF NotifyCompleted, Late
      <4>2. completedEvents[p] = 0 /\ fee[p] # "none"
        BY <3>1, <4>1 DEF NotifyInv
      <4>3. fee'[p] # "none"
        BY <1>2, <4>2, StepRecords
      <4>4. completedEvents'[p] = completedEvents[p] \/ completedEvents'[p] = completedEvents[p] + 1
        BY <1>2, StepRecords
      <4> QED  BY <4>2, <4>3, <4>4
    <3>2. CASE ~ (p = j.p /\ NotifyCompleted(j))
      <4>1. completedEvents'[p] = completedEvents[p]
        BY <1>2, <3>2, StepRecords
      <4>2. fee'[p] = "none" => fee[p] = "none"
        BY <1>2, StepRecords
      <4> QED  BY <4>1, <4>2 DEF NotifyInv
    <3> QED  BY <3>1, <3>2
  <2> QED  BY <2>1, <2>4, <2>5, <2>6 DEF NotifyInv
<1> QED  BY <1>1, <1>2

(* The merchant is told at most once that a payment completed: the fee     *)
(* record, unique per payment, lets one call past the second transaction.  *)
THEOREM CompletedTheorem == Spec => []CompletedOnce
<1>1. Init => NotifyInv
  BY DEF Init, NotifyInv
<1>2. ASSUME NotifyInv PROVE CompletedOnce
  <2> SUFFICES ASSUME NEW p \in Payments PROVE completedEvents[p] <= 1
    BY DEF CompletedOnce
  <2>1. completedEvents[p] = 0 \/ completedEvents[p] = 1
    BY <1>2 DEF NotifyInv
  <2> QED  BY <2>1
<1> QED  BY <1>1, <1>2, NotifyNext, TypeCorrect, PTL DEF Spec

---------------------------------------------------------------------------
(* Paid and credited                                                       *)

(* A call past the engine's transaction is about a converted payment, and  *)
(* a PAID payment is converted or a call is about to convert it.           *)
PaidInv ==
    /\ \A j \in jobs : j.at \in {"fallback", "settle", "cleanup", "notify"} => j.p \in converted
    /\ \A p \in Payments : status[p] = "PAID" =>
          p \in converted \/ \E j \in jobs : j.p = p /\ j.at \in {"convert", "credit"}

(* When the engine does not fail, a call leaves it with a conversion, and  *)
(* marking a payment PAID begins its conversion.                           *)
LEMMA PaidStep ==
    ASSUME TypeOK, "engineFails" \notin Faults, PaidInv, NEW j \in jobs, Step(j)
    PROVE  /\ converted \subseteq converted'
           /\ jobs \ {j} \subseteq jobs'
           /\ \A k \in jobs' \ jobs :
                 k.at \in {"fallback", "settle", "cleanup", "notify"} => k.p \in converted'
           /\ \A p \in Payments : p # j.p => status'[p] = status[p]
           /\ status'[j.p] = "PAID" \/ j.at \in {"convert", "credit"} =>
                 \/ j.p \in converted'
                 \/ \E k \in jobs' : k.p = j.p /\ k.at \in {"convert", "credit"}
                 \/ status[j.p] = "PAID" /\ j.at \notin {"convert", "credit"}
<1>0. j \in Job /\ j.p \in Payments
  BY DEF TypeOK, Job
<1>1. CASE AddToMonitoring(j) \/ LookUpCache(j) \/ Unmonitor(j)
           \/ LoadPayment(j)
  BY <1>0, <1>1 DEF AddToMonitoring, LookUpCache, Unmonitor, LoadPayment,
                    Goto, Job, rowVars
<1>2. CASE CachePayment(j) \/ DropUncached(j) \/ AddPendingBalance(j) \/ Unwatch(j)
           \/ NotifyCompleted(j)
  BY <1>0, <1>2
     DEF CachePayment, DropUncached, AddPendingBalance, Unwatch, NotifyCompleted, Done, rowVars
<1>3. CASE ReadPayment(j) \/ Watch(j) \/ CheckTransaction(j)
  BY <1>0, <1>3 DEF ReadPayment, Watch, CheckTransaction, Goto, Done, Job, rowVars
<1>4. CASE CreateTransaction(j)
  BY <1>0, <1>4 DEF CreateTransaction, Goto, Done, Job
<1>5. CASE MarkDetected(j)
  BY <1>0, <1>5 DEF MarkDetected, SetStatus, Goto, Job, TypeOK
<1>6. CASE MarkVerified(j)
  <2>1. CASE j.at = "markPaid" /\ SetStatus(j.p, "PAID") /\ Goto(j, "convert")
    <3> DEFINE k == [j EXCEPT !.at = "convert"]
    <3>1. k \in jobs' /\ k.p = j.p /\ k.at = "convert"
      BY <1>0, <2>1 DEF Goto, Job
    <3> QED  BY <1>0, <1>6, <2>1, <3>1 DEF MarkVerified, SetStatus, Goto, Job, TypeOK
  <2>2. CASE j.at = "markUnderpaid" /\ SetStatus(j.p, "UNDERPAID") /\ Goto(j, "watch")
    BY <1>0, <1>6, <2>2 DEF MarkVerified, SetStatus, Goto, Job, TypeOK
  <2> QED  BY <1>6, <2>1, <2>2 DEF MarkVerified
<1>7. CASE ReadConversion(j)
  <2>0. UNCHANGED <<converted, status>> /\ j.at = "convert"
    BY <1>7 DEF ReadConversion, rowVars
  <2>1. CASE j.p \in converted /\ GotoSettle(j, "engine")
    BY <1>0, <2>0, <2>1 DEF GotoSettle, Job
  <2>2. CASE j.p \notin converted /\ Goto(j, "credit")
    <3> DEFINE k == [j EXCEPT !.at = "credit"]
    <3>1. k \in jobs' /\ k.p = j.p /\ k.at = "credit"
      BY <1>0, <2>2 DEF Goto, Job
    <3> QED  BY <1>0, <2>0, <2>2, <3>1 DEF Goto, Job
  <2> QED  BY <1>7, <2>1, <2>2 DEF ReadConversion
<1>8. CASE CreditMerchant(j)
  <2>0. /\ status' = status /\ j.at = "credit"
        /\ converted' = converted \cup {j.p}
        /\ GotoSettle(j, "engine") \/ Goto(j, "fallback")
    BY <1>8 DEF CreditMerchant
  <2>1. CASE GotoSettle(j, "engine")
    BY <1>0, <2>0, <2>1 DEF GotoSettle, Job
  <2>2. CASE Goto(j, "fallback")
    BY <1>0, <2>0, <2>2 DEF Goto, Job
  <2> QED  BY <2>0, <2>1, <2>2
<1>9. CASE FallBack(j)
  <2>0. UNCHANGED <<converted, status>> /\ j.at = "fallback" /\ j.p \in converted
    BY <1>9 DEF FallBack, rowVars, PaidInv
  <2>1. CASE GotoSettle(j, "fallback")
    BY <1>0, <2>0, <2>1 DEF GotoSettle, Job
  <2>2. CASE Done(j)
    BY <1>0, <2>0, <2>2 DEF Done
  <2> QED  BY <1>9, <2>1, <2>2 DEF FallBack
<1>10. CASE Settle(j)
  <2>0. converted' = converted /\ j.at = "settle" /\ j.p \in converted
    BY <1>10 DEF Settle, PaidInv
  <2>1. CASE Done(j) /\ status' = status
    BY <1>0, <2>0, <2>1 DEF Done
  <2>2. CASE SetStatus(j.p, "PAID") /\ Goto(j, "cleanup")
    BY <1>0, <2>0, <2>2 DEF Goto, Job, SetStatus, TypeOK
  <2> QED  BY <1>10, <2>1, <2>2 DEF Settle
<1>11. CASE Cleanup(j)
  <2>0. UNCHANGED <<converted, status>> /\ j.at = "cleanup" /\ j.p \in converted /\ Goto(j, "notify")
    BY <1>11 DEF Cleanup, rowVars, PaidInv
  <2> QED  BY <1>0, <2>0 DEF Goto, Job
<1> QED  BY <1>1, <1>2, <1>3, <1>4, <1>5, <1>6, <1>7, <1>8, <1>9, <1>10, <1>11 DEF Step

LEMMA PaidStepKeeps ==
    ASSUME TypeOK, "engineFails" \notin Faults, PaidInv, NEW j \in jobs, Step(j)
    PROVE  PaidInv'
<1>0. j.p \in Payments
  BY DEF TypeOK, Job
<1>1. /\ converted \subseteq converted'
      /\ jobs \ {j} \subseteq jobs'
      /\ \A k \in jobs' \ jobs :
            k.at \in {"fallback", "settle", "cleanup", "notify"} => k.p \in converted'
      /\ \A p \in Payments : p # j.p => status'[p] = status[p]
      /\ status'[j.p] = "PAID" \/ j.at \in {"convert", "credit"} =>
            \/ j.p \in converted'
            \/ \E k \in jobs' : k.p = j.p /\ k.at \in {"convert", "credit"}
            \/ status[j.p] = "PAID" /\ j.at \notin {"convert", "credit"}
  BY PaidStep
<1>2. ASSUME NEW k \in jobs', k.at \in {"fallback", "settle", "cleanup", "notify"}
      PROVE  k.p \in converted'
  BY <1>1, <1>2 DEF PaidInv
<1>3. ASSUME NEW p \in Payments, status'[p] = "PAID"
      PROVE  p \in converted' \/ \E k \in jobs' : k.p = p /\ k.at \in {"convert", "credit"}
  <2>1. ASSUME status[p] = "PAID", p # j.p \/ j.at \notin {"convert", "credit"}
        PROVE  p \in converted' \/ \E k \in jobs' : k.p = p /\ k.at \in {"convert", "credit"}
    <3>1. CASE p \in converted
      BY <1>1, <3>1
    <3>2. CASE p \notin converted
      <4>1. PICK k \in jobs : k.p = p /\ k.at \in {"convert", "credit"}
        BY <2>1, <3>2 DEF PaidInv
      <4>2. k \in jobs'
        BY <1>1, <2>1, <4>1
      <4> QED  BY <4>1, <4>2
    <3> QED  BY <3>1, <3>2
  <2>2. CASE p = j.p
    BY <1>1, <1>3, <2>1, <2>2
  <2>3. CASE p # j.p
    BY <1>1, <1>3, <2>1, <2>3
  <2> QED  BY <2>2, <2>3
<1> QED  BY <1>2, <1>3 DEF PaidInv

LEMMA PaidNext ==
    ASSUME TypeOK, "engineFails" \notin Faults, "dies" \notin Faults, PaidInv, [Next]_vars
    PROVE  PaidInv'
<1>1. ASSUME NEW j \in jobs, Step(j) PROVE PaidInv'
  BY <1>1, PaidStepKeeps
<1>2. ASSUME converted' = converted, jobs \subseteq jobs',
             \A k \in jobs' \ jobs : k.at \notin {"fallback", "settle", "cleanup", "notify"},
             \A p \in Payments : status'[p] = "PAID" => status[p] = "PAID"
      PROVE  PaidInv'
  BY <1>2 DEF PaidInv
<1>3. ASSUME NEW p \in Payments, CreatePayment(p) PROVE PaidInv'
  <2>1. /\ converted' = converted /\ status' = [status EXCEPT ![p] = "AWAITING_PAYMENT"]
        /\ jobs \subseteq jobs'
        /\ \A k \in jobs' \ jobs : k.at = "monitor"
    BY <1>3 DEF CreatePayment, SetStatus, Start
  <2>2. \A q \in Payments : status'[q] = "PAID" => status[q] = "PAID"
    BY <2>1 DEF TypeOK
  <2> QED  BY <1>2, <2>1, <2>2
<1>4. ASSUME NEW p \in Payments, VerifyPayment(p) \/ Timer(p) PROVE PaidInv'
  <2>1. /\ converted' = converted /\ status' = status
        /\ jobs \subseteq jobs'
        /\ \A k \in jobs' \ jobs : k.at \in {"check", "lookup", "load"}
    BY <1>4 DEF VerifyPayment, Timer, CheckPending, CheckConfirming, Start, rowVars
  <2> QED  BY <1>2, <2>1
<1>5. CASE ExpirePayments
  <2>1. converted' = converted /\ jobs' = jobs
    BY <1>5 DEF ExpirePayments
  <2>2. \A q \in Payments : status'[q] = "PAID" => status[q] = "PAID"
    BY <1>5 DEF ExpirePayments
  <2> QED  BY <1>2, <2>1, <2>2
<1>6. ASSUME ListExpired \/ ExpiryDies \/ UNCHANGED vars PROVE PaidInv'
  <2>1. converted' = converted /\ jobs' = jobs /\ status' = status
    BY <1>6 DEF ListExpired, ExpiryDies, vars, rowVars
  <2> QED  BY <1>2, <2>1
<1>7. ASSUME NEW p \in Payments, ReportExpired(p) \/ World(p) PROVE PaidInv'
  <2>1. converted' = converted /\ jobs' = jobs /\ status' = status
    BY <1>7 DEF ReportExpired, World, FundsArrive, FundsConfirmed, TimePasses, CacheExpires, rowVars
  <2> QED  BY <1>2, <2>1
<1>8. ASSUME NEW j \in jobs, JobDies(j) PROVE FALSE
  BY <1>8 DEF JobDies
<1> QED  BY <1>1, <1>3, <1>4, <1>5, <1>6, <1>7, <1>8 DEF Next

(* Where no process dies and the conversion engine does not fail, every    *)
(* PAID payment that no call is still working on was credited to the       *)
(* merchant, whatever the rates do and however the calls overlap: marking  *)
(* it PAID and converting it are one call, and a call gets past the        *)
(* conversion only with a conversion in place.                             *)
THEOREM PaidTheorem ==
    ASSUME Faults \cap {"dies", "engineFails"} = {}
    PROVE  Spec => []PaidIsCredited
<1>0. "dies" \notin Faults /\ "engineFails" \notin Faults
  OBVIOUS
<1>1. Init => CreditInv /\ PaidInv
  BY DEF Init, CreditInv, PaidInv
<1>2. TypeOK /\ PaidInv /\ [Next]_vars => PaidInv'
  BY <1>0, PaidNext
<1>3. CreditInv /\ PaidInv => PaidIsCredited
  BY DEF CreditInv, PaidInv, PaidIsCredited
<1> QED  BY <1>1, <1>2, <1>3, CreditNext, TypeCorrect, PTL DEF Spec
=============================================================================
