---------------------------- MODULE PaymentWorker -----------------------------
(***************************************************************************)
(* The BullMQ worker that credits payments                                 *)
(* (src/backend/src/workers/payment.worker.ts).                            *)
(*                                                                         *)
(* Two keys in Redis keep a payment from being credited twice: a lock of   *)
(* 24 h, released only when the handler throws, and a credited mark of     *)
(* seven days.  Neither is modelled to expire.  Each action is the code    *)
(* between two awaits; a run is a handler being executed.                  *)
(*                                                                         *)
(* The handler credits merchant.balance, which schema.prisma declares for  *)
(* wallets and not for merchants; the database is taken to have it.        *)
(***************************************************************************)
EXTENDS JobQueue

CONSTANTS
    PaymentJobs,      \* ids of jobs
    PaymentOf,        \* the payment a job is about; several jobs may share one
    TransactionKind,  \* what its transaction may be: matching, mismatch, underpaid
    PaymentAttempts   \* QUEUE_CONFIGS: attempts

(* What the composing module assumes of the constants.                     *)
PaymentConstants ==
    /\ PaymentAttempts \in Nat
    /\ TransactionKind \in [PaymentJobs -> SUBSET {"matching", "mismatch", "underpaid"}]

Payments == {PaymentOf[k] : k \in PaymentJobs}

VARIABLES
    faults,          \* what may go wrong, a subset of FaultKinds; never changes
    paymentJobs,     \* the queue
    paymentRuns,     \* handlers being executed: [slot, job, at]
    paymentLocks,    \* payments whose key payment:lock:<id> exists
    creditedMarks,   \* payments whose key payment:credited:<id> exists
    paymentStatus,   \* payment.status, as far as the worker tells it apart
    workerCredits,   \* how often merchant.balance was incremented for it
    deadPayments     \* jobs in the dead-letter queue

paymentVars == <<paymentJobs, paymentRuns, paymentLocks, creditedMarks, paymentStatus,
                 workerCredits, deadPayments>>

PaymentRun == [slot : Slots, job : PaymentJobs,
               at : {"credited", "lock", "transaction", "underpaid", "confirmations", "read",
                     "commit", "mark", "notify", "release", "fail", "deadLetter"}]

PaymentTypeOK ==
    /\ paymentJobs \in [PaymentJobs -> Job]
    /\ paymentRuns \in SUBSET PaymentRun
    /\ paymentLocks \in SUBSET Payments
    /\ creditedMarks \in SUBSET Payments
    /\ paymentStatus \in [Payments -> {"CONFIRMING", "COMPLETED", "FAILED", "UNDERPAID"}]
    /\ workerCredits \in [Payments -> Nat]
    /\ deadPayments \in SUBSET PaymentJobs

PaymentInit ==
    /\ paymentJobs = [k \in PaymentJobs |-> NoJob]
    /\ paymentRuns = {} /\ paymentLocks = {} /\ creditedMarks = {} /\ deadPayments = {}
    /\ paymentStatus = [p \in Payments |-> "CONFIRMING"]
    /\ workerCredits = [p \in Payments |-> 0]

keyVars == <<paymentLocks, creditedMarks>>
paidVars == <<paymentStatus, workerCredits>>

P(r) == PaymentOf[r.job]

Ends(r) == paymentRuns' = paymentRuns \ {r}
Goto(r, step) == paymentRuns' = (paymentRuns \ {r}) \cup {[r EXCEPT !.at = step]}

(* The handler returns.                                                    *)
Returns(r) ==
    /\ Ends(r)
    /\ paymentJobs' = [paymentJobs EXCEPT ![r.job] = Completed(@, r.slot)]

(* An await inside the try block throws.                                   *)
Throws(r) == Goto(r, "release") /\ UNCHANGED paymentJobs

Proceeds(r, step) == Goto(r, step) /\ UNCHANGED paymentJobs

---------------------------------------------------------------------------
AddPayment(k) ==
    /\ paymentJobs[k].state = "absent"
    /\ paymentJobs' = [paymentJobs EXCEPT ![k] = Added]
    /\ UNCHANGED <<paymentRuns, keyVars, paidVars, deadPayments>>

ProcessPayment(i, k) ==
    /\ paymentJobs[k].state = "waiting"
    /\ \A r \in paymentRuns : r.slot # i
    /\ paymentJobs' = [paymentJobs EXCEPT ![k] = Taken(@, i)]
    /\ paymentRuns' = paymentRuns \cup {[slot |-> i, job |-> k, at |-> "credited"]}
    /\ UNCHANGED <<keyVars, paidVars, deadPayments>>

IsAlreadyCredited(r) ==
    /\ r.at = "credited"
    /\ \/ P(r) \in creditedMarks /\ Returns(r)
       \/ P(r) \notin creditedMarks /\ Proceeds(r, "lock")
       \/ "redis" \in faults /\ Proceeds(r, "fail")
    /\ UNCHANGED <<keyVars, paidVars, deadPayments>>

(* Seeded fault: SET without NX.                                           *)
AcquireLockAlways(r) ==
    /\ r.at = "lock"
    /\ Proceeds(r, "transaction")
    /\ paymentLocks' = paymentLocks \cup {P(r)}
    /\ UNCHANGED <<creditedMarks, paidVars, deadPayments>>

(* SET NX.  A call that throws may have set the key, and is not caught.    *)
AcquireProcessingLock(r) ==
    /\ r.at = "lock"
    /\ \/ P(r) \in paymentLocks /\ Returns(r)
       \/ P(r) \notin paymentLocks /\ Proceeds(r, "transaction")
       \/ "redis" \in faults /\ Proceeds(r, "fail")
    /\ \/ paymentLocks' = paymentLocks \cup {P(r)}
       \/ "redis" \in faults /\ Proceeds(r, "fail") /\ UNCHANGED paymentLocks
    /\ UNCHANGED <<creditedMarks, paidVars, deadPayments>>

(* The look-up of the transaction, which may not be there yet or no more,  *)
(* and the checks of its recipient and its amount.  The lock is kept when  *)
(* the payment is turned down.                                             *)
CheckTransaction(r) ==
    /\ r.at = "transaction"
    /\ \/ Throws(r) /\ UNCHANGED paymentStatus
       \/ /\ "matching" \in TransactionKind[r.job]
          /\ Proceeds(r, "confirmations") /\ UNCHANGED paymentStatus
       \/ /\ "mismatch" \in TransactionKind[r.job]
          /\ paymentStatus' = [paymentStatus EXCEPT ![P(r)] = "FAILED"]
          /\ Returns(r)
       \/ /\ "underpaid" \in TransactionKind[r.job] /\ "underpays" \in faults
          /\ paymentStatus' = [paymentStatus EXCEPT ![P(r)] = "UNDERPAID"]
          /\ Proceeds(r, "underpaid")
    /\ UNCHANGED <<keyVars, workerCredits, deadPayments>>

NotifyUnderpaid(r) ==
    /\ r.at = "underpaid"
    /\ \/ Returns(r)
       \/ "redis" \in faults /\ Throws(r)
    /\ UNCHANGED <<keyVars, paidVars, deadPayments>>

(* Too few confirmations, or a block height within the window of a         *)
(* reorganisation, throw as well.                                          *)
CheckConfirmations(r) ==
    /\ r.at = "confirmations"
    /\ (Proceeds(r, "read") \/ Throws(r))
    /\ UNCHANGED <<keyVars, paidVars, deadPayments>>

(* The status as the transaction reads it, READ COMMITTED.                 *)
ReadStatus(r) ==
    /\ r.at = "read"
    /\ IF paymentStatus[P(r)] = "COMPLETED" THEN Proceeds(r, "mark") ELSE Proceeds(r, "commit")
    /\ UNCHANGED <<keyVars, paidVars, deadPayments>>

CreditMerchant(r) ==
    /\ r.at = "commit"
    /\ \/ /\ paymentStatus' = [paymentStatus EXCEPT ![P(r)] = "COMPLETED"]
          /\ workerCredits' = [workerCredits EXCEPT ![P(r)] = @ + 1]
          /\ Proceeds(r, "mark")
       \/ "db" \in faults /\ Throws(r) /\ UNCHANGED <<paymentStatus, workerCredits>>
    /\ UNCHANGED <<keyVars, deadPayments>>

MarkAsCredited(r) ==
    /\ r.at = "mark"
    /\ \/ creditedMarks' = creditedMarks \cup {P(r)} /\ Proceeds(r, "notify")
       \/ "redis" \in faults /\ Throws(r) /\ UNCHANGED creditedMarks
    /\ UNCHANGED <<paymentLocks, paidVars, deadPayments>>

(* The webhook job and the e-mail job.                                     *)
NotifyCredited(r) ==
    /\ r.at = "notify"
    /\ \/ Returns(r)
       \/ "redis" \in faults /\ Throws(r)
    /\ UNCHANGED <<keyVars, paidVars, deadPayments>>

(* Seeded fault: the catch clause rethrows and keeps the lock.             *)
ReleaseNothing(r) ==
    /\ r.at = "release"
    /\ Proceeds(r, "fail")
    /\ UNCHANGED <<keyVars, paidVars, deadPayments>>

(* The catch clause deletes the lock; if that throws, the lock stays.      *)
ReleaseProcessingLock(r) ==
    /\ r.at = "release"
    /\ Proceeds(r, "fail")
    /\ \/ paymentLocks' = paymentLocks \ {P(r)}
       \/ "redis" \in faults /\ UNCHANGED paymentLocks
    /\ UNCHANGED <<creditedMarks, paidVars, deadPayments>>

(* BullMQ records the failure; the failed event follows if the job was     *)
(* still this run's.                                                       *)
FailPayment(r) ==
    /\ r.at = "fail"
    /\ paymentJobs' = [paymentJobs EXCEPT ![r.job] = Failed(@, r.slot, PaymentAttempts)]
    /\ IF /\ Holds(paymentJobs[r.job], r.slot)
          /\ Exhausted(paymentJobs[r.job], PaymentAttempts)
       THEN Goto(r, "deadLetter")
       ELSE Ends(r)
    /\ UNCHANGED <<keyVars, paidVars, deadPayments>>

MovePaymentToDLQ(r) ==
    /\ r.at = "deadLetter"
    /\ \/ deadPayments' = deadPayments \cup {r.job}
       \/ "redis" \in faults /\ UNCHANGED deadPayments
    /\ Ends(r)
    /\ UNCHANGED <<paymentJobs, keyVars, paidVars>>

PaymentRunDies(r) ==
    /\ "dies" \in faults
    /\ Ends(r)
    /\ UNCHANGED <<paymentJobs, keyVars, paidVars, deadPayments>>

(* Only a run that died or is blocked loses its job.                       *)
PaymentStalls(k) ==
    /\ paymentJobs[k].state = "active"
    /\ \/ "stalls" \in faults
       \/ \A r \in paymentRuns : r.job # k \/ r.slot # paymentJobs[k].run
    /\ paymentJobs' = [paymentJobs EXCEPT ![k] = Stalled(@)]
    /\ UNCHANGED <<paymentRuns, keyVars, paidVars, deadPayments>>

PaymentStep(r) ==
    \/ IsAlreadyCredited(r) \/ AcquireProcessingLock(r) \/ CheckTransaction(r)
    \/ NotifyUnderpaid(r) \/ CheckConfirmations(r) \/ ReadStatus(r) \/ CreditMerchant(r)
    \/ MarkAsCredited(r) \/ NotifyCredited(r) \/ ReleaseProcessingLock(r)
    \/ FailPayment(r) \/ MovePaymentToDLQ(r)

PaymentNext ==
    /\ \/ \E k \in PaymentJobs : AddPayment(k) \/ PaymentStalls(k)
       \/ \E i \in Slots, k \in PaymentJobs : ProcessPayment(i, k)
       \/ \E r \in paymentRuns : PaymentStep(r) \/ PaymentRunDies(r)
    /\ UNCHANGED faults

PaymentAdvance(k) ==
    \/ \E i \in Slots : ProcessPayment(i, k)
    \/ \E r \in paymentRuns : r.job = k /\ PaymentStep(r)

---------------------------------------------------------------------------
(* Properties                                                              *)

(* However often a job is retried, handed out again while its first run    *)
(* still works, or duplicated, and whatever Redis or the database fails to *)
(* do after the credit, the merchant is credited at most once.  Left out   *)
(* is a second, too small transaction while Redis fails: its job takes the *)
(* status from COMPLETED to UNDERPAID and the retry credits again.         *)
WorkerCreditsOnce ==
    {"redis", "underpays"} \subseteq faults \/ \A p \in Payments : workerCredits[p] <= 1

(* While processes live and Redis answers, every payment handed to the    *)
(* worker is credited, turned down, or left in the dead-letter queue.      *)
PaymentAccounted ==
    \A k \in PaymentJobs :
        paymentJobs[k].state = "waiting" /\ faults \subseteq {"db", "underpays"} ~>
            \/ workerCredits[PaymentOf[k]] > 0
            \/ paymentStatus[PaymentOf[k]] \in {"FAILED", "UNDERPAID"}
            \/ \E d \in deadPayments : PaymentOf[d] = PaymentOf[k]
=============================================================================
