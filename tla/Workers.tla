-------------------------------- MODULE Workers --------------------------------
(***************************************************************************)
(* A process that runs the workers of the payment, withdrawal, webhook and *)
(* conversion queues (src/backend/src/workers): the start functions those  *)
(* files export, called together.  Nothing in the repository calls them.   *)
(*                                                                         *)
(* The four share the queue library, its faults and the slots of a         *)
(* process, and nothing else: no worker reads what another one writes.     *)
(* A behaviour therefore follows one of them, the one in focus, and the    *)
(* others stay as they are.                                                *)
(***************************************************************************)
EXTENDS JobQueue, Integers

CONSTANTS
    PaymentJobs, PaymentOf, TransactionKind, PaymentAttempts,
    WithdrawalJobs, EvmWithdrawals, FirstNonce, WithdrawalAttempts,
    WebhookJobs, WebhookAttempts, GiveUpAfter,
    Conversions, StepJobs, ConversionAttempts,
    Scenarios   \* bound: pairs of a worker and the faults it may meet

Focus == {"payment", "withdrawal", "webhook", "conversion"}

VARIABLES
    focus,   \* the worker the behaviour follows; never changes
    faults,
    paymentJobs, paymentRuns, paymentLocks, creditedMarks, paymentStatus, workerCredits,
    deadPayments,
    withdrawalJobs, withdrawalRuns, withdrawalLocks, payoutStatus, counter, minedNonces, sent,
    webhookJobs, webhookRuns, enabled, received, deadWebhooks,
    conversionStatus, method, feeStatus, stepJobs, conversionRuns, sales

PW == INSTANCE PaymentWorker
WW == INSTANCE WithdrawalWorker
HW == INSTANCE WebhookWorker
CW == INSTANCE Conversion

ASSUME WorkersAssumption ==
    /\ Scenarios \subseteq Focus \X SUBSET FaultKinds
    /\ PW!PaymentConstants
    /\ WW!WithdrawalConstants
    /\ HW!WebhookConstants
    /\ CW!ConversionConstants

paymentVars == <<paymentJobs, paymentRuns, paymentLocks, creditedMarks, paymentStatus,
                 workerCredits, deadPayments>>
withdrawalVars == <<withdrawalJobs, withdrawalRuns, withdrawalLocks, payoutStatus, counter,
                    minedNonces, sent>>
webhookVars == <<webhookJobs, webhookRuns, enabled, received, deadWebhooks>>
conversionVars == <<conversionStatus, method, feeStatus, stepJobs, conversionRuns, sales>>

vars == <<focus, faults, paymentVars, withdrawalVars, webhookVars, conversionVars>>

TypeOK ==
    /\ <<focus, faults>> \in Scenarios
    /\ PW!PaymentTypeOK
    /\ WW!WithdrawalTypeOK
    /\ HW!WebhookTypeOK
    /\ CW!ConversionTypeOK

Init ==
    /\ \E scenario \in Scenarios : focus = scenario[1] /\ faults = scenario[2]
    /\ PW!PaymentInit
    /\ WW!WithdrawalInit
    /\ HW!WebhookInit
    /\ CW!ConversionInit

Next ==
    /\ UNCHANGED focus
    /\ \/ /\ focus = "payment" /\ PW!PaymentNext
          /\ UNCHANGED <<withdrawalVars, webhookVars, conversionVars>>
       \/ /\ focus = "withdrawal" /\ WW!WithdrawalNext
          /\ UNCHANGED <<paymentVars, webhookVars, conversionVars>>
       \/ /\ focus = "webhook" /\ HW!WebhookNext
          /\ UNCHANGED <<paymentVars, withdrawalVars, conversionVars>>
       \/ /\ focus = "conversion" /\ CW!ConversionNext
          /\ UNCHANGED <<paymentVars, withdrawalVars, webhookVars>>

(* BullMQ hands out waiting jobs and a live process goes on with its       *)
(* handlers.  The conversion batch and the conversion jobs compete for     *)
(* slots, hence strong fairness: each gets one again and again.            *)
Fairness ==
    /\ \A k \in PaymentJobs : WF_paymentVars(PW!PaymentAdvance(k))
    /\ \A w \in WithdrawalJobs : WF_withdrawalVars(WW!WithdrawalAdvance(w))
    /\ \A i \in Slots :
          WF_conversionVars(\E r \in conversionRuns : r.slot = i /\ CW!ConversionStep(r))
    /\ SF_conversionVars(\E i \in Slots, c \in Conversions : CW!ProcessConversionQueue(i, c))
    /\ SF_conversionVars(\E i \in Slots, c \in Conversions : CW!ProcessFeeDisbursements(i, c))
    /\ SF_conversionVars(\E i \in Slots, k \in StepJobs : CW!ProcessConversionJob(i, k))

Spec == Init /\ [][Next]_vars
FairSpec == Spec /\ Fairness

---------------------------------------------------------------------------
(* The properties of the workers, stated in their modules                  *)

(* However often a job is retried, handed out again while its first run    *)
(* still works, or duplicated, the merchant is credited at most once.      *)
WorkerCreditsOnce == PW!WorkerCreditsOnce

(* A payment handed to the worker is credited, turned down or left in the  *)
(* dead-letter queue, while processes live and Redis answers.              *)
PaymentAccounted == PW!PaymentAccounted

(* A withdrawal that was given up is not broadcast any more.               *)
FailedIsNeverSent == WW!FailedIsNeverSent

(* A webhook BullMQ has given up is in the dead-letter queue.              *)
FailedIsDeadLettered == HW!FailedIsDeadLettered

(* A conversion at the exchange is COMPLETED only if its order was executed.*)
CompletedWasSold == CW!CompletedWasSold

(* A conversion is completed or failed in the end, while processes live.   *)
ConversionEnds == CW!ConversionEnds
=============================================================================
