------------------------------ MODULE Conversion ------------------------------
(***************************************************************************)
(* Selling what merchants were paid in                                     *)
(* (src/backend/src/services/conversion.service.ts from the sweep on, and  *)
(* src/backend/src/workers/conversion.worker.ts).                          *)
(*                                                                         *)
(* A conversion is moved on by a chain of jobs, sweep, swap and settle,    *)
(* each of which queues the next, and by a batch job that looks for        *)
(* conversions every minute.  Both call the same functions; nothing keeps  *)
(* them apart.  Each action is the code between two awaits.                *)
(***************************************************************************)
EXTENDS JobQueue

CONSTANTS
    Conversions,
    StepJobs,             \* bound: ids of the unfinished jobs
    ConversionAttempts    \* the attempts executeConversion and the worker ask for

(* What the composing module assumes of the constants.                     *)
ConversionConstants == StepJobs \subseteq Nat \ {Nobody} /\ ConversionAttempts \in Nat

VARIABLES
    faults,            \* what may go wrong, a subset of FaultKinds; never changes
    conversionStatus,  \* conversion.status, "NONE" before the row is created
    method,            \* conversion.conversionMethod; "none" is passthrough or virtual
    feeStatus,         \* status of the disbursement of its fee, "NONE" without a row
    stepJobs,          \* the queue: what a job is about, and its state
    conversionRuns,    \* handlers being executed: [slot, id, c, at], id of a job or Nobody
    sales              \* market orders executed for it at the exchange

conversionVars == <<conversionStatus, method, feeStatus, stepJobs, conversionRuns, sales>>

Step == {"sweep", "swap", "settle"}
ConversionStatus == {"PENDING", "SWEEPING", "SWAPPING", "SETTLING", "COMPLETED", "FAILED"}

ConversionRun == [slot : Slots, id : StepJobs \cup {Nobody}, c : Conversions,
                  at : {"disburse", "queueSweep", "sendFee", "feeFailed", "load", "readSweep", "markSweep", "readSwap", "markSwap",
                        "sell", "markSold", "swapFailed", "readSettle", "settle", "queueNext",
                        "fail", "giveUp"}]

ConversionTypeOK ==
    /\ conversionStatus \in [Conversions -> ConversionStatus \cup {"NONE"}]
    /\ method \in [Conversions -> {"none", "dex", "cex_binance"}]
    /\ feeStatus \in [Conversions -> {"NONE", "PENDING", "SENT", "FAILED"}]
    /\ stepJobs \in [StepJobs -> [c : Conversions, step : Step, job : Job]]
    /\ conversionRuns \in SUBSET ConversionRun
    /\ sales \in [Conversions -> Nat]

ConversionInit ==
    /\ conversionStatus = [c \in Conversions |-> "NONE"]
    /\ method = [c \in Conversions |-> "none"]
    /\ feeStatus = [c \in Conversions |-> "NONE"]
    /\ \E any \in Conversions :
          stepJobs = [k \in StepJobs |-> [c |-> any, step |-> "sweep", job |-> NoJob]]
    /\ conversionRuns = {}
    /\ sales = [c \in Conversions |-> 0]

SetStatus(c, s) == conversionStatus' = [conversionStatus EXCEPT ![c] = s]
SetFee(c, s) == feeStatus' = [feeStatus EXCEPT ![c] = s]

Busy == {r.slot : r \in conversionRuns}

(* Slots are interchangeable: a run takes the first free one.              *)
Idle(i) == i \notin Busy /\ \A j \in Slots \ Busy : i <= j
Begins(i, k, c, step) ==
    conversionRuns' = conversionRuns \cup {[slot |-> i, id |-> k, c |-> c, at |-> step]}
Ends(r) == conversionRuns' = conversionRuns \ {r}
Goto(r, step) == conversionRuns' = (conversionRuns \ {r}) \cup {[r EXCEPT !.at = step]}
Proceeds(r, step) == Goto(r, step) /\ UNCHANGED stepJobs

Batch(r) == r.id = Nobody

(* removeOnComplete: nothing looks up a completed job, it goes at once.    *)
Removed(job, i) == IF Holds(job, i) THEN NoJob ELSE job

Finishes(r) ==
    /\ Ends(r)
    /\ IF Batch(r)
       THEN UNCHANGED stepJobs
       ELSE stepJobs' = [stepJobs EXCEPT ![r.id].job = Removed(@, r.slot)]

(* The service's function returns: the batch goes on to its next           *)
(* conversion, a job queues what follows its step.                         *)
Served(r) == IF Batch(r) THEN Finishes(r) ELSE Proceeds(r, "queueNext")

(* It throws: the batch logs the error, a job fails.                       *)
Throws(r) == IF Batch(r) THEN Finishes(r) ELSE Proceeds(r, "fail")

(* A database call, or the look-up of a deposit address, throws.           *)
DbThrows(r) == "db" \in faults /\ UNCHANGED conversionStatus /\ Throws(r)

Free == {k \in StepJobs : stepJobs[k].job.state \notin {"waiting", "active"}}

(* The jobs after a job for a step of c was added, under the first id that *)
(* no unfinished job has.                                                  *)
WithStep(jobs, c, step) ==
    LET k == CHOOSE k \in Free : \A l \in Free : k <= l
    IN  [jobs EXCEPT ![k] = [c |-> c, step |-> step, job |-> Added]]

---------------------------------------------------------------------------
(* executeConversion                                                       *)

(* Its transaction: one conversion for each payment.  The amount decides   *)
(* whether it is to be sold, on a DEX or at the exchange.                  *)
CreateConversion(i, c) ==
    /\ conversionStatus[c] = "NONE" /\ Idle(i)
    /\ \/ SetStatus(c, "COMPLETED") /\ UNCHANGED method
       \/ /\ SetStatus(c, "PENDING")
          /\ \E m \in {"dex", "cex_binance"} : method' = [method EXCEPT ![c] = m]
    /\ Begins(i, Nobody, c, "disburse")
    /\ UNCHANGED <<feeStatus, stepJobs, sales>>

(* disbursePlatformFee, with OWNER_WALLET_ADDRESS set; what it throws ends *)
(* executeConversion.                                                      *)
DisbursePlatformFee(r) ==
    /\ r.at = "disburse"
    /\ \/ /\ SetFee(r.c, "PENDING")
          /\ IF method[r.c] # "none" THEN Goto(r, "queueSweep") ELSE Ends(r)
       \/ "db" \in faults /\ Ends(r) /\ UNCHANGED feeStatus
    /\ UNCHANGED <<conversionStatus, method, stepJobs, sales>>

(* queueSwapExecution swallows its errors.                                 *)
QueueSwapExecution(r) ==
    /\ r.at = "queueSweep"
    /\ \/ Free # {} /\ stepJobs' = WithStep(stepJobs, r.c, "sweep")
       \/ "redis" \in faults /\ UNCHANGED stepJobs
    /\ Ends(r)
    /\ UNCHANGED <<conversionStatus, method, feeStatus, sales>>

---------------------------------------------------------------------------
(* processFeeDisbursements, for one of the disbursements it has listed     *)

ProcessFeeDisbursements(i, c) ==
    /\ feeStatus[c] = "PENDING" /\ Idle(i)
    /\ Begins(i, Nobody, c, "sendFee")
    /\ UNCHANGED <<conversionStatus, method, feeStatus, stepJobs, sales>>

SendFee(r) ==
    /\ r.at = "sendFee"
    /\ \/ SetFee(r.c, "SENT") /\ Ends(r)
       \/ "db" \in faults /\ UNCHANGED feeStatus /\ Goto(r, "feeFailed")
    /\ UNCHANGED <<conversionStatus, method, stepJobs, sales>>

MarkFeeFailed(r) ==
    /\ r.at = "feeFailed"
    /\ \/ SetFee(r.c, "FAILED")
       \/ "db" \in faults /\ UNCHANGED feeStatus
    /\ Ends(r)
    /\ UNCHANGED <<conversionStatus, method, stepJobs, sales>>

---------------------------------------------------------------------------
(* processConversionJob, and the failed handler                            *)

ProcessConversionJob(i, k) ==
    /\ stepJobs[k].job.state = "waiting" /\ Idle(i)
    /\ stepJobs' = [stepJobs EXCEPT ![k].job = Taken(@, i)]
    /\ Begins(i, k, stepJobs[k].c, "load")
    /\ UNCHANGED <<conversionStatus, method, feeStatus, sales>>

FirstAwait(step) ==
    CASE step = "sweep" -> "readSweep" [] step = "swap" -> "readSwap" [] OTHER -> "readSettle"

LoadConversion(r) ==
    /\ r.at = "load"
    /\ \/ "db" \in faults /\ Throws(r)
       \/ IF conversionStatus[r.c] \in {"COMPLETED", "FAILED"}
          THEN Finishes(r)
          ELSE Proceeds(r, FirstAwait(stepJobs[r.id].step))
    /\ UNCHANGED <<conversionStatus, method, feeStatus, sales>>

QueueNextStep(r) ==
    /\ r.at = "queueNext"
    /\ \/ LET next == IF stepJobs[r.id].step = "sweep" THEN "swap" ELSE "settle"
          IN  /\ Free # {}
              /\ stepJobs' = [WithStep(stepJobs, r.c, next) EXCEPT
                                 ![r.id].job = Removed(@, r.slot)]
              /\ Ends(r)
       \/ "redis" \in faults /\ Throws(r)
    /\ UNCHANGED <<conversionStatus, method, feeStatus, sales>>

ReadSettling(r) ==
    /\ r.at = "readSettle"
    /\ IF conversionStatus[r.c] = "SETTLING" THEN Proceeds(r, "settle") ELSE Finishes(r)
    /\ UNCHANGED <<conversionStatus, method, feeStatus, sales>>

FailConversionJob(r) ==
    /\ r.at = "fail"
    /\ LET job == stepJobs[r.id].job
       IN  /\ stepJobs' = [stepJobs EXCEPT ![r.id].job = Failed(job, r.slot, ConversionAttempts)]
           /\ IF Holds(job, r.slot) /\ Exhausted(job, ConversionAttempts)
              THEN Goto(r, "giveUp")
              ELSE Ends(r)
    /\ UNCHANGED <<conversionStatus, method, feeStatus, sales>>

(* moveToDLQ, and FAILED whatever the status is by now.                    *)
GiveUp(r) ==
    /\ r.at = "giveUp"
    /\ Ends(r)
    /\ \/ SetStatus(r.c, "FAILED")
       \/ faults \cap {"redis", "db"} # {} /\ UNCHANGED conversionStatus
    /\ UNCHANGED <<method, feeStatus, stepJobs, sales>>

---------------------------------------------------------------------------
(* processConversionQueue, and the job settle-completed                    *)

(* What the batch does with a conversion is decided by the listing.        *)
BatchStep == [PENDING |-> "readSweep", SWEEPING |-> "readSwap", SETTLING |-> "settle"]

(* Seeded fault: the batch leaves swept conversions to the jobs.           *)
BatchWithoutSwaps(i, c) ==
    /\ conversionStatus[c] \in {"PENDING", "SETTLING"} /\ Idle(i)
    /\ Begins(i, Nobody, c, BatchStep[conversionStatus[c]])
    /\ UNCHANGED <<conversionStatus, method, feeStatus, stepJobs, sales>>

(* Seeded fault: the batch settles what is still being sold.               *)
BatchSettlesSwaps(i, c) ==
    /\ conversionStatus[c] \in {"PENDING", "SWEEPING", "SWAPPING", "SETTLING"} /\ Idle(i)
    /\ Begins(i, Nobody, c, IF conversionStatus[c] = "SWAPPING"
                            THEN "settle" ELSE BatchStep[conversionStatus[c]])
    /\ UNCHANGED <<conversionStatus, method, feeStatus, stepJobs, sales>>

ProcessConversionQueue(i, c) ==
    /\ conversionStatus[c] \in {"PENDING", "SWEEPING", "SETTLING"} /\ Idle(i)
    /\ Begins(i, Nobody, c, BatchStep[conversionStatus[c]])
    /\ UNCHANGED <<conversionStatus, method, feeStatus, stepJobs, sales>>

---------------------------------------------------------------------------
(* sweepToExchange, executeSwap and settleConversion                       *)

(* The status check, and the look-up of the target address.                *)
ReadForSweep(r) ==
    /\ r.at = "readSweep"
    /\ \/ /\ conversionStatus[r.c] \in {"PENDING", "SWEEPING"}
          /\ Proceeds(r, "markSweep")
       \/ /\ conversionStatus[r.c] \notin {"PENDING", "SWEEPING"}
          /\ Served(r)
       \/ "db" \in faults /\ Throws(r)
    /\ UNCHANGED <<conversionStatus, method, feeStatus, sales>>

MarkSweeping(r) ==
    /\ r.at = "markSweep"
    /\ \/ SetStatus(r.c, "SWEEPING") /\ Served(r)
       \/ DbThrows(r)
    /\ UNCHANGED <<method, feeStatus, sales>>

ReadForSwap(r) ==
    /\ r.at = "readSwap"
    /\ IF conversionStatus[r.c] \in {"SWEEPING", "SWAPPING"}
       THEN Proceeds(r, "markSwap")
       ELSE Served(r)
    /\ UNCHANGED <<conversionStatus, method, feeStatus, sales>>

MarkSwapping(r) ==
    /\ r.at = "markSwap"
    /\ \/ SetStatus(r.c, "SWAPPING") /\ Proceeds(r, "sell")
       \/ DbThrows(r)
    /\ UNCHANGED <<method, feeStatus, sales>>

(* The market order of the exchange; one that throws may have been         *)
(* executed.  On a DEX a quote and an unsigned transaction are fetched and *)
(* dropped: the step succeeds and nothing was sold.                        *)
Sell(r) ==
    /\ r.at = "sell"
    /\ \/ /\ method[r.c] = "cex_binance"
          /\ sales' = [sales EXCEPT ![r.c] = @ + 1]
          /\ Proceeds(r, "markSold") \/ ("node" \in faults /\ Proceeds(r, "swapFailed"))
       \/ method[r.c] # "cex_binance" /\ UNCHANGED sales /\ Proceeds(r, "markSold")
       \/ faults \cap {"node", "db"} # {} /\ UNCHANGED sales /\ Proceeds(r, "swapFailed")
    /\ UNCHANGED <<conversionStatus, method, feeStatus>>

MarkSold(r) ==
    /\ r.at = "markSold"
    /\ \/ SetStatus(r.c, "SETTLING") /\ Served(r)
       \/ "db" \in faults /\ UNCHANGED conversionStatus /\ Proceeds(r, "swapFailed")
    /\ UNCHANGED <<method, feeStatus, sales>>

MarkSwapFailed(r) ==
    /\ r.at = "swapFailed"
    /\ \/ SetStatus(r.c, "FAILED") /\ Throws(r)
       \/ DbThrows(r)
    /\ UNCHANGED <<method, feeStatus, sales>>

Settle(r) ==
    /\ r.at = "settle"
    /\ \/ SetStatus(r.c, "COMPLETED") /\ Finishes(r)
       \/ DbThrows(r)
    /\ UNCHANGED <<method, feeStatus, sales>>

---------------------------------------------------------------------------
ConversionRunDies(r) ==
    /\ "dies" \in faults
    /\ Ends(r)
    /\ UNCHANGED <<conversionStatus, method, feeStatus, stepJobs, sales>>

ConversionStalls(k) ==
    /\ stepJobs[k].job.state = "active"
    /\ \/ "stalls" \in faults
       \/ \A r \in conversionRuns : r.id # k \/ r.slot # stepJobs[k].job.run
    /\ stepJobs' = [stepJobs EXCEPT ![k].job = Stalled(@)]
    /\ UNCHANGED <<conversionStatus, method, feeStatus, conversionRuns, sales>>

ConversionStep(r) ==
    \/ DisbursePlatformFee(r) \/ QueueSwapExecution(r) \/ SendFee(r) \/ MarkFeeFailed(r)
    \/ LoadConversion(r) \/ QueueNextStep(r) \/ ReadSettling(r)
    \/ FailConversionJob(r) \/ GiveUp(r) \/ ReadForSweep(r) \/ MarkSweeping(r)
    \/ ReadForSwap(r) \/ MarkSwapping(r) \/ Sell(r) \/ MarkSold(r) \/ MarkSwapFailed(r)
    \/ Settle(r)

ConversionNext ==
    /\ \/ \E i \in Slots, c \in Conversions :
             CreateConversion(i, c) \/ ProcessConversionQueue(i, c)
                \/ ProcessFeeDisbursements(i, c)
       \/ \E i \in Slots, k \in StepJobs : ProcessConversionJob(i, k)
       \/ \E k \in StepJobs : ConversionStalls(k)
       \/ \E r \in conversionRuns : ConversionStep(r) \/ ConversionRunDies(r)
    /\ UNCHANGED faults

---------------------------------------------------------------------------
(* Properties                                                              *)

(* A conversion that goes through the exchange is reported COMPLETED only  *)
(* if its market order was executed, whichever jobs and batches work on it *)
(* at once and wherever they die.  (Nothing is sold on a DEX.)             *)
CompletedWasSold ==
    \A c \in Conversions :
        conversionStatus[c] = "COMPLETED" /\ method[c] = "cex_binance" => sales[c] > 0

(* While processes live and the database answers, a conversion is          *)
(* completed or failed in the end, though its jobs may never have been     *)
(* queued, and its fee is on its way: the batches catch both.              *)
ConversionEnds ==
    \A c \in Conversions :
        conversionStatus[c] # "NONE" /\ faults \subseteq {"redis", "node"} ~>
            conversionStatus[c] \in {"COMPLETED", "FAILED"} /\ feeStatus[c] = "SENT"
=============================================================================
