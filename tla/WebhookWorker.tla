---------------------------- MODULE WebhookWorker -----------------------------
(***************************************************************************)
(* The BullMQ worker that calls the merchants' webhooks                    *)
(* (src/backend/src/workers/webhook.worker.ts).  The handler itself moves  *)
(* a job to the dead-letter queue when it has failed often enough, before  *)
(* BullMQ records the failure.                                             *)
(***************************************************************************)
EXTENDS JobQueue

CONSTANTS
    WebhookJobs,
    WebhookAttempts,   \* QUEUE_CONFIGS: attempts
    GiveUpAfter        \* the attempt after which the handler gives up, 3 in the code

(* What the composing module assumes of the constants.                     *)
WebhookConstants == WebhookAttempts \in Nat /\ GiveUpAfter \in Nat

VARIABLES
    faults,         \* what may go wrong, a subset of FaultKinds; never changes
    webhookJobs,    \* the queue
    webhookRuns,    \* handlers being executed: [slot, job, made, at]
    enabled,        \* merchant.webhookEnabled, with a URL and a secret
    received,       \* jobs whose webhook was answered with a 2xx status
    deadWebhooks    \* jobs in the dead-letter queue

webhookVars == <<webhookJobs, webhookRuns, enabled, received, deadWebhooks>>

WebhookRun == [slot : Slots, job : WebhookJobs, made : Nat,
               at : {"merchant", "send", "caught", "fail"}]

WebhookTypeOK ==
    /\ webhookJobs \in [WebhookJobs -> Job]
    /\ webhookRuns \in SUBSET WebhookRun
    /\ enabled \in BOOLEAN
    /\ received \in SUBSET WebhookJobs
    /\ deadWebhooks \in SUBSET WebhookJobs

WebhookInit ==
    /\ webhookJobs = [k \in WebhookJobs |-> NoJob]
    /\ webhookRuns = {} /\ received = {} /\ deadWebhooks = {}
    /\ enabled = TRUE

Ends(r) == webhookRuns' = webhookRuns \ {r}
Goto(r, step) == webhookRuns' = (webhookRuns \ {r}) \cup {[r EXCEPT !.at = step]}
Returns(r) ==
    /\ Ends(r)
    /\ webhookJobs' = [webhookJobs EXCEPT ![r.job] = Completed(@, r.slot)]
Proceeds(r, step) == Goto(r, step) /\ UNCHANGED webhookJobs

---------------------------------------------------------------------------
AddWebhook(k) ==
    /\ webhookJobs[k].state = "absent"
    /\ webhookJobs' = [webhookJobs EXCEPT ![k] = Added]
    /\ UNCHANGED <<webhookRuns, enabled, received, deadWebhooks>>

ProcessWebhook(i, k) ==
    /\ webhookJobs[k].state = "waiting"
    /\ \A r \in webhookRuns : r.slot # i
    /\ webhookJobs' = [webhookJobs EXCEPT ![k] = Taken(@, i)]
    /\ webhookRuns' = webhookRuns \cup
          {[slot |-> i, job |-> k, made |-> webhookJobs[k].made, at |-> "merchant"]}
    /\ UNCHANGED <<enabled, received, deadWebhooks>>

(* A merchant without a working configuration drops the webhook.  The      *)
(* look-up is outside the try block.                                       *)
LoadMerchant(r) ==
    /\ r.at = "merchant"
    /\ \/ enabled /\ Proceeds(r, "send")
       \/ ~enabled /\ Returns(r)
       \/ "db" \in faults /\ Proceeds(r, "fail")
    /\ UNCHANGED <<enabled, received, deadWebhooks>>

(* A timeout or a lost answer leaves the merchant with the webhook too.    *)
SendWebhookRequest(r) ==
    /\ r.at = "send"
    /\ \/ received' = received \cup {r.job} /\ Returns(r)
       \/ received' \in {received, received \cup {r.job}} /\ Proceeds(r, "caught")
    /\ UNCHANGED <<enabled, deadWebhooks>>

(* Seeded fault: one attempt too many is waited for.                       *)
CatchLate(r) ==
    /\ r.at = "caught"
    /\ Proceeds(r, "fail")
    /\ deadWebhooks' = IF r.made + 1 > GiveUpAfter THEN deadWebhooks \cup {r.job} ELSE deadWebhooks
    /\ UNCHANGED <<enabled, received>>

(* The catch clause: attemptNumber >= 3.                                   *)
CatchFailure(r) ==
    /\ r.at = "caught"
    /\ Proceeds(r, "fail")
    /\ \/ deadWebhooks' = IF r.made + 1 >= GiveUpAfter
                          THEN deadWebhooks \cup {r.job}
                          ELSE deadWebhooks
       \/ "redis" \in faults /\ UNCHANGED deadWebhooks
    /\ UNCHANGED <<enabled, received>>

FailWebhook(r) ==
    /\ r.at = "fail"
    /\ Ends(r)
    /\ webhookJobs' = [webhookJobs EXCEPT ![r.job] = Failed(@, r.slot, WebhookAttempts)]
    /\ UNCHANGED <<enabled, received, deadWebhooks>>

WebhookRunDies(r) ==
    /\ "dies" \in faults
    /\ Ends(r)
    /\ UNCHANGED <<webhookJobs, enabled, received, deadWebhooks>>

WebhookStalls(k) ==
    /\ webhookJobs[k].state = "active"
    /\ \/ "stalls" \in faults
       \/ \A r \in webhookRuns : r.job # k \/ r.slot # webhookJobs[k].run
    /\ webhookJobs' = [webhookJobs EXCEPT ![k] = Stalled(@)]
    /\ UNCHANGED <<webhookRuns, enabled, received, deadWebhooks>>

MerchantConfigures ==
    /\ enabled' = ~enabled
    /\ UNCHANGED <<webhookJobs, webhookRuns, received, deadWebhooks>>

WebhookStep(r) ==
    \/ LoadMerchant(r) \/ SendWebhookRequest(r) \/ CatchFailure(r) \/ FailWebhook(r)

WebhookNext ==
    /\ \/ \E k \in WebhookJobs : AddWebhook(k) \/ WebhookStalls(k)
       \/ \E i \in Slots, k \in WebhookJobs : ProcessWebhook(i, k)
       \/ \E r \in webhookRuns : WebhookStep(r) \/ WebhookRunDies(r)
       \/ MerchantConfigures
    /\ UNCHANGED faults

---------------------------------------------------------------------------
(* Properties                                                              *)

(* While Redis and the database answer, a webhook BullMQ has given up is   *)
(* in the dead-letter queue, even if one of its runs died or was blocked   *)
(* at any point and its attempts were counted across two processes.        *)
FailedIsDeadLettered ==
    \A k \in WebhookJobs :
        /\ webhookJobs[k].state = "failed" /\ webhookJobs[k].stalls <= 1
        /\ faults \cap {"redis", "db"} = {}
        => k \in deadWebhooks
=============================================================================
