--------------------------- MODULE WebhookDelivery -----------------------------
(***************************************************************************)
(* The webhooks the API process sends itself                               *)
(* (src/backend/src/services/webhook.service.ts).  An event is queued in   *)
(* Redis, once for each webhook subscribed to it, and the dispatcher then  *)
(* starts a run over the queue that nobody waits for.  Retries are timers  *)
(* of the process.                                                         *)
(***************************************************************************)
EXTENDS Integers, Sequences, FiniteSets

CONSTANTS
    Events,       \* bound: calls of dispatch(), numbered from 1
    Webhooks,     \* webhooks of the merchant
    Subscriptions,\* bound: possible sets of pairs of an event and a webhook
                  \* subscribed to it
    MaxRetries,   \* MAX_RETRIES
    DisableAt     \* failures after which a webhook is disabled, 10 in the code

Timer == 0

(* What the composing module assumes of the constants.                     *)
DeliveryConstants ==
    /\ Events \subseteq Nat \ {Timer}
    /\ Subscriptions \subseteq SUBSET (Events \X Webhooks)
    /\ MaxRetries \in Nat \ {0} /\ DisableAt \in Nat \ {0}

VARIABLES
    faults,          \* what may go wrong; never changes
    subscribed,      \* webhook.events, for the events of the model; never changes
    dispatched,      \* event -> where its dispatch and then its run over the
                     \* queue is
    toPush,          \* event -> webhooks dispatch() has found and not queued
    deliveryQueue,   \* webhook:delivery:queue
    delivery,        \* item -> [at, attempt, by]
    webhookFailures, \* webhook.failureCount
    isActive,
    deleted          \* webhooks the merchant has deleted

deliveryVars ==
    <<dispatched, toPush, deliveryQueue, delivery, webhookFailures, isActive, deleted>>

Items == Events \X Webhooks

DeliverySteps == {"none", "queued", "send", "record", "log", "failed", "timer",
                  "count", "check", "disable", "delivered", "exhausted", "lost"}

DeliveryTypeOK ==
    /\ subscribed \in Subscriptions
    /\ dispatched \in [Events -> {"no", "push", "pop", "busy", "more", "ended"}]
    /\ toPush \in [Events -> SUBSET Webhooks]
    /\ deliveryQueue \in Seq(Items)
    /\ delivery \in [Items -> [at : DeliverySteps, attempt : 0..MaxRetries - 1,
                               by : Events \cup {Timer}]]
    /\ webhookFailures \in [Webhooks -> Nat]
    /\ isActive \in [Webhooks -> BOOLEAN]
    /\ deleted \in SUBSET Webhooks

DeliveryInit ==
    /\ subscribed \in Subscriptions
    /\ dispatched = [e \in Events |-> "no"]
    /\ toPush = [e \in Events |-> {}]
    /\ deliveryQueue = <<>>
    /\ delivery = [i \in Items |-> [at |-> "none", attempt |-> 0, by |-> Timer]]
    /\ webhookFailures = [w \in Webhooks |-> 0]
    /\ isActive = [w \in Webhooks |-> TRUE]
    /\ deleted = {}

Runs(e, step) == dispatched' = [dispatched EXCEPT ![e] = step]

---------------------------------------------------------------------------
(* dispatch() and processDeliveryQueue()                                   *)

Dispatch(e) ==
    /\ dispatched[e] = "no"
    /\ Runs(e, "push")
    /\ toPush' = [toPush EXCEPT ![e] = {w \in Webhooks \ deleted : isActive[w] /\ <<e, w>> \in subscribed}]
    /\ UNCHANGED <<deliveryQueue, delivery, webhookFailures, isActive, deleted>>

PushDelivery(e, w) ==
    /\ dispatched[e] = "push" /\ w \in toPush[e]
    /\ toPush' = [toPush EXCEPT ![e] = @ \ {w}]
    /\ deliveryQueue' = Append(deliveryQueue, <<e, w>>)
    /\ delivery' = [delivery EXCEPT ![<<e, w>>].at = "queued"]
    /\ UNCHANGED <<dispatched, webhookFailures, isActive>>

StartRun(e) ==
    /\ dispatched[e] = "push" /\ toPush[e] = {}
    /\ Runs(e, "pop")
    /\ UNCHANGED <<toPush, deliveryQueue, delivery, webhookFailures, isActive>>

PopDelivery(e) ==
    /\ dispatched[e] = "pop"
    /\ IF deliveryQueue = <<>>
       THEN Runs(e, "ended") /\ UNCHANGED <<deliveryQueue, delivery>>
       ELSE /\ Runs(e, "busy")
            /\ deliveryQueue' = Tail(deliveryQueue)
            /\ delivery' = [delivery EXCEPT ![Head(deliveryQueue)].at = "send",
                                            ![Head(deliveryQueue)].by = e]
    /\ UNCHANGED <<toPush, webhookFailures, isActive>>

(* Seeded fault: the last item is taken for the one just delivered.        *)
CheckMoreThanOne(e) ==
    /\ dispatched[e] = "more"
    /\ Runs(e, IF Len(deliveryQueue) > 1 THEN "pop" ELSE "ended")
    /\ UNCHANGED <<toPush, deliveryQueue, delivery, webhookFailures, isActive>>

CheckRemaining(e) ==
    /\ dispatched[e] = "more"
    /\ Runs(e, IF Len(deliveryQueue) > 0 THEN "pop" ELSE "ended")
    /\ UNCHANGED <<toPush, deliveryQueue, delivery, webhookFailures, isActive>>

RunStep(e) ==
    /\ \/ StartRun(e) \/ PopDelivery(e) \/ CheckRemaining(e)
       \/ \E w \in Webhooks : PushDelivery(e, w)
    /\ UNCHANGED deleted

RedisThrows(e) ==
    /\ "redis" \in faults
    /\ dispatched[e] \in {"push", "pop", "more"}
    /\ Runs(e, "ended")
    /\ toPush' = [toPush EXCEPT ![e] = {}]
    /\ UNCHANGED <<deliveryQueue, delivery, webhookFailures, isActive, deleted>>

---------------------------------------------------------------------------
(* deliver()                                                               *)

StepTo(i, step) ==
    /\ delivery' = [delivery EXCEPT ![i].at = step]
    /\ UNCHANGED dispatched

(* deliver() returns or throws: a run over the queue goes on or ends.      *)
Leaves(i, step, next) ==
    /\ delivery' = [delivery EXCEPT ![i].at = step, ![i].by = Timer]
    /\ dispatched' = IF delivery[i].by = Timer
                     THEN dispatched
                     ELSE [dispatched EXCEPT ![delivery[i].by] = next]

Returns(i, step) == Leaves(i, step, "more")

(* A row of a deleted webhook cannot be updated, and none can refer to it. *)
CanWrite(i) == i[2] \notin deleted
CanFail(i) == "db" \in faults \/ i[2] \in deleted

Throws(i) == CanFail(i) /\ Leaves(i, "lost", "ended")

Post(i) ==
    /\ delivery[i].at = "send"
    /\ \E step \in {"record", "failed"} : StepTo(i, step)
    /\ UNCHANGED <<webhookFailures, isActive>>

RecordSuccess(i) ==
    /\ delivery[i].at = "record"
    /\ \/ /\ CanWrite(i) /\ StepTo(i, "log")
          /\ webhookFailures' = [webhookFailures EXCEPT ![i[2]] = 0]
       \/ CanFail(i) /\ StepTo(i, "failed") /\ UNCHANGED webhookFailures
    /\ UNCHANGED isActive

LogSuccess(i) ==
    /\ delivery[i].at = "log"
    /\ \/ CanWrite(i) /\ Returns(i, "delivered")
       \/ CanFail(i) /\ StepTo(i, "failed")
    /\ UNCHANGED <<webhookFailures, isActive>>

(* Seeded fault: every failed attempt counts as a failed delivery.         *)
LogAndCountFailure(i) ==
    /\ delivery[i].at = "failed"
    /\ \/ /\ CanWrite(i) /\ delivery[i].attempt < MaxRetries - 1 /\ Returns(i, "timer")
          /\ webhookFailures' = [webhookFailures EXCEPT ![i[2]] = @ + 1]
       \/ /\ CanWrite(i) /\ delivery[i].attempt >= MaxRetries - 1 /\ StepTo(i, "count")
          /\ UNCHANGED webhookFailures
       \/ Throws(i) /\ UNCHANGED webhookFailures
    /\ UNCHANGED isActive

(* Seeded fault: one retry too many.                                       *)
LogFailureLate(i) ==
    /\ delivery[i].at = "failed"
    /\ \/ CanWrite(i) /\ delivery[i].attempt < MaxRetries /\ Returns(i, "timer")
       \/ CanWrite(i) /\ delivery[i].attempt >= MaxRetries /\ StepTo(i, "count")
       \/ Throws(i)
    /\ UNCHANGED <<webhookFailures, isActive>>

(* The catch clause; what it throws is not caught.                         *)
LogFailure(i) ==
    /\ delivery[i].at = "failed"
    /\ \/ CanWrite(i) /\ delivery[i].attempt < MaxRetries - 1 /\ Returns(i, "timer")
       \/ CanWrite(i) /\ delivery[i].attempt >= MaxRetries - 1 /\ StepTo(i, "count")
       \/ Throws(i)
    /\ UNCHANGED <<webhookFailures, isActive>>

RetryTimer(i) ==
    /\ delivery[i].at = "timer"
    /\ delivery' = [delivery EXCEPT ![i].at = "send", ![i].attempt = @ + 1]
    /\ UNCHANGED <<dispatched, webhookFailures, isActive>>

CountFailure(i) ==
    /\ delivery[i].at = "count"
    /\ \/ /\ CanWrite(i) /\ StepTo(i, "check")
          /\ webhookFailures' = [webhookFailures EXCEPT ![i[2]] = @ + 1]
       \/ Throws(i) /\ UNCHANGED webhookFailures
    /\ UNCHANGED isActive

(* A deleted webhook is not found, and that is all.                        *)
CheckFailures(i) ==
    /\ delivery[i].at = "check"
    /\ \/ CanWrite(i) /\ webhookFailures[i[2]] >= DisableAt /\ StepTo(i, "disable")
       \/ /\ CanWrite(i) => webhookFailures[i[2]] < DisableAt
          /\ Returns(i, "exhausted")
       \/ "db" \in faults /\ Leaves(i, "lost", "ended")
    /\ UNCHANGED <<webhookFailures, isActive>>

Disable(i) ==
    /\ delivery[i].at = "disable"
    /\ \/ CanWrite(i) /\ Returns(i, "exhausted") /\ isActive' = [isActive EXCEPT ![i[2]] = FALSE]
       \/ Throws(i) /\ UNCHANGED isActive
    /\ UNCHANGED webhookFailures

DeliverStep(i) ==
    /\ \/ Post(i) \/ RecordSuccess(i) \/ LogSuccess(i) \/ LogFailure(i) \/ RetryTimer(i)
       \/ CountFailure(i) \/ CheckFailures(i) \/ Disable(i)
    /\ UNCHANGED <<toPush, deliveryQueue, deleted>>

---------------------------------------------------------------------------
(* The process dies with its runs and its timers; the queue stays.         *)
ProcessDies ==
    /\ "dies" \in faults
    /\ dispatched' = [e \in Events |-> IF dispatched[e] = "no" THEN "no" ELSE "ended"]
    /\ toPush' = [e \in Events |-> {}]
    /\ delivery' = [i \in Items |->
          IF delivery[i].at \in {"none", "queued", "delivered", "exhausted"}
          THEN delivery[i]
          ELSE [delivery[i] EXCEPT !.at = "lost", !.by = Timer]]
    /\ UNCHANGED <<deliveryQueue, webhookFailures, isActive, deleted>>

(* updateWebhook(): the merchant turns a webhook on or off.                *)
UpdateWebhook(w) ==
    /\ w \notin deleted
    /\ isActive' = [isActive EXCEPT ![w] = ~@]
    /\ UNCHANGED <<dispatched, toPush, deliveryQueue, delivery, webhookFailures, deleted>>

(* deleteWebhook(): what is queued for it stays, and so do its retries.    *)
DeleteWebhook(w) ==
    /\ "deletes" \in faults
    /\ deleted = {}   \* bound: one webhook is deleted
    /\ deleted' = {w}
    /\ UNCHANGED <<dispatched, toPush, deliveryQueue, delivery, webhookFailures, isActive>>

DeliveryNext ==
    /\ \/ \E e \in Events : Dispatch(e) \/ RunStep(e) \/ RedisThrows(e)
       \/ \E i \in Items : DeliverStep(i)
       \/ \E w \in Webhooks : UpdateWebhook(w) \/ DeleteWebhook(w)
       \/ ProcessDies
    /\ UNCHANGED <<faults, subscribed>>

---------------------------------------------------------------------------
(* Properties                                                              *)

(* A delivery disables its webhook only after DisableAt deliveries to it   *)
(* have each failed MaxRetries times, whatever the merchant, the retries   *)
(* and the successes in between do.                                        *)
Exhausted(w) ==
    {e \in Events : /\ delivery[<<e, w>>].at \in {"check", "disable", "exhausted", "lost"}
                    /\ delivery[<<e, w>>].attempt = MaxRetries - 1}

DisabledOnlyAfterExhausted ==
    [][\A w \in Webhooks :
          isActive[w] /\ ~isActive'[w] /\ delivery' # delivery =>
              Cardinality(Exhausted(w)) >= DisableAt]_deliveryVars

(* While the process lives, Redis and the database answer and no webhook   *)
(* is deleted, what is queued reaches the merchant or is given up after    *)
(* its last attempt, once no more events are dispatched.  A deleted        *)
(* webhook ends the run that reaches a delivery to it, and those to others *)
(* wait for the next event.                                                *)
Ended == \A i \in Items : delivery[i].at \in {"none", "delivered", "exhausted"}

DeliveriesEnd == <>[](Ended \/ faults # {})
=============================================================================
