--------------------------- MODULE WithdrawalPayout ---------------------------
(***************************************************************************)
(* Requesting and paying out withdrawals                                   *)
(* (src/backend/src/services/withdrawal.service.ts).                       *)
(*                                                                         *)
(* requestWithdrawal creates the row, reserves the funds and pushes an     *)
(* item on withdrawal:queue; every replica polls that list from a timer    *)
(* whose callbacks are not awaited, so several items are executed at the   *)
(* same time.  Each action is the code between two awaits.                 *)
(***************************************************************************)
EXTENDS WithdrawalRecords, Functions

CONSTANTS
    MaxJobs,    \* bound: queue items being executed at the same time
    FaultSets   \* bound: what may go wrong together, sets of FaultKinds

(* crash      a process dies between two awaits, or an RPOP times out in   *)
(*            the client after Redis removed the item                      *)
(* sendFails  sendTransaction throws and nothing was broadcast             *)
(* replyLost  the transaction is broadcast but sendTransaction throws      *)
(* afterSend  the database or the webhook call after a broadcast fails     *)
(* dbFails    any other database call fails                                *)
(* duplicate  the Redis client sends an LPUSH again after a lost reply     *)
(* and what the merchant may have configured:                              *)
(* autoWithdraw  auto-withdraw is on; a credit may reach its threshold     *)
FaultKinds == {"crash", "sendFails", "replyLost", "afterSend", "dbFails", "duplicate",
               "autoWithdraw"}

ASSUME PayoutAssumption ==
    /\ MaxJobs \in Nat
    /\ FaultSets \subseteq SUBSET FaultKinds

VARIABLES
    faults,     \* what may go wrong in this behaviour; never changes
    requests,   \* requestWithdrawal calls being served: [w, at]
    jobs,       \* queue items being executed: [id, w, complete, at]
    onchain     \* onchain[w]: transactions broadcast for w

payoutVars == <<requests, jobs, onchain>>
vars == <<recordVars, payoutVars, faults>>

Request == [w : Withdrawals, at : {"debit", "markFailed", "push"}]

(* id tells apart two items for the same withdrawal executed together.     *)
Job ==
    [id : 1 .. MaxJobs, w : Withdrawals, complete : BOOLEAN,
     at : {"start", "send", "complete", "notify", "fail", "refund", "autoWithdraw"}]
    \cup
    [id : 1 .. MaxJobs, w : {NoId}, complete : {FALSE}, at : {"start", "fail", "refund"}]

TypeOK ==
    /\ RecordsTypeOK
    /\ faults \in FaultSets
    /\ requests \in SUBSET Request
    /\ jobs \in SUBSET Job
    /\ onchain \in [Withdrawals -> Nat]

PayoutInit ==
    /\ status = [w \in Withdrawals |-> "NONE"]
    /\ debited = [w \in Withdrawals |-> FALSE]
    /\ credits = [w \in Withdrawals |-> 0]
    /\ balance = InitialBalance
    /\ queue = <<>>
    /\ faults \in FaultSets
    /\ requests = {}
    /\ jobs = {}
    /\ onchain = [w \in Withdrawals |-> 0]

Init == PayoutInit

---------------------------------------------------------------------------
(* requestWithdrawal                                                       *)

To(r, step) == requests' = (requests \ {r}) \cup {[r EXCEPT !.at = step]}

(* The balance check, the fee estimate and the insertion of the row.  The  *)
(* check may be stale when the row is written; the debit checks again.     *)
RequestWithdrawal(w) ==
    /\ status[w] = "NONE"
    /\ balance >= Amount[w]
    /\ SetStatus(w, "PENDING")
    /\ requests' = requests \cup {[w |-> w, at |-> "debit"]}
    /\ UNCHANGED <<debited, credits, balance, queue, jobs, onchain>>

(* Seeded fault: a debit that finds too little is logged and ignored.      *)
DebitBalanceSwallowed(r) ==
    /\ r.at = "debit"
    /\ IF balance >= Amount[r.w]
       THEN /\ balance' = balance - Amount[r.w]
            /\ debited' = [debited EXCEPT ![r.w] = TRUE]
       ELSE UNCHANGED <<balance, debited>>
    /\ To(r, "push")
    /\ UNCHANGED <<status, credits, queue, jobs, onchain>>

(* walletService.debitBalance: updateMany where balance >= amount.         *)
DebitBalance(r) ==
    /\ r.at = "debit"
    /\ IF balance >= Amount[r.w]
       THEN /\ balance' = balance - Amount[r.w]
            /\ debited' = [debited EXCEPT ![r.w] = TRUE]
            /\ To(r, "push")
       ELSE To(r, "markFailed") /\ UNCHANGED <<balance, debited>>
    /\ UNCHANGED <<status, credits, queue, jobs, onchain>>

(* Seeded fault: an error of the debit is logged and ignored.              *)
DebitThrowsSwallowed(r) ==
    /\ r.at = "debit" /\ "dbFails" \in faults
    /\ To(r, "push")
    /\ UNCHANGED <<recordVars, jobs, onchain>>

(* The debit throws before it touches the wallet.                          *)
DebitThrows(r) ==
    /\ r.at = "debit" /\ "dbFails" \in faults
    /\ To(r, "markFailed")
    /\ UNCHANGED <<recordVars, jobs, onchain>>

MarkDebitFailed(r) ==
    /\ r.at = "markFailed"
    /\ SetStatus(r.w, "FAILED")
    /\ requests' = requests \ {r}
    /\ UNCHANGED <<debited, credits, balance, queue, jobs, onchain>>

(* Seeded fault: the push is always repeated.                              *)
PushRequestTwice(r) ==
    /\ r.at = "push"
    /\ LpushTwice(r.w, TRUE)
    /\ requests' = requests \ {r}
    /\ UNCHANGED <<status, debited, credits, balance, jobs, onchain>>

PushRequest(r) ==
    /\ r.at = "push"
    /\ \/ Lpush(r.w, TRUE)
       \/ "duplicate" \in faults /\ LpushTwice(r.w, TRUE)
    /\ requests' = requests \ {r}
    /\ UNCHANGED <<status, debited, credits, balance, jobs, onchain>>

RequestDies(r) ==
    /\ "crash" \in faults
    /\ requests' = requests \ {r}
    /\ UNCHANGED <<recordVars, jobs, onchain>>

---------------------------------------------------------------------------
(* processWithdrawalQueue and executeWithdrawal                            *)

Goto(j, step) == jobs' = (jobs \ {j}) \cup {[j EXCEPT !.at = step]}
Done(j) == jobs' = jobs \ {j}

(* The timer fires and RPOP returns the oldest item.                       *)
PopQueue(i) ==
    /\ queue # <<>>
    /\ \A j \in jobs : j.id # i
    /\ LET item == queue[Len(queue)]
       IN jobs' = jobs \cup {[id |-> i, w |-> item.id, complete |-> item.complete,
                              at |-> "start"]}
    /\ queue' = SubSeq(queue, 1, Len(queue) - 1)
    /\ UNCHANGED <<status, debited, credits, balance, requests, onchain>>

(* Seeded fault: what an item does not carry is read from the row.         *)
StartExecutionFromRow(j) ==
    /\ j.at = "start"
    /\ SetStatus(j.w, "PROCESSING") /\ Goto(j, "send")
    /\ UNCHANGED <<debited, credits, balance, queue, requests, onchain>>

(* new Decimal(data.amount) throws on an item without an amount, the       *)
(* update of the row on one without an id; otherwise the row is set to     *)
(* PROCESSING, whatever its status was.                                    *)
StartExecution(j) ==
    /\ j.at = "start"
    /\ \/ j.complete /\ SetStatus(j.w, "PROCESSING") /\ Goto(j, "send")
       \/ /\ ~j.complete \/ "dbFails" \in faults
          /\ Goto(j, "fail") /\ UNCHANGED status
    /\ UNCHANGED <<debited, credits, balance, queue, requests, onchain>>

Broadcast(w) == onchain' = [onchain EXCEPT ![w] = @ + 1]

SendTransaction(j) ==
    /\ j.at = "send"
    /\ \/ Broadcast(j.w) /\ Goto(j, "complete")
       \/ "replyLost" \in faults /\ Broadcast(j.w) /\ Goto(j, "fail")
       \/ "sendFails" \in faults /\ UNCHANGED onchain /\ Goto(j, "fail")
    /\ UNCHANGED <<recordVars, requests>>

(* Seeded fault: the status the withdrawal worker writes, not in the enum. *)
MarkBroadcast(j) ==
    /\ j.at = "complete"
    /\ SetStatus(j.w, "BROADCAST") /\ Goto(j, "notify")
    /\ UNCHANGED <<debited, credits, balance, queue, requests, onchain>>

MarkCompleted(j) ==
    /\ j.at = "complete"
    /\ \/ SetStatus(j.w, "COMPLETED") /\ Goto(j, "notify")
       \/ "afterSend" \in faults /\ UNCHANGED status /\ Goto(j, "fail")
    /\ UNCHANGED <<debited, credits, balance, queue, requests, onchain>>

(* The withdrawal.completed webhook and the notifications.                 *)
NotifyCompleted(j) ==
    /\ j.at = "notify"
    /\ \/ Done(j)
       \/ "afterSend" \in faults /\ Goto(j, "fail")
    /\ UNCHANGED <<recordVars, requests, onchain>>

(* Seeded fault: the failure is recorded and the refund forgotten.         *)
MarkFailedUnrefunded(j) ==
    /\ j.at = "fail"
    /\ SetStatus(j.w, "FAILED")
    /\ Done(j)
    /\ UNCHANGED <<debited, credits, balance, queue, requests, onchain>>

(* The rows where: { id, status: { not: FAILED } } matches: Prisma drops   *)
(* an undefined id from the condition, which then matches every row.       *)
NotFailed(j) ==
    {w \in Withdrawals : j.w \in {w, NoId} /\ status[w] \notin {"NONE", "FAILED"}}

(* The catch clause: updateMany, and nothing to give back if no row        *)
(* changed.                                                                *)
MarkFailed(j) ==
    /\ j.at = "fail"
    /\ \/ /\ NotFailed(j) # {} /\ Goto(j, "refund")
          /\ status' = [w \in Withdrawals |-> IF w \in NotFailed(j) THEN "FAILED" ELSE status[w]]
       \/ /\ NotFailed(j) = {} \/ "dbFails" \in faults
          /\ Done(j) /\ UNCHANGED status
    /\ UNCHANGED <<debited, credits, balance, queue, requests, onchain>>

(* creditBalance, the wallet's update.  It does not get there for an item  *)
(* that lacks the amount or the network and token.                         *)
RefundFailed(j) ==
    /\ j.at = "refund"
    /\ \/ /\ j.complete /\ Credit(j.w)
          /\ IF "autoWithdraw" \in faults THEN Goto(j, "autoWithdraw") ELSE Done(j)
       \/ /\ ~j.complete \/ "dbFails" \in faults
          /\ Done(j) /\ UNCHANGED <<credits, balance>>
    /\ UNCHANGED <<status, debited, queue, requests, onchain>>

(* The rest of creditBalance: the balance is read again and, if it reaches *)
(* the threshold the merchant set, an item without an id is pushed.        *)
AutoWithdraw(j) ==
    /\ j.at = "autoWithdraw"
    /\ Done(j)
    /\ \/ UNCHANGED queue
       \/ Lpush(NoId, FALSE)
       \/ "duplicate" \in faults /\ LpushTwice(NoId, FALSE)
    /\ UNCHANGED <<status, debited, credits, balance, requests, onchain>>

JobDies(j) ==
    /\ "crash" \in faults
    /\ Done(j)
    /\ UNCHANGED <<recordVars, requests, onchain>>

RequestStep(r) == DebitBalance(r) \/ DebitThrows(r) \/ MarkDebitFailed(r) \/ PushRequest(r)

JobStep(j) ==
    \/ StartExecution(j) \/ SendTransaction(j) \/ MarkCompleted(j)
    \/ NotifyCompleted(j) \/ MarkFailed(j) \/ RefundFailed(j) \/ AutoWithdraw(j)

Next ==
    /\ \/ \E w \in Withdrawals : RequestWithdrawal(w)
       \/ \E r \in requests : RequestStep(r) \/ RequestDies(r)
       \/ \E i \in 1 .. MaxJobs : PopQueue(i)
       \/ \E j \in jobs : JobStep(j) \/ JobDies(j)
    /\ UNCHANGED faults

stepVars == <<recordVars, payoutVars>>

(* Promises settle and the timer keeps firing while the process lives.     *)
Fairness ==
    /\ \A w \in Withdrawals : WF_stepVars(\E r \in requests : r.w = w /\ RequestStep(r))
    /\ WF_stepVars(\E i \in 1 .. MaxJobs : PopQueue(i))
    /\ \A i \in 1 .. MaxJobs : WF_stepVars(\E j \in jobs : j.id = i /\ JobStep(j))

Spec == Init /\ [][Next]_vars
FairSpec == Spec /\ Fairness

---------------------------------------------------------------------------
(* Properties                                                              *)

(* Sent once and known to be sent: no reply of the blockchain node or of   *)
(* Redis is lost, and what follows a broadcast succeeds.                   *)
SendsAreKnown == faults \cap {"replyLost", "afterSend", "duplicate"} = {}

(* What was sent to the blockchain and what the merchant can still         *)
(* withdraw never exceed the balance the merchant started with, however    *)
(* the requests race for the last of it and wherever a request dies.       *)
Solvent ==
    SendsAreKnown =>
        balance + SumFunction([w \in Withdrawals |-> onchain[w] * Amount[w]]) <= InitialBalance

(* A withdrawal is settled at most once: sent, or given back, never both,  *)
(* and neither unless its funds had been reserved.                         *)
SettledAtMostOnce ==
    SendsAreKnown =>
        \A w \in Withdrawals :
            onchain[w] + credits[w] <= (IF debited[w] THEN 1 ELSE 0)

(* An auto-withdraw item marked the row of w FAILED while w was on its way, *)
(* and now w's own transaction has failed: its catch clause finds no row   *)
(* to mark and gives nothing back.                                         *)
LosesRefund(w) ==
    /\ "autoWithdraw" \in faults /\ status[w] = "FAILED"
    /\ \E j \in jobs : j.w = w /\ j.at = "fail"

(* Funds that were reserved are eventually sent or given back, as long as  *)
(* the processes live and the database answers, even if two executions of  *)
(* the same item change the row's status under each other.  The one way    *)
(* to lose them is a transaction that fails for good after an auto-        *)
(* withdraw item marked every row FAILED.                                  *)
ReservedIsSettled ==
    \A w \in Withdrawals :
        \/ <>LosesRefund(w)
        \/ debited[w] /\ faults \cap {"crash", "dbFails"} = {} ~> onchain[w] > 0 \/ credits[w] > 0
=============================================================================
