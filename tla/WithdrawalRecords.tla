-------------------------- MODULE WithdrawalRecords --------------------------
(***************************************************************************)
(* The storage the withdrawal services share: the rows of the Prisma       *)
(* table "withdrawals", one merchant's settlement wallet and the Redis     *)
(* list withdrawal:queue.  The approval service and the payout service     *)
(* both extend this module; a composition of the two extends them both.    *)
(***************************************************************************)
EXTENDS Naturals, Sequences, FiniteSets

CONSTANTS
    Withdrawals,      \* identifiers of the withdrawal rows
    NoId,             \* stands for the missing id of an auto-withdraw item
    Amount,           \* Amount[w]: what w takes from the settlement wallet
    InitialBalance    \* the wallet's balance before any withdrawal

ASSUME RecordsAssumption ==
    /\ NoId \notin Withdrawals
    /\ Amount \in [Withdrawals -> Nat \ {0}]
    /\ InitialBalance \in Nat

VARIABLES
    status,     \* withdrawal.status, "NONE" before the row is created
    debited,    \* whether debitBalance took the amount from the wallet
    credits,    \* how many times the amount was given back to the wallet
    balance,    \* wallet.balance
    queue       \* withdrawal:queue, its head is where LPUSH inserts

recordVars == <<status, debited, credits, balance, queue>>

WithdrawalStatus == {"PENDING", "PENDING_APPROVAL", "APPROVED", "PROCESSING",
                     "COMPLETED", "FAILED", "REJECTED"}

(* A queue item.  requestWithdrawal writes every field executeWithdrawal   *)
(* reads; the approval service writes only the two identifiers, and        *)
(* creditBalance's auto-withdraw neither a withdrawalId nor a network or   *)
(* token, so the items of these two are not complete.                      *)
QueueItem ==
    [id : Withdrawals, complete : BOOLEAN] \cup [id : {NoId}, complete : {FALSE}]

RecordsTypeOK ==
    /\ status \in [Withdrawals -> WithdrawalStatus \cup {"NONE"}]
    /\ debited \in [Withdrawals -> BOOLEAN]
    /\ credits \in [Withdrawals -> Nat]
    /\ balance \in Nat
    /\ queue \in Seq(QueueItem)

SetStatus(w, s) == status' = [status EXCEPT ![w] = s]

Lpush(w, complete) ==
    queue' = <<[id |-> w, complete |-> complete]>> \o queue

(* ioredis resends an LPUSH whose reply was lost: the item is there twice. *)
LpushTwice(w, complete) ==
    LET item == [id |-> w, complete |-> complete] IN queue' = <<item, item>> \o queue

(* wallet.updateMany with balance: { increment: amount }.                  *)
Credit(w) ==
    /\ credits' = [credits EXCEPT ![w] = @ + 1]
    /\ balance' = balance + Amount[w]

(* How many items of the queue name w.                                     *)
Queued(w) == Cardinality({i \in DOMAIN queue : queue[i].id = w})
=============================================================================
