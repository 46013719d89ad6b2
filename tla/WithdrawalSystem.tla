--------------------------- MODULE WithdrawalSystem ---------------------------
(***************************************************************************)
(* The approval service and the payout service over the same rows, wallet  *)
(* and queue.  Both push on withdrawal:queue: requestWithdrawal an item    *)
(* with all the fields executeWithdrawal reads, the approval service an    *)
(* item without an amount.  Nothing in src calls submitForApproval; the    *)
(* composition lets the caller its comment names call it once the funds    *)
(* are reserved.                                                           *)
(***************************************************************************)
EXTENDS WithdrawalRecords

CONSTANTS Admins, SuperAdmins, Submitter, AmountUsd, Thresholds, MaxCalls,
          MayAbort, MaxJobs, FaultSets

ASSUME SystemAssumption ==
    /\ SuperAdmins \subseteq Admins
    /\ IsFiniteSet(Admins)
    /\ Submitter \notin Admins
    /\ AmountUsd \in [Withdrawals -> Nat]
    /\ Thresholds \subseteq [autoApproveLimit : Nat, singleApprovalLimit : Nat,
                             requiredApprovals : Nat \ {0, 1}]
    /\ \A t \in Thresholds : t.autoApproveLimit < t.singleApprovalLimit
    /\ MaxCalls \in Nat
    /\ MayAbort \in BOOLEAN
    /\ MaxJobs \in Nat
    /\ FaultSets \subseteq SUBSET {"crash", "sendFails", "replyLost", "afterSend",
                                  "dbFails", "duplicate", "autoWithdraw"}

VARIABLES approvalStatus, required, current, coolingKey, cooling, approvedBy,
          rejectedBy, overriddenBy, calls, faults, requests, jobs, onchain

Approval == INSTANCE WithdrawalApproval
Payout == INSTANCE WithdrawalPayout

approvalVars == <<approvalStatus, required, current, coolingKey, cooling,
                  approvedBy, rejectedBy, overriddenBy, calls>>
payoutVars == <<faults, requests, jobs, onchain>>
vars == <<recordVars, approvalVars, payoutVars>>

Init == Payout!Init /\ Approval!ApprovalInit

Next ==
    \/ Approval!Next /\ UNCHANGED payoutVars
    \/ Payout!Next /\ UNCHANGED approvalVars

Spec == Init /\ [][Next]_vars

---------------------------------------------------------------------------
(* Properties                                                              *)

(* A withdrawal that is both pushed by requestWithdrawal and queued again  *)
(* by its approval, or by any number of overrides, is broadcast at most    *)
(* once.                                                                   *)
SentAtMostOnce == \A w \in Withdrawals : onchain[w] <= 1

(* Nothing is sent or given back for a withdrawal whose funds were never   *)
(* reserved, although emergencyApprove queues any withdrawal there is.     *)
SettlementReserved ==
    \A w \in Withdrawals : onchain[w] > 0 \/ credits[w] > 0 => debited[w]

(* A withdrawal too large for automatic approval is sent only after an     *)
(* administrator approved it.                                              *)
LargePayoutApproved ==
    \A w \in Withdrawals :
        /\ onchain[w] > 0
        /\ \A t \in Thresholds : AmountUsd[w] >= t.autoApproveLimit
        => approvedBy[w] # {}
=============================================================================
