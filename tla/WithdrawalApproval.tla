-------------------------- MODULE WithdrawalApproval --------------------------
(***************************************************************************)
(* Multi-signature approval of withdrawals                                 *)
(* (src/backend/src/services/withdrawal-approval.service.ts).              *)
(*                                                                         *)
(* Every service method is an async function: other requests run at each   *)
(* of its awaits, in this process and in the other replicas.  A request    *)
(* being served is a record of the set calls that says which await it      *)
(* reached and what it read before; each action is the code between two    *)
(* awaits that touch shared state.  Two calls that agree on every field    *)
(* are one element of calls: before its approval row is written the second *)
(* one could only fail on the unique index of withdrawal_approvals, and    *)
(* afterwards the index lets only one exist.                               *)
(***************************************************************************)
EXTENDS WithdrawalRecords

CONSTANTS
    Admins,        \* administrators that hold the approve and reject permission
    SuperAdmins,   \* those that may call emergencyApprove
    Submitter,     \* the service that calls submitForApproval
    AmountUsd,     \* AmountUsd[w]: the withdrawal's value in USD
    Thresholds,    \* approval thresholds that may be in force
    MaxCalls,      \* bound: requests being served at the same time
    MayAbort       \* whether a request may die at an await

ASSUME ApprovalAssumption ==
    /\ SuperAdmins \subseteq Admins
    /\ IsFiniteSet(Admins)
    /\ Submitter \notin Admins
    /\ AmountUsd \in [Withdrawals -> Nat]
    /\ Thresholds \subseteq [autoApproveLimit : Nat, singleApprovalLimit : Nat,
                             requiredApprovals : Nat \ {0, 1}]
    /\ \A t \in Thresholds : t.autoApproveLimit < t.singleApprovalLimit
    /\ MaxCalls \in Nat
    /\ MayAbort \in BOOLEAN

VARIABLES
    approvalStatus,  \* withdrawal.approvalStatus
    required,        \* withdrawal.requiredApprovals
    current,         \* withdrawal.currentApprovals
    coolingKey,      \* whether the Redis key withdrawal:cooling:<id> exists
    cooling,         \* the cooling period itself: "none", "running" or "over"
    approvedBy,      \* withdrawal_approvals rows with action APPROVED
    rejectedBy,      \* withdrawal_approvals rows with action REJECTED
    overriddenBy,    \* the APPROVED rows written by emergencyApprove
    calls            \* the requests being served

rowVars == <<approvedBy, rejectedBy, overriddenBy>>
coolingVars == <<coolingKey, cooling>>
fieldVars == <<approvalStatus, required, current>>
approvalVars == <<fieldVars, coolingVars, rowVars, calls>>
vars == <<recordVars, approvalVars>>

ApprovalStatus == {"NONE", "PENDING", "AUTO_APPROVED", "FULLY_APPROVED",
                   "REJECTED", "EMERGENCY_OVERRIDE"}

(* op is the method, at the next thing the call does, seen and need the    *)
(* currentApprovals and requiredApprovals it read.                         *)
Operation == {"submit", "approve", "reject", "override"}
Await == {"autoApprove", "startCooling", "publish", "checkCooling", "record",
          "finish", "count", "enqueue", "update", "refund", "delCooling"}
Call == {c \in [op : Operation, at : Await, w : Withdrawals,
               admin : Admins \cup {Submitter}, seen : Nat, need : Nat] :
            c.op = "submit" <=> c.admin = Submitter}

TypeOK ==
    /\ RecordsTypeOK
    /\ approvalStatus \in [Withdrawals -> ApprovalStatus]
    /\ required \in [Withdrawals -> Nat]
    /\ current \in [Withdrawals -> Nat]
    /\ coolingKey \in [Withdrawals -> BOOLEAN]
    /\ cooling \in [Withdrawals -> {"none", "running", "over"}]
    /\ approvedBy \in [Withdrawals -> SUBSET Admins]
    /\ rejectedBy \in [Withdrawals -> SUBSET Admins]
    /\ overriddenBy \in [Withdrawals -> SUBSET Admins]
    /\ calls \in SUBSET Call

ApprovalInit ==
    /\ approvalStatus = [w \in Withdrawals |-> "NONE"]
    /\ required = [w \in Withdrawals |-> 0]
    /\ current = [w \in Withdrawals |-> 0]
    /\ coolingKey = [w \in Withdrawals |-> FALSE]
    /\ cooling = [w \in Withdrawals |-> "none"]
    /\ approvedBy = [w \in Withdrawals |-> {}]
    /\ rejectedBy = [w \in Withdrawals |-> {}]
    /\ overriddenBy = [w \in Withdrawals |-> {}]
    /\ calls = {}

(* The service on its own starts from rows whose funds are reserved: what  *)
(* requestWithdrawal leaves behind.                                        *)
Init ==
    /\ status = [w \in Withdrawals |-> "PENDING"]
    /\ debited = [w \in Withdrawals |-> TRUE]
    /\ credits = [w \in Withdrawals |-> 0]
    /\ balance = InitialBalance
    /\ queue = <<>>
    /\ ApprovalInit

Begin(c) ==
    /\ Cardinality(calls) < MaxCalls
    /\ calls' = calls \cup {c}
Advance(c, step) == calls' = (calls \ {c}) \cup {[c EXCEPT !.at = step]}
Return(c) == calls' = calls \ {c}

(* requiredApprovals || 1, as approveWithdrawal and emergencyApprove read it *)
OrOne(n) == IF n = 0 THEN 1 ELSE n

---------------------------------------------------------------------------
(* submitForApproval                                                       *)

RequiredApprovals(usd, t) ==
    [autoApprove |-> usd < t.autoApproveLimit,
     requiredCount |-> IF usd < t.autoApproveLimit THEN 0
                       ELSE IF usd < t.singleApprovalLimit THEN 1
                       ELSE t.requiredApprovals,
     requiresCooling |-> usd >= t.autoApproveLimit /\ usd >= t.singleApprovalLimit]

SubmitForApproval(w, t) ==
    /\ status[w] = "PENDING" /\ debited[w]
    /\ \A c \in calls : c.op = "submit" => c.w # w
    /\ LET r == RequiredApprovals(AmountUsd[w], t)
       IN Begin([op |-> "submit",
                 at |-> IF r.autoApprove THEN "autoApprove"
                        ELSE IF r.requiresCooling THEN "startCooling" ELSE "publish",
                 w |-> w, admin |-> Submitter,
                 seen |-> 0, need |-> r.requiredCount])
    /\ UNCHANGED <<recordVars, fieldVars, coolingVars, rowVars>>

(* Seeded fault: the value of approvalStatus written to status.            *)
AutoApproveSwapsFields(c) ==
    /\ c.at = "autoApprove"
    /\ SetStatus(c.w, "AUTO_APPROVED")
    /\ approvalStatus' = [approvalStatus EXCEPT ![c.w] = "AUTO_APPROVED"]
    /\ Return(c)
    /\ UNCHANGED <<debited, credits, balance, queue, required, current,
                   coolingVars, rowVars>>

AutoApprove(c) ==
    /\ c.at = "autoApprove"
    /\ SetStatus(c.w, "APPROVED")
    /\ approvalStatus' = [approvalStatus EXCEPT ![c.w] = "AUTO_APPROVED"]
    /\ required' = [required EXCEPT ![c.w] = 0]
    /\ current' = [current EXCEPT ![c.w] = 0]
    /\ Return(c)
    /\ UNCHANGED <<debited, credits, balance, queue, coolingVars, rowVars>>

StartCooling(c) ==
    /\ c.at = "startCooling"
    /\ coolingKey' = [coolingKey EXCEPT ![c.w] = TRUE]
    /\ cooling' = [cooling EXCEPT ![c.w] = "running"]
    /\ Advance(c, "publish")
    /\ UNCHANGED <<recordVars, fieldVars, rowVars>>

PublishPending(c) ==
    /\ c.at = "publish"
    /\ SetStatus(c.w, "PENDING_APPROVAL")
    /\ approvalStatus' = [approvalStatus EXCEPT ![c.w] = "PENDING"]
    /\ required' = [required EXCEPT ![c.w] = c.need]
    /\ current' = [current EXCEPT ![c.w] = 0]
    /\ Return(c)
    /\ UNCHANGED <<debited, credits, balance, queue, coolingVars, rowVars>>

---------------------------------------------------------------------------
(* approveWithdrawal                                                       *)

ApproveWithdrawal(w, a) ==
    /\ status[w] = "PENDING_APPROVAL"
    /\ Begin([op |-> "approve", at |-> "checkCooling", w |-> w, admin |-> a,
              seen |-> current[w], need |-> OrOne(required[w])])
    /\ UNCHANGED <<recordVars, fieldVars, coolingVars, rowVars>>

(* Seeded fault: the key is read and ignored.                              *)
CheckCoolingIgnored(c) ==
    /\ c.at = "checkCooling"
    /\ Advance(c, "record")
    /\ UNCHANGED <<recordVars, fieldVars, coolingVars, rowVars>>

CheckCooling(c) ==
    /\ c.at = "checkCooling"
    /\ IF coolingKey[c.w] THEN Return(c) ELSE Advance(c, "record")
    /\ UNCHANGED <<recordVars, fieldVars, coolingVars, rowVars>>

(* Seeded faults: no look-up and no unique index, so that one              *)
(* administrator counts twice; > in the place of >=.                       *)
RecordApprovalTwice(c) ==
    /\ c.op = "approve" /\ c.at = "record"
    /\ approvedBy' = [approvedBy EXCEPT ![c.w] = @ \cup {c.admin}]
    /\ Advance(c, IF c.seen + 1 >= c.need THEN "finish" ELSE "count")
    /\ UNCHANGED <<recordVars, fieldVars, coolingVars, rejectedBy, overriddenBy>>

RecordApprovalStrict(c) ==
    /\ c.op = "approve" /\ c.at = "record"
    /\ c.admin \notin approvedBy[c.w]
    /\ approvedBy' = [approvedBy EXCEPT ![c.w] = @ \cup {c.admin}]
    /\ Advance(c, IF c.seen + 1 > c.need THEN "finish" ELSE "count")
    /\ UNCHANGED <<recordVars, fieldVars, coolingVars, rejectedBy, overriddenBy>>

(* The look-up of an earlier approval and the insertion are two awaits, but *)
(* the unique index makes the insertion fail exactly when the look-up       *)
(* would: rows are never deleted.                                           *)
RecordApproval(c) ==
    /\ c.op = "approve" /\ c.at = "record"
    /\ IF c.admin \in approvedBy[c.w]
       THEN Return(c) /\ UNCHANGED approvedBy
       ELSE /\ approvedBy' = [approvedBy EXCEPT ![c.w] = @ \cup {c.admin}]
            /\ Advance(c, IF c.seen + 1 >= c.need THEN "finish" ELSE "count")
    /\ UNCHANGED <<recordVars, fieldVars, coolingVars, rejectedBy, overriddenBy>>

(* Seeded fault: the approved withdrawal is not queued.                    *)
FullyApproveUnqueued(c) ==
    /\ c.at = "finish"
    /\ SetStatus(c.w, "APPROVED")
    /\ approvalStatus' = [approvalStatus EXCEPT ![c.w] = "FULLY_APPROVED"]
    /\ Return(c)
    /\ UNCHANGED <<debited, credits, balance, queue, required, current,
                   coolingVars, rowVars>>

FullyApprove(c) ==
    /\ c.at = "finish"
    /\ SetStatus(c.w, "APPROVED")
    /\ approvalStatus' = [approvalStatus EXCEPT ![c.w] = "FULLY_APPROVED"]
    /\ current' = [current EXCEPT ![c.w] = c.seen + 1]
    /\ Advance(c, "enqueue")
    /\ UNCHANGED <<debited, credits, balance, queue, required, coolingVars, rowVars>>

CountApproval(c) ==
    /\ c.at = "count"
    /\ current' = [current EXCEPT ![c.w] = c.seen + 1]
    /\ Return(c)
    /\ UNCHANGED <<recordVars, approvalStatus, required, coolingVars, rowVars>>

(* Shared by approveWithdrawal and emergencyApprove: their last await.     *)
Enqueue(c) ==
    /\ c.at = "enqueue"
    /\ Lpush(c.w, FALSE)
    /\ Return(c)
    /\ UNCHANGED <<status, debited, credits, balance, fieldVars, coolingVars, rowVars>>

---------------------------------------------------------------------------
(* rejectWithdrawal                                                        *)

(* Seeded fault: no row is written.                                        *)
RejectUnrecorded(w, a) ==
    /\ status[w] = "PENDING_APPROVAL"
    /\ Begin([op |-> "reject", at |-> "update", w |-> w, admin |-> a,
              seen |-> 0, need |-> 0])
    /\ UNCHANGED <<recordVars, fieldVars, coolingVars, rowVars>>

RejectWithdrawal(w, a) ==
    /\ status[w] = "PENDING_APPROVAL"
    /\ Begin([op |-> "reject", at |-> "record", w |-> w, admin |-> a,
              seen |-> 0, need |-> 0])
    /\ UNCHANGED <<recordVars, fieldVars, coolingVars, rowVars>>

(* Seeded fault: no unique index on the rows.                              *)
RecordRejectionTwice(c) ==
    /\ c.op = "reject" /\ c.at = "record"
    /\ rejectedBy' = [rejectedBy EXCEPT ![c.w] = @ \cup {c.admin}]
    /\ Advance(c, "update")
    /\ UNCHANGED <<recordVars, fieldVars, coolingVars, approvedBy, overriddenBy>>

RecordRejection(c) ==
    /\ c.op = "reject" /\ c.at = "record"
    /\ IF c.admin \in rejectedBy[c.w]
       THEN Return(c) /\ UNCHANGED rejectedBy
       ELSE /\ rejectedBy' = [rejectedBy EXCEPT ![c.w] = @ \cup {c.admin}]
            /\ Advance(c, "update")
    /\ UNCHANGED <<recordVars, fieldVars, coolingVars, approvedBy, overriddenBy>>

MarkRejected(c) ==
    /\ c.op = "reject" /\ c.at = "update"
    /\ SetStatus(c.w, "REJECTED")
    /\ approvalStatus' = [approvalStatus EXCEPT ![c.w] = "REJECTED"]
    /\ Advance(c, "refund")
    /\ UNCHANGED <<debited, credits, balance, queue, required, current,
                   coolingVars, rowVars>>

RefundRejected(c) ==
    /\ c.at = "refund"
    /\ Credit(c.w)
    /\ Advance(c, "delCooling")
    /\ UNCHANGED <<status, debited, queue, fieldVars, coolingVars, rowVars>>

(* The rejection's last await; the override goes on to the queue.          *)
DeleteCooling(c) ==
    /\ c.at = "delCooling"
    /\ coolingKey' = [coolingKey EXCEPT ![c.w] = FALSE]
    /\ IF c.op = "override" THEN Advance(c, "enqueue") ELSE Return(c)
    /\ UNCHANGED <<recordVars, fieldVars, cooling, rowVars>>

---------------------------------------------------------------------------
(* emergencyApprove: reads the row, never looks at its status              *)

EmergencyApprove(w, a) ==
    /\ status[w] # "NONE"
    /\ Begin([op |-> "override", at |-> "record", w |-> w, admin |-> a,
              seen |-> current[w], need |-> OrOne(required[w])])
    /\ UNCHANGED <<recordVars, fieldVars, coolingVars, rowVars>>

RecordOverride(c) ==
    /\ c.op = "override" /\ c.at = "record"
    /\ IF c.admin \in approvedBy[c.w]
       THEN Return(c) /\ UNCHANGED <<approvedBy, overriddenBy>>
       ELSE /\ approvedBy' = [approvedBy EXCEPT ![c.w] = @ \cup {c.admin}]
            /\ overriddenBy' = [overriddenBy EXCEPT ![c.w] = @ \cup {c.admin}]
            /\ Advance(c, "update")
    /\ UNCHANGED <<recordVars, fieldVars, coolingVars, rejectedBy>>

MarkOverridden(c) ==
    /\ c.op = "override" /\ c.at = "update"
    /\ SetStatus(c.w, "APPROVED")
    /\ approvalStatus' = [approvalStatus EXCEPT ![c.w] = "EMERGENCY_OVERRIDE"]
    /\ current' = [current EXCEPT ![c.w] = c.need]
    /\ Advance(c, "delCooling")
    /\ UNCHANGED <<debited, credits, balance, queue, required, coolingVars, rowVars>>

---------------------------------------------------------------------------
(* Time and failures                                                       *)

(* The cooling period ends; the TTL of the key ends with it.               *)
CoolingEnds(w) ==
    /\ cooling[w] = "running"
    /\ cooling' = [cooling EXCEPT ![w] = "over"]
    /\ coolingKey' = [coolingKey EXCEPT ![w] = FALSE]
    /\ UNCHANGED <<recordVars, fieldVars, rowVars, calls>>

(* The process is killed, or the database or Redis call the request awaits *)
(* fails: what the request already wrote stays written.                    *)
Abort(c) ==
    /\ MayAbort
    /\ Return(c)
    /\ UNCHANGED <<recordVars, fieldVars, coolingVars, rowVars>>

Step(c) ==
    \/ AutoApprove(c) \/ StartCooling(c) \/ PublishPending(c)
    \/ CheckCooling(c) \/ RecordApproval(c) \/ FullyApprove(c)
    \/ CountApproval(c) \/ Enqueue(c)
    \/ RecordRejection(c) \/ MarkRejected(c) \/ RefundRejected(c)
    \/ DeleteCooling(c)
    \/ RecordOverride(c) \/ MarkOverridden(c)

Next ==
    \/ \E w \in Withdrawals, t \in Thresholds : SubmitForApproval(w, t)
    \/ \E w \in Withdrawals, a \in Admins :
          ApproveWithdrawal(w, a) \/ RejectWithdrawal(w, a)
    \/ \E w \in Withdrawals, a \in SuperAdmins : EmergencyApprove(w, a)
    \/ \E c \in calls : Step(c) \/ Abort(c)
    \/ \E w \in Withdrawals : CoolingEnds(w)

(* The server keeps running: a request being served goes on to its next    *)
(* await.  Nothing obliges an administrator to act.                        *)
Fairness ==
    \A w \in Withdrawals, a \in Admins \cup {Submitter},
       op \in Operation :
        WF_vars(\E c \in calls : c.w = w /\ c.admin = a /\ c.op = op /\ Step(c))

Spec == Init /\ [][Next]_vars
FairSpec == Spec /\ Fairness

---------------------------------------------------------------------------
(* Properties                                                              *)

(* However the administrators' requests interleave, a withdrawal moves to  *)
(* FULLY_APPROVED only when at least requiredApprovals distinct            *)
(* administrators have an approval row: the count that approveWithdrawal   *)
(* derives from a possibly stale read never runs ahead of the rows.        *)
QuorumRespected ==
    \A w \in Withdrawals :
        approvalStatus[w] = "FULLY_APPROVED" =>
            Cardinality(approvedBy[w]) >= OrOne(required[w])

(* currentApprovals, which the admin panel shows and the next approver     *)
(* reads, never exceeds the number of administrators who approved while a  *)
(* withdrawal waits for approval or was never overridden: requests that    *)
(* overlap lose increments, they never invent one.                         *)
CountBackedByRows ==
    \A w \in Withdrawals :
        status[w] = "PENDING_APPROVAL" \/ overriddenBy[w] = {} =>
            current[w] <= Cardinality(approvedBy[w])

(* A rejection gives the reserved balance back at most once per rejecting  *)
(* administrator: the unique index on the rows is what bounds the refunds, *)
(* the status check at the start of rejectWithdrawal does not.             *)
RefundBackedByRejection ==
    \A w \in Withdrawals : credits[w] <= Cardinality(rejectedBy[w])

(* A withdrawal is never fully approved inside its cooling period, except  *)
(* after a rejection or an override removed the Redis key that guards it.  *)
CoolingHonoured ==
    \A w \in Withdrawals :
        /\ approvalStatus[w] = "FULLY_APPROVED"
        /\ cooling[w] = "running"
        => rejectedBy[w] # {} \/ overriddenBy[w] # {}

(* The balance reserved by a withdrawal is given back at most once.        *)
RefundedAtMostOnce == \A w \in Withdrawals : credits[w] <= 1

(* The approval service keeps the promise of ApprovalGate: the verdict on  *)
(* a withdrawal changes only for a reason the rows of withdrawal_approvals *)
(* record, and never for a count that only stale reads support.            *)
Counts == {RequiredApprovals(AmountUsd[w], t).requiredCount :
              w \in Withdrawals, t \in Thresholds}

Gate == INSTANCE ApprovalGate WITH
    Voters <- Admins,
    verdict <- approvalStatus, need <- required, approvers <- approvedBy,
    rejecters <- rejectedBy, overriders <- overriddenBy

ImplementsGate == Gate!Spec
=============================================================================
