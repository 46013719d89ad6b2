---------------------- MODULE WithdrawalApproval_proofs ----------------------
(***************************************************************************)
(* Theorems about WithdrawalApproval, for any sets of withdrawals and      *)
(* administrators, any thresholds and any number of concurrent requests.   *)
(***************************************************************************)
EXTENDS ApprovalHistory, FiniteSetTheorems, TLAPS

---------------------------------------------------------------------------
(* Type correctness                                                        *)

(* The decision on a withdrawal names a number of approvals.               *)
LEMMA RequiredType ==
    ASSUME NEW w \in Withdrawals, NEW t \in Thresholds
    PROVE  /\ RequiredApprovals(AmountUsd[w], t).requiredCount \in Nat
           /\ RequiredApprovals(AmountUsd[w], t).autoApprove
                 <=> RequiredApprovals(AmountUsd[w], t).requiredCount = 0
<1>1. /\ AmountUsd[w] \in Nat
      /\ t.autoApproveLimit \in Nat
      /\ t.singleApprovalLimit \in Nat
      /\ t.requiredApprovals \in Nat \ {0, 1}
  BY ApprovalAssumption
<1>2. RequiredApprovals(AmountUsd[w], t).requiredCount \in Nat
  BY <1>1 DEF RequiredApprovals
<1>3. RequiredApprovals(AmountUsd[w], t).autoApprove = (AmountUsd[w] < t.autoApproveLimit)
  BY <1>1 DEF RequiredApprovals
<1>4. (RequiredApprovals(AmountUsd[w], t).requiredCount = 0) <=> (AmountUsd[w] < t.autoApproveLimit)
  BY <1>1 DEF RequiredApprovals
<1> QED  BY <1>2, <1>3, <1>4

(* Starting, advancing and ending a request keeps calls well typed.        *)
LEMMA CallsType ==
    ASSUME calls \in SUBSET Call,
           \/ \E c \in Call : Begin(c)
           \/ \E c \in calls, step \in Await : Advance(c, step)
           \/ \E c \in calls : Return(c)
    PROVE  calls' \in SUBSET Call
<1>1. CASE \E c \in Call : Begin(c)
  BY <1>1 DEF Begin
<1>2. ASSUME NEW c \in calls, NEW step \in Await, Advance(c, step)
      PROVE  calls' \in SUBSET Call
  <2>1. [c EXCEPT !.at = step] \in Call
    BY DEF Call
  <2> QED  BY <1>2, <2>1 DEF Advance
<1>3. CASE \E c \in calls : Return(c)
  BY <1>3 DEF Return
<1> QED  BY <1>1, <1>2, <1>3

(* The records of the wallet and of the queue stay well typed.             *)
LEMMA RecordsType ==
    ASSUME RecordsTypeOK, NEW w \in Withdrawals,
           \/ \E s \in WithdrawalStatus :
                 SetStatus(w, s) /\ UNCHANGED <<debited, credits, balance, queue>>
           \/ Lpush(w, FALSE) /\ UNCHANGED <<status, debited, credits, balance>>
           \/ Credit(w) /\ UNCHANGED <<status, debited, queue>>
           \/ UNCHANGED recordVars
    PROVE  RecordsTypeOK'
<1>1. CASE \E s \in WithdrawalStatus :
              SetStatus(w, s) /\ UNCHANGED <<debited, credits, balance, queue>>
  BY <1>1 DEF RecordsTypeOK, SetStatus
<1>2. CASE Lpush(w, FALSE) /\ UNCHANGED <<status, debited, credits, balance>>
  <2>1. <<[id |-> w, complete |-> FALSE]>> \in Seq(QueueItem)
    BY DEF QueueItem
  <2> QED  BY <1>2, <2>1 DEF RecordsTypeOK, Lpush
<1>3. CASE Credit(w) /\ UNCHANGED <<status, debited, queue>>
  <2>1. Amount[w] \in Nat
    BY RecordsAssumption
  <2>2. credits' \in [Withdrawals -> Nat]
    BY <1>3 DEF RecordsTypeOK, Credit
  <2>3. balance' \in Nat
    BY <1>3, <2>1 DEF RecordsTypeOK, Credit
  <2> QED  BY <1>3, <2>2, <2>3 DEF RecordsTypeOK
<1>4. CASE UNCHANGED recordVars
  BY <1>4 DEF RecordsTypeOK, recordVars
<1> QED  BY <1>1, <1>2, <1>3, <1>4

LEMMA TypeInit == Init => TypeOK
BY RecordsAssumption DEF Init, ApprovalInit, TypeOK, RecordsTypeOK,
                         WithdrawalStatus, ApprovalStatus, QueueItem

(* A step of a request stays within the types.                             *)
LEMMA TypeStep ==
    ASSUME TypeOK, NEW c \in calls, Step(c)
    PROVE  TypeOK'
<1>0. /\ c \in Call /\ c.w \in Withdrawals /\ c.seen + 1 \in Nat /\ c.need \in Nat
      /\ calls \in SUBSET Call /\ RecordsTypeOK
      /\ c.op # "submit" => c.admin \in Admins
  BY DEF TypeOK, Call
<1> DEFINE SameRecords == UNCHANGED recordVars
           StatusOnly == /\ \E s \in WithdrawalStatus : SetStatus(c.w, s)
                         /\ UNCHANGED <<debited, credits, balance, queue>>
<1>1. CASE AutoApprove(c)
  <2>1. StatusOnly
    BY <1>1 DEF AutoApprove, WithdrawalStatus
  <2>2. RecordsTypeOK'
    BY <1>0, <2>1, RecordsType
  <2>3. calls' \in SUBSET Call
    BY <1>0, <1>1, CallsType DEF AutoApprove
  <2> QED  BY <1>0, <1>1, <2>2, <2>3 DEF TypeOK, AutoApprove, coolingVars, rowVars, ApprovalStatus
<1>2. CASE StartCooling(c)
  <2>1. RecordsTypeOK'
    BY <1>0, <1>2, RecordsType DEF StartCooling
  <2>2. calls' \in SUBSET Call
    BY <1>0, <1>2, CallsType DEF StartCooling, Await
  <2> QED  BY <1>0, <1>2, <2>1, <2>2 DEF TypeOK, StartCooling, fieldVars, rowVars
<1>3. CASE PublishPending(c)
  <2>1. StatusOnly
    BY <1>3 DEF PublishPending, WithdrawalStatus
  <2>2. RecordsTypeOK'
    BY <1>0, <2>1, RecordsType
  <2>3. calls' \in SUBSET Call
    BY <1>0, <1>3, CallsType DEF PublishPending
  <2> QED  BY <1>0, <1>3, <2>2, <2>3 DEF TypeOK, PublishPending, coolingVars, rowVars, ApprovalStatus
<1>4. CASE CheckCooling(c)
  <2>1. RecordsTypeOK'
    BY <1>0, <1>4, RecordsType DEF CheckCooling
  <2>2. calls' \in SUBSET Call
    BY <1>0, <1>4, CallsType DEF CheckCooling, Await
  <2> QED  BY <1>0, <1>4, <2>1, <2>2 DEF TypeOK, CheckCooling, fieldVars, coolingVars, rowVars
<1>5. CASE RecordApproval(c)
  <2>1. RecordsTypeOK'
    BY <1>0, <1>5, RecordsType DEF RecordApproval
  <2>2. calls' \in SUBSET Call
    BY <1>0, <1>5, CallsType DEF RecordApproval, Await
  <2> QED  BY <1>0, <1>5, <2>1, <2>2 DEF TypeOK, RecordApproval, fieldVars, coolingVars
<1>6. CASE FullyApprove(c)
  <2>1. StatusOnly
    BY <1>6 DEF FullyApprove, WithdrawalStatus
  <2>2. RecordsTypeOK'
    BY <1>0, <2>1, RecordsType
  <2>3. calls' \in SUBSET Call
    BY <1>0, <1>6, CallsType DEF FullyApprove, Await
  <2> QED  BY <1>0, <1>6, <2>2, <2>3 DEF TypeOK, FullyApprove, coolingVars, rowVars, ApprovalStatus
<1>7. CASE CountApproval(c)
  <2>1. RecordsTypeOK'
    BY <1>0, <1>7, RecordsType DEF CountApproval
  <2>2. calls' \in SUBSET Call
    BY <1>0, <1>7, CallsType DEF CountApproval
  <2> QED  BY <1>0, <1>7, <2>1, <2>2 DEF TypeOK, CountApproval, coolingVars, rowVars
<1>8. CASE Enqueue(c)
  <2>1. RecordsTypeOK'
    BY <1>0, <1>8, RecordsType DEF Enqueue
  <2>2. calls' \in SUBSET Call
    BY <1>0, <1>8, CallsType DEF Enqueue
  <2> QED  BY <1>0, <1>8, <2>1, <2>2 DEF TypeOK, Enqueue, fieldVars, coolingVars, rowVars
<1>9. CASE RecordRejection(c)
  <2>1. RecordsTypeOK'
    BY <1>0, <1>9, RecordsType DEF RecordRejection
  <2>2. calls' \in SUBSET Call
    BY <1>0, <1>9, CallsType DEF RecordRejection, Await
  <2> QED  BY <1>0, <1>9, <2>1, <2>2 DEF TypeOK, RecordRejection, fieldVars, coolingVars
<1>10. CASE MarkRejected(c)
  <2>1. StatusOnly
    BY <1>10 DEF MarkRejected, WithdrawalStatus
  <2>2. RecordsTypeOK'
    BY <1>0, <2>1, RecordsType
  <2>3. calls' \in SUBSET Call
    BY <1>0, <1>10, CallsType DEF MarkRejected, Await
  <2> QED  BY <1>0, <1>10, <2>2, <2>3 DEF TypeOK, MarkRejected, coolingVars, rowVars, ApprovalStatus
<1>11. CASE RefundRejected(c)
  <2>1. RecordsTypeOK'
    BY <1>0, <1>11, RecordsType DEF RefundRejected
  <2>2. calls' \in SUBSET Call
    BY <1>0, <1>11, CallsType DEF RefundRejected, Await
  <2> QED  BY <1>0, <1>11, <2>1, <2>2 DEF TypeOK, RefundRejected, fieldVars, coolingVars, rowVars
<1>12. CASE DeleteCooling(c)
  <2>1. RecordsTypeOK'
    BY <1>0, <1>12, RecordsType DEF DeleteCooling
  <2>2. calls' \in SUBSET Call
    BY <1>0, <1>12, CallsType DEF DeleteCooling, Await
  <2> QED  BY <1>0, <1>12, <2>1, <2>2 DEF TypeOK, DeleteCooling, fieldVars, rowVars
<1>13. CASE RecordOverride(c)
  <2>1. RecordsTypeOK'
    BY <1>0, <1>13, RecordsType DEF RecordOverride
  <2>2. calls' \in SUBSET Call
    BY <1>0, <1>13, CallsType DEF RecordOverride, Await
  <2> QED  BY <1>0, <1>13, <2>1, <2>2 DEF TypeOK, RecordOverride, fieldVars, coolingVars
<1>14. CASE MarkOverridden(c)
  <2>1. StatusOnly
    BY <1>14 DEF MarkOverridden, WithdrawalStatus
  <2>2. RecordsTypeOK'
    BY <1>0, <2>1, RecordsType
  <2>3. calls' \in SUBSET Call
    BY <1>0, <1>14, CallsType DEF MarkOverridden, Await
  <2> QED  BY <1>0, <1>14, <2>2, <2>3 DEF TypeOK, MarkOverridden, coolingVars, rowVars, ApprovalStatus
<1> QED  BY <1>1, <1>2, <1>3, <1>4, <1>5, <1>6, <1>7, <1>8, <1>9, <1>10,
            <1>11, <1>12, <1>13, <1>14 DEF Step

(* Every step of the service stays within the types.                       *)
LEMMA TypeNext == TypeOK /\ [Next]_vars => TypeOK'
<1> SUFFICES ASSUME TypeOK, [Next]_vars PROVE TypeOK'
  OBVIOUS
<1>0. calls \in SUBSET Call /\ RecordsTypeOK
  BY DEF TypeOK
<1>1. ASSUME NEW w \in Withdrawals, NEW t \in Thresholds, SubmitForApproval(w, t)
      PROVE  TypeOK'
  <2> DEFINE r == RequiredApprovals(AmountUsd[w], t)
             c == [op |-> "submit",
                   at |-> IF r.autoApprove THEN "autoApprove"
                          ELSE IF r.requiresCooling THEN "startCooling" ELSE "publish",
                   w |-> w, admin |-> Submitter, seen |-> 0, need |-> r.requiredCount]
  <2>1. c \in Call
    BY RequiredType DEF Call, Operation, Await
  <2>2. Begin(c)
    BY <1>1 DEF SubmitForApproval
  <2>3. calls' \in SUBSET Call
    BY <1>0, <2>1, <2>2, CallsType
  <2>4. UNCHANGED <<recordVars, fieldVars, coolingVars, rowVars>>
    BY <1>1 DEF SubmitForApproval
  <2>5. RecordsTypeOK'
    BY <1>0, <2>4, RecordsType
  <2> QED  BY <2>3, <2>4, <2>5 DEF TypeOK, fieldVars, coolingVars, rowVars
<1>2. ASSUME NEW w \in Withdrawals, NEW a \in Admins,
             ApproveWithdrawal(w, a) \/ RejectWithdrawal(w, a) \/ EmergencyApprove(w, a)
      PROVE  TypeOK'
  <2>1. /\ current[w] \in Nat /\ OrOne(required[w]) \in Nat
        /\ a # Submitter
    BY ApprovalAssumption DEF TypeOK, OrOne
  <2>2. \E c \in Call : Begin(c)
    <3> DEFINE c(op, at, n, m) == [op |-> op, at |-> at, w |-> w, admin |-> a,
                                   seen |-> n, need |-> m]
    <3>1. /\ c("approve", "checkCooling", current[w], OrOne(required[w])) \in Call
          /\ c("reject", "record", 0, 0) \in Call
          /\ c("override", "record", current[w], OrOne(required[w])) \in Call
      BY <2>1 DEF Call, Operation, Await
    <3> QED  BY <1>2, <3>1 DEF ApproveWithdrawal, RejectWithdrawal, EmergencyApprove
  <2>3. calls' \in SUBSET Call
    BY <1>0, <2>2, CallsType
  <2>4. UNCHANGED <<recordVars, fieldVars, coolingVars, rowVars>>
    BY <1>2 DEF ApproveWithdrawal, RejectWithdrawal, EmergencyApprove
  <2>5. RecordsTypeOK'
    BY <1>0, <2>4, RecordsType
  <2> QED  BY <2>3, <2>4, <2>5 DEF TypeOK, fieldVars, coolingVars, rowVars
<1>3. ASSUME NEW c \in calls, Step(c)
      PROVE  TypeOK'
  BY <1>3, TypeStep
<1>4. ASSUME NEW c \in calls, Abort(c)
      PROVE  TypeOK'
  <2>1. RecordsTypeOK' /\ calls' \in SUBSET Call
    BY <1>0, <1>4, CallsType DEF Abort, RecordsTypeOK, recordVars
  <2> QED  BY <1>4, <2>1 DEF TypeOK, Abort, fieldVars, coolingVars, rowVars
<1>5. ASSUME NEW w \in Withdrawals, CoolingEnds(w)
      PROVE  TypeOK'
  BY <1>5 DEF CoolingEnds, TypeOK, RecordsTypeOK, recordVars, fieldVars, rowVars
<1>6. CASE UNCHANGED vars
  BY <1>6 DEF vars, approvalVars, TypeOK, RecordsTypeOK, recordVars, fieldVars,
              coolingVars, rowVars
<1> QED
  BY <1>1, <1>2, <1>3, <1>4, <1>5, <1>6, ApprovalAssumption DEF Next

(* The state of the service has its declared types at every moment.        *)
THEOREM TypeCorrect == Spec => []TypeOK
BY TypeInit, TypeNext, PTL DEF Spec

---------------------------------------------------------------------------
(* The inductive invariant behind the quorum                               *)

(* What a request that is about to do at has read and written is supported *)
(* by the rows.                                                            *)
Supported(c, at) ==
    /\ at \in {"autoApprove", "startCooling", "publish"} <=> c.op = "submit"
    /\ at \in {"checkCooling", "finish", "count"} => c.op = "approve"
    /\ at = "refund" => c.op = "reject"
    /\ at = "autoApprove" <=> c.op = "submit" /\ c.need = 0
    /\ c.op = "submit" => c.need \in Counts
    /\ c.op = "approve" =>
          /\ c.need = OrOne(required[c.w])
          /\ c.seen <= Cardinality(approvedBy[c.w])
          /\ at \in {"finish", "count", "enqueue"} =>
                c.seen + 1 <= Cardinality(approvedBy[c.w])
          /\ at = "finish" => c.seen + 1 >= c.need
    /\ c.op = "reject" /\ at # "record" => c.admin \in rejectedBy[c.w]
    /\ c.op = "override" /\ at # "record" => c.admin \in overriddenBy[c.w]

CallOK(c) == Supported(c, c.at)

CallInv == \A c \in calls : CallOK(c)

Submitting(w) == \E c \in calls : c.w = w /\ c.op = "submit"
Voting(w) == \E c \in calls : c.w = w /\ c.op \in {"approve", "reject"}

(* No vote is being served while a withdrawal is being submitted: without  *)
(* this a submission could change the number of approvals under a request  *)
(* that has already compared its count with it.                            *)
PhaseOK(w) ==
    /\ Submitting(w) =>
          /\ ~ Voting(w)
          /\ approvalStatus[w] \in {"NONE", "EMERGENCY_OVERRIDE"}
          /\ status[w] # "PENDING_APPROVAL"
    /\ Voting(w) => approvalStatus[w] # "NONE" /\ status[w] # "PENDING"
    /\ status[w] = "PENDING" => approvalStatus[w] = "NONE"
    /\ status[w] = "PENDING_APPROVAL" => approvalStatus[w] # "NONE"

SubmitOnce ==
    \A c, d \in calls : c.op = "submit" /\ d.op = "submit" /\ c.w = d.w => c = d

PhaseInv == SubmitOnce /\ \A w \in Withdrawals : PhaseOK(w)

IInv == TypeOK /\ CallInv /\ PhaseInv /\ QuorumRespected /\ CountBackedByRows

(* The sets of rows are finite, and rows are never deleted.                *)
LEMMA RowsFinite ==
    ASSUME TypeOK, NEW w \in Withdrawals
    PROVE  IsFiniteSet(approvedBy[w]) /\ Cardinality(approvedBy[w]) \in Nat
<1>1. approvedBy[w] \in SUBSET Admins
  BY DEF TypeOK
<1> QED  BY <1>1, ApprovalAssumption, FS_Subset, FS_CardinalityType

LEMMA RowsGrow ==
    ASSUME TypeOK, [Next]_vars, NEW w \in Withdrawals
    PROVE  /\ approvedBy[w] \subseteq approvedBy'[w]
           /\ rejectedBy[w] \subseteq rejectedBy'[w]
           /\ overriddenBy[w] \subseteq overriddenBy'[w]
           /\ Cardinality(approvedBy[w]) <= Cardinality(approvedBy'[w])
           /\ Cardinality(approvedBy'[w]) \in Nat
<1> DEFINE Grow == /\ approvedBy[w] \subseteq approvedBy'[w]
                   /\ rejectedBy[w] \subseteq rejectedBy'[w]
                   /\ overriddenBy[w] \subseteq overriddenBy'[w]
<1>1. Grow
  <2>1. CASE UNCHANGED rowVars
    BY <2>1 DEF rowVars
  <2>2. ASSUME NEW c \in calls,
               RecordApproval(c) \/ RecordRejection(c) \/ RecordOverride(c)
        PROVE  Grow
    BY <2>2 DEF TypeOK, RecordApproval, RecordRejection, RecordOverride
  <2>3. ASSUME NEW c \in calls, Step(c)
        PROVE  Grow
    BY <2>1, <2>2, <2>3 DEF Step, AutoApprove, StartCooling, PublishPending,
       CheckCooling, FullyApprove, CountApproval, Enqueue, MarkRejected,
       RefundRejected, DeleteCooling, MarkOverridden
  <2>4. CASE \E c \in calls : Step(c)
    BY <2>3, <2>4
  <2>5. CASE ~ \E c \in calls : Step(c)
    <3>1. UNCHANGED rowVars
      BY <2>5 DEF Next, SubmitForApproval, ApproveWithdrawal, RejectWithdrawal,
                  EmergencyApprove, Abort, CoolingEnds, vars, approvalVars
    <3> QED  BY <3>1, <2>1
  <2> QED  BY <2>4, <2>5
<1>2. TypeOK'
  BY TypeNext
<1>3. IsFiniteSet(approvedBy'[w]) /\ Cardinality(approvedBy'[w]) \in Nat
  <2>1. approvedBy'[w] \in SUBSET Admins
    BY <1>2 DEF TypeOK
  <2> QED  BY <2>1, ApprovalAssumption, FS_Subset, FS_CardinalityType
<1> QED  BY <1>1, <1>3, FS_Subset

(* What a new request looks like.                                          *)
LEMMA NewSubmission ==
    ASSUME NEW w \in Withdrawals, NEW t \in Thresholds, SubmitForApproval(w, t)
    PROVE  \E c : /\ calls' = calls \cup {c}
                  /\ c.op = "submit" /\ c.w = w
                  /\ c.at \in {"autoApprove", "startCooling", "publish"}
                  /\ c.at = "autoApprove" <=> c.need = 0
                  /\ c.need \in Counts
<1> DEFINE r == RequiredApprovals(AmountUsd[w], t)
           c == [op |-> "submit",
                 at |-> IF r.autoApprove THEN "autoApprove"
                        ELSE IF r.requiresCooling THEN "startCooling" ELSE "publish",
                 w |-> w, admin |-> Submitter, seen |-> 0, need |-> r.requiredCount]
<1>1. calls' = calls \cup {c}
  BY DEF SubmitForApproval, Begin
<1>2. (c.at = "autoApprove" <=> c.need = 0) /\ c.need \in Counts
  BY RequiredType DEF Counts
<1> QED  BY <1>1, <1>2

LEMMA NewVote ==
    ASSUME NEW w \in Withdrawals, NEW a \in Admins,
           ApproveWithdrawal(w, a) \/ RejectWithdrawal(w, a) \/ EmergencyApprove(w, a)
    PROVE  \E c : /\ calls' = calls \cup {c}
                  /\ c.w = w
                  /\ c.op = "approve" => /\ c.at = "checkCooling"
                                         /\ c.seen = current[w]
                                         /\ c.need = OrOne(required[w])
                  /\ c.op \in {"reject", "override"} => c.at = "record"
                  /\ c.op \in {"approve", "reject", "override"}
                  /\ c.op \in {"approve", "reject"} => status[w] = "PENDING_APPROVAL"
<1>1. CASE ApproveWithdrawal(w, a)
  <2> DEFINE c == [op |-> "approve", at |-> "checkCooling", w |-> w, admin |-> a,
                   seen |-> current[w], need |-> OrOne(required[w])]
  <2>1. /\ c.op = "approve" /\ c.at = "checkCooling" /\ c.w = w
        /\ c.seen = current[w] /\ c.need = OrOne(required[w])
    OBVIOUS
  <2>2. calls' = calls \cup {c} /\ status[w] = "PENDING_APPROVAL"
    BY <1>1 DEF ApproveWithdrawal, Begin
  <2> HIDE DEF c
  <2> QED  BY <2>1, <2>2
<1>2. CASE RejectWithdrawal(w, a)
  <2> DEFINE c == [op |-> "reject", at |-> "record", w |-> w, admin |-> a,
                   seen |-> 0, need |-> 0]
  <2>1. c.op = "reject" /\ c.at = "record" /\ c.w = w
    OBVIOUS
  <2>2. calls' = calls \cup {c} /\ status[w] = "PENDING_APPROVAL"
    BY <1>2 DEF RejectWithdrawal, Begin
  <2> HIDE DEF c
  <2> QED  BY <2>1, <2>2
<1>3. CASE EmergencyApprove(w, a)
  <2> DEFINE c == [op |-> "override", at |-> "record", w |-> w, admin |-> a,
                   seen |-> current[w], need |-> OrOne(required[w])]
  <2>1. c.op = "override" /\ c.at = "record" /\ c.w = w
    OBVIOUS
  <2>2. calls' = calls \cup {c}
    BY <1>3 DEF EmergencyApprove, Begin
  <2> HIDE DEF c
  <2> QED  BY <2>1, <2>2
<1> QED  BY <1>1, <1>2, <1>3

(* What a request being served still has to do decides neither whether a   *)
(* withdrawal is being submitted nor whether it is being voted on.         *)
LEMMA StepCalls ==
    ASSUME TypeOK, NEW c \in calls, Step(c)
    PROVE  /\ Return(c) \/ \E step \in Await : Advance(c, step)
           /\ \A w \in Withdrawals : /\ Submitting(w)' => Submitting(w)
                                     /\ Voting(w)' => Voting(w)
           /\ SubmitOnce => SubmitOnce'
<1>1. Return(c) \/ \E step \in Await : Advance(c, step)
  BY DEF Step, AutoApprove, StartCooling, PublishPending, CheckCooling, RecordApproval,
         FullyApprove, CountApproval, Enqueue, RecordRejection, MarkRejected,
         RefundRejected, DeleteCooling, RecordOverride, MarkOverridden, Await
<1>2. CASE Return(c)
  BY <1>1, <1>2 DEF Return, Submitting, Voting, SubmitOnce
<1>3. ASSUME NEW step \in Await, Advance(c, step)
      PROVE  /\ \A w \in Withdrawals : /\ Submitting(w)' => Submitting(w)
                                       /\ Voting(w)' => Voting(w)
             /\ SubmitOnce => SubmitOnce'
  <2> DEFINE e == [c EXCEPT !.at = step]
  <2>1. c \in Call
    BY DEF TypeOK
  <2>2. e.op = c.op /\ e.w = c.w
    BY <2>1 DEF Call
  <2>3. calls' = (calls \ {c}) \cup {e}
    BY <1>3 DEF Advance
  <2> HIDE DEF e
  <2> QED  BY <2>2, <2>3 DEF Submitting, Voting, SubmitOnce
<1> QED  BY <1>1, <1>2, <1>3

LEMMA PhaseStep ==
    ASSUME TypeOK, CallInv, PhaseInv, NEW c \in calls, Step(c)
    PROVE  PhaseInv'
<1>0. /\ c \in Call /\ c.w \in Withdrawals /\ CallOK(c) /\ SubmitOnce /\ SubmitOnce'
      /\ \A w \in Withdrawals : /\ PhaseOK(w)
                                /\ Submitting(w)' => Submitting(w)
                                /\ Voting(w)' => Voting(w)
      /\ status \in [Withdrawals -> WithdrawalStatus \cup {"NONE"}]
      /\ approvalStatus \in [Withdrawals -> ApprovalStatus]
  BY StepCalls DEF TypeOK, RecordsTypeOK, Call, CallInv, PhaseInv
<1>1. CASE AutoApprove(c) \/ PublishPending(c)
  <2>1. c.op = "submit" /\ calls' = calls \ {c}
    BY <1>0, <1>1 DEF AutoApprove, PublishPending, CallOK, Supported, Return
  <2>2. ~ Submitting(c.w)' /\ ~ Voting(c.w)'
    BY <1>0, <2>1 DEF Submitting, Voting, SubmitOnce, PhaseOK
  <2>3. ASSUME NEW w \in Withdrawals
        PROVE  PhaseOK(w)'
    BY <1>0, <1>1, <2>2 DEF PhaseOK, AutoApprove, PublishPending, SetStatus
  <2> QED  BY <1>0, <2>3 DEF PhaseInv
<1>2. CASE FullyApprove(c) \/ MarkRejected(c)
  <2>1. c.op \in {"approve", "reject"}
    BY <1>0, <1>2 DEF FullyApprove, MarkRejected, CallOK, Supported
  <2>2. Voting(c.w) /\ ~ Submitting(c.w)
    BY <1>0, <2>1 DEF Voting, PhaseOK
  <2>3. ASSUME NEW w \in Withdrawals
        PROVE  PhaseOK(w)'
    BY <1>0, <1>2, <2>2 DEF PhaseOK, FullyApprove, MarkRejected, SetStatus
  <2> QED  BY <1>0, <2>3 DEF PhaseInv
<1>3. CASE MarkOverridden(c)
  <2>1. ASSUME NEW w \in Withdrawals
        PROVE  PhaseOK(w)'
    BY <1>0, <1>3 DEF PhaseOK, MarkOverridden, SetStatus
  <2> QED  BY <1>0, <2>1 DEF PhaseInv
<1>4. CASE UNCHANGED <<status, approvalStatus>>
  <2>1. ASSUME NEW w \in Withdrawals
        PROVE  PhaseOK(w)'
    BY <1>0, <1>4 DEF PhaseOK
  <2> QED  BY <1>0, <2>1 DEF PhaseInv
<1> QED
  BY <1>1, <1>2, <1>3, <1>4 DEF Step, StartCooling, CheckCooling, RecordApproval,
     CountApproval, Enqueue, RecordRejection, RefundRejected, DeleteCooling,
     RecordOverride, recordVars, fieldVars

LEMMA PhaseNext == TypeOK /\ CallInv /\ PhaseInv /\ [Next]_vars => PhaseInv'
<1> SUFFICES ASSUME TypeOK, CallInv, PhaseInv, [Next]_vars PROVE PhaseInv'
  OBVIOUS
<1>0. SubmitOnce /\ \A w \in Withdrawals : PhaseOK(w)
  BY DEF PhaseInv
<1>1. ASSUME NEW w \in Withdrawals, NEW t \in Thresholds, SubmitForApproval(w, t)
      PROVE  PhaseInv'
  <2>1. PICK c : /\ calls' = calls \cup {c}
                 /\ c.op = "submit" /\ c.w = w
    BY <1>1, NewSubmission
  <2>2. /\ status[w] = "PENDING"
        /\ UNCHANGED <<status, approvalStatus>>
        /\ ~ Submitting(w)
    BY <1>1 DEF SubmitForApproval, recordVars, fieldVars, Submitting
  <2>3. SubmitOnce'
    BY <1>0, <2>1, <2>2 DEF SubmitOnce, Submitting
  <2>4. ASSUME NEW x \in Withdrawals
        PROVE  PhaseOK(x)'
    <3>1. /\ Submitting(x)' => Submitting(x) \/ x = w
          /\ Voting(x)' => Voting(x)
      BY <2>1 DEF Submitting, Voting
    <3> QED  BY <1>0, <2>2, <3>1 DEF PhaseOK
  <2> QED  BY <2>3, <2>4 DEF PhaseInv
<1>2. ASSUME NEW w \in Withdrawals, NEW a \in Admins,
             ApproveWithdrawal(w, a) \/ RejectWithdrawal(w, a) \/ EmergencyApprove(w, a)
      PROVE  PhaseInv'
  <2>1. PICK c : /\ calls' = calls \cup {c}
                 /\ c.w = w /\ c.op # "submit"
                 /\ c.op \in {"approve", "reject"} => status[w] = "PENDING_APPROVAL"
    BY <1>2, NewVote
  <2>2. UNCHANGED <<status, approvalStatus>>
    BY <1>2 DEF ApproveWithdrawal, RejectWithdrawal, EmergencyApprove, recordVars, fieldVars
  <2>3. SubmitOnce'
    BY <1>0, <2>1 DEF SubmitOnce
  <2>4. ASSUME NEW x \in Withdrawals
        PROVE  PhaseOK(x)'
    <3>1. /\ Submitting(x)' => Submitting(x)
          /\ Voting(x)' => Voting(x) \/ (x = w /\ status[w] = "PENDING_APPROVAL")
      BY <2>1 DEF Submitting, Voting
    <3> QED  BY <1>0, <2>2, <3>1 DEF PhaseOK
  <2> QED  BY <2>3, <2>4 DEF PhaseInv
<1>3. ASSUME NEW c \in calls, Step(c)
      PROVE  PhaseInv'
  BY <1>3, PhaseStep
<1>4. CASE UNCHANGED <<status, approvalStatus>> /\ calls' \subseteq calls
  <2>1. SubmitOnce' /\ \A w \in Withdrawals : PhaseOK(w)'
    BY <1>0, <1>4 DEF SubmitOnce, PhaseOK, Submitting, Voting
  <2> QED  BY <2>1 DEF PhaseInv
<1>5. ASSUME NEW c \in calls, Abort(c)
      PROVE  PhaseInv'
  BY <1>4, <1>5 DEF Abort, Return, recordVars, fieldVars
<1>6. ASSUME NEW w \in Withdrawals, CoolingEnds(w)
      PROVE  PhaseInv'
  BY <1>4, <1>6 DEF CoolingEnds, recordVars, fieldVars
<1>7. CASE UNCHANGED vars
  BY <1>4, <1>7 DEF vars, approvalVars, recordVars, fieldVars
<1> QED  BY <1>1, <1>2, <1>3, <1>5, <1>6, <1>7, ApprovalAssumption DEF Next

(* A request keeps its support while others run, as long as the number of  *)
(* approvals its withdrawal needs stays what it was.                       *)
LEMMA CallStable ==
    ASSUME TypeOK, [Next]_vars, NEW d \in calls, CallOK(d),
           d.op = "approve" => required'[d.w] = required[d.w]
    PROVE  CallOK(d)'
<1>1. d \in Call /\ d.w \in Withdrawals /\ d.seen \in Nat /\ d.seen + 1 \in Nat
  BY DEF TypeOK, Call
<1>2. /\ rejectedBy[d.w] \subseteq rejectedBy'[d.w]
      /\ overriddenBy[d.w] \subseteq overriddenBy'[d.w]
      /\ Cardinality(approvedBy[d.w]) <= Cardinality(approvedBy'[d.w])
      /\ Cardinality(approvedBy[d.w]) \in Nat
      /\ Cardinality(approvedBy'[d.w]) \in Nat
  BY <1>1, RowsGrow, RowsFinite
<1>3. /\ d.seen <= Cardinality(approvedBy[d.w]) => d.seen <= Cardinality(approvedBy'[d.w])
      /\ d.seen + 1 <= Cardinality(approvedBy[d.w])
            => d.seen + 1 <= Cardinality(approvedBy'[d.w])
  BY <1>1, <1>2
<1> HIDE <1>1
<1> QED  BY <1>2, <1>3 DEF CallOK, Supported, OrOne

LEMMA RequiredStable ==
    ASSUME TypeOK, CallInv, PhaseInv, [Next]_vars, NEW d \in calls, d.op = "approve"
    PROVE  required'[d.w] = required[d.w]
<1>1. d.w \in Withdrawals /\ Voting(d.w) /\ ~ Submitting(d.w)
  BY DEF TypeOK, Call, PhaseInv, PhaseOK, Voting
<1>2. ASSUME NEW c \in calls, AutoApprove(c) \/ PublishPending(c)
      PROVE  required'[d.w] = required[d.w]
  <2>1. c.op = "submit" /\ c.w # d.w
    BY <1>1, <1>2 DEF CallInv, CallOK, Supported, AutoApprove, PublishPending, Submitting
  <2> QED  BY <1>1, <1>2, <2>1 DEF TypeOK, AutoApprove, PublishPending
<1>3. ASSUME NEW c \in calls, Step(c), ~ AutoApprove(c), ~ PublishPending(c)
      PROVE  UNCHANGED required
  BY <1>3 DEF Step, StartCooling, CheckCooling, RecordApproval, FullyApprove,
     CountApproval, Enqueue, RecordRejection, MarkRejected, RefundRejected,
     DeleteCooling, RecordOverride, MarkOverridden, fieldVars
<1>4. CASE ~ \E c \in calls : Step(c)
  BY <1>4 DEF Next, SubmitForApproval, ApproveWithdrawal, RejectWithdrawal,
     EmergencyApprove, Abort, CoolingEnds, fieldVars, vars, approvalVars
<1> QED  BY <1>2, <1>3, <1>4

(* The request that takes a step is supported by the rows afterwards.      *)
LEMMA CallMoves ==
    ASSUME TypeOK, CallInv, PhaseInv, NEW c \in calls, Step(c),
           Return(c) \/ \E at \in Await : Advance(c, at) /\ Supported(c, at)'
    PROVE  CallInv'
<1>0. [Next]_vars /\ c \in Call /\ calls \subseteq Call
  BY DEF Next, TypeOK
<1>1. ASSUME NEW d \in calls
      PROVE  CallOK(d)'
  BY <1>0, <1>1, CallStable, RequiredStable DEF CallInv
<1>2. CASE Return(c)
  BY <1>1, <1>2 DEF Return, CallInv
<1>3. ASSUME NEW at \in Await, Advance(c, at), Supported(c, at)'
      PROVE  CallInv'
  <2> DEFINE e == [c EXCEPT !.at = at]
  <2>1. /\ calls' = (calls \ {c}) \cup {e}
        /\ e.at = at /\ e.op = c.op /\ e.w = c.w /\ e.admin = c.admin
        /\ e.seen = c.seen /\ e.need = c.need
    BY <1>0, <1>3 DEF Advance, Call
  <2> HIDE DEF e
  <2>2. CallOK(e)'
    BY <1>3, <2>1 DEF CallOK, Supported
  <2> QED  BY <1>1, <2>1, <2>2 DEF CallInv
<1> QED  BY <1>2, <1>3

LEMMA CallStep ==
    ASSUME TypeOK, CallInv, PhaseInv, NEW c \in calls, Step(c)
    PROVE  CallInv'
<1>0. /\ [Next]_vars /\ c \in Call /\ c.w \in Withdrawals
      /\ Supported(c, c.at) /\ Supported(c, c.at)'
      /\ c.op # "submit" => c.admin \in Admins
  <2>1. [Next]_vars /\ CallOK(c)
    BY DEF Next, CallInv
  <2>2. CallOK(c)'
    BY <2>1, CallStable, RequiredStable
  <2> QED  BY <2>1, <2>2 DEF CallOK, TypeOK, Call
<1> DEFINE Goal == Return(c) \/ \E at \in Await : Advance(c, at) /\ Supported(c, at)'
<1> SUFFICES Goal
  BY CallMoves
<1>1. CASE AutoApprove(c) \/ PublishPending(c) \/ CountApproval(c) \/ Enqueue(c)
  BY <1>1 DEF AutoApprove, PublishPending, CountApproval, Enqueue
<1>2. CASE StartCooling(c)
  <2>1. Supported(c, "publish")'
    BY <1>0, <1>2 DEF StartCooling, Supported
  <2> QED  BY <1>2, <2>1 DEF StartCooling, Await
<1>3. CASE CheckCooling(c)
  <2>1. Supported(c, "record")'
    BY <1>0, <1>3 DEF CheckCooling, Supported
  <2> QED  BY <1>3, <2>1 DEF CheckCooling, Await
<1>4. CASE RecordApproval(c) /\ c.admin \notin approvedBy[c.w]
  <2>1. c.seen + 1 <= Cardinality(approvedBy'[c.w])
    <3>1. approvedBy'[c.w] = approvedBy[c.w] \cup {c.admin}
      BY <1>0, <1>4 DEF RecordApproval, TypeOK
    <3>2. Cardinality(approvedBy'[c.w]) = Cardinality(approvedBy[c.w]) + 1
      BY <1>0, <1>4, <3>1, RowsFinite, FS_AddElement
    <3>3. c.seen \in Nat /\ c.seen <= Cardinality(approvedBy[c.w])
      BY <1>0, <1>4 DEF RecordApproval, Supported, Call
    <3> QED  BY <1>0, <3>2, <3>3, RowsFinite
  <2>2. /\ c.seen + 1 >= c.need => Supported(c, "finish")'
        /\ Supported(c, "count")'
    BY <1>0, <1>4, <2>1 DEF RecordApproval, Supported
  <2> QED  BY <1>4, <2>2 DEF RecordApproval, Await
<1>5. CASE RecordApproval(c) /\ c.admin \in approvedBy[c.w]
  BY <1>5 DEF RecordApproval
<1>6. CASE FullyApprove(c)
  <2>1. Supported(c, "enqueue")'
    BY <1>0, <1>6 DEF FullyApprove, Supported
  <2> QED  BY <1>6, <2>1 DEF FullyApprove, Await
<1>7. CASE RecordRejection(c)
  <2>1. c.admin \notin rejectedBy[c.w] => Supported(c, "update")'
    BY <1>0, <1>7 DEF RecordRejection, Supported, TypeOK
  <2> QED  BY <1>7, <2>1 DEF RecordRejection, Await
<1>8. CASE MarkRejected(c)
  <2>1. Supported(c, "refund")'
    BY <1>0, <1>8 DEF MarkRejected, Supported
  <2> QED  BY <1>8, <2>1 DEF MarkRejected, Await
<1>9. CASE RefundRejected(c)
  <2>1. Supported(c, "delCooling")'
    BY <1>0, <1>9 DEF RefundRejected, Supported
  <2> QED  BY <1>9, <2>1 DEF RefundRejected, Await
<1>10. CASE DeleteCooling(c)
  <2>1. c.op = "override" => Supported(c, "enqueue")'
    BY <1>0, <1>10 DEF DeleteCooling, Supported
  <2> QED  BY <1>10, <2>1 DEF DeleteCooling, Await
<1>11. CASE RecordOverride(c)
  <2>1. c.admin \notin approvedBy[c.w] => Supported(c, "update")'
    BY <1>0, <1>11 DEF RecordOverride, Supported, TypeOK
  <2> QED  BY <1>11, <2>1 DEF RecordOverride, Await
<1>12. CASE MarkOverridden(c)
  <2>1. Supported(c, "delCooling")'
    BY <1>0, <1>12 DEF MarkOverridden, Supported
  <2> QED  BY <1>12, <2>1 DEF MarkOverridden, Await
<1> QED
  BY <1>1, <1>2, <1>3, <1>4, <1>5, <1>6, <1>7, <1>8, <1>9, <1>10, <1>11, <1>12 DEF Step

LEMMA CallNext == IInv /\ [Next]_vars => CallInv'
<1> SUFFICES ASSUME IInv, [Next]_vars PROVE CallInv'
  OBVIOUS
<1>0. TypeOK /\ CallInv /\ PhaseInv
  BY DEF IInv
<1>1. ASSUME NEW d \in calls
      PROVE  CallOK(d)'
  BY <1>0, CallStable, RequiredStable DEF CallInv
<1>2. ASSUME NEW w \in Withdrawals, NEW t \in Thresholds, SubmitForApproval(w, t)
      PROVE  CallInv'
  <2>1. PICK c : /\ calls' = calls \cup {c}
                 /\ c.op = "submit" /\ c.w = w
                 /\ c.at \in {"autoApprove", "startCooling", "publish"}
                 /\ c.at = "autoApprove" <=> c.need = 0
                 /\ c.need \in Counts
    BY <1>2, NewSubmission
  <2>2. CallOK(c)'
    BY <2>1 DEF CallOK, Supported
  <2> QED  BY <1>1, <2>1, <2>2 DEF CallInv
<1>3. ASSUME NEW w \in Withdrawals, NEW a \in Admins,
             ApproveWithdrawal(w, a) \/ RejectWithdrawal(w, a) \/ EmergencyApprove(w, a)
      PROVE  CallInv'
  <2>1. PICK c : /\ calls' = calls \cup {c}
                 /\ c.w = w
                 /\ c.op = "approve" => /\ c.at = "checkCooling"
                                        /\ c.seen = current[w]
                                        /\ c.need = OrOne(required[w])
                 /\ c.op \in {"reject", "override"} => c.at = "record"
                 /\ c.op \in {"approve", "reject", "override"}
                 /\ c.op \in {"approve", "reject"} => status[w] = "PENDING_APPROVAL"
    BY <1>3, NewVote
  <2>2. UNCHANGED <<required, current, approvedBy>>
    BY <1>3 DEF ApproveWithdrawal, RejectWithdrawal, EmergencyApprove, fieldVars, rowVars
  <2>3. c.op = "approve" => c.seen <= Cardinality(approvedBy'[w])
    BY <2>1, <2>2 DEF IInv, CountBackedByRows
  <2>4. CallOK(c)'
    BY <2>1, <2>2, <2>3 DEF CallOK, Supported, OrOne
  <2> QED  BY <1>1, <2>1, <2>4 DEF CallInv
<1>4. ASSUME NEW c \in calls, Step(c)
      PROVE  CallInv'
  BY <1>0, <1>4, CallStep
<1>5. CASE calls' \subseteq calls
  BY <1>1, <1>5 DEF CallInv
<1> QED
  BY <1>2, <1>3, <1>4, <1>5, ApprovalAssumption
  DEF Next, Abort, Return, CoolingEnds, vars, approvalVars

(* The decision taken at "finish" is backed by enough rows when it is      *)
(* written, and rows are never deleted afterwards.                         *)
LEMMA QuorumNext == IInv /\ [Next]_vars => QuorumRespected'
<1> SUFFICES ASSUME IInv, [Next]_vars, NEW w \in Withdrawals,
                    approvalStatus'[w] = "FULLY_APPROVED"
             PROVE  Cardinality(approvedBy'[w]) >= OrOne(required'[w])
  BY DEF QuorumRespected, OrOne
<1>0. /\ TypeOK /\ CallInv /\ PhaseInv /\ QuorumRespected
      /\ approvalStatus \in [Withdrawals -> ApprovalStatus]
      /\ required \in [Withdrawals -> Nat]
      /\ OrOne(required[w]) \in Nat
      /\ Cardinality(approvedBy[w]) \in Nat
      /\ Cardinality(approvedBy'[w]) \in Nat
      /\ Cardinality(approvedBy[w]) <= Cardinality(approvedBy'[w])
  BY RowsGrow, RowsFinite DEF IInv, TypeOK, OrOne
<1>1. CASE approvalStatus[w] = "FULLY_APPROVED" /\ required'[w] = required[w]
  <2>1. Cardinality(approvedBy[w]) >= OrOne(required[w])
    BY <1>0, <1>1 DEF QuorumRespected
  <2> QED  BY <1>0, <1>1, <2>1 DEF OrOne
<1>2. ASSUME NEW c \in calls, FullyApprove(c), c.w = w
      PROVE  Cardinality(approvedBy'[w]) >= OrOne(required'[w])
  <2>1. CallOK(c) /\ c.seen + 1 \in Nat /\ c.need \in Nat
    BY <1>0 DEF CallInv, TypeOK, Call
  <2>2. /\ c.seen + 1 <= Cardinality(approvedBy[w])
        /\ c.seen + 1 >= c.need
        /\ c.need = OrOne(required[w])
    BY <1>2, <2>1 DEF CallOK, Supported, FullyApprove
  <2>3. required' = required
    BY <1>2 DEF FullyApprove
  <2> QED  BY <1>0, <2>1, <2>2, <2>3 DEF OrOne
<1>3. ASSUME NEW c \in calls, AutoApprove(c) \/ PublishPending(c)
      PROVE  approvalStatus[w] = "FULLY_APPROVED" /\ required'[w] = required[w]
  BY <1>0, <1>3 DEF AutoApprove, PublishPending, TypeOK
<1>4. ASSUME NEW c \in calls, Step(c)
      PROVE  \/ approvalStatus[w] = "FULLY_APPROVED" /\ required'[w] = required[w]
             \/ FullyApprove(c) /\ c.w = w
  BY <1>0, <1>3, <1>4 DEF Step, StartCooling, CheckCooling, RecordApproval, FullyApprove,
     CountApproval, Enqueue, RecordRejection, MarkRejected, RefundRejected,
     DeleteCooling, RecordOverride, MarkOverridden, fieldVars
<1>5. CASE ~ \E c \in calls : Step(c)
  BY <1>1, <1>5 DEF Next, SubmitForApproval, ApproveWithdrawal, RejectWithdrawal,
     EmergencyApprove, Abort, CoolingEnds, fieldVars, vars, approvalVars
<1> QED  BY <1>1, <1>2, <1>4, <1>5

(* The count in the row is either reset, or one more than a number of      *)
(* approvals read when the approver's own row was not there yet.           *)
LEMMA CountNext == IInv /\ [Next]_vars => CountBackedByRows'
<1> SUFFICES ASSUME IInv, [Next]_vars, NEW w \in Withdrawals,
                    status'[w] = "PENDING_APPROVAL" \/ overriddenBy'[w] = {}
             PROVE  current'[w] <= Cardinality(approvedBy'[w])
  BY DEF CountBackedByRows
<1>0. /\ TypeOK /\ CallInv /\ PhaseInv /\ CountBackedByRows
      /\ status \in [Withdrawals -> WithdrawalStatus \cup {"NONE"}]
      /\ current \in [Withdrawals -> Nat]
      /\ current[w] \in Nat
      /\ overriddenBy[w] \subseteq overriddenBy'[w]
      /\ Cardinality(approvedBy[w]) \in Nat
      /\ Cardinality(approvedBy'[w]) \in Nat
      /\ Cardinality(approvedBy[w]) <= Cardinality(approvedBy'[w])
  BY RowsGrow, RowsFinite DEF IInv, TypeOK, RecordsTypeOK
<1> DEFINE Kept == /\ current'[w] = current[w]
                   /\ status'[w] = "PENDING_APPROVAL" => status[w] = "PENDING_APPROVAL"
<1>1. CASE Kept
  <2>1. status[w] = "PENDING_APPROVAL" \/ overriddenBy[w] = {}
    BY <1>0, <1>1
  <2>2. current[w] <= Cardinality(approvedBy[w])
    BY <1>0, <2>1 DEF CountBackedByRows
  <2> QED  BY <1>0, <1>1, <2>2
<1>2. ASSUME NEW c \in calls, AutoApprove(c) \/ PublishPending(c)
      PROVE  Kept \/ current'[w] = 0
  BY <1>0, <1>2 DEF AutoApprove, PublishPending, SetStatus, TypeOK, Call
<1>3. ASSUME NEW c \in calls, FullyApprove(c) \/ CountApproval(c), c.w = w
      PROVE  current'[w] <= Cardinality(approvedBy'[w])
  <2>1. CallOK(c) /\ c.seen + 1 \in Nat
    BY <1>0 DEF CallInv, TypeOK, Call
  <2>2. c.seen + 1 <= Cardinality(approvedBy[w])
    BY <1>3, <2>1 DEF CallOK, Supported, FullyApprove, CountApproval
  <2>3. current'[w] = c.seen + 1
    BY <1>0, <1>3 DEF FullyApprove, CountApproval
  <2> QED  BY <1>0, <2>1, <2>2, <2>3
<1>4. ASSUME NEW c \in calls, FullyApprove(c) \/ CountApproval(c), c.w # w
      PROVE  Kept
  BY <1>0, <1>4 DEF FullyApprove, CountApproval, SetStatus, recordVars
<1>5. ASSUME NEW c \in calls, MarkRejected(c)
      PROVE  Kept
  BY <1>0, <1>5 DEF MarkRejected, SetStatus
<1>6. ASSUME NEW c \in calls, MarkOverridden(c)
      PROVE  Kept
  <2>1. c.w \in Withdrawals /\ CallOK(c)
    BY <1>0 DEF CallInv, TypeOK, Call
  <2>2. c.admin \in overriddenBy[c.w]
    BY <1>6, <2>1 DEF CallOK, Supported, MarkOverridden
  <2>3. status'[c.w] = "APPROVED"
    BY <1>0, <1>6, <2>1 DEF MarkOverridden, SetStatus
  <2>4. c.w # w
    BY <1>0, <2>2, <2>3
  <2> QED  BY <1>0, <1>6, <2>4 DEF MarkOverridden, SetStatus
<1>7. ASSUME NEW c \in calls, Step(c)
      PROVE  current'[w] <= Cardinality(approvedBy'[w])
  <2>1. CASE UNCHANGED <<status, current>>
    BY <1>1, <2>1
  <2>2. CASE AutoApprove(c) \/ PublishPending(c)
    BY <1>0, <1>1, <1>2, <2>2
  <2>3. CASE FullyApprove(c) \/ CountApproval(c)
    BY <1>1, <1>3, <1>4, <2>3
  <2>4. CASE MarkRejected(c) \/ MarkOverridden(c)
    BY <1>1, <1>5, <1>6, <2>4
  <2> QED
    BY <1>7, <2>1, <2>2, <2>3, <2>4
    DEF Step, StartCooling, CheckCooling, RecordApproval, Enqueue, RecordRejection,
        RefundRejected, DeleteCooling, RecordOverride, recordVars, fieldVars
<1>8. CASE ~ \E c \in calls : Step(c)
  <2>1. UNCHANGED <<status, current>>
    BY <1>8 DEF Next, SubmitForApproval, ApproveWithdrawal, RejectWithdrawal,
       EmergencyApprove, Abort, CoolingEnds, fieldVars, recordVars, vars, approvalVars
  <2> QED  BY <1>1, <2>1
<1> QED  BY <1>7, <1>8

LEMMA InvInit == Init => IInv
<1> SUFFICES ASSUME Init PROVE IInv
  OBVIOUS
<1>1. TypeOK
  BY TypeInit
<1>2. CallInv /\ PhaseInv /\ QuorumRespected
  BY DEF Init, ApprovalInit, CallInv, PhaseInv, SubmitOnce, PhaseOK, Submitting, Voting,
         QuorumRespected
<1>3. CountBackedByRows
  BY FS_EmptySet DEF Init, ApprovalInit, CountBackedByRows
<1> QED  BY <1>1, <1>2, <1>3 DEF IInv

LEMMA InvNext == IInv /\ [Next]_vars => IInv'
BY TypeNext, CallNext, PhaseNext, QuorumNext, CountNext DEF IInv

LEMMA Invariance == Spec => []IInv
BY InvInit, InvNext, PTL DEF Spec

(* However the administrators' requests interleave and whichever of them   *)
(* die, a fully approved withdrawal has the rows of at least as many       *)
(* distinct administrators as the thresholds asked for.                    *)
THEOREM QuorumTheorem == Spec => []QuorumRespected
BY Invariance, PTL DEF IInv

(* The count shown to administrators never exceeds the approvals there are. *)
THEOREM CountTheorem == Spec => []CountBackedByRows
BY Invariance, PTL DEF IInv

---------------------------------------------------------------------------
(* The approval service implements ApprovalGate                            *)

LEMMA GateCardinality == \A S : Gate!Cardinality(S) = Cardinality(S)
BY DEF Cardinality, Gate!Cardinality

LEMMA GateInit == Init => Gate!Init
BY DEF Init, ApprovalInit, Gate!Init

(* Every await of a request either records one vote, takes one decision    *)
(* that the recorded votes support, or changes nothing the gate shows.     *)
LEMMA GateStep ==
    ASSUME IInv, NEW c \in calls, Step(c)
    PROVE  Gate!Next \/ UNCHANGED Gate!vars
<1>0. /\ c.w \in Withdrawals
      /\ c.op # "submit" => c.admin \in Admins
      /\ Supported(c, c.at) /\ PhaseOK(c.w) /\ c.seen + 1 \in Nat /\ c.need \in Nat
      /\ c.op = "submit" => Submitting(c.w)
      /\ c.op \in {"approve", "reject"} => Voting(c.w)
      /\ Cardinality(approvedBy[c.w]) \in Nat
  <2>1. c \in Call /\ CallOK(c) /\ TypeOK
    BY DEF IInv, CallInv, TypeOK
  <2>2. /\ c.w \in Withdrawals
        /\ c.op # "submit" => c.admin \in Admins
    BY <2>1 DEF Call
  <2> QED  BY <2>1, <2>2, RowsFinite DEF IInv, CallOK, PhaseInv, Submitting, Voting, Call
<1>1. CASE AutoApprove(c)
  <2>1. c.op = "submit" /\ c.need = 0
    BY <1>0, <1>1 DEF AutoApprove, Supported
  <2>2. Gate!Open(c.w, c.need)
    BY <1>0, <1>1, <2>1 DEF AutoApprove, PhaseOK, Gate!Open, rowVars
  <2> QED  BY <1>0, <2>1, <2>2 DEF Supported, Gate!Next
<1>2. CASE PublishPending(c)
  <2>1. c.op = "submit" /\ c.need # 0
    BY <1>0, <1>2 DEF PublishPending, Supported
  <2>2. Gate!Open(c.w, c.need)
    BY <1>0, <1>2, <2>1 DEF PublishPending, PhaseOK, Gate!Open, rowVars
  <2> QED  BY <1>0, <2>1, <2>2 DEF Supported, Gate!Next
<1>3. CASE RecordApproval(c)
  <2>1. Gate!Approve(c.w, c.admin) \/ UNCHANGED Gate!vars
    BY <1>0, <1>3 DEF RecordApproval, PhaseOK, Gate!Approve, Gate!vars, fieldVars
  <2> QED  BY <1>0, <1>3, <2>1 DEF RecordApproval, Gate!Next
<1>4. CASE FullyApprove(c)
  <2>1. /\ c.op = "approve"
        /\ Cardinality(approvedBy[c.w]) >= OrOne(required[c.w])
    <3>1. /\ c.op = "approve"
          /\ c.seen + 1 <= Cardinality(approvedBy[c.w])
          /\ c.seen + 1 >= c.need
          /\ c.need = OrOne(required[c.w])
      BY <1>0, <1>4 DEF FullyApprove, Supported
    <3> QED  BY <1>0, <3>1
  <2>2. Gate!Quorum(c.w)
    BY <2>1, GateCardinality DEF Gate!Quorum, OrOne
  <2>3. Gate!Decide(c.w, "FULLY_APPROVED")
    BY <1>0, <1>4, <2>1, <2>2 DEF FullyApprove, PhaseOK, Gate!Decide, rowVars
  <2> QED  BY <1>0, <2>3 DEF Gate!Next
<1>5. CASE RecordRejection(c)
  <2>1. Gate!Reject(c.w, c.admin) \/ UNCHANGED Gate!vars
    BY <1>0, <1>5 DEF RecordRejection, PhaseOK, Gate!Reject, Gate!vars, fieldVars
  <2> QED  BY <1>0, <1>5, <2>1 DEF RecordRejection, Gate!Next
<1>6. CASE MarkRejected(c)
  <2>1. Gate!Decide(c.w, "REJECTED")
    BY <1>0, <1>6 DEF MarkRejected, PhaseOK, Supported, Gate!Decide, rowVars
  <2> QED  BY <1>0, <2>1 DEF Gate!Next
<1>7. CASE RecordOverride(c)
  <2>1. Gate!Override(c.w, c.admin) \/ UNCHANGED Gate!vars
    BY <1>0, <1>7 DEF RecordOverride, Gate!Override, Gate!vars, fieldVars
  <2> QED  BY <1>0, <1>7, <2>1 DEF RecordOverride, Gate!Next
<1>8. CASE MarkOverridden(c)
  <2>1. Gate!Decide(c.w, "EMERGENCY_OVERRIDE")
    BY <1>0, <1>8 DEF MarkOverridden, Supported, Gate!Decide, rowVars
  <2> QED  BY <1>0, <2>1 DEF Gate!Next
<1>9. CASE UNCHANGED Gate!vars
  BY <1>9
<1> QED
  BY <1>1, <1>2, <1>3, <1>4, <1>5, <1>6, <1>7, <1>8, <1>9
  DEF Step, StartCooling, CheckCooling, CountApproval, Enqueue, RefundRejected,
      DeleteCooling, Gate!vars, fieldVars, rowVars

LEMMA GateNext == IInv /\ [Next]_vars => [Gate!Next]_Gate!vars
<1> SUFFICES ASSUME IInv, [Next]_vars PROVE [Gate!Next]_Gate!vars
  OBVIOUS
<1>1. CASE \E c \in calls : Step(c)
  BY <1>1, GateStep
<1>2. CASE ~ \E c \in calls : Step(c)
  BY <1>2 DEF Next, SubmitForApproval, ApproveWithdrawal, RejectWithdrawal,
     EmergencyApprove, Abort, CoolingEnds, Gate!vars, fieldVars, rowVars, vars, approvalVars
<1> QED  BY <1>1, <1>2

(* The detailed service implements the promise of multi-signature          *)
(* approval: each change of a verdict is one the recorded votes support.   *)
THEOREM GateTheorem == Spec => ImplementsGate
BY Invariance, GateInit, GateNext, PTL DEF Spec, Gate!Spec, ImplementsGate

---------------------------------------------------------------------------
(* Refunds                                                                 *)

(* A rejection whose row is written and whose refund is still to come.     *)
Refunds(c) == c.op = "reject" /\ c.at \in {"update", "refund"}
Refunding(w) == {a \in Admins : \E c \in calls : Refunds(c) /\ c.w = w /\ c.admin = a}

RefundOnce ==
    \A c, d \in calls :
        Refunds(c) /\ Refunds(d) /\ c.w = d.w /\ c.admin = d.admin => c = d

(* Each row pays for one refund: the ones made and the ones to come.       *)
RefundsPaid ==
    \A w \in Withdrawals :
        credits[w] + Cardinality(Refunding(w)) <= Cardinality(rejectedBy[w])

RefundInv == RefundOnce /\ RefundsPaid

LEMMA RefundSets ==
    ASSUME TypeOK, NEW w \in Withdrawals
    PROVE  /\ IsFiniteSet(rejectedBy[w]) /\ Cardinality(rejectedBy[w]) \in Nat
           /\ IsFiniteSet(Refunding(w)) /\ Cardinality(Refunding(w)) \in Nat
           /\ credits[w] \in Nat
<1>1. /\ rejectedBy[w] \in SUBSET Admins
      /\ Refunding(w) \in SUBSET Admins
      /\ credits[w] \in Nat
  BY DEF TypeOK, RecordsTypeOK, Refunding
<1> QED  BY <1>1, ApprovalAssumption, FS_Subset, FS_CardinalityType

(* A step that starts no refund and makes none keeps the invariant.        *)
LEMMA RefundQuiet ==
    ASSUME TypeOK, RefundInv, UNCHANGED <<credits, rejectedBy>>,
           \A c \in calls' : Refunds(c) =>
              \E d \in calls : Refunds(d) /\ d.w = c.w /\ d.admin = c.admin,
           RefundOnce'
    PROVE  RefundInv'
<1>1. ASSUME NEW w \in Withdrawals
      PROVE  credits'[w] + Cardinality(Refunding(w)') <= Cardinality(rejectedBy'[w])
  <2>1. Refunding(w)' \in SUBSET Refunding(w)
    BY DEF Refunding
  <2>2. /\ Cardinality(Refunding(w)') <= Cardinality(Refunding(w))
        /\ Cardinality(Refunding(w)') \in Nat
    BY <2>1, RefundSets, FS_Subset, FS_CardinalityType
  <2>3. credits[w] + Cardinality(Refunding(w)) <= Cardinality(rejectedBy[w])
    BY DEF RefundInv, RefundsPaid
  <2> QED  BY <2>2, <2>3, RefundSets
<1> QED  BY <1>1 DEF RefundInv, RefundsPaid

(* The record that replaces a request being served.                        *)
LEMMA Advanced ==
    ASSUME NEW c \in Call, NEW at \in Await, Advance(c, at)
    PROVE  \E e \in Call : /\ calls' = (calls \ {c}) \cup {e}
                           /\ e.op = c.op /\ e.at = at /\ e.w = c.w /\ e.admin = c.admin
                           /\ e.seen = c.seen /\ e.need = c.need
<1> DEFINE e == [c EXCEPT !.at = at]
<1>1. /\ e \in Call
      /\ calls' = (calls \ {c}) \cup {e}
      /\ e.op = c.op /\ e.at = at /\ e.w = c.w /\ e.admin = c.admin
      /\ e.seen = c.seen /\ e.need = c.need
  BY DEF Advance, Call
<1> HIDE DEF e
<1> QED  BY <1>1

LEMMA RefundStep ==
    ASSUME IInv, RefundInv, NEW c \in calls, Step(c)
    PROVE  RefundInv'
<1>0. /\ TypeOK /\ CallOK(c) /\ c \in Call /\ c.w \in Withdrawals
      /\ c.op # "submit" => c.admin \in Admins
      /\ rejectedBy \in [Withdrawals -> SUBSET Admins]
      /\ credits \in [Withdrawals -> Nat]
      /\ RefundOnce
      /\ \A w \in Withdrawals :
            /\ credits[w] + Cardinality(Refunding(w)) <= Cardinality(rejectedBy[w])
            /\ Refunding(w) \subseteq rejectedBy[w]
  BY DEF IInv, CallInv, TypeOK, RecordsTypeOK, Call, RefundInv, RefundsPaid, Refunding,
         Refunds, CallOK, Supported
<1>1. CASE RecordRejection(c) /\ c.admin \notin rejectedBy[c.w]
  <2>1. PICK e \in Call : /\ calls' = (calls \ {c}) \cup {e}
                          /\ e.op = c.op /\ e.at = "update"
                          /\ e.w = c.w /\ e.admin = c.admin
    BY <1>0, <1>1, Advanced DEF RecordRejection, Await
  <2>2. c.op = "reject" /\ ~ Refunds(c) /\ Refunds(e) /\ c.admin \in Admins
    BY <1>0, <1>1, <2>1 DEF RecordRejection, Refunds
  <2>3. c.admin \notin Refunding(c.w)
    BY <1>0, <1>1
  <2>4. RefundOnce'
    BY <1>0, <2>1, <2>2, <2>3 DEF RefundOnce, Refunding
  <2>5. ASSUME NEW w \in Withdrawals
        PROVE  credits'[w] + Cardinality(Refunding(w)') <= Cardinality(rejectedBy'[w])
    <3>1. credits' = credits
      BY <1>1 DEF RecordRejection, recordVars
    <3>2. CASE w = c.w
      <4>1. /\ Refunding(w)' = Refunding(w) \cup {c.admin}
            /\ rejectedBy'[w] = rejectedBy[w] \cup {c.admin}
        BY <1>0, <1>1, <2>1, <2>2, <3>2 DEF Refunding, RecordRejection
      <4>2. /\ Cardinality(Refunding(w)') = Cardinality(Refunding(w)) + 1
            /\ Cardinality(rejectedBy'[w]) = Cardinality(rejectedBy[w]) + 1
        <5>1. IsFiniteSet(Refunding(w)) /\ IsFiniteSet(rejectedBy[w])
          BY <1>0, RefundSets
        <5>2. Cardinality(Refunding(w) \cup {c.admin}) = Cardinality(Refunding(w)) + 1
          BY <2>3, <3>2, <5>1, FS_AddElement
        <5>3. Cardinality(rejectedBy[w] \cup {c.admin}) = Cardinality(rejectedBy[w]) + 1
          BY <1>1, <3>2, <5>1, FS_AddElement
        <5> QED  BY <4>1, <5>2, <5>3
      <4> QED  BY <1>0, <3>1, <4>2, RefundSets
    <3>3. CASE w # c.w
      <4>1. Refunding(w)' = Refunding(w) /\ rejectedBy'[w] = rejectedBy[w]
        BY <1>0, <1>1, <2>1, <3>3 DEF Refunding, RecordRejection
      <4> QED  BY <1>0, <3>1, <4>1
    <3> QED  BY <3>2, <3>3
  <2> QED  BY <2>4, <2>5 DEF RefundInv, RefundsPaid
<1>2. CASE RefundRejected(c)
  <2>1. PICK e \in Call : /\ calls' = (calls \ {c}) \cup {e}
                          /\ e.op = c.op /\ e.at = "delCooling"
                          /\ e.w = c.w /\ e.admin = c.admin
    BY <1>0, <1>2, Advanced DEF RefundRejected, Await
  <2>2. Refunds(c) /\ ~ Refunds(e) /\ c.admin \in Admins
    BY <1>0, <1>2, <2>1 DEF RefundRejected, Refunds, CallOK, Supported
  <2>3. RefundOnce'
    BY <1>0, <2>1, <2>2 DEF RefundOnce
  <2>4. ASSUME NEW w \in Withdrawals
        PROVE  credits'[w] + Cardinality(Refunding(w)') <= Cardinality(rejectedBy'[w])
    <3>1. rejectedBy' = rejectedBy
      BY <1>2 DEF RefundRejected, rowVars
    <3>2. CASE w = c.w
      <4>1. credits'[w] = credits[w] + 1
        BY <1>0, <1>2, <3>2 DEF RefundRejected, Credit
      <4>2. Refunding(w)' = Refunding(w) \ {c.admin} /\ c.admin \in Refunding(w)
        BY <1>0, <2>1, <2>2, <3>2 DEF Refunding, RefundOnce
      <4>3. Cardinality(Refunding(w)') = Cardinality(Refunding(w)) - 1
        <5>1. IsFiniteSet(Refunding(w))
          BY <1>0, RefundSets
        <5> QED  BY <4>2, <5>1, FS_RemoveElement
      <4> QED  BY <1>0, <3>1, <4>1, <4>3, RefundSets
    <3>3. CASE w # c.w
      <4>1. Refunding(w)' = Refunding(w) /\ credits'[w] = credits[w]
        BY <1>0, <1>2, <2>1, <3>3 DEF Refunding, RefundRejected, Credit
      <4> QED  BY <1>0, <3>1, <4>1
    <3> QED  BY <3>2, <3>3
  <2> QED  BY <2>3, <2>4 DEF RefundInv, RefundsPaid
<1>3. CASE MarkRejected(c)
  <2>1. PICK e \in Call : /\ calls' = (calls \ {c}) \cup {e}
                          /\ e.op = c.op /\ e.at = "refund"
                          /\ e.w = c.w /\ e.admin = c.admin
    BY <1>0, <1>3, Advanced DEF MarkRejected, Await
  <2>2. Refunds(c) /\ Refunds(e) /\ UNCHANGED <<credits, rejectedBy>>
    BY <1>3, <2>1 DEF MarkRejected, Refunds, rowVars
  <2>3. RefundOnce'
    BY <1>0, <2>1, <2>2 DEF RefundOnce
  <2>4. \A d \in calls' : Refunds(d) =>
           \E f \in calls : Refunds(f) /\ f.w = d.w /\ f.admin = d.admin
    BY <2>1, <2>2
  <2> QED  BY <1>0, <2>2, <2>3, <2>4, RefundQuiet
<1>4. ASSUME UNCHANGED <<credits, rejectedBy>>,
             \/ Return(c)
             \/ \E at \in Await : Advance(c, at) /\ (c.op = "reject" => at = "delCooling")
      PROVE  RefundInv'
  <2>1. \A d \in calls' : Refunds(d) => d \in calls
    <3>1. CASE Return(c)
      BY <3>1 DEF Return
    <3>2. ASSUME NEW at \in Await, Advance(c, at), c.op = "reject" => at = "delCooling"
          PROVE  <2>1
      <4>1. PICK e \in Call : /\ calls' = (calls \ {c}) \cup {e}
                              /\ e.op = c.op /\ e.at = at
        BY <1>0, <3>2, Advanced
      <4>2. ~ Refunds(e)
        BY <3>2, <4>1 DEF Refunds
      <4> QED  BY <4>1, <4>2
    <3> QED  BY <1>4, <3>1, <3>2
  <2>2. RefundOnce'
    BY <1>0, <2>1 DEF RefundOnce
  <2> QED  BY <1>0, <1>4, <2>1, <2>2, RefundQuiet
<1>5. CASE RecordRejection(c) /\ c.admin \in rejectedBy[c.w]
  BY <1>4, <1>5 DEF RecordRejection, recordVars, rowVars
<1>6. CASE DeleteCooling(c)
  BY <1>4, <1>6 DEF DeleteCooling, recordVars, rowVars, Await
<1>7. CASE \/ AutoApprove(c) \/ StartCooling(c) \/ PublishPending(c) \/ CheckCooling(c)
           \/ RecordApproval(c) \/ FullyApprove(c) \/ CountApproval(c)
           \/ RecordOverride(c) \/ MarkOverridden(c) \/ Enqueue(c)
  <2>1. Enqueue(c) \/ c.op # "reject"
    BY <1>0, <1>7 DEF AutoApprove, StartCooling, PublishPending, CheckCooling,
       RecordApproval, FullyApprove, CountApproval, RecordOverride, MarkOverridden,
       CallOK, Supported
  <2> QED
    BY <1>4, <1>7, <2>1 DEF AutoApprove, StartCooling, PublishPending, CheckCooling,
       RecordApproval, FullyApprove, CountApproval, RecordOverride, MarkOverridden,
       Enqueue, recordVars, rowVars, Await
<1> QED  BY <1>1, <1>2, <1>3, <1>5, <1>6, <1>7 DEF Step

LEMMA RefundNext == IInv /\ RefundInv /\ [Next]_vars => RefundInv'
<1> SUFFICES ASSUME IInv, RefundInv, [Next]_vars PROVE RefundInv'
  OBVIOUS
<1>0. TypeOK /\ RefundOnce
  BY DEF IInv, RefundInv
<1>1. ASSUME UNCHANGED <<credits, rejectedBy>>,
             \A d \in calls' : Refunds(d) => d \in calls
      PROVE  RefundInv'
  <2>1. RefundOnce'
    BY <1>0, <1>1 DEF RefundOnce
  <2> QED  BY <1>0, <1>1, <2>1, RefundQuiet
<1>2. ASSUME NEW w \in Withdrawals, NEW t \in Thresholds, SubmitForApproval(w, t)
      PROVE  RefundInv'
  <2>1. PICK c : calls' = calls \cup {c} /\ c.op = "submit"
    BY <1>2, NewSubmission
  <2>2. UNCHANGED <<credits, rejectedBy>>
    BY <1>2 DEF SubmitForApproval, recordVars, rowVars
  <2> QED  BY <1>1, <2>1, <2>2 DEF Refunds
<1>3. ASSUME NEW w \in Withdrawals, NEW a \in Admins,
             ApproveWithdrawal(w, a) \/ RejectWithdrawal(w, a) \/ EmergencyApprove(w, a)
      PROVE  RefundInv'
  <2>1. PICK c : calls' = calls \cup {c} /\ (c.op = "reject" => c.at = "record")
    BY <1>3, NewVote
  <2>2. UNCHANGED <<credits, rejectedBy>>
    BY <1>3 DEF ApproveWithdrawal, RejectWithdrawal, EmergencyApprove, recordVars, rowVars
  <2> QED  BY <1>1, <2>1, <2>2 DEF Refunds
<1>4. ASSUME NEW c \in calls, Step(c)
      PROVE  RefundInv'
  BY <1>4, RefundStep
<1>5. CASE UNCHANGED <<credits, rejectedBy>> /\ calls' \subseteq calls
  BY <1>1, <1>5
<1> QED
  BY <1>2, <1>3, <1>4, <1>5, ApprovalAssumption
  DEF Next, Abort, Return, CoolingEnds, recordVars, rowVars, vars, approvalVars

LEMMA RefundInit == Init => RefundInv
<1> SUFFICES ASSUME Init PROVE RefundInv
  OBVIOUS
<1>1. ASSUME NEW w \in Withdrawals
      PROVE  /\ Refunding(w) = {} /\ credits[w] = 0 /\ rejectedBy[w] = {}
  BY DEF Init, ApprovalInit, Refunding
<1>2. RefundOnce
  BY DEF Init, ApprovalInit, RefundOnce
<1>3. RefundsPaid
  BY <1>1, FS_EmptySet DEF RefundsPaid
<1> QED  BY <1>2, <1>3 DEF RefundInv

(* Every refund is paid for by a rejection on record: the balance of a     *)
(* withdrawal is given back at most once per administrator who rejected it, *)
(* however rejections overlap and wherever they stop.                      *)
THEOREM RefundTheorem == Spec => []RefundBackedByRejection
<1>1. RefundInv /\ TypeOK => RefundBackedByRejection
  BY RefundSets DEF RefundInv, RefundsPaid, RefundBackedByRejection
<1>2. IInv => TypeOK
  BY DEF IInv
<1> QED  BY <1>1, <1>2, RefundInit, RefundNext, Invariance, PTL DEF Spec

---------------------------------------------------------------------------
(* The cooling period                                                      *)

(* Nothing but approvals has happened to w: its rows are all approvals.    *)
Undisputed(w) == rejectedBy[w] = {} /\ overriddenBy[w] = {}

(* An approval of w that has found no cooling key.                         *)
PastCooling(w) == \E c \in calls : c.w = w /\ c.op = "approve" /\ c.at # "checkCooling"

(* While the cooling period of an undisputed withdrawal runs, its key       *)
(* exists, so no approval can have passed the check, and none did before    *)
(* the period started: it starts in the submission, when nobody votes.      *)
CoolingOK(w) ==
    Undisputed(w) /\ cooling[w] = "running" =>
        coolingKey[w] /\ approvalStatus[w] # "FULLY_APPROVED" /\ ~ PastCooling(w)

DeletersDispute == \A c \in calls : c.at = "delCooling" => c.op \in {"reject", "override"}

CoolingInv == DeletersDispute /\ \A w \in Withdrawals : CoolingOK(w)

(* A step that starts no period, deletes no key, completes no approval and  *)
(* lets no approval past the check keeps the invariant.                    *)
LEMMA CoolingQuiet ==
    ASSUME TypeOK, CoolingInv, [Next]_vars, DeletersDispute',
           NEW w \in Withdrawals,
           cooling'[w] = "running" => cooling[w] = "running",
           coolingKey[w] => coolingKey'[w],
           approvalStatus'[w] = "FULLY_APPROVED" =>
               approvalStatus[w] = "FULLY_APPROVED" \/ PastCooling(w),
           PastCooling(w)' => PastCooling(w)
    PROVE  CoolingOK(w)'
BY RowsGrow DEF CoolingInv, CoolingOK, Undisputed

LEMMA CoolingStep ==
    ASSUME IInv, CoolingInv, NEW c \in calls, Step(c)
    PROVE  CoolingInv'
<1>0. /\ TypeOK /\ TypeOK' /\ [Next]_vars /\ c \in Call /\ c.w \in Withdrawals /\ CallOK(c)
      /\ PhaseInv /\ SubmitOnce /\ \A w \in Withdrawals : PhaseOK(w) /\ CoolingOK(w)
  <2>1. TypeOK /\ CallOK(c) /\ PhaseInv /\ [Next]_vars
    BY DEF IInv, CallInv, Next
  <2>2. TypeOK'
    BY <2>1, TypeNext
  <2> QED  BY <2>1, <2>2 DEF TypeOK, Call, PhaseInv, CoolingInv
<1>a. /\ coolingKey \in [Withdrawals -> BOOLEAN]
      /\ cooling \in [Withdrawals -> {"none", "running", "over"}]
      /\ approvalStatus \in [Withdrawals -> ApprovalStatus]
  BY <1>0 DEF TypeOK
<1>1. DeletersDispute'
  <2>1. CASE Return(c)
    BY <2>1 DEF Return, CoolingInv, DeletersDispute
  <2>2. ASSUME NEW at \in Await, Advance(c, at), at = "delCooling" => c.op \in {"reject", "override"}
        PROVE  DeletersDispute'
    <3>1. PICK e \in Call : /\ calls' = (calls \ {c}) \cup {e}
                            /\ e.op = c.op /\ e.at = at
      BY <1>0, <2>2, Advanced
    <3> QED  BY <2>2, <3>1 DEF CoolingInv, DeletersDispute
  <2>3. \/ Return(c)
        \/ \E at \in Await : Advance(c, at) /\ (at = "delCooling" => c.op \in {"reject", "override"})
    BY <1>0 DEF Step, AutoApprove, StartCooling, PublishPending, CheckCooling, RecordApproval,
       FullyApprove, CountApproval, Enqueue, RecordRejection, MarkRejected, RefundRejected,
       DeleteCooling, RecordOverride, MarkOverridden, CallOK, Supported, Await
  <2> QED  BY <2>1, <2>2, <2>3
<1>2. CASE StartCooling(c)
  <2>1. c.op = "submit" /\ Submitting(c.w)
    BY <1>0, <1>2 DEF StartCooling, CallOK, Supported, Submitting
  <2>2. PICK e \in Call : calls' = (calls \ {c}) \cup {e} /\ e.op = c.op
    BY <1>0, <1>2, Advanced DEF StartCooling, Await
  <2>3. \A w \in Withdrawals : PastCooling(w)' => PastCooling(w)
    BY <2>1, <2>2 DEF PastCooling
  <2>4. CoolingOK(c.w)'
    <3>1. ~ PastCooling(c.w) /\ approvalStatus[c.w] # "FULLY_APPROVED"
      BY <1>0, <2>1 DEF PhaseOK, PastCooling, Voting
    <3> QED  BY <1>0, <1>2, <1>a, <2>3, <3>1 DEF StartCooling, CoolingOK, fieldVars
  <2>5. ASSUME NEW w \in Withdrawals, w # c.w
        PROVE  CoolingOK(w)'
    <3>1. UNCHANGED <<cooling[w], coolingKey[w], approvalStatus>>
      BY <1>2, <1>a, <2>5 DEF StartCooling, fieldVars
    <3> QED  BY <1>0, <1>1, <2>3, <3>1, CoolingQuiet
  <2> QED  BY <1>1, <2>4, <2>5 DEF CoolingInv
<1>3. CASE DeleteCooling(c)
  <2>1. c.op \in {"reject", "override"}
    BY <1>3 DEF DeleteCooling, CoolingInv, DeletersDispute
  <2>2. ~ Undisputed(c.w) /\ UNCHANGED <<rejectedBy, overriddenBy, cooling, approvalStatus>>
    BY <1>0, <1>3, <2>1 DEF DeleteCooling, CallOK, Supported, Undisputed, rowVars, fieldVars
  <2>3. calls' \subseteq calls \/ \E e \in Call : calls' = (calls \ {c}) \cup {e} /\ e.op = c.op
    BY <1>0, <1>3, Advanced DEF DeleteCooling, Return, Await
  <2>4. ASSUME NEW w \in Withdrawals
        PROVE  CoolingOK(w)'
    <3>1. PastCooling(w)' => PastCooling(w)
      BY <2>1, <2>3 DEF PastCooling
    <3>2. CASE w = c.w
      BY <2>2, <3>2 DEF CoolingOK, Undisputed
    <3>3. CASE w # c.w
      <4>1. coolingKey'[w] = coolingKey[w]
        BY <1>3, <1>a, <3>3 DEF DeleteCooling
      <4> QED  BY <1>0, <1>1, <2>2, <3>1, <4>1, CoolingQuiet
    <3> QED  BY <3>2, <3>3
  <2> QED  BY <1>1, <2>4 DEF CoolingInv
<1>4. CASE CheckCooling(c)
  <2>1. /\ coolingKey[c.w] => calls' \subseteq calls
        /\ ~ coolingKey[c.w] => \E e \in Call : calls' = (calls \ {c}) \cup {e} /\ e.w = c.w
    BY <1>0, <1>4, Advanced DEF CheckCooling, Return, Await
  <2>2. UNCHANGED <<rejectedBy, overriddenBy, cooling, coolingKey, approvalStatus>>
    BY <1>4 DEF CheckCooling, rowVars, fieldVars, coolingVars
  <2>3. ASSUME NEW w \in Withdrawals
        PROVE  CoolingOK(w)'
    <3>1. CASE w = c.w /\ ~ coolingKey[c.w]
      BY <1>0, <2>2, <3>1 DEF CoolingOK, Undisputed
    <3>2. CASE ~ (w = c.w /\ ~ coolingKey[c.w])
      <4>1. PastCooling(w)' => PastCooling(w)
        BY <2>1, <3>2 DEF PastCooling
      <4> QED  BY <1>0, <1>1, <2>2, <4>1, CoolingQuiet
    <3> QED  BY <3>1, <3>2
  <2> QED  BY <1>1, <2>3 DEF CoolingInv
<1>5. CASE \/ AutoApprove(c) \/ PublishPending(c) \/ RecordApproval(c) \/ FullyApprove(c)
           \/ CountApproval(c) \/ Enqueue(c) \/ RecordRejection(c) \/ MarkRejected(c)
           \/ RefundRejected(c) \/ RecordOverride(c) \/ MarkOverridden(c)
  <2>1. UNCHANGED <<cooling, coolingKey>> /\ c.at # "checkCooling"
    BY <1>5, <1>0 DEF AutoApprove, PublishPending, RecordApproval, FullyApprove, CountApproval,
       Enqueue, RecordRejection, MarkRejected, RefundRejected, RecordOverride,
       MarkOverridden, coolingVars
  <2>2. calls' \subseteq calls
        \/ \E e \in Call : calls' = (calls \ {c}) \cup {e} /\ e.op = c.op /\ e.w = c.w
    <3>1. Return(c) \/ \E at \in Await : Advance(c, at)
      BY <1>0, StepCalls
    <3>2. Return(c) => calls' \subseteq calls
      BY DEF Return
    <3> QED  BY <1>0, <3>1, <3>2, Advanced
  <2>3. \A w \in Withdrawals : PastCooling(w)' => PastCooling(w)
    BY <2>1, <2>2 DEF PastCooling
  <2>4. \A w \in Withdrawals :
           approvalStatus'[w] = "FULLY_APPROVED" =>
               approvalStatus[w] = "FULLY_APPROVED" \/ PastCooling(w)
    <3>1. CASE FullyApprove(c)
      <4>1. PastCooling(c.w)
        BY <1>0, <3>1 DEF FullyApprove, CallOK, Supported, PastCooling
      <4> QED  BY <1>a, <3>1, <4>1 DEF FullyApprove
    <3>2. CASE AutoApprove(c) \/ PublishPending(c) \/ MarkRejected(c) \/ MarkOverridden(c)
      BY <1>a, <3>2 DEF AutoApprove, PublishPending, MarkRejected, MarkOverridden
    <3>3. CASE UNCHANGED approvalStatus
      BY <3>3
    <3> QED  BY <1>5, <3>1, <3>2, <3>3 DEF RecordApproval, CountApproval, Enqueue,
                RecordRejection, RefundRejected, RecordOverride, fieldVars
  <2>5. \A w \in Withdrawals : CoolingOK(w)'
    BY <1>0, <1>1, <2>1, <2>3, <2>4, CoolingQuiet
  <2> QED  BY <1>1, <2>5 DEF CoolingInv
<1> QED  BY <1>2, <1>3, <1>4, <1>5 DEF Step

LEMMA CoolingNext == IInv /\ CoolingInv /\ [Next]_vars => CoolingInv'
<1> SUFFICES ASSUME IInv, CoolingInv, [Next]_vars PROVE CoolingInv'
  OBVIOUS
<1>0. TypeOK /\ \A w \in Withdrawals : CoolingOK(w)
  BY DEF IInv, CoolingInv
<1>1. ASSUME UNCHANGED <<cooling, coolingKey, approvalStatus>>,
             \A d \in calls' : \/ d \in calls
                               \/ /\ d.op = "approve" => d.at = "checkCooling"
                                  /\ d.at # "delCooling"
      PROVE  CoolingInv'
  <2>1. DeletersDispute'
    BY <1>1 DEF CoolingInv, DeletersDispute
  <2>2. \A w \in Withdrawals : PastCooling(w)' => PastCooling(w)
    BY <1>1 DEF PastCooling
  <2>3. \A w \in Withdrawals : CoolingOK(w)'
    BY <1>0, <1>1, <2>1, <2>2, CoolingQuiet
  <2> QED  BY <2>1, <2>3 DEF CoolingInv
<1>2. ASSUME NEW w \in Withdrawals, NEW t \in Thresholds, SubmitForApproval(w, t)
      PROVE  CoolingInv'
  <2>1. PICK c : /\ calls' = calls \cup {c} /\ c.op = "submit"
                 /\ c.at \in {"autoApprove", "startCooling", "publish"}
    BY <1>2, NewSubmission
  <2>2. UNCHANGED <<cooling, coolingKey, approvalStatus>>
    BY <1>2 DEF SubmitForApproval, coolingVars, fieldVars
  <2> QED  BY <1>1, <2>1, <2>2
<1>3. ASSUME NEW w \in Withdrawals, NEW a \in Admins,
             ApproveWithdrawal(w, a) \/ RejectWithdrawal(w, a) \/ EmergencyApprove(w, a)
      PROVE  CoolingInv'
  <2>1. PICK c : /\ calls' = calls \cup {c}
                 /\ c.op = "approve" => c.at = "checkCooling"
                 /\ c.op \in {"reject", "override"} => c.at = "record"
                 /\ c.op \in {"approve", "reject", "override"}
    BY <1>3, NewVote
  <2>2. UNCHANGED <<cooling, coolingKey, approvalStatus>>
    BY <1>3 DEF ApproveWithdrawal, RejectWithdrawal, EmergencyApprove, coolingVars, fieldVars
  <2> QED  BY <1>1, <2>1, <2>2
<1>4. ASSUME NEW c \in calls, Step(c)
      PROVE  CoolingInv'
  BY <1>4, CoolingStep
<1>5. ASSUME NEW x \in Withdrawals, CoolingEnds(x)
      PROVE  CoolingInv'
  <2>1. UNCHANGED <<calls, approvalStatus>>
    BY <1>5 DEF CoolingEnds, fieldVars
  <2>2. DeletersDispute' /\ \A w \in Withdrawals : PastCooling(w)' = PastCooling(w)
    BY <2>1 DEF CoolingInv, DeletersDispute, PastCooling
  <2>3. ASSUME NEW w \in Withdrawals
        PROVE  CoolingOK(w)'
    <3>1. CASE w = x
      BY <1>0, <1>5, <3>1 DEF CoolingEnds, CoolingOK, TypeOK
    <3>2. CASE w # x
      <4>1. UNCHANGED <<cooling[w], coolingKey[w]>>
        BY <1>0, <1>5, <3>2 DEF CoolingEnds, TypeOK
      <4> QED  BY <1>0, <2>1, <2>2, <4>1, CoolingQuiet
    <3> QED  BY <3>1, <3>2
  <2> QED  BY <2>2, <2>3 DEF CoolingInv
<1>6. CASE UNCHANGED <<cooling, coolingKey, approvalStatus>> /\ calls' \subseteq calls
  BY <1>1, <1>6
<1> QED
  BY <1>2, <1>3, <1>4, <1>5, <1>6, ApprovalAssumption
  DEF Next, Abort, Return, coolingVars, fieldVars, vars, approvalVars

LEMMA CoolingInit == Init => CoolingInv
BY DEF Init, ApprovalInit, CoolingInv, DeletersDispute, CoolingOK

(* No withdrawal is fully approved inside its cooling period, however the   *)
(* approvals interleave with its submission and with one another, unless a  *)
(* rejection or an override is on record.                                  *)
THEOREM CoolingTheorem == Spec => []CoolingHonoured
<1>1. CoolingInv => CoolingHonoured
  BY DEF CoolingInv, CoolingOK, Undisputed, CoolingHonoured
<1> QED  BY <1>1, CoolingInit, CoolingNext, Invariance, PTL DEF Spec

---------------------------------------------------------------------------
(* Who completes the quorum moves the withdrawal on                        *)

(* The requests about a withdrawal; an override that has its row and is    *)
(* about to move the withdrawal on; an approval that has its row and is    *)
(* about to count it.                                                      *)
About(w) == {c \in calls : c.w = w}
Overriding(w) == \E c \in About(w) : c.op = "override" /\ c.at = "update"
Counting(w) == \E c \in About(w) : c.op = "approve" /\ c.at \in {"finish", "count"}

Waiting(w) == status[w] = "PENDING_APPROVAL" /\ overriddenBy[w] = {}

Orderly(w) ==
    /\ w \notin raced
    /\ {<<w, "approve", "count">>, <<w, "approve", "finish">>, <<w, "override", "update">>}
          \cap died = {}

(* Between requests the count of a waiting withdrawal is the number of its *)
(* approval rows, and short of the quorum; a request about to record an    *)
(* approval has read that count, and one about to write it has found it    *)
(* short of the quorum.                                                    *)
Rows(w) ==
    /\ status[w] = "PENDING" => approvedBy[w] = {} \/ overriddenBy[w] # {}
    /\ overriddenBy[w] # {} => status[w] \notin {"PENDING", "PENDING_APPROVAL"} \/ Overriding(w)
    /\ Waiting(w) /\ ~ Counting(w) =>
          current[w] = Cardinality(approvedBy[w]) /\ current[w] < OrOne(required[w])

Served(c) ==
    /\ c.op = "submit" => status[c.w] = "PENDING"
    /\ Waiting(c.w) /\ c.op = "approve" =>
          /\ c.at \in {"checkCooling", "record"} => c.seen = current[c.w]
          /\ c.at = "count" => /\ Cardinality(approvedBy[c.w]) = c.seen + 1
                               /\ c.seen + 1 < OrOne(required[c.w])

OrderlyOK(w) == ~ Race(w) /\ Rows(w) /\ \A c \in About(w) : Served(c)

OrderlyInv == \A w \in Withdrawals : Orderly(w) => OrderlyOK(w)

(* A step leaves the other withdrawals as they are.                        *)
LEMMA StepIsLocal ==
    ASSUME TypeOK, NEW c \in calls, Step(c), NEW v \in Withdrawals, v # c.w
    PROVE  /\ status'[v] = status[v] /\ current'[v] = current[v]
           /\ required'[v] = required[v] /\ approvedBy'[v] = approvedBy[v]
           /\ overriddenBy'[v] = overriddenBy[v]
<1>1. /\ status \in [Withdrawals -> WithdrawalStatus \cup {"NONE"}]
      /\ current \in [Withdrawals -> Nat] /\ required \in [Withdrawals -> Nat]
      /\ approvedBy \in [Withdrawals -> SUBSET Admins]
      /\ overriddenBy \in [Withdrawals -> SUBSET Admins]
  BY DEF TypeOK, RecordsTypeOK
<1>2. CASE AutoApprove(c) \/ PublishPending(c) \/ FullyApprove(c) \/ MarkRejected(c)
            \/ MarkOverridden(c) \/ CountApproval(c)
  BY <1>1, <1>2 DEF AutoApprove, PublishPending, FullyApprove, MarkRejected, MarkOverridden,
     CountApproval, SetStatus, rowVars, recordVars
<1>3. CASE RecordApproval(c) \/ RecordRejection(c) \/ RecordOverride(c)
  BY <1>1, <1>3 DEF RecordApproval, RecordRejection, RecordOverride, recordVars, fieldVars
<1>4. CASE StartCooling(c) \/ CheckCooling(c) \/ Enqueue(c) \/ RefundRejected(c)
            \/ DeleteCooling(c)
  BY <1>4 DEF StartCooling, CheckCooling, Enqueue, RefundRejected, DeleteCooling, recordVars,
     fieldVars, rowVars
<1> QED  BY <1>2, <1>3, <1>4 DEF Step

LEMMA OrderlyInit == HistoryInit => OrderlyInv
BY FS_EmptySet DEF HistoryInit, Init, ApprovalInit, OrderlyInv, OrderlyOK, Race, Rows, Waiting,
   About, Served

(* Without a race a withdrawal has one approval at a time, and no override  *)
(* beside its submission.                                                  *)
LEMMA NoRace ==
    ASSUME NEW w, ~ Race(w)
    PROVE  /\ \A c, d \in About(w) : c.op = "approve" /\ d.op = "approve" => c = d
           /\ \A c, d \in About(w) : ~ (c.op = "submit" /\ d.op = "override")
<1>1. ASSUME NEW c \in About(w), NEW d \in About(w), c # d
      PROVE  /\ ~ (c.op = "approve" /\ d.op = "approve")
             /\ ~ (c.op = "submit" /\ d.op = "override")
  <2>1. c \in calls /\ d \in calls /\ c.w = w /\ d.w = w
    BY DEF About
  <2>2. {c.op, d.op} \notin {{"approve"}, {"submit", "override"}}
    BY <1>1, <2>1 DEF Race
  <2>3. ASSUME c.op = "approve", d.op = "approve" PROVE FALSE
    BY <2>2, <2>3
  <2>4. ASSUME c.op = "submit", d.op = "override" PROVE FALSE
    BY <2>2, <2>4
  <2> QED  BY <2>3, <2>4
<1> QED  BY <1>1

(* History only grows, and says so when a race or a death is added to it.   *)
LEMMA HistoryGrows ==
    ASSUME [HistoryNext]_<<vars, historyVars>>, NEW w \in Withdrawals, Orderly(w)', ~ Race(w)
    PROVE  /\ [Next]_vars /\ Orderly(w) /\ ~ Race(w)'
           /\ \A c \in calls :
                 Abort(c) /\ c.w = w =>
                    /\ ~ (c.op = "approve" /\ c.at \in {"count", "finish"})
                    /\ ~ (c.op = "override" /\ c.at = "update")
<1>1. CASE HistoryNext
  <2>1. w \notin raced' /\ raced' = raced \cup {v \in Withdrawals : Race(v)'}
    BY <1>1 DEF HistoryNext, Orderly
  <2>2. died' = died \cup {<<c.w, c.op, c.at>> :
                              c \in {d \in calls : <<d.op, d.at>> \in Halfway /\ Abort(d)}}
    BY <1>1 DEF HistoryNext
  <2>3. Orderly(w)
    BY <2>1, <2>2 DEF Orderly
  <2>4. ASSUME NEW c \in calls, Abort(c), c.w = w, <<c.op, c.at>> \in Halfway
        PROVE  <<w, c.op, c.at>> \in died'
    BY <2>2, <2>4
  <2>5. ASSUME NEW c \in calls, Abort(c), c.w = w
        PROVE  /\ ~ (c.op = "approve" /\ c.at = "count")
               /\ ~ (c.op = "approve" /\ c.at = "finish")
               /\ ~ (c.op = "override" /\ c.at = "update")
    BY <2>4, <2>5 DEF Orderly, Halfway
  <2> QED  BY <1>1, <2>1, <2>3, <2>5 DEF HistoryNext
<1>2. CASE UNCHANGED <<vars, historyVars>>
  <2>1. UNCHANGED <<calls, raced, died>> /\ [Next]_vars
    BY <1>2 DEF vars, approvalVars, historyVars
  <2>2. Orderly(w) /\ ~ Race(w)'
    BY <2>1 DEF Orderly, Race
  <2>3. \A c \in calls : ~ Abort(c)
    BY <2>1 DEF Abort, Return
  <2> QED  BY <2>1, <2>2, <2>3
<1> QED  BY <1>1, <1>2

(* What the invariant says of a withdrawal depends on its rows and on the  *)
(* requests about it only.                                                 *)
LEMMA OrderlyLocal ==
    ASSUME NEW w, OrderlyOK(w), ~ Race(w)', About(w)' = About(w),
           UNCHANGED <<status[w], current[w], required[w], approvedBy[w], overriddenBy[w]>>
    PROVE  OrderlyOK(w)'
<1>1. UNCHANGED <<Waiting(w), Overriding(w), Counting(w)>>
  BY DEF Waiting, Overriding, Counting
<1>2. Rows(w)'
  BY <1>1 DEF OrderlyOK, Rows, OrOne
<1>3. ASSUME NEW c \in About(w) PROVE Served(c)'
  <2>1. c.w = w /\ Served(c)
    BY DEF OrderlyOK, About
  <2> QED  BY <1>1, <2>1 DEF Served, OrOne, Waiting
<1> QED  BY <1>2, <1>3 DEF OrderlyOK

(* A request that starts, ends or goes on while the row stays.              *)
LEMMA OrderlyStays ==
    ASSUME NEW w, OrderlyOK(w), ~ Race(w)',
           UNCHANGED <<status[w], current[w], required[w], approvedBy[w], overriddenBy[w]>>,
           \A d \in About(w) \ About(w)' :
              ~ (d.op = "approve" /\ d.at \in {"finish", "count"})
              /\ ~ (d.op = "override" /\ d.at = "update"),
           \A d \in About(w)' \ About(w) :
              Served(d)' /\ ~ (d.op = "approve" /\ d.at \in {"finish", "count"})
    PROVE  OrderlyOK(w)'
<1>1. UNCHANGED Waiting(w)
  BY DEF Waiting
<1>2. Overriding(w) => Overriding(w)'
  BY DEF Overriding
<1>3. Counting(w) <=> Counting(w)'
  BY DEF Counting
<1>4. Rows(w)'
  BY <1>1, <1>2, <1>3 DEF OrderlyOK, Rows, OrOne
<1>5. ASSUME NEW c \in About(w) PROVE Served(c)'
  <2>1. c.w = w /\ Served(c)
    BY DEF OrderlyOK, About
  <2> QED  BY <1>1, <2>1 DEF Served, OrOne, Waiting
<1> QED  BY <1>4, <1>5 DEF OrderlyOK

(* A step that takes the withdrawal out of the statuses that wait.          *)
LEMMA OrderlyDecided ==
    ASSUME NEW w, ~ Race(w)', status'[w] \notin {"PENDING", "PENDING_APPROVAL"},
           \A d \in About(w)' : d.op # "submit"
    PROVE  OrderlyOK(w)'
<1>1. \A d \in About(w)' : d.w = w
  BY DEF About
<1> QED  BY <1>1 DEF OrderlyOK, Rows, Waiting, Served

LEMMA OrderlyStep ==
    ASSUME IInv, NEW c \in calls, Step(c), OrderlyOK(c.w), ~ Race(c.w)'
    PROVE  OrderlyOK(c.w)'
<1> DEFINE w == c.w
<1>0. /\ TypeOK /\ c \in Call /\ w \in Withdrawals /\ CallOK(c) /\ Served(c) /\ Rows(w)
      /\ c.seen \in Nat /\ c.need \in Nat /\ PhaseOK(w) /\ c \in About(w)
  BY DEF IInv, TypeOK, Call, CallInv, OrderlyOK, About, PhaseInv
<1>a. /\ status \in [Withdrawals -> WithdrawalStatus \cup {"NONE"}]
      /\ current \in [Withdrawals -> Nat] /\ required \in [Withdrawals -> Nat]
      /\ approvedBy \in [Withdrawals -> SUBSET Admins]
      /\ overriddenBy \in [Withdrawals -> SUBSET Admins]
  BY <1>0 DEF TypeOK, RecordsTypeOK
<1>b. ~ Race(w)
  BY DEF OrderlyOK
<1>c. ASSUME Return(c) PROVE About(w)' = About(w) \ {c}
  BY <1>c DEF Return, About
<1>d. ASSUME NEW at \in Await, Advance(c, at)
      PROVE  \E e \in Call : /\ About(w)' = (About(w) \ {c}) \cup {e}
                             /\ e.op = c.op /\ e.at = at /\ e.w = w /\ e.seen = c.seen
  <2>1. PICK e \in Call : /\ calls' = (calls \ {c}) \cup {e}
                          /\ e.op = c.op /\ e.at = at /\ e.w = c.w /\ e.seen = c.seen
    BY <1>0, <1>d, Advanced
  <2>2. About(w)' = (About(w) \ {c}) \cup {e}
    BY <2>1 DEF About
  <2> QED  BY <2>1, <2>2
<1>e. c.op # "submit" => \A d \in About(w) : d.op # "submit"
  <2>1. c.op = "override" => \A d \in About(w) : d.op # "submit"
    BY <1>0, <1>b, NoRace
  <2>2. c.op \in {"approve", "reject"} => Voting(w)
    BY DEF Voting
  <2>3. Voting(w) => \A d \in About(w) : d.op # "submit"
    BY <1>0 DEF PhaseOK, Submitting, About
  <2> QED  BY <1>0, <2>1, <2>2, <2>3 DEF Call, Operation
<1>f. ASSUME UNCHANGED <<status[w], current[w], required[w], approvedBy[w], overriddenBy[w]>>,
             ~ (c.op = "approve" /\ c.at \in {"finish", "count"}),
             ~ (c.op = "override" /\ c.at = "update"), Return(c)
      PROVE  OrderlyOK(w)'
  BY <1>c, <1>f, OrderlyStays
<1>g. ASSUME UNCHANGED <<status[w], current[w], required[w], approvedBy[w], overriddenBy[w]>>,
             ~ (c.op = "approve" /\ c.at \in {"finish", "count"}),
             ~ (c.op = "override" /\ c.at = "update"),
             NEW at \in Await, Advance(c, at),
             c.op = "approve" => at = "record" /\ c.at = "checkCooling"
      PROVE  OrderlyOK(w)'
  <2>1. PICK e \in Call : /\ About(w)' = (About(w) \ {c}) \cup {e}
                          /\ e.op = c.op /\ e.at = at /\ e.w = w /\ e.seen = c.seen
    BY <1>d, <1>g
  <2>2. UNCHANGED Waiting(w)
    BY <1>g DEF Waiting
  <2>3. Served(e)'
    BY <1>0, <1>g, <2>1, <2>2 DEF Served
  <2>4. ~ (e.op = "approve" /\ e.at \in {"finish", "count"})
    BY <1>g, <2>1
  <2> QED  BY <1>g, <2>1, <2>3, <2>4, OrderlyStays
<1> HIDE DEF w
<1>1. CASE AutoApprove(c)
  <2>1. status'[w] = "APPROVED" /\ Return(c) /\ c.op = "submit"
    BY <1>0, <1>1, <1>a DEF AutoApprove, SetStatus, CallOK, Supported, w
  <2>2. \A d \in About(w) \ {c} : d.op # "submit"
    BY <1>0, <2>1 DEF IInv, PhaseInv, SubmitOnce, About, w
  <2> QED  BY <1>c, <2>1, <2>2, OrderlyDecided DEF w
<1>2. CASE StartCooling(c)
  <2>1. c.op = "submit" /\ UNCHANGED <<status, current, required, approvedBy, overriddenBy>>
    BY <1>0, <1>2 DEF StartCooling, CallOK, Supported, recordVars, fieldVars, rowVars
  <2> QED  BY <1>2, <1>g, <2>1 DEF StartCooling, Await, w
<1>3. CASE PublishPending(c)
  <2>1. /\ c.op = "submit" /\ status[w] = "PENDING" /\ Return(c)
        /\ UNCHANGED <<approvedBy, overriddenBy>>
    BY <1>0, <1>3 DEF PublishPending, CallOK, Supported, Served, rowVars, w
  <2>2. status'[w] = "PENDING_APPROVAL" /\ current'[w] = 0 /\ required'[w] = c.need
    BY <1>0, <1>3, <1>a DEF PublishPending, SetStatus, w
  <2>3. overriddenBy[w] = {} /\ approvedBy[w] = {}
    <3>1. ~ Overriding(w)
      BY <1>0, <1>b, <2>1, NoRace DEF Overriding
    <3> QED  BY <1>0, <2>1, <3>1 DEF Rows
  <2>4. \A d \in About(w)' : d.op \notin {"submit", "approve"} /\ d.w = w
    <3>1. \A d \in About(w) \ {c} : d.op # "submit"
      BY <1>0, <2>1 DEF IInv, PhaseInv, SubmitOnce, About, w
    <3>2. ~ Voting(w)
      BY <1>0, <2>1 DEF PhaseOK, Submitting, About
    <3>3. \A d \in About(w) : d.op # "approve"
      BY <3>2 DEF Voting, About
    <3> QED  BY <1>c, <2>1, <3>1, <3>3 DEF About
  <2>5. Cardinality(approvedBy'[w]) = 0 /\ OrOne(required'[w]) > 0
    BY <1>0, <2>1, <2>2, <2>3, FS_EmptySet DEF OrOne
  <2>6. Rows(w)'
    BY <2>1, <2>2, <2>3, <2>5 DEF Rows, OrOne
  <2>7. \A d \in About(w)' : Served(d)'
    BY <2>4 DEF Served
  <2> QED  BY <2>6, <2>7 DEF OrderlyOK, w
<1>4. CASE CheckCooling(c)
  <2>1. /\ c.op = "approve" /\ c.at = "checkCooling"
        /\ UNCHANGED <<status, current, required, approvedBy, overriddenBy>>
    BY <1>0, <1>4 DEF CheckCooling, CallOK, Supported, recordVars, fieldVars, rowVars
  <2>2. Return(c) \/ Advance(c, "record")
    BY <1>4 DEF CheckCooling
  <2> QED  BY <1>f, <1>g, <2>1, <2>2 DEF Await, w
<1>5. CASE RecordApproval(c)
  <2>1. /\ UNCHANGED <<status, current, required, overriddenBy>>
        /\ c.op = "approve" /\ c.at = "record" /\ c.need = OrOne(required[w])
    BY <1>0, <1>5 DEF RecordApproval, recordVars, fieldVars, CallOK, Supported, w
  <2>2. \A d \in About(w) \ {c} : d.op \notin {"approve", "submit"} /\ d.w = w
    <3>1. \A d \in About(w) \ {c} : d.op # "approve"
      BY <1>0, <1>b, <2>1, NoRace
    <3> QED  BY <1>e, <2>1, <3>1 DEF About
  <2>3. CASE Return(c) /\ UNCHANGED approvedBy
    BY <1>f, <2>1, <2>3 DEF w
  <2>4. CASE /\ c.admin \notin approvedBy[w]
             /\ approvedBy' = [approvedBy EXCEPT ![w] = @ \cup {c.admin}]
             /\ Advance(c, IF c.seen + 1 >= c.need THEN "finish" ELSE "count")
    <3>1. PICK at \in {"finish", "count"} :
             Advance(c, at) /\ (at = "count" => ~ (c.seen + 1 >= c.need))
      BY <2>4
    <3>2. PICK e \in Call : /\ About(w)' = (About(w) \ {c}) \cup {e}
                            /\ e.op = c.op /\ e.at = at /\ e.w = w /\ e.seen = c.seen
      BY <1>d, <3>1 DEF Await
    <3>3. Waiting(w) => Cardinality(approvedBy'[w]) = c.seen + 1
      <4>1. approvedBy'[w] = approvedBy[w] \cup {c.admin}
        BY <1>0, <1>a, <2>4
      <4>2. ~ Counting(w)
        BY <2>1, <2>2 DEF Counting
      <4>3. Waiting(w) => Cardinality(approvedBy[w]) = c.seen
        BY <1>0, <2>1, <4>2 DEF Rows, Served, w
      <4>4. Cardinality(approvedBy[w] \cup {c.admin}) = Cardinality(approvedBy[w]) + 1
        BY <1>0, <2>4, RowsFinite, FS_AddElement
      <4> QED  BY <4>1, <4>3, <4>4
    <3>4. at = "count" => c.seen + 1 < OrOne(required'[w])
      <4>1. OrOne(required[w]) \in Nat
        BY <1>0, <1>a DEF OrOne
      <4> QED  BY <1>0, <2>1, <3>1, <4>1
    <3>5. UNCHANGED <<Waiting(w), status[w], overriddenBy[w]>>
      BY <2>1 DEF Waiting
    <3>6. Served(e)'
      BY <2>1, <3>2, <3>3, <3>4, <3>5 DEF Served
    <3>7. \A d \in About(w) \ {c} : Served(d)'
      BY <2>2 DEF Served
    <3>8. status[w] # "PENDING"
      BY <1>0, <2>1 DEF PhaseOK, Voting, w
    <3>9. Counting(w)' /\ (Overriding(w) => Overriding(w)')
      BY <2>1, <3>1, <3>2 DEF Counting, Overriding
    <3>10. Rows(w)'
      BY <1>0, <3>5, <3>8, <3>9 DEF Rows
    <3> QED  BY <3>2, <3>6, <3>7, <3>10 DEF OrderlyOK, w
  <2> QED  BY <1>5, <2>3, <2>4 DEF RecordApproval, w
<1>6. CASE FullyApprove(c)
  <2>1. c.op = "approve" /\ status'[w] = "APPROVED" /\ Advance(c, "enqueue")
    BY <1>0, <1>6, <1>a DEF FullyApprove, SetStatus, CallOK, Supported, w
  <2>2. \A d \in About(w)' : d.op # "submit"
    BY <1>d, <1>e, <2>1 DEF Await
  <2> QED  BY <2>1, <2>2, OrderlyDecided DEF w
<1>7. CASE CountApproval(c)
  <2>1. /\ c.op = "approve" /\ c.at = "count" /\ Return(c)
        /\ UNCHANGED <<status, required, approvedBy, overriddenBy>>
    BY <1>0, <1>7 DEF CountApproval, recordVars, rowVars, CallOK, Supported
  <2>2. current'[w] = c.seen + 1
    BY <1>0, <1>7, <1>a DEF CountApproval, w
  <2>3. \A d \in About(w)' : d.op # "approve" /\ d \in About(w) /\ d.w = w
    BY <1>0, <1>b, <1>c, <2>1, NoRace DEF About
  <2>4. UNCHANGED Waiting(w) /\ (Overriding(w) => Overriding(w)')
    BY <1>c, <2>1 DEF Waiting, Overriding
  <2>5. Waiting(w) => Cardinality(approvedBy[w]) = c.seen + 1 /\ c.seen + 1 < OrOne(required[w])
    BY <1>0, <2>1 DEF Served, w
  <2>6. Rows(w)'
    BY <1>0, <2>1, <2>2, <2>4, <2>5 DEF Rows, OrOne
  <2>7. \A d \in About(w)' : Served(d)'
    BY <2>1, <2>3 DEF Served, OrderlyOK, w
  <2> QED  BY <2>6, <2>7 DEF OrderlyOK, w
<1>8. CASE Enqueue(c)
  <2>1. c.at = "enqueue" /\ UNCHANGED <<status, current, required, approvedBy, overriddenBy>>
    BY <1>8 DEF Enqueue, fieldVars, rowVars
  <2> QED  BY <1>8, <1>f, <2>1 DEF Enqueue, w
<1>9. CASE RecordRejection(c)
  <2>1. c.op = "reject" /\ UNCHANGED <<status, current, required, approvedBy, overriddenBy>>
    BY <1>9 DEF RecordRejection, recordVars, fieldVars
  <2>2. Return(c) \/ Advance(c, "update")
    BY <1>9 DEF RecordRejection
  <2> QED  BY <1>f, <1>g, <2>1, <2>2 DEF Await, w
<1>10. CASE MarkRejected(c)
  <2>1. c.op = "reject" /\ status'[w] = "REJECTED" /\ Advance(c, "refund")
    BY <1>0, <1>10, <1>a DEF MarkRejected, SetStatus, w
  <2>2. \A d \in About(w)' : d.op # "submit"
    BY <1>d, <1>e, <2>1 DEF Await
  <2> QED  BY <2>1, <2>2, OrderlyDecided DEF w
<1>11. CASE RefundRejected(c)
  <2>1. /\ c.op = "reject" /\ Advance(c, "delCooling")
        /\ UNCHANGED <<status, current, required, approvedBy, overriddenBy>>
    BY <1>0, <1>11 DEF RefundRejected, CallOK, Supported, fieldVars, rowVars
  <2> QED  BY <1>g, <2>1 DEF Await, w
<1>12. CASE DeleteCooling(c)
  <2>1. /\ c.at = "delCooling"
        /\ UNCHANGED <<status, current, required, approvedBy, overriddenBy>>
    BY <1>12 DEF DeleteCooling, recordVars, fieldVars, rowVars
  <2>2. Return(c) \/ (c.op = "override" /\ Advance(c, "enqueue"))
    BY <1>12 DEF DeleteCooling
  <2> QED  BY <1>f, <1>g, <2>1, <2>2 DEF Await, w
<1>13. CASE RecordOverride(c)
  <2>1. UNCHANGED <<status, current, required>> /\ c.op = "override" /\ c.at = "record"
    BY <1>13 DEF RecordOverride, recordVars, fieldVars
  <2>2. CASE Return(c) /\ UNCHANGED <<approvedBy, overriddenBy>>
    BY <1>f, <2>1, <2>2 DEF w
  <2>3. CASE /\ overriddenBy' = [overriddenBy EXCEPT ![w] = @ \cup {c.admin}]
             /\ Advance(c, "update")
    <3>1. overriddenBy'[w] # {} /\ ~ Waiting(w)'
      BY <1>0, <1>a, <2>3 DEF Waiting
    <3>2. PICK e \in Call : /\ About(w)' = (About(w) \ {c}) \cup {e}
                            /\ e.op = c.op /\ e.at = "update" /\ e.w = w
      BY <1>d, <2>3 DEF Await
    <3>3. Overriding(w)'
      BY <2>1, <3>2 DEF Overriding
    <3>4. Rows(w)'
      BY <3>1, <3>3 DEF Rows
    <3>5. \A d \in About(w) \ {c} : d.op # "submit" /\ d.w = w
      BY <1>0, <1>b, <2>1, NoRace DEF About
    <3>6. \A d \in About(w)' : Served(d)'
      BY <2>1, <3>1, <3>2, <3>5 DEF Served
    <3> QED  BY <3>4, <3>6 DEF OrderlyOK, w
  <2> QED  BY <1>13, <2>2, <2>3 DEF RecordOverride, w
<1>14. CASE MarkOverridden(c)
  <2>1. c.op = "override" /\ status'[w] = "APPROVED" /\ Advance(c, "delCooling") /\ c.at = "update"
    BY <1>0, <1>14, <1>a DEF MarkOverridden, SetStatus, w
  <2>2. \A d \in About(w)' : d.op # "submit"
    BY <1>d, <1>e, <2>1 DEF Await
  <2> QED  BY <2>1, <2>2, OrderlyDecided DEF w
<1> QED  BY <1>1, <1>2, <1>3, <1>4, <1>5, <1>6, <1>7, <1>8, <1>9, <1>10,
            <1>11, <1>12, <1>13, <1>14 DEF Step

LEMMA OrderlyNext ==
    ASSUME IInv, OrderlyInv, [HistoryNext]_<<vars, historyVars>>
    PROVE  OrderlyInv'
<1> SUFFICES ASSUME NEW w \in Withdrawals, Orderly(w)' PROVE OrderlyOK(w)'
  BY DEF OrderlyInv
<1>0. Orderly(w)
  BY DEF HistoryNext, Orderly, historyVars
<1>1. OrderlyOK(w) /\ ~ Race(w)
  BY <1>0 DEF OrderlyInv, OrderlyOK
<1>2. /\ [Next]_vars /\ ~ Race(w)'
      /\ \A c \in calls :
            Abort(c) /\ c.w = w =>
               /\ ~ (c.op = "approve" /\ c.at \in {"count", "finish"})
               /\ ~ (c.op = "override" /\ c.at = "update")
  BY <1>1, HistoryGrows
<1>3. ASSUME NEW v \in Withdrawals, NEW c, calls' = calls \cup {c}, c.w = v,
             v = w => Served(c)' /\ ~ (c.op = "approve" /\ c.at \in {"finish", "count"}),
             UNCHANGED <<recordVars, fieldVars, rowVars>>
      PROVE  OrderlyOK(w)'
  <2>1. UNCHANGED <<status, current, required, approvedBy, overriddenBy>>
    BY <1>3 DEF recordVars, fieldVars, rowVars
  <2>2. /\ About(w) \subseteq About(w)'
        /\ \A d \in About(w)' \ About(w) : d = c /\ v = w
    BY <1>3 DEF About
  <2> QED  BY <1>1, <1>2, <1>3, <2>1, <2>2, OrderlyStays
<1>4. ASSUME NEW v \in Withdrawals, NEW t \in Thresholds, SubmitForApproval(v, t)
      PROVE  OrderlyOK(w)'
  <2>1. PICK c : /\ calls' = calls \cup {c} /\ c.op = "submit" /\ c.w = v
    BY <1>4, NewSubmission
  <2>2. UNCHANGED <<recordVars, fieldVars, rowVars>> /\ status'[v] = "PENDING"
    BY <1>4 DEF SubmitForApproval, recordVars
  <2>3. Served(c)'
    BY <2>1, <2>2 DEF Served
  <2> QED  BY <1>3, <2>1, <2>2, <2>3
<1>5. ASSUME NEW v \in Withdrawals, NEW a \in Admins,
             ApproveWithdrawal(v, a) \/ RejectWithdrawal(v, a) \/ EmergencyApprove(v, a)
      PROVE  OrderlyOK(w)'
  <2>1. PICK c : /\ calls' = calls \cup {c} /\ c.w = v
                 /\ c.op = "approve" => c.at = "checkCooling" /\ c.seen = current[v]
                 /\ c.op \in {"reject", "override"} => c.at = "record"
                 /\ c.op \in {"approve", "reject", "override"}
    BY <1>5, NewVote
  <2>2. UNCHANGED <<recordVars, fieldVars, rowVars>> /\ UNCHANGED current
    BY <1>5 DEF ApproveWithdrawal, RejectWithdrawal, EmergencyApprove, fieldVars
  <2>3. Served(c)' /\ ~ (c.op = "approve" /\ c.at \in {"finish", "count"})
    BY <2>1, <2>2 DEF Served
  <2> QED  BY <1>3, <2>1, <2>2, <2>3
<1>6. ASSUME NEW c \in calls, Step(c)
      PROVE  OrderlyOK(w)'
  <2>1. CASE c.w = w
    BY <1>1, <1>2, <1>6, <2>1, OrderlyStep
  <2>2. CASE c.w # w
    <3>1. UNCHANGED <<status[w], current[w], required[w], approvedBy[w], overriddenBy[w]>>
      BY <1>6, <2>2, StepIsLocal DEF IInv
    <3>2. About(w)' = About(w)
      <4>1. /\ c \in Call /\ (Return(c) \/ \E at \in Await : Advance(c, at))
        BY <1>6, StepCalls DEF IInv, TypeOK
      <4>2. CASE Return(c)
        BY <2>2, <4>2 DEF Return, About
      <4>3. ASSUME NEW at \in Await, Advance(c, at) PROVE About(w)' = About(w)
        <5>1. PICK e \in Call : calls' = (calls \ {c}) \cup {e} /\ e.w = c.w
          BY <4>1, <4>3, Advanced
        <5> QED  BY <2>2, <5>1 DEF About
      <4> QED  BY <4>1, <4>2, <4>3
    <3> QED  BY <1>1, <1>2, <3>1, <3>2, OrderlyLocal
  <2> QED  BY <2>1, <2>2
<1>7. ASSUME NEW c \in calls, Abort(c)
      PROVE  OrderlyOK(w)'
  <2>1. UNCHANGED <<status, current, required, approvedBy, overriddenBy>>
    BY <1>7 DEF Abort, recordVars, fieldVars, rowVars
  <2>2. /\ \A d \in About(w) \ About(w)' : d = c /\ c.w = w
        /\ About(w)' \subseteq About(w)
    BY <1>7 DEF Abort, Return, About
  <2> QED  BY <1>1, <1>2, <1>7, <2>1, <2>2, OrderlyStays
<1>8. CASE UNCHANGED <<calls, status, fieldVars, rowVars>>
  <2>1. UNCHANGED <<About(w), status, current, required, approvedBy, overriddenBy>>
    BY <1>8 DEF fieldVars, rowVars, About
  <2> QED  BY <1>1, <1>2, <2>1, OrderlyLocal
<1> QED
  BY <1>2, <1>4, <1>5, <1>6, <1>7, <1>8, ApprovalAssumption
  DEF Next, CoolingEnds, recordVars, vars, approvalVars

LEMMA HistoryInvariance == HistorySpec => [](IInv /\ OrderlyInv)
<1>1. HistoryInit => IInv /\ OrderlyInv
  BY InvInit, OrderlyInit DEF HistoryInit
<1>2. IInv /\ OrderlyInv /\ [HistoryNext]_<<vars, historyVars>> => (IInv /\ OrderlyInv)'
  <2>1. [HistoryNext]_<<vars, historyVars>> => [Next]_vars
    BY DEF HistoryNext
  <2> QED  BY <2>1, InvNext, OrderlyNext
<1> QED  BY <1>1, <1>2, PTL DEF HistorySpec

(* Whoever completes the quorum also moves the withdrawal on, for any       *)
(* number of requests that overlap and die, unless two approvals of it      *)
(* overlapped, an override overlapped its submission, or an approval or an  *)
(* override of it died between its row and the update the row calls for.    *)
THEOREM DecidesTheorem == HistorySpec => []QuorumDecides
<1>1. OrderlyInv => QuorumDecides
  <2> SUFFICES ASSUME OrderlyInv, NEW w \in Withdrawals, Orderly(w),
                      status[w] = "PENDING_APPROVAL", \A c \in calls : c.w # w
               PROVE  Cardinality(approvedBy[w]) < OrOne(required[w])
    BY DEF QuorumDecides, Orderly
  <2>1. Rows(w)
    BY DEF OrderlyInv, OrderlyOK
  <2>2. ~ Overriding(w) /\ ~ Counting(w)
    BY DEF Overriding, Counting, About
  <2>3. Waiting(w)
    BY <2>1, <2>2 DEF Rows, Waiting
  <2> QED  BY <2>1, <2>2, <2>3 DEF Rows
<1> QED  BY <1>1, HistoryInvariance, PTL
=============================================================================
