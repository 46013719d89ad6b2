------------------------ MODULE WithdrawalSystem_proofs ------------------------
(***************************************************************************)
(* Proofs about the two withdrawal services together.  What each of them   *)
(* was proved to keep alone is used again where the other one cannot       *)
(* disturb it; what is new is that the rows, the wallet and the queue they *)
(* share keep their invariants under the steps of both.                    *)
(***************************************************************************)
EXTENDS WithdrawalSystem, FiniteSetTheorems, SequenceTheorems, TLAPS

(* The histories of ApprovalHistory play no part here.                     *)
AP == INSTANCE WithdrawalApproval_proofs WITH raced <- {}, died <- {}
PP == INSTANCE WithdrawalPayout_proofs

(* The sizes of sets are the same in the modules of the services.          *)
LEMMA Sizes ==
    /\ \A S : AP!Cardinality(S) = Cardinality(S) /\ Approval!Cardinality(S) = Cardinality(S)
    /\ \A S : AP!IsFiniteSet(S) <=> IsFiniteSet(S)
BY DEF Cardinality, AP!Cardinality, Approval!Cardinality, IsFiniteSet, AP!IsFiniteSet

(* The steps of the services are those their own proofs are about.         *)
LEMMA ApprovalSteps == Approval!Next => AP!Next
<1> USE DEF Approval!Begin, AP!Begin, Approval!Advance, AP!Advance, Approval!Return, AP!Return,
    Approval!SetStatus, AP!SetStatus, Approval!recordVars, AP!recordVars, Approval!fieldVars,
    AP!fieldVars, Approval!coolingVars, AP!coolingVars, Approval!rowVars, AP!rowVars
<1>1. \A w \in Withdrawals, t \in Thresholds : Approval!SubmitForApproval(w, t)
      => AP!SubmitForApproval(w, t)
  BY Sizes DEF Approval!SubmitForApproval, AP!SubmitForApproval, Approval!RequiredApprovals,
    AP!RequiredApprovals
<1>2. \A w \in Withdrawals, a \in Admins : Approval!ApproveWithdrawal(w, a)
      => AP!ApproveWithdrawal(w, a)
  BY Sizes DEF Approval!ApproveWithdrawal, AP!ApproveWithdrawal, Approval!OrOne, AP!OrOne
<1>3. \A w \in Withdrawals, a \in Admins : Approval!RejectWithdrawal(w, a)
      => AP!RejectWithdrawal(w, a)
  BY Sizes DEF Approval!RejectWithdrawal, AP!RejectWithdrawal
<1>4. \A w \in Withdrawals, a \in SuperAdmins : Approval!EmergencyApprove(w, a)
      => AP!EmergencyApprove(w, a)
  BY Sizes DEF Approval!EmergencyApprove, AP!EmergencyApprove, Approval!OrOne, AP!OrOne
<1>5. \A c \in calls :
         /\ Approval!AutoApprove(c) => AP!AutoApprove(c)
         /\ Approval!StartCooling(c) => AP!StartCooling(c)
         /\ Approval!PublishPending(c) => AP!PublishPending(c)
         /\ Approval!CheckCooling(c) => AP!CheckCooling(c)
  BY Sizes DEF Approval!AutoApprove, AP!AutoApprove, Approval!StartCooling, AP!StartCooling,
    Approval!PublishPending, AP!PublishPending, Approval!CheckCooling, AP!CheckCooling,
    Approval!OrOne, AP!OrOne
<1>6. \A c \in calls :
         /\ Approval!RecordApproval(c) => AP!RecordApproval(c)
         /\ Approval!FullyApprove(c) => AP!FullyApprove(c)
         /\ Approval!CountApproval(c) => AP!CountApproval(c)
         /\ Approval!Enqueue(c) => AP!Enqueue(c)
  BY Sizes DEF Approval!RecordApproval, AP!RecordApproval, Approval!FullyApprove, AP!FullyApprove,
    Approval!CountApproval, AP!CountApproval, Approval!Enqueue, AP!Enqueue, Approval!OrOne,
    AP!OrOne, Approval!Lpush, AP!Lpush
<1>7. \A c \in calls :
         /\ Approval!RecordRejection(c) => AP!RecordRejection(c)
         /\ Approval!MarkRejected(c) => AP!MarkRejected(c)
         /\ Approval!RefundRejected(c) => AP!RefundRejected(c)
         /\ Approval!DeleteCooling(c) => AP!DeleteCooling(c)
  BY Sizes DEF Approval!RecordRejection, AP!RecordRejection, Approval!MarkRejected,
    AP!MarkRejected, Approval!RefundRejected, AP!RefundRejected, Approval!DeleteCooling,
    AP!DeleteCooling, Approval!OrOne, AP!OrOne, Approval!Credit, AP!Credit
<1>8. \A c \in calls :
         /\ Approval!RecordOverride(c) => AP!RecordOverride(c)
         /\ Approval!MarkOverridden(c) => AP!MarkOverridden(c)
         /\ Approval!Abort(c) => AP!Abort(c)
  BY Sizes DEF Approval!RecordOverride, AP!RecordOverride, Approval!MarkOverridden,
    AP!MarkOverridden, Approval!Abort, AP!Abort, Approval!OrOne, AP!OrOne
<1>9. \A w \in Withdrawals : Approval!CoolingEnds(w) => AP!CoolingEnds(w)
  BY DEF Approval!CoolingEnds, AP!CoolingEnds
<1> QED BY <1>1, <1>2, <1>3, <1>4, <1>5, <1>6, <1>7, <1>8, <1>9
        DEF Approval!Next, AP!Next, Approval!Step, AP!Step

LEMMA PayoutSteps == Payout!Next => PP!Next
BY DEF Payout!Next, PP!Next, Payout!RequestWithdrawal, PP!RequestWithdrawal, Payout!RequestStep,
       PP!RequestStep, Payout!DebitBalance, PP!DebitBalance, Payout!DebitThrows, PP!DebitThrows,
       Payout!MarkDebitFailed, PP!MarkDebitFailed, Payout!PushRequest, PP!PushRequest,
       Payout!RequestDies, PP!RequestDies, Payout!PopQueue, PP!PopQueue, Payout!JobStep,
       PP!JobStep, Payout!StartExecution, PP!StartExecution, Payout!SendTransaction,
       PP!SendTransaction, Payout!MarkCompleted, PP!MarkCompleted, Payout!NotifyCompleted,
       PP!NotifyCompleted, Payout!MarkFailed, PP!MarkFailed, Payout!RefundFailed,
       PP!RefundFailed, Payout!NotFailed, PP!NotFailed, Payout!AutoWithdraw, PP!AutoWithdraw,
       Payout!JobDies, PP!JobDies, Payout!To, PP!To, Payout!Goto, PP!Goto,
       Payout!Done, PP!Done, Payout!Broadcast, PP!Broadcast, Payout!SetStatus, PP!SetStatus,
       Payout!Lpush, PP!Lpush, Payout!LpushTwice, PP!LpushTwice, Payout!Credit, PP!Credit,
       Payout!recordVars, PP!recordVars

---------------------------------------------------------------------------
(* Types                                                                   *)

TypeOK == AP!TypeOK /\ PP!TypeOK

LEMMA TypeInit == Init => TypeOK
BY RecordsAssumption, SystemAssumption
   DEF Init, Payout!Init, Payout!PayoutInit, Approval!ApprovalInit, TypeOK, AP!TypeOK, PP!TypeOK,
       AP!RecordsTypeOK, PP!RecordsTypeOK, AP!WithdrawalStatus, PP!WithdrawalStatus,
       AP!ApprovalStatus, AP!QueueItem, PP!QueueItem, Payout!FaultKinds

(* The services agree on the types of what they share.                     *)
LEMMA SharedTypes ==
    (AP!RecordsTypeOK <=> PP!RecordsTypeOK) /\ (AP!RecordsTypeOK' <=> PP!RecordsTypeOK')
BY DEF AP!RecordsTypeOK, PP!RecordsTypeOK, AP!WithdrawalStatus, PP!WithdrawalStatus,
       AP!QueueItem, PP!QueueItem

LEMMA TypeNext == TypeOK /\ [Next]_vars => TypeOK'
<1> SUFFICES ASSUME TypeOK, [Next]_vars PROVE TypeOK'
  OBVIOUS
<1>1. CASE Approval!Next /\ UNCHANGED payoutVars
  <2>1. AP!TypeOK'
    BY <1>1, ApprovalSteps, AP!TypeNext, RecordsAssumption, SystemAssumption, Sizes DEF TypeOK
  <2>2. PP!TypeOK'
    BY <1>1, <2>1, SharedTypes DEF TypeOK, AP!TypeOK, PP!TypeOK, payoutVars
  <2> QED BY <2>1, <2>2 DEF TypeOK
<1>2. CASE Payout!Next /\ UNCHANGED approvalVars
  <2>1. PP!TypeOK'
    BY <1>2, PayoutSteps, PP!TypeNext, RecordsAssumption, SystemAssumption
       DEF TypeOK, PP!FaultKinds
  <2>2. AP!TypeOK'
    BY <1>2, <2>1, SharedTypes DEF TypeOK, AP!TypeOK, PP!TypeOK, approvalVars, AP!Call
  <2> QED BY <2>1, <2>2 DEF TypeOK
<1>3. CASE UNCHANGED vars
  BY <1>3 DEF vars, recordVars, approvalVars, payoutVars, TypeOK, AP!TypeOK, PP!TypeOK,
     AP!RecordsTypeOK, PP!RecordsTypeOK
<1> QED BY <1>1, <1>2, <1>3 DEF Next

(* The rows, the wallet, the queue and the requests and executions of both *)
(* services keep their types.                                              *)
THEOREM SystemTypes == Spec => []TypeOK
BY TypeInit, TypeNext, PTL DEF Spec

---------------------------------------------------------------------------
(* What approval promises survives the payouts                             *)

(* A withdrawal without a row was never submitted.                         *)
RowsFirst == \A w \in Withdrawals : status[w] = "NONE" => approvalStatus[w] = "NONE"

ApprovalInv == TypeOK /\ RowsFirst /\ AP!IInv /\ AP!CoolingInv

(* Payouts write three statuses over whatever is there, and a request      *)
(* makes a row; none of them sends a withdrawal to its approvers.          *)
LEMMA PayoutStatuses ==
    ASSUME TypeOK, Payout!Next, NEW w \in Withdrawals
    PROVE  \/ status'[w] = status[w]
           \/ status'[w] \in {"PROCESSING", "COMPLETED", "FAILED"}
           \/ status[w] = "NONE" /\ status'[w] = "PENDING"
<1>1. /\ status \in [Withdrawals -> WithdrawalStatus \cup {"NONE"}]
      /\ \A r \in requests : r.w \in Withdrawals
      /\ \A j \in jobs : j.complete \/ j.at \in {"send", "complete"} => j.w \in Withdrawals
  BY DEF TypeOK, AP!TypeOK, AP!RecordsTypeOK, AP!WithdrawalStatus, WithdrawalStatus, PP!TypeOK,
         PP!Request, PP!Job
<1>2. \A v \in Withdrawals, s \in {"PROCESSING", "COMPLETED", "FAILED", "PENDING"} :
          Payout!SetStatus(v, s) => /\ status'[v] = s
                                    /\ w # v => status'[w] = status[w]
  BY <1>1 DEF Payout!SetStatus
<1>3. CASE \E v \in Withdrawals : Payout!RequestWithdrawal(v)
  BY <1>2, <1>3 DEF Payout!RequestWithdrawal
<1>4. ASSUME NEW r \in requests, Payout!RequestStep(r) \/ Payout!RequestDies(r)
      PROVE  status'[w] = status[w] \/ status'[w] = "FAILED"
  BY <1>1, <1>2, <1>4 DEF Payout!RequestStep, Payout!DebitBalance, Payout!DebitThrows,
     Payout!MarkDebitFailed, Payout!PushRequest, Payout!RequestDies, Payout!recordVars
<1>5. ASSUME NEW j \in jobs, Payout!JobStep(j) \/ Payout!JobDies(j)
      PROVE  status'[w] = status[w] \/ status'[w] \in {"PROCESSING", "COMPLETED", "FAILED"}
  BY <1>1, <1>2, <1>5 DEF Payout!JobStep, Payout!StartExecution, Payout!SendTransaction,
     Payout!MarkCompleted, Payout!NotifyCompleted, Payout!MarkFailed, Payout!RefundFailed,
     Payout!AutoWithdraw, Payout!JobDies, Payout!recordVars
<1>6. CASE \E i \in 1 .. MaxJobs : Payout!PopQueue(i)
  BY <1>6 DEF Payout!PopQueue
<1> QED BY <1>3, <1>4, <1>5, <1>6 DEF Payout!Next

(* Each decision of an approval gives the withdrawal a status of its own.  *)
LEMMA DecisionsSetStatus ==
    ASSUME TypeOK, Approval!Next, NEW w \in Withdrawals
    PROVE  /\ status'[w] = "NONE" => status[w] = "NONE"
           /\ status'[w] = "NONE" => approvalStatus'[w] = approvalStatus[w]
<1>1. /\ status \in [Withdrawals -> WithdrawalStatus \cup {"NONE"}]
      /\ approvalStatus \in [Withdrawals -> AP!ApprovalStatus]
      /\ \A c \in calls : c.w \in Withdrawals
  BY DEF TypeOK, AP!TypeOK, AP!RecordsTypeOK, AP!WithdrawalStatus, WithdrawalStatus, AP!Call
<1>2. ASSUME NEW c \in calls, NEW s \in WithdrawalStatus, NEW a \in AP!ApprovalStatus,
             Approval!SetStatus(c.w, s), approvalStatus' = [approvalStatus EXCEPT ![c.w] = a]
      PROVE  /\ status'[w] = "NONE" => status[w] = "NONE"
             /\ status'[w] = "NONE" => approvalStatus'[w] = approvalStatus[w]
  BY <1>1, <1>2 DEF Approval!SetStatus, WithdrawalStatus
<1>3. ASSUME NEW c \in calls,
             \/ Approval!AutoApprove(c) \/ Approval!PublishPending(c) \/ Approval!FullyApprove(c)
             \/ Approval!MarkRejected(c) \/ Approval!MarkOverridden(c)
      PROVE  \E s \in WithdrawalStatus, a \in AP!ApprovalStatus :
                Approval!SetStatus(c.w, s) /\ approvalStatus' = [approvalStatus EXCEPT ![c.w] = a]
  BY <1>3 DEF Approval!AutoApprove, Approval!PublishPending, Approval!FullyApprove,
     Approval!MarkRejected, Approval!MarkOverridden, WithdrawalStatus, AP!ApprovalStatus
<1>4. ASSUME NEW c \in calls, Approval!Step(c) \/ Approval!Abort(c),
             ~(\/ Approval!AutoApprove(c) \/ Approval!PublishPending(c)
               \/ Approval!FullyApprove(c) \/ Approval!MarkRejected(c)
               \/ Approval!MarkOverridden(c))
      PROVE  UNCHANGED <<status, approvalStatus>>
  BY <1>4 DEF Approval!Step, Approval!Abort, Approval!StartCooling, Approval!CheckCooling,
     Approval!RecordApproval, Approval!CountApproval, Approval!Enqueue,
     Approval!RecordRejection, Approval!RefundRejected, Approval!DeleteCooling,
     Approval!RecordOverride, Approval!recordVars, Approval!fieldVars
<1>5. CASE ~ \E c \in calls : Approval!Step(c) \/ Approval!Abort(c)
  BY <1>5 DEF Approval!Next, Approval!SubmitForApproval, Approval!ApproveWithdrawal,
     Approval!RejectWithdrawal, Approval!EmergencyApprove, Approval!CoolingEnds,
     Approval!recordVars, Approval!fieldVars
<1> QED BY <1>2, <1>3, <1>4, <1>5

(* A payout leaves every promise of approval as it is: the requests being  *)
(* served know nothing of the statuses that payouts write.                 *)
LEMMA PayoutKeepsApproval ==
    ASSUME ApprovalInv, TypeOK', Payout!Next, UNCHANGED approvalVars
    PROVE  ApprovalInv'
<1>1. RowsFirst'
  BY PayoutStatuses DEF ApprovalInv, RowsFirst, approvalVars
<1>2. AP!CallInv' /\ AP!SubmitOnce'
  BY DEF ApprovalInv, AP!IInv, AP!CallInv, AP!CallOK, AP!Supported, AP!PhaseInv, AP!SubmitOnce,
         approvalVars
<1>3. ASSUME NEW w \in Withdrawals
      PROVE  AP!PhaseOK(w)'
  <2>1. AP!PhaseOK(w) /\ (status[w] = "NONE" => approvalStatus[w] = "NONE")
    BY DEF ApprovalInv, AP!IInv, AP!PhaseInv, RowsFirst
  <2>2. /\ AP!Submitting(w)' = AP!Submitting(w) /\ AP!Voting(w)' = AP!Voting(w)
        /\ approvalStatus' = approvalStatus
    BY DEF AP!Submitting, AP!Voting, approvalVars
  <2>3. \/ status'[w] = status[w]
        \/ status'[w] \in {"PROCESSING", "COMPLETED", "FAILED"}
        \/ status[w] = "NONE" /\ status'[w] = "PENDING"
    BY PayoutStatuses DEF ApprovalInv
  <2> QED BY <2>1, <2>2, <2>3 DEF AP!PhaseOK
<1>4. AP!QuorumRespected'
  BY DEF ApprovalInv, AP!IInv, AP!QuorumRespected, AP!OrOne, approvalVars
<1>5. ASSUME NEW w \in Withdrawals,
             (status[w] = "PENDING_APPROVAL" \/ overriddenBy[w] = {})'
      PROVE  (current[w] <= AP!Cardinality(approvedBy[w]))'
  <2>1. status[w] = "PENDING_APPROVAL" \/ overriddenBy[w] = {}
    BY <1>5, PayoutStatuses DEF ApprovalInv, approvalVars
  <2> QED BY <2>1 DEF ApprovalInv, AP!IInv, AP!CountBackedByRows, approvalVars
<1>6. AP!CountBackedByRows'
  BY <1>5 DEF AP!CountBackedByRows
<1>7. AP!CoolingInv'
  BY DEF ApprovalInv, AP!CoolingInv, AP!DeletersDispute, AP!CoolingOK, AP!Undisputed,
         AP!PastCooling, approvalVars
<1>8. AP!PhaseInv'
  BY <1>2, <1>3 DEF AP!PhaseInv
<1> QED BY <1>1, <1>2, <1>4, <1>6, <1>7, <1>8 DEF ApprovalInv, AP!IInv, TypeOK

LEMMA ApprovalInit == Init => ApprovalInv
<1> SUFFICES ASSUME Init PROVE ApprovalInv
  OBVIOUS
<1>1. /\ calls = {} /\ approvalStatus = [w \in Withdrawals |-> "NONE"]
      /\ status = [w \in Withdrawals |-> "NONE"] /\ current = [w \in Withdrawals |-> 0]
      /\ cooling = [w \in Withdrawals |-> "none"]
      /\ approvedBy = [w \in Withdrawals |-> {}]
  BY DEF Init, Payout!Init, Payout!PayoutInit, Approval!ApprovalInit
<1>2. RowsFirst /\ AP!CallInv /\ AP!PhaseInv /\ AP!QuorumRespected /\ AP!CoolingInv
  BY <1>1 DEF RowsFirst, AP!CallInv, AP!PhaseInv, AP!SubmitOnce, AP!PhaseOK, AP!Submitting,
     AP!Voting, AP!QuorumRespected, AP!CoolingInv, AP!DeletersDispute, AP!CoolingOK
<1>3. AP!CountBackedByRows
  BY <1>1, Sizes, FS_EmptySet DEF AP!CountBackedByRows
<1> QED BY <1>2, <1>3, TypeInit DEF ApprovalInv, AP!IInv, TypeOK

LEMMA ApprovalNext == ApprovalInv /\ [Next]_vars => ApprovalInv'
<1> SUFFICES ASSUME ApprovalInv, [Next]_vars PROVE ApprovalInv'
  OBVIOUS
<1>0. TypeOK /\ TypeOK'
  BY TypeNext DEF ApprovalInv
<1>1. CASE Approval!Next /\ UNCHANGED payoutVars
  <2>1. AP!IInv'
    BY <1>1, ApprovalSteps, AP!InvNext, RecordsAssumption, SystemAssumption, Sizes
       DEF ApprovalInv
  <2>2. AP!CoolingInv'
    BY <1>1, ApprovalSteps, AP!CoolingNext, RecordsAssumption, SystemAssumption, Sizes
       DEF ApprovalInv
  <2>3. RowsFirst'
    BY <1>0, <1>1, DecisionsSetStatus DEF ApprovalInv, RowsFirst
  <2> QED BY <1>0, <2>1, <2>2, <2>3 DEF ApprovalInv
<1>2. CASE Payout!Next /\ UNCHANGED approvalVars
  BY <1>0, <1>2, PayoutKeepsApproval
<1>3. CASE UNCHANGED vars
  <2>1. AP!IInv' /\ AP!CoolingInv'
    <3>1. UNCHANGED AP!vars
      BY <1>3 DEF vars, recordVars, approvalVars, AP!vars, AP!recordVars, AP!approvalVars,
         AP!fieldVars, AP!coolingVars, AP!rowVars
    <3> QED BY <3>1, AP!InvNext, AP!CoolingNext, RecordsAssumption, SystemAssumption, Sizes
            DEF ApprovalInv
  <2>2. RowsFirst'
    BY <1>3 DEF ApprovalInv, RowsFirst, vars, recordVars, approvalVars
  <2> QED BY <1>0, <2>1, <2>2 DEF ApprovalInv
<1> QED BY <1>1, <1>2, <1>3 DEF Next

LEMMA ApprovalInvariance == Spec => []ApprovalInv
BY ApprovalInit, ApprovalNext, PTL DEF Spec

(* Although payouts overwrite the status of withdrawals that are still     *)
(* being approved, no withdrawal is fully approved without its quorum, no  *)
(* count runs ahead of the rows and the cooling period is honoured.        *)
THEOREM SystemApproval ==
    Spec => [](/\ Approval!QuorumRespected
               /\ Approval!CountBackedByRows
               /\ Approval!CoolingHonoured)
<1>1. ApprovalInv => /\ Approval!QuorumRespected
                     /\ Approval!CountBackedByRows
                     /\ Approval!CoolingHonoured
  BY Sizes DEF ApprovalInv, AP!IInv, AP!QuorumRespected, AP!CountBackedByRows, AP!OrOne,
         AP!CoolingInv, AP!CoolingOK, AP!Undisputed, Approval!QuorumRespected, Approval!OrOne,
         Approval!CountBackedByRows, Approval!CoolingHonoured
<1> QED BY <1>1, ApprovalInvariance, PTL

(* Each step of the system is a step of ApprovalGate, or none: payouts     *)
(* leave what the gate shows as it is.                                     *)
LEMMA GateSteps == ApprovalInv /\ [Next]_vars => [AP!Gate!Next]_(AP!Gate!vars)
<1> SUFFICES ASSUME ApprovalInv, [Next]_vars PROVE [AP!Gate!Next]_(AP!Gate!vars)
  OBVIOUS
<1>1. CASE Approval!Next
  BY <1>1, ApprovalSteps, AP!GateNext, RecordsAssumption, SystemAssumption, Sizes
     DEF ApprovalInv
<1>2. CASE ~Approval!Next
  BY <1>2 DEF AP!Gate!vars, Next, vars, approvalVars
<1> QED BY <1>1, <1>2

(* The gate of the service and the gate its proofs are about are the same. *)
LEMMA GateSame == [AP!Gate!Next]_(AP!Gate!vars) => [Approval!Gate!Next]_(Approval!Gate!vars)
<1>1. \A S : Approval!Gate!Cardinality(S) = AP!Gate!Cardinality(S)
  BY DEF Approval!Gate!Cardinality, AP!Gate!Cardinality
<1>2. AP!Counts = Approval!Counts
  BY DEF AP!Counts, Approval!Counts, AP!RequiredApprovals, Approval!RequiredApprovals
<1> QED
  BY <1>1, <1>2 DEF AP!Gate!Next, AP!Gate!vars, Approval!Gate!Next, Approval!Gate!vars, AP!Gate!Open,
     Approval!Gate!Open, AP!Gate!Approve, Approval!Gate!Approve, AP!Gate!Reject,
     Approval!Gate!Reject, AP!Gate!Override, Approval!Gate!Override, AP!Gate!Decide,
     Approval!Gate!Decide, AP!Gate!Quorum, Approval!Gate!Quorum

(* The two services together still implement the promise of multi-signature *)
(* approval: no payout changes a verdict or a vote.                        *)
THEOREM SystemGate == Spec => Approval!ImplementsGate
<1>1. Init => Approval!Gate!Init
  BY DEF Init, Approval!ApprovalInit, Approval!Gate!Init
<1> QED BY <1>1, GateSteps, GateSame, ApprovalInvariance, PTL
        DEF Spec, Approval!ImplementsGate, Approval!Gate!Spec

---------------------------------------------------------------------------
(* Nothing is settled that was not reserved                                *)

(* Whatever may lead to a payment or to a refund of a withdrawal comes     *)
(* after the debit that reserved its funds: only such withdrawals are      *)
(* submitted, only they can be rejected, and a request pushes a complete   *)
(* item only after its debit.  What approval pushes is never complete.     *)
RowsBacked ==
    \A w \in Withdrawals :
        onchain[w] > 0 \/ credits[w] > 0 \/ status[w] = "PENDING_APPROVAL" => debited[w]
RequestsBacked == \A r \in requests : r.at = "push" => debited[r.w]
ItemsBacked == \A i \in DOMAIN queue : queue[i].complete => debited[queue[i].id]
JobsBacked ==
    \A j \in jobs : /\ j.complete => debited[j.w]
                    /\ j.at \in {"send", "complete", "notify"} => j.complete
CallsBacked == \A c \in calls : c.op \in {"submit", "reject"} => debited[c.w]

Backed == RowsBacked /\ RequestsBacked /\ ItemsBacked /\ JobsBacked /\ CallsBacked

LEMMA Typed ==
    ASSUME TypeOK
    PROVE  /\ \A r \in requests : r \in PP!Request /\ r.w \in Withdrawals
           /\ \A j \in jobs :
                 /\ j \in PP!Job /\ j.w \in Withdrawals \cup {NoId} /\ j.complete \in BOOLEAN
                 /\ j.complete \/ j.at \in {"send", "complete", "notify", "autoWithdraw"} =>
                       j.w \in Withdrawals
           /\ \A c \in calls : c \in AP!Call /\ c.w \in Withdrawals
           /\ queue \in Seq(PP!QueueItem)
           /\ \A i \in DOMAIN queue : /\ queue[i].id \in Withdrawals \cup {NoId}
                                     /\ queue[i].complete \in BOOLEAN
                                     /\ queue[i].complete => queue[i].id \in Withdrawals
           /\ onchain \in [Withdrawals -> Nat] /\ credits \in [Withdrawals -> Nat]
           /\ debited \in [Withdrawals -> BOOLEAN]
           /\ status \in [Withdrawals -> WithdrawalStatus \cup {"NONE"}]
<1>1. queue \in Seq(PP!QueueItem)
  BY DEF TypeOK, PP!TypeOK, PP!RecordsTypeOK
<1>2. \A i \in DOMAIN queue : /\ queue[i].id \in Withdrawals \cup {NoId}
                              /\ queue[i].complete \in BOOLEAN
                              /\ queue[i].complete => queue[i].id \in Withdrawals
  <2>1. DOMAIN queue = 1 .. Len(queue) /\ \A i \in 1 .. Len(queue) : queue[i] \in PP!QueueItem
    BY <1>1
  <2> QED BY <2>1 DEF PP!QueueItem
<1> QED
  BY <1>1, <1>2 DEF TypeOK, AP!TypeOK, PP!TypeOK, PP!RecordsTypeOK, PP!Request, PP!Job, AP!Call,
     PP!WithdrawalStatus, WithdrawalStatus

(* What can lead to a payment names a withdrawal.                          *)
LEMMA Carriers ==
    ASSUME TypeOK
    PROVE  /\ \A i \in DOMAIN queue : queue[i].complete => queue[i].id \in Withdrawals
           /\ \A j \in jobs : j.complete => j.w \in Withdrawals
           /\ \A r \in requests : r.w \in Withdrawals
<1>1. \A i \in DOMAIN queue : queue[i].complete => queue[i].id \in Withdrawals
  <2>1. queue \in Seq(PP!QueueItem)
    BY DEF TypeOK, PP!TypeOK, PP!RecordsTypeOK
  <2>2. \A i \in DOMAIN queue : queue[i] \in PP!QueueItem
    BY <2>1
  <2> QED BY <2>2 DEF PP!QueueItem
<1>2. \A j \in jobs : j.complete => j.w \in Withdrawals
  BY DEF TypeOK, PP!TypeOK, PP!Job
<1>3. \A r \in requests : r.w \in Withdrawals
  BY Typed
<1> QED BY <1>1, <1>2, <1>3

(* A debit is never undone.                                                *)
LEMMA DebitsStay ==
    ASSUME TypeOK, Next, NEW w \in Withdrawals, debited[w]
    PROVE  debited'[w]
<1>1. debited \in [Withdrawals -> BOOLEAN]
  BY Typed
<1>2. CASE UNCHANGED debited
  BY <1>2
<1>3. ASSUME NEW v \in Withdrawals, debited' = [debited EXCEPT ![v] = TRUE]
      PROVE  debited'[w]
  BY <1>1, <1>3
<1>4. CASE Approval!Next
  BY <1>2, <1>4 DEF Approval!Next, Approval!SubmitForApproval, Approval!ApproveWithdrawal,
     Approval!RejectWithdrawal, Approval!EmergencyApprove, Approval!CoolingEnds, Approval!Abort,
     Approval!Step, Approval!AutoApprove, Approval!StartCooling, Approval!PublishPending,
     Approval!CheckCooling, Approval!RecordApproval, Approval!FullyApprove,
     Approval!CountApproval, Approval!Enqueue, Approval!RecordRejection, Approval!MarkRejected,
     Approval!RefundRejected, Approval!DeleteCooling, Approval!RecordOverride,
     Approval!MarkOverridden, Approval!recordVars
<1>5. CASE Payout!Next
  <2>1. ASSUME NEW r \in requests, Payout!DebitBalance(r)
        PROVE  debited'[w]
    BY <1>2, <1>3, <2>1, Typed DEF Payout!DebitBalance
  <2>2. CASE ~ \E r \in requests : Payout!DebitBalance(r)
    BY <1>2, <1>5, <2>2 DEF Payout!Next, Payout!RequestWithdrawal, Payout!RequestStep,
       Payout!DebitThrows, Payout!MarkDebitFailed, Payout!PushRequest, Payout!RequestDies,
       Payout!PopQueue, Payout!JobStep, Payout!StartExecution, Payout!SendTransaction,
       Payout!MarkCompleted, Payout!NotifyCompleted, Payout!MarkFailed, Payout!RefundFailed,
       Payout!AutoWithdraw, Payout!JobDies, Payout!recordVars
  <2> QED BY <2>1, <2>2
<1> QED BY <1>4, <1>5 DEF Next

(* What a push makes of the queue: the new item once or twice, then what   *)
(* was there.                                                              *)
LEMMA Pushed ==
    ASSUME TypeOK, NEW new \in PP!QueueItem, NEW first \in {<<new>>, <<new, new>>},
           queue' = first \o queue
    PROVE  \E n \in {1, 2} : \A i \in DOMAIN queue' :
              \/ queue'[i] = new
              \/ i \in Nat /\ i - n \in DOMAIN queue /\ queue'[i] = queue[i - n]
<1>1. queue \in Seq(PP!QueueItem)
  BY Typed
<1>2. /\ first \in Seq(PP!QueueItem) /\ Len(first) \in {1, 2}
      /\ \A k \in 1 .. Len(first) : first[k] = new
  <2>1. /\ <<new>> \in Seq(PP!QueueItem) /\ Len(<<new>>) = 1 /\ <<new>>[1] = new
    OBVIOUS
  <2>2. /\ <<new, new>> \in Seq(PP!QueueItem) /\ Len(<<new, new>>) = 2
        /\ <<new, new>>[1] = new /\ <<new, new>>[2] = new
    OBVIOUS
  <2>3. CASE first = <<new>>
    BY <2>1, <2>3
  <2>4. CASE first = <<new, new>>
    <3>1. Len(first) = 2 /\ \A k \in 1 .. 2 : k = 1 \/ k = 2
      BY <2>2, <2>4
    <3> QED BY <2>2, <2>4, <3>1
  <2> QED BY <2>3, <2>4
<1>3. /\ Len(first \o queue) = Len(first) + Len(queue)
      /\ \A k \in 1 .. Len(first) + Len(queue) : (first \o queue)[k] =
             IF k <= Len(first) THEN first[k] ELSE queue[k - Len(first)]
      /\ first \o queue \in Seq(PP!QueueItem)
  BY <1>1, <1>2, ConcatProperties
<1>4. ASSUME NEW i \in DOMAIN queue'
      PROVE  \/ queue'[i] = new
             \/ /\ i \in Nat /\ i - Len(first) \in DOMAIN queue
                /\ queue'[i] = queue[i - Len(first)]
  <2>1. i \in 1 .. Len(first) + Len(queue) /\ Len(queue) \in Nat /\ DOMAIN queue = 1 .. Len(queue)
    BY <1>1, <1>3, <1>4
  <2>2. CASE i <= Len(first)
    BY <1>2, <1>3, <2>1, <2>2
  <2>3. CASE ~(i <= Len(first))
    <3>1. i - Len(first) \in DOMAIN queue /\ i \in Nat
      BY <1>2, <2>1, <2>3
    <3> QED BY <1>3, <2>1, <2>3, <3>1
  <2> QED BY <2>2, <2>3
<1> QED BY <1>2, <1>4

(* Approval and auto-withdraw push items that no payout can execute.       *)
LEMMA PushedIncomplete ==
    ASSUME TypeOK,
           \/ \E c \in calls : Approval!Enqueue(c)
           \/ \E j \in jobs : Payout!AutoWithdraw(j)
    PROVE  \E n \in {1, 2} : \A i \in DOMAIN queue' : queue'[i].complete =>
              \/ queue' = queue
              \/ i \in Nat /\ i - n \in DOMAIN queue /\ queue'[i] = queue[i - n]
<1>1. \A c \in calls : c.w \in Withdrawals
  BY Typed
<1>2. CASE UNCHANGED queue
  BY <1>2
<1>3. CASE \E w \in Withdrawals \cup {NoId} :
              LET new == [id |-> w, complete |-> FALSE]
              IN queue' = <<new>> \o queue \/ queue' = <<new, new>> \o queue
  <2>1. PICK w \in Withdrawals \cup {NoId} :
                LET new == [id |-> w, complete |-> FALSE]
                IN queue' = <<new>> \o queue \/ queue' = <<new, new>> \o queue
    BY <1>3
  <2> DEFINE new == [id |-> w, complete |-> FALSE]
  <2>2. new \in PP!QueueItem /\ ~ new.complete
    BY DEF PP!QueueItem
  <2>3. PICK first \in {<<new>>, <<new, new>>} : queue' = first \o queue
    BY <2>1
  <2> HIDE DEF new
  <2> QED BY <2>2, <2>3, Pushed
<1> QED BY <1>1, <1>2, <1>3
        DEF Approval!Enqueue, Approval!Lpush, Payout!AutoWithdraw, Payout!Lpush, Payout!LpushTwice

(* An item of the queue that a payout can execute was there already, or is *)
(* the one a request was about to push.                                    *)
LEMMA ItemsFrom ==
    ASSUME TypeOK, Next, NEW i \in DOMAIN queue', queue'[i].complete
    PROVE  \/ \E k \in DOMAIN queue : queue'[i] = queue[k]
           \/ \E r \in requests : r.at = "push" /\ queue'[i].id = r.w
<1>1. queue \in Seq(PP!QueueItem) /\ \A c \in calls : c.w \in Withdrawals
  BY Typed
<1>2. CASE UNCHANGED queue
  BY <1>2
<1>3. CASE (\E c \in calls : Approval!Enqueue(c)) \/ (\E j \in jobs : Payout!AutoWithdraw(j))
  BY <1>2, <1>3, PushedIncomplete
<1>4. ASSUME NEW r \in requests, Payout!PushRequest(r)
      PROVE  (\E k \in DOMAIN queue : queue'[i] = queue[k]) \/ queue'[i].id = r.w
  <2> DEFINE new == [id |-> r.w, complete |-> TRUE]
  <2>1. PICK first \in {<<new>>, <<new, new>>} : queue' = first \o queue
    BY <1>4 DEF Payout!PushRequest, Payout!Lpush, Payout!LpushTwice
  <2>2. new \in PP!QueueItem /\ new.id = r.w
    BY Typed DEF PP!QueueItem
  <2> HIDE DEF new
  <2> QED BY <2>1, <2>2, Pushed
<1>5. ASSUME NEW n \in 1 .. MaxJobs, Payout!PopQueue(n)
      PROVE  \E k \in DOMAIN queue : queue'[i] = queue[k]
  BY <1>1, <1>5, PP!PopShape, RecordsAssumption, SystemAssumption
     DEF Payout!PopQueue, PP!FaultKinds
<1>6. CASE Approval!Next
  <2>1. CASE \E c \in calls : Approval!Enqueue(c)
    BY <1>3, <2>1
  <2>2. CASE ~ \E c \in calls : Approval!Enqueue(c)
    BY <1>2, <1>6, <2>2 DEF Approval!Next, Approval!SubmitForApproval,
       Approval!ApproveWithdrawal, Approval!RejectWithdrawal, Approval!EmergencyApprove,
       Approval!CoolingEnds, Approval!Abort, Approval!Step, Approval!AutoApprove,
       Approval!StartCooling, Approval!PublishPending, Approval!CheckCooling,
       Approval!RecordApproval, Approval!FullyApprove, Approval!CountApproval,
       Approval!RecordRejection, Approval!MarkRejected, Approval!RefundRejected,
       Approval!DeleteCooling, Approval!RecordOverride, Approval!MarkOverridden,
       Approval!recordVars
  <2> QED BY <2>1, <2>2
<1>7. CASE Payout!Next
  <2>1. CASE \E r \in requests : Payout!PushRequest(r)
    BY <1>4, <2>1 DEF Payout!PushRequest
  <2>2. CASE \E n \in 1 .. MaxJobs : Payout!PopQueue(n)
    BY <1>5, <2>2
  <2>3. CASE \E j \in jobs : Payout!AutoWithdraw(j)
    BY <1>3, <2>3
  <2>4. CASE /\ ~(\E r \in requests : Payout!PushRequest(r))
             /\ ~(\E n \in 1 .. MaxJobs : Payout!PopQueue(n))
             /\ ~(\E j \in jobs : Payout!AutoWithdraw(j))
    BY <1>2, <1>7, <2>4 DEF Payout!Next, Payout!RequestWithdrawal, Payout!RequestStep,
       Payout!DebitBalance, Payout!DebitThrows, Payout!MarkDebitFailed, Payout!RequestDies,
       Payout!JobStep, Payout!StartExecution, Payout!SendTransaction, Payout!MarkCompleted,
       Payout!NotifyCompleted, Payout!MarkFailed, Payout!RefundFailed, Payout!JobDies,
       Payout!recordVars
  <2> QED BY <2>1, <2>2, <2>3, <2>4
<1> QED BY <1>6, <1>7 DEF Next

(* Where a request of the approval service comes from.                     *)
LEMMA CallsFrom ==
    ASSUME TypeOK, Approval!Next, NEW d \in calls'
    PROVE  \/ \E c \in calls : d.op = c.op /\ d.w = c.w
           \/ d.op = "submit" /\ d.w \in Withdrawals /\ debited[d.w]
           \/ d.op = "reject" /\ d.w \in Withdrawals /\ status[d.w] = "PENDING_APPROVAL"
           \/ d.op \in {"approve", "override"}
<1> DEFINE Known(e) == \E c \in calls : e.op = c.op /\ e.w = c.w
<1>1. ASSUME NEW w \in Withdrawals, NEW t \in Thresholds, Approval!SubmitForApproval(w, t)
      PROVE  \/ Known(d)
             \/ d.op = "submit" /\ d.w \in Withdrawals /\ debited[d.w]
  BY <1>1 DEF Approval!SubmitForApproval, Approval!Begin
<1>2. ASSUME NEW w \in Withdrawals, NEW a, Approval!RejectWithdrawal(w, a)
      PROVE  \/ Known(d)
             \/ d.op = "reject" /\ d.w \in Withdrawals /\ status[d.w] = "PENDING_APPROVAL"
  BY <1>2 DEF Approval!RejectWithdrawal, Approval!Begin
<1>3. ASSUME NEW w \in Withdrawals, NEW a,
             Approval!ApproveWithdrawal(w, a) \/ Approval!EmergencyApprove(w, a)
      PROVE  Known(d) \/ d.op \in {"approve", "override"}
  BY <1>3 DEF Approval!ApproveWithdrawal, Approval!EmergencyApprove, Approval!Begin
<1>4. ASSUME NEW c \in calls, Approval!Step(c) \/ Approval!Abort(c)
      PROVE  Known(d)
  <2>1. c \in AP!Call
    BY Typed
  <2>2. Approval!Return(c) \/ \E at : Approval!Advance(c, at)
    BY <1>4 DEF Approval!Step, Approval!Abort, Approval!AutoApprove, Approval!StartCooling,
       Approval!PublishPending, Approval!CheckCooling, Approval!RecordApproval,
       Approval!FullyApprove, Approval!CountApproval, Approval!Enqueue,
       Approval!RecordRejection, Approval!MarkRejected, Approval!RefundRejected,
       Approval!DeleteCooling, Approval!RecordOverride, Approval!MarkOverridden
  <2>3. ASSUME NEW at, Approval!Advance(c, at)
        PROVE  Known(d)
    <3>1. [c EXCEPT !.at = at].op = c.op /\ [c EXCEPT !.at = at].w = c.w
      BY <2>1 DEF AP!Call
    <3> QED BY <2>3, <3>1 DEF Approval!Advance
  <2> QED BY <2>2, <2>3 DEF Approval!Return
<1>5. CASE \E w \in Withdrawals : Approval!CoolingEnds(w)
  BY <1>5 DEF Approval!CoolingEnds
<1> QED BY <1>1, <1>2, <1>3, <1>4, <1>5 DEF Approval!Next

LEMMA BackedCalls ==
    ASSUME TypeOK, Backed, Next
    PROVE  CallsBacked'
<1>1. ASSUME NEW d \in calls', d.op \in {"submit", "reject"}
      PROVE  debited'[d.w]
  <2>1. d.w \in Withdrawals /\ debited[d.w]
    <3>1. CASE Approval!Next
      BY <1>1, <3>1, CallsFrom, Typed DEF Backed, CallsBacked, RowsBacked
    <3>2. CASE UNCHANGED calls
      BY <1>1, <3>2, Typed DEF Backed, CallsBacked
    <3> QED BY <3>1, <3>2 DEF Next, approvalVars
  <2> QED BY <2>1, DebitsStay
<1> QED BY <1>1 DEF CallsBacked

LEMMA BackedItems ==
    ASSUME TypeOK, TypeOK', Backed, Next
    PROVE  ItemsBacked'
<1>1. ASSUME NEW i \in DOMAIN queue', queue'[i].complete
      PROVE  debited'[queue'[i].id]
  <2>1. queue'[i].id \in Withdrawals /\ debited[queue'[i].id]
    <3>1. ASSUME NEW k \in DOMAIN queue, queue'[i] = queue[k]
          PROVE  queue'[i].id \in Withdrawals /\ debited[queue'[i].id]
      <4>1. queue[k].complete /\ queue[k].id = queue'[i].id
        BY <1>1, <3>1
      <4>2. queue[k].id \in Withdrawals /\ debited[queue[k].id]
        BY <4>1, Carriers DEF Backed, ItemsBacked
      <4> QED BY <4>1, <4>2
    <3>2. ASSUME NEW r \in requests, r.at = "push", queue'[i].id = r.w
          PROVE  queue'[i].id \in Withdrawals /\ debited[queue'[i].id]
      BY <3>2, Typed DEF Backed, RequestsBacked
    <3> QED BY <1>1, <3>1, <3>2, ItemsFrom
  <2> QED BY <2>1, DebitsStay
<1> QED BY <1>1 DEF ItemsBacked

(* The record that replaces a request or an execution that goes on.        *)
LEMMA Moved ==
    ASSUME TypeOK
    PROVE  /\ \A r \in requests : \A step :
                 [r EXCEPT !.at = step].w = r.w /\ [r EXCEPT !.at = step].at = step
           /\ \A j \in jobs : \A step :
                 /\ [j EXCEPT !.at = step].w = j.w /\ [j EXCEPT !.at = step].at = step
                 /\ [j EXCEPT !.at = step].complete = j.complete
BY Typed DEF PP!Request, PP!Job

LEMMA BackedRequests ==
    ASSUME TypeOK, TypeOK', Backed, Next
    PROVE  RequestsBacked'
<1>1. ASSUME NEW s \in requests', s.at = "push"
      PROVE  debited'[s.w]
  <2>1. CASE s \in requests
    BY <1>1, <2>1, Typed, DebitsStay DEF Backed, RequestsBacked
  <2>2. CASE s \notin requests
    <3>1. ASSUME NEW w \in Withdrawals, Payout!RequestWithdrawal(w)
          PROVE  FALSE
      BY <1>1, <2>2, <3>1 DEF Payout!RequestWithdrawal
    <3>2. ASSUME NEW r \in requests, Payout!DebitBalance(r)
          PROVE  debited'[s.w]
      <4>1. CASE balance >= Amount[r.w]
        <5>1. s = [r EXCEPT !.at = "push"] /\ debited' = [debited EXCEPT ![r.w] = TRUE]
          BY <2>2, <3>2, <4>1 DEF Payout!DebitBalance, Payout!To
        <5>2. s.w = r.w /\ r.w \in Withdrawals
          BY <5>1, Moved, Typed
        <5> QED BY <5>1, <5>2, Typed
      <4>2. CASE ~(balance >= Amount[r.w])
        <5>1. s = [r EXCEPT !.at = "markFailed"]
          BY <2>2, <3>2, <4>2 DEF Payout!DebitBalance, Payout!To
        <5>2. s.at = "markFailed"
          BY <5>1, Moved
        <5> QED BY <1>1, <5>2
      <4> QED BY <4>1, <4>2
    <3>3. ASSUME NEW r \in requests, Payout!DebitThrows(r)
          PROVE  FALSE
      <4>1. s = [r EXCEPT !.at = "markFailed"]
        BY <2>2, <3>3 DEF Payout!DebitThrows, Payout!To
      <4>2. s.at = "markFailed"
        BY <4>1, Moved
      <4> QED BY <1>1, <4>2
    <3>4. requests' # requests /\ ~(requests' \subseteq requests)
      BY <2>2
    <3> QED BY <3>1, <3>2, <3>3, <3>4 DEF Next, payoutVars, Payout!Next, Payout!RequestStep,
            Payout!MarkDebitFailed, Payout!PushRequest, Payout!RequestDies, Payout!PopQueue,
            Payout!JobStep, Payout!StartExecution, Payout!SendTransaction, Payout!MarkCompleted,
            Payout!NotifyCompleted, Payout!MarkFailed, Payout!RefundFailed, Payout!AutoWithdraw, Payout!JobDies
  <2> QED BY <2>1, <2>2
<1> QED BY <1>1 DEF RequestsBacked

LEMMA BackedJobs ==
    ASSUME TypeOK, TypeOK', Backed, Next
    PROVE  JobsBacked'
<1> DEFINE Safe(k) == /\ k.complete => debited'[k.w]
                      /\ k.at \in {"send", "complete", "notify"} => k.complete
<1>1. ASSUME NEW k \in jobs'
      PROVE  Safe(k)
  <2>1. CASE k \in jobs
    BY <2>1, Typed, DebitsStay DEF Backed, JobsBacked
  <2>2. CASE k \notin jobs
    <3>1. ASSUME NEW n \in 1 .. MaxJobs, Payout!PopQueue(n)
          PROVE  Safe(k)
      <4> DEFINE last == queue[Len(queue)]
      <4>1. Len(queue) \in DOMAIN queue
        BY <3>1, Typed, PP!PopShape, RecordsAssumption, SystemAssumption
           DEF Payout!PopQueue, PP!FaultKinds
      <4>2. k.w = last.id /\ k.complete = last.complete /\ k.at = "start"
        BY <2>2, <3>1 DEF Payout!PopQueue
      <4>3. last.complete => last.id \in Withdrawals /\ debited[last.id]
        BY <4>1, Carriers DEF Backed, ItemsBacked
      <4> HIDE DEF last
      <4>4. k.complete => debited'[k.w]
        BY <4>2, <4>3, DebitsStay
      <4> QED BY <4>2, <4>4
    <3>2. ASSUME NEW j \in jobs, Payout!JobStep(j)
          PROVE  Safe(k)
      <4>1. PICK step \in {"send", "complete", "notify", "fail", "refund", "autoWithdraw"} :
                /\ k = [j EXCEPT !.at = step]
                /\ step = "send" => j.complete
                /\ step \in {"complete", "notify"} => j.at \in {"send", "complete", "notify"}
        BY <2>2, <3>2 DEF Payout!JobStep, Payout!StartExecution, Payout!SendTransaction,
           Payout!MarkCompleted, Payout!NotifyCompleted, Payout!MarkFailed, Payout!RefundFailed,
           Payout!AutoWithdraw, Payout!Goto, Payout!Done
      <4>2. k.w = j.w /\ k.complete = j.complete /\ k.at = step
        BY <4>1, Moved
      <4> QED BY <4>1, <4>2, Typed, DebitsStay DEF Backed, JobsBacked
    <3>3. ~(jobs' \subseteq jobs)
      BY <2>2
    <3> QED BY <3>1, <3>2, <3>3 DEF Next, payoutVars, Payout!Next, Payout!RequestWithdrawal,
            Payout!RequestStep, Payout!DebitBalance, Payout!DebitThrows, Payout!MarkDebitFailed,
            Payout!PushRequest, Payout!RequestDies, Payout!JobDies, Payout!Done
  <2> QED BY <2>1, <2>2
<1> QED BY <1>1 DEF JobsBacked

(* Who sends, who gives back, and who asks the approvers.                  *)
LEMMA SendsFrom ==
    ASSUME TypeOK, Next, NEW w \in Withdrawals, onchain'[w] # onchain[w]
    PROVE  \E j \in jobs : j.w = w /\ j.at = "send" /\ onchain' = [onchain EXCEPT ![w] = @ + 1]
<1>1. ASSUME NEW j \in jobs, Payout!SendTransaction(j)
      PROVE  j.w = w /\ j.at = "send" /\ onchain' = [onchain EXCEPT ![w] = @ + 1]
  BY <1>1, Typed DEF Payout!SendTransaction, Payout!Broadcast
<1>2. onchain' # onchain
  OBVIOUS
<1>3. CASE \E j \in jobs : Payout!SendTransaction(j)
  BY <1>1, <1>3
<1>4. CASE ~ \E j \in jobs : Payout!SendTransaction(j)
  BY <1>2, <1>4 DEF Next, payoutVars, Payout!Next, Payout!RequestWithdrawal, Payout!RequestStep,
     Payout!DebitBalance, Payout!DebitThrows, Payout!MarkDebitFailed, Payout!PushRequest,
     Payout!RequestDies, Payout!PopQueue, Payout!JobStep, Payout!StartExecution,
     Payout!MarkCompleted, Payout!NotifyCompleted, Payout!MarkFailed, Payout!RefundFailed,
     Payout!AutoWithdraw, Payout!JobDies
<1> QED BY <1>3, <1>4

LEMMA CreditsFrom ==
    ASSUME ApprovalInv, Next, NEW w \in Withdrawals, credits'[w] # credits[w]
    PROVE  \/ \E j \in jobs : j.w = w /\ j.complete
           \/ \E c \in calls : c.w = w /\ c.op = "reject"
<1>0. TypeOK /\ credits' # credits
  BY DEF ApprovalInv
<1>1. ASSUME NEW j \in jobs, Payout!RefundFailed(j)
      PROVE  j.w = w /\ j.complete
  BY <1>0, <1>1, Typed DEF Payout!RefundFailed, Payout!Credit
<1>2. ASSUME NEW c \in calls, Approval!RefundRejected(c)
      PROVE  c.w = w /\ c.op = "reject"
  <2>1. c.w = w
    BY <1>0, <1>2, Typed DEF Approval!RefundRejected, Approval!Credit
  <2>2. c.op = "reject"
    BY <1>2 DEF Approval!RefundRejected, ApprovalInv, AP!IInv, AP!CallInv, AP!CallOK, AP!Supported
  <2> QED BY <2>1, <2>2
<1>3. CASE Approval!Next
  <2>1. \E c \in calls : Approval!RefundRejected(c)
    BY <1>0, <1>3 DEF Approval!Next, Approval!SubmitForApproval, Approval!ApproveWithdrawal,
     Approval!RejectWithdrawal, Approval!EmergencyApprove, Approval!CoolingEnds, Approval!Abort,
     Approval!Step, Approval!AutoApprove, Approval!StartCooling, Approval!PublishPending,
     Approval!CheckCooling, Approval!RecordApproval, Approval!FullyApprove,
     Approval!CountApproval, Approval!Enqueue, Approval!RecordRejection, Approval!MarkRejected,
     Approval!DeleteCooling, Approval!RecordOverride,
     Approval!MarkOverridden, Approval!recordVars
  <2> QED BY <1>2, <2>1
<1>4. CASE Payout!Next
  <2>1. \E j \in jobs : Payout!RefundFailed(j)
    BY <1>0, <1>4 DEF Payout!Next, Payout!RequestWithdrawal, Payout!RequestStep,
       Payout!DebitBalance, Payout!DebitThrows, Payout!MarkDebitFailed, Payout!PushRequest,
       Payout!RequestDies, Payout!PopQueue, Payout!JobStep, Payout!StartExecution,
       Payout!SendTransaction, Payout!MarkCompleted, Payout!NotifyCompleted, Payout!MarkFailed,
       Payout!AutoWithdraw, Payout!JobDies, Payout!recordVars
  <2> QED BY <1>1, <2>1
<1> QED BY <1>3, <1>4 DEF Next

LEMMA PendingFrom ==
    ASSUME ApprovalInv, Next, NEW w \in Withdrawals, status'[w] = "PENDING_APPROVAL",
           status[w] # "PENDING_APPROVAL"
    PROVE  \E c \in calls : c.w = w /\ c.op = "submit"
<1>0. TypeOK /\ status' # status
  BY DEF ApprovalInv
<1>1. Approval!Next
  BY <1>0, PayoutStatuses DEF Next
<1>2. ASSUME NEW c \in calls, Approval!PublishPending(c)
      PROVE  c.w = w /\ c.op = "submit"
  <2>1. c.w = w
    BY <1>0, <1>2, Typed DEF Approval!PublishPending, Approval!SetStatus
  <2>2. c.op = "submit"
    BY <1>2 DEF Approval!PublishPending, ApprovalInv, AP!IInv, AP!CallInv, AP!CallOK, AP!Supported
  <2> QED BY <2>1, <2>2
<1>3. ASSUME NEW c \in calls,
             \/ Approval!AutoApprove(c) \/ Approval!FullyApprove(c)
             \/ Approval!MarkRejected(c) \/ Approval!MarkOverridden(c)
      PROVE  FALSE
  BY <1>0, <1>3, Typed DEF Approval!AutoApprove, Approval!FullyApprove, Approval!MarkRejected,
     Approval!MarkOverridden, Approval!SetStatus
<1>4. \E c \in calls :
          \/ Approval!PublishPending(c)
          \/ Approval!AutoApprove(c) \/ Approval!FullyApprove(c)
          \/ Approval!MarkRejected(c) \/ Approval!MarkOverridden(c)
  BY <1>0, <1>1 DEF Approval!Next, Approval!SubmitForApproval, Approval!ApproveWithdrawal,
     Approval!RejectWithdrawal, Approval!EmergencyApprove, Approval!CoolingEnds, Approval!Abort,
     Approval!Step, Approval!StartCooling, Approval!CheckCooling, Approval!RecordApproval,
     Approval!CountApproval, Approval!Enqueue, Approval!RecordRejection,
     Approval!RefundRejected, Approval!DeleteCooling, Approval!RecordOverride,
     Approval!recordVars
<1> QED BY <1>2, <1>3, <1>4

LEMMA BackedRows ==
    ASSUME ApprovalInv, Backed, Next
    PROVE  RowsBacked'
<1>0. TypeOK
  BY DEF ApprovalInv
<1>1. ASSUME NEW w \in Withdrawals,
             onchain'[w] > 0 \/ credits'[w] > 0 \/ status'[w] = "PENDING_APPROVAL"
      PROVE  debited'[w]
  <2>1. CASE onchain'[w] # onchain[w] \/ credits'[w] # credits[w]
    <3>1. (\E j \in jobs : j.w = w /\ j.complete) \/ \E c \in calls : c.w = w /\ c.op = "reject"
      BY <1>0, <2>1, SendsFrom, CreditsFrom DEF Backed, JobsBacked
    <3> QED BY <1>0, <3>1, DebitsStay DEF Backed, JobsBacked, CallsBacked
  <2>2. CASE status'[w] = "PENDING_APPROVAL" /\ status[w] # "PENDING_APPROVAL"
    BY <1>0, <2>2, PendingFrom, DebitsStay DEF Backed, CallsBacked
  <2>3. CASE onchain[w] > 0 \/ credits[w] > 0 \/ status[w] = "PENDING_APPROVAL"
    BY <1>0, <2>3, DebitsStay DEF Backed, RowsBacked
  <2> QED BY <1>1, <2>1, <2>2, <2>3
<1> QED BY <1>1 DEF RowsBacked

LEMMA BackedInit == Init => Backed
BY DEF Init, Payout!Init, Payout!PayoutInit, Approval!ApprovalInit, Backed, RowsBacked,
       RequestsBacked, ItemsBacked, JobsBacked, CallsBacked

LEMMA BackedNext == ApprovalInv /\ Backed /\ [Next]_vars => Backed'
<1> SUFFICES ASSUME ApprovalInv, Backed, [Next]_vars PROVE Backed'
  OBVIOUS
<1>1. TypeOK /\ TypeOK'
  BY TypeNext DEF ApprovalInv
<1>2. CASE Next
  BY <1>1, <1>2, BackedRows, BackedRequests, BackedItems, BackedJobs, BackedCalls DEF Backed
<1>3. CASE UNCHANGED vars
  BY <1>3 DEF vars, recordVars, approvalVars, payoutVars, Backed, RowsBacked, RequestsBacked,
     ItemsBacked, JobsBacked, CallsBacked
<1> QED BY <1>2, <1>3

LEMMA BackedInvariance == Spec => []Backed
BY ApprovalInvariance, BackedInit, BackedNext, PTL DEF Spec

(* Nothing is sent or given back for a withdrawal whose funds were never   *)
(* reserved, for any number of withdrawals, overrides, rejections and      *)
(* executions in any order, and whatever fails.                            *)
THEOREM SettlementTheorem == Spec => []SettlementReserved
<1>1. Backed => SettlementReserved
  BY DEF Backed, RowsBacked, SettlementReserved
<1> QED BY <1>1, BackedInvariance, PTL

---------------------------------------------------------------------------
(* A withdrawal is sent at most once                                       *)

(* As long as Redis is not asked twice for one push, at most one carrier   *)
(* of a withdrawal can lead to a payment: the request that made its row,   *)
(* then its complete item, then the execution of that item.  Items pushed  *)
(* by approvals are not complete and lead to none, however many there are. *)
Unsent(w) == status[w] # "NONE" /\ onchain[w] = 0

RowsOnce == \A w \in Withdrawals : onchain[w] <= 1 /\ (status[w] = "NONE" => onchain[w] = 0)
RequestsOnce == \A r \in requests : Unsent(r.w)
ItemsOnce == \A i \in DOMAIN queue : queue[i].complete => Unsent(queue[i].id)
JobsOnce ==
    \A j \in jobs :
        j.complete => status[j.w] # "NONE" /\ (j.at \in {"start", "send"} => Unsent(j.w))

RequestsApart ==
    \A r \in requests :
        /\ \A s \in requests : r.w = s.w => r = s
        /\ \A i \in DOMAIN queue : queue[i].complete => queue[i].id # r.w
        /\ \A j \in jobs : j.complete => j.w # r.w
ItemsApart ==
    \A i \in DOMAIN queue : queue[i].complete =>
        /\ \A k \in DOMAIN queue : queue[k].complete /\ queue[i].id = queue[k].id => i = k
        /\ \A j \in jobs : j.complete => j.w # queue[i].id
JobsApart == \A j, k \in jobs : j.complete /\ k.complete /\ j.w = k.w => j = k

Once ==
    /\ RowsOnce /\ RequestsOnce /\ ItemsOnce /\ JobsOnce
    /\ RequestsApart /\ ItemsApart /\ JobsApart

(* No row is ever deleted.                                                 *)
LEMMA RowsStay ==
    ASSUME TypeOK, Next, NEW w \in Withdrawals, status'[w] = "NONE"
    PROVE  status[w] = "NONE"
<1>1. CASE Approval!Next
  BY <1>1, DecisionsSetStatus
<1>2. CASE Payout!Next
  BY <1>2, PayoutStatuses
<1> QED BY <1>1, <1>2 DEF Next

(* A request that goes on, or ends, without pushing.                       *)
LEMMA OnceRequestMoves ==
    ASSUME TypeOK, Once, Next, NEW r \in requests, NEW next, next.w = r.w,
           requests' \subseteq (requests \ {r}) \cup {next},
           UNCHANGED <<queue, jobs, onchain>>
    PROVE  Once'
<1>1. RowsOnce' /\ RequestsOnce'
  BY RowsStay, Carriers DEF Once, RowsOnce, RequestsOnce, Unsent
<1>2. ItemsOnce' /\ JobsOnce'
  BY RowsStay, Carriers DEF Once, ItemsOnce, JobsOnce, Unsent
<1>3. RequestsApart'
  BY DEF Once, RequestsApart
<1>4. ItemsApart' /\ JobsApart'
  BY DEF Once, ItemsApart, JobsApart
<1> QED BY <1>1, <1>2, <1>3, <1>4 DEF Once

(* An execution that goes on, or ends; what it sends, it sends for its own *)
(* withdrawal, which nobody else carries.                                  *)
LEMMA OnceJobMoves ==
    ASSUME TypeOK, Once, Next, NEW j \in jobs, NEW next, next.w = j.w,
           next.complete = j.complete,
           jobs' \subseteq (jobs \ {j}) \cup {next},
           UNCHANGED <<queue, requests>>,
           UNCHANGED onchain \/ j.complete,
           \A v \in Withdrawals \ {j.w} : onchain'[v] = onchain[v],
           j.complete => onchain'[j.w] <= 1,
           next.complete /\ next.at \in {"start", "send"} => onchain'[j.w] = 0
    PROVE  Once'
<1>0. j.complete => j.w \in Withdrawals
  BY Carriers
<1>1. ASSUME onchain' # onchain
      PROVE  /\ \A r \in requests : r.w # j.w
             /\ \A i \in DOMAIN queue : queue[i].complete => queue[i].id # j.w
             /\ \A k \in jobs \ {j} : k.complete => k.w # j.w
             /\ status[j.w] # "NONE"
  BY <1>1 DEF Once, RequestsApart, ItemsApart, JobsApart, JobsOnce
<1>2. RowsOnce'
  BY <1>0, <1>1, RowsStay, Carriers DEF Once, RowsOnce
<1>3. RequestsOnce'
  BY <1>0, <1>1, RowsStay, Carriers DEF Once, RequestsOnce, Unsent
<1>4. ItemsOnce'
  BY <1>0, <1>1, RowsStay, Carriers DEF Once, ItemsOnce, Unsent
<1>5. JobsOnce'
  BY <1>0, <1>1, RowsStay, Carriers DEF Once, JobsOnce, Unsent
<1>6. RequestsApart'
  BY DEF Once, RequestsApart
<1>7. ItemsApart'
  BY DEF Once, ItemsApart
<1>8. JobsApart'
  BY DEF Once, JobsApart
<1> QED BY <1>2, <1>3, <1>4, <1>5, <1>6, <1>7, <1>8 DEF Once

(* Approval and auto-withdraw push nothing that can lead to a payment.      *)
LEMMA OnceIncomplete ==
    ASSUME TypeOK, Once, Next, UNCHANGED <<requests, onchain>>, jobs' \subseteq jobs,
           \/ UNCHANGED queue
           \/ \E c \in calls : Approval!Enqueue(c)
           \/ \E j \in jobs : Payout!AutoWithdraw(j)
    PROVE  Once'
<1>1. PICK n \in {1, 2} : \A i \in DOMAIN queue' : queue'[i].complete =>
              \/ queue' = queue
              \/ i \in Nat /\ i - n \in DOMAIN queue /\ queue'[i] = queue[i - n]
  BY PushedIncomplete
<1>2. RowsOnce'
  BY RowsStay DEF Once, RowsOnce
<1>3. RequestsOnce' /\ JobsOnce'
  BY RowsStay, Carriers DEF Once, RequestsOnce, JobsOnce, Unsent
<1>4. ASSUME NEW i \in DOMAIN queue', queue'[i].complete
      PROVE  \E m \in DOMAIN queue : queue'[i] = queue[m]
  BY <1>1, <1>4
<1>5. ItemsOnce'
  BY <1>4, RowsStay, Carriers DEF Once, ItemsOnce, Unsent
<1>6. RequestsApart'
  BY <1>4 DEF Once, RequestsApart
<1>7. ASSUME NEW i \in DOMAIN queue', NEW k \in DOMAIN queue', queue'[i].complete,
             queue'[k].complete, queue'[i].id = queue'[k].id
      PROVE  i = k
  <2>1. CASE queue' = queue
    BY <1>7, <2>1 DEF Once, ItemsApart
  <2>2. CASE queue' # queue
    <3>1. /\ i \in Nat /\ i - n \in DOMAIN queue /\ queue'[i] = queue[i - n]
          /\ k \in Nat /\ k - n \in DOMAIN queue /\ queue'[k] = queue[k - n]
      BY <1>1, <1>7, <2>2
    <3>2. i - n = k - n
      BY <1>7, <3>1 DEF Once, ItemsApart
    <3> QED BY <3>1, <3>2
  <2> QED BY <2>1, <2>2
<1>8. ItemsApart'
  BY <1>4, <1>7 DEF Once, ItemsApart
<1>9. JobsApart'
  BY DEF Once, JobsApart
<1> QED BY <1>2, <1>3, <1>5, <1>6, <1>8, <1>9 DEF Once

LEMMA OnceApproval ==
    ASSUME TypeOK, Once, Approval!Next, UNCHANGED payoutVars
    PROVE  Once'
<1>1. Next /\ UNCHANGED <<requests, jobs, onchain>>
  BY DEF Next, payoutVars
<1>2. UNCHANGED queue \/ \E c \in calls : Approval!Enqueue(c)
  BY DEF Approval!Next, Approval!SubmitForApproval,
     Approval!ApproveWithdrawal, Approval!RejectWithdrawal, Approval!EmergencyApprove,
     Approval!CoolingEnds, Approval!Abort, Approval!Step, Approval!AutoApprove,
     Approval!StartCooling, Approval!PublishPending, Approval!CheckCooling,
     Approval!RecordApproval, Approval!FullyApprove, Approval!CountApproval,
     Approval!RecordRejection, Approval!MarkRejected, Approval!RefundRejected,
     Approval!DeleteCooling, Approval!RecordOverride, Approval!MarkOverridden,
     Approval!recordVars
<1> QED BY <1>1, <1>2, OnceIncomplete

(* The request of a new row is the first carrier of its withdrawal.        *)
LEMMA OnceRequest ==
    ASSUME TypeOK, Once, Next, NEW w \in Withdrawals, Payout!RequestWithdrawal(w)
    PROVE  Once'
<1> DEFINE new == [w |-> w, at |-> "debit"]
<1>1. /\ requests' = requests \cup {new} /\ new.w = w
      /\ status[w] = "NONE" /\ status'[w] = "PENDING"
      /\ UNCHANGED <<queue, jobs, onchain>>
  BY Typed DEF Payout!RequestWithdrawal, Payout!SetStatus
<1> HIDE DEF new
<1>2. /\ \A r \in requests : r.w # w
      /\ \A i \in DOMAIN queue : queue[i].complete => queue[i].id # w
      /\ \A j \in jobs : j.complete => j.w # w
      /\ onchain[w] = 0
  BY <1>1 DEF Once, RowsOnce, RequestsOnce, ItemsOnce, JobsOnce, Unsent
<1>3. RowsOnce' /\ RequestsOnce'
  BY <1>1, <1>2, RowsStay, Carriers DEF Once, RowsOnce, RequestsOnce, Unsent
<1>4. ItemsOnce' /\ JobsOnce'
  BY <1>1, RowsStay, Carriers DEF Once, ItemsOnce, JobsOnce, Unsent
<1>5. RequestsApart'
  BY <1>1, <1>2 DEF Once, RequestsApart
<1>6. ItemsApart' /\ JobsApart'
  BY <1>1 DEF Once, ItemsApart, JobsApart
<1> QED BY <1>3, <1>4, <1>5, <1>6 DEF Once

(* A request hands its withdrawal over to one item.                        *)
LEMMA OncePush ==
    ASSUME TypeOK, Once, Next, NEW r \in requests, Payout!PushRequest(r),
           "duplicate" \notin faults
    PROVE  Once'
<1>1. /\ requests' = requests \ {r} /\ UNCHANGED <<jobs, onchain>>
      /\ r.w \in Withdrawals /\ queue \in Seq(PP!QueueItem) /\ PP!Lpush(r.w, TRUE)
      /\ [id |-> r.w, complete |-> TRUE] \in PP!QueueItem
  BY Typed DEF Payout!PushRequest, Payout!Lpush, PP!Lpush, PP!QueueItem
<1>2. /\ DOMAIN queue' = 1 .. Len(queue) + 1
      /\ queue'[1] = [id |-> r.w, complete |-> TRUE]
      /\ \A k \in 2 .. Len(queue) + 1 : k - 1 \in DOMAIN queue /\ queue'[k] = queue[k - 1]
  BY <1>1, PP!PushShape, RecordsAssumption, SystemAssumption DEF PP!FaultKinds
<1>3. \A i \in DOMAIN queue' :
          \/ i = 1 /\ queue'[i].id = r.w
          \/ i # 1 /\ i \in Nat /\ i - 1 \in DOMAIN queue /\ queue'[i] = queue[i - 1]
  <2>1. Len(queue) \in Nat
    BY <1>1
  <2>2. \A i \in 1 .. Len(queue) + 1 : i \in Nat /\ (i = 1 \/ i \in 2 .. Len(queue) + 1)
    BY <2>1
  <2> QED BY <1>2, <2>2
<1>4. /\ \A s \in requests' : s.w # r.w
      /\ \A i \in DOMAIN queue : queue[i].complete => queue[i].id # r.w
      /\ \A j \in jobs : j.complete => j.w # r.w
      /\ Unsent(r.w)
  BY <1>1 DEF Once, RequestsApart, RequestsOnce
<1>5. RowsOnce' /\ RequestsOnce' /\ JobsOnce'
  BY <1>1, RowsStay, Carriers DEF Once, RowsOnce, RequestsOnce, JobsOnce, Unsent
<1>6. ItemsOnce'
  BY <1>1, <1>3, <1>4, RowsStay, Carriers DEF Once, ItemsOnce, Unsent
<1>7. RequestsApart'
  BY <1>1, <1>3, <1>4 DEF Once, RequestsApart
<1>8. ASSUME NEW i \in DOMAIN queue', NEW k \in DOMAIN queue', queue'[i].complete,
             queue'[k].complete, queue'[i].id = queue'[k].id
      PROVE  i = k
  <2>1. CASE i = 1 \/ k = 1
    BY <1>3, <1>4, <1>8, <2>1
  <2>2. CASE i # 1 /\ k # 1
    <3>1. /\ i \in Nat /\ i - 1 \in DOMAIN queue /\ queue'[i] = queue[i - 1]
          /\ k \in Nat /\ k - 1 \in DOMAIN queue /\ queue'[k] = queue[k - 1]
      BY <1>3, <2>2
    <3>2. i - 1 = k - 1
      BY <1>8, <3>1 DEF Once, ItemsApart
    <3> QED BY <3>1, <3>2
  <2> QED BY <2>1, <2>2
<1>9. ItemsApart'
  BY <1>1, <1>3, <1>4, <1>8 DEF Once, ItemsApart
<1>10. JobsApart'
  BY <1>1 DEF Once, JobsApart
<1> QED BY <1>5, <1>6, <1>7, <1>9, <1>10 DEF Once

(* An item hands its withdrawal over to one execution.                     *)
LEMMA OncePop ==
    ASSUME TypeOK, Once, Next, NEW n \in 1 .. MaxJobs, Payout!PopQueue(n)
    PROVE  Once'
<1> DEFINE last == queue[Len(queue)]
           new == [id |-> n, w |-> last.id, complete |-> last.complete, at |-> "start"]
<1>1. /\ jobs' = jobs \cup {new} /\ UNCHANGED <<status, requests, onchain>>
      /\ queue # <<>> /\ queue' = SubSeq(queue, 1, Len(queue) - 1)
      /\ queue \in Seq(PP!QueueItem)
      /\ new.w = last.id /\ new.complete = last.complete
  BY Typed DEF Payout!PopQueue
<1>2. /\ Len(queue) \in DOMAIN queue
      /\ \A k \in DOMAIN queue' : k \in DOMAIN queue /\ k # Len(queue) /\ queue'[k] = queue[k]
  BY <1>1, PP!PopShape, RecordsAssumption, SystemAssumption DEF PP!FaultKinds
<1>3. last.complete =>
          /\ Unsent(last.id)
          /\ \A j \in jobs : j.complete => j.w # last.id
          /\ \A r \in requests : r.w # last.id
          /\ \A k \in DOMAIN queue' : queue'[k].complete => queue'[k].id # last.id
  BY <1>2 DEF Once, ItemsOnce, RequestsApart, ItemsApart
<1> HIDE DEF last, new
<1>4. RowsOnce' /\ RequestsOnce'
  BY <1>1 DEF Once, RowsOnce, RequestsOnce, Unsent
<1>5. ItemsOnce'
  BY <1>1, <1>2 DEF Once, ItemsOnce, Unsent
<1>6. JobsOnce'
  BY <1>1, <1>3 DEF Once, JobsOnce, Unsent
<1>7. RequestsApart'
  BY <1>1, <1>2, <1>3 DEF Once, RequestsApart
<1>8. ItemsApart'
  BY <1>1, <1>2, <1>3 DEF Once, ItemsApart
<1>9. JobsApart'
  BY <1>1, <1>3 DEF Once, JobsApart
<1> QED BY <1>4, <1>5, <1>6, <1>7, <1>8, <1>9 DEF Once

(* Only the execution of a complete item that has not sent yet sends.      *)
LEMMA OnceJob ==
    ASSUME TypeOK, Backed, Once, Next, NEW j \in jobs, Payout!JobStep(j) \/ Payout!JobDies(j),
           ~ Payout!AutoWithdraw(j)
    PROVE  Once'
<1>1. /\ j.complete => j.w \in Withdrawals /\ onchain[j.w] <= 1
      /\ j.complete /\ j.at \in {"start", "send"} => onchain[j.w] = 0
      /\ j.at = "send" => j.complete
  BY Carriers DEF Once, RowsOnce, JobsOnce, Unsent, Backed, JobsBacked
<1>2. UNCHANGED <<queue, requests>>
  BY DEF Payout!JobStep, Payout!StartExecution, Payout!SendTransaction, Payout!MarkCompleted,
     Payout!NotifyCompleted, Payout!MarkFailed, Payout!RefundFailed, Payout!JobDies,
     Payout!recordVars
<1>3. CASE UNCHANGED onchain
  <2>1. \/ Payout!Done(j)
        \/ j.at \in {"start", "send"} /\ Payout!Goto(j, "send")
        \/ \E step \in {"complete", "notify", "fail", "refund", "autoWithdraw"} :
              Payout!Goto(j, step)
    BY <1>3 DEF Payout!JobStep, Payout!StartExecution, Payout!SendTransaction,
       Payout!MarkCompleted, Payout!NotifyCompleted, Payout!MarkFailed, Payout!RefundFailed,
       Payout!JobDies
  <2>2. CASE Payout!Done(j)
    <3> DEFINE next == [j EXCEPT !.at = "fail"]
    <3>1. /\ jobs' \subseteq (jobs \ {j}) \cup {next}
          /\ next.at = "fail" /\ next.w = j.w /\ next.complete = j.complete
      BY <2>2, Moved DEF Payout!Done
    <3> HIDE DEF next
    <3> QED BY <1>1, <1>2, <1>3, <3>1, OnceJobMoves
  <2>3. ASSUME NEW step, Payout!Goto(j, step),
               step \in {"start", "send"} => j.at \in {"start", "send"}
        PROVE  Once'
    <3> DEFINE next == [j EXCEPT !.at = step]
    <3>1. /\ jobs' \subseteq (jobs \ {j}) \cup {next}
          /\ next.at = step /\ next.w = j.w /\ next.complete = j.complete
      BY <2>3, Moved DEF Payout!Goto
    <3> HIDE DEF next
    <3> QED BY <1>1, <1>2, <1>3, <2>3, <3>1, OnceJobMoves
  <2> QED BY <2>1, <2>2, <2>3
<1>4. CASE ~ UNCHANGED onchain
  <2>1. /\ j.at = "send" /\ onchain' = [onchain EXCEPT ![j.w] = @ + 1]
        /\ \E step \in {"complete", "fail"} : Payout!Goto(j, step)
    BY <1>4 DEF Payout!JobStep, Payout!StartExecution, Payout!SendTransaction,
       Payout!MarkCompleted, Payout!NotifyCompleted, Payout!MarkFailed, Payout!RefundFailed,
       Payout!JobDies, Payout!Broadcast
  <2>2. PICK step \in {"complete", "fail"} : Payout!Goto(j, step)
    BY <2>1
  <2> DEFINE next == [j EXCEPT !.at = step]
  <2>3. /\ jobs' \subseteq (jobs \ {j}) \cup {next}
        /\ next.at = step /\ next.w = j.w /\ next.complete = j.complete
    BY <2>2, Moved DEF Payout!Goto
  <2>4. /\ \A v \in Withdrawals \ {j.w} : onchain'[v] = onchain[v]
        /\ onchain'[j.w] = 1
    BY <1>1, <2>1, Typed
  <2> HIDE DEF next
  <2> QED BY <1>1, <1>2, <2>1, <2>3, <2>4, OnceJobMoves
<1> QED BY <1>3, <1>4

LEMMA OnceInit == Init => Once
BY DEF Init, Payout!Init, Payout!PayoutInit, Approval!ApprovalInit, Once, RowsOnce,
       RequestsOnce, ItemsOnce, JobsOnce, RequestsApart, ItemsApart, JobsApart

LEMMA OnceNext ==
    ASSUME TypeOK, Backed, Once, "duplicate" \notin faults, [Next]_vars
    PROVE  Once'
<1>1. CASE Approval!Next /\ UNCHANGED payoutVars
  BY <1>1, OnceApproval
<1>2. CASE Payout!Next /\ UNCHANGED approvalVars
  <2>0. Next
    BY <1>2 DEF Next
  <2>1. ASSUME NEW r \in requests, Payout!RequestStep(r) \/ Payout!RequestDies(r)
        PROVE  Once'
    <3>1. CASE Payout!PushRequest(r)
      BY <2>0, <3>1, OncePush
    <3>2. CASE ~ Payout!PushRequest(r)
      <4>1. UNCHANGED <<queue, jobs, onchain>>
        BY <2>1, <3>2 DEF Payout!RequestStep, Payout!DebitBalance, Payout!DebitThrows,
           Payout!MarkDebitFailed, Payout!RequestDies, Payout!recordVars
      <4>2. requests' = requests \ {r} \/ \E step \in {"push", "markFailed"} : Payout!To(r, step)
        BY <2>1, <3>2 DEF Payout!RequestStep, Payout!DebitBalance, Payout!DebitThrows,
           Payout!MarkDebitFailed, Payout!RequestDies
      <4>3. PICK step \in {"push", "markFailed"} :
                requests' \subseteq (requests \ {r}) \cup {[r EXCEPT !.at = step]}
        BY <4>2 DEF Payout!To
      <4>4. [r EXCEPT !.at = step].w = r.w
        BY Moved
      <4> QED BY <2>0, <4>1, <4>3, <4>4, OnceRequestMoves
    <3> QED BY <3>1, <3>2
  <2>2. ASSUME NEW j \in jobs, Payout!AutoWithdraw(j)
        PROVE  Once'
    BY <2>0, <2>2, OnceIncomplete DEF Payout!AutoWithdraw, Payout!Done
  <2> QED BY <1>2, <2>0, <2>1, <2>2, OnceRequest, OncePop, OnceJob DEF Payout!Next
<1>3. CASE UNCHANGED vars
  BY <1>3 DEF vars, recordVars, approvalVars, payoutVars, Once, RowsOnce, RequestsOnce,
     ItemsOnce, JobsOnce, RequestsApart, ItemsApart, JobsApart, Unsent
<1> QED BY <1>1, <1>2, <1>3 DEF Next

(* However often a withdrawal is queued again by its approval or by        *)
(* overrides, and however the executions of its items interleave, it is    *)
(* broadcast at most once, unless Redis is asked twice for one push.       *)
THEOREM SentTheorem ==
    ASSUME \A F \in FaultSets : "duplicate" \notin F
    PROVE  Spec => []SentAtMostOnce
<1>1. TypeOK => "duplicate" \notin faults
  BY DEF TypeOK, PP!TypeOK
<1>2. TypeOK /\ Backed /\ Once /\ [Next]_vars => Once'
  BY <1>1, OnceNext
<1>3. Once => SentAtMostOnce
  BY DEF Once, RowsOnce, SentAtMostOnce
<1> QED BY <1>2, <1>3, OnceInit, SystemTypes, BackedInvariance, PTL DEF Spec
=============================================================================
