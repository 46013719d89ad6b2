---------------------------- MODULE Workers_proofs ----------------------------
(***************************************************************************)
(* Proofs about the worker process: types, and of each worker what keeps   *)
(* its runs from getting into each other's way.                            *)
(***************************************************************************)
EXTENDS Workers, FiniteSetTheorems, WellFoundedInduction, TLAPS

(* Runs executed at the same time are in slots of their own.               *)
SlotsApart(runs) == \A r, s \in runs : r.slot = s.slot => r = s

LEMMA MoveApart ==
    ASSUME NEW runs, NEW r \in runs, NEW next, NEW after, SlotsApart(runs),
           next.slot = r.slot, after \subseteq (runs \ {r}) \cup {next}
    PROVE  SlotsApart(after)
BY DEF SlotsApart

(* What happens to a job leaves it a job.                                  *)
LEMMA JobTypes ==
    /\ Added \in Job /\ NoJob \in Job
    /\ \A job \in Job : Stalled(job) \in Job
    /\ \A job \in Job, i \in Slots : Taken(job, i) \in Job /\ Completed(job, i) \in Job
    /\ \A job \in Job, i \in Slots, n \in Nat : Failed(job, i, n) \in Job
<1> USE DEF Job, JobState
<1>1. Added \in Job /\ NoJob \in Job
  BY DEF Added, NoJob, Nobody
<1>2. ASSUME NEW job \in Job, NEW s \in JobState
      PROVE  /\ [job EXCEPT !.made = @ + 1, !.run = Nobody, !.state = s] \in Job
             /\ [job EXCEPT !.stalls = @ + 1, !.run = Nobody, !.state = s] \in Job
  <2>1. job.made + 1 \in Nat /\ job.stalls + 1 \in Nat
    OBVIOUS
  <2> QED
    BY <2>1 DEF Nobody
<1>3. ASSUME NEW job \in Job
      PROVE  Stalled(job) \in Job
  <2>1. (IF job.stalls > 0 THEN "failed" ELSE "waiting") \in JobState
    OBVIOUS
  <2> HIDE DEF Job, JobState
  <2> QED
    BY <1>2, <2>1 DEF Stalled
<1>4. ASSUME NEW job \in Job, NEW i \in Slots
      PROVE  Taken(job, i) \in Job /\ Completed(job, i) \in Job
  <2>1. Taken(job, i) \in Job
    BY DEF Taken
  <2>2. Completed(job, i) \in Job
    BY DEF Completed, Nobody
  <2> QED
    BY <2>1, <2>2
<1>5. ASSUME NEW job \in Job, NEW i \in Slots, NEW n \in Nat
      PROVE  Failed(job, i, n) \in Job
  <2>1. (IF Exhausted(job, n) THEN "failed" ELSE "waiting") \in JobState
    OBVIOUS
  <2> HIDE DEF Job, JobState
  <2> QED
    BY <1>2, <2>1 DEF Failed
<1> QED
  BY <1>1, <1>3, <1>4, <1>5

---------------------------------------------------------------------------
(* The payment worker                                                      *)

LEMMA PaymentQueue ==
    /\ PW!Added \in PW!Job /\ PW!NoJob \in PW!Job
    /\ \A job \in PW!Job : PW!Stalled(job) \in PW!Job
    /\ \A job \in PW!Job, i \in Slots :
          PW!Taken(job, i) \in PW!Job /\ PW!Completed(job, i) \in PW!Job
    /\ \A job \in PW!Job, i \in Slots, n \in Nat : PW!Failed(job, i, n) \in PW!Job
<1>1. PW!Job = Job /\ PW!Added = Added /\ PW!NoJob = NoJob
  BY DEF PW!Job, PW!JobState, PW!Added, PW!NoJob, PW!Nobody, Job, JobState, Added, NoJob, Nobody
<1>2. \A job, i, n :
        /\ PW!Taken(job, i) = Taken(job, i)
        /\ PW!Completed(job, i) = Completed(job, i)
        /\ PW!Failed(job, i, n) = Failed(job, i, n)
        /\ PW!Stalled(job) = Stalled(job)
  BY DEF PW!Taken, PW!Completed, PW!Failed, PW!Stalled, PW!Holds, PW!Exhausted, PW!Nobody,
         Taken, Completed, Failed, Stalled, Holds, Exhausted, Nobody
<1> QED
  BY <1>1, <1>2, JobTypes

PaymentSteps == {"credited", "lock", "transaction", "underpaid", "confirmations", "read",
                 "commit", "mark", "notify", "release", "fail", "deadLetter"}

(* A run that took the lock of its payment and has not given it up.        *)
Locking == {"transaction", "underpaid", "confirmations", "read", "commit", "mark", "notify",
            "release"}

PaymentLocked == \A r \in paymentRuns : r.at \in Locking => PW!P(r) \in paymentLocks

PaymentAlone ==
    \A r, s \in paymentRuns :
        r.at \in Locking /\ s.at \in Locking /\ PW!P(r) = PW!P(s) => r = s

(* Nobody works on p any more, nor will: its lock is never given back.     *)
Closed(p) ==
    /\ p \in paymentLocks
    /\ \A r \in paymentRuns :
          PW!P(r) = p /\ r.at \in Locking => r.at = "underpaid" /\ "redis" \notin faults

CreditedForGood(p) ==
    \/ workerCredits[p] = 0
    \/ workerCredits[p] = 1 /\ (paymentStatus[p] = "COMPLETED" \/ Closed(p))

CreditsSafe ==
    \/ {"redis", "underpays"} \subseteq faults
    \/ /\ \A p \in PW!Payments : CreditedForGood(p)
       /\ \A r \in paymentRuns : r.at = "commit" => workerCredits[PW!P(r)] = 0

PaymentInv ==
    PW!PaymentTypeOK /\ SlotsApart(paymentRuns) /\ PaymentLocked /\ PaymentAlone /\ CreditsSafe

(* A step of r leaves it at most where it goes to.                         *)
PaymentNextRun(r, step) == [slot |-> r.slot, job |-> r.job, at |-> step]
PaymentMoves(r, step) ==
    paymentRuns' \subseteq (paymentRuns \ {r}) \cup {PaymentNextRun(r, step)}

LEMMA PaymentMove ==
    ASSUME PW!PaymentTypeOK, NEW r \in paymentRuns, NEW step \in PaymentSteps
    PROVE  /\ PW!Goto(r, step) => PaymentMoves(r, step)
           /\ PW!Ends(r) => PaymentMoves(r, step)
           /\ PW!P(r) \in PW!Payments
           /\ PaymentMoves(r, step) => paymentRuns' \in SUBSET PW!PaymentRun
<1>1. r \in PW!PaymentRun
  BY DEF PW!PaymentTypeOK
<1>2. [r EXCEPT !.at = step] = PaymentNextRun(r, step)
  BY <1>1 DEF PW!PaymentRun, PaymentNextRun
<1>3. PaymentNextRun(r, step) \in PW!PaymentRun
  BY <1>1 DEF PW!PaymentRun, PaymentNextRun, PaymentSteps
<1>4. PW!P(r) \in PW!Payments
  BY <1>1 DEF PW!PaymentRun, PW!P, PW!Payments
<1> QED
  BY <1>2, <1>3, <1>4 DEF PaymentMoves, PW!Goto, PW!Ends, PW!PaymentTypeOK

LEMMA PaymentJobMove ==
    ASSUME PW!PaymentTypeOK, PW!PaymentConstants, NEW r \in paymentRuns
    PROVE  /\ PW!Returns(r) => paymentJobs' \in [PaymentJobs -> PW!Job]
           /\ paymentJobs' = [paymentJobs EXCEPT ![r.job] = PW!Failed(@, r.slot, PaymentAttempts)]
                => paymentJobs' \in [PaymentJobs -> PW!Job]
<1>1. r.job \in PaymentJobs /\ r.slot \in Slots
  BY DEF PW!PaymentTypeOK, PW!PaymentRun
<1>2. /\ PW!Completed(paymentJobs[r.job], r.slot) \in PW!Job
      /\ PW!Failed(paymentJobs[r.job], r.slot, PaymentAttempts) \in PW!Job
  BY <1>1, PaymentQueue DEF PW!PaymentTypeOK, PW!PaymentConstants
<1> QED
  BY <1>1, <1>2 DEF PW!PaymentTypeOK, PW!Returns

(* The lock keeps runs apart as long as only a run that found it free goes *)
(* on behind it, and only a run behind it gives it up.                     *)
LEMMA PaymentLocking ==
    ASSUME SlotsApart(paymentRuns), PaymentLocked, PaymentAlone,
           NEW r \in paymentRuns, NEW step, PaymentMoves(r, step),
           \/ step \in Locking /\ r.at \in Locking /\ paymentLocks \subseteq paymentLocks'
           \/ step \notin Locking /\ paymentLocks \subseteq paymentLocks'
           \/ /\ PW!P(r) \notin paymentLocks
              /\ paymentLocks' = paymentLocks \cup {PW!P(r)}
           \/ /\ step \notin Locking /\ r.at \in Locking
              /\ paymentLocks' = paymentLocks \ {PW!P(r)}
    PROVE  SlotsApart(paymentRuns') /\ PaymentLocked' /\ PaymentAlone'
<1> DEFINE next == PaymentNextRun(r, step)
<1>1. next.slot = r.slot /\ next.at = step /\ PW!P(next) = PW!P(r)
  BY DEF PaymentNextRun, PW!P
<1>2. paymentRuns' \subseteq (paymentRuns \ {r}) \cup {next}
  BY DEF PaymentMoves
<1> HIDE DEF next
<1>3. SlotsApart(paymentRuns')
  BY <1>1, <1>2, MoveApart
<1>4. \A s \in paymentRuns' : s = next \/ (s \in paymentRuns /\ s # r)
  BY <1>2
<1>5. PaymentLocked'
  BY <1>1, <1>4 DEF PaymentLocked, PaymentAlone
<1>6. PaymentAlone'
  BY <1>1, <1>4 DEF PaymentLocked, PaymentAlone
<1> QED
  BY <1>3, <1>5, <1>6

(* A step that touches neither status nor credits takes nothing away from  *)
(* a payment that is credited for good.                                    *)
LEMMA PaymentQuiet ==
    ASSUME PaymentInv, NEW r \in paymentRuns, NEW step, PaymentMoves(r, step),
           UNCHANGED <<faults, paymentStatus, workerCredits>>,
           \/ step \notin Locking /\ paymentLocks \subseteq paymentLocks'
           \/ /\ r.at \in Locking /\ ~Closed(PW!P(r))
              /\ paymentLocks' \in {paymentLocks, paymentLocks \ {PW!P(r)}}
           \/ /\ PW!P(r) \notin paymentLocks
              /\ paymentLocks' = paymentLocks \cup {PW!P(r)},
           \/ step # "commit"
           \/ {"redis", "underpays"} \subseteq faults
           \/ workerCredits[PW!P(r)] = 0
    PROVE  CreditsSafe'
<1> DEFINE next == PaymentNextRun(r, step)
<1>1. next.at = step /\ PW!P(next) = PW!P(r)
  BY DEF PaymentNextRun, PW!P
<1>2. \A s \in paymentRuns' : s = next \/ (s \in paymentRuns /\ s # r)
  BY DEF PaymentMoves
<1> HIDE DEF next
<1>3. CASE {"redis", "underpays"} \subseteq faults
  BY <1>3 DEF CreditsSafe
<1>4. CASE ~({"redis", "underpays"} \subseteq faults)
  <2>1. \A p \in PW!Payments : CreditedForGood(p)
    BY <1>4 DEF PaymentInv, CreditsSafe
  <2>2. \A s \in paymentRuns' : s.at = "commit" => workerCredits'[PW!P(s)] = 0
    BY <1>1, <1>2, <1>4 DEF PaymentInv, CreditsSafe
  <2>3. ASSUME NEW p \in PW!Payments, Closed(p)
        PROVE  Closed(p)'
    <3>1. p \in paymentLocks'
      BY <2>3 DEF Closed
    <3>2. ASSUME NEW s \in paymentRuns', PW!P(s) = p, s.at \in Locking
          PROVE  s.at = "underpaid" /\ "redis" \notin faults
      <4>1. CASE s = next
        BY <1>1, <2>3, <3>2, <4>1 DEF Closed
      <4>2. CASE s \in paymentRuns
        BY <2>3, <3>2, <4>2 DEF Closed
      <4> QED
        BY <1>2, <4>1, <4>2
    <3> QED
      BY <3>1, <3>2 DEF Closed
  <2>4. \A p \in PW!Payments : CreditedForGood(p)'
    BY <2>1, <2>3 DEF CreditedForGood
  <2> QED
    BY <2>2, <2>4 DEF CreditsSafe
<1> QED
  BY <1>3, <1>4

LEMMA PaymentStepInv ==
    ASSUME PaymentInv, PW!PaymentConstants, UNCHANGED faults,
           NEW r \in paymentRuns, PW!PaymentStep(r) \/ PW!PaymentRunDies(r)
    PROVE  PaymentInv'
<1> USE DEF PaymentInv
<1>1. r \in PW!PaymentRun /\ PW!P(r) \in PW!Payments /\ r.job \in PaymentJobs
  BY PaymentMove DEF PW!PaymentTypeOK, PW!PaymentRun, PaymentSteps
<1>2. \A step \in PaymentSteps :
        /\ PW!Goto(r, step) => PaymentMoves(r, step)
        /\ PW!Ends(r) => PaymentMoves(r, step)
        /\ PaymentMoves(r, step) => paymentRuns' \in SUBSET PW!PaymentRun
  BY PaymentMove
<1>3. /\ PW!Returns(r) => paymentJobs' \in [PaymentJobs -> PW!Job]
      /\ paymentJobs' = [paymentJobs EXCEPT ![r.job] = PW!Failed(@, r.slot, PaymentAttempts)]
           => paymentJobs' \in [PaymentJobs -> PW!Job]
  BY PaymentJobMove
<1>4. r.at \in Locking /\ r.at # "underpaid" => ~Closed(PW!P(r))
  BY DEF Closed
<1>5. r.at = "underpaid" /\ "redis" \in faults => ~Closed(PW!P(r))
  BY DEF Closed, Locking
<1> DEFINE Quiet(step) ==
      /\ PaymentMoves(r, step)
      /\ UNCHANGED <<faults, paymentStatus, workerCredits>>
      /\ \/ step \notin Locking /\ paymentLocks \subseteq paymentLocks'
         \/ /\ step \in Locking /\ r.at \in Locking /\ ~Closed(PW!P(r))
            /\ paymentLocks' = paymentLocks
         \/ /\ step \notin Locking /\ r.at \in Locking /\ ~Closed(PW!P(r))
            /\ paymentLocks' = paymentLocks \ {PW!P(r)}
         \/ /\ PW!P(r) \notin paymentLocks
            /\ paymentLocks' = paymentLocks \cup {PW!P(r)}
      /\ paymentLocks' \in SUBSET PW!Payments
      /\ \/ step # "commit"
         \/ {"redis", "underpays"} \subseteq faults
         \/ workerCredits[PW!P(r)] = 0
      /\ paymentJobs' \in [PaymentJobs -> PW!Job]
      /\ creditedMarks' \in SUBSET PW!Payments
      /\ deadPayments' \in SUBSET PaymentJobs
<1>6. ASSUME NEW step \in PaymentSteps, Quiet(step)
      PROVE  PaymentInv'
  <2>1. CreditsSafe'
    BY <1>6, PaymentQuiet
  <2>2. SlotsApart(paymentRuns') /\ PaymentLocked' /\ PaymentAlone'
    BY <1>6, PaymentLocking
  <2>3. PW!PaymentTypeOK'
    <3>1. paymentRuns' \in SUBSET PW!PaymentRun
      BY <1>2, <1>6
    <3>2. paymentStatus' = paymentStatus /\ workerCredits' = workerCredits
      BY <1>6
    <3> QED
      BY <1>6, <3>1, <3>2 DEF PW!PaymentTypeOK
  <2> QED
    BY <2>1, <2>2, <2>3
<1>7. /\ paymentJobs \in [PaymentJobs -> PW!Job] /\ paymentLocks \in SUBSET PW!Payments
      /\ creditedMarks \in SUBSET PW!Payments /\ deadPayments \in SUBSET PaymentJobs
  BY DEF PW!PaymentTypeOK
<1> USE DEF PW!keyVars, PW!paidVars, PW!Proceeds, PW!Throws
<1>8. CASE PW!IsAlreadyCredited(r)
  <2>1. PW!Returns(r) => Quiet("fail")
    BY <1>1, <1>2, <1>3, <1>7, <1>8 DEF PW!IsAlreadyCredited, PW!Returns, PaymentSteps, Locking
  <2>2. PW!Proceeds(r, "lock") => Quiet("lock")
    BY <1>1, <1>2, <1>7, <1>8 DEF PW!IsAlreadyCredited, PaymentSteps, Locking
  <2>3. PW!Proceeds(r, "fail") => Quiet("fail")
    BY <1>1, <1>2, <1>7, <1>8 DEF PW!IsAlreadyCredited, PaymentSteps, Locking
  <2> QED
    BY <1>6, <1>8, <2>1, <2>2, <2>3 DEF PW!IsAlreadyCredited, PaymentSteps
<1>9. CASE PW!AcquireProcessingLock(r)
  <2>1. paymentLocks \subseteq paymentLocks' /\ paymentLocks' \in SUBSET PW!Payments
    BY <1>1, <1>7, <1>9 DEF PW!AcquireProcessingLock
  <2>2. PW!Returns(r) => Quiet("fail")
    BY <1>1, <1>2, <1>3, <1>7, <1>9, <2>1
       DEF PW!AcquireProcessingLock, PW!Returns, PaymentSteps, Locking, Quiet
  <2>3. PW!Proceeds(r, "fail") => Quiet("fail")
    BY <1>1, <1>2, <1>7, <1>9, <2>1 DEF PW!AcquireProcessingLock, PaymentSteps, Locking, Quiet
  <2>4. /\ PW!P(r) \notin paymentLocks /\ PW!Proceeds(r, "transaction")
        /\ paymentLocks' = paymentLocks \cup {PW!P(r)}
        => Quiet("transaction")
    BY <1>1, <1>2, <1>7, <1>9, <2>1 DEF PW!AcquireProcessingLock, PaymentSteps, Locking, Quiet
  <2> QED
    BY <1>6, <1>9, <2>2, <2>3, <2>4 DEF PW!AcquireProcessingLock, PaymentSteps
<1>10. CASE PW!CheckTransaction(r)
  <2>1. UNCHANGED <<paymentLocks, creditedMarks, deadPayments, workerCredits>> /\ r.at \in Locking
    BY <1>10 DEF PW!CheckTransaction, Locking
  <2>2. \A step \in {"release", "confirmations"} :
           PW!Goto(r, step) /\ UNCHANGED <<paymentJobs, paymentStatus>> => Quiet(step)
    BY <1>1, <1>2, <1>4, <1>7, <1>10, <2>1 DEF PW!CheckTransaction, PaymentSteps, Locking, Quiet
  <2>3. ASSUME NEW status \in {"FAILED", "UNDERPAID"}, NEW step \in {"fail", "underpaid"},
               paymentStatus' = [paymentStatus EXCEPT ![PW!P(r)] = status],
               PaymentMoves(r, step), paymentJobs' \in [PaymentJobs -> PW!Job],
               step = "underpaid" => "underpays" \in faults
        PROVE  PaymentInv'
    <3>1. SlotsApart(paymentRuns') /\ PaymentLocked' /\ PaymentAlone'
      BY <2>1, <2>3, PaymentLocking DEF Locking
    <3>2. PW!PaymentTypeOK'
      BY <1>1, <1>2, <2>1, <2>3 DEF PW!PaymentTypeOK, PaymentSteps
    <3>3. CASE {"redis", "underpays"} \subseteq faults
      BY <3>1, <3>2, <3>3 DEF CreditsSafe
    <3>4. CASE ~({"redis", "underpays"} \subseteq faults)
      <4>1. \A s \in paymentRuns' :
              \/ s = PaymentNextRun(r, step)
              \/ s \in paymentRuns /\ s # r
        BY <2>3 DEF PaymentMoves
      <4>2. \A s \in paymentRuns' : s.at = "commit" => s \in paymentRuns
        BY <4>1 DEF PaymentNextRun
      <4>3. \A s \in paymentRuns' : s.at = "commit" => workerCredits'[PW!P(s)] = 0
        BY <2>1, <3>4, <4>2 DEF CreditsSafe
      <4>4. Closed(PW!P(r))'
        <5>1. PW!P(PaymentNextRun(r, step)) = PW!P(r) /\ PaymentNextRun(r, step).at = step
          BY DEF PW!P, PaymentNextRun
        <5>2. PW!P(r) \in paymentLocks'
          BY <2>1 DEF PaymentLocked
        <5>3. ASSUME NEW s \in paymentRuns', PW!P(s) = PW!P(r), s.at \in Locking
              PROVE  s.at = "underpaid" /\ "redis" \notin faults'
          <6>1. s = PaymentNextRun(r, step)
            BY <2>1, <4>1, <5>3 DEF PaymentAlone
          <6> QED
            BY <2>3, <3>4, <5>1, <5>3, <6>1 DEF Locking
        <5> QED
          BY <5>2, <5>3 DEF Closed
      <4>5. \A p \in PW!Payments \ {PW!P(r)} : CreditedForGood(p)'
        <5>1. PW!P(PaymentNextRun(r, step)) = PW!P(r)
          BY DEF PW!P, PaymentNextRun
        <5>2. ASSUME NEW p \in PW!Payments \ {PW!P(r)}
              PROVE  (Closed(p) => Closed(p)') /\ paymentStatus'[p] = paymentStatus[p]
          BY <2>1, <2>3, <4>1, <5>1 DEF Closed, PW!PaymentTypeOK
        <5> QED
          BY <2>1, <3>4, <5>2 DEF CreditsSafe, CreditedForGood
      <4>6. CreditedForGood(PW!P(r))'
        BY <1>1, <2>1, <3>4, <4>4 DEF CreditsSafe, CreditedForGood
      <4> QED
        BY <3>1, <3>2, <4>3, <4>5, <4>6 DEF CreditsSafe
    <3> QED
      BY <3>3, <3>4
  <2>4. PW!Returns(r) => paymentJobs' \in [PaymentJobs -> PW!Job] /\ PaymentMoves(r, "fail")
    BY <1>2, <1>3 DEF PW!Returns, PaymentSteps
  <2>5. PW!Proceeds(r, "underpaid") =>
          paymentJobs' \in [PaymentJobs -> PW!Job] /\ PaymentMoves(r, "underpaid")
    BY <1>2, <1>7 DEF PaymentSteps
  <2> QED
    BY <1>6, <1>10, <2>2, <2>3, <2>4, <2>5 DEF PW!CheckTransaction, PaymentSteps
<1>11. CASE PW!NotifyUnderpaid(r)
  <2>1. PW!Returns(r) => Quiet("fail")
    BY <1>1, <1>2, <1>3, <1>7, <1>11
       DEF PW!NotifyUnderpaid, PW!Returns, PaymentSteps, Locking, Quiet
  <2>2. "redis" \in faults /\ PW!Throws(r) => Quiet("release")
    BY <1>1, <1>2, <1>5, <1>7, <1>11 DEF PW!NotifyUnderpaid, PaymentSteps, Locking, Quiet
  <2> QED
    BY <1>6, <1>11, <2>1, <2>2 DEF PW!NotifyUnderpaid, PaymentSteps
<1>12. CASE PW!CheckConfirmations(r)
  <2>1. \A step \in {"read", "release"} : PW!Proceeds(r, step) => Quiet(step)
    BY <1>1, <1>2, <1>4, <1>7, <1>12 DEF PW!CheckConfirmations, PaymentSteps, Locking, Quiet
  <2> QED
    BY <1>6, <1>12, <2>1 DEF PW!CheckConfirmations, PaymentSteps
<1>13. CASE PW!ReadStatus(r)
  <2>1. PW!Proceeds(r, "mark") => Quiet("mark")
    BY <1>1, <1>2, <1>4, <1>7, <1>13 DEF PW!ReadStatus, PaymentSteps, Locking, Quiet
  <2>2. paymentStatus[PW!P(r)] # "COMPLETED" =>
          \/ {"redis", "underpays"} \subseteq faults
          \/ workerCredits[PW!P(r)] = 0
    BY <1>1, <1>4, <1>13 DEF PW!ReadStatus, CreditsSafe, CreditedForGood, Locking
  <2>3. paymentStatus[PW!P(r)] # "COMPLETED" /\ PW!Proceeds(r, "commit") => Quiet("commit")
    BY <1>1, <1>2, <1>4, <1>7, <1>13, <2>2 DEF PW!ReadStatus, PaymentSteps, Locking, Quiet
  <2> QED
    BY <1>6, <1>13, <2>1, <2>3 DEF PW!ReadStatus, PaymentSteps
<1>14. CASE PW!CreditMerchant(r)
  <2>1. UNCHANGED <<paymentLocks, creditedMarks, deadPayments>> /\ r.at = "commit"
    BY <1>14 DEF PW!CreditMerchant
  <2>2. PW!Throws(r) /\ UNCHANGED <<paymentStatus, workerCredits>> => Quiet("release")
    BY <1>1, <1>2, <1>4, <1>7, <2>1 DEF PaymentSteps, Locking, Quiet
  <2>3. ASSUME paymentStatus' = [paymentStatus EXCEPT ![PW!P(r)] = "COMPLETED"],
               workerCredits' = [workerCredits EXCEPT ![PW!P(r)] = @ + 1],
               PW!Proceeds(r, "mark")
        PROVE  PaymentInv'
    <3>1. PaymentMoves(r, "mark")
      BY <1>2, <2>3 DEF PaymentSteps
    <3>2. SlotsApart(paymentRuns') /\ PaymentLocked' /\ PaymentAlone'
      BY <2>1, <3>1, PaymentLocking DEF Locking
    <3>3. PW!PaymentTypeOK'
      BY <1>1, <1>2, <2>1, <2>3, <3>1 DEF PW!PaymentTypeOK, PaymentSteps
    <3>4. CASE {"redis", "underpays"} \subseteq faults
      BY <3>2, <3>3, <3>4 DEF CreditsSafe
    <3>5. CASE ~({"redis", "underpays"} \subseteq faults)
      <4>1. \A s \in paymentRuns' :
              \/ s = PaymentNextRun(r, "mark")
              \/ s \in paymentRuns /\ s # r
        BY <3>1 DEF PaymentMoves
      <4>2. \A s \in paymentRuns' : s.at = "commit" => s \in paymentRuns /\ s # r
        BY <4>1 DEF PaymentNextRun
      <4>3. \A s \in paymentRuns' : s.at = "commit" => PW!P(s) # PW!P(r)
        BY <2>1, <4>2 DEF PaymentAlone, Locking
      <4>4. \A s \in paymentRuns' : s.at = "commit" => workerCredits'[PW!P(s)] = 0
        <5>1. \A s \in paymentRuns : PW!P(s) \in PW!Payments
          BY PaymentMove DEF PaymentSteps
        <5> QED
          BY <2>3, <3>5, <4>2, <4>3, <5>1 DEF CreditsSafe, PW!PaymentTypeOK
      <4>5. \A p \in PW!Payments \ {PW!P(r)} : CreditedForGood(p)'
        <5>1. PW!P(PaymentNextRun(r, "mark")) = PW!P(r)
          BY DEF PW!P, PaymentNextRun
        <5>2. ASSUME NEW p \in PW!Payments \ {PW!P(r)}
              PROVE  /\ Closed(p) => Closed(p)'
                     /\ paymentStatus'[p] = paymentStatus[p]
                     /\ workerCredits'[p] = workerCredits[p]
          BY <2>1, <2>3, <4>1, <5>1 DEF Closed, PW!PaymentTypeOK
        <5> QED
          BY <3>5, <5>2 DEF CreditsSafe, CreditedForGood
      <4>6. CreditedForGood(PW!P(r))'
        BY <1>1, <2>1, <2>3, <3>5 DEF CreditsSafe, CreditedForGood, PW!PaymentTypeOK
      <4> QED
        BY <3>2, <3>3, <4>4, <4>5, <4>6 DEF CreditsSafe
    <3> QED
      BY <3>4, <3>5
  <2> QED
    BY <1>6, <1>14, <2>2, <2>3 DEF PW!CreditMerchant, PaymentSteps
<1>15. CASE PW!MarkAsCredited(r)
  <2>1. PW!Proceeds(r, "notify") /\ creditedMarks' = creditedMarks \cup {PW!P(r)} => Quiet("notify")
    BY <1>1, <1>2, <1>4, <1>7, <1>15 DEF PW!MarkAsCredited, PaymentSteps, Locking, Quiet
  <2>2. PW!Throws(r) /\ UNCHANGED creditedMarks => Quiet("release")
    BY <1>1, <1>2, <1>4, <1>7, <1>15 DEF PW!MarkAsCredited, PaymentSteps, Locking, Quiet
  <2> QED
    BY <1>6, <1>15, <2>1, <2>2 DEF PW!MarkAsCredited, PaymentSteps
<1>16. CASE PW!NotifyCredited(r)
  <2>1. PW!Returns(r) => Quiet("fail")
    BY <1>1, <1>2, <1>3, <1>7, <1>16
       DEF PW!NotifyCredited, PW!Returns, PaymentSteps, Locking, Quiet
  <2>2. PW!Throws(r) => Quiet("release")
    BY <1>1, <1>2, <1>4, <1>7, <1>16 DEF PW!NotifyCredited, PaymentSteps, Locking, Quiet
  <2> QED
    BY <1>6, <1>16, <2>1, <2>2 DEF PW!NotifyCredited, PaymentSteps
<1>17. CASE PW!ReleaseProcessingLock(r)
  <2>1. Quiet("fail")
    BY <1>1, <1>2, <1>4, <1>7, <1>17 DEF PW!ReleaseProcessingLock, PaymentSteps, Locking, Quiet
  <2> QED
    BY <1>6, <2>1 DEF PaymentSteps
<1>18. CASE PW!FailPayment(r)
  <2>1. \A step \in {"fail", "deadLetter"} : PaymentMoves(r, step) => Quiet(step)
    BY <1>1, <1>3, <1>7, <1>18 DEF PW!FailPayment, Locking, Quiet
  <2>2. PaymentMoves(r, "fail") \/ PaymentMoves(r, "deadLetter")
    BY <1>2, <1>18 DEF PW!FailPayment, PaymentSteps
  <2> QED
    BY <1>6, <2>1, <2>2 DEF PaymentSteps
<1>19. CASE PW!MovePaymentToDLQ(r)
  <2>1. Quiet("fail")
    BY <1>1, <1>2, <1>7, <1>19 DEF PW!MovePaymentToDLQ, PaymentSteps, Locking, Quiet
  <2> QED
    BY <1>6, <2>1 DEF PaymentSteps
<1>20. CASE PW!PaymentRunDies(r)
  <2>1. Quiet("fail")
    BY <1>1, <1>2, <1>7, <1>20 DEF PW!PaymentRunDies, PaymentSteps, Locking, Quiet
  <2> QED
    BY <1>6, <2>1 DEF PaymentSteps
<1> QED
  BY <1>8, <1>9, <1>10, <1>11, <1>12, <1>13, <1>14, <1>15, <1>16, <1>17, <1>18, <1>19, <1>20
     DEF PW!PaymentStep

LEMMA PaymentNextInv ==
    ASSUME PaymentInv, PW!PaymentConstants, PW!PaymentNext
    PROVE  PaymentInv'
<1> USE DEF PaymentInv, PW!keyVars, PW!paidVars
<1>1. UNCHANGED faults
  BY DEF PW!PaymentNext
<1>2. ASSUME NEW k \in PaymentJobs, PW!AddPayment(k) \/ PW!PaymentStalls(k)
      PROVE  PaymentInv'
  <2>1. UNCHANGED <<paymentRuns, paymentLocks, creditedMarks, paymentStatus, workerCredits,
                    deadPayments>>
    BY <1>2 DEF PW!AddPayment, PW!PaymentStalls
  <2>2. paymentJobs' \in [PaymentJobs -> PW!Job]
    BY <1>2, PaymentQueue DEF PW!AddPayment, PW!PaymentStalls, PW!PaymentTypeOK
  <2> QED
    BY <1>1, <2>1, <2>2
       DEF PW!PaymentTypeOK, SlotsApart, PaymentLocked, PaymentAlone, CreditsSafe,
           CreditedForGood, Closed
<1>3. ASSUME NEW i \in Slots, NEW k \in PaymentJobs, PW!ProcessPayment(i, k)
      PROVE  PaymentInv'
  <2> DEFINE next == [slot |-> i, job |-> k, at |-> "credited"]
  <2>1. UNCHANGED <<paymentLocks, creditedMarks, paymentStatus, workerCredits, deadPayments>>
    BY <1>3 DEF PW!ProcessPayment
  <2>2. PW!PaymentTypeOK'
    <3>1. paymentJobs' \in [PaymentJobs -> PW!Job]
      <4>1. PW!Taken(paymentJobs[k], i) \in PW!Job
        BY PaymentQueue DEF PW!PaymentTypeOK
      <4> QED
        BY <1>3, <4>1 DEF PW!ProcessPayment, PW!PaymentTypeOK
    <3>2. next \in PW!PaymentRun
      BY DEF PW!PaymentRun
    <3> QED
      BY <1>3, <2>1, <3>1, <3>2 DEF PW!ProcessPayment, PW!PaymentTypeOK
  <2>3. paymentRuns' = paymentRuns \cup {next} /\ \A s \in paymentRuns : s.slot # next.slot
    BY <1>3 DEF PW!ProcessPayment
  <2>4. SlotsApart(paymentRuns')
    BY <2>3 DEF SlotsApart
  <2>5. \A s \in paymentRuns' :
          s.at \in Locking \/ s.at = "commit" => s \in paymentRuns
    BY <2>3 DEF Locking
  <2>6. PaymentLocked' /\ PaymentAlone'
    BY <2>1, <2>5 DEF PaymentLocked, PaymentAlone
  <2>7. \A p : Closed(p) => Closed(p)'
    BY <1>1, <2>1, <2>5 DEF Closed
  <2>8. CreditsSafe'
    BY <1>1, <2>1, <2>5, <2>7 DEF CreditsSafe, CreditedForGood
  <2> QED
    BY <2>2, <2>4, <2>6, <2>8
<1>4. ASSUME NEW r \in paymentRuns, PW!PaymentStep(r) \/ PW!PaymentRunDies(r)
      PROVE  PaymentInv'
  BY <1>1, <1>4, PaymentStepInv
<1> QED
  BY <1>2, <1>3, <1>4 DEF PW!PaymentNext

LEMMA PaymentStutters ==
    ASSUME PaymentInv, UNCHANGED <<faults, paymentVars>>
    PROVE  PaymentInv'
BY DEF paymentVars, PaymentInv, PW!PaymentTypeOK, SlotsApart, PaymentLocked, PaymentAlone,
       CreditsSafe, CreditedForGood, Closed

LEMMA PaymentStarts ==
    ASSUME PW!PaymentInit
    PROVE  PaymentInv
<1>1. PW!PaymentTypeOK
  BY PaymentQueue DEF PW!PaymentInit, PW!PaymentTypeOK
<1>2. CreditsSafe
  BY DEF PW!PaymentInit, CreditsSafe, CreditedForGood
<1> QED
  BY <1>1, <1>2 DEF PW!PaymentInit, PaymentInv, SlotsApart, PaymentLocked, PaymentAlone

---------------------------------------------------------------------------
(* The withdrawal worker                                                   *)

(* A set of naturals that is not empty has a least element.                *)
LEMMA Least ==
    ASSUME NEW S \in SUBSET Nat, S # {}
    PROVE  \E n \in S : \A m \in S : n <= m
<1>1. \E R : IsWellFoundedOn(R, Nat) /\ \A m, n \in Nat : m < n => <<m, n>> \in R
  <2>1. \A m, n \in Nat : m < n => <<m, n>> \in OpToRel(<, Nat)
    BY DEF OpToRel
  <2> QED
    BY <2>1, NatLessThanWellFounded
<1>2. PICK R : IsWellFoundedOn(R, Nat) /\ \A m, n \in Nat : m < n => <<m, n>> \in R
  BY <1>1
<1>3. IsWellFoundedOn(R, Nat)
  BY <1>2
<1>4. PICK n \in S : \A m \in S : ~(<<m, n>> \in R)
  BY <1>3, WFMin
<1>5. \A m \in S : ~(m < n)
  BY <1>2, <1>4, Zenon
<1> QED
  BY <1>4, <1>5

(* OnChainNonce exists: 0 .. Cardinality(M) has more elements than M.      *)
LEMMA FirstFree ==
    ASSUME NEW M \in SUBSET Nat, IsFiniteSet(M)
    PROVE  \E n \in 0 .. Cardinality(M) : n \notin M /\ 0 .. n - 1 \subseteq M
<1>1. Cardinality(M) \in Nat
  BY FS_CardinalityType
<1>2. \E n \in 0 .. Cardinality(M) : n \notin M
  <2>1. IsFiniteSet(0 .. Cardinality(M)) /\ Cardinality(0 .. Cardinality(M)) = Cardinality(M) + 1
    BY <1>1, FS_Interval
  <2>2. ASSUME 0 .. Cardinality(M) \subseteq M
        PROVE  FALSE
    <3>1. Cardinality(0 .. Cardinality(M)) <= Cardinality(M)
      BY <2>2, FS_Subset
    <3> QED
      BY <1>1, <2>1, <3>1
  <2> QED
    BY <2>2
<1> DEFINE Free == {n \in Nat : n \notin M}
<1>3. PICK n \in Free : \A m \in Free : n <= m
  <2>1. Free \in SUBSET Nat /\ Free # {}
    BY <1>1, <1>2
  <2> HIDE DEF Free
  <2> QED
    BY <2>1, Least
<1>4. n <= Cardinality(M)
  BY <1>1, <1>2, <1>3
<1>5. 0 .. n - 1 \subseteq M
  BY <1>3
<1> QED
  BY <1>1, <1>3, <1>4, <1>5

LEMMA NonceOfChain ==
    ASSUME minedNonces \in SUBSET Nat, IsFiniteSet(minedNonces)
    PROVE  WW!OnChainNonce \in Nat
<1>1. WW!Cardinality(minedNonces) = Cardinality(minedNonces)
  BY DEF Cardinality, WW!Cardinality
<1>2. WW!OnChainNonce \in 0 .. WW!Cardinality(minedNonces)
  BY <1>1, FirstFree DEF WW!OnChainNonce
<1> QED
  BY <1>1, <1>2, FS_CardinalityType

LEMMA WithdrawalQueue ==
    /\ WW!Added \in WW!Job /\ WW!NoJob \in WW!Job
    /\ \A job \in WW!Job : WW!Stalled(job) \in WW!Job
    /\ \A job \in WW!Job, i \in Slots :
          WW!Taken(job, i) \in WW!Job /\ WW!Completed(job, i) \in WW!Job
    /\ \A job \in WW!Job, i \in Slots, n \in Nat : WW!Failed(job, i, n) \in WW!Job
    /\ \A job \in WW!Job : job.made \in Nat
<1>1. WW!Job = Job /\ WW!Added = Added /\ WW!NoJob = NoJob
  BY DEF WW!Job, WW!JobState, WW!Added, WW!NoJob, WW!Nobody, Job, JobState, Added, NoJob, Nobody
<1>2. \A job, i, n :
        /\ WW!Taken(job, i) = Taken(job, i)
        /\ WW!Completed(job, i) = Completed(job, i)
        /\ WW!Failed(job, i, n) = Failed(job, i, n)
        /\ WW!Stalled(job) = Stalled(job)
  BY DEF WW!Taken, WW!Completed, WW!Failed, WW!Stalled, WW!Holds, WW!Exhausted, WW!Nobody,
         Taken, Completed, Failed, Stalled, Holds, Exhausted, Nobody
<1>3. \A job \in WW!Job : job.made \in Nat
  BY DEF WW!Job
<1> QED
  BY <1>1, <1>2, <1>3, JobTypes

(* A run that took the lock of its withdrawal and has not given it up.     *)
LockSteps == {"verify", "processing", "nonce", "seed", "broadcast", "record", "monitor",
              "giveNonceBack", "markFailed", "deadLetter", "release"}
WithdrawalSteps == LockSteps \cup {"lock", "fail"}

(* Those of them that are on their way to the broadcast.                   *)
Paying == {"processing", "nonce", "seed", "broadcast"}

WithdrawalLocked == \A r \in withdrawalRuns : r.at \in LockSteps => r.job \in withdrawalLocks

WithdrawalAlone ==
    \A r, s \in withdrawalRuns :
        r.at \in LockSteps /\ s.at \in LockSteps /\ r.job = s.job => r = s

StillWanted == \A r \in withdrawalRuns : r.at \in Paying => payoutStatus[r.job] # "FAILED"

WithdrawalInv ==
    /\ WW!WithdrawalTypeOK /\ IsFiniteSet(minedNonces)
    /\ SlotsApart(withdrawalRuns) /\ WithdrawalLocked /\ WithdrawalAlone /\ StillWanted

Succeeds(next, r, step) ==
    next \in WW!WithdrawalRun /\ next.slot = r.slot /\ next.job = r.job /\ next.at = step

WithdrawalMoves(r, step) ==
    \E next : /\ Succeeds(next, r, step)
              /\ withdrawalRuns' \subseteq (withdrawalRuns \ {r}) \cup {next}

LEMMA WithdrawalMove ==
    ASSUME WW!WithdrawalTypeOK, NEW r \in withdrawalRuns, NEW step \in WithdrawalSteps
    PROVE  /\ WW!Goto(r, step) => WithdrawalMoves(r, step)
           /\ WW!Ends(r) => WithdrawalMoves(r, step)
           /\ \A n \in Int : WW!WithNonce(r, n, step) => WithdrawalMoves(r, step)
           /\ WithdrawalMoves(r, step) => withdrawalRuns' \in SUBSET WW!WithdrawalRun
<1>1. r \in WW!WithdrawalRun
  BY DEF WW!WithdrawalTypeOK
<1>2. Succeeds([r EXCEPT !.at = step], r, step)
  BY <1>1 DEF WW!WithdrawalRun, Succeeds, WithdrawalSteps, LockSteps
<1>3. ASSUME NEW n \in Int
      PROVE  Succeeds([r EXCEPT !.numbered = TRUE, !.nonce = n, !.at = step], r, step)
  BY <1>1 DEF WW!WithdrawalRun, Succeeds, WithdrawalSteps, LockSteps
<1>4. WW!Goto(r, step) => WithdrawalMoves(r, step)
  BY <1>2 DEF WithdrawalMoves, WW!Goto
<1>5. WW!Ends(r) => WithdrawalMoves(r, step)
  BY <1>2 DEF WithdrawalMoves, WW!Ends
<1>6. \A n \in Int : WW!WithNonce(r, n, step) => WithdrawalMoves(r, step)
  BY <1>3 DEF WithdrawalMoves, WW!WithNonce
<1>7. WithdrawalMoves(r, step) => withdrawalRuns' \in SUBSET WW!WithdrawalRun
  BY DEF WithdrawalMoves, WW!WithdrawalTypeOK, Succeeds
<1> QED
  BY <1>4, <1>5, <1>6, <1>7

LEMMA WithdrawalJobMove ==
    ASSUME WW!WithdrawalTypeOK, WW!WithdrawalConstants, NEW r \in withdrawalRuns
    PROVE  /\ WW!Returns(r) => withdrawalJobs' \in [WithdrawalJobs -> WW!Job]
           /\ withdrawalJobs' =
                [withdrawalJobs EXCEPT ![r.job] = WW!Failed(@, r.slot, WithdrawalAttempts)]
                => withdrawalJobs' \in [WithdrawalJobs -> WW!Job]
<1>1. r.job \in WithdrawalJobs /\ r.slot \in Slots
  BY DEF WW!WithdrawalTypeOK, WW!WithdrawalRun
<1>2. /\ WW!Completed(withdrawalJobs[r.job], r.slot) \in WW!Job
      /\ WW!Failed(withdrawalJobs[r.job], r.slot, WithdrawalAttempts) \in WW!Job
  BY <1>1, WithdrawalQueue DEF WW!WithdrawalTypeOK, WW!WithdrawalConstants
<1> QED
  BY <1>1, <1>2 DEF WW!WithdrawalTypeOK, WW!Returns

(* What a step must not do for the runs to stay out of each other's way,   *)
(* and for a withdrawal that was given up to stay unwanted.                *)
LEMMA WithdrawalLocking ==
    ASSUME WW!WithdrawalTypeOK, SlotsApart(withdrawalRuns),
           WithdrawalLocked, WithdrawalAlone, StillWanted,
           NEW r \in withdrawalRuns, NEW step, WithdrawalMoves(r, step),
           \/ step \in LockSteps /\ r.at \in LockSteps /\ withdrawalLocks \subseteq withdrawalLocks'
           \/ step \notin LockSteps /\ withdrawalLocks \subseteq withdrawalLocks'
           \/ /\ r.job \notin withdrawalLocks
              /\ withdrawalLocks' = withdrawalLocks \cup {r.job}
           \/ /\ step \notin LockSteps /\ r.at \in LockSteps
              /\ withdrawalLocks' = withdrawalLocks \ {r.job},
           step \in Paying => payoutStatus'[r.job] # "FAILED",
           \A w \in WithdrawalJobs : payoutStatus'[w] = "FAILED" =>
                     payoutStatus[w] = "FAILED" \/ (w = r.job /\ r.at \in LockSteps)
    PROVE  /\ SlotsApart(withdrawalRuns') /\ WithdrawalLocked' /\ WithdrawalAlone'
           /\ StillWanted'
<1>1. PICK next : /\ Succeeds(next, r, step)
                  /\ withdrawalRuns' \subseteq (withdrawalRuns \ {r}) \cup {next}
  BY DEF WithdrawalMoves
<1>2. next.slot = r.slot /\ next.at = step /\ next.job = r.job
  BY <1>1 DEF Succeeds
<1>3. SlotsApart(withdrawalRuns')
  BY <1>1, <1>2, MoveApart
<1>4. \A s \in withdrawalRuns' : s = next \/ (s \in withdrawalRuns /\ s # r)
  BY <1>1
<1>5. WithdrawalLocked'
  BY <1>2, <1>4 DEF WithdrawalLocked, WithdrawalAlone
<1>6. WithdrawalAlone'
  BY <1>2, <1>4 DEF WithdrawalLocked, WithdrawalAlone
<1>7. StillWanted'
  <2>1. \A s \in withdrawalRuns : s.job \in WithdrawalJobs
    BY DEF WW!WithdrawalTypeOK, WW!WithdrawalRun
  <2> QED
    BY <1>2, <1>4, <2>1 DEF StillWanted, WithdrawalAlone, Paying, LockSteps
<1> QED
  BY <1>3, <1>5, <1>6, <1>7

LEMMA WithdrawalStepInv ==
    ASSUME WithdrawalInv, WW!WithdrawalConstants, UNCHANGED faults,
           NEW r \in withdrawalRuns, WW!WithdrawalStep(r) \/ WW!WithdrawalRunDies(r)
    PROVE  WithdrawalInv'
<1> USE DEF WithdrawalInv
<1>1. r \in WW!WithdrawalRun /\ r.job \in WithdrawalJobs /\ r.slot \in Slots
  BY DEF WW!WithdrawalTypeOK, WW!WithdrawalRun
<1>2. \A step \in WithdrawalSteps :
        /\ WW!Goto(r, step) => WithdrawalMoves(r, step)
        /\ WW!Ends(r) => WithdrawalMoves(r, step)
        /\ \A n \in Int : WW!WithNonce(r, n, step) => WithdrawalMoves(r, step)
        /\ WithdrawalMoves(r, step) => withdrawalRuns' \in SUBSET WW!WithdrawalRun
  BY WithdrawalMove
<1>3. /\ WW!Returns(r) => withdrawalJobs' \in [WithdrawalJobs -> WW!Job]
      /\ withdrawalJobs' =
           [withdrawalJobs EXCEPT ![r.job] = WW!Failed(@, r.slot, WithdrawalAttempts)]
           => withdrawalJobs' \in [WithdrawalJobs -> WW!Job]
  BY WithdrawalJobMove
<1>4. /\ withdrawalJobs \in [WithdrawalJobs -> WW!Job]
      /\ withdrawalLocks \in SUBSET WithdrawalJobs
      /\ payoutStatus \in [WithdrawalJobs -> {"APPROVED", "PROCESSING", "BROADCAST", "FAILED"}]
      /\ counter \in Int /\ minedNonces \in SUBSET Nat /\ IsFiniteSet(minedNonces)
      /\ sent \in [WithdrawalJobs -> Nat]
  BY DEF WW!WithdrawalTypeOK
<1> DEFINE Moved(step) == WithdrawalMoves(r, step) /\ withdrawalJobs' \in [WithdrawalJobs -> WW!Job]
           Kept(step) ==
             \/ step \in LockSteps /\ r.at \in LockSteps /\ withdrawalLocks' = withdrawalLocks
             \/ step \notin LockSteps /\ withdrawalLocks \subseteq withdrawalLocks'
             \/ /\ r.job \notin withdrawalLocks
                /\ withdrawalLocks' = withdrawalLocks \cup {r.job}
             \/ /\ step \notin LockSteps /\ r.at \in LockSteps
                /\ withdrawalLocks' = withdrawalLocks \ {r.job}
           Wanted(step) ==
             /\ step \in Paying => payoutStatus'[r.job] # "FAILED"
             /\ \A w \in WithdrawalJobs : payoutStatus'[w] = "FAILED" =>
                          payoutStatus[w] = "FAILED" \/ (w = r.job /\ r.at \in LockSteps)
           Typed ==
             /\ withdrawalLocks' \in SUBSET WithdrawalJobs
             /\ payoutStatus' \in
                  [WithdrawalJobs -> {"APPROVED", "PROCESSING", "BROADCAST", "FAILED"}]
             /\ counter' \in Int
             /\ minedNonces' \in SUBSET Nat /\ IsFiniteSet(minedNonces')
             /\ sent' \in [WithdrawalJobs -> Nat]
<1>5. ASSUME NEW step \in WithdrawalSteps, Moved(step), Kept(step), Wanted(step), Typed
      PROVE  WithdrawalInv'
  <2>1. SlotsApart(withdrawalRuns') /\ WithdrawalLocked' /\ WithdrawalAlone' /\ StillWanted'
    BY <1>5, WithdrawalLocking
  <2>2. withdrawalRuns' \in SUBSET WW!WithdrawalRun
    BY <1>2, <1>5
  <2>3. WW!WithdrawalTypeOK'
    BY <1>5, <2>2 DEF WW!WithdrawalTypeOK
  <2> QED
    BY <1>5, <2>1, <2>3
<1>6. r.at \in LockSteps => \A step \in LockSteps : UNCHANGED withdrawalLocks => Kept(step)
  OBVIOUS
<1>7. \A step \in WithdrawalSteps :
        /\ WW!Proceeds(r, step) => Moved(step)
        /\ \A n \in Int : WW!WithNonce(r, n, step) => Moved(step)
  BY <1>2, <1>4 DEF WW!Proceeds, WW!WithNonce
<1>8. WW!Returns(r) => Moved("fail")
  BY <1>2, <1>3 DEF WW!Returns, WithdrawalSteps
<1>9. WW!Throws(r) => \E step \in {"giveNonceBack", "markFailed", "release"} : Moved(step)
  BY <1>7 DEF WW!Throws, WW!AfterNonce, WithdrawalSteps, LockSteps
<1>10. r.at \in Paying => payoutStatus[r.job] # "FAILED"
  BY DEF StillWanted
<1> HIDE DEF Moved
<1>11. ASSUME UNCHANGED <<withdrawalLocks, payoutStatus>>, r.at \in LockSteps, Typed,
              WW!Throws(r) \/ WW!Returns(r) \/ \E step \in LockSteps \ Paying : WW!Proceeds(r, step)
       PROVE  WithdrawalInv'
  <2>1. \E step \in (LockSteps \ Paying) \cup {"fail"} : Moved(step)
    BY <1>7, <1>8, <1>9, <1>11 DEF WithdrawalSteps, LockSteps, Paying
  <2>2. PICK step \in (LockSteps \ Paying) \cup {"fail"} : Moved(step)
    BY <2>1
  <2>3. Kept(step) /\ Wanted(step)
    BY <1>11 DEF Paying, LockSteps
  <2> QED
    BY <1>5, <1>11, <2>2, <2>3 DEF WithdrawalSteps
<1>12. CASE WW!AcquireWithdrawalLock(r)
  <2>1. /\ UNCHANGED <<payoutStatus, counter, minedNonces, sent>> /\ Typed
        /\ withdrawalLocks \subseteq withdrawalLocks'
    BY <1>1, <1>4, <1>12 DEF WW!AcquireWithdrawalLock, WW!nonceVars
  <2>2. \/ Moved("fail")
        \/ /\ Moved("verify") /\ r.job \notin withdrawalLocks
           /\ withdrawalLocks' = withdrawalLocks \cup {r.job}
    BY <1>7, <1>8, <1>12 DEF WW!AcquireWithdrawalLock, WithdrawalSteps, LockSteps
  <2> QED
    BY <1>5, <2>1, <2>2 DEF WithdrawalSteps, LockSteps, Paying
<1>13. CASE WW!VerifyWithdrawal(r)
  <2>1. UNCHANGED <<withdrawalLocks, payoutStatus>> /\ r.at \in LockSteps /\ Typed
    BY <1>4, <1>13 DEF WW!VerifyWithdrawal, WW!nonceVars, LockSteps
  <2>2. CASE WW!Returns(r) \/ WW!Throws(r)
    BY <1>11, <2>1, <2>2
  <2>3. CASE payoutStatus[r.job] # "FAILED" /\ WW!Proceeds(r, "processing")
    BY <1>5, <1>7, <2>1, <2>3 DEF WithdrawalSteps, LockSteps, Paying
  <2> QED
    BY <1>13, <2>2, <2>3 DEF WW!VerifyWithdrawal
<1>14. CASE WW!MarkProcessing(r)
  <2>1. UNCHANGED <<withdrawalLocks, counter, minedNonces, sent>> /\ r.at \in LockSteps
    BY <1>14 DEF WW!MarkProcessing, WW!nonceVars, LockSteps
  <2>2. CASE UNCHANGED payoutStatus /\ WW!Throws(r)
    BY <1>4, <1>11, <2>1, <2>2
  <2>3. CASE payoutStatus' = [payoutStatus EXCEPT ![r.job] = "PROCESSING"]
    <3>1. Typed
      BY <1>4, <2>1, <2>3
    <3>2. /\ payoutStatus'[r.job] # "FAILED"
          /\ \A w \in WithdrawalJobs : payoutStatus'[w] = "FAILED" =>
                       payoutStatus[w] = "FAILED" \/ (w = r.job /\ r.at \in LockSteps)
      BY <1>1, <1>4, <2>1, <2>3
    <3>3. \E step \in LockSteps : Moved(step)
      BY <1>7, <1>9, <1>14, <2>3 DEF WW!MarkProcessing, WithdrawalSteps, LockSteps
    <3> QED
      BY <1>5, <2>1, <3>1, <3>2, <3>3 DEF WithdrawalSteps
  <2> QED
    BY <1>14, <2>2, <2>3 DEF WW!MarkProcessing
<1>15. CASE WW!AcquireNonce(r)
  <2>1. /\ UNCHANGED <<withdrawalLocks, payoutStatus, minedNonces, sent>>
        /\ r.at \in LockSteps /\ r.at \in Paying
    BY <1>15 DEF WW!AcquireNonce, LockSteps, Paying
  <2>2. counter' = counter + 1
    BY <1>15 DEF WW!AcquireNonce
  <2>3. counter' \in Int /\ counter' - 1 \in Int
    BY <1>4, <2>2
  <2>4. Typed
    BY <1>4, <2>1, <2>3
  <2>5. CASE WW!Throws(r)
    BY <1>11, <2>1, <2>4, <2>5
  <2>6. CASE \E n \in Int, step \in {"broadcast", "seed"} : WW!WithNonce(r, n, step)
    <3>1. PICK step \in {"broadcast", "seed"} : Moved(step)
      BY <1>7, <2>6 DEF WithdrawalSteps, LockSteps
    <3> QED
      BY <1>5, <1>10, <2>1, <2>4, <3>1 DEF WithdrawalSteps, LockSteps
  <2>7. WW!OnChainNonce \in Int /\ 0 \in Int
    BY <1>4, NonceOfChain
  <2>8. \/ WW!WithNonce(r, counter' - 1, "broadcast")
        \/ WW!WithNonce(r, WW!OnChainNonce, "seed")
        \/ WW!WithNonce(r, 0, "seed")
        \/ WW!Throws(r)
    BY <1>15 DEF WW!AcquireNonce
  <2> QED
    BY <2>3, <2>5, <2>6, <2>7, <2>8
<1>16. CASE WW!SeedNonce(r)
  <2>1. /\ UNCHANGED <<withdrawalLocks, payoutStatus, minedNonces, sent>>
        /\ r.at \in LockSteps /\ r.at \in Paying /\ counter' \in {counter, r.nonce}
    BY <1>16 DEF WW!SeedNonce, LockSteps, Paying
  <2>2. Typed
    BY <1>1, <1>4, <2>1 DEF WW!WithdrawalRun
  <2>3. CASE WW!Proceeds(r, "broadcast")
    BY <1>5, <1>7, <1>10, <2>1, <2>2, <2>3 DEF WithdrawalSteps, LockSteps
  <2>4. CASE WW!Proceeds(r, WW!AfterNonce(r))
    BY <1>11, <2>1, <2>2, <2>4 DEF WW!AfterNonce, LockSteps, Paying
  <2> QED
    BY <1>16, <2>3, <2>4 DEF WW!SeedNonce
<1>17. CASE WW!SignAndBroadcast(r)
  <2>1. UNCHANGED <<withdrawalLocks, payoutStatus, counter>> /\ r.at \in LockSteps
    BY <1>17 DEF WW!SignAndBroadcast, LockSteps
  <2>2. sent' \in [WithdrawalJobs -> Nat]
    BY <1>1, <1>4, <1>17 DEF WW!SignAndBroadcast
  <2>3. minedNonces' \in SUBSET Nat /\ IsFiniteSet(minedNonces')
    <3>1. \/ minedNonces' = minedNonces
          \/ r.nonce \in Nat /\ minedNonces' = minedNonces \cup {r.nonce}
      BY <1>17 DEF WW!SignAndBroadcast, WW!Accepts
    <3> QED
      BY <1>4, <3>1, FS_AddElement
  <2>4. Typed
    BY <1>4, <2>1, <2>2, <2>3
  <2> QED
    BY <1>11, <1>17, <2>1, <2>4 DEF WW!SignAndBroadcast, LockSteps, Paying
<1>18. CASE WW!RecordBroadcast(r)
  <2>1. UNCHANGED <<withdrawalLocks, counter, minedNonces, sent>> /\ r.at \in LockSteps
    BY <1>18 DEF WW!RecordBroadcast, WW!nonceVars, LockSteps
  <2>2. CASE UNCHANGED payoutStatus /\ WW!Throws(r)
    BY <1>4, <1>11, <2>1, <2>2
  <2>3. CASE /\ payoutStatus' = [payoutStatus EXCEPT ![r.job] = "BROADCAST"]
             /\ WW!Proceeds(r, "monitor")
    <3>1. Typed
      BY <1>4, <2>1, <2>3
    <3>2. \A w \in WithdrawalJobs : payoutStatus'[w] = "FAILED" =>
                   payoutStatus[w] = "FAILED" \/ (w = r.job /\ r.at \in LockSteps)
      BY <1>1, <1>4, <2>1, <2>3
    <3> QED
      BY <1>5, <1>7, <2>1, <2>3, <3>1, <3>2 DEF WithdrawalSteps, LockSteps, Paying
  <2> QED
    BY <1>18, <2>2, <2>3 DEF WW!RecordBroadcast
<1>19. CASE WW!QueueMonitoring(r)
  <2>1. UNCHANGED <<withdrawalLocks, payoutStatus>> /\ r.at \in LockSteps /\ Typed
    BY <1>4, <1>19 DEF WW!QueueMonitoring, WW!nonceVars, LockSteps
  <2> QED
    BY <1>11, <1>19, <2>1 DEF WW!QueueMonitoring
<1>20. CASE WW!ReleaseNonce(r)
  <2>1. UNCHANGED <<withdrawalLocks, payoutStatus, minedNonces, sent>> /\ r.at \in LockSteps
    BY <1>20 DEF WW!ReleaseNonce, LockSteps
  <2>2. counter' \in Int
    BY <1>4, <1>20 DEF WW!ReleaseNonce
  <2>3. Typed
    BY <1>4, <2>1, <2>2
  <2>4. CASE WW!Proceeds(r, WW!AfterNonce(r))
    BY <1>11, <2>1, <2>3, <2>4 DEF WW!AfterNonce, LockSteps, Paying
  <2>5. CASE WW!Proceeds(r, "fail")
    BY <1>5, <1>7, <2>1, <2>3, <2>5 DEF WithdrawalSteps, LockSteps, Paying
  <2> QED
    BY <1>20, <2>4, <2>5 DEF WW!ReleaseNonce
<1>21. CASE WW!MarkFailed(r)
  <2>1. UNCHANGED <<withdrawalLocks, counter, minedNonces, sent>> /\ r.at \in LockSteps
    BY <1>21 DEF WW!MarkFailed, WW!nonceVars, LockSteps
  <2>2. /\ payoutStatus' \in [WithdrawalJobs -> {"APPROVED", "PROCESSING", "BROADCAST", "FAILED"}]
        /\ \A w \in WithdrawalJobs :
              payoutStatus'[w] = "FAILED" => payoutStatus[w] = "FAILED" \/ w = r.job
    BY <1>1, <1>4, <1>21 DEF WW!MarkFailed
  <2>3. Typed
    BY <1>4, <2>1, <2>2
  <2>4. Moved("deadLetter") \/ Moved("fail")
    BY <1>7, <1>21 DEF WW!MarkFailed, WithdrawalSteps, LockSteps
  <2> QED
    BY <1>5, <2>1, <2>2, <2>3, <2>4 DEF WithdrawalSteps, LockSteps, Paying
<1>22. CASE WW!MoveToDLQ(r)
  <2>1. UNCHANGED <<withdrawalLocks, payoutStatus>> /\ r.at \in LockSteps /\ Typed
    BY <1>4, <1>22 DEF WW!MoveToDLQ, WW!nonceVars, LockSteps
  <2>2. Moved("release") \/ Moved("fail")
    BY <1>7, <1>22 DEF WW!MoveToDLQ, WithdrawalSteps, LockSteps
  <2> QED
    BY <1>5, <2>1, <2>2 DEF WithdrawalSteps, LockSteps, Paying
<1>23. CASE WW!ReleaseWithdrawalLock(r)
  <2>1. /\ UNCHANGED payoutStatus /\ r.at \in LockSteps /\ Typed
        /\ withdrawalLocks' \in {withdrawalLocks, withdrawalLocks \ {r.job}}
    BY <1>4, <1>23 DEF WW!ReleaseWithdrawalLock, WW!nonceVars, LockSteps
  <2>2. Moved("fail")
    BY <1>7, <1>23 DEF WW!ReleaseWithdrawalLock, WithdrawalSteps, LockSteps
  <2> QED
    BY <1>5, <2>1, <2>2 DEF WithdrawalSteps, LockSteps, Paying
<1>24. CASE WW!FailWithdrawal(r) \/ WW!WithdrawalRunDies(r)
  <2>1. UNCHANGED <<withdrawalLocks, payoutStatus>> /\ Typed
    BY <1>4, <1>24 DEF WW!FailWithdrawal, WW!WithdrawalRunDies, WW!nonceVars
  <2>2. Moved("fail")
    BY <1>2, <1>3, <1>4, <1>24
       DEF WW!FailWithdrawal, WW!WithdrawalRunDies, WithdrawalSteps, Moved
  <2> QED
    BY <1>5, <2>1, <2>2 DEF WithdrawalSteps, LockSteps, Paying
<1> QED
  BY <1>12, <1>13, <1>14, <1>15, <1>16, <1>17, <1>18, <1>19, <1>20, <1>21, <1>22, <1>23, <1>24
     DEF WW!WithdrawalStep

LEMMA WithdrawalNextInv ==
    ASSUME WithdrawalInv, WW!WithdrawalConstants, WW!WithdrawalNext
    PROVE  WithdrawalInv'
<1> USE DEF WithdrawalInv, WW!nonceVars
<1>1. UNCHANGED faults
  BY DEF WW!WithdrawalNext
<1>2. ASSUME NEW w \in WithdrawalJobs, WW!AddWithdrawal(w) \/ WW!WithdrawalStalls(w)
      PROVE  WithdrawalInv'
  <2>1. UNCHANGED <<withdrawalRuns, withdrawalLocks, payoutStatus, counter, minedNonces, sent>>
    BY <1>2 DEF WW!AddWithdrawal, WW!WithdrawalStalls
  <2>2. withdrawalJobs' \in [WithdrawalJobs -> WW!Job]
    BY <1>2, WithdrawalQueue DEF WW!AddWithdrawal, WW!WithdrawalStalls, WW!WithdrawalTypeOK
  <2> QED
    BY <2>1, <2>2
       DEF WW!WithdrawalTypeOK, SlotsApart, WithdrawalLocked, WithdrawalAlone, StillWanted
<1>3. ASSUME NEW w \in WithdrawalJobs, WW!WithdrawalLockExpires(w)
      PROVE  WithdrawalInv'
  <2>1. UNCHANGED <<withdrawalJobs, withdrawalRuns, payoutStatus, counter, minedNonces, sent>>
    BY <1>3 DEF WW!WithdrawalLockExpires
  <2>2. withdrawalLocks' \in SUBSET WithdrawalJobs
    BY <1>3 DEF WW!WithdrawalLockExpires, WW!WithdrawalTypeOK
  <2>3. WithdrawalLocked'
    BY <1>3, <2>1 DEF WW!WithdrawalLockExpires, WithdrawalLocked, LockSteps
  <2> QED
    BY <2>1, <2>2, <2>3 DEF WW!WithdrawalTypeOK, SlotsApart, WithdrawalAlone, StillWanted
<1>4. ASSUME NEW i \in Slots, NEW w \in WithdrawalJobs, WW!ProcessWithdrawal(i, w)
      PROVE  WithdrawalInv'
  <2> DEFINE next == [slot |-> i, job |-> w, made |-> withdrawalJobs[w].made,
                      numbered |-> FALSE, nonce |-> 0, at |-> "lock"]
  <2>1. UNCHANGED <<withdrawalLocks, payoutStatus, counter, minedNonces, sent>>
    BY <1>4 DEF WW!ProcessWithdrawal
  <2>2. withdrawalRuns' = withdrawalRuns \cup {next} /\ \A s \in withdrawalRuns : s.slot # i
    BY <1>4 DEF WW!ProcessWithdrawal
  <2>3. WW!WithdrawalTypeOK'
    <3>1. WW!Taken(withdrawalJobs[w], i) \in WW!Job /\ withdrawalJobs[w].made \in Nat
      BY WithdrawalQueue DEF WW!WithdrawalTypeOK
    <3>2. withdrawalJobs' \in [WithdrawalJobs -> WW!Job]
      BY <1>4, <3>1 DEF WW!ProcessWithdrawal, WW!WithdrawalTypeOK
    <3>3. next \in WW!WithdrawalRun
      BY <3>1 DEF WW!WithdrawalRun
    <3> HIDE DEF next
    <3> QED
      BY <2>1, <2>2, <3>2, <3>3 DEF WW!WithdrawalTypeOK
  <2>4. \A s \in withdrawalRuns' : s.at \in LockSteps \/ s.at \in Paying => s \in withdrawalRuns
    BY <2>2 DEF LockSteps, Paying
  <2>5. SlotsApart(withdrawalRuns')
    <3>1. next.slot = i
      OBVIOUS
    <3> HIDE DEF next
    <3> QED
      BY <2>2, <3>1 DEF SlotsApart
  <2>6. WithdrawalLocked' /\ WithdrawalAlone' /\ StillWanted'
    BY <2>1, <2>4 DEF WithdrawalLocked, WithdrawalAlone, StillWanted
  <2> QED
    BY <2>1, <2>3, <2>5, <2>6
<1>5. ASSUME NEW r \in withdrawalRuns, WW!WithdrawalStep(r) \/ WW!WithdrawalRunDies(r)
      PROVE  WithdrawalInv'
  BY <1>1, <1>5, WithdrawalStepInv
<1> QED
  BY <1>2, <1>3, <1>4, <1>5 DEF WW!WithdrawalNext

LEMMA WithdrawalStutters ==
    ASSUME WithdrawalInv, UNCHANGED withdrawalVars
    PROVE  WithdrawalInv'
BY DEF withdrawalVars, WithdrawalInv, WW!WithdrawalTypeOK, SlotsApart, WithdrawalLocked,
       WithdrawalAlone, StillWanted

LEMMA WithdrawalStarts ==
    ASSUME WW!WithdrawalInit, WW!WithdrawalConstants
    PROVE  WithdrawalInv
<1>1. 0 .. FirstNonce - 1 \in SUBSET Nat /\ IsFiniteSet(0 .. FirstNonce - 1)
  BY FS_Interval DEF WW!WithdrawalConstants
<1>2. WW!WithdrawalTypeOK
  BY <1>1, WithdrawalQueue DEF WW!WithdrawalInit, WW!WithdrawalTypeOK
<1> QED
  BY <1>1, <1>2
     DEF WW!WithdrawalInit, WithdrawalInv, SlotsApart, WithdrawalLocked, WithdrawalAlone,
         StillWanted

(* Only a run that found its withdrawal wanted, and has kept it locked     *)
(* since, broadcasts.                                                      *)
LEMMA OnlyWantedIsSent ==
    ASSUME WithdrawalInv, WW!WithdrawalNext, NEW w \in WithdrawalJobs, payoutStatus[w] = "FAILED"
    PROVE  sent'[w] = sent[w]
<1>1. CASE UNCHANGED sent
  BY <1>1
<1>2. CASE \E r \in withdrawalRuns : WW!SignAndBroadcast(r)
  <2>1. PICK r \in withdrawalRuns : WW!SignAndBroadcast(r)
    BY <1>2
  <2>2. payoutStatus[r.job] # "FAILED"
    BY <2>1 DEF WithdrawalInv, StillWanted, Paying, WW!SignAndBroadcast
  <2>3. sent \in [WithdrawalJobs -> Nat]
    BY DEF WithdrawalInv, WW!WithdrawalTypeOK
  <2> QED
    BY <2>1, <2>2, <2>3 DEF WW!SignAndBroadcast
<1>3. UNCHANGED sent \/ \E r \in withdrawalRuns : WW!SignAndBroadcast(r)
  BY DEF WW!WithdrawalNext, WW!AddWithdrawal, WW!WithdrawalStalls, WW!WithdrawalLockExpires,
         WW!ProcessWithdrawal, WW!WithdrawalRunDies, WW!WithdrawalStep,
         WW!AcquireWithdrawalLock, WW!VerifyWithdrawal, WW!MarkProcessing, WW!AcquireNonce,
         WW!SeedNonce, WW!RecordBroadcast, WW!QueueMonitoring, WW!ReleaseNonce,
         WW!MarkFailed, WW!MoveToDLQ, WW!ReleaseWithdrawalLock, WW!FailWithdrawal
<1> QED
  BY <1>1, <1>2, <1>3

---------------------------------------------------------------------------
(* The webhook worker                                                      *)

LEMMA WebhookQueue ==
    /\ HW!Added \in HW!Job /\ HW!NoJob \in HW!Job
    /\ \A job \in HW!Job : HW!Stalled(job) \in HW!Job
    /\ \A job \in HW!Job, i \in Slots :
          HW!Taken(job, i) \in HW!Job /\ HW!Completed(job, i) \in HW!Job
    /\ \A job \in HW!Job, i \in Slots, n \in Nat : HW!Failed(job, i, n) \in HW!Job
    /\ \A job \in HW!Job : job.made \in Nat /\ job.stalls \in Nat
<1>1. HW!Job = Job /\ HW!Added = Added /\ HW!NoJob = NoJob
  BY DEF HW!Job, HW!JobState, HW!Added, HW!NoJob, HW!Nobody, Job, JobState, Added, NoJob, Nobody
<1>2. \A job, i, n :
        /\ HW!Taken(job, i) = Taken(job, i)
        /\ HW!Completed(job, i) = Completed(job, i)
        /\ HW!Failed(job, i, n) = Failed(job, i, n)
        /\ HW!Stalled(job) = Stalled(job)
  BY DEF HW!Taken, HW!Completed, HW!Failed, HW!Stalled, HW!Holds, HW!Exhausted, HW!Nobody,
         Taken, Completed, Failed, Stalled, Holds, Exhausted, Nobody
<1>3. \A job \in HW!Job : job.made \in Nat /\ job.stalls \in Nat
  BY DEF HW!Job
<1> QED
  BY <1>1, <1>2, <1>3, JobTypes

(* What a job looks like after something happened to it.                   *)
LEMMA WebhookJobChanges ==
    \A job \in HW!Job, i \in Slots :
        /\ HW!Taken(job, i).run = i /\ HW!Taken(job, i).made = job.made
        /\ \/ HW!Completed(job, i) = job
           \/ HW!Completed(job, i).run = 0 /\ HW!Completed(job, i).state = "completed"
        /\ \/ HW!Failed(job, i, WebhookAttempts) = job
           \/ /\ job.run = i /\ HW!Failed(job, i, WebhookAttempts).run = 0
              /\ HW!Failed(job, i, WebhookAttempts).state = "failed"
                   => job.made + 1 >= WebhookAttempts
<1> SUFFICES ASSUME NEW job \in HW!Job, NEW i \in Slots
             PROVE  /\ HW!Taken(job, i).run = i /\ HW!Taken(job, i).made = job.made
                    /\ \/ HW!Completed(job, i) = job
                       \/ /\ HW!Completed(job, i).run = 0
                          /\ HW!Completed(job, i).state = "completed"
                    /\ \/ HW!Failed(job, i, WebhookAttempts) = job
                       \/ /\ job.run = i /\ HW!Failed(job, i, WebhookAttempts).run = 0
                          /\ HW!Failed(job, i, WebhookAttempts).state = "failed"
                               => job.made + 1 >= WebhookAttempts
  OBVIOUS
<1> USE DEF HW!Job, HW!Nobody
<1>1. HW!Taken(job, i).run = i /\ HW!Taken(job, i).made = job.made
  BY DEF HW!Taken
<1>2. \/ HW!Completed(job, i) = job
      \/ HW!Completed(job, i).run = 0 /\ HW!Completed(job, i).state = "completed"
  BY DEF HW!Completed, HW!Holds
<1>3. \/ HW!Failed(job, i, WebhookAttempts) = job
      \/ /\ job.run = i /\ HW!Failed(job, i, WebhookAttempts).run = 0
         /\ HW!Failed(job, i, WebhookAttempts).state = "failed"
              => job.made + 1 >= WebhookAttempts
  BY DEF HW!Failed, HW!Holds, HW!Exhausted
<1> QED
  BY <1>1, <1>2, <1>3

LEMMA WebhookJobStalls ==
    \A job \in HW!Job :
        /\ HW!Stalled(job).run = 0
        /\ HW!Stalled(job).state = "failed" => HW!Stalled(job).stalls > 1
BY DEF HW!Job, HW!Nobody, HW!Stalled

WebhookSteps == {"merchant", "send", "caught", "fail"}

(* A run that still holds its job was given the attempts the job has.      *)
HolderCounts ==
    \A r \in webhookRuns :
        webhookJobs[r.job].run = r.slot => webhookJobs[r.job].made = r.made

(* A run is about to fail for the last time only after it has moved its    *)
(* job to the dead-letter queue.                                           *)
LastFailureIsDead ==
    \A r \in webhookRuns :
        r.at = "fail" /\ faults \cap {"redis", "db"} = {} /\ r.made + 1 >= GiveUpAfter
            => r.job \in deadWebhooks

WebhookInv ==
    /\ HW!WebhookTypeOK /\ SlotsApart(webhookRuns) /\ HolderCounts /\ LastFailureIsDead
    /\ GiveUpAfter <= WebhookAttempts => HW!FailedIsDeadLettered

WebhookMoves(r, step) ==
    webhookRuns' \subseteq (webhookRuns \ {r}) \cup
        {[slot |-> r.slot, job |-> r.job, made |-> r.made, at |-> step]}

(* A job whose lock nobody holds any more is nobody's.                     *)
Loosened(k) == webhookJobs'[k] = webhookJobs[k] \/ webhookJobs'[k].run = 0

LEMMA WebhookMove ==
    ASSUME WebhookInv, UNCHANGED faults, NEW r \in webhookRuns, NEW step \in WebhookSteps,
           WebhookMoves(r, step),
           webhookJobs' \in [WebhookJobs -> HW!Job], enabled' \in BOOLEAN,
           received' \in SUBSET WebhookJobs, deadWebhooks' \in SUBSET WebhookJobs,
           deadWebhooks \subseteq deadWebhooks',
           \A k \in WebhookJobs : Loosened(k),
           step = "fail" => \/ r.job \in deadWebhooks'
                            \/ ~(r.made + 1 >= GiveUpAfter)
                            \/ faults \cap {"redis", "db"} # {},
           \A k \in WebhookJobs :
               \/ webhookJobs'[k] = webhookJobs[k]
               \/ webhookJobs'[k].state # "failed"
               \/ ~(webhookJobs'[k].stalls <= 1)
               \/ faults \cap {"redis", "db"} # {}
               \/ ~(GiveUpAfter <= WebhookAttempts)
               \/ k \in deadWebhooks'
    PROVE  WebhookInv'
<1> DEFINE next == [slot |-> r.slot, job |-> r.job, made |-> r.made, at |-> step]
<1>1. r \in HW!WebhookRun /\ r.job \in WebhookJobs /\ r.slot \in Slots
  BY DEF WebhookInv, HW!WebhookTypeOK, HW!WebhookRun
<1>2. next \in HW!WebhookRun
  BY <1>1 DEF HW!WebhookRun, WebhookSteps
<1>3. next.slot = r.slot /\ next.job = r.job /\ next.made = r.made /\ next.at = step
  OBVIOUS
<1>4. webhookRuns' \subseteq (webhookRuns \ {r}) \cup {next}
  BY DEF WebhookMoves
<1> HIDE DEF next
<1>5. HW!WebhookTypeOK'
  BY <1>2, <1>4 DEF WebhookInv, HW!WebhookTypeOK
<1>6. SlotsApart(webhookRuns')
  BY <1>3, <1>4, MoveApart DEF WebhookInv
<1>7. HolderCounts'
  <2>1. \A s \in webhookRuns : s.job \in WebhookJobs /\ s.slot \in Slots
    BY DEF WebhookInv, HW!WebhookTypeOK, HW!WebhookRun
  <2>2. \A i \in Slots : i # 0
    BY SlotsAssumption DEF Nobody
  <2>3. ASSUME NEW s \in webhookRuns', webhookJobs'[s.job].run = s.slot
        PROVE  webhookJobs'[s.job].made = s.made
    <3>1. PICK t \in webhookRuns : t.slot = s.slot /\ t.job = s.job /\ t.made = s.made
      BY <1>3, <1>4
    <3>2. webhookJobs'[s.job] = webhookJobs[s.job]
      BY <2>1, <2>2, <2>3, <3>1 DEF Loosened
    <3> QED
      BY <2>3, <3>1, <3>2 DEF WebhookInv, HolderCounts
  <2> QED
    BY <2>3 DEF HolderCounts
<1>8. LastFailureIsDead'
  BY <1>3, <1>4 DEF WebhookInv, LastFailureIsDead
<1>9. ASSUME GiveUpAfter <= WebhookAttempts
      PROVE  HW!FailedIsDeadLettered'
  BY <1>9 DEF WebhookInv, HW!FailedIsDeadLettered
<1> QED
  BY <1>5, <1>6, <1>7, <1>8, <1>9 DEF WebhookInv

LEMMA WebhookStepInv ==
    ASSUME WebhookInv, HW!WebhookConstants, UNCHANGED faults,
           NEW r \in webhookRuns, HW!WebhookStep(r) \/ HW!WebhookRunDies(r)
    PROVE  WebhookInv'
<1>1. r \in HW!WebhookRun /\ r.job \in WebhookJobs /\ r.slot \in Slots /\ r.made \in Nat
  BY DEF WebhookInv, HW!WebhookTypeOK, HW!WebhookRun
<1>2. /\ webhookJobs \in [WebhookJobs -> HW!Job] /\ enabled \in BOOLEAN
      /\ received \in SUBSET WebhookJobs /\ deadWebhooks \in SUBSET WebhookJobs
  BY DEF WebhookInv, HW!WebhookTypeOK
<1>3. ASSUME NEW step \in WebhookSteps
      PROVE  HW!Goto(r, step) => WebhookMoves(r, step)
  <2>1. [r EXCEPT !.at = step] = [slot |-> r.slot, job |-> r.job, made |-> r.made, at |-> step]
    BY <1>1 DEF HW!WebhookRun
  <2> QED
    BY <2>1 DEF HW!Goto, WebhookMoves
<1>4. HW!Ends(r) => WebhookMoves(r, "merchant")
  BY DEF HW!Ends, WebhookMoves
<1>5. webhookJobs[r.job] \in HW!Job
  BY <1>1, <1>2
<1> DEFINE JobsKept ==
             /\ webhookJobs' \in [WebhookJobs -> HW!Job]
             /\ \A k \in WebhookJobs : Loosened(k)
             /\ \A k \in WebhookJobs :
                   \/ webhookJobs'[k] = webhookJobs[k]
                   \/ webhookJobs'[k].state # "failed"
                   \/ ~(webhookJobs'[k].stalls <= 1)
                   \/ faults \cap {"redis", "db"} # {}
                   \/ ~(GiveUpAfter <= WebhookAttempts)
                   \/ k \in deadWebhooks'
<1>6. UNCHANGED webhookJobs => JobsKept
  BY <1>2 DEF Loosened
<1>7. HW!Returns(r) => JobsKept
  <2> DEFINE after == HW!Completed(webhookJobs[r.job], r.slot)
  <2>1. /\ after \in HW!Job
        /\ \/ after = webhookJobs[r.job]
           \/ after.run = 0 /\ after.state = "completed"
    <3>1. after \in HW!Job
      BY <1>1, <1>5, WebhookQueue
    <3>2. \/ after = webhookJobs[r.job]
          \/ after.run = 0 /\ after.state = "completed"
      BY <1>1, <1>5, WebhookJobChanges
    <3> QED
      BY <3>1, <3>2
  <2> HIDE DEF after
  <2>2. HW!Returns(r) => webhookJobs' = [webhookJobs EXCEPT ![r.job] = after]
    BY DEF HW!Returns, after
  <2> QED
    BY <1>1, <1>2, <2>1, <2>2 DEF Loosened
<1> HIDE DEF JobsKept
<1>8. CASE HW!LoadMerchant(r)
  <2>1. UNCHANGED <<enabled, received, deadWebhooks>>
    BY <1>8 DEF HW!LoadMerchant
  <2>2. \/ JobsKept /\ \E step \in {"send", "merchant"} : WebhookMoves(r, step)
        \/ JobsKept /\ WebhookMoves(r, "fail") /\ "db" \in faults
    BY <1>3, <1>4, <1>6, <1>7, <1>8 DEF HW!LoadMerchant, HW!Proceeds, HW!Returns, WebhookSteps
  <2> QED
    BY <1>2, <2>1, <2>2, WebhookMove DEF JobsKept, WebhookSteps
<1>9. CASE HW!SendWebhookRequest(r)
  <2>1. UNCHANGED <<enabled, deadWebhooks>> /\ received' \in SUBSET WebhookJobs
    BY <1>1, <1>2, <1>9 DEF HW!SendWebhookRequest
  <2>2. JobsKept /\ \E step \in {"merchant", "caught"} : WebhookMoves(r, step)
    BY <1>3, <1>4, <1>6, <1>7, <1>9
       DEF HW!SendWebhookRequest, HW!Proceeds, HW!Returns, WebhookSteps
  <2> QED
    BY <1>2, <2>1, <2>2, WebhookMove DEF JobsKept, WebhookSteps
<1>10. CASE HW!CatchFailure(r)
  <2>1. /\ UNCHANGED <<enabled, received>> /\ deadWebhooks \subseteq deadWebhooks'
        /\ deadWebhooks' \in SUBSET WebhookJobs
        /\ \/ r.job \in deadWebhooks'
           \/ ~(r.made + 1 >= GiveUpAfter)
           \/ faults \cap {"redis", "db"} # {}
    BY <1>1, <1>2, <1>10 DEF HW!CatchFailure
  <2>2. JobsKept /\ WebhookMoves(r, "fail")
    BY <1>3, <1>6, <1>10 DEF HW!CatchFailure, HW!Proceeds, WebhookSteps
  <2> QED
    BY <1>2, <2>1, <2>2, WebhookMove DEF JobsKept, WebhookSteps
<1>11. CASE HW!FailWebhook(r)
  <2>1. UNCHANGED <<enabled, received, deadWebhooks>> /\ WebhookMoves(r, "merchant")
    BY <1>4, <1>11 DEF HW!FailWebhook
  <2>2. JobsKept
    <3> DEFINE after == HW!Failed(webhookJobs[r.job], r.slot, WebhookAttempts)
    <3>1. /\ after \in HW!Job
          /\ \/ after = webhookJobs[r.job]
             \/ /\ webhookJobs[r.job].run = r.slot /\ after.run = 0
                /\ after.state = "failed" => webhookJobs[r.job].made + 1 >= WebhookAttempts
      <4>1. after \in HW!Job
        BY <1>1, <1>5, WebhookQueue DEF HW!WebhookConstants
      <4>2. \/ after = webhookJobs[r.job]
            \/ /\ webhookJobs[r.job].run = r.slot /\ after.run = 0
               /\ after.state = "failed" => webhookJobs[r.job].made + 1 >= WebhookAttempts
        BY <1>1, <1>5, WebhookJobChanges
      <4> QED
        BY <4>1, <4>2
    <3> HIDE DEF after
    <3>2. webhookJobs' = [webhookJobs EXCEPT ![r.job] = after]
      BY <1>11 DEF HW!FailWebhook, after
    <3>3. webhookJobs[r.job].run = r.slot => webhookJobs[r.job].made = r.made
      BY DEF WebhookInv, HolderCounts
    <3>4. \/ r.job \in deadWebhooks
          \/ ~(r.made + 1 >= GiveUpAfter)
          \/ faults \cap {"redis", "db"} # {}
      BY <1>11 DEF WebhookInv, LastFailureIsDead, HW!FailWebhook
    <3>5. r.made + 1 >= WebhookAttempts /\ GiveUpAfter <= WebhookAttempts
            => r.made + 1 >= GiveUpAfter
      BY <1>1 DEF HW!WebhookConstants
    <3>6. \/ after = webhookJobs[r.job]
          \/ /\ after.run = 0
             /\ \/ after.state # "failed"
                \/ faults \cap {"redis", "db"} # {}
                \/ ~(GiveUpAfter <= WebhookAttempts)
                \/ r.job \in deadWebhooks
      BY <3>1, <3>3, <3>4, <3>5
    <3> QED
      BY <1>1, <1>2, <2>1, <3>1, <3>2, <3>6 DEF JobsKept, Loosened
  <2> QED
    BY <1>2, <2>1, <2>2, WebhookMove DEF JobsKept, WebhookSteps
<1>12. CASE HW!WebhookRunDies(r)
  <2>1. UNCHANGED <<webhookJobs, enabled, received, deadWebhooks>> /\ WebhookMoves(r, "merchant")
    BY <1>4, <1>12 DEF HW!WebhookRunDies
  <2> QED
    BY <1>2, <1>6, <2>1, WebhookMove DEF JobsKept, WebhookSteps
<1> QED
  BY <1>8, <1>9, <1>10, <1>11, <1>12 DEF HW!WebhookStep

LEMMA WebhookNextInv ==
    ASSUME WebhookInv, HW!WebhookConstants, HW!WebhookNext
    PROVE  WebhookInv'
<1>1. UNCHANGED faults
  BY DEF HW!WebhookNext
<1>2. /\ webhookJobs \in [WebhookJobs -> HW!Job] /\ enabled \in BOOLEAN
      /\ received \in SUBSET WebhookJobs /\ deadWebhooks \in SUBSET WebhookJobs
      /\ webhookRuns \in SUBSET HW!WebhookRun
  BY DEF WebhookInv, HW!WebhookTypeOK
<1>3. /\ \A s \in webhookRuns : s.job \in WebhookJobs /\ s.slot \in Slots
      /\ \A i \in Slots : i # 0
  BY <1>2, SlotsAssumption DEF HW!WebhookRun, Nobody
<1>4. ASSUME NEW k \in WebhookJobs, HW!AddWebhook(k) \/ HW!WebhookStalls(k)
      PROVE  WebhookInv'
  <2>1. UNCHANGED <<webhookRuns, enabled, received, deadWebhooks>>
    BY <1>4 DEF HW!AddWebhook, HW!WebhookStalls
  <2>2. PICK after \in HW!Job :
          /\ webhookJobs' = [webhookJobs EXCEPT ![k] = after]
          /\ after.run = 0 /\ (after.state = "failed" => ~(after.stalls <= 1))
    <3>1. CASE HW!AddWebhook(k)
      <4>1. HW!Added \in HW!Job /\ HW!Added.run = 0 /\ HW!Added.state # "failed"
        BY WebhookQueue DEF HW!Added, HW!NoJob, HW!Nobody
      <4> QED
        BY <3>1, <4>1 DEF HW!AddWebhook
    <3>2. CASE HW!WebhookStalls(k)
      <4>1. webhookJobs[k] \in HW!Job
        BY <1>2
      <4>2. /\ HW!Stalled(webhookJobs[k]) \in HW!Job
            /\ HW!Stalled(webhookJobs[k]).run = 0
            /\ HW!Stalled(webhookJobs[k]).state = "failed" => HW!Stalled(webhookJobs[k]).stalls > 1
            /\ HW!Stalled(webhookJobs[k]).stalls \in Nat
        BY <4>1, WebhookQueue, WebhookJobStalls
      <4>3. HW!Stalled(webhookJobs[k]).stalls > 1 => ~(HW!Stalled(webhookJobs[k]).stalls <= 1)
        BY <4>2
      <4> QED
        BY <3>2, <4>2, <4>3 DEF HW!WebhookStalls
    <3> QED
      BY <1>4, <3>1, <3>2
  <2>3. webhookJobs' \in [WebhookJobs -> HW!Job]
    BY <1>2, <2>2
  <2>4. HW!WebhookTypeOK'
    BY <2>1, <2>3 DEF WebhookInv, HW!WebhookTypeOK
  <2>5. SlotsApart(webhookRuns') /\ LastFailureIsDead'
    BY <1>1, <2>1 DEF WebhookInv, LastFailureIsDead
  <2>6. HolderCounts'
    BY <1>2, <1>3, <2>1, <2>2 DEF WebhookInv, HolderCounts
  <2>7. ASSUME GiveUpAfter <= WebhookAttempts
        PROVE  HW!FailedIsDeadLettered'
    BY <1>1, <1>2, <2>1, <2>2, <2>7 DEF WebhookInv, HW!FailedIsDeadLettered
  <2> QED
    BY <2>4, <2>5, <2>6, <2>7 DEF WebhookInv
<1>5. ASSUME NEW i \in Slots, NEW k \in WebhookJobs, HW!ProcessWebhook(i, k)
      PROVE  WebhookInv'
  <2> DEFINE next == [slot |-> i, job |-> k, made |-> webhookJobs[k].made, at |-> "merchant"]
             after == HW!Taken(webhookJobs[k], i)
  <2>1. UNCHANGED <<enabled, received, deadWebhooks>>
    BY <1>5 DEF HW!ProcessWebhook
  <2>2. /\ webhookRuns' = webhookRuns \cup {next} /\ \A s \in webhookRuns : s.slot # i
        /\ webhookJobs' = [webhookJobs EXCEPT ![k] = after]
    BY <1>5 DEF HW!ProcessWebhook
  <2>3. after \in HW!Job /\ after.run = i /\ after.made = webhookJobs[k].made
    BY <1>2, WebhookQueue, WebhookJobChanges
  <2>4. after.state = "active"
    BY <1>2 DEF HW!Taken, HW!Job
  <2>5. next \in HW!WebhookRun
    BY <1>2, WebhookQueue DEF HW!WebhookRun
  <2>6. /\ next.slot = i /\ next.job = k /\ next.made = webhookJobs[k].made
        /\ next.at = "merchant"
    OBVIOUS
  <2> HIDE DEF next, after
  <2>7. HW!WebhookTypeOK'
    BY <1>2, <2>1, <2>2, <2>3, <2>5 DEF HW!WebhookTypeOK
  <2>8. SlotsApart(webhookRuns') /\ LastFailureIsDead'
    BY <1>1, <2>1, <2>2, <2>6 DEF WebhookInv, LastFailureIsDead, SlotsApart
  <2>9. HolderCounts'
    BY <1>2, <1>3, <2>2, <2>3, <2>6 DEF WebhookInv, HolderCounts
  <2>10. ASSUME GiveUpAfter <= WebhookAttempts
         PROVE  HW!FailedIsDeadLettered'
    BY <1>1, <1>2, <2>1, <2>2, <2>4, <2>10 DEF WebhookInv, HW!FailedIsDeadLettered
  <2> QED
    BY <2>7, <2>8, <2>9, <2>10 DEF WebhookInv
<1>6. ASSUME NEW r \in webhookRuns, HW!WebhookStep(r) \/ HW!WebhookRunDies(r)
      PROVE  WebhookInv'
  BY <1>1, <1>6, WebhookStepInv
<1>7. CASE HW!MerchantConfigures
  BY <1>1, <1>2, <1>7
     DEF HW!MerchantConfigures, WebhookInv, HW!WebhookTypeOK, SlotsApart, HolderCounts,
         LastFailureIsDead, HW!FailedIsDeadLettered
<1> QED
  BY <1>4, <1>5, <1>6, <1>7 DEF HW!WebhookNext

LEMMA WebhookStutters ==
    ASSUME WebhookInv, UNCHANGED <<faults, webhookVars>>
    PROVE  WebhookInv'
BY DEF webhookVars, WebhookInv, HW!WebhookTypeOK, SlotsApart, HolderCounts,
       LastFailureIsDead, HW!FailedIsDeadLettered

LEMMA WebhookStarts ==
    ASSUME HW!WebhookInit
    PROVE  WebhookInv
<1>1. HW!WebhookTypeOK
  BY WebhookQueue DEF HW!WebhookInit, HW!WebhookTypeOK
<1>2. HW!FailedIsDeadLettered
  BY DEF HW!WebhookInit, HW!FailedIsDeadLettered, HW!NoJob
<1> QED
  BY <1>1, <1>2 DEF HW!WebhookInit, WebhookInv, SlotsApart, HolderCounts, LastFailureIsDead

---------------------------------------------------------------------------
(* Conversions                                                             *)

LEMMA ConversionQueue ==
    /\ CW!Added \in CW!Job /\ CW!NoJob \in CW!Job
    /\ \A job \in CW!Job : CW!Stalled(job) \in CW!Job
    /\ \A job \in CW!Job, i \in Slots :
          CW!Taken(job, i) \in CW!Job /\ CW!Removed(job, i) \in CW!Job
    /\ \A job \in CW!Job, i \in Slots, n \in Nat : CW!Failed(job, i, n) \in CW!Job
<1>1. CW!Job = Job /\ CW!Added = Added /\ CW!NoJob = NoJob
  BY DEF CW!Job, CW!JobState, CW!Added, CW!NoJob, CW!Nobody, Job, JobState, Added, NoJob, Nobody
<1>2. \A job, i, n :
        /\ CW!Taken(job, i) = Taken(job, i)
        /\ CW!Removed(job, i) = job \/ CW!Removed(job, i) = NoJob
        /\ CW!Failed(job, i, n) = Failed(job, i, n)
        /\ CW!Stalled(job) = Stalled(job)
  BY DEF CW!Taken, CW!Removed, CW!NoJob, NoJob, CW!Failed, CW!Stalled, CW!Holds, CW!Exhausted,
         CW!Nobody, Taken, Failed, Stalled, Holds, Exhausted, Nobody
<1>3. NoJob \in Job
  BY JobTypes
<1> QED
  BY <1>1, <1>2, <1>3, JobTypes

(* A job that was never added is nobody's and stays as it is.              *)
LEMMA NoJobStays ==
    /\ \A i \in Slots, n \in Nat :
          CW!Removed(CW!NoJob, i) = CW!NoJob /\ CW!Failed(CW!NoJob, i, n) = CW!NoJob
    /\ CW!NoJob.state \notin {"waiting", "active"}
<1>1. \A i \in Slots : i # 0
  BY SlotsAssumption DEF Nobody
<1> QED
  BY <1>1 DEF CW!Removed, CW!Failed, CW!Holds, CW!NoJob, CW!Nobody

QueueEntry == [c : Conversions, step : {"sweep", "swap", "settle"}, job : CW!Job]

ConversionSteps == {"disburse", "queueSweep", "sendFee", "feeFailed", "load", "readSweep",
                    "markSweep", "readSwap", "markSwap", "sell", "markSold", "swapFailed",
                    "readSettle", "settle", "queueNext", "fail", "giveUp"}

(* The steps of processConversionJob itself.                               *)
JobSteps == {"load", "queueNext", "fail", "giveUp"}

Created(c) == conversionStatus[c] # "NONE"

(* A conversion somebody works on, or has a job for, was created.          *)
WorkIsCreated ==
    /\ \A r \in conversionRuns : Created(r.c)
    /\ \A k \in StepJobs : stepJobs[k].job # CW!NoJob => Created(stepJobs[k].c)
    /\ \A c \in Conversions : method[c] # "none" => Created(c)
    /\ \A c \in Conversions : feeStatus[c] # "NONE" => Created(c)

JobsHaveIds == \A r \in conversionRuns : r.at \in JobSteps => r.id \in StepJobs

Exchanged(c) == method[c] = "cex_binance"

(* Who records the sale, or settles, does so for what was sold.            *)
SoldFirst ==
    \A r \in conversionRuns :
        r.at \in {"markSold", "settle"} /\ Exchanged(r.c) => sales[r.c] > 0

SettledWasSold ==
    \A c \in Conversions :
        Exchanged(c) /\ conversionStatus[c] \in {"SETTLING", "COMPLETED"} => sales[c] > 0

ConversionInv ==
    CW!ConversionTypeOK /\ WorkIsCreated /\ JobsHaveIds /\ SoldFirst /\ SettledWasSold

ConversionMoves(r, step) ==
    conversionRuns' \subseteq (conversionRuns \ {r}) \cup
        {[slot |-> r.slot, id |-> r.id, c |-> r.c, at |-> step]}

(* What may become of the queue: jobs for what was created.                *)
Sound(jobs) ==
    /\ jobs \in [StepJobs -> QueueEntry]
    /\ \A k \in StepJobs : jobs[k].job # CW!NoJob => Created(jobs[k].c)

QueueKept == Sound(stepJobs')

(* What may happen to statuses and sales.                                  *)
StatusKept ==
    /\ conversionStatus' \in [Conversions -> CW!ConversionStatus \cup {"NONE"}]
    /\ sales' \in [Conversions -> Nat]
    /\ \A c \in Conversions :
          /\ Created(c) => conversionStatus'[c] # "NONE"
          /\ sales[c] > 0 => sales'[c] > 0
          /\ Exchanged(c) /\ conversionStatus'[c] \in {"SETTLING", "COMPLETED"} => sales'[c] > 0

(* What may happen to the disbursement of fees.                            *)
FeeKept ==
    /\ feeStatus' \in [Conversions -> {"NONE", "PENDING", "SENT", "FAILED"}]
    /\ \A c \in Conversions : feeStatus'[c] # "NONE" => Created(c)

LEMMA ConversionMove ==
    ASSUME ConversionInv, NEW r \in conversionRuns, NEW step \in ConversionSteps,
           ConversionMoves(r, step), QueueKept, StatusKept, FeeKept, UNCHANGED method,
           step \in {"markSold", "settle"} /\ Exchanged(r.c) => sales'[r.c] > 0,
           step \in JobSteps => r.id \in StepJobs
    PROVE  ConversionInv'
<1> DEFINE next == [slot |-> r.slot, id |-> r.id, c |-> r.c, at |-> step]
<1>1. r \in CW!ConversionRun /\ r.c \in Conversions
  BY DEF ConversionInv, CW!ConversionTypeOK, CW!ConversionRun
<1>2. next \in CW!ConversionRun
  BY <1>1 DEF CW!ConversionRun, ConversionSteps
<1>3. next.c = r.c /\ next.id = r.id /\ next.at = step
  OBVIOUS
<1>4. conversionRuns' \subseteq (conversionRuns \ {r}) \cup {next}
  BY DEF ConversionMoves
<1> HIDE DEF next
<1>5. \A s \in conversionRuns : s.c \in Conversions
  BY DEF ConversionInv, CW!ConversionTypeOK, CW!ConversionRun
<1>6. /\ method \in [Conversions -> {"none", "dex", "cex_binance"}]
      /\ stepJobs' \in
           [StepJobs -> [c : Conversions, step : {"sweep", "swap", "settle"}, job : CW!Job]]
  BY DEF ConversionInv, CW!ConversionTypeOK, QueueKept, Sound, QueueEntry
<1>7. CW!ConversionTypeOK'
  BY <1>2, <1>4, <1>6 DEF ConversionInv, CW!ConversionTypeOK, StatusKept, FeeKept, CW!Step
<1>8. WorkIsCreated'
  <2>1. \A s \in conversionRuns' : Created(s.c)'
    BY <1>1, <1>3, <1>4, <1>5 DEF ConversionInv, WorkIsCreated, StatusKept, Created
  <2>2. \A k \in StepJobs :
           stepJobs'[k].job # CW!NoJob => conversionStatus'[stepJobs'[k].c] # "NONE"
    <3>1. \A k \in StepJobs : stepJobs'[k].c \in Conversions
      BY <1>6
    <3> QED
      BY <3>1 DEF QueueKept, Sound, StatusKept, Created
  <2>3. \A c \in Conversions : method'[c] # "none" => Created(c)'
    BY <1>6 DEF ConversionInv, WorkIsCreated, StatusKept, Created
  <2>4. \A c \in Conversions : feeStatus'[c] # "NONE" => Created(c)'
    BY DEF FeeKept, StatusKept, Created
  <2> QED
    BY <2>1, <2>2, <2>3, <2>4 DEF WorkIsCreated, Created
<1>9. JobsHaveIds'
  BY <1>3, <1>4 DEF ConversionInv, JobsHaveIds
<1>10. SoldFirst'
  BY <1>1, <1>3, <1>4, <1>5 DEF ConversionInv, SoldFirst, StatusKept, Exchanged
<1>11. SettledWasSold'
  BY <1>6 DEF StatusKept, SettledWasSold, Exchanged
<1> QED
  BY <1>7, <1>8, <1>9, <1>10, <1>11 DEF ConversionInv

LEMMA SoundQueues ==
    ASSUME ConversionInv
    PROVE  /\ Sound(stepJobs)
           /\ \A jobs, k, job :
                 /\ Sound(jobs) /\ k \in StepJobs /\ job \in CW!Job
                 /\ jobs[k].job = CW!NoJob => job = CW!NoJob
                 => Sound([jobs EXCEPT ![k].job = job])
           /\ \A c \in Conversions, step \in {"sweep", "swap", "settle"} :
                 Created(c) => Sound(CW!WithStep(stepJobs, c, step))
<1>1. Sound(stepJobs)
  BY DEF ConversionInv, CW!ConversionTypeOK, CW!Step, Sound, QueueEntry, WorkIsCreated
<1>2. ASSUME NEW jobs, NEW k \in StepJobs, NEW job \in CW!Job, Sound(jobs),
             jobs[k].job = CW!NoJob => job = CW!NoJob
      PROVE  Sound([jobs EXCEPT ![k].job = job])
  <2> DEFINE entry == [jobs[k] EXCEPT !.job = job]
  <2>1. jobs[k] \in QueueEntry
    BY <1>2 DEF Sound
  <2>2. entry \in QueueEntry /\ entry.job = job /\ entry.c = jobs[k].c
    BY <2>1 DEF QueueEntry
  <2>3. [jobs EXCEPT ![k].job = job] = [jobs EXCEPT ![k] = entry]
    OBVIOUS
  <2> HIDE DEF entry
  <2>4. [jobs EXCEPT ![k] = entry] \in [StepJobs -> QueueEntry]
    BY <1>2, <2>2 DEF Sound
  <2>5. \A l \in StepJobs : [jobs EXCEPT ![k] = entry][l] = IF l = k THEN entry ELSE jobs[l]
    BY <1>2 DEF Sound
  <2> QED
    BY <1>2, <2>2, <2>3, <2>4, <2>5 DEF Sound
<1>3. ASSUME NEW c \in Conversions, NEW step \in {"sweep", "swap", "settle"}, Created(c)
      PROVE  Sound(CW!WithStep(stepJobs, c, step))
  <2> DEFINE entry == [c |-> c, step |-> step, job |-> CW!Added]
             new == CHOOSE k \in CW!Free : \A l \in CW!Free : k <= l
  <2>1. entry \in QueueEntry /\ entry.c = c
    BY ConversionQueue DEF QueueEntry
  <2>2. CW!WithStep(stepJobs, c, step) = [stepJobs EXCEPT ![new] = entry]
    BY DEF CW!WithStep
  <2> HIDE DEF entry, new
  <2>3. [stepJobs EXCEPT ![new] = entry] \in [StepJobs -> QueueEntry]
    BY <1>1, <2>1 DEF Sound
  <2>4. \A l \in StepJobs : [stepJobs EXCEPT ![new] = entry][l] = IF l = new THEN entry ELSE stepJobs[l]
    BY <1>1 DEF Sound
  <2> QED
    BY <1>1, <1>3, <2>1, <2>2, <2>3, <2>4 DEF Sound
<1> QED
  BY <1>1, <1>2, <1>3

LEMMA ConversionStepInv ==
    ASSUME ConversionInv, CW!ConversionConstants, NEW r \in conversionRuns,
           CW!ConversionStep(r) \/ CW!ConversionRunDies(r)
    PROVE  ConversionInv'
<1>1. /\ r \in CW!ConversionRun /\ r.c \in Conversions /\ r.slot \in Slots
      /\ r.id \in StepJobs \cup {0}
  BY DEF ConversionInv, CW!ConversionTypeOK, CW!ConversionRun, CW!Nobody
<1>2. /\ conversionStatus \in [Conversions -> CW!ConversionStatus \cup {"NONE"}]
      /\ feeStatus \in [Conversions -> {"NONE", "PENDING", "SENT", "FAILED"}]
      /\ sales \in [Conversions -> Nat]
      /\ \A k \in StepJobs : stepJobs[k].job \in CW!Job
  BY DEF ConversionInv, CW!ConversionTypeOK
<1>3. Sound(stepJobs) /\ Created(r.c)
  BY SoundQueues DEF ConversionInv, WorkIsCreated
<1>4. ASSUME NEW step \in ConversionSteps, CW!Goto(r, step)
      PROVE  ConversionMoves(r, step)
  <2>1. [r EXCEPT !.at = step] = [slot |-> r.slot, id |-> r.id, c |-> r.c, at |-> step]
    BY <1>1 DEF CW!ConversionRun
  <2> QED
    BY <1>4, <2>1 DEF CW!Goto, ConversionMoves
<1>5. CW!Ends(r) => ConversionMoves(r, "disburse")
  BY DEF CW!Ends, ConversionMoves
<1>6. UNCHANGED stepJobs => QueueKept
  BY <1>3 DEF QueueKept
<1>7. ~CW!Batch(r) => r.id \in StepJobs
  BY <1>1 DEF CW!Batch, CW!Nobody
<1>8. CW!Finishes(r) => QueueKept
  <2>1. CASE CW!Batch(r)
    BY <1>6, <2>1 DEF CW!Finishes
  <2>2. CASE ~CW!Batch(r)
    <3> DEFINE job == CW!Removed(stepJobs[r.id].job, r.slot)
    <3>1. job \in CW!Job
      BY <1>1, <1>2, <1>7, <2>2, ConversionQueue
    <3>2. stepJobs[r.id].job = CW!NoJob => job = CW!NoJob
      <4>1. \A i \in Slots : CW!Removed(CW!NoJob, i) = CW!NoJob
        <5>1. 0 \in Nat
          OBVIOUS
        <5> QED
          BY <5>1, NoJobStays
      <4> QED
        BY <1>1, <4>1
    <3>3. CW!Finishes(r) => stepJobs' = [stepJobs EXCEPT ![r.id].job = job]
      BY <2>2 DEF CW!Finishes
    <3> HIDE DEF job
    <3>4. Sound([stepJobs EXCEPT ![r.id].job = job])
      BY <1>3, <1>7, <2>2, <3>1, <3>2, SoundQueues
    <3> QED
      BY <3>3, <3>4 DEF QueueKept
  <2> QED
    BY <2>1, <2>2
<1> DEFINE Went == /\ QueueKept
                   /\ \E step \in ConversionSteps \ {"markSold", "settle"} :
                         ConversionMoves(r, step) /\ (step \in JobSteps => r.id \in StepJobs)
<1>9. /\ \A step \in ConversionSteps \ {"markSold", "settle"} :
            CW!Proceeds(r, step) /\ (step \in JobSteps => r.id \in StepJobs) => Went
      /\ CW!Ends(r) /\ QueueKept => Went
  BY <1>4, <1>5, <1>6 DEF CW!Proceeds, ConversionSteps, JobSteps
<1>10. CW!Finishes(r) => Went
  BY <1>8, <1>9 DEF CW!Finishes
<1> HIDE DEF Went
<1>11. (CW!Served(r) => Went) /\ (CW!Throws(r) => Went) /\ (CW!DbThrows(r) => Went)
  BY <1>7, <1>9, <1>10 DEF CW!Served, CW!Throws, CW!DbThrows, ConversionSteps
<1>12. ASSUME Went, StatusKept, UNCHANGED method, FeeKept
       PROVE  ConversionInv'
  <2>1. PICK step \in ConversionSteps \ {"markSold", "settle"} :
          ConversionMoves(r, step) /\ (step \in JobSteps => r.id \in StepJobs)
    BY <1>12 DEF Went
  <2> QED
    BY <1>12, <2>1, ConversionMove DEF Went
<1>13. UNCHANGED <<conversionStatus, sales>> => StatusKept
  BY <1>2 DEF StatusKept, ConversionInv, SettledWasSold, Created, Exchanged
<1>14. ASSUME NEW s \in CW!ConversionStatus, CW!SetStatus(r.c, s), UNCHANGED sales,
              s \in {"SETTLING", "COMPLETED"} /\ Exchanged(r.c) => sales[r.c] > 0
       PROVE  StatusKept
  <2>1. conversionStatus' = [conversionStatus EXCEPT ![r.c] = s] /\ s # "NONE"
    BY <1>14 DEF CW!SetStatus, CW!ConversionStatus
  <2> QED
    BY <1>1, <1>2, <1>14, <2>1 DEF StatusKept, ConversionInv, SettledWasSold, Created, Exchanged
<1>15. UNCHANGED feeStatus => FeeKept
  BY <1>2 DEF FeeKept, ConversionInv, WorkIsCreated
<1>16. \A s \in {"PENDING", "SENT", "FAILED"} : CW!SetFee(r.c, s) => FeeKept
  BY <1>1, <1>2, <1>3 DEF CW!SetFee, FeeKept, ConversionInv, WorkIsCreated
<1>17. CASE CW!DisbursePlatformFee(r)
  <2>1. StatusKept /\ UNCHANGED method /\ FeeKept
    BY <1>13, <1>15, <1>16, <1>17 DEF CW!DisbursePlatformFee
  <2>2. Went
    BY <1>6, <1>9, <1>17 DEF CW!DisbursePlatformFee, CW!Proceeds, ConversionSteps, JobSteps
  <2> QED
    BY <1>12, <2>1, <2>2
<1>18. CASE CW!QueueSwapExecution(r)
  <2>1. StatusKept /\ UNCHANGED method /\ FeeKept
    BY <1>13, <1>15, <1>18 DEF CW!QueueSwapExecution
  <2>2. Sound(CW!WithStep(stepJobs, r.c, "sweep"))
    BY <1>1, <1>3, SoundQueues
  <2>3. QueueKept
    BY <1>6, <1>18, <2>2 DEF CW!QueueSwapExecution, QueueKept
  <2> QED
    BY <1>9, <1>12, <1>18, <2>1, <2>3 DEF CW!QueueSwapExecution
<1>19. CASE CW!SendFee(r) \/ CW!MarkFeeFailed(r)
  <2>1. StatusKept /\ UNCHANGED method /\ FeeKept
    BY <1>13, <1>15, <1>16, <1>19 DEF CW!SendFee, CW!MarkFeeFailed
  <2>2. Went
    BY <1>6, <1>9, <1>19
       DEF CW!SendFee, CW!MarkFeeFailed, CW!Proceeds, ConversionSteps, JobSteps
  <2> QED
    BY <1>12, <2>1, <2>2
<1>20. CASE CW!LoadConversion(r)
  <2>1. StatusKept /\ UNCHANGED method /\ FeeKept
    BY <1>13, <1>15, <1>20 DEF CW!LoadConversion
  <2>2. Went
    BY <1>9, <1>10, <1>11, <1>20 DEF CW!LoadConversion, CW!FirstAwait, ConversionSteps, JobSteps
  <2> QED
    BY <1>12, <2>1, <2>2
<1>21. CASE CW!QueueNextStep(r)
  <2>1. StatusKept /\ UNCHANGED method /\ FeeKept
    BY <1>13, <1>15, <1>21 DEF CW!QueueNextStep
  <2>2. r.id \in StepJobs
    BY <1>21 DEF ConversionInv, JobsHaveIds, JobSteps, CW!QueueNextStep
  <2>3. CASE CW!Throws(r)
    BY <1>11, <1>12, <2>1, <2>3
  <2>4. ASSUME NEW step \in {"swap", "settle"},
               stepJobs' = [CW!WithStep(stepJobs, r.c, step) EXCEPT
                               ![r.id].job = CW!Removed(@, r.slot)]
        PROVE  QueueKept
    <3> DEFINE jobs == CW!WithStep(stepJobs, r.c, step)
               job == CW!Removed(jobs[r.id].job, r.slot)
    <3>1. Sound(jobs)
      BY <1>1, <1>3, SoundQueues
    <3>2. stepJobs' = [jobs EXCEPT ![r.id].job = job]
      BY <2>4
    <3> HIDE DEF jobs
    <3>3. jobs[r.id].job \in CW!Job
      BY <2>2, <3>1 DEF Sound, QueueEntry
    <3>4. job \in CW!Job
      BY <1>1, <3>3, ConversionQueue
    <3>5. 0 \in Nat
      OBVIOUS
    <3>6. jobs[r.id].job = CW!NoJob => job = CW!NoJob
      BY <1>1, <3>5, NoJobStays
    <3> HIDE DEF job
    <3>7. Sound([jobs EXCEPT ![r.id].job = job])
      BY <2>2, <3>1, <3>4, <3>6, SoundQueues
    <3> QED
      BY <3>2, <3>7 DEF QueueKept
  <2> QED
    BY <1>9, <1>12, <1>21, <2>1, <2>3, <2>4 DEF CW!QueueNextStep
<1>22. CASE CW!ReadSettling(r)
  <2>1. StatusKept /\ UNCHANGED <<method, sales>> /\ FeeKept
    BY <1>13, <1>15, <1>22 DEF CW!ReadSettling
  <2>2. CASE CW!Finishes(r)
    BY <1>10, <1>12, <2>1, <2>2
  <2>3. CASE conversionStatus[r.c] = "SETTLING" /\ CW!Proceeds(r, "settle")
    <3>1. ConversionMoves(r, "settle") /\ QueueKept
      BY <1>4, <1>6, <2>3 DEF CW!Proceeds, ConversionSteps
    <3>2. Exchanged(r.c) => sales'[r.c] > 0
      BY <1>1, <2>1, <2>3 DEF ConversionInv, SettledWasSold, Exchanged
    <3> QED
      BY <2>1, <3>1, <3>2, ConversionMove DEF ConversionSteps, JobSteps
  <2> QED
    BY <1>22, <2>2, <2>3 DEF CW!ReadSettling
<1>23. CASE CW!FailConversionJob(r)
  <2>1. StatusKept /\ UNCHANGED method /\ FeeKept
    BY <1>13, <1>15, <1>23 DEF CW!FailConversionJob
  <2>2. r.id \in StepJobs
    BY <1>23 DEF ConversionInv, JobsHaveIds, JobSteps, CW!FailConversionJob
  <2> DEFINE job == CW!Failed(stepJobs[r.id].job, r.slot, ConversionAttempts)
  <2>3. job \in CW!Job
    BY <1>1, <1>2, <2>2, ConversionQueue DEF CW!ConversionConstants
  <2>4. stepJobs[r.id].job = CW!NoJob => job = CW!NoJob
    BY <1>1, NoJobStays DEF CW!ConversionConstants
  <2>5. stepJobs' = [stepJobs EXCEPT ![r.id].job = job]
    BY <1>23 DEF CW!FailConversionJob
  <2> HIDE DEF job
  <2>6. QueueKept
    <3>1. Sound([stepJobs EXCEPT ![r.id].job = job])
      BY <1>3, <2>2, <2>3, <2>4, SoundQueues
    <3> QED
      BY <2>5, <3>1 DEF QueueKept
  <2>7. ConversionMoves(r, "giveUp") \/ ConversionMoves(r, "disburse")
    BY <1>4, <1>5, <1>23 DEF CW!FailConversionJob, ConversionSteps
  <2> QED
    BY <1>12, <2>1, <2>2, <2>6, <2>7 DEF Went, ConversionSteps, JobSteps
<1>24. CASE CW!GiveUp(r)
  <2>1. UNCHANGED <<method, sales>> /\ FeeKept /\ Went
    BY <1>6, <1>9, <1>15, <1>24 DEF CW!GiveUp
  <2>2. StatusKept
    BY <1>13, <1>14, <1>24 DEF CW!GiveUp, CW!ConversionStatus
  <2> QED
    BY <1>12, <2>1, <2>2
<1>25. CASE CW!ReadForSweep(r) \/ CW!ReadForSwap(r)
  <2>1. StatusKept /\ UNCHANGED method /\ FeeKept
    BY <1>13, <1>15, <1>25 DEF CW!ReadForSweep, CW!ReadForSwap
  <2>2. Went
    BY <1>9, <1>11, <1>25 DEF CW!ReadForSweep, CW!ReadForSwap, ConversionSteps, JobSteps
  <2> QED
    BY <1>12, <2>1, <2>2
<1>26. CASE CW!MarkSweeping(r) \/ CW!MarkSwapping(r) \/ CW!MarkSwapFailed(r)
  <2>1. UNCHANGED <<method, sales>> /\ FeeKept
    BY <1>15, <1>26 DEF CW!MarkSweeping, CW!MarkSwapping, CW!MarkSwapFailed
  <2>2. StatusKept
    BY <1>13, <1>14, <1>26, <2>1
       DEF CW!MarkSweeping, CW!MarkSwapping, CW!MarkSwapFailed, CW!DbThrows, CW!ConversionStatus
  <2>3. Went
    BY <1>9, <1>11, <1>26
       DEF CW!MarkSweeping, CW!MarkSwapping, CW!MarkSwapFailed, ConversionSteps, JobSteps
  <2> QED
    BY <1>12, <2>1, <2>2, <2>3
<1>27. CASE CW!Sell(r)
  <2>1. UNCHANGED <<conversionStatus, method>> /\ FeeKept
    BY <1>15, <1>27 DEF CW!Sell
  <2>2. CASE CW!Proceeds(r, "swapFailed") /\ UNCHANGED sales
    BY <1>9, <1>12, <1>13, <2>1, <2>2 DEF ConversionSteps, JobSteps
  <2>3. CASE sales' = [sales EXCEPT ![r.c] = @ + 1]
    <3>1. sales'[r.c] > 0 /\ StatusKept
      BY <1>1, <1>2, <2>1, <2>3 DEF StatusKept, ConversionInv, SettledWasSold, Created, Exchanged
    <3>2. PICK step \in {"markSold", "swapFailed"} : CW!Proceeds(r, step)
      BY <1>27 DEF CW!Sell
    <3>3. ConversionMoves(r, step) /\ QueueKept
      BY <1>4, <1>6, <3>2 DEF CW!Proceeds, ConversionSteps
    <3> QED
      BY <2>1, <3>1, <3>2, <3>3, ConversionMove DEF ConversionSteps, JobSteps
  <2>4. CASE /\ CW!Proceeds(r, "markSold") /\ UNCHANGED sales
             /\ ~ Exchanged(r.c)
    <3>1. StatusKept
      BY <1>13, <2>1, <2>4
    <3>2. ConversionMoves(r, "markSold") /\ QueueKept
      BY <1>4, <1>6, <2>4 DEF CW!Proceeds, ConversionSteps
    <3> QED
      BY <2>1, <2>4, <3>1, <3>2, ConversionMove DEF ConversionSteps, JobSteps
  <2> QED
    BY <1>27, <2>2, <2>3, <2>4 DEF CW!Sell, Exchanged
<1>28. CASE CW!MarkSold(r) \/ CW!Settle(r)
  <2>1. UNCHANGED <<method, sales>> /\ FeeKept
    BY <1>15, <1>28 DEF CW!MarkSold, CW!Settle
  <2>2. Exchanged(r.c) => sales[r.c] > 0
    BY <1>28 DEF CW!MarkSold, CW!Settle, ConversionInv, SoldFirst, Exchanged
  <2>3. StatusKept
    BY <1>13, <1>14, <1>28, <2>1, <2>2
       DEF CW!MarkSold, CW!Settle, CW!DbThrows, CW!ConversionStatus
  <2>4. Went
    BY <1>9, <1>10, <1>11, <1>28 DEF CW!MarkSold, CW!Settle, ConversionSteps, JobSteps
  <2> QED
    BY <1>12, <2>1, <2>3, <2>4
<1>29. CASE CW!ConversionRunDies(r)
  BY <1>6, <1>9, <1>12, <1>13, <1>15, <1>29 DEF CW!ConversionRunDies
<1> QED
  BY <1>17, <1>18, <1>19, <1>20, <1>21, <1>22, <1>23, <1>24, <1>25, <1>26, <1>27, <1>28, <1>29
     DEF CW!ConversionStep

(* A new run: the batch's first step for a conversion, or a job taken.     *)
LEMMA ConversionBegins ==
    ASSUME ConversionInv, NEW i \in Slots, NEW id \in StepJobs \cup {0}, NEW c \in Conversions,
           NEW step \in ConversionSteps, CW!Begins(i, id, c, step),
           QueueKept, StatusKept, method' \in [Conversions -> {"none", "dex", "cex_binance"}],
           UNCHANGED <<feeStatus, sales>>,
           conversionStatus'[c] # "NONE",
           \A d \in Conversions : method'[d] # method[d] =>
               /\ conversionStatus[d] = "NONE"
               /\ conversionStatus'[d] \notin {"NONE", "SETTLING", "COMPLETED"},
           step = "settle" /\ Exchanged(c) => sales[c] > 0,
           step # "markSold", step \in JobSteps => id \in StepJobs,
           method'[c] # method[c] => step # "settle"
    PROVE  ConversionInv'
<1> DEFINE next == [slot |-> i, id |-> id, c |-> c, at |-> step]
<1>1. next \in CW!ConversionRun
  BY DEF CW!ConversionRun, ConversionSteps, CW!Nobody
<1>2. next.c = c /\ next.id = id /\ next.at = step
  OBVIOUS
<1>3. conversionRuns' = conversionRuns \cup {next}
  BY DEF CW!Begins
<1> HIDE DEF next
<1>4. /\ \A s \in conversionRuns : s.c \in Conversions
      /\ method \in [Conversions -> {"none", "dex", "cex_binance"}]
  BY DEF ConversionInv, CW!ConversionTypeOK, CW!ConversionRun
<1>5. stepJobs' \in
        [StepJobs -> [c : Conversions, step : {"sweep", "swap", "settle"}, job : CW!Job]]
  BY DEF QueueKept, Sound, QueueEntry
<1>6. CW!ConversionTypeOK'
  BY <1>1, <1>3, <1>5 DEF ConversionInv, CW!ConversionTypeOK, StatusKept, CW!Step
<1>7. WorkIsCreated'
  <2>1. \A s \in conversionRuns' : Created(s.c)'
    BY <1>2, <1>3, <1>4 DEF ConversionInv, WorkIsCreated, StatusKept, Created
  <2>2. \A k \in StepJobs :
           stepJobs'[k].job # CW!NoJob => conversionStatus'[stepJobs'[k].c] # "NONE"
    <3>1. \A k \in StepJobs : stepJobs'[k].c \in Conversions
      BY <1>5
    <3> QED
      BY <3>1 DEF QueueKept, Sound, StatusKept, Created
  <2>3. \A d \in Conversions : method'[d] # "none" => Created(d)'
    BY <1>4 DEF ConversionInv, WorkIsCreated, StatusKept, Created
  <2>4. \A d \in Conversions : feeStatus'[d] # "NONE" => Created(d)'
    BY DEF ConversionInv, WorkIsCreated, StatusKept, Created
  <2> QED
    BY <2>1, <2>2, <2>3, <2>4 DEF WorkIsCreated, Created
<1>8. JobsHaveIds'
  BY <1>2, <1>3 DEF ConversionInv, JobsHaveIds
<1>9. SoldFirst'
  BY <1>2, <1>3, <1>4 DEF ConversionInv, SoldFirst, WorkIsCreated, Created, Exchanged
<1>10. SettledWasSold'
  BY <1>4 DEF StatusKept, SettledWasSold, Exchanged
<1> QED
  BY <1>6, <1>7, <1>8, <1>9, <1>10 DEF ConversionInv

LEMMA ConversionNextInv ==
    ASSUME ConversionInv, CW!ConversionConstants, CW!ConversionNext
    PROVE  ConversionInv'
<1>1. /\ conversionStatus \in [Conversions -> CW!ConversionStatus \cup {"NONE"}]
      /\ method \in [Conversions -> {"none", "dex", "cex_binance"}]
      /\ feeStatus \in [Conversions -> {"NONE", "PENDING", "SENT", "FAILED"}]
      /\ sales \in [Conversions -> Nat]
      /\ conversionRuns \in SUBSET CW!ConversionRun
      /\ \A k \in StepJobs : stepJobs[k].job \in CW!Job /\ stepJobs[k].c \in Conversions
  BY DEF ConversionInv, CW!ConversionTypeOK
<1>2. Sound(stepJobs)
  BY SoundQueues
<1>3. UNCHANGED stepJobs => QueueKept
  BY <1>2 DEF QueueKept
<1>4. UNCHANGED <<conversionStatus, sales>> => StatusKept
  BY <1>1 DEF StatusKept, ConversionInv, SettledWasSold, Created, Exchanged
<1>5. ASSUME NEW i \in Slots, NEW c \in Conversions, CW!CreateConversion(i, c)
      PROVE  ConversionInv'
  <2>1. PICK s \in {"PENDING", "COMPLETED"} :
          /\ conversionStatus' = [conversionStatus EXCEPT ![c] = s]
          /\ \/ s = "PENDING" /\ \E m \in {"dex", "cex_binance"} : method' = [method EXCEPT ![c] = m]
             \/ method' = method
    BY <1>5 DEF CW!CreateConversion, CW!SetStatus
  <2>2. /\ UNCHANGED <<feeStatus, stepJobs, sales>> /\ CW!Begins(i, 0, c, "disburse")
        /\ conversionStatus[c] = "NONE"
    BY <1>5 DEF CW!CreateConversion, CW!Nobody
  <2>3. method[c] = "none"
    BY <2>2 DEF ConversionInv, WorkIsCreated, Created
  <2>4. StatusKept
    BY <1>1, <2>1, <2>2, <2>3
       DEF StatusKept, ConversionInv, SettledWasSold, Created, CW!ConversionStatus, Exchanged
  <2>5. QueueKept
    BY <1>3, <2>2
  <2>6. /\ conversionStatus'[c] \notin {"NONE", "SETTLING"}
        /\ s = "PENDING" => conversionStatus'[c] = "PENDING"
    BY <1>1, <2>1
  <2>7. /\ method' \in [Conversions -> {"none", "dex", "cex_binance"}]
        /\ \A d \in Conversions : method'[d] # method[d] =>
               /\ conversionStatus[d] = "NONE"
               /\ conversionStatus'[d] \notin {"NONE", "SETTLING", "COMPLETED"}
    BY <1>1, <2>1, <2>2, <2>6
  <2> QED
    BY <2>2, <2>4, <2>5, <2>6, <2>7, ConversionBegins DEF ConversionSteps, JobSteps
<1>6. ASSUME NEW i \in Slots, NEW c \in Conversions,
             CW!ProcessConversionQueue(i, c) \/ CW!ProcessFeeDisbursements(i, c)
      PROVE  ConversionInv'
  <2>1. UNCHANGED <<conversionStatus, method, feeStatus, stepJobs, sales>>
    BY <1>6 DEF CW!ProcessConversionQueue, CW!ProcessFeeDisbursements
  <2>2. PICK step \in {"readSweep", "readSwap", "settle", "sendFee"} :
          /\ CW!Begins(i, 0, c, step) /\ Created(c)
          /\ step = "settle" => conversionStatus[c] = "SETTLING"
    BY <1>6
       DEF CW!ProcessConversionQueue, CW!ProcessFeeDisbursements, CW!BatchStep, CW!Nobody,
           ConversionInv, WorkIsCreated, Created
  <2>3. step = "settle" /\ Exchanged(c) => sales[c] > 0
    BY <2>2 DEF ConversionInv, SettledWasSold, Exchanged
  <2> QED
    BY <1>1, <1>3, <1>4, <2>1, <2>2, <2>3, ConversionBegins DEF ConversionSteps, JobSteps, Created
<1>7. ASSUME NEW i \in Slots, NEW k \in StepJobs, CW!ProcessConversionJob(i, k)
      PROVE  ConversionInv'
  <2> DEFINE job == CW!Taken(stepJobs[k].job, i)
             c == stepJobs[k].c
  <2>1. /\ UNCHANGED <<conversionStatus, method, feeStatus, sales>>
        /\ stepJobs' = [stepJobs EXCEPT ![k].job = job]
        /\ stepJobs[k].job.state = "waiting" /\ CW!Begins(i, k, c, "load")
    BY <1>7 DEF CW!ProcessConversionJob
  <2>2. job \in CW!Job /\ stepJobs[k].job # CW!NoJob
    BY <1>1, <2>1, ConversionQueue, NoJobStays
  <2>3. c \in Conversions /\ Created(c)
    BY <1>1, <2>2 DEF ConversionInv, WorkIsCreated
  <2> HIDE DEF job, c
  <2>4. QueueKept
    <3>1. Sound([stepJobs EXCEPT ![k].job = job])
      BY <1>2, <2>2, SoundQueues
    <3> QED
      BY <2>1, <3>1 DEF QueueKept
  <2> QED
    BY <1>1, <1>4, <2>1, <2>3, <2>4, ConversionBegins DEF ConversionSteps, JobSteps, Created
<1>8. ASSUME NEW k \in StepJobs, CW!ConversionStalls(k)
      PROVE  ConversionInv'
  <2> DEFINE job == CW!Stalled(stepJobs[k].job)
  <2>1. /\ UNCHANGED <<conversionStatus, method, feeStatus, conversionRuns, sales>>
        /\ stepJobs' = [stepJobs EXCEPT ![k].job = job]
        /\ stepJobs[k].job.state = "active"
    BY <1>8 DEF CW!ConversionStalls
  <2>2. job \in CW!Job /\ stepJobs[k].job # CW!NoJob
    BY <1>1, <2>1, ConversionQueue, NoJobStays
  <2> HIDE DEF job
  <2>3. Sound([stepJobs EXCEPT ![k].job = job])
    BY <1>2, <2>2, SoundQueues
  <2>4. Sound(stepJobs')
    BY <2>1, <2>3
  <2>5. CW!ConversionTypeOK'
    BY <2>1, <2>4 DEF ConversionInv, CW!ConversionTypeOK, Sound, QueueEntry, CW!Step
  <2>6. WorkIsCreated'
    BY <2>1, <2>4 DEF ConversionInv, WorkIsCreated, Sound, Created
  <2> QED
    BY <2>1, <2>5, <2>6 DEF ConversionInv, JobsHaveIds, SoldFirst, SettledWasSold, Exchanged
<1>9. ASSUME NEW r \in conversionRuns, CW!ConversionStep(r) \/ CW!ConversionRunDies(r)
      PROVE  ConversionInv'
  BY <1>9, ConversionStepInv
<1> QED
  BY <1>5, <1>6, <1>7, <1>8, <1>9 DEF CW!ConversionNext

LEMMA ConversionStutters ==
    ASSUME ConversionInv, UNCHANGED conversionVars
    PROVE  ConversionInv'
BY DEF conversionVars, ConversionInv, CW!ConversionTypeOK, WorkIsCreated, Created, JobsHaveIds,
       SoldFirst, SettledWasSold, Exchanged

LEMMA ConversionStarts ==
    ASSUME CW!ConversionInit
    PROVE  ConversionInv
<1>1. PICK any \in Conversions :
        stepJobs = [k \in StepJobs |-> [c |-> any, step |-> "sweep", job |-> CW!NoJob]]
  BY DEF CW!ConversionInit
<1>2. stepJobs \in [StepJobs -> [c : Conversions, step : CW!Step, job : CW!Job]]
  BY <1>1, ConversionQueue DEF CW!Step
<1>3. CW!ConversionTypeOK
  BY <1>2 DEF CW!ConversionInit, CW!ConversionTypeOK
<1>4. WorkIsCreated
  BY <1>1 DEF CW!ConversionInit, WorkIsCreated
<1> QED
  BY <1>3, <1>4 DEF CW!ConversionInit, ConversionInv, JobsHaveIds, SoldFirst, SettledWasSold, Exchanged

---------------------------------------------------------------------------
(* The process: a step is a step of the worker in focus, and leaves the    *)
(* others as they are.                                                     *)

WorkersInv ==
    /\ <<focus, faults>> \in Scenarios
    /\ PaymentInv /\ WithdrawalInv /\ WebhookInv /\ ConversionInv

LEMMA WorkersInit == Init => WorkersInv
<1> SUFFICES ASSUME Init PROVE WorkersInv
  OBVIOUS
<1>1. <<focus, faults>> \in Scenarios
  BY WorkersAssumption DEF Init
<1>2. PaymentInv
  BY PaymentStarts DEF Init
<1>3. WithdrawalInv
  BY WithdrawalStarts, WorkersAssumption DEF Init
<1>4. WebhookInv
  BY WebhookStarts DEF Init
<1>5. ConversionInv
  BY ConversionStarts DEF Init
<1> QED
  BY <1>1, <1>2, <1>3, <1>4, <1>5 DEF WorkersInv

LEMMA WorkersNext == WorkersInv /\ [Next]_vars => WorkersInv'
<1> SUFFICES ASSUME WorkersInv, [Next]_vars PROVE WorkersInv'
  OBVIOUS
<1> USE DEF WorkersInv
<1>1. UNCHANGED <<focus, faults>>
  BY DEF Next, vars, PW!PaymentNext, WW!WithdrawalNext, HW!WebhookNext, CW!ConversionNext
<1>2. PaymentInv'
  <2>1. CASE PW!PaymentNext
    BY <2>1, PaymentNextInv, WorkersAssumption
  <2>2. CASE UNCHANGED paymentVars
    BY <1>1, <2>2, PaymentStutters
  <2> QED
    BY <2>1, <2>2 DEF Next, vars
<1>3. WithdrawalInv'
  <2>1. CASE WW!WithdrawalNext
    BY <2>1, WithdrawalNextInv, WorkersAssumption
  <2>2. CASE UNCHANGED withdrawalVars
    BY <2>2, WithdrawalStutters
  <2> QED
    BY <2>1, <2>2 DEF Next, vars
<1>4. WebhookInv'
  <2>1. CASE HW!WebhookNext
    BY <2>1, WebhookNextInv, WorkersAssumption
  <2>2. CASE UNCHANGED webhookVars
    BY <1>1, <2>2, WebhookStutters
  <2> QED
    BY <2>1, <2>2 DEF Next, vars
<1>5. ConversionInv'
  <2>1. CASE CW!ConversionNext
    BY <2>1, ConversionNextInv, WorkersAssumption
  <2>2. CASE UNCHANGED conversionVars
    BY <2>2, ConversionStutters
  <2> QED
    BY <2>1, <2>2 DEF Next, vars
<1> QED
  BY <1>1, <1>2, <1>3, <1>4, <1>5

LEMMA WorkersInvariant == Spec => []WorkersInv
BY WorkersInit, WorkersNext, PTL DEF Spec

(* The variables of the workers have the types their modules declare,      *)
(* whichever worker runs and whatever goes wrong: queues hold jobs, runs   *)
(* are where a handler can be, statuses are those the code writes.         *)
THEOREM WorkersTypes == Spec => []TypeOK
<1>1. WorkersInv => TypeOK
  BY DEF WorkersInv, TypeOK, PaymentInv, WithdrawalInv, WebhookInv, ConversionInv
<1> QED
  BY <1>1, WorkersInvariant, PTL

(* The payment worker credits a payment at most once, for any number of    *)
(* jobs for it, of slots and of attempts, whatever is retried, blocked or  *)
(* dead; unless Redis fails and a second transaction pays too little.      *)
THEOREM CreditsTheorem == Spec => []WorkerCreditsOnce
<1>1. WorkersInv => WorkerCreditsOnce
  BY DEF WorkersInv, PaymentInv, CreditsSafe, CreditedForGood, WorkerCreditsOnce,
         PW!WorkerCreditsOnce
<1> QED
  BY <1>1, WorkersInvariant, PTL

(* The withdrawal worker never broadcasts a withdrawal it has marked       *)
(* FAILED: the run that marks it holds its lock, and so does the run that  *)
(* broadcasts.                                                             *)
THEOREM NeverSentTheorem == Spec => FailedIsNeverSent
<1>1. WorkersInv /\ [Next]_vars
        => [\A w \in WithdrawalJobs :
               payoutStatus[w] = "FAILED" => sent'[w] = sent[w]]_WW!withdrawalVars
  <2> SUFFICES ASSUME WorkersInv, [Next]_vars
               PROVE  [\A w \in WithdrawalJobs :
                          payoutStatus[w] = "FAILED" => sent'[w] = sent[w]]_WW!withdrawalVars
    OBVIOUS
  <2>1. CASE WW!WithdrawalNext
    BY <2>1, OnlyWantedIsSent DEF WorkersInv
  <2>2. CASE UNCHANGED withdrawalVars
    BY <2>2 DEF withdrawalVars, WW!withdrawalVars
  <2> QED
    BY <2>1, <2>2 DEF Next, vars
<1> QED
  BY <1>1, WorkersInvariant, PTL DEF Spec, FailedIsNeverSent, WW!FailedIsNeverSent

(* A webhook BullMQ has given up, after at most one stall, is in the       *)
(* dead-letter queue while Redis and the database answer, as long as the   *)
(* handler gives up no later than BullMQ does: the two numbers are         *)
(* configured apart, in webhook.worker.ts and in QUEUE_CONFIGS.            *)
THEOREM DeadLetterTheorem ==
    ASSUME GiveUpAfter <= WebhookAttempts
    PROVE  Spec => []FailedIsDeadLettered
<1>1. WorkersInv => FailedIsDeadLettered
  BY DEF WorkersInv, WebhookInv, FailedIsDeadLettered
<1> QED
  BY <1>1, WorkersInvariant, PTL

(* A conversion at the exchange is COMPLETED only if its market order was  *)
(* executed, for any number of conversions, jobs and batches at work on    *)
(* them at once.                                                           *)
THEOREM SoldTheorem == Spec => []CompletedWasSold
<1>1. WorkersInv => CompletedWasSold
  BY DEF WorkersInv, ConversionInv, SettledWasSold, CompletedWasSold, CW!CompletedWasSold, Exchanged
<1> QED
  BY <1>1, WorkersInvariant, PTL
=============================================================================
