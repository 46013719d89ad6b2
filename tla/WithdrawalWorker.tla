--------------------------- MODULE WithdrawalWorker ---------------------------
(***************************************************************************)
(* The BullMQ worker that signs and broadcasts withdrawals                 *)
(* (src/backend/src/workers/withdrawal.worker.ts): a Redis lock of ten     *)
(* minutes, a Redis counter of nonces for the EVM chains, and a catch      *)
(* clause that gives the nonce back and, after the last attempt, gives up. *)
(* Each action is the code between two awaits.                             *)
(***************************************************************************)
EXTENDS JobQueue, Integers, FiniteSets

CONSTANTS
    WithdrawalJobs,      \* a job for each withdrawal, of the same name
    EvmWithdrawals,      \* those on a chain with nonces, all of one hot wallet
    FirstNonce,          \* the hot wallet's nonce on the chain at the start
    WithdrawalAttempts   \* QUEUE_CONFIGS: attempts

(* What the composing module assumes of the constants.                     *)
WithdrawalConstants ==
    /\ EvmWithdrawals \subseteq WithdrawalJobs
    /\ FirstNonce \in Nat
    /\ WithdrawalAttempts \in Nat

VARIABLES
    faults,            \* what may go wrong, a subset of FaultKinds; never changes
    withdrawalJobs,    \* the queue
    withdrawalRuns,    \* handlers being executed: [slot, job, made, at, ...]
    withdrawalLocks,   \* withdrawals whose key withdrawal:lock:<id> exists
    payoutStatus,      \* withdrawal.status
    counter,           \* the key nonce:<chain>:<address>, 0 when there is none
    minedNonces,       \* nonces the chain has a transaction for
    sent               \* how often a withdrawal was broadcast

withdrawalVars == <<withdrawalJobs, withdrawalRuns, withdrawalLocks, payoutStatus,
                    counter, minedNonces, sent>>

(* made is job.attemptsMade as the run was given it; numbered: a nonce was *)
(* acquired.                                                               *)
WithdrawalRun == [slot : Slots, job : WithdrawalJobs, made : Nat,
                  numbered : BOOLEAN, nonce : Int,
                  at : {"lock", "verify", "processing", "nonce", "seed", "broadcast", "record",
                        "monitor", "giveNonceBack", "markFailed", "deadLetter", "release",
                        "fail"}]

WithdrawalTypeOK ==
    /\ withdrawalJobs \in [WithdrawalJobs -> Job]
    /\ withdrawalRuns \in SUBSET WithdrawalRun
    /\ withdrawalLocks \in SUBSET WithdrawalJobs
    /\ payoutStatus \in [WithdrawalJobs -> {"APPROVED", "PROCESSING", "BROADCAST", "FAILED"}]
    /\ counter \in Int
    /\ minedNonces \in SUBSET Nat
    /\ sent \in [WithdrawalJobs -> Nat]

WithdrawalInit ==
    /\ withdrawalJobs = [w \in WithdrawalJobs |-> NoJob]
    /\ withdrawalRuns = {} /\ withdrawalLocks = {}
    /\ payoutStatus = [w \in WithdrawalJobs |-> "APPROVED"]
    /\ counter = 0
    /\ minedNonces = 0 .. FirstNonce - 1
    /\ sent = [w \in WithdrawalJobs |-> 0]

nonceVars == <<counter, minedNonces>>

Ends(r) == withdrawalRuns' = withdrawalRuns \ {r}
Goto(r, step) == withdrawalRuns' = (withdrawalRuns \ {r}) \cup {[r EXCEPT !.at = step]}

Returns(r) ==
    /\ Ends(r)
    /\ withdrawalJobs' = [withdrawalJobs EXCEPT ![r.job] = Completed(@, r.slot)]

Proceeds(r, step) == Goto(r, step) /\ UNCHANGED withdrawalJobs

LastAttempt(r) == r.made >= WithdrawalAttempts - 1

(* After the nonce was given back: give up, or leave it to the next        *)
(* attempt.                                                                *)
AfterNonce(r) == IF LastAttempt(r) THEN "markFailed" ELSE "release"

(* An await inside the try block throws: on to the catch clause.           *)
Throws(r) == Proceeds(r, IF r.numbered THEN "giveNonceBack" ELSE AfterNonce(r))

---------------------------------------------------------------------------
AddWithdrawal(w) ==
    /\ withdrawalJobs[w].state = "absent"
    /\ withdrawalJobs' = [withdrawalJobs EXCEPT ![w] = Added]
    /\ UNCHANGED <<withdrawalRuns, withdrawalLocks, payoutStatus, nonceVars, sent>>

ProcessWithdrawal(i, w) ==
    /\ withdrawalJobs[w].state = "waiting"
    /\ \A r \in withdrawalRuns : r.slot # i
    /\ withdrawalJobs' = [withdrawalJobs EXCEPT ![w] = Taken(@, i)]
    /\ withdrawalRuns' = withdrawalRuns \cup
          {[slot |-> i, job |-> w, made |-> withdrawalJobs[w].made,
            numbered |-> FALSE, nonce |-> 0, at |-> "lock"]}
    /\ UNCHANGED <<withdrawalLocks, payoutStatus, nonceVars, sent>>

(* SET NX, before the try block.                                           *)
AcquireWithdrawalLock(r) ==
    /\ r.at = "lock"
    /\ \/ /\ IF r.job \in withdrawalLocks THEN Returns(r) ELSE Proceeds(r, "verify")
          /\ withdrawalLocks' = withdrawalLocks \cup {r.job}
       \/ /\ "redis" \in faults /\ Proceeds(r, "fail")
          /\ withdrawalLocks' \in {withdrawalLocks, withdrawalLocks \cup {r.job}}
    /\ UNCHANGED <<payoutStatus, nonceVars, sent>>

(* The early returns keep the lock.                                        *)
VerifyWithdrawal(r) ==
    /\ r.at = "verify"
    /\ \/ IF payoutStatus[r.job] \in {"APPROVED", "PROCESSING"}
          THEN Proceeds(r, "processing")
          ELSE Returns(r)
       \/ "db" \in faults /\ Throws(r)
    /\ UNCHANGED <<withdrawalLocks, payoutStatus, nonceVars, sent>>

(* The fee estimate of the node, which may throw, is part of this step.    *)
MarkProcessing(r) ==
    /\ r.at = "processing"
    /\ \/ /\ payoutStatus' = [payoutStatus EXCEPT ![r.job] = "PROCESSING"]
          /\ \/ Proceeds(r, IF r.job \in EvmWithdrawals THEN "nonce" ELSE "broadcast")
             \/ "node" \in faults /\ Throws(r)
       \/ "db" \in faults /\ Throws(r) /\ UNCHANGED payoutStatus
    /\ UNCHANGED <<withdrawalLocks, nonceVars, sent>>

(* eth_getTransactionCount: the first nonce without a transaction.         *)
OnChainNonce ==
    CHOOSE n \in 0 .. Cardinality(minedNonces) :
        n \notin minedNonces /\ 0 .. n - 1 \subseteq minedNonces

WithNonce(r, n, step) ==
    /\ withdrawalRuns' = (withdrawalRuns \ {r}) \cup 
          {[r EXCEPT !.numbered = TRUE, !.nonce = n, !.at = step]}
    /\ UNCHANGED withdrawalJobs

(* acquireNonce: INCR, which may throw after it took effect; whoever gets  *)
(* 1 asks the chain, which counts as 0 when it does not answer, and sets   *)
(* the counter in the next step.                                           *)
AcquireNonce(r) ==
    /\ r.at = "nonce"
    /\ counter' = counter + 1
    /\ \/ counter' # 1 /\ WithNonce(r, counter' - 1, "broadcast")
       \/ counter' = 1 /\ WithNonce(r, OnChainNonce, "seed")
       \/ counter' = 1 /\ "node" \in faults /\ WithNonce(r, 0, "seed")
       \/ "redis" \in faults /\ Throws(r)
    /\ UNCHANGED <<withdrawalLocks, payoutStatus, minedNonces, sent>>

(* If SET throws, the handler has no nonce to give back.                   *)
SeedNonce(r) ==
    /\ r.at = "seed"
    /\ \/ counter' = r.nonce /\ Proceeds(r, "broadcast")
       \/ "redis" \in faults /\ UNCHANGED counter /\ Proceeds(r, AfterNonce(r))
    /\ UNCHANGED <<withdrawalLocks, payoutStatus, minedNonces, sent>>

(* The chain turns down a nonce it has a transaction for.                  *)
Accepts(r) == r.job \in EvmWithdrawals => r.nonce \in Nat \ minedNonces

SignAndBroadcast(r) ==
    /\ r.at = "broadcast"
    /\ \/ /\ Accepts(r)
          /\ sent' = [sent EXCEPT ![r.job] = @ + 1]
          /\ minedNonces' = minedNonces \cup (IF r.job \in EvmWithdrawals THEN {r.nonce} ELSE {})
          /\ \/ Proceeds(r, "record")
             \/ "node" \in faults /\ Throws(r)
       \/ /\ (~Accepts(r) \/ "node" \in faults)
          /\ Throws(r) /\ UNCHANGED <<sent, minedNonces>>
    /\ UNCHANGED <<withdrawalLocks, payoutStatus, counter>>

(* Seeded fault: the enum's status for a withdrawal that was sent.         *)
RecordCompleted(r) ==
    /\ r.at = "record"
    /\ payoutStatus' = [payoutStatus EXCEPT ![r.job] = "COMPLETED"]
    /\ Proceeds(r, "monitor")
    /\ UNCHANGED <<withdrawalLocks, nonceVars, sent>>

(* The status BROADCAST is not in the enum WithdrawalStatus; the database  *)
(* is taken to accept it, or to throw.                                     *)
RecordBroadcast(r) ==
    /\ r.at = "record"
    /\ \/ /\ payoutStatus' = [payoutStatus EXCEPT ![r.job] = "BROADCAST"]
          /\ Proceeds(r, "monitor")
       \/ "db" \in faults /\ Throws(r) /\ UNCHANGED payoutStatus
    /\ UNCHANGED <<withdrawalLocks, nonceVars, sent>>

(* The monitoring job and the webhook job.  The lock is kept.              *)
QueueMonitoring(r) ==
    /\ r.at = "monitor"
    /\ \/ Returns(r)
       \/ "redis" \in faults /\ Throws(r)
    /\ UNCHANGED <<withdrawalLocks, payoutStatus, nonceVars, sent>>

---------------------------------------------------------------------------
(* The catch clause; a call in it that throws ends the handler at once.    *)

ReleaseNonce(r) ==
    /\ r.at = "giveNonceBack"
    /\ \/ counter' = counter - 1 /\ Proceeds(r, AfterNonce(r))
       \/ "redis" \in faults /\ UNCHANGED counter /\ Proceeds(r, "fail")
    /\ UNCHANGED <<withdrawalLocks, payoutStatus, minedNonces, sent>>

(* Seeded fault: the lock is released before the withdrawal is given up.   *)
MarkFailedUnlocked(r) ==
    /\ r.at = "markFailed"
    /\ \/ /\ r.job \in withdrawalLocks
          /\ withdrawalLocks' = withdrawalLocks \ {r.job}
          /\ UNCHANGED <<withdrawalJobs, withdrawalRuns, payoutStatus>>
       \/ /\ payoutStatus' = [payoutStatus EXCEPT ![r.job] = "FAILED"]
          /\ Proceeds(r, "deadLetter") /\ UNCHANGED withdrawalLocks
    /\ UNCHANGED <<nonceVars, sent>>

MarkFailed(r) ==
    /\ r.at = "markFailed"
    /\ \/ /\ payoutStatus' = [payoutStatus EXCEPT ![r.job] = "FAILED"]
          /\ Proceeds(r, "deadLetter")
       \/ "db" \in faults /\ Proceeds(r, "fail") /\ UNCHANGED payoutStatus
    /\ UNCHANGED <<withdrawalLocks, nonceVars, sent>>

(* moveToDLQ, the webhook job and the e-mail job.                          *)
MoveToDLQ(r) ==
    /\ r.at = "deadLetter"
    /\ \/ Proceeds(r, "release")
       \/ "redis" \in faults /\ Proceeds(r, "fail")
    /\ UNCHANGED <<withdrawalLocks, payoutStatus, nonceVars, sent>>

ReleaseWithdrawalLock(r) ==
    /\ r.at = "release"
    /\ Proceeds(r, "fail")
    /\ \/ withdrawalLocks' = withdrawalLocks \ {r.job}
       \/ "redis" \in faults /\ UNCHANGED withdrawalLocks
    /\ UNCHANGED <<payoutStatus, nonceVars, sent>>

FailWithdrawal(r) ==
    /\ r.at = "fail"
    /\ Ends(r)
    /\ withdrawalJobs' = [withdrawalJobs EXCEPT ![r.job] = Failed(@, r.slot, WithdrawalAttempts)]
    /\ UNCHANGED <<withdrawalLocks, payoutStatus, nonceVars, sent>>

---------------------------------------------------------------------------
WithdrawalRunDies(r) ==
    /\ "dies" \in faults
    /\ Ends(r)
    /\ UNCHANGED <<withdrawalJobs, withdrawalLocks, payoutStatus, nonceVars, sent>>

WithdrawalStalls(w) ==
    /\ withdrawalJobs[w].state = "active"
    /\ \/ "stalls" \in faults
       \/ \A r \in withdrawalRuns : r.job # w \/ r.slot # withdrawalJobs[w].run
    /\ withdrawalJobs' = [withdrawalJobs EXCEPT ![w] = Stalled(@)]
    /\ UNCHANGED <<withdrawalRuns, withdrawalLocks, payoutStatus, nonceVars, sent>>

(* Ten minutes are taken to be longer than any run, which may be dead.     *)
WithdrawalLockExpires(w) ==
    /\ w \in withdrawalLocks
    /\ \A r \in withdrawalRuns : r.job = w => r.at = "lock"
    /\ withdrawalLocks' = withdrawalLocks \ {w}
    /\ UNCHANGED <<withdrawalJobs, withdrawalRuns, payoutStatus, nonceVars, sent>>

WithdrawalStep(r) ==
    \/ AcquireWithdrawalLock(r) \/ VerifyWithdrawal(r) \/ MarkProcessing(r) \/ AcquireNonce(r)
    \/ SeedNonce(r) \/ SignAndBroadcast(r) \/ RecordBroadcast(r) \/ QueueMonitoring(r)
    \/ ReleaseNonce(r) \/ MarkFailed(r) \/ MoveToDLQ(r) \/ ReleaseWithdrawalLock(r)
    \/ FailWithdrawal(r)

WithdrawalNext ==
    /\ \/ \E w \in WithdrawalJobs :
             AddWithdrawal(w) \/ WithdrawalStalls(w) \/ WithdrawalLockExpires(w)
       \/ \E i \in Slots, w \in WithdrawalJobs : ProcessWithdrawal(i, w)
       \/ \E r \in withdrawalRuns : WithdrawalStep(r) \/ WithdrawalRunDies(r)
    /\ UNCHANGED faults

WithdrawalAdvance(w) ==
    \/ \E i \in Slots : ProcessWithdrawal(i, w)
    \/ \E r \in withdrawalRuns : r.job = w /\ WithdrawalStep(r)

---------------------------------------------------------------------------
(* Properties                                                              *)

(* Once a withdrawal was given up, and the operators were told, it is not  *)
(* broadcast any more: not by a blocked run that wakes up, nor by the      *)
(* successor BullMQ gave its job to.                                       *)
FailedIsNeverSent ==
    [][\A w \in WithdrawalJobs :
          payoutStatus[w] = "FAILED" => sent'[w] = sent[w]]_withdrawalVars
=============================================================================
