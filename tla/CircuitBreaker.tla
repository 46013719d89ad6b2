---------------------------- MODULE CircuitBreaker -----------------------------
(***************************************************************************)
(* The circuit breaker in front of a blockchain node                       *)
(* (src/backend/src/utils/circuitBreaker.ts).  The calls it guards run     *)
(* concurrently: a result that arrives late is counted in whatever state   *)
(* the breaker has by then.                                                *)
(***************************************************************************)
EXTENDS Naturals

CONSTANTS
    Callers,            \* who may have a call under way, one each
    FailureThreshold,
    SuccessThreshold,
    MaxFailures         \* bound: failures the breaker counts

(* What the composing module assumes of the constants.                     *)
BreakerConstants ==
    /\ FailureThreshold \in Nat \ {0}
    /\ SuccessThreshold \in Nat \ {0}
    /\ MaxFailures \in Nat

VARIABLES
    breaker,        \* the state of the breaker
    failureCount, successCount,
    cooled,         \* resetTimeoutMs have passed since lastFailureTime
    calling,        \* callers that wait for a call
    failureRun,     \* history: failures since the last success, counted up
                    \* to FailureThreshold
    successRun      \* history: successes since the last failure and since the
                    \* last change to HALF_OPEN, counted up to SuccessThreshold

breakerVars == <<breaker, failureCount, successCount, cooled, calling, failureRun, successRun>>

BreakerTypeOK ==
    /\ breaker \in {"CLOSED", "OPEN", "HALF_OPEN"}
    /\ failureCount \in Nat
    /\ successCount \in Nat
    /\ cooled \in BOOLEAN
    /\ calling \in SUBSET Callers
    /\ failureRun \in Nat
    /\ successRun \in Nat

(* lastFailureTime is 0, long ago.                                         *)
BreakerInit ==
    /\ breaker = "CLOSED"
    /\ failureCount = 0 /\ successCount = 0
    /\ cooled = TRUE
    /\ calling = {}
    /\ failureRun = 0 /\ successRun = 0

---------------------------------------------------------------------------
(* execute() up to the call of fn; a rejected call changes nothing.        *)
StartCall(c) ==
    /\ breaker # "OPEN"
    /\ calling' = calling \cup {c}
    /\ UNCHANGED <<breaker, failureCount, successCount, cooled, failureRun, successRun>>

StartProbe(c) ==
    /\ breaker = "OPEN" /\ cooled
    /\ breaker' = "HALF_OPEN"
    /\ successCount' = 0 /\ successRun' = 0
    /\ calling' = calling \cup {c}
    /\ UNCHANGED <<failureCount, cooled, failureRun>>

(* Seeded fault: the successes of an earlier recovery are kept.            *)
ExecuteKeepsCount(c) ==
    /\ c \notin calling
    /\ \/ StartCall(c)
       \/ /\ breaker = "OPEN" /\ cooled
          /\ breaker' = "HALF_OPEN"
          /\ successRun' = 0
          /\ calling' = calling \cup {c}
          /\ UNCHANGED <<failureCount, successCount, cooled, failureRun>>

Execute(c) ==
    /\ c \notin calling
    /\ StartCall(c) \/ StartProbe(c)

CountedUpTo(limit, n) == IF n < limit THEN n + 1 ELSE n

OnSuccess(c) ==
    /\ c \in calling
    /\ calling' = calling \ {c}
    /\ failureRun' = 0 /\ successRun' = CountedUpTo(SuccessThreshold, successRun)
    /\ \/ /\ breaker = "HALF_OPEN" /\ successCount + 1 < SuccessThreshold
          /\ successCount' = successCount + 1
          /\ UNCHANGED <<breaker, failureCount>>
       \/ /\ breaker = "HALF_OPEN" /\ successCount + 1 >= SuccessThreshold
          /\ breaker' = "CLOSED"
          /\ failureCount' = 0 /\ successCount' = 0
       \/ /\ breaker # "HALF_OPEN"
          /\ failureCount' = 0
          /\ UNCHANGED <<breaker, successCount>>
    /\ UNCHANGED cooled

(* The call threw or ran into callTimeoutMs.                               *)
OnFailure(c) ==
    /\ c \in calling
    /\ failureCount < MaxFailures
    /\ calling' = calling \ {c}
    /\ failureCount' = failureCount + 1
    /\ cooled' = FALSE
    /\ breaker' = IF breaker = "HALF_OPEN" \/ failureCount + 1 >= FailureThreshold
                  THEN "OPEN"
                  ELSE breaker
    /\ failureRun' = CountedUpTo(FailureThreshold, failureRun) /\ successRun' = 0
    /\ UNCHANGED successCount

(* resetTimeoutMs pass.                                                    *)
CoolDown ==
    /\ ~cooled
    /\ cooled' = TRUE
    /\ UNCHANGED <<breaker, failureCount, successCount, calling, failureRun, successRun>>

Trip ==
    /\ breaker # "OPEN"
    /\ breaker' = "OPEN"
    /\ cooled' = FALSE
    /\ UNCHANGED <<failureCount, successCount, calling, failureRun, successRun>>

Reset ==
    /\ breaker' = "CLOSED"
    /\ failureCount' = 0 /\ successCount' = 0
    /\ UNCHANGED <<cooled, calling, failureRun, successRun>>

BreakerNext ==
    \/ \E c \in Callers : Execute(c) \/ OnSuccess(c) \/ OnFailure(c)
    \/ CoolDown \/ Trip \/ Reset

BreakerSpec == BreakerInit /\ [][BreakerNext]_breakerVars

---------------------------------------------------------------------------
(* Properties                                                              *)

(* Whatever the order in which the results of concurrent calls arrive, a   *)
(* result opens a closed breaker only as the last of FailureThreshold      *)
(* failures in a row, and closes it only as the last of SuccessThreshold   *)
(* successes in a row since a probe was let through.                       *)
TransitionEarned ==
    calling' # calling =>
        /\ breaker = "CLOSED" /\ breaker' = "OPEN" => failureRun' >= FailureThreshold
        /\ breaker # "CLOSED" /\ breaker' = "CLOSED" => successRun' >= SuccessThreshold

TransitionsEarned == [][TransitionEarned]_breakerVars
=============================================================================
