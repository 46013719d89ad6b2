------------------------- MODULE CircuitBreaker_proofs -------------------------
(***************************************************************************)
(* Proofs about the circuit breaker, for any number of callers, any        *)
(* thresholds and any bound on the failures counted.                       *)
(*                                                                         *)
(* What makes TransitionsEarned hold is a relation between the counters    *)
(* and what happened: while the breaker is closed, its failures all came   *)
(* in a row, because each way into CLOSED clears failureCount; while it    *)
(* is half open, its successes were all counted since it became so.        *)
(***************************************************************************)
EXTENDS CircuitBreaker, TLAPS

CountersEarned ==
    /\ breaker = "CLOSED" => failureCount <= failureRun
    /\ breaker = "HALF_OPEN" => successCount <= successRun

BreakerInv == BreakerTypeOK /\ CountersEarned

(* A capped counter that is at least as large as a plain one stays so,     *)
(* until the plain one reaches the cap, and then it is at the cap.         *)
LEMMA CountedUpToBounds ==
    ASSUME NEW limit \in Nat \ {0}, NEW n \in Nat, NEW counter \in Nat, counter <= n
    PROVE  /\ CountedUpTo(limit, n) \in Nat
           /\ counter + 1 < limit => counter + 1 <= CountedUpTo(limit, n)
           /\ counter + 1 >= limit => CountedUpTo(limit, n) >= limit
BY DEF CountedUpTo

LEMMA CountedUpToNat ==
    ASSUME NEW limit \in Nat \ {0}, NEW n \in Nat
    PROVE  CountedUpTo(limit, n) \in Nat
BY DEF CountedUpTo

LEMMA BreakerInitInv == BreakerInit => BreakerInv
BY DEF BreakerInit, BreakerInv, BreakerTypeOK, CountersEarned

(* A failure in CLOSED lengthens the run it is counted in; a failure in    *)
(* any other state leaves the breaker open.                                *)
LEMMA OnFailureInv ==
    ASSUME BreakerConstants, BreakerInv, NEW c \in Callers, OnFailure(c)
    PROVE  BreakerInv'
<1> USE DEF BreakerConstants, BreakerInv, BreakerTypeOK
<1>1. failureRun' \in Nat
  BY CountedUpToNat DEF OnFailure
<1>2. BreakerTypeOK'
  <2>1. breaker' \in {"CLOSED", "OPEN", "HALF_OPEN"}
    BY DEF OnFailure
  <2>2. failureCount' \in Nat /\ successCount' \in Nat /\ successRun' \in Nat
    BY DEF OnFailure
  <2>3. cooled' \in BOOLEAN /\ calling' \in SUBSET Callers
    BY DEF OnFailure
  <2> QED BY <1>1, <2>1, <2>2, <2>3
<1>3. breaker' = "CLOSED" => failureCount' <= failureRun'
  <2> SUFFICES ASSUME breaker' = "CLOSED" PROVE failureCount' <= failureRun'
    OBVIOUS
  <2>1. breaker = "CLOSED" /\ failureCount + 1 < FailureThreshold
    BY DEF OnFailure
  <2>2. failureCount <= failureRun
    BY <2>1 DEF CountersEarned
  <2>3. failureCount + 1 <= CountedUpTo(FailureThreshold, failureRun)
    BY <2>1, <2>2, CountedUpToBounds
  <2> QED BY <2>3 DEF OnFailure
<1>4. breaker' # "HALF_OPEN"
  BY DEF OnFailure
<1> QED BY <1>2, <1>3, <1>4 DEF CountersEarned

(* A success in HALF_OPEN lengthens the run it is counted in, or closes    *)
(* the breaker with both counters cleared.                                 *)
LEMMA OnSuccessInv ==
    ASSUME BreakerConstants, BreakerInv, NEW c \in Callers, OnSuccess(c)
    PROVE  BreakerInv'
<1> USE DEF BreakerConstants, BreakerInv, BreakerTypeOK
<1>1. successRun' \in Nat
  BY CountedUpToNat DEF OnSuccess
<1>2. BreakerTypeOK'
  BY <1>1 DEF OnSuccess
<1>3. breaker' = "CLOSED" => failureCount' <= failureRun'
  BY DEF OnSuccess
<1>4. breaker' = "HALF_OPEN" => successCount' <= successRun'
  <2> SUFFICES ASSUME breaker' = "HALF_OPEN" PROVE successCount' <= successRun'
    OBVIOUS
  <2>1. /\ breaker = "HALF_OPEN" /\ successCount + 1 < SuccessThreshold
        /\ successCount' = successCount + 1
    BY DEF OnSuccess
  <2>2. successCount <= successRun
    BY <2>1 DEF CountersEarned
  <2>3. successCount + 1 <= CountedUpTo(SuccessThreshold, successRun)
    BY <2>1, <2>2, CountedUpToBounds
  <2> QED BY <2>1, <2>3 DEF OnSuccess
<1> QED BY <1>2, <1>3, <1>4 DEF CountersEarned

LEMMA BreakerNextInv ==
    BreakerConstants /\ BreakerInv /\ [BreakerNext]_breakerVars => BreakerInv'
<1> SUFFICES ASSUME BreakerConstants, BreakerInv, [BreakerNext]_breakerVars PROVE BreakerInv'
  OBVIOUS
<1> USE DEF BreakerInv, BreakerTypeOK, CountersEarned
<1>1. ASSUME NEW c \in Callers, Execute(c) PROVE BreakerInv'
  BY <1>1 DEF Execute, StartCall, StartProbe
<1>2. ASSUME NEW c \in Callers, OnSuccess(c) PROVE BreakerInv'
  BY <1>2, OnSuccessInv
<1>3. ASSUME NEW c \in Callers, OnFailure(c) PROVE BreakerInv'
  BY <1>3, OnFailureInv
<1>4. CASE CoolDown
  BY <1>4 DEF CoolDown
<1>5. CASE Trip
  BY <1>5 DEF Trip
<1>6. CASE Reset
  BY <1>6 DEF Reset
<1>7. CASE UNCHANGED breakerVars
  BY <1>7 DEF breakerVars
<1> QED BY <1>1, <1>2, <1>3, <1>4, <1>5, <1>6, <1>7 DEF BreakerNext

(* The breaker's state and counters have the types the code gives them,    *)
(* and the counters say what really happened.                              *)
THEOREM BreakerInvariant ==
    ASSUME BreakerConstants
    PROVE  BreakerSpec => []BreakerInv
<1>1. BreakerInit => BreakerInv
  BY BreakerInitInv
<1>2. BreakerInv /\ [BreakerNext]_breakerVars => BreakerInv'
  BY BreakerNextInv
<1> QED BY <1>1, <1>2, PTL DEF BreakerSpec

LEMMA StepEarned ==
    ASSUME BreakerConstants, BreakerInv, [BreakerNext]_breakerVars
    PROVE  [TransitionEarned]_breakerVars
<1> SUFFICES ASSUME calling' # calling PROVE TransitionEarned
  BY DEF TransitionEarned
<1> USE DEF BreakerConstants, BreakerInv, BreakerTypeOK
<1>1. ASSUME NEW c \in Callers, Execute(c) PROVE TransitionEarned
  BY <1>1 DEF Execute, StartCall, StartProbe, TransitionEarned
<1>2. ASSUME NEW c \in Callers, OnSuccess(c) PROVE TransitionEarned
  <2>1. breaker = "CLOSED" => breaker' # "OPEN"
    BY <1>2 DEF OnSuccess
  <2>2. ASSUME breaker # "CLOSED", breaker' = "CLOSED"
        PROVE  successRun' >= SuccessThreshold
    <3>1. breaker = "HALF_OPEN" /\ successCount + 1 >= SuccessThreshold
      BY <1>2, <2>2 DEF OnSuccess
    <3>2. successCount <= successRun
      BY <3>1 DEF CountersEarned
    <3>3. CountedUpTo(SuccessThreshold, successRun) >= SuccessThreshold
      BY <3>1, <3>2, CountedUpToBounds
    <3> QED BY <1>2, <3>3 DEF OnSuccess
  <2> QED BY <2>1, <2>2 DEF TransitionEarned
<1>3. ASSUME NEW c \in Callers, OnFailure(c) PROVE TransitionEarned
  <2>1. breaker # "CLOSED" => breaker' # "CLOSED"
    BY <1>3 DEF OnFailure
  <2>2. ASSUME breaker = "CLOSED", breaker' = "OPEN"
        PROVE  failureRun' >= FailureThreshold
    <3>1. failureCount + 1 >= FailureThreshold
      BY <1>3, <2>2 DEF OnFailure
    <3>2. failureCount <= failureRun
      BY <2>2 DEF CountersEarned
    <3>3. CountedUpTo(FailureThreshold, failureRun) >= FailureThreshold
      BY <3>1, <3>2, CountedUpToBounds
    <3> QED BY <1>3, <3>3 DEF OnFailure
  <2> QED BY <2>1, <2>2 DEF TransitionEarned
<1>4. ~CoolDown /\ ~Trip /\ ~Reset /\ ~UNCHANGED breakerVars
  BY DEF CoolDown, Trip, Reset, breakerVars
<1> QED BY <1>1, <1>2, <1>3, <1>4 DEF BreakerNext

(* A result opens a closed breaker only as the last of FailureThreshold    *)
(* failures in a row, and closes it only as the last of SuccessThreshold   *)
(* successes in a row.                                                     *)
THEOREM BreakerTransitionsEarned ==
    ASSUME BreakerConstants
    PROVE  BreakerSpec => TransitionsEarned
<1>1. BreakerInv /\ [BreakerNext]_breakerVars => [TransitionEarned]_breakerVars
  BY StepEarned
<1> QED BY <1>1, BreakerInvariant, PTL DEF BreakerSpec, TransitionsEarned
=============================================================================
