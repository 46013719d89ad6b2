------------------------------ MODULE RateLimiter ------------------------------
(***************************************************************************)
(* The rate limiter of the API (src/backend/src/middleware/                *)
(* advancedRateLimiter.ts) for the requests of one client.  Its scripts    *)
(* run atomically in Redis, but a request takes its time before it calls   *)
(* them: they may run in another order than the times they are given, and  *)
(* find that the key expired.  The API and Redis go by the same clock.     *)
(***************************************************************************)
EXTENDS Integers, FiniteSets

CONSTANTS
    HttpRequests,    \* bound: requests of the client
    Horizon,         \* bound: the last time
    TagOf,           \* the random number the script draws for a request
    RequestLimit,    \* requestsPerMinute
    Window,          \* WINDOW_SIZE_MS
    WindowTtl,       \* ttlSeconds
    BurstLimit, BurstWindow, BurstTtl

(* What the composing module assumes of the constants.                     *)
LimiterConstants ==
    /\ {Horizon, RequestLimit, Window, WindowTtl, BurstLimit, BurstWindow, BurstTtl} \subseteq Nat
    /\ BurstWindow <= Window
    /\ TagOf \in [HttpRequests -> Nat]

VARIABLES
    faults,      \* what may go wrong; never changes
    clock,
    windowKey,   \* sorted set of the window: members [time, tag]
    burstKey,    \* sorted set of the burst window
    windowExpires, burstExpires,  \* when the keys expire, 0 without one
    http,        \* request -> [at, time, burst]
    late         \* history: a request's script on the window ran longer after
                 \* it came than the key outlives the window

limiterVars == <<clock, windowKey, burstKey, windowExpires, burstExpires, http, late>>

Times == 0..Horizon
Member == [time : Times, tag : Nat]

(* passed: next() was called; caught: Redis threw, and it was called       *)
(* unless the path is sensitive.                                           *)
LimiterTypeOK ==
    /\ clock \in Times
    /\ windowKey \in SUBSET Member
    /\ burstKey \in SUBSET Member
    /\ windowExpires \in Nat /\ burstExpires \in Nat
    /\ late \in BOOLEAN
    /\ http \in [HttpRequests ->
          [at : {"no", "burst", "window", "track", "passed", "caught", "refused"},
           time : Times, burst : BOOLEAN]]

LimiterInit ==
    /\ clock = 0
    /\ windowKey = {} /\ burstKey = {}
    /\ windowExpires = 0 /\ burstExpires = 0
    /\ late = FALSE
    /\ http = [r \in HttpRequests |-> [at |-> "no", time |-> 0, burst |-> FALSE]]

HttpAt(r, step) == http' = [http EXCEPT ![r].at = step]
MemberOf(r) == [time |-> http[r].time, tag |-> TagOf[r]]

(* Seeded fault: a member of the window is removed one tick early.         *)
RemovedEarly(key, start) == {m \in key : m.time > start + 1}

(* ZREMRANGEBYSCORE key -inf start                                         *)
Remaining(key, start) == {m \in key : m.time > start}

---------------------------------------------------------------------------
(* Time goes on, and Redis drops the keys that expire.                     *)
Tick ==
    /\ clock < Horizon /\ clock' = clock + 1
    /\ IF clock' < windowExpires THEN UNCHANGED <<windowKey, windowExpires>>
                                 ELSE windowKey' = {} /\ windowExpires' = 0
    /\ IF clock' < burstExpires THEN UNCHANGED <<burstKey, burstExpires>>
                                ELSE burstKey' = {} /\ burstExpires' = 0
    /\ UNCHANGED <<http, late>>

Arrive(r) ==
    /\ http[r].at = "no"
    /\ http' = [http EXCEPT ![r].at = "burst", ![r].time = clock]
    /\ UNCHANGED <<clock, windowKey, burstKey, windowExpires, burstExpires, late>>

(* BURST_WINDOW_LUA                                                        *)
CheckBurst(r) ==
    /\ http[r].at = "burst"
    /\ burstKey' = Remaining(burstKey, http[r].time - BurstWindow)
    /\ http' = [http EXCEPT ![r].at = "window",
                            ![r].burst = Cardinality(burstKey') >= BurstLimit]
    /\ UNCHANGED <<clock, windowKey, windowExpires, burstExpires, late>>

(* SLIDING_WINDOW_LUA: adds the request if there is room.  It has the key  *)
(* expire a while after this run, whether there was room or not.           *)
Slide(key, r, size, limit) ==
    LET remaining == Remaining(key, http[r].time - size) IN
    IF Cardinality(remaining) < limit THEN remaining \cup {MemberOf(r)} ELSE remaining

(* A request over its burst limit is refused, though it was counted.  What *)
(* the headers need is read after the script and may throw.                *)
CheckWindow(r) ==
    /\ http[r].at = "window"
    /\ windowKey' = Slide(windowKey, r, Window, RequestLimit)
    /\ windowExpires' = clock + WindowTtl
    /\ late' = (late \/ clock - http[r].time > WindowTtl - Window)
    /\ LET allowed == Cardinality(Remaining(windowKey, http[r].time - Window)) < RequestLimit IN
       \/ HttpAt(r, IF allowed /\ ~http[r].burst THEN "track" ELSE "refused")
       \/ "redis" \in faults /\ HttpAt(r, "caught")
    /\ UNCHANGED <<clock, burstKey, burstExpires>>

TrackBurst(r) ==
    /\ http[r].at = "track"
    /\ burstKey' = Slide(burstKey, r, BurstWindow, BurstLimit)
    /\ burstExpires' = clock + BurstTtl
    /\ HttpAt(r, "passed")
    /\ UNCHANGED <<clock, windowKey, windowExpires, late>>

RedisThrows(r) ==
    /\ "redis" \in faults
    /\ http[r].at \in {"burst", "window", "track"}
    /\ HttpAt(r, "caught")
    /\ UNCHANGED <<clock, windowKey, burstKey, windowExpires, burstExpires, late>>

LimiterNext ==
    /\ \/ \E r \in HttpRequests :
             Arrive(r) \/ CheckBurst(r) \/ CheckWindow(r) \/ TrackBurst(r) \/ RedisThrows(r)
       \/ Tick
    /\ UNCHANGED faults

---------------------------------------------------------------------------
(* Properties                                                              *)

(* Requests the limiter let pass and that it had not failed on.            *)
Passed == {r \in HttpRequests : http[r].at = "passed"}

(* Requests that have come, wherever they are.                             *)
Arrived == {r \in HttpRequests : http[r].at # "no"}

(* In the window that ends with the latest request to come, no more than   *)
(* RequestLimit requests pass, in whatever order their scripts run and     *)
(* whatever else fails, as long as no script runs later than the key       *)
(* outlives the window: the one that does finds the key expired, and lets  *)
(* its request pass.  Requests of one millisecond whose random numbers     *)
(* collide count as one.  It would not hold of the window of the latest    *)
(* request let through: a later one that was counted, and then refused,    *)
(* has removed members that another script should still have counted.      *)
LimitHolds ==
    ~late => \A last \in Arrived :
        (\A r \in Arrived : http[r].time <= http[last].time) =>
            Cardinality({MemberOf(r) : r \in {q \in Passed :
                http[q].time > http[last].time - Window}}) <= RequestLimit
=============================================================================
