------------------------------- MODULE JobQueue -------------------------------
(***************************************************************************)
(* A job of a BullMQ queue (src/backend/src/config/queue.ts) as a worker   *)
(* sees it.  The handler of a job runs in some slot of some worker         *)
(* process; its outcome counts only while the job is still that run's.     *)
(*                                                                         *)
(* A process that dies, or whose event loop is blocked for longer than     *)
(* the job's lock lasts, loses the job: it is handed out again, once, with *)
(* the attempts it had.  A blocked run is not stopped: it goes on later    *)
(* next to its successor.                                                  *)
(***************************************************************************)
EXTENDS Naturals

CONSTANT Slots   \* bound: runs of a handler at the same time, each in a slot

(* dies    a process dies between two awaits                               *)
(* stalls  a run is blocked long enough to lose its job                    *)
(* redis   a call to Redis or to a queue throws                            *)
(* db      a database call throws                                          *)
(* node    a call to a blockchain node throws, whether it took effect or   *)
(*         not                                                             *)
(* underpays  a customer's transaction pays too little                     *)
FaultKinds == {"dies", "stalls", "redis", "db", "node", "underpays"}

Nobody == 0

ASSUME SlotsAssumption == Slots \subseteq Nat \ {Nobody}

JobState == {"absent", "waiting", "active", "completed", "failed"}

(* made is job.attemptsMade, run the slot that holds the job's lock.       *)
Job == [state : JobState, made : Nat, stalls : Nat, run : Slots \cup {Nobody}]

NoJob == [state |-> "absent", made |-> 0, stalls |-> 0, run |-> Nobody]

Added == [NoJob EXCEPT !.state = "waiting"]

Taken(job, i) == [job EXCEPT !.state = "active", !.run = i]

Holds(job, i) == job.run = i

Completed(job, i) ==
    IF Holds(job, i) THEN [job EXCEPT !.state = "completed", !.run = Nobody] ELSE job

Exhausted(job, attempts) == job.made + 1 >= attempts

(* The handler threw: another attempt, with backoff, while there are any.  *)
Failed(job, i, attempts) ==
    IF Holds(job, i)
    THEN [job EXCEPT !.made = @ + 1, !.run = Nobody,
                     !.state = IF Exhausted(job, attempts) THEN "failed" ELSE "waiting"]
    ELSE job

(* The stalled-job check: maxStalledCount is 1, and attemptsMade stays.    *)
Stalled(job) ==
    [job EXCEPT !.stalls = @ + 1, !.run = Nobody,
                !.state = IF job.stalls > 0 THEN "failed" ELSE "waiting"]
=============================================================================
