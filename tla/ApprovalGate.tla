----------------------------- MODULE ApprovalGate -----------------------------
(***************************************************************************)
(* What multi-signature approval promises: the verdict on a withdrawal     *)
(* changes only for a reason that is on record.  Votes are recorded and    *)
(* never withdrawn; a full approval is backed by as many distinct voters   *)
(* as were asked for when the withdrawal was opened for voting; and the    *)
(* number asked for is fixed once voting started.                          *)
(*                                                                         *)
(* It abstracts src/backend/src/services/withdrawal-approval.service.ts:   *)
(* requests, their stale reads, the count kept in the row, the cooling     *)
(* period, balances and the queue are not here.                            *)
(***************************************************************************)
EXTENDS Naturals, FiniteSets

CONSTANTS
    Withdrawals,
    Voters,
    Counts       \* the numbers of approvals a withdrawal may be opened with

VARIABLES
    verdict,     \* the decision on each withdrawal
    need,        \* how many approvals it was opened with
    approvers, rejecters, overriders   \* who voted, and how

vars == <<verdict, need, approvers, rejecters, overriders>>

Init ==
    /\ verdict = [w \in Withdrawals |-> "NONE"]
    /\ need = [w \in Withdrawals |-> 0]
    /\ approvers = [w \in Withdrawals |-> {}]
    /\ rejecters = [w \in Withdrawals |-> {}]
    /\ overriders = [w \in Withdrawals |-> {}]

(* A withdrawal opened without asking for approvals still takes one.       *)
Quorum(w) == Cardinality(approvers[w]) >= (IF need[w] = 0 THEN 1 ELSE need[w])

(* Voting starts once: nobody voted, except by an override.                *)
Open(w, n) ==
    /\ verdict[w] \in {"NONE", "EMERGENCY_OVERRIDE"}
    /\ verdict' = [verdict EXCEPT ![w] = IF n = 0 THEN "AUTO_APPROVED" ELSE "PENDING"]
    /\ need' = [need EXCEPT ![w] = n]
    /\ UNCHANGED <<approvers, rejecters, overriders>>

Approve(w, a) ==
    /\ verdict[w] # "NONE"
    /\ approvers' = [approvers EXCEPT ![w] = @ \cup {a}]
    /\ UNCHANGED <<verdict, need, rejecters, overriders>>

Reject(w, a) ==
    /\ verdict[w] # "NONE"
    /\ rejecters' = [rejecters EXCEPT ![w] = @ \cup {a}]
    /\ UNCHANGED <<verdict, need, approvers, overriders>>

Override(w, a) ==
    /\ a \notin approvers[w]
    /\ approvers' = [approvers EXCEPT ![w] = @ \cup {a}]
    /\ overriders' = [overriders EXCEPT ![w] = @ \cup {a}]
    /\ UNCHANGED <<verdict, need, rejecters>>

Decide(w, v) ==
    /\ \/ v = "FULLY_APPROVED" /\ verdict[w] # "NONE" /\ Quorum(w)
       \/ v = "REJECTED" /\ verdict[w] # "NONE" /\ rejecters[w] # {}
       \/ v = "EMERGENCY_OVERRIDE" /\ overriders[w] # {}
    /\ verdict' = [verdict EXCEPT ![w] = v]
    /\ UNCHANGED <<need, approvers, rejecters, overriders>>

Next ==
    \E w \in Withdrawals :
        \/ \E n \in Counts : Open(w, n)
        \/ \E a \in Voters : Approve(w, a) \/ Reject(w, a) \/ Override(w, a)
        \/ \E v \in {"FULLY_APPROVED", "REJECTED", "EMERGENCY_OVERRIDE"} : Decide(w, v)

Spec == Init /\ [][Next]_vars
=============================================================================
