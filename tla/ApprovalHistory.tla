--------------------------- MODULE ApprovalHistory ---------------------------
(***************************************************************************)
(* WithdrawalApproval with two history variables: what a request did to    *)
(* another one, or left undone when it died, that no row shows later.  No  *)
(* action reads them; the properties below name with them the overlaps     *)
(* and the deaths that make a decision go missing, and no others.          *)
(***************************************************************************)
EXTENDS WithdrawalApproval

VARIABLES
    raced,   \* withdrawals two requests raced for, one losing what it wrote
    died     \* <<w, op, at>>: a request op about w died halfway, at at

historyVars == <<raced, died>>

(* Two approvals that overlap may count from the same number; an override  *)
(* that overlaps the submission is undone by it.                           *)
Race(w) ==
    \E c, d \in calls :
        /\ c # d /\ c.w = w /\ d.w = w
        /\ {c.op, d.op} \in {{"approve"}, {"submit", "override"}}

(* Where a request has written an approval row or a decision and not yet   *)
(* what follows from it.                                                   *)
Halfway == {<<"approve", "count">>, <<"approve", "finish">>, <<"override", "update">>,
            <<"approve", "enqueue">>, <<"reject", "refund">>}

HistoryInit == Init /\ raced = {} /\ died = {}

HistoryNext ==
    /\ Next
    /\ raced' = raced \cup {w \in Withdrawals : Race(w)'}
    /\ died' = died \cup {<<c.w, c.op, c.at>> :
                             c \in {d \in calls : <<d.op, d.at>> \in Halfway /\ Abort(d)}}

HistorySpec == HistoryInit /\ [][HistoryNext]_<<vars, historyVars>>
FairHistorySpec == HistorySpec /\ Fairness

---------------------------------------------------------------------------
(* Properties                                                              *)

(* A withdrawal that waits for approval, with no request about it being    *)
(* served, has fewer approval rows than it needs: whoever completed the    *)
(* quorum also moved the withdrawal on ("processes if threshold met").     *)
(* Rejections, retries, refusals, an override beside an approval and       *)
(* deaths elsewhere do not change that; two approvals that overlap, an     *)
(* override that overlaps the submission, and a death between an approval  *)
(* row and the update it calls for, do.                                    *)
QuorumDecides ==
    \A w \in Withdrawals \ raced :
        /\ status[w] = "PENDING_APPROVAL"
        /\ \A c \in calls : c.w # w
        /\ {<<w, "approve", "count">>, <<w, "approve", "finish">>, <<w, "override", "update">>}
              \cap died = {}
        => Cardinality(approvedBy[w]) < OrOne(required[w])

(* Every decision is carried out, whatever overlapping requests do to the  *)
(* withdrawal meanwhile and wherever they die: a withdrawal that is fully  *)
(* approved reaches the payout queue and a rejected one has its balance    *)
(* given back, unless the very request that decided dies between the two.  *)
DecisionCarriedOut ==
    \A w \in Withdrawals :
        /\ approvalStatus[w] = "FULLY_APPROVED" ~>
               Queued(w) > 0 \/ <<w, "approve", "enqueue">> \in died
        /\ approvalStatus[w] = "REJECTED" ~>
               credits[w] > 0 \/ <<w, "reject", "refund">> \in died
=============================================================================
