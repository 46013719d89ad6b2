-------------------------- MODULE MCApprovalHistory --------------------------
(* Instances of ApprovalHistory for TLC.                                   *)
EXTENDS ApprovalHistory, TLC

CONSTANTS a1, a2, a3, w1

UnitAmount == [w \in Withdrawals |-> 1]
LargeUsd == [w \in Withdrawals |-> 10]

(* One approval for a withdrawal of 10, or two and a cooling period.       *)
Limits(auto, single, n) ==
    [autoApproveLimit |-> auto, singleApprovalLimit |-> single, requiredApprovals |-> n]
VaryingThresholds == {Limits(1, 10, 2), Limits(1, 20, 2)}
=============================================================================
